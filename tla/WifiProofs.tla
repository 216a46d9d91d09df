------------------------------ MODULE WifiProofs ------------------------------
(***************************************************************************)
(* Proofs about the access point compiler.  First the numbered records it  *)
(* edits: a write takes a free number and a deletion leaves the others     *)
(* alone.  Then its operators on a whole body: each of them leaves a whole *)
(* body and changes the records of one WLAN.  Last the inductive           *)
(* invariants: ComposingInv (the record numbers resolved at the start      *)
(* still lead to their WLANs while the draft changes), and on top of it    *)
(* UntouchedInv, OwnedInv, SuppliedInv and RepeatInv, one for each         *)
(* property.  The sequences that are written record by record are reasoned *)
(* about over the set of their positions, by a least counterexample.       *)
(***************************************************************************)
EXTENDS WifiCompiler, FiniteSetTheorems, WellFoundedInduction, TLAPS

-------------------------------------------------------------------------------
(* Numbers *)

\* The order of the numbers is well founded.
LEMMA SmallerIsWellFounded ==
    \E R : IsWellFoundedOn(R, Nat) /\ \A x, y \in Nat : x < y => <<x, y>> \in R
<1> DEFINE R == OpToRel(<, Nat)
<1>1. \A x, y \in Nat : x < y => <<x, y>> \in R
  BY DEF OpToRel
<1>2. IsWellFoundedOn(R, Nat)
  BY NatLessThanWellFounded
<1> HIDE DEF R
<1> QED
  BY <1>1, <1>2

\* A set of numbers has a least one: the code takes the first record it finds.
LEMMA LeastIn ==
    ASSUME NEW S, S \subseteq Nat, S # {}
    PROVE  Least(S) \in S /\ \A y \in S : Least(S) <= y
<1>1. PICK R : IsWellFoundedOn(R, Nat) /\ \A x, y \in Nat : x < y => <<x, y>> \in R
  BY SmallerIsWellFounded
<1>2. IsWellFoundedOn(R, Nat)
  BY <1>1
<1>3. PICK x \in S : \A y \in S : ~(<<y, x>> \in R)
  BY <1>2, WFMin, Zenon
<1>4. ASSUME NEW y \in S PROVE x <= y
  <2>1. x \in Nat /\ y \in Nat
    OBVIOUS
  <2>2. ~(y < x)
    BY <1>1, <1>3, <2>1, Zenon
  <2> QED
    BY <2>1, <2>2
<1> QED
  BY <1>3, <1>4 DEF Least

\* Induction, over a set of numbers.
LEMMA UpTo ==
    ASSUME NEW N \in Nat, NEW S, 0 \in S, \A n \in 0 .. N : n \in S /\ n < N => n + 1 \in S
    PROVE  \A n \in 0 .. N : n \in S
<1> DEFINE rest == {n \in 0 .. N : n \notin S}
           l == Least(rest)
<1> SUFFICES ASSUME rest # {} PROVE FALSE
  OBVIOUS
<1>1. l \in rest /\ \A y \in rest : l <= y
  BY LeastIn
<1> HIDE DEF l
<1>2. l # 0 /\ l \in 0 .. N /\ l \notin S
  BY <1>1
<1>3. l - 1 \in 0 .. N /\ ~(l <= l - 1) /\ l - 1 < N /\ (l - 1) + 1 = l
  BY <1>2
<1>4. l - 1 \in S
  BY <1>1, <1>3
<1> QED
  BY <1>2, <1>3, <1>4

\* Of the numbers 0 to k, one is not in a set of k elements.
LEMMA OneIsFree ==
    ASSUME NEW D, IsFiniteSet(D), NEW lo \in Nat
    PROVE  \E n \in lo .. Cardinality(D) + lo : n \notin D
<1> SUFFICES ASSUME lo .. Cardinality(D) + lo \subseteq D PROVE FALSE
  OBVIOUS
<1>1. Cardinality(D) \in Nat
  BY FS_CardinalityType
<1>2. Cardinality(lo .. Cardinality(D) + lo) <= Cardinality(D)
  BY FS_Subset
<1>3. Cardinality(lo .. Cardinality(D) + lo) = Cardinality(D) + 1
  BY <1>1, FS_Interval
<1> QED
  BY <1>1, <1>2, <1>3

\* A record is written at a number that no record has.
LEMMA NextRecordIsFree ==
    ASSUME NEW f, IsFiniteSet(DOMAIN f)
    PROVE  NextRecord(f) \in Nat \ {0} /\ NextRecord(f) \notin DOMAIN f
<1> DEFINE free == (1 .. Cardinality(DOMAIN f) + 1) \ DOMAIN f
<1>1. Cardinality(DOMAIN f) \in Nat
  BY FS_CardinalityType
<1>2. free # {}
  BY OneIsFree
<1>3. Least(free) \in free
  BY <1>1, <1>2, LeastIn
<1> QED
  BY <1>1, <1>3 DEF NextRecord

-------------------------------------------------------------------------------
(* Numbered records *)

\* Writing a record of the right type keeps the records typed.
LEMMA PutType ==
    ASSUME NEW T, NEW f, Numbered(f, T), NEW x \in T
    PROVE  Numbered(Put(f, x), T)
<1> DEFINE n == NextRecord(f)
<1>1. n \in Nat \ {0} /\ n \notin DOMAIN f
  BY NextRecordIsFree DEF Numbered
<1>2. Put(f, x) = [m \in DOMAIN f \cup {n} |-> IF m = n THEN x ELSE f[m]]
  BY DEF Put
<1>3. IsFiniteSet(DOMAIN f \cup {n})
  BY FS_AddElement DEF Numbered
<1> HIDE DEF n
<1> QED
  BY <1>1, <1>2, <1>3 DEF Numbered

\* Writing a record adds it at its number and leaves the others as they are.
LEMMA PutIs ==
    ASSUME NEW T, NEW f, Numbered(f, T), NEW x
    PROVE  /\ NextRecord(f) \in Nat \ {0} /\ NextRecord(f) \notin DOMAIN f
           /\ DOMAIN Put(f, x) = DOMAIN f \cup {NextRecord(f)}
           /\ Put(f, x)[NextRecord(f)] = x
           /\ \A m \in DOMAIN f : Put(f, x)[m] = f[m]
           /\ Uses(Put(f, x)) = Uses(f) \cup {x}
<1> DEFINE n == NextRecord(f)
<1>1. n \in Nat \ {0} /\ n \notin DOMAIN f
  BY NextRecordIsFree DEF Numbered
<1>2. Put(f, x) = [m \in DOMAIN f \cup {n} |-> IF m = n THEN x ELSE f[m]]
  BY DEF Put
<1> HIDE DEF n
<1>3. /\ DOMAIN Put(f, x) = DOMAIN f \cup {n}
      /\ Put(f, x)[n] = x
      /\ \A m \in DOMAIN f : Put(f, x)[m] = f[m]
  BY <1>1, <1>2
<1>4. Uses(Put(f, x)) = Uses(f) \cup {x}
  BY <1>3 DEF Uses
<1> QED
  BY <1>1, <1>3, <1>4 DEF n

\* Deleting records leaves the others as they are.
LEMMA DeleteIs ==
    ASSUME NEW T, NEW f, Numbered(f, T), NEW S
    PROVE  /\ Numbered(DeleteRecord(f, S), T)
           /\ DOMAIN DeleteRecord(f, S) = DOMAIN f \ S
           /\ \A m \in DOMAIN f \ S : DeleteRecord(f, S)[m] = f[m]
<1>1. IsFiniteSet(DOMAIN f \ S)
  BY FS_Difference DEF Numbered
<1> QED
  BY <1>1 DEF Numbered, DeleteRecord

\* The recursion that writes a sequence of records is defined for every sequence.
LEMMA PutAllSteps ==
    ASSUME NEW f, NEW xs, Len(xs) \in Nat
    PROVE  \E put : /\ put = [k \in 0 .. Len(xs) |-> IF k = 0 THEN f ELSE Put(put[k - 1], xs[k])]
                    /\ PutAll(f, xs) = put[Len(xs)]
<1> DEFINE Def(g, n) == g = [k \in 0 .. n |-> IF k = 0 THEN f ELSE Put(g[k - 1], xs[k])]
           S == {n \in Nat : \E g : Def(g, n)}
<1>1. \A n \in 0 .. Len(xs) : n \in S
  <2>1. 0 \in S
    <3> DEFINE g == [k \in 0 .. 0 |-> f]
    <3>1. Def(g, 0)
      OBVIOUS
    <3> QED
      BY <3>1
  <2>2. ASSUME NEW n \in 0 .. Len(xs), n \in S PROVE n + 1 \in S
    <3>1. PICK g : Def(g, n)
      BY <2>2
    <3> DEFINE h == [k \in 0 .. n + 1 |-> IF k = n + 1 THEN Put(g[n], xs[n + 1]) ELSE g[k]]
    <3>2. ASSUME NEW k \in 0 .. n + 1
          PROVE  h[k] = IF k = 0 THEN f ELSE Put(h[k - 1], xs[k])
      <4>1. CASE k = n + 1
        BY <4>1
      <4>2. CASE k # n + 1
        <5>1. k \in 0 .. n /\ h[k] = g[k]
          BY <4>2
        <5>2. g[k] = IF k = 0 THEN f ELSE Put(g[k - 1], xs[k])
          BY <3>1, <5>1
        <5>3. k # 0 => h[k - 1] = g[k - 1]
          BY <5>1
        <5> QED
          BY <5>1, <5>2, <5>3
      <4> QED
        BY <4>1, <4>2
    <3>3. h = [k \in 0 .. n + 1 |-> h[k]]
      OBVIOUS
    <3> HIDE DEF h
    <3>4. Def(h, n + 1)
      BY <3>2, <3>3
    <3> QED
      BY <3>4
  <2> HIDE DEF S
  <2> QED
    BY <2>1, <2>2, UpTo
<1>2. PICK g : Def(g, Len(xs))
  BY <1>1
<1> DEFINE put == CHOOSE p : p = [k \in 0 .. Len(xs) |-> IF k = 0 THEN f ELSE Put(p[k - 1], xs[k])]
<1>3. put = [k \in 0 .. Len(xs) |-> IF k = 0 THEN f ELSE Put(put[k - 1], xs[k])]
  BY <1>2
<1>4. PutAll(f, xs) = put[Len(xs)]
  BY DEF PutAll
<1> QED
  BY <1>3, <1>4

\* The values of a sequence, and a sequence without repetitions.
Lists(xs, V) ==
    /\ Len(xs) \in Nat
    /\ \A k \in 1 .. Len(xs) : xs[k] \in V
    /\ \A d \in V : \E k \in 1 .. Len(xs) : d = xs[k]

Apart(xs) == \A k, l \in 1 .. Len(xs) : xs[k] = xs[l] => k = l

\* Records written in sequence get new numbers, each one of its own.
LEMMA PutAllIs ==
    ASSUME NEW T, NEW f, Numbered(f, T),
           NEW xs, NEW V, Lists(xs, V), V \subseteq T,
           NEW g, g = PutAll(f, xs)
    PROVE  /\ Numbered(g, T)
           /\ \A m \in DOMAIN f : m \in DOMAIN g /\ g[m] = f[m]
           /\ \A m \in DOMAIN g \ DOMAIN f : g[m] \in V
           /\ \A d \in V : \E m \in DOMAIN g : g[m] = d
           /\ IsInjective(f) /\ Apart(xs) /\ V \cap Uses(f) = {} => IsInjective(g)
<1>0. /\ Len(xs) \in Nat
      /\ \A k \in 1 .. Len(xs) : xs[k] \in V /\ xs[k] \in T
      /\ \A d \in V : \E k \in 1 .. Len(xs) : d = xs[k]
  BY DEF Lists
<1>1. PICK put : /\ put = [k \in 0 .. Len(xs) |-> IF k = 0 THEN f ELSE Put(put[k - 1], xs[k])]
                 /\ PutAll(f, xs) = put[Len(xs)]
  BY <1>0, PutAllSteps
<1>2. put[0] = f /\ \A n \in 0 .. Len(xs) : n < Len(xs) => put[n + 1] = Put(put[n], xs[n + 1])
  <2>1. put[0] = f
    BY <1>1
  <2>2. ASSUME NEW n \in 0 .. Len(xs), n < Len(xs) PROVE put[n + 1] = Put(put[n], xs[n + 1])
    <3>1. n + 1 \in 0 .. Len(xs) /\ n + 1 # 0 /\ (n + 1) - 1 = n
      BY <2>2
    <3> QED
      BY <1>1, <3>1
  <2> QED
    BY <2>1, <2>2
<1> DEFINE p == [k \in 1 .. Len(xs) |-> NextRecord(put[k - 1])]
           Old(n) == \A m \in DOMAIN f : put[n][m] = f[m]
           New(n) == \A k \in 1 .. n : /\ p[k] \in Nat \ {0} /\ p[k] \notin DOMAIN f
                                      /\ put[n][p[k]] = xs[k]
           Inj(n) == \A k, l \in 1 .. n : p[k] = p[l] => k = l
           Dom(n) == DOMAIN put[n] = DOMAIN f \cup {p[k] : k \in 1 .. n}
           S == {n \in 0 .. Len(xs) : Numbered(put[n], T) /\ Old(n) /\ New(n) /\ Inj(n) /\ Dom(n)}
<1>3. 0 \in S
  <2>1. 1 .. 0 = {}
    OBVIOUS
  <2>2. {p[k] : k \in 1 .. 0} = {}
    BY <2>1
  <2> HIDE DEF p
  <2> QED
    BY <1>2, <2>1, <2>2
<1>4. ASSUME NEW n \in 0 .. Len(xs), n \in S, n < Len(xs) PROVE n + 1 \in S
  <2> DEFINE q == NextRecord(put[n])
  <2>1. /\ Numbered(put[n + 1], T)
        /\ q \in Nat \ {0} /\ q \notin DOMAIN put[n]
        /\ DOMAIN put[n + 1] = DOMAIN put[n] \cup {q}
        /\ put[n + 1][q] = xs[n + 1]
        /\ \A m \in DOMAIN put[n] : put[n + 1][m] = put[n][m]
    <3>1. xs[n + 1] \in T
      BY <1>0, <1>4
    <3>2. put[n + 1] = Put(put[n], xs[n + 1])
      BY <1>2, <1>4
    <3>3. Numbered(put[n], T)
      BY <1>4
    <3> HIDE DEF S, p
    <3>4. Numbered(Put(put[n], xs[n + 1]), T)
      BY <3>1, <3>3, PutType
    <3>5. /\ q \in Nat \ {0} /\ q \notin DOMAIN put[n]
          /\ DOMAIN Put(put[n], xs[n + 1]) = DOMAIN put[n] \cup {q}
          /\ Put(put[n], xs[n + 1])[q] = xs[n + 1]
          /\ \A m \in DOMAIN put[n] : Put(put[n], xs[n + 1])[m] = put[n][m]
      BY <3>3, PutIs
    <3> QED
      BY <3>2, <3>4, <3>5
  <2>2. n + 1 \in 1 .. Len(xs) /\ p[n + 1] = q
    BY <1>4
  <2>3. \A k \in 1 .. n + 1 : k \in 1 .. n \/ k = n + 1
    OBVIOUS
  <2>4. Numbered(put[n], T) /\ Old(n) /\ New(n) /\ Inj(n) /\ Dom(n)
    BY <1>4
  <2> HIDE DEF p, q
  <2>5. Old(n + 1)
    BY <2>1, <2>4
  <2>6. New(n + 1)
    <3> TAKE k \in 1 .. n + 1
    <3>1. CASE k \in 1 .. n
      BY <2>1, <2>4, <3>1
    <3>2. CASE k = n + 1
      BY <2>1, <2>2, <2>4, <3>2
    <3> QED
      BY <2>3, <3>1, <3>2
  <2>7. \A k \in 1 .. n : p[k] # q
    BY <2>1, <2>4
  <2>8. Inj(n + 1)
    BY <2>2, <2>3, <2>4, <2>7
  <2>9. {p[k] : k \in 1 .. n + 1} = {p[k] : k \in 1 .. n} \cup {q}
    <3>1. \A x : x \in {p[k] : k \in 1 .. n + 1} <=> x \in {p[k] : k \in 1 .. n} \cup {q}
      BY <2>2, <2>3
    <3> QED
      BY <3>1
  <2>10. Dom(n + 1)
    BY <2>1, <2>4, <2>9
  <2>11. n + 1 \in 0 .. Len(xs)
    BY <1>4
  <2> HIDE DEF Old, New, Inj, Dom
  <2> QED
    BY <2>1, <2>5, <2>6, <2>8, <2>10, <2>11
<1>5. Len(xs) \in S
  <2> HIDE DEF S
  <2>1. \A n \in 0 .. Len(xs) : n \in S
    BY <1>0, <1>3, <1>4, UpTo
  <2> QED
    BY <1>0, <2>1
<1> DEFINE K == 1 .. Len(xs)
<1>6. /\ \A k \in K : p[k] \notin DOMAIN f
      /\ \A k, l \in K : p[k] = p[l] => k = l
      /\ Numbered(g, T)
      /\ \A m \in DOMAIN g : m \in DOMAIN f \/ \E k \in K : m = p[k]
      /\ \A m \in DOMAIN f : m \in DOMAIN g /\ g[m] = f[m]
      /\ \A k \in K : p[k] \in DOMAIN g /\ g[p[k]] = xs[k]
  <2> HIDE DEF p
  <2> QED
    BY <1>1, <1>5
<1> HIDE DEF p, K
<1>70. \A k \in K : xs[k] \in V
  BY <1>0 DEF K
<1>71. \A d \in V : \E k \in K : d = xs[k]
  BY <1>0 DEF K
<1>7. /\ \A m \in DOMAIN g \ DOMAIN f : g[m] \in V
      /\ \A d \in V : \E m \in DOMAIN g : g[m] = d
  BY <1>6, <1>70, <1>71
<1>8. ASSUME IsInjective(f), Apart(xs), V \cap Uses(f) = {}
      PROVE  IsInjective(g)
  <2>1. \A m \in DOMAIN f, k \in K : f[m] # xs[k]
    BY <1>70, <1>8 DEF Uses
  <2>0. \A k, l \in K : xs[k] = xs[l] => k = l
    BY <1>8 DEF Apart, K
  <2>2. SUFFICES ASSUME NEW m \in DOMAIN g, NEW n \in DOMAIN g, g[m] = g[n] PROVE m = n
    BY DEF IsInjective
  <2>3. CASE m \in DOMAIN f /\ n \in DOMAIN f
    BY <1>6, <1>8, <2>2, <2>3 DEF IsInjective
  <2>4. CASE m \notin DOMAIN f /\ n \notin DOMAIN f
    <3>1. PICK k \in K, l \in K : m = p[k] /\ n = p[l]
      BY <1>6, <2>4
    <3>2. xs[k] = xs[l]
      BY <1>6, <2>2, <3>1
    <3> QED
      BY <2>0, <3>1, <3>2
  <2>5. CASE m \in DOMAIN f /\ n \notin DOMAIN f
    BY <1>6, <2>1, <2>2, <2>5
  <2>6. CASE m \notin DOMAIN f /\ n \in DOMAIN f
    BY <1>6, <2>1, <2>2, <2>6
  <2> QED
    BY <2>3, <2>4, <2>5, <2>6
<1> QED
  BY <1>6, <1>7, <1>8

\* A record with a value of its own keeps the others' apart.
LEMMA PutInjective ==
    ASSUME NEW T, NEW f, Numbered(f, T), IsInjective(f), NEW x, x \notin Uses(f)
    PROVE  IsInjective(Put(f, x))
<1>1. /\ DOMAIN Put(f, x) = DOMAIN f \cup {NextRecord(f)}
      /\ Put(f, x)[NextRecord(f)] = x
      /\ \A m \in DOMAIN f : Put(f, x)[m] = f[m]
  BY PutIs
<1>2. \A m \in DOMAIN f : f[m] # x
  BY DEF Uses
<1> QED
  BY <1>1, <1>2 DEF IsInjective

\* Writing a record moves no other value.
LEMMA PutAt ==
    ASSUME NEW T, NEW f, Numbered(f, T), NEW x, NEW e, e # x
    PROVE  At(Put(f, x), e) = At(f, e)
<1>1. /\ NextRecord(f) \notin DOMAIN f
      /\ DOMAIN Put(f, x) = DOMAIN f \cup {NextRecord(f)}
      /\ Put(f, x)[NextRecord(f)] = x
      /\ \A m \in DOMAIN f : Put(f, x)[m] = f[m]
  BY PutIs
<1> QED
  BY <1>1 DEF At

\* Records written in sequence are those that were there and the sequence's.
LEMMA PutAllUses ==
    ASSUME NEW T, NEW f, Numbered(f, T), NEW xs, NEW V, Lists(xs, V), V \subseteq T
    PROVE  /\ \A m \in DOMAIN f : m \in DOMAIN PutAll(f, xs) /\ PutAll(f, xs)[m] = f[m]
           /\ \A m \in DOMAIN PutAll(f, xs) \ DOMAIN f : PutAll(f, xs)[m] \in V
           /\ Uses(PutAll(f, xs)) = Uses(f) \cup V
           /\ \A e : e \notin V => At(PutAll(f, xs), e) = At(f, e)
           /\ IsInjective(f) /\ Apart(xs) /\ V \cap Uses(f) = {} => IsInjective(PutAll(f, xs))
<1>0. PICK g : g = PutAll(f, xs)
  OBVIOUS
<1>1. /\ \A m \in DOMAIN f : m \in DOMAIN g /\ g[m] = f[m]
      /\ \A m \in DOMAIN g \ DOMAIN f : g[m] \in V
      /\ \A d \in V : \E m \in DOMAIN g : g[m] = d
      /\ IsInjective(f) /\ Apart(xs) /\ V \cap Uses(f) = {} => IsInjective(g)
  BY <1>0, PutAllIs
<1>2. Uses(g) = Uses(f) \cup V
  <2>1. Uses(g) \subseteq Uses(f) \cup V
    BY <1>1 DEF Uses
  <2>2. Uses(f) \subseteq Uses(g)
    BY <1>1 DEF Uses
  <2>3. V \subseteq Uses(g)
    BY <1>1 DEF Uses
  <2> QED
    BY <2>1, <2>2, <2>3
<1>3. ASSUME NEW e, e \notin V PROVE At(g, e) = At(f, e)
  BY <1>1, <1>3 DEF At
<1> QED
  BY <1>0, <1>1, <1>2, <1>3

\* Writing records of the right type keeps the records typed.
LEMMA PutAllType ==
    ASSUME NEW T, NEW f, Numbered(f, T), NEW xs, NEW V, Lists(xs, V), V \subseteq T
    PROVE  Numbered(PutAll(f, xs), T)
<1>0. PICK g : g = PutAll(f, xs)
  OBVIOUS
<1>1. Numbered(g, T)
  BY <1>0, PutAllIs
<1> QED
  BY <1>0, <1>1

\* Deleting records keeps the records typed.
LEMMA DeleteType ==
    ASSUME NEW T, NEW f, Numbered(f, T), NEW S
    PROVE  Numbered(DeleteRecord(f, S), T)
BY DeleteIs

\* Records that are apart stay so when some are deleted.
LEMMA DeleteInjective ==
    ASSUME NEW f, IsInjective(f), NEW S
    PROVE  IsInjective(DeleteRecord(f, S))
BY DEF IsInjective, DeleteRecord

\* The records of some values.
Having(f, V) == {m \in DOMAIN f : f[m] \in V}

\* Deleting the records of some values moves no other value.
LEMMA DeleteValues ==
    ASSUME NEW f, NEW V, NEW g, g = DeleteRecord(f, Having(f, V))
    PROVE  /\ Uses(g) = Uses(f) \ V
           /\ \A e : e \notin V => At(g, e) = At(f, e)
<1>1. /\ DOMAIN g = DOMAIN f \ Having(f, V)
      /\ \A m \in DOMAIN f \ Having(f, V) : g[m] = f[m]
  BY DEF DeleteRecord
<1>2. \A m \in DOMAIN f : m \notin Having(f, V) <=> f[m] \notin V
  BY DEF Having
<1> QED
  BY <1>1, <1>2 DEF Uses, At

\* A finite set in sequence.
LEMMA InSequence ==
    ASSUME NEW S, IsFiniteSet(S)
    PROVE  /\ Cardinality(S) \in Nat
           /\ \A k \in 1 .. Cardinality(S) : SetToSeq(S)[k] \in S
<1>1. Cardinality(S) \in Nat /\ ExistsBijection(1 .. Cardinality(S), S)
  BY FS_CardinalityType
<1>2. PICK f \in [1 .. Cardinality(S) -> S] : IsInjective(f)
  BY <1>1 DEF ExistsBijection, Bijection, Injection
<1>3. SetToSeq(S) \in [1 .. Cardinality(S) -> S]
  BY <1>2 DEF SetToSeq
<1> QED
  BY <1>1, <1>3

\* A finite set with at most one element, with one, and with more.
LEMMA AtMostOne ==
    ASSUME NEW S, IsFiniteSet(S)
    PROVE  /\ Cardinality(S) <= 1 <=> \A x, y \in S : x = y
           /\ Cardinality(S) = 1 <=> \E x : S = {x}
           /\ Cardinality(S) > 1 <=> ~\A x, y \in S : x = y
           /\ Cardinality(S) \in Nat
<1>1. Cardinality(S) \in Nat
  BY FS_CardinalityType
<1>2. Cardinality(S) = 1 <=> \E x : S = {x}
  BY FS_Singleton
<1>3. Cardinality(S) = 0 <=> S = {}
  BY FS_EmptySet
<1>4. (S = {} \/ \E x : S = {x}) <=> \A x, y \in S : x = y
  <2>1. ASSUME \A x, y \in S : x = y, S # {} PROVE \E x : S = {x}
    <3>1. PICK x \in S : TRUE
      BY <2>1
    <3>2. S = {x}
      BY <2>1, <3>1
    <3> QED
      BY <3>2
  <2> QED
    BY <2>1
<1> QED
  BY <1>1, <1>2, <1>3, <1>4

-------------------------------------------------------------------------------
(* Interfaces *)

\* The interfaces that the compiler makes are of the kinds of their names.
LEMMA InterfaceKinds ==
    /\ NoDev \in Interface /\ NoDev.kind = "none"
    /\ \A v \in Nat : Br(v) \in Interface /\ Br(v).kind = "br" /\ Br(v).b = v
    /\ \A u, v \in Nat : Wire(u, v) \in Interface /\ Wire(u, v).kind = "wire" /\ Wire(u, v).b = v
    /\ \A r, i \in Nat : VirtualInterface(r, i) \in Interface /\ VirtualInterface(r, i).kind = "ap"
BY DEF NoDev, Br, Wire, VirtualInterface, Dev, Interface

\* Interfaces made from different numbers are different.
LEMMA InterfacesDiffer ==
    /\ \A v, x : Br(v) = Br(x) => v = x
    /\ \A u, v, x, y : Wire(u, v) = Wire(x, y) => u = x /\ v = y
    /\ \A r, i, j : VirtualInterface(r, i) = VirtualInterface(r, j) => i = j
BY DEF Br, Wire, VirtualInterface, Dev

\* The parts of the type of a body.
BridgeType(g) ==
    /\ IsFiniteSet(DOMAIN g) /\ DOMAIN g \subseteq Nat \ {0}
    /\ g = [i \in DOMAIN g |-> [dev |-> g[i].dev, port |-> g[i].port]]
    /\ \A i \in DOMAIN g : g[i].dev \in Interface /\ Numbered(g[i].port, Interface)

RadioType(g) ==
    /\ IsFiniteSet(DOMAIN g) /\ DOMAIN g \subseteq Radio
    /\ g = [r \in DOMAIN g |-> [dev |-> g[r].dev, virtual |-> g[r].virtual]]
    /\ \A r \in DOMAIN g : g[r].dev \in Interface /\ Numbered(g[r].virtual, Interface)

Shape(b) ==
    b = [wireless |-> b.wireless, aaa |-> b.aaa, netconf |-> b.netconf, vlan |-> b.vlan,
         bridge |-> b.bridge, radio |-> b.radio, filter |-> b.filter]

\* A body is made of records of its types.
LEMMA BodyParts ==
    ASSUME NEW b, Body(b)
    PROVE  /\ Shape(b)
           /\ Numbered(b.wireless, WirelessRecord) /\ Numbered(b.aaa, AAARecord)
           /\ Numbered(b.netconf, Interface) /\ Numbered(b.vlan, Interface)
           /\ Numbered(b.filter, SUBSET Interface)
           /\ BridgeType(b.bridge) /\ RadioType(b.radio)
BY DEF Body, Shape, BridgeType, RadioType

\* Records of the types of a body make one.
LEMMA BodyFromParts ==
    ASSUME NEW b, Shape(b),
           Numbered(b.wireless, WirelessRecord), Numbered(b.aaa, AAARecord),
           Numbered(b.netconf, Interface), Numbered(b.vlan, Interface),
           Numbered(b.filter, SUBSET Interface),
           BridgeType(b.bridge), RadioType(b.radio)
    PROVE  Body(b)
BY Zenon DEF Body, Shape, BridgeType, RadioType

\* The values of a function on a finite set are finitely many.
LEMMA Image ==
    ASSUME NEW S, IsFiniteSet(S), NEW f, f = [x \in S |-> f[x]]
    PROVE  IsFiniteSet({f[x] : x \in S})
<1> DEFINE T == {f[x] : x \in S}
<1>1. f \in Surjection(S, T)
  BY DEF Surjection
<1> HIDE DEF T
<1>2. IsFiniteSet(T)
  BY <1>1, FS_Surjection
<1> QED
  BY <1>2 DEF T

\* The values of records are finitely many.
LEMMA UsesFinite ==
    ASSUME NEW T, NEW f, Numbered(f, T)
    PROVE  IsFiniteSet(Uses(f))
<1>1. IsFiniteSet(DOMAIN f) /\ f = [x \in DOMAIN f |-> f[x]]
  BY DEF Numbered
<1> QED
  BY <1>1, Image DEF Uses

\* The interfaces that a body names are finitely many.
LEMMA DevsFinite ==
    ASSUME NEW b, Body(b)
    PROVE  IsFiniteSet(Devs(b))
<1>0. /\ Numbered(b.wireless, WirelessRecord) /\ Numbered(b.aaa, AAARecord)
      /\ Numbered(b.netconf, Interface)
      /\ BridgeType(b.bridge) /\ RadioType(b.radio)
  BY BodyParts
<1>1. IsFiniteSet(WirelessDevs(b))
  <2> DEFINE f == [n \in DOMAIN b.wireless |-> b.wireless[n].dev]
  <2>1. IsFiniteSet(DOMAIN b.wireless)
    BY <1>0 DEF Numbered
  <2>2. f = [n \in DOMAIN b.wireless |-> f[n]]
    OBVIOUS
  <2>3. WirelessDevs(b) = {f[n] : n \in DOMAIN b.wireless}
    BY DEF WirelessDevs
  <2> HIDE DEF f
  <2> QED
    BY <2>1, <2>2, <2>3, Image
<1>2. IsFiniteSet({b.aaa[n].dev : n \in DOMAIN b.aaa})
  <2> DEFINE f == [n \in DOMAIN b.aaa |-> b.aaa[n].dev]
  <2>1. IsFiniteSet(DOMAIN b.aaa)
    BY <1>0 DEF Numbered
  <2>2. f = [n \in DOMAIN b.aaa |-> f[n]]
    OBVIOUS
  <2>3. {b.aaa[n].dev : n \in DOMAIN b.aaa} = {f[n] : n \in DOMAIN b.aaa}
    OBVIOUS
  <2> HIDE DEF f
  <2>4. IsFiniteSet({f[n] : n \in DOMAIN b.aaa})
    BY <2>1, <2>2, Image
  <2> QED
    BY <2>3, <2>4
<1>3. IsFiniteSet(Uses(b.netconf))
  BY <1>0, UsesFinite
<1>4. IsFiniteSet(UNION {Uses(b.bridge[i].port) : i \in DOMAIN b.bridge})
  <2> DEFINE f == [i \in DOMAIN b.bridge |-> Uses(b.bridge[i].port)]
             S == {f[i] : i \in DOMAIN b.bridge}
  <2>1. IsFiniteSet(DOMAIN b.bridge)
    BY <1>0 DEF BridgeType
  <2>2. f = [i \in DOMAIN b.bridge |-> f[i]]
    OBVIOUS
  <2>3. {Uses(b.bridge[i].port) : i \in DOMAIN b.bridge} = S
    OBVIOUS
  <2>4. \A i \in DOMAIN b.bridge : IsFiniteSet(f[i])
    BY <1>0, UsesFinite DEF BridgeType
  <2> HIDE DEF f
  <2>5. IsFiniteSet(S)
    BY <2>1, <2>2, Image
  <2>6. \A U \in S : IsFiniteSet(U)
    BY <2>4
  <2> HIDE DEF S
  <2>7. IsFiniteSet(UNION S)
    BY <2>5, <2>6, FS_UNION
  <2> QED
    BY <2>3, <2>7
<1>5. IsFiniteSet(UNION {{b.radio[r].dev} \cup Uses(b.radio[r].virtual) : r \in DOMAIN b.radio})
  <2> DEFINE f == [r \in DOMAIN b.radio |-> {b.radio[r].dev} \cup Uses(b.radio[r].virtual)]
             S == {f[r] : r \in DOMAIN b.radio}
  <2>1. IsFiniteSet(DOMAIN b.radio)
    BY <1>0 DEF RadioType
  <2>2. f = [r \in DOMAIN b.radio |-> f[r]]
    OBVIOUS
  <2>3. {{b.radio[r].dev} \cup Uses(b.radio[r].virtual) : r \in DOMAIN b.radio} = S
    OBVIOUS
  <2>4. \A r \in DOMAIN b.radio : IsFiniteSet(f[r])
    <3> TAKE r \in DOMAIN b.radio
    <3>1. IsFiniteSet(Uses(b.radio[r].virtual))
      BY <1>0, UsesFinite DEF RadioType
    <3>2. IsFiniteSet({b.radio[r].dev})
      BY FS_Singleton
    <3>3. IsFiniteSet({b.radio[r].dev} \cup Uses(b.radio[r].virtual))
      BY <3>1, <3>2, FS_Union
    <3> QED
      BY <3>3
  <2> HIDE DEF f
  <2>5. IsFiniteSet(S)
    BY <2>1, <2>2, Image
  <2>6. \A U \in S : IsFiniteSet(U)
    BY <2>4
  <2> HIDE DEF S
  <2>7. IsFiniteSet(UNION S)
    BY <2>5, <2>6, FS_UNION
  <2> QED
    BY <2>3, <2>7
<1>6. IsFiniteSet(WirelessDevs(b) \cup {b.aaa[n].dev : n \in DOMAIN b.aaa})
  BY <1>1, <1>2, FS_Union
<1>7. IsFiniteSet((WirelessDevs(b) \cup {b.aaa[n].dev : n \in DOMAIN b.aaa}) \cup Uses(b.netconf))
  BY <1>3, <1>6, FS_Union
<1>8. IsFiniteSet(((WirelessDevs(b) \cup {b.aaa[n].dev : n \in DOMAIN b.aaa}) \cup Uses(b.netconf))
                    \cup UNION {Uses(b.bridge[i].port) : i \in DOMAIN b.bridge})
  BY <1>4, <1>7, FS_Union
<1>9. IsFiniteSet((((WirelessDevs(b) \cup {b.aaa[n].dev : n \in DOMAIN b.aaa}) \cup Uses(b.netconf))
                    \cup UNION {Uses(b.bridge[i].port) : i \in DOMAIN b.bridge})
                    \cup UNION {{b.radio[r].dev} \cup Uses(b.radio[r].virtual) : r \in DOMAIN b.radio})
  BY <1>5, <1>8, FS_Union
<1> QED
  BY <1>9 DEF Devs

\* The interface of a new WLAN is one that no record names.
LEMMA AvailableIsFresh ==
    ASSUME NEW b, Body(b), NEW r \in Radio
    PROVE  /\ AvailableInterface(b, r) \in Interface
           /\ AvailableInterface(b, r).kind = "ap"
           /\ AvailableInterface(b, r) \notin Devs(b)
<1> DEFINE C == Cardinality(Devs(b))
           free == {i \in 0 .. C : VirtualInterface(r, i) \notin Devs(b)}
<1>1. IsFiniteSet(Devs(b)) /\ C \in Nat
  BY DevsFinite, FS_CardinalityType
<1>2. free # {}
  <2> SUFFICES ASSUME \A i \in 0 .. C : VirtualInterface(r, i) \in Devs(b) PROVE FALSE
    OBVIOUS
  <2> DEFINE v == [i \in 0 .. C |-> VirtualInterface(r, i)]
  <2>1. v \in [0 .. C -> Devs(b)]
    OBVIOUS
  <2>2. IsFiniteSet(0 .. C) /\ Cardinality(0 .. C) = C + 1
    BY <1>1, FS_Interval
  <2>3. Cardinality(Devs(b)) < Cardinality(0 .. C)
    BY <1>1, <2>2
  <2> HIDE DEF v, C
  <2>4. PICK i \in 0 .. C, j \in 0 .. C : i # j /\ v[i] = v[j]
    BY <1>1, <2>1, <2>2, <2>3, FS_PigeonHole
  <2> QED
    BY <2>4, InterfacesDiffer DEF v
<1>3. free \subseteq Nat
  BY <1>1
<1>4. Least(free) \in free
  BY <1>2, <1>3, LeastIn
<1>5. Least(free) \in Nat /\ VirtualInterface(r, Least(free)) \notin Devs(b)
  BY <1>1, <1>4
<1>6. AvailableInterface(b, r) = VirtualInterface(r, Least(free))
  BY DEF AvailableInterface
<1> HIDE DEF free
<1>7. r \in Nat
  BY WifiAssumption
<1> QED
  BY <1>5, <1>6, <1>7, InterfaceKinds

-------------------------------------------------------------------------------
(* Members *)

\* A member is a port record of a bridge that holds the interface.
LEMMA InMembers ==
    ASSUME NEW b, NEW d
    PROVE  /\ \A i, j : <<i, j>> \in Members(b, d) <=>
                 i \in DOMAIN b.bridge /\ j \in DOMAIN b.bridge[i].port /\ b.bridge[i].port[j] = d
           /\ \A x \in Members(b, d) : x = <<x[1], x[2]>>
<1>1. \A i, j : <<i, j>> \in Members(b, d) <=>
                 i \in DOMAIN b.bridge /\ j \in DOMAIN b.bridge[i].port /\ b.bridge[i].port[j] = d
  BY DEF Members
<1>2. \A x \in Members(b, d) : x = <<x[1], x[2]>>
  BY DEF Members
<1> QED
  BY <1>1, <1>2

\* The same port records hold the same interface.
LEMMA SameMembers ==
    ASSUME NEW b, NEW c, NEW d,
           \A i, j : (i \in DOMAIN b.bridge /\ j \in DOMAIN b.bridge[i].port /\ b.bridge[i].port[j] = d)
                 <=> (i \in DOMAIN c.bridge /\ j \in DOMAIN c.bridge[i].port /\ c.bridge[i].port[j] = d)
    PROVE  Members(c, d) = Members(b, d)
<1>1. \A x \in Members(b, d) : x \in Members(c, d)
  <2> TAKE x \in Members(b, d)
  <2>1. PICK i, j : x = <<i, j>>
    BY InMembers
  <2>2. i \in DOMAIN b.bridge /\ j \in DOMAIN b.bridge[i].port /\ b.bridge[i].port[j] = d
    BY <2>1, InMembers
  <2>3. i \in DOMAIN c.bridge /\ j \in DOMAIN c.bridge[i].port /\ c.bridge[i].port[j] = d
    BY <2>2
  <2> QED
    BY <2>1, <2>3, InMembers
<1>2. \A x \in Members(c, d) : x \in Members(b, d)
  <2> TAKE x \in Members(c, d)
  <2>1. PICK i, j : x = <<i, j>>
    BY InMembers
  <2>2. i \in DOMAIN c.bridge /\ j \in DOMAIN c.bridge[i].port /\ c.bridge[i].port[j] = d
    BY <2>1, InMembers
  <2>3. i \in DOMAIN b.bridge /\ j \in DOMAIN b.bridge[i].port /\ b.bridge[i].port[j] = d
    BY <2>2
  <2> QED
    BY <2>1, <2>3, InMembers
<1> QED
  BY <1>1, <1>2

-------------------------------------------------------------------------------
(* The VLAN interfaces of bridges *)

Bridges == {Br(v) : v \in VLAN \cup {0}}

\* VLANs are numbers, 0 standing for the untagged network.
LEMMA VLANIsNumber == \A v \in VLAN \cup {0} : v \in Nat
BY WifiAssumption

\* The uplink ports are numbers, each listed once.
LEMMA UplinkIs ==
    /\ Len(Uplink) \in Nat /\ DOMAIN Uplink = 1 .. Len(Uplink)
    /\ \A k \in 1 .. Len(Uplink) : Uplink[k] \in Nat
    /\ \A k, l \in 1 .. Len(Uplink) : Uplink[k] = Uplink[l] => k = l
<1>1. Uplink \in Seq(Nat) /\ IsInjective(Uplink)
  BY WifiAssumption
<1>2. Len(Uplink) \in Nat /\ DOMAIN Uplink = 1 .. Len(Uplink) /\ \A k \in 1 .. Len(Uplink) : Uplink[k] \in Nat
  BY <1>1
<1> QED
  BY <1>1, <1>2 DEF IsInjective

\* A bridge's name is an interface of the bridge kind, and says its VLAN.
LEMMA BridgesAre ==
    \A d \in Bridges : d \in Interface /\ d.kind = "br" /\ d.b \in VLAN \cup {0} /\ d = Br(d.b)
BY VLANIsNumber, InterfaceKinds DEF Bridges

\* The VLAN interfaces of bridges are one for each uplink port and tagged bridge.
LEMMA InWires ==
    ASSUME NEW A, A \subseteq Bridges
    PROVE  \A d : d \in Wires(A) <=>
              \E k \in 1 .. Len(Uplink), e \in A \ {Br(0)} : d = Wire(Uplink[k], e.b)
BY UplinkIs DEF Wires

\* The VLAN interfaces of different bridges are different.
LEMMA WiresAre ==
    ASSUME NEW A, A \subseteq Bridges
    PROVE  /\ \A d \in Wires(A) : d \in Interface /\ d.kind = "wire" /\ d.b \in VLAN /\ Br(d.b) \in A
           /\ \A B : B \subseteq Bridges => Wires(A \cup B) = Wires(A) \cup Wires(B)
           /\ \A v \in VLAN \cup {0} : Br(v) \notin A =>
                 /\ Wires(A) \cap Wires({Br(v)}) = {}
                 /\ \A d \in Wires(A) : d.b # v
           /\ \A v \in VLAN \cup {0} : Wires(A \ {Br(v)}) = Wires(A) \ Wires({Br(v)})
           /\ \A v \in VLAN \cup {0} : Br(v) \in A => Wires({Br(v)}) \subseteq Wires(A)
           /\ \A d \in Wires(A) : d \in Wires({Br(d.b)})
           /\ Wires({Br(0)}) = {}
<1>1. \A e \in A \ {Br(0)} : e.b \in VLAN /\ e.b \in Nat /\ Br(e.b) = e
  BY BridgesAre, VLANIsNumber
<1>2. \A d \in Wires(A) : d \in Interface /\ d.kind = "wire" /\ d.b \in VLAN /\ Br(d.b) \in A
  <2> TAKE d \in Wires(A)
  <2>1. PICK k \in 1 .. Len(Uplink), e \in A \ {Br(0)} : d = Wire(Uplink[k], e.b)
    BY InWires
  <2>2. e.b \in VLAN /\ e.b \in Nat /\ Br(e.b) = e /\ Uplink[k] \in Nat
    BY <1>1, UplinkIs
  <2>3. d \in Interface /\ d.kind = "wire" /\ d.b = e.b
    BY <2>1, <2>2, InterfaceKinds
  <2> QED
    BY <2>2, <2>3
<1>3. ASSUME NEW B, B \subseteq Bridges PROVE Wires(A \cup B) = Wires(A) \cup Wires(B)
  <2>1. \A d : d \in Wires(A \cup B) <=> d \in Wires(A) \cup Wires(B)
    BY <1>3 DEF Wires
  <2> QED
    BY <2>1
<1>4. ASSUME NEW v \in VLAN \cup {0}
      PROVE  /\ Br(v) \in Bridges
             /\ \A d : d \in Wires({Br(v)}) <=> v # 0 /\ \E k \in 1 .. Len(Uplink) : d = Wire(Uplink[k], v)
             /\ \A d \in Wires({Br(v)}) : d.b = v
  <2>1. Br(v) \in Bridges
    BY DEF Bridges
  <2>2. Br(v).b = v /\ (Br(v) = Br(0) <=> v = 0)
    BY VLANIsNumber, InterfaceKinds, InterfacesDiffer
  <2>3. \A d : d \in Wires({Br(v)}) <=> v # 0 /\ \E k \in 1 .. Len(Uplink) : d = Wire(Uplink[k], v)
    <3>1. {Br(v)} \subseteq Bridges
      BY <2>1
    <3>2. \A d : d \in Wires({Br(v)}) <=>
              \E k \in 1 .. Len(Uplink), e \in {Br(v)} \ {Br(0)} : d = Wire(Uplink[k], e.b)
      BY <3>1, InWires
    <3> QED
      BY <2>2, <3>2
  <2>4. \A d \in Wires({Br(v)}) : d.b = v
    BY <2>3, UplinkIs, VLANIsNumber, InterfaceKinds
  <2> QED
    BY <2>1, <2>3, <2>4
<1>5. ASSUME NEW v \in VLAN \cup {0}, Br(v) \notin A
      PROVE  Wires(A) \cap Wires({Br(v)}) = {} /\ \A d \in Wires(A) : d.b # v
  BY <1>2, <1>4, <1>5
<1>6. ASSUME NEW v \in VLAN \cup {0}
      PROVE  Wires(A \ {Br(v)}) = Wires(A) \ Wires({Br(v)})
  <2>1. A \ {Br(v)} \subseteq Bridges
    OBVIOUS
  <2>2. \A d : d \in Wires(A \ {Br(v)}) <=>
            \E k \in 1 .. Len(Uplink), e \in (A \ {Br(v)}) \ {Br(0)} : d = Wire(Uplink[k], e.b)
    BY <2>1, InWires
  <2>3. \A d : d \in Wires(A) <=>
            \E k \in 1 .. Len(Uplink), e \in A \ {Br(0)} : d = Wire(Uplink[k], e.b)
    BY InWires
  <2>4. \A d \in Wires(A \ {Br(v)}) : d \in Wires(A) /\ d.b # v
    <3> TAKE d \in Wires(A \ {Br(v)})
    <3>1. PICK k \in 1 .. Len(Uplink), e \in (A \ {Br(v)}) \ {Br(0)} : d = Wire(Uplink[k], e.b)
      BY <2>2
    <3>2. e.b \in Nat /\ Br(e.b) = e
      BY <1>1
    <3>3. d.b = e.b
      BY <3>1, <3>2, UplinkIs, InterfaceKinds
    <3>4. e.b # v
      BY <3>2
    <3>5. d \in Wires(A)
      BY <2>3, <3>1
    <3> QED
      BY <3>3, <3>4, <3>5
  <2>5. \A d \in Wires(A) : d \notin Wires({Br(v)}) => d \in Wires(A \ {Br(v)})
    <3> SUFFICES ASSUME NEW d \in Wires(A), d \notin Wires({Br(v)}) PROVE d \in Wires(A \ {Br(v)})
      OBVIOUS
    <3>1. PICK k \in 1 .. Len(Uplink), e \in A \ {Br(0)} : d = Wire(Uplink[k], e.b)
      BY <2>3
    <3>2. e # Br(v)
      <4> SUFFICES ASSUME e = Br(v) PROVE FALSE
        OBVIOUS
      <4>1. e.b = v
        BY VLANIsNumber, InterfaceKinds
      <4>2. v # 0
        BY <3>1
      <4>3. d = Wire(Uplink[k], v)
        BY <3>1, <4>1
      <4> QED
        BY <1>4, <3>1, <4>2, <4>3
    <3> QED
      BY <2>2, <3>1, <3>2
  <2> QED
    BY <1>4, <2>4, <2>5
<1>7. ASSUME NEW v \in VLAN \cup {0}, Br(v) \in A PROVE Wires({Br(v)}) \subseteq Wires(A)
  BY <1>7 DEF Wires
<1>8. ASSUME NEW d \in Wires(A) PROVE d \in Wires({Br(d.b)})
  <2>1. PICK k \in 1 .. Len(Uplink), e \in A \ {Br(0)} : d = Wire(Uplink[k], e.b)
    BY InWires
  <2>2. e.b \in VLAN /\ e.b \in Nat /\ Br(e.b) = e
    BY <1>1
  <2>3. d.b = e.b
    BY <2>1, <2>2, UplinkIs, InterfaceKinds
  <2>4. e.b # 0
    BY <2>1, <2>2
  <2> QED
    BY <1>4, <2>1, <2>2, <2>3, <2>4
<1>9. Wires({Br(0)}) = {}
  BY <1>4
<1> QED
  BY <1>2, <1>3, <1>5, <1>6, <1>7, <1>8, <1>9

\* The VLAN interfaces of a new bridge in sequence, and the names of its records.
WireSeq(v) == [k \in DOMAIN Uplink |-> Wire(Uplink[k], v)]

\* The sequence of a new bridge's VLAN interfaces lists each of them once.
LEMMA WireSequence ==
    ASSUME NEW v \in VLAN
    PROVE  /\ Lists(WireSeq(v), Wires({Br(v)})) /\ Apart(WireSeq(v))
           /\ WireSeq(v) \in Seq(Interface)
<1> DEFINE N == Len(Uplink)
           ws == WireSeq(v)
<1>1. v \in Nat /\ v # 0
  BY WifiAssumption
<1>2. \A k \in 1 .. N : Wire(Uplink[k], v) \in Interface /\ Wire(Uplink[k], v).kind = "wire"
  BY <1>1, UplinkIs, InterfaceKinds
<1>3. ws = [k \in 1 .. N |-> Wire(Uplink[k], v)] /\ ws \in [1 .. N -> Interface]
  BY <1>2, UplinkIs DEF WireSeq
<1>4. ws \in Seq(Interface) /\ Len(ws) = N
  BY <1>3, UplinkIs
<1>5. \A k \in 1 .. N : ws[k] = Wire(Uplink[k], v)
  BY <1>3
<1>6. \A k, l \in 1 .. N : ws[k] = ws[l] => k = l
  BY <1>5, InterfacesDiffer, UplinkIs
<1>7. \A d : d \in Wires({Br(v)}) <=> \E k \in 1 .. N : d = Wire(Uplink[k], v)
  <2>1. Br(v).b = v /\ Br(v) # Br(0) /\ {Br(v)} \subseteq Bridges
    BY <1>1, InterfaceKinds, InterfacesDiffer DEF Bridges
  <2>2. \A d : d \in Wires({Br(v)}) <=>
            \E k \in 1 .. N, e \in {Br(v)} \ {Br(0)} : d = Wire(Uplink[k], e.b)
    BY <2>1, InWires
  <2> QED
    BY <2>1, <2>2
<1>8. N \in Nat
  BY UplinkIs
<1>10. ws \in Seq(Interface)
  BY <1>4
<1>11. Len(ws) = N
  BY <1>4
<1> HIDE DEF ws, N
<1>9. /\ \A k \in 1 .. N : ws[k] \in Wires({Br(v)})
      /\ \A d \in Wires({Br(v)}) : \E k \in 1 .. N : d = ws[k]
  BY <1>5, <1>7
<1>12. Lists(ws, Wires({Br(v)})) /\ Apart(ws)
  BY <1>6, <1>8, <1>9, <1>11 DEF Lists, Apart
<1> QED
  BY <1>10, <1>12 DEF ws

\* So does the sequence with the bridge's own name in front.
LEMMA NameSequence ==
    ASSUME NEW v \in VLAN
    PROVE  /\ Lists(<<Br(v)>> \o WireSeq(v), {Br(v)} \cup Wires({Br(v)}))
           /\ Apart(<<Br(v)>> \o WireSeq(v))
<1> DEFINE ws == WireSeq(v)
           ns == <<Br(v)>> \o ws
           W == Wires({Br(v)})
           N == Len(ws)
<1>1. Lists(ws, W) /\ Apart(ws) /\ ws \in Seq(Interface)
  BY WireSequence
<1>2. Br(v) \in Interface /\ Br(v).kind = "br"
  BY VLANIsNumber, InterfaceKinds
<1>3. \A d \in W : d.kind = "wire"
  <2>1. {Br(v)} \subseteq Bridges
    BY DEF Bridges
  <2> QED
    BY <2>1, WiresAre
<1>4. /\ N \in Nat
      /\ \A k \in 1 .. N : ws[k] \in W
      /\ \A d \in W : \E k \in 1 .. N : d = ws[k]
      /\ \A k, l \in 1 .. N : ws[k] = ws[l] => k = l
  BY <1>1 DEF Lists, Apart
<1>5. /\ Len(ns) = N + 1
      /\ ns[1] = Br(v)
      /\ \A k \in 2 .. N + 1 : ns[k] = ws[k - 1]
  <2> HIDE DEF ws
  <2> QED
    BY <1>1, <1>2
<1> HIDE DEF ws, ns, W, N
<1>6. \A k \in 1 .. N + 1 : k = 1 \/ (k \in 2 .. N + 1 /\ k - 1 \in 1 .. N)
  BY <1>4
<1>7. \A k \in 1 .. N : k + 1 \in 2 .. N + 1 /\ k + 1 \in 1 .. N + 1 /\ (k + 1) - 1 = k
  BY <1>4
<1>8. \A k \in 1 .. N + 1 : ns[k] \in {Br(v)} \cup W
  BY <1>4, <1>5, <1>6
<1>9. \A d \in {Br(v)} \cup W : \E k \in 1 .. N + 1 : d = ns[k]
  <2>1. 1 \in 1 .. N + 1
    BY <1>4
  <2>2. \A k \in 1 .. N : ns[k + 1] = ws[k]
    BY <1>5, <1>7
  <2> QED
    BY <1>4, <1>5, <1>7, <2>1, <2>2
<1>10. ASSUME NEW k \in 1 .. N + 1, NEW l \in 1 .. N + 1, ns[k] = ns[l] PROVE k = l
  <2>1. \A j \in 2 .. N + 1 : ns[j] # Br(v) /\ j - 1 \in 1 .. N /\ ns[j] = ws[j - 1]
    BY <1>2, <1>3, <1>4, <1>5
  <2>2. CASE k = 1 \/ l = 1
    BY <1>5, <1>6, <1>10, <2>1, <2>2
  <2>3. CASE k # 1 /\ l # 1
    <3>1. k - 1 = l - 1
      BY <1>4, <1>6, <1>10, <2>1, <2>3
    <3> QED
      BY <3>1
  <2> QED
    BY <2>2, <2>3
<1>11. N + 1 \in Nat
  BY <1>4
<1>12. Lists(ns, {Br(v)} \cup W) /\ Apart(ns)
  BY <1>5, <1>8, <1>9, <1>10, <1>11 DEF Lists, Apart
<1> QED
  BY <1>12 DEF ws, ns, W

-------------------------------------------------------------------------------
(* Bridges that are made *)

\* Bridges are numbered records.
LEMMA BridgeNumbered ==
    ASSUME NEW g, BridgeType(g)
    PROVE  Numbered(g, Uses(g))
<1>1. g = [i \in DOMAIN g |-> g[i]]
  BY DEF BridgeType
<1>2. \A i \in DOMAIN g : g[i] \in Uses(g)
  BY DEF Uses
<1> QED
  BY <1>1, <1>2 DEF BridgeType, Numbered

Bridge(d, p) == [dev |-> d, port |-> p]

\* The bridges h are the bridges g and one of name d with ports p.
Joined(g, d, p, h) ==
    /\ NextRecord(g) \notin DOMAIN g /\ DOMAIN h = DOMAIN g \cup {NextRecord(g)}
    /\ h[NextRecord(g)].dev = d /\ h[NextRecord(g)].port = p
    /\ \A i \in DOMAIN g : h[i] = g[i]

\* A bridge with typed ports is written as a bridge more.
LEMMA PutBridge ==
    ASSUME NEW g, BridgeType(g), NEW d, d \in Interface, NEW p, Numbered(p, Interface),
           NEW h, h = Put(g, Bridge(d, p))
    PROVE  BridgeType(h) /\ Joined(g, d, p, h)
<1> DEFINE n == NextRecord(g)
<1>1. /\ n \in Nat \ {0} /\ n \notin DOMAIN g
      /\ DOMAIN h = DOMAIN g \cup {n}
      /\ h[n] = Bridge(d, p)
      /\ \A i \in DOMAIN g : h[i] = g[i]
  BY BridgeNumbered, PutIs
<1>2. h = [i \in DOMAIN g \cup {n} |-> IF i = n THEN Bridge(d, p) ELSE g[i]]
  BY DEF Put
<1>3. IsFiniteSet(DOMAIN h)
  BY <1>1, FS_AddElement DEF BridgeType
<1> HIDE DEF n
<1>4. \A i \in DOMAIN g : /\ g[i] = [dev |-> g[i].dev, port |-> g[i].port]
                           /\ g[i].dev \in Interface /\ Numbered(g[i].port, Interface)
  BY DEF BridgeType
<1>5. \A i \in DOMAIN h : /\ h[i] = [dev |-> h[i].dev, port |-> h[i].port]
                           /\ h[i].dev \in Interface /\ Numbered(h[i].port, Interface)
  BY <1>1, <1>4 DEF Bridge
<1>6. h = [i \in DOMAIN h |-> [dev |-> h[i].dev, port |-> h[i].port]]
  BY <1>2, <1>5
<1>7. BridgeType(h)
  BY <1>1, <1>3, <1>5, <1>6 DEF BridgeType
<1> QED
  BY <1>1, <1>7 DEF n, Bridge, Joined

\* What the records of a WLAN interface are, and the bridge it is a member of.
LEMMA DevOf ==
    ASSUME NEW b, Body(b)
    PROVE  /\ \A n \in DOMAIN b.wireless : /\ b.wireless[n].dev \in Interface
                                            /\ b.wireless[n].ssid \in Name
                                            /\ b.wireless[n].parent \in Radio
           /\ \A n \in DOMAIN b.aaa : /\ b.aaa[n].dev \in Interface /\ b.aaa[n].br \in Interface
                                       /\ b.aaa[n].ssid \in Name /\ b.aaa[n].policy \in Policy
           /\ Uses(b.netconf) \subseteq Interface /\ Uses(b.vlan) \subseteq Interface
           /\ \A i \in DOMAIN b.bridge : Uses(b.bridge[i].port) \subseteq Interface
BY DEF Body, Numbered, WirelessRecord, AAARecord, Uses

NoPort == [n \in {} |-> NoDev]

\* A new bridge has no port.
LEMMA NoPortIs == Numbered(NoPort, Interface) /\ IsInjective(NoPort) /\ Uses(NoPort) = {}
BY FS_EmptySet DEF NoPort, Numbered, IsInjective, Uses

\* Where bridges match, every bridge has the name of its VLAN.
LEMMA BridgeDevs ==
    ASSUME NEW b, NEW U, BridgesMatch(b, U)
    PROVE  /\ U \subseteq Bridges
           /\ \A i \in DOMAIN b.bridge : /\ b.bridge[i].dev \in U
                                          /\ b.bridge[i].dev.b \in VLAN \cup {0}
                                          /\ b.bridge[i].dev = Br(b.bridge[i].dev.b)
<1>1. U \subseteq Bridges /\ \A i \in DOMAIN b.bridge : b.bridge[i].dev \in U
  BY DEF BridgesMatch, Bridges
<1> QED
  BY <1>1, BridgesAre

\* The bridge of VLAN v is made.
Made(b, c, v) ==
    /\ Shape(c)
    /\ c.wireless = b.wireless /\ c.aaa = b.aaa /\ c.filter = b.filter /\ c.radio = b.radio
    /\ c.bridge = Put(b.bridge, Bridge(Br(v), PutAll(NoPort, WireSeq(v))))
    /\ c.netconf = PutAll(b.netconf, <<Br(v)>> \o WireSeq(v))
    /\ c.vlan = PutAll(b.vlan, WireSeq(v))

\* A VLAN gets its bridge, VLAN interfaces and records together.
LEMMA MadeBridge ==
    ASSUME NEW b, Body(b), NEW U, Fits(b, U), NEW v \in VLAN, Br(v) \notin U,
           NEW c, Made(b, c, v)
    PROVE  /\ Body(c) /\ Fits(c, U \cup {Br(v)})
           /\ \A i \in DOMAIN b.bridge : i \in DOMAIN c.bridge /\ c.bridge[i] = b.bridge[i]
           /\ \A e : e.kind = "ap" => /\ At(c.netconf, e) = At(b.netconf, e)
                                      /\ Members(c, e) = Members(b, e)
<1> DEFINE ws == WireSeq(v)
           ns == <<Br(v)>> \o ws
           P == PutAll(NoPort, ws)
           W == Wires({Br(v)})
           n == NextRecord(b.bridge)
           V == U \cup {Br(v)}
<1>1. /\ Lists(ws, W) /\ Apart(ws)
      /\ Lists(ns, {Br(v)} \cup W) /\ Apart(ns)
  BY WireSequence, NameSequence
<1>2. /\ v \in VLAN \cup {0} /\ v \in Nat /\ v # 0 /\ Br(v) \in Bridges /\ Br(v) \in Interface
      /\ Br(v).kind = "br" /\ Br(v).b = v /\ Br(v) # Br(0)
  <2>1. v \in Nat /\ v # 0
    BY WifiAssumption
  <2> QED
    BY <2>1, InterfaceKinds, InterfacesDiffer DEF Bridges
<1>3. U \subseteq Bridges /\ {Br(v)} \subseteq Bridges /\ V \subseteq Bridges
  BY <1>2, BridgeDevs DEF Fits
<1>4. /\ W \subseteq Interface
      /\ \A d \in W : d.kind = "wire" /\ d.b = v
      /\ Wires(V) = Wires(U) \cup W
      /\ Wires(U) \cap W = {}
      /\ \A d \in Wires(U) : d.kind = "wire"
  <2>1. \A d \in W : d \in Interface /\ d.kind = "wire" /\ Br(d.b) \in {Br(v)}
    BY <1>3, WiresAre
  <2>2. Wires(V) = Wires(U) \cup W
    BY <1>3, WiresAre
  <2>3. Wires(U) \cap W = {} /\ \A d \in Wires(U) : d.kind = "wire"
    BY <1>2, <1>3, WiresAre
  <2> QED
    BY <2>1, <2>2, <2>3, InterfacesDiffer
<1>5. /\ Numbered(b.netconf, Interface) /\ Numbered(b.vlan, Interface)
      /\ BridgeType(b.bridge) /\ Shape(b)
  BY BodyParts
<1>6. {Br(v)} \cup W \subseteq Interface
  BY <1>2, <1>4
<1> HIDE DEF W, ws, ns
<1>7. Numbered(P, Interface) /\ Uses(P) = W /\ IsInjective(P)
  <2>1. Numbered(NoPort, Interface) /\ IsInjective(NoPort) /\ Uses(NoPort) = {}
    BY NoPortIs
  <2>2. Numbered(P, Interface)
    BY <1>1, <1>4, <2>1, PutAllType
  <2>3. Uses(P) = Uses(NoPort) \cup W
    BY <1>1, <1>4, <2>1, PutAllUses
  <2>4. IsInjective(P)
    BY <1>1, <1>4, <2>1, PutAllUses
  <2> QED
    BY <2>1, <2>2, <2>3, <2>4
<1>8. /\ Numbered(PutAll(b.netconf, ns), Interface)
      /\ Uses(PutAll(b.netconf, ns)) = Uses(b.netconf) \cup ({Br(v)} \cup W)
      /\ \A e : e \notin {Br(v)} \cup W => At(PutAll(b.netconf, ns), e) = At(b.netconf, e)
      /\ IsInjective(b.netconf) /\ ({Br(v)} \cup W) \cap Uses(b.netconf) = {}
            => IsInjective(PutAll(b.netconf, ns))
  <2>1. Numbered(PutAll(b.netconf, ns), Interface)
    BY <1>1, <1>5, <1>6, PutAllType
  <2> QED
    BY <1>1, <1>5, <1>6, <2>1, PutAllUses
<1>9. /\ Numbered(PutAll(b.vlan, ws), Interface)
      /\ Uses(PutAll(b.vlan, ws)) = Uses(b.vlan) \cup W
      /\ IsInjective(b.vlan) /\ W \cap Uses(b.vlan) = {} => IsInjective(PutAll(b.vlan, ws))
  <2>1. Numbered(PutAll(b.vlan, ws), Interface)
    BY <1>1, <1>4, <1>5, PutAllType
  <2> QED
    BY <1>1, <1>4, <1>5, <2>1, PutAllUses
<1> HIDE DEF P
<1>10. /\ c.wireless = b.wireless /\ c.aaa = b.aaa /\ c.filter = b.filter /\ c.radio = b.radio
       /\ c.bridge = Put(b.bridge, Bridge(Br(v), P))
       /\ c.netconf = PutAll(b.netconf, ns) /\ c.vlan = PutAll(b.vlan, ws)
       /\ Shape(c)
  BY DEF Made, P, ws, ns
<1>11. /\ BridgeType(c.bridge)
       /\ n \notin DOMAIN b.bridge /\ DOMAIN c.bridge = DOMAIN b.bridge \cup {n}
       /\ c.bridge[n].dev = Br(v) /\ c.bridge[n].port = P
       /\ \A i \in DOMAIN b.bridge : c.bridge[i] = b.bridge[i]
  <2>1. BridgeType(b.bridge) /\ Br(v) \in Interface /\ Numbered(P, Interface)
    BY <1>2, <1>5, <1>7
  <2>2. c.bridge = Put(b.bridge, Bridge(Br(v), P))
    BY <1>10
  <2>3. BridgeType(c.bridge) /\ Joined(b.bridge, Br(v), P, c.bridge)
    BY <2>1, <2>2, PutBridge
  <2> QED
    BY <2>3 DEF Joined
<1> HIDE DEF n
<1>12. Body(c)
  <2>1. Numbered(c.wireless, WirelessRecord)
    BY <1>10, BodyParts
  <2>2. Numbered(c.aaa, AAARecord)
    BY <1>10, BodyParts
  <2>3. Numbered(c.filter, SUBSET Interface)
    BY <1>10, BodyParts
  <2>4. RadioType(c.radio)
    BY <1>10, BodyParts
  <2>5. Numbered(c.netconf, Interface) /\ Numbered(c.vlan, Interface)
    BY <1>8, <1>9, <1>10
  <2>6. BridgeType(c.bridge) /\ Shape(c)
    BY <1>10, <1>11
  <2> HIDE DEF V
  <2> QED
    BY ONLY <2>1, <2>2, <2>3, <2>4, <2>5, <2>6, BodyFromParts, Zenon
<1>13. WLANsMatch(c) /\ RadiosMatch(c) /\ FiltersMatch(c) /\ WirelessDevs(c) = WirelessDevs(b)
  <2>1. WLANsMatch(b) /\ RadiosMatch(b) /\ FiltersMatch(b)
    BY DEF Fits
  <2>2. WirelessDevs(c) = WirelessDevs(b)
    BY <1>10 DEF WirelessDevs
  <2>3. WLANsMatch(c)
    BY <1>10, <2>1, <2>2 DEF WLANsMatch
  <2>4. \A r : OnRadio(c, r) = OnRadio(b, r)
    BY <1>10 DEF OnRadio
  <2>5. RadiosMatch(c)
    BY <1>10, <2>1, <2>4 DEF RadiosMatch
  <2>6. FiltersMatch(c)
    BY <1>10, <2>1, <2>2 DEF FiltersMatch
  <2> QED
    BY <2>2, <2>3, <2>5, <2>6
<1>14. \A i \in DOMAIN b.bridge : b.bridge[i].dev \in U /\ b.bridge[i].dev # Br(v)
                                  /\ b.bridge[i].dev = Br(b.bridge[i].dev.b)
  BY BridgeDevs DEF Fits
<1>15. BridgesMatch(c, V)
  <2>1. BridgesMatch(b, U)
    BY DEF Fits
  <2>2. V \subseteq {Br(x) : x \in VLAN \cup {0}} /\ Br(0) \in V
    BY <1>3, <2>1 DEF Bridges, BridgesMatch
  <2>3. {c.bridge[i].dev : i \in DOMAIN c.bridge} = V
    BY <1>11, <2>1 DEF BridgesMatch
  <2>4. \A i, k \in DOMAIN c.bridge : c.bridge[i].dev = c.bridge[k].dev => i = k
    BY <1>11, <1>14, <2>1 DEF BridgesMatch
  <2> QED
    BY <2>2, <2>3, <2>4 DEF BridgesMatch
<1>16. PortsMatch(c)
  <2>1. PortsMatch(b)
    BY DEF Fits
  <2>2. ASSUME NEW i \in DOMAIN c.bridge
        PROVE  /\ IsInjective(c.bridge[i].port)
               /\ Wires({c.bridge[i].dev}) \subseteq Uses(c.bridge[i].port)
               /\ \A d \in Uses(c.bridge[i].port) :
                     \/ d.kind = "ap" /\ d \in WirelessDevs(c)
                     \/ d.kind = "wire" /\ d.b = c.bridge[i].dev.b
                           /\ (d.b # 0 => d \in Wires({c.bridge[i].dev}))
    <3>1. CASE i \in DOMAIN b.bridge
      <4>1. c.bridge[i] = b.bridge[i]
        BY <1>11, <3>1
      <4> QED
        BY <1>13, <2>1, <3>1, <4>1 DEF PortsMatch
    <3>2. CASE i = n
      BY <1>2, <1>4, <1>7, <1>11, <3>2 DEF W
    <3> QED
      BY <1>11, <3>1, <3>2
  <2>3. ASSUME NEW i \in DOMAIN b.bridge
        PROVE  Uses(b.bridge[i].port) \cap W = {}
    <3> SUFFICES ASSUME NEW d \in W, d \in Uses(b.bridge[i].port) PROVE FALSE
      OBVIOUS
    <3>1. d.kind = "wire" /\ d.b = v
      BY <1>4
    <3>2. d.b = b.bridge[i].dev.b
      BY <2>1, <3>1 DEF PortsMatch
    <3> QED
      BY <1>14, <3>1, <3>2
  <2>4. \A i, k \in DOMAIN c.bridge :
           i # k => Uses(c.bridge[i].port) \cap Uses(c.bridge[k].port) = {}
    BY <1>7, <1>11, <2>1, <2>3 DEF PortsMatch
  <2> QED
    BY <2>2, <2>4 DEF PortsMatch
<1>17. RecordsMatch(c, V)
  <2>1. RecordsMatch(b, U)
    BY DEF Fits
  <2>2. IsInjective(c.vlan) /\ Uses(c.vlan) = Wires(V)
    BY <1>4, <1>9, <1>10, <2>1 DEF RecordsMatch
  <2>3. ({Br(v)} \cup W) \cap Uses(b.netconf) = {}
    <3> SUFFICES ASSUME NEW d \in {Br(v)} \cup W, d \in Uses(b.netconf) PROVE FALSE
      OBVIOUS
    <3>1. d.kind # "ap" /\ d # Br(0)
      BY <1>2, <1>4, InterfaceKinds
    <3>2. d \in Wires(U) \cup (U \ {Br(0)})
      BY <2>1, <3>1 DEF RecordsMatch
    <3>3. \A e \in U : e.kind = "br"
      BY <1>3, BridgesAre
    <3> QED
      BY <1>2, <1>4, <3>2, <3>3
  <2>4. IsInjective(c.netconf)
    BY <1>8, <1>10, <2>1, <2>3 DEF RecordsMatch
  <2>5. Uses(c.netconf) = Uses(b.netconf) \cup ({Br(v)} \cup W)
    BY <1>8, <1>10
  <2>6. \A d \in {Br(v)} \cup W : d.kind # "ap" /\ d # Br(0)
    BY <1>2, <1>4, InterfaceKinds
  <2>7. \A d \in Uses(c.netconf) : d.kind = "ap" => d \in WirelessDevs(c)
    BY <1>13, <2>1, <2>5, <2>6 DEF RecordsMatch
  <2>8. {d \in Uses(c.netconf) : d.kind # "ap"} \ {Br(0)}
          = ({d \in Uses(b.netconf) : d.kind # "ap"} \ {Br(0)}) \cup ({Br(v)} \cup W)
    BY <2>5, <2>6
  <2>9. {d \in Uses(c.netconf) : d.kind # "ap"} \ {Br(0)} = Wires(V) \cup (V \ {Br(0)})
    BY <1>2, <1>4, <2>1, <2>8 DEF RecordsMatch
  <2> QED
    BY <2>2, <2>4, <2>7, <2>9 DEF RecordsMatch
<1>18. Fits(c, V)
  BY <1>13, <1>15, <1>16, <1>17 DEF Fits
<1>19. ASSUME NEW e, e.kind = "ap"
       PROVE  At(c.netconf, e) = At(b.netconf, e) /\ Members(c, e) = Members(b, e)
  <2>1. e \notin {Br(v)} \cup W
    BY <1>2, <1>4, <1>19
  <2>2. At(c.netconf, e) = At(b.netconf, e)
    BY <1>8, <1>10, <2>1
  <2>3. \A j \in DOMAIN P : P[j] # e
    BY <1>7, <2>1 DEF Uses
  <2>4. \A i, j : (i \in DOMAIN b.bridge /\ j \in DOMAIN b.bridge[i].port /\ b.bridge[i].port[j] = e)
            <=> (i \in DOMAIN c.bridge /\ j \in DOMAIN c.bridge[i].port /\ c.bridge[i].port[j] = e)
    <3> TAKE i, j
    <3>1. CASE i \in DOMAIN b.bridge
      BY <1>11, <3>1
    <3>2. CASE i = n
      BY <1>11, <2>3, <3>2
    <3> QED
      BY <1>11, <3>1, <3>2
  <2>5. Members(c, e) = Members(b, e)
    BY <2>4, SameMembers, Zenon
  <2> QED
    BY <2>2, <2>5
<1> QED
  BY <1>10, <1>11, <1>12, <1>18, <1>19

-------------------------------------------------------------------------------
(* Members that move *)

\* Body c is b with its WLANs, radios and filters.
SameWLANs(b, c) ==
    c.wireless = b.wireless /\ c.radio = b.radio /\ c.filter = b.filter

\* The netconf records and the members of interface e are where they were.
SameHome(b, c, e) == At(c.netconf, e) = At(b.netconf, e) /\ Members(c, e) = Members(b, e)

\* The other WLAN interfaces than d stay at home.
OthersHome(b, c, d) == \A e : e.kind = "ap" /\ e # d => SameHome(b, c, e)

WithBridgeOf(b, c, U, v) ==
    /\ Body(c) /\ Fits(c, U \cup {Br(v)})
    /\ SameWLANs(b, c) /\ c.aaa = b.aaa
    /\ \A i \in DOMAIN b.bridge : i \in DOMAIN c.bridge /\ c.bridge[i] = b.bridge[i]
    /\ OthersHome(b, c, NoDev)

\* WithBridge finds the bridge of the VLAN or makes it.
LEMMA WithBridgeIs ==
    ASSUME NEW b, Body(b), NEW U, Fits(b, U), NEW v, v \in VLAN \cup {0},
           NEW c, c \in WithBridge(b, v)
    PROVE  WithBridgeOf(b, c, U, v)
<1>1. BridgesMatch(b, U) /\ BridgeType(b.bridge)
  BY BodyParts DEF Fits
<1>2. IsFiniteSet(Named(b.bridge, Br(v)))
  BY <1>1, FS_Subset DEF Named, BridgeType
<1>3. ~(Cardinality(Named(b.bridge, Br(v))) > 1)
  <2>1. \A i, k \in Named(b.bridge, Br(v)) : i = k
    BY <1>1 DEF Named, BridgesMatch
  <2> QED
    BY <1>2, <2>1, AtMostOne
<1>4. CASE Cardinality(Named(b.bridge, Br(v))) = 1
  <2>1. c = b
    BY <1>4 DEF WithBridge
  <2>2. Br(v) \in U
    <3>1. PICK i : i \in Named(b.bridge, Br(v))
      BY <1>2, <1>4, AtMostOne
    <3> QED
      BY <1>1, <3>1 DEF Named, BridgesMatch
  <2>3. U \cup {Br(v)} = U
    BY <2>2
  <2> QED
    BY <2>1, <2>3 DEF WithBridgeOf, SameWLANs, OthersHome, SameHome
<1>5. CASE Cardinality(Named(b.bridge, Br(v))) # 1
  <2>1. v # 0
    BY <1>3, <1>5 DEF WithBridge
  <2>2. v \in VLAN
    BY <2>1
  <2>3. Br(v) \notin U
    <3> SUFFICES ASSUME Br(v) \in U PROVE FALSE
      OBVIOUS
    <3>1. PICK i \in DOMAIN b.bridge : b.bridge[i].dev = Br(v)
      BY <1>1 DEF BridgesMatch
    <3>2. Named(b.bridge, Br(v)) = {i}
      BY <1>1, <3>1 DEF Named, BridgesMatch
    <3>3. \E x : Named(b.bridge, Br(v)) = {x}
      BY <3>2
    <3> QED
      BY <1>2, <1>5, <3>3, AtMostOne
  <2>4. c = [b EXCEPT
               !.bridge = Put(@, [dev |-> Br(v), port |-> PutAll([n \in {} |-> NoDev], WireSeq(v))]),
               !.netconf = PutAll(@, <<Br(v)>> \o WireSeq(v)),
               !.vlan = PutAll(@, WireSeq(v))]
    BY <1>3, <1>5, <2>1 DEF WithBridge, WireSeq
  <2>5. Shape(b)
    BY BodyParts
  <2>6. Made(b, c, v)
    BY <2>4, <2>5 DEF Made, Shape, Bridge, NoPort
  <2>7. /\ Body(c) /\ Fits(c, U \cup {Br(v)})
        /\ \A i \in DOMAIN b.bridge : i \in DOMAIN c.bridge /\ c.bridge[i] = b.bridge[i]
        /\ \A e : e.kind = "ap" => /\ At(c.netconf, e) = At(b.netconf, e)
                                   /\ Members(c, e) = Members(b, e)
    BY <2>2, <2>3, <2>6, MadeBridge
  <2> QED
    BY <2>6, <2>7 DEF WithBridgeOf, SameWLANs, OthersHome, SameHome, Made
<1> QED
  BY <1>4, <1>5

\* Bridge k of c holds what it held in b, but for d, which bridge i holds.
PortMoved(p, q, here, d) ==
    /\ Numbered(q, Interface)
    /\ Uses(q) = (Uses(p) \ {d}) \cup (IF here THEN {d} ELSE {})
    /\ IsInjective(p) => IsInjective(q)
    /\ \A e : e # d => At(q, e) = At(p, e)

\* The ports q are the ports p without interface d, and port n for d if it is here.
PortWith(q, p, here, n, d) ==
    q = [j \in {k \in DOMAIN p : p[k] # d} \cup (IF here THEN {n} ELSE {}) |->
            IF here /\ j = n THEN d ELSE p[j]]

\* Ports that lose an interface and may gain it once have moved it.
LEMMA PortMoves ==
    ASSUME NEW p, Numbered(p, Interface), NEW d, d \in Interface, NEW here, here \in BOOLEAN,
           NEW n, n \in Nat \ {0}, here => n \notin DOMAIN p,
           NEW q, PortWith(q, p, here, n, d)
    PROVE  PortMoved(p, q, here, d)
<1> DEFINE N == IF here THEN {n} ELSE {}
           K == {j \in DOMAIN p : p[j] # d}
<1>0. q = [j \in K \cup N |-> IF here /\ j = n THEN d ELSE p[j]]
  BY DEF PortWith
<1>1. DOMAIN q = K \cup N /\ N \subseteq Nat \ {0} /\ N \cap K = {}
  BY <1>0
<1>2. \A j \in K : q[j] = p[j] /\ p[j] # d /\ j \in DOMAIN p
  BY <1>0, <1>1
<1>3. \A j \in N : q[j] = d /\ here
  BY <1>0, <1>1
<1>4. here => n \in N
  OBVIOUS
<1>5. IsFiniteSet(DOMAIN q)
  <2>1. IsFiniteSet(K)
    BY FS_Subset DEF Numbered, K
  <2>2. IsFiniteSet(N)
    BY FS_Singleton, FS_EmptySet
  <2> QED
    BY <1>1, <2>1, <2>2, FS_Union
<1>6. q = [j \in DOMAIN q |-> q[j]]
  BY <1>0
<1>7. \A j \in DOMAIN p : p[j] # d => j \in K
  OBVIOUS
<1> HIDE DEF N, K
<1>8. Numbered(q, Interface)
  <2>1. \A j \in DOMAIN q : q[j] \in Interface
    BY <1>1, <1>2, <1>3 DEF Numbered
  <2>2. DOMAIN q \subseteq Nat \ {0}
    BY <1>1, <1>2 DEF Numbered
  <2> QED
    BY <1>5, <1>6, <2>1, <2>2 DEF Numbered
<1>9. Uses(q) = (Uses(p) \ {d}) \cup (IF here THEN {d} ELSE {})
  BY <1>1, <1>2, <1>3, <1>4, <1>7 DEF Uses
<1>10. IsInjective(p) => IsInjective(q)
  <2>1. ASSUME IsInjective(p), NEW j \in DOMAIN q, NEW k \in DOMAIN q, q[j] = q[k] PROVE j = k
    <3>1. CASE j \in K /\ k \in K
      BY <1>2, <2>1, <3>1 DEF IsInjective
    <3>2. CASE j \in N /\ k \in N
      BY <3>2 DEF N
    <3> QED
      BY <1>1, <1>2, <1>3, <2>1, <3>1, <3>2
  <2> QED
    BY <2>1 DEF IsInjective
<1>11. \A e : e # d => At(q, e) = At(p, e)
  BY <1>1, <1>2, <1>3, <1>7 DEF At
<1> QED
  BY <1>8, <1>9, <1>10, <1>11 DEF PortMoved

\* Interface d is a member of bridge i alone; other members stay.
MovedTo(b, c, i, d) ==
    /\ Shape(c) /\ BridgeType(c.bridge)
    /\ SameWLANs(b, c) /\ c.aaa = b.aaa /\ c.netconf = b.netconf /\ c.vlan = b.vlan
    /\ DOMAIN c.bridge = DOMAIN b.bridge
    /\ \A k \in DOMAIN b.bridge :
          /\ c.bridge[k].dev = b.bridge[k].dev
          /\ PortMoved(b.bridge[k].port, c.bridge[k].port, k = i, d)
    /\ OthersHome(b, c, d)

\* Replacing the ports of a bridge keeps its name.
LEMMA PortOf ==
    ASSUME NEW r, r = [dev |-> r.dev, port |-> r.port], NEW p
    PROVE  [r EXCEPT !.port = p] = [dev |-> r.dev, port |-> p]
OBVIOUS

\* MoveMember takes an interface out of every bridge and puts it in one.
LEMMA MoveMemberIs ==
    ASSUME NEW b, Body(b), NEW i, i \in DOMAIN b.bridge, NEW d, d \in Interface,
           NEW c, c = MoveMember(b, i, d)
    PROVE  MovedTo(b, c, i, d)
<1> DEFINE old == Members(b, d)
           new == NextRecord(b.bridge[i].port)
           kept(k) == {j \in DOMAIN b.bridge[k].port : <<k, j>> \notin old}
           ports(k) == [j \in kept(k) \cup (IF k = i THEN {new} ELSE {}) |->
                           IF k = i /\ j = new THEN d ELSE b.bridge[k].port[j]]
           h == [k \in DOMAIN b.bridge |-> [b.bridge[k] EXCEPT !.port = ports(k)]]
<1>1. c = [b EXCEPT !.bridge = h]
  BY DEF MoveMember
<1>2. BridgeType(b.bridge) /\ Shape(b)
  BY BodyParts
<1>3. /\ IsFiniteSet(DOMAIN b.bridge) /\ DOMAIN b.bridge \subseteq Nat \ {0}
      /\ \A k \in DOMAIN b.bridge : /\ b.bridge[k] = [dev |-> b.bridge[k].dev, port |-> b.bridge[k].port]
                                      /\ b.bridge[k].dev \in Interface
                                      /\ Numbered(b.bridge[k].port, Interface)
  BY <1>2 DEF BridgeType
<1>4. ASSUME NEW k \in DOMAIN b.bridge
      PROVE  PortMoved(b.bridge[k].port, ports(k), k = i, d)
  <2> DEFINE p == b.bridge[k].port
             K == {j \in DOMAIN p : p[j] # d}
  <2>1. Numbered(p, Interface)
    BY <1>3
  <2>2. kept(k) = K
    BY InMembers
  <2>3. new \in Nat \ {0} /\ (k = i => new \notin DOMAIN p)
    BY <1>3, NextRecordIsFree DEF Numbered
  <2>4. PortWith(ports(k), p, k = i, new, d)
    BY <2>2 DEF PortWith
  <2>5. (k = i) \in BOOLEAN
    OBVIOUS
  <2> HIDE DEF new, K, kept, ports
  <2> QED
    BY <2>1, <2>3, <2>4, <2>5, PortMoves
<1>5. \A k \in DOMAIN b.bridge : h[k] = [dev |-> b.bridge[k].dev, port |-> ports(k)]
  <2> TAKE k \in DOMAIN b.bridge
  <2> HIDE DEF ports
  <2>1. h[k] = [b.bridge[k] EXCEPT !.port = ports(k)]
    OBVIOUS
  <2> HIDE DEF h
  <2>2. b.bridge[k] = [dev |-> b.bridge[k].dev, port |-> b.bridge[k].port]
    BY <1>3
  <2> QED
    BY <2>1, <2>2, PortOf
<1>6. DOMAIN h = DOMAIN b.bridge
  OBVIOUS
<1> HIDE DEF ports, old, new, h
<1>7. /\ c = [wireless |-> b.wireless, aaa |-> b.aaa, netconf |-> b.netconf, vlan |-> b.vlan,
              bridge |-> h, radio |-> b.radio, filter |-> b.filter]
  BY <1>1, <1>2 DEF Shape
<1>8. /\ c.wireless = b.wireless /\ c.aaa = b.aaa /\ c.netconf = b.netconf /\ c.vlan = b.vlan
      /\ c.bridge = h /\ c.radio = b.radio /\ c.filter = b.filter /\ Shape(c)
  BY <1>7 DEF Shape
<1>9. \A k \in DOMAIN b.bridge : h[k].dev = b.bridge[k].dev /\ h[k].port = ports(k)
  <2> TAKE k \in DOMAIN b.bridge
  <2>1. h[k] = [dev |-> b.bridge[k].dev, port |-> ports(k)]
    BY <1>5
  <2> QED
    BY <2>1
<1>10. BridgeType(h)
  <2>1. \A k \in DOMAIN h : /\ h[k] = [dev |-> h[k].dev, port |-> h[k].port]
                              /\ h[k].dev \in Interface /\ Numbered(h[k].port, Interface)
    BY <1>3, <1>4, <1>5, <1>6, <1>9 DEF PortMoved
  <2>2. h = [k \in DOMAIN h |-> h[k]]
    BY DEF h
  <2>3. h = [k \in DOMAIN h |-> [dev |-> h[k].dev, port |-> h[k].port]]
    BY <2>1, <2>2
  <2> QED
    BY <1>3, <1>6, <2>1, <2>3 DEF BridgeType
<1>11. ASSUME NEW e, e # d
       PROVE  Members(c, e) = Members(b, e)
  <2>1. \A k, j :
              (k \in DOMAIN b.bridge /\ j \in DOMAIN b.bridge[k].port /\ b.bridge[k].port[j] = e)
          <=> (k \in DOMAIN c.bridge /\ j \in DOMAIN c.bridge[k].port /\ c.bridge[k].port[j] = e)
    <3> TAKE k, j
    <3>1. CASE k \in DOMAIN b.bridge
      <4>1. At(ports(k), e) = At(b.bridge[k].port, e)
        BY <1>4, <1>11, <3>1 DEF PortMoved
      <4>2. c.bridge[k].port = ports(k)
        BY <1>8, <1>9, <3>1
      <4> QED
        BY <1>6, <1>8, <3>1, <4>1, <4>2 DEF At
    <3>2. CASE k \notin DOMAIN b.bridge
      BY <1>6, <1>8, <3>2
    <3> QED
      BY <3>1, <3>2
  <2> QED
    BY ONLY <2>1, SameMembers, Zenon
<1>12. OthersHome(b, c, d)
  BY <1>8, <1>11 DEF OthersHome, SameHome
<1>13. \A k \in DOMAIN b.bridge : PortMoved(b.bridge[k].port, c.bridge[k].port, k = i, d)
  BY <1>4, <1>8, <1>9
<1> QED
  BY <1>6, <1>8, <1>9, <1>10, <1>12, <1>13 DEF MovedTo, SameWLANs

-------------------------------------------------------------------------------
(* Bridges that are collected *)

AllHomed(b) == \A n \in DOMAIN b.aaa : Homed(b, n)

\* An aaa record that is homed names a bridge.
LEMMA HomeIsBridge ==
    ASSUME NEW b, NEW U, Fits(b, U), NEW n, Homed(b, n)
    PROVE  b.aaa[n].br \in U
<1>1. BridgesMatch(b, U)
  BY DEF Fits
<1> QED
  BY <1>1 DEF BridgesMatch, Homed

\* The bridges that WLANs use are there.
LEMMA UsedAreBridges ==
    ASSUME NEW b, NEW U, Fits(b, U), AllHomed(b)
    PROVE  Used(b) \subseteq U
<1>1. BridgesMatch(b, U)
  BY DEF Fits
<1>2. \A n \in DOMAIN b.aaa : b.aaa[n].br \in U
  BY HomeIsBridge DEF AllHomed
<1> QED
  BY <1>1, <1>2 DEF BridgesMatch, Used

\* Body c is b without the bridge name, bridge i.
Gone(b, c, i, name) ==
    LET W == Wires({name}) IN
    /\ Shape(c) /\ SameWLANs(b, c) /\ c.aaa = b.aaa
    /\ c.vlan = DeleteRecord(b.vlan, Having(b.vlan, W))
    /\ c.netconf = DeleteRecord(b.netconf, Having(b.netconf, W \cup {name}))
    /\ c.bridge = DeleteRecord(b.bridge, {i})

\* The bridge of a VLAN that no WLAN uses holds the VLAN interfaces only.
LEMMA UnusedHoldsWires ==
    ASSUME NEW b, Body(b), NEW U, Fits(b, U), AllHomed(b),
           NEW i, i \in DOMAIN b.bridge, b.bridge[i].dev # Br(0),
           \A n \in DOMAIN b.aaa : b.aaa[n].br # b.bridge[i].dev
    PROVE  Uses(b.bridge[i].port) = Wires({b.bridge[i].dev})
<1>1. PortsMatch(b) /\ WLANsMatch(b) /\ BridgesMatch(b, U)
  BY DEF Fits
<1>2. b.bridge[i].dev = Br(b.bridge[i].dev.b) /\ b.bridge[i].dev.b # 0
  BY <1>1, BridgeDevs
<1>3. Wires({b.bridge[i].dev}) \subseteq Uses(b.bridge[i].port)
  BY <1>1 DEF PortsMatch
<1>4. ASSUME NEW d \in Uses(b.bridge[i].port), d.kind = "ap", d \in WirelessDevs(b) PROVE FALSE
  <2>1. PICK m \in DOMAIN b.wireless : b.wireless[m].dev = d
    BY <1>4 DEF WirelessDevs
  <2>2. PICK n \in DOMAIN b.aaa : b.aaa[n].dev = d
    BY <1>1, <2>1 DEF WLANsMatch
  <2>3. PICK k \in DOMAIN b.bridge : b.bridge[k].dev = b.aaa[n].br /\ d \in Uses(b.bridge[k].port)
    BY <2>2 DEF AllHomed, Homed
  <2>4. k = i
    BY <1>1, <1>4, <2>3 DEF PortsMatch
  <2> QED
    BY <2>3, <2>4
<1>5. \A d \in Uses(b.bridge[i].port) :
         \/ d.kind = "ap" /\ d \in WirelessDevs(b)
         \/ d.b = b.bridge[i].dev.b /\ (d.b # 0 => d \in Wires({b.bridge[i].dev}))
  BY <1>1 DEF PortsMatch
<1>6. Uses(b.bridge[i].port) \subseteq Wires({b.bridge[i].dev})
  BY <1>2, <1>4, <1>5
<1> QED
  BY <1>3, <1>6

\* The records of values that records apart have once.
LEMMA LeastOfEach ==
    ASSUME NEW T, NEW f, Numbered(f, T), IsInjective(f), NEW V, V \subseteq Uses(f)
    PROVE  {Least(At(f, d)) : d \in V} = Having(f, V)
<1>1. \A m \in DOMAIN f : At(f, f[m]) = {m}
  BY DEF At, IsInjective
<1>2. DOMAIN f \subseteq Nat
  BY DEF Numbered
<1>3. \A m \in DOMAIN f : Least({m}) = m
  <2> TAKE m \in DOMAIN f
  <2>1. {m} \subseteq Nat /\ {m} # {}
    BY <1>2
  <2>2. Least({m}) \in {m}
    BY <2>1, LeastIn
  <2> QED
    BY <2>2
<1>4. \A m \in DOMAIN f : Least(At(f, f[m])) = m
  BY <1>1, <1>3
<1>5. \A d \in V : \E m \in DOMAIN f : f[m] = d
  BY DEF Uses
<1> QED
  BY <1>4, <1>5 DEF Having

\* Removing an unused bridge finds the bridge alone, and removes it.
LEMMA RemoveUnusedBridgeIs ==
    ASSUME NEW b, Body(b), NEW U, Fits(b, U), AllHomed(b), NEW name,
           NEW c, c \in RemoveUnusedBridge(b, name)
    PROVE  \/ c = b /\ (name \in U => name \in Used(b))
           \/ /\ name \in U /\ name # Br(0) /\ \A n \in DOMAIN b.aaa : b.aaa[n].br # name
              /\ \E i \in DOMAIN b.bridge : b.bridge[i].dev = name /\ Gone(b, c, i, name)
<1> DEFINE found == Named(b.bridge, name)
           i == Least(found)
           wires == {b.bridge[i].port[j] : j \in DOMAIN b.bridge[i].port}
           gone == {dev \in wires : ~UsedByOtherBridge(b, i, dev)}
           W == Wires({name})
<1>1. /\ PortsMatch(b) /\ RecordsMatch(b, U) /\ BridgesMatch(b, U)
      /\ BridgeType(b.bridge) /\ Shape(b)
      /\ Numbered(b.vlan, Interface) /\ Numbered(b.netconf, Interface)
  BY BodyParts DEF Fits
<1>2. CASE name \in {NoDev, Br(0)} \/ \E n \in DOMAIN b.aaa : b.aaa[n].br = name
  <2>1. c = b
    BY <1>2 DEF RemoveUnusedBridge
  <2>2. NoDev \notin U
    <3>1. U \subseteq Bridges
      BY <1>1, BridgeDevs
    <3> QED
      BY <3>1, BridgesAre, InterfaceKinds
  <2> QED
    BY <1>2, <2>1, <2>2 DEF Used
<1>3. CASE ~(name \in {NoDev, Br(0)} \/ \E n \in DOMAIN b.aaa : b.aaa[n].br = name)
  <2>1. CASE found = {}
    <3>1. c = b
      BY <1>3, <2>1 DEF RemoveUnusedBridge
    <3>2. name \notin U
      BY <1>1, <2>1 DEF Named, BridgesMatch
    <3> QED
      BY <3>1, <3>2
  <2>2. CASE found # {}
    <3>1. PICK k \in DOMAIN b.bridge : b.bridge[k].dev = name
      BY <2>2 DEF Named
    <3>2. found = {k}
      BY <1>1, <3>1 DEF Named, BridgesMatch
    <3>3. found \subseteq Nat
      BY <1>1 DEF BridgeType, Named
    <3>4. i = k
      <4>1. Least(found) \in found
        BY <2>2, <3>3, LeastIn
      <4> QED
        BY <3>2, <4>1
    <3>5. name \in U
      BY <1>1, <3>1 DEF BridgesMatch
    <3>6. wires = W /\ W = Uses(b.bridge[k].port)
      <4>1. Uses(b.bridge[k].port) = W
        BY <1>3, <3>1, UnusedHoldsWires
      <4> QED
        BY <3>4, <4>1 DEF Uses
    <3> HIDE DEF found, i
    <3>7. gone = W
      <4> SUFFICES ASSUME NEW d \in W, UsedByOtherBridge(b, i, d) PROVE FALSE
        BY <3>6
      <4>1. PICK m \in Members(b, d) : m[1] # k
        BY <3>4 DEF UsedByOtherBridge
      <4>2. m = <<m[1], m[2]>>
        BY InMembers
      <4>3. m[1] \in DOMAIN b.bridge /\ d \in Uses(b.bridge[m[1]].port)
        <5>1. <<m[1], m[2]>> \in Members(b, d)
          BY <4>2
        <5> QED
          BY <5>1, InMembers DEF Uses
      <4> QED
        BY <1>1, <3>1, <3>6, <4>1, <4>3 DEF PortsMatch
    <3>8. W \subseteq Uses(b.vlan) /\ IsInjective(b.vlan)
      <4>1. Wires({name}) \subseteq Wires(U)
        <5>1. U \subseteq Bridges /\ name \in Bridges
          BY <1>1, <3>5, BridgeDevs
        <5>2. PICK v \in VLAN \cup {0} : name = Br(v)
          BY <5>1 DEF Bridges
        <5> QED
          BY <3>5, <5>1, <5>2, WiresAre
      <4> QED
        BY <1>1, <4>1 DEF RecordsMatch
    <3> HIDE DEF wires, gone, W
    <3>9. ~\E d \in wires : At(b.vlan, d) = {}
      BY <3>6, <3>8 DEF Uses, At
    <3>10. c = [b EXCEPT
                 !.vlan = DeleteRecord(@, {Least(At(@, dev)) : dev \in gone}),
                 !.netconf = DeleteRecord(@, UNION {At(@, dev) : dev \in gone \cup {name}}),
                 !.bridge = DeleteRecord(@, found)]
      <4>1. ~(Cardinality(found) > 1)
        <5>1. IsFiniteSet(found) /\ \A x, y \in found : x = y
          BY <3>2, FS_Singleton
        <5> QED
          BY <5>1, AtMostOne
      <4> QED
        BY <1>3, <2>2, <3>9, <4>1 DEF RemoveUnusedBridge, found, i, wires, gone
    <3>11. {Least(At(b.vlan, dev)) : dev \in W} = Having(b.vlan, W)
      BY <1>1, <3>8, LeastOfEach
    <3>12. UNION {At(b.netconf, dev) : dev \in W \cup {name}}
              = Having(b.netconf, W \cup {name})
      BY DEF At, Having
    <3>13. c = [wireless |-> b.wireless, aaa |-> b.aaa,
                netconf |-> DeleteRecord(b.netconf, UNION {At(b.netconf, dev) : dev \in gone \cup {name}}),
                vlan |-> DeleteRecord(b.vlan, {Least(At(b.vlan, dev)) : dev \in gone}),
                bridge |-> DeleteRecord(b.bridge, found), radio |-> b.radio, filter |-> b.filter]
      BY <1>1, <3>10 DEF Shape
    <3>14. /\ Shape(c) /\ SameWLANs(b, c) /\ c.aaa = b.aaa
           /\ c.netconf = DeleteRecord(b.netconf, UNION {At(b.netconf, dev) : dev \in gone \cup {name}})
           /\ c.vlan = DeleteRecord(b.vlan, {Least(At(b.vlan, dev)) : dev \in gone})
           /\ c.bridge = DeleteRecord(b.bridge, found)
      BY <3>13 DEF Shape, SameWLANs
    <3>15. Gone(b, c, k, name)
      BY <3>2, <3>7, <3>11, <3>12, <3>14 DEF Gone, W
    <3> QED
      BY <1>3, <3>1, <3>5, <3>15
  <2> QED
    BY <2>1, <2>2
<1> QED
  BY <1>2, <1>3

\* A fit of parts that do not concern bridges depends on the WLANs only.
LEMMA SameWLANsMatch ==
    ASSUME NEW b, NEW c, SameWLANs(b, c), c.aaa = b.aaa
    PROVE  /\ WirelessDevs(c) = WirelessDevs(b)
           /\ WLANsMatch(b) => WLANsMatch(c)
           /\ RadiosMatch(b) => RadiosMatch(c)
           /\ FiltersMatch(b) => FiltersMatch(c)
<1>1. c.wireless = b.wireless /\ c.radio = b.radio /\ c.filter = b.filter
  BY DEF SameWLANs
<1>2. WirelessDevs(c) = WirelessDevs(b)
  BY <1>1 DEF WirelessDevs
<1>3. WLANsMatch(b) => WLANsMatch(c)
  BY <1>1, <1>2 DEF WLANsMatch
<1>4. \A r : OnRadio(c, r) = OnRadio(b, r)
  BY <1>1 DEF OnRadio
<1>5. RadiosMatch(b) => RadiosMatch(c)
  BY <1>1, <1>4 DEF RadiosMatch
<1>6. FiltersMatch(b) => FiltersMatch(c)
  BY <1>1, <1>2 DEF FiltersMatch
<1> QED
  BY <1>2, <1>3, <1>5, <1>6

\* The bridge that is collected goes with its VLAN interfaces and their records.
LEMMA GoneFits ==
    ASSUME NEW b, Body(b), NEW U, Fits(b, U), AllHomed(b), NEW name, name \in U, name # Br(0),
           \A n \in DOMAIN b.aaa : b.aaa[n].br # name,
           NEW i, i \in DOMAIN b.bridge, b.bridge[i].dev = name,
           NEW c, Gone(b, c, i, name)
    PROVE  Body(c) /\ Fits(c, U \ {name}) /\ AllHomed(c) /\ OthersHome(b, c, NoDev)
<1> DEFINE W == Wires({name})
<1>1. /\ PortsMatch(b) /\ RecordsMatch(b, U) /\ BridgesMatch(b, U)
      /\ WLANsMatch(b) /\ RadiosMatch(b) /\ FiltersMatch(b)
      /\ BridgeType(b.bridge) /\ Shape(b)
      /\ Numbered(b.vlan, Interface) /\ Numbered(b.netconf, Interface)
  BY BodyParts DEF Fits
<1>2. /\ Shape(c) /\ SameWLANs(b, c) /\ c.aaa = b.aaa
      /\ c.vlan = DeleteRecord(b.vlan, Having(b.vlan, W)) /\ c.netconf = DeleteRecord(b.netconf, Having(b.netconf, W \cup {name}))
      /\ c.bridge = DeleteRecord(b.bridge, {i})
  BY DEF Gone
<1>3. /\ U \subseteq Bridges /\ name \in Bridges /\ name \in Interface /\ name.kind = "br"
      /\ name = Br(name.b) /\ name.b \in VLAN \cup {0}
  BY <1>1, BridgeDevs, BridgesAre
<1>4. /\ \A d \in W : d.kind = "wire"
      /\ Wires(U \ {name}) = Wires(U) \ W
      /\ \A d \in Wires(U) : d.kind = "wire"
  <2>1. \A d \in W : d.kind = "wire"
    BY <1>3, WiresAre
  <2>2. Wires(U \ {name}) = Wires(U) \ W
    BY <1>3, WiresAre
  <2>3. \A d \in Wires(U) : d.kind = "wire"
    BY <1>3, WiresAre
  <2> QED
    BY <2>1, <2>2, <2>3
<1>5. Uses(b.bridge[i].port) = W
  BY UnusedHoldsWires
<1> HIDE DEF W
<1>6. /\ Numbered(c.vlan, Interface) /\ Numbered(c.netconf, Interface)
      /\ IsInjective(c.vlan) /\ IsInjective(c.netconf)
      /\ Uses(c.vlan) = Uses(b.vlan) \ W
      /\ Uses(c.netconf) = Uses(b.netconf) \ (W \cup {name})
      /\ \A e : e \notin W \cup {name} => At(c.netconf, e) = At(b.netconf, e)
  <2>1. Numbered(c.vlan, Interface)
    BY <1>1, <1>2, DeleteType
  <2>2. Numbered(c.netconf, Interface)
    BY <1>1, <1>2, DeleteType
  <2>3. IsInjective(c.vlan)
    <3>1. IsInjective(b.vlan)
      BY <1>1 DEF RecordsMatch
    <3> QED
      BY <1>2, <3>1, DeleteInjective
  <2>4. IsInjective(c.netconf)
    <3>1. IsInjective(b.netconf)
      BY <1>1 DEF RecordsMatch
    <3> QED
      BY <1>2, <3>1, DeleteInjective
  <2>5. Uses(c.vlan) = Uses(b.vlan) \ W
    BY <1>2, DeleteValues
  <2>6. /\ Uses(c.netconf) = Uses(b.netconf) \ (W \cup {name})
        /\ \A e : e \notin W \cup {name} => At(c.netconf, e) = At(b.netconf, e)
    BY <1>2, DeleteValues
  <2> QED
    BY <2>1, <2>2, <2>3, <2>4, <2>5, <2>6
<1>7. /\ DOMAIN c.bridge = DOMAIN b.bridge \ {i}
      /\ \A k \in DOMAIN c.bridge : c.bridge[k] = b.bridge[k]
  BY <1>2 DEF DeleteRecord
<1>8. BridgeType(c.bridge)
  <2>1. IsFiniteSet(DOMAIN c.bridge)
    BY <1>1, <1>7, FS_Subset DEF BridgeType
  <2>2. \A k \in DOMAIN c.bridge : /\ c.bridge[k] = [dev |-> c.bridge[k].dev, port |-> c.bridge[k].port]
                                   /\ c.bridge[k].dev \in Interface
                                   /\ Numbered(c.bridge[k].port, Interface)
    BY <1>1, <1>7 DEF BridgeType
  <2>3. c.bridge = [k \in DOMAIN c.bridge |-> c.bridge[k]]
    BY <1>2 DEF DeleteRecord
  <2>4. c.bridge = [k \in DOMAIN c.bridge |-> [dev |-> c.bridge[k].dev, port |-> c.bridge[k].port]]
    BY <2>2, <2>3
  <2> QED
    BY <1>1, <1>7, <2>1, <2>2, <2>4 DEF BridgeType
<1>9. Body(c)
  <2>1. Numbered(c.wireless, WirelessRecord) /\ Numbered(c.aaa, AAARecord)
    BY <1>2, BodyParts DEF SameWLANs
  <2>2. Numbered(c.filter, SUBSET Interface) /\ RadioType(c.radio)
    BY <1>2, BodyParts DEF SameWLANs
  <2>3. Numbered(c.netconf, Interface) /\ Numbered(c.vlan, Interface) /\ Shape(c)
    BY <1>2, <1>6
  <2> QED
    BY ONLY <1>8, <2>1, <2>2, <2>3, BodyFromParts, Zenon
<1>10. BridgesMatch(c, U \ {name})
  <2>1. U \ {name} \subseteq {Br(v) : v \in VLAN \cup {0}} /\ Br(0) \in U \ {name}
    BY <1>1 DEF BridgesMatch
  <2>2. {c.bridge[k].dev : k \in DOMAIN c.bridge} = U \ {name}
    BY <1>1, <1>7 DEF BridgesMatch
  <2>3. \A k, l \in DOMAIN c.bridge : c.bridge[k].dev = c.bridge[l].dev => k = l
    BY <1>1, <1>7 DEF BridgesMatch
  <2> QED
    BY <2>1, <2>2, <2>3 DEF BridgesMatch
<1>11. WirelessDevs(c) = WirelessDevs(b) /\ WLANsMatch(c) /\ RadiosMatch(c) /\ FiltersMatch(c)
  BY <1>1, <1>2, SameWLANsMatch
<1>12. PortsMatch(c)
  BY <1>1, <1>7, <1>11 DEF PortsMatch
<1>13. RecordsMatch(c, U \ {name})
  <2>1. Uses(c.vlan) = Wires(U \ {name})
    BY <1>1, <1>4, <1>6 DEF RecordsMatch
  <2>2. \A d \in Uses(c.netconf) : d.kind = "ap" => d \in WirelessDevs(c)
    BY <1>1, <1>6, <1>11 DEF RecordsMatch
  <2>3. {d \in Uses(c.netconf) : d.kind # "ap"} \ {Br(0)}
          = ({d \in Uses(b.netconf) : d.kind # "ap"} \ {Br(0)}) \ (W \cup {name})
    BY <1>6
  <2>4. \A d \in U : d.kind = "br"
    BY <1>3, BridgesAre
  <2>5. (Wires(U) \cup (U \ {Br(0)})) \ (W \cup {name})
          = Wires(U \ {name}) \cup ((U \ {name}) \ {Br(0)})
    BY <1>3, <1>4, <2>4
  <2>6. {d \in Uses(b.netconf) : d.kind # "ap"} \ {Br(0)} = Wires(U) \cup (U \ {Br(0)})
    BY <1>1 DEF RecordsMatch
  <2>7. {d \in Uses(c.netconf) : d.kind # "ap"} \ {Br(0)}
          = Wires(U \ {name}) \cup ((U \ {name}) \ {Br(0)})
    BY <2>3, <2>5, <2>6
  <2> QED
    BY <1>6, <2>1, <2>2, <2>7 DEF RecordsMatch
<1>14. Fits(c, U \ {name})
  BY <1>10, <1>11, <1>12, <1>13 DEF Fits
<1>15. AllHomed(c)
  <2> SUFFICES ASSUME NEW n \in DOMAIN b.aaa PROVE Homed(c, n)
    BY <1>2 DEF AllHomed
  <2>1. PICK k \in DOMAIN b.bridge : b.bridge[k].dev = b.aaa[n].br
                                     /\ b.aaa[n].dev \in Uses(b.bridge[k].port)
    BY DEF AllHomed, Homed
  <2>2. k \in DOMAIN c.bridge /\ c.bridge[k] = b.bridge[k]
    BY <1>7, <2>1
  <2> QED
    BY <1>2, <2>1, <2>2 DEF Homed
<1>16. OthersHome(b, c, NoDev)
  <2> SUFFICES ASSUME NEW e, e.kind = "ap" PROVE SameHome(b, c, e)
    BY DEF OthersHome
  <2>1. e \notin W \cup {name}
    BY <1>3, <1>4
  <2>2. At(c.netconf, e) = At(b.netconf, e)
    BY <1>6, <2>1
  <2>3. \A k, j :
              (k \in DOMAIN b.bridge /\ j \in DOMAIN b.bridge[k].port /\ b.bridge[k].port[j] = e)
          <=> (k \in DOMAIN c.bridge /\ j \in DOMAIN c.bridge[k].port /\ c.bridge[k].port[j] = e)
    <3> TAKE k, j
    <3>1. CASE k \in DOMAIN c.bridge
      BY <1>7, <3>1
    <3>2. CASE k = i
      <4>1. j \in DOMAIN b.bridge[i].port => b.bridge[i].port[j] # e
        BY <1>5, <2>1 DEF Uses
      <4> QED
        BY <1>7, <3>2, <4>1
    <3> QED
      BY <1>7, <3>1, <3>2
  <2>4. Members(c, e) = Members(b, e)
    BY ONLY <2>3, SameMembers, Zenon
  <2> QED
    BY <2>2, <2>4 DEF SameHome
<1> QED
  BY <1>9, <1>14, <1>15, <1>16

\* Body c is b, with the bridges that its WLANs use.
Collected(b, c) ==
    /\ Body(c) /\ Fits(c, Used(c)) /\ AllHomed(c)
    /\ SameWLANs(b, c) /\ c.aaa = b.aaa /\ OthersHome(b, c, NoDev)

\* Only the bridge that is removed may be one too many.
LEMMA RemoveUnusedBridgeFits ==
    ASSUME NEW b, Body(b), NEW U, Fits(b, U), AllHomed(b), NEW name, U \ {name} \subseteq Used(b),
           NEW c, c \in RemoveUnusedBridge(b, name)
    PROVE  Collected(b, c)
<1>1. Used(b) \subseteq U
  BY UsedAreBridges
<1>2. CASE c = b /\ (name \in U => name \in Used(b))
  <2>1. U = Used(b)
    BY <1>1, <1>2
  <2> QED
    BY <1>2, <2>1 DEF Collected, SameWLANs, OthersHome, SameHome
<1>3. CASE /\ name \in U /\ name # Br(0) /\ \A n \in DOMAIN b.aaa : b.aaa[n].br # name
           /\ \E i \in DOMAIN b.bridge : b.bridge[i].dev = name /\ Gone(b, c, i, name)
  <2>1. PICK i \in DOMAIN b.bridge : b.bridge[i].dev = name /\ Gone(b, c, i, name)
    BY <1>3
  <2>2. Body(c) /\ Fits(c, U \ {name}) /\ AllHomed(c) /\ OthersHome(b, c, NoDev)
    BY <1>3, <2>1, GoneFits
  <2>3. SameWLANs(b, c) /\ c.aaa = b.aaa
    BY <2>1 DEF Gone
  <2>4. U \ {name} = Used(b) /\ Used(c) = Used(b)
    BY <1>1, <1>3, <2>3 DEF Used
  <2> QED
    BY <2>2, <2>3, <2>4 DEF Collected
<1> QED
  BY <1>2, <1>3, RemoveUnusedBridgeIs

-------------------------------------------------------------------------------
(* Assigning a bridge, overlaying a WLAN *)

\* Two steps that each move one interface move that one.
LEMMA HomesCompose ==
    ASSUME NEW b, NEW c, NEW g, NEW d, NEW e,
           OthersHome(b, c, d), OthersHome(c, g, e), e = d \/ e = NoDev \/ d = NoDev
    PROVE  OthersHome(b, g, IF d = NoDev THEN e ELSE d)
<1>1. NoDev.kind # "ap"
  BY InterfaceKinds
<1> QED
  BY <1>1 DEF OthersHome, SameHome

\* A member of a WLAN that moves leaves the interfaces matched.
LEMMA MovedFits ==
    ASSUME NEW b, Body(b), NEW U, Fits(b, U), NEW d, d \in WirelessDevs(b), d.kind = "ap",
           NEW i, i \in DOMAIN b.bridge, NEW c, MovedTo(b, c, i, d)
    PROVE  /\ Body(c) /\ Fits(c, U) /\ d \in Uses(c.bridge[i].port)
           /\ \A n \in DOMAIN b.aaa : b.aaa[n].dev # d /\ Homed(b, n) => Homed(c, n)
<1>1. /\ PortsMatch(b) /\ RecordsMatch(b, U) /\ BridgesMatch(b, U)
      /\ WLANsMatch(b) /\ RadiosMatch(b) /\ FiltersMatch(b)
  BY DEF Fits
<1>2. /\ Shape(c) /\ BridgeType(c.bridge)
      /\ SameWLANs(b, c) /\ c.aaa = b.aaa /\ c.netconf = b.netconf /\ c.vlan = b.vlan
      /\ DOMAIN c.bridge = DOMAIN b.bridge
  BY DEF MovedTo
<1>3. ASSUME NEW k \in DOMAIN b.bridge
      PROVE  /\ c.bridge[k].dev = b.bridge[k].dev
             /\ Uses(c.bridge[k].port) = (Uses(b.bridge[k].port) \ {d}) \cup (IF k = i THEN {d} ELSE {})
             /\ IsInjective(b.bridge[k].port) => IsInjective(c.bridge[k].port)
  BY DEF MovedTo, PortMoved
<1>4. Body(c)
  <2>1. Numbered(c.wireless, WirelessRecord) /\ Numbered(c.aaa, AAARecord)
    BY <1>2, BodyParts DEF SameWLANs
  <2>2. Numbered(c.filter, SUBSET Interface) /\ RadioType(c.radio)
    BY <1>2, BodyParts DEF SameWLANs
  <2>3. Numbered(c.netconf, Interface) /\ Numbered(c.vlan, Interface)
    BY <1>2, BodyParts
  <2> QED
    BY ONLY <1>2, <2>1, <2>2, <2>3, BodyFromParts, Zenon
<1>5. WirelessDevs(c) = WirelessDevs(b) /\ WLANsMatch(c) /\ RadiosMatch(c) /\ FiltersMatch(c)
  BY <1>1, <1>2, SameWLANsMatch
<1>6. BridgesMatch(c, U)
  BY <1>1, <1>2, <1>3 DEF BridgesMatch
<1>7. RecordsMatch(c, U)
  BY <1>1, <1>2, <1>5 DEF RecordsMatch
<1>8. PortsMatch(c)
  <2>1. ASSUME NEW k \in DOMAIN c.bridge
        PROVE  /\ IsInjective(c.bridge[k].port)
               /\ Wires({c.bridge[k].dev}) \subseteq Uses(c.bridge[k].port)
               /\ \A e \in Uses(c.bridge[k].port) :
                     \/ e.kind = "ap" /\ e \in WirelessDevs(c)
                     \/ e.kind = "wire" /\ e.b = c.bridge[k].dev.b
                           /\ (e.b # 0 => e \in Wires({c.bridge[k].dev}))
    <3>1. /\ IsInjective(b.bridge[k].port)
          /\ Wires({b.bridge[k].dev}) \subseteq Uses(b.bridge[k].port)
          /\ \A e \in Uses(b.bridge[k].port) :
                     \/ e.kind = "ap" /\ e \in WirelessDevs(b)
                     \/ e.kind = "wire" /\ e.b = b.bridge[k].dev.b
                           /\ (e.b # 0 => e \in Wires({b.bridge[k].dev}))
      BY <1>1, <1>2 DEF PortsMatch
    <3>2. d \notin Wires({b.bridge[k].dev})
      <4>1. {b.bridge[k].dev} \subseteq Bridges
        BY <1>1, <1>2, BridgeDevs
      <4> QED
        BY <4>1, WiresAre
    <3> QED
      BY <1>2, <1>3, <1>5, <3>1, <3>2
  <2>2. \A k, l \in DOMAIN c.bridge :
           k # l => Uses(c.bridge[k].port) \cap Uses(c.bridge[l].port) = {}
    <3>1. \A k, l \in DOMAIN b.bridge :
             k # l => Uses(b.bridge[k].port) \cap Uses(b.bridge[l].port) = {}
      BY <1>1 DEF PortsMatch
    <3> TAKE k, l \in DOMAIN c.bridge
    <3>2. k # l => Uses(b.bridge[k].port) \cap Uses(b.bridge[l].port) = {}
      BY <1>2, <3>1
    <3>3. Uses(c.bridge[k].port) = (Uses(b.bridge[k].port) \ {d}) \cup (IF k = i THEN {d} ELSE {})
      BY <1>2, <1>3
    <3>4. Uses(c.bridge[l].port) = (Uses(b.bridge[l].port) \ {d}) \cup (IF l = i THEN {d} ELSE {})
      BY <1>2, <1>3
    <3> QED
      BY <3>2, <3>3, <3>4
  <2> QED
    BY <2>1, <2>2 DEF PortsMatch
<1>9. Fits(c, U)
  BY <1>5, <1>6, <1>7, <1>8 DEF Fits
<1>10. ASSUME NEW n \in DOMAIN b.aaa, b.aaa[n].dev # d, Homed(b, n)
       PROVE  Homed(c, n)
  <2>1. PICK k \in DOMAIN b.bridge : b.bridge[k].dev = b.aaa[n].br
                                     /\ b.aaa[n].dev \in Uses(b.bridge[k].port)
    BY <1>10 DEF Homed
  <2>2. k \in DOMAIN c.bridge /\ c.bridge[k].dev = b.aaa[n].br /\ b.aaa[n].dev \in Uses(c.bridge[k].port)
    BY <1>2, <1>3, <1>10, <2>1
  <2> QED
    BY <1>2, <2>2 DEF Homed
<1>11. d \in Uses(c.bridge[i].port)
  BY <1>3
<1> QED
  BY <1>4, <1>9, <1>10, <1>11

\* Record a of the aaa records keeps its interface and WLAN; the others keep everything.
AAAChanged(b, c, a) ==
    /\ DOMAIN c.aaa = DOMAIN b.aaa
    /\ \A n \in DOMAIN b.aaa : n # a => c.aaa[n] = b.aaa[n]
    /\ c.aaa[a].dev = b.aaa[a].dev /\ c.aaa[a].ssid = b.aaa[a].ssid

\* Body c is b with another bridge or policy in record a.
AAASet(b, c, a, x, p) ==
    /\ Shape(c) /\ SameWLANs(b, c)
    /\ c.netconf = b.netconf /\ c.vlan = b.vlan /\ c.bridge = b.bridge
    /\ AAAChanged(b, c, a) /\ c.aaa[a].br = x /\ c.aaa[a].policy = p
    /\ Numbered(c.aaa, AAARecord)

\* A write to the bridge or the policy of an aaa record changes nothing else.
LEMMA AAASets ==
    ASSUME NEW b, Body(b), NEW a, a \in DOMAIN b.aaa
    PROVE  /\ \A x : x \in Interface =>
                 AAASet(b, [b EXCEPT !.aaa[a].br = x], a, x, b.aaa[a].policy)
           /\ \A p : p \in Policy =>
                 AAASet(b, [b EXCEPT !.aaa[a].policy = p], a, b.aaa[a].br, p)
<1>1. Shape(b) /\ Numbered(b.aaa, AAARecord)
  BY BodyParts
<1>2. \A n \in DOMAIN b.aaa : b.aaa[n] \in AAARecord
  BY <1>1 DEF Numbered
<1>3. ASSUME NEW r, r \in AAARecord, r.dev = b.aaa[a].dev, r.ssid = b.aaa[a].ssid,
             NEW g, g = [b.aaa EXCEPT ![a] = r],
             NEW c, c = [wireless |-> b.wireless, aaa |-> g, netconf |-> b.netconf, vlan |-> b.vlan,
                         bridge |-> b.bridge, radio |-> b.radio, filter |-> b.filter]
      PROVE  AAASet(b, c, a, r.br, r.policy)
  <2>1. /\ Shape(c) /\ SameWLANs(b, c)
        /\ c.netconf = b.netconf /\ c.vlan = b.vlan /\ c.bridge = b.bridge /\ c.aaa = g
    BY <1>3 DEF Shape, SameWLANs
  <2>2. /\ DOMAIN g = DOMAIN b.aaa /\ g[a] = r
        /\ \A n \in DOMAIN b.aaa : n # a => g[n] = b.aaa[n]
    BY <1>3
  <2>3. Numbered(g, AAARecord)
    BY <1>1, <1>2, <1>3, <2>2 DEF Numbered
  <2> QED
    BY <1>3, <2>1, <2>2, <2>3 DEF AAASet, AAAChanged
<1>4. ASSUME NEW x, x \in Interface
      PROVE  AAASet(b, [b EXCEPT !.aaa[a].br = x], a, x, b.aaa[a].policy)
  <2> DEFINE r == [b.aaa[a] EXCEPT !.br = x]
             g == [b.aaa EXCEPT ![a] = r]
             c == [wireless |-> b.wireless, aaa |-> g, netconf |-> b.netconf, vlan |-> b.vlan,
                         bridge |-> b.bridge, radio |-> b.radio, filter |-> b.filter]
  <2>1. /\ r \in AAARecord /\ r.dev = b.aaa[a].dev /\ r.ssid = b.aaa[a].ssid
        /\ r.br = x /\ r.policy = b.aaa[a].policy
    BY <1>2, <1>4 DEF AAARecord
  <2>2. [b EXCEPT !.aaa[a].br = x] = c
    BY <1>1 DEF Shape
  <2> HIDE DEF r
  <2>3. AAASet(b, c, a, r.br, r.policy)
    BY <1>3, <2>1
  <2> HIDE DEF c
  <2> QED
    BY <2>1, <2>2, <2>3
<1>5. ASSUME NEW p, p \in Policy
      PROVE  AAASet(b, [b EXCEPT !.aaa[a].policy = p], a, b.aaa[a].br, p)
  <2> DEFINE r == [b.aaa[a] EXCEPT !.policy = p]
             g == [b.aaa EXCEPT ![a] = r]
             c == [wireless |-> b.wireless, aaa |-> g, netconf |-> b.netconf, vlan |-> b.vlan,
                         bridge |-> b.bridge, radio |-> b.radio, filter |-> b.filter]
  <2>1. /\ r \in AAARecord /\ r.dev = b.aaa[a].dev /\ r.ssid = b.aaa[a].ssid
        /\ r.br = b.aaa[a].br /\ r.policy = p
    BY <1>2, <1>5 DEF AAARecord
  <2>2. [b EXCEPT !.aaa[a].policy = p] = c
    BY <1>1 DEF Shape
  <2> HIDE DEF r
  <2>3. AAASet(b, c, a, r.br, r.policy)
    BY <1>3, <2>1
  <2> HIDE DEF c
  <2> QED
    BY <2>1, <2>2, <2>3
<1> QED
  BY <1>4, <1>5

\* The policy is written.
LEMMA PolicySets ==
    ASSUME NEW b, Body(b), NEW a, a \in DOMAIN b.aaa, NEW p, p \in Policy,
           NEW c, c = [b EXCEPT !.aaa[a].policy = p]
    PROVE  AAASet(b, c, a, b.aaa[a].br, p)
BY AAASets

\* The bridge is written.
LEMMA BridgeSets ==
    ASSUME NEW b, Body(b), NEW a, a \in DOMAIN b.aaa, NEW x, x \in Interface,
           NEW c, c = [b EXCEPT !.aaa[a].br = x]
    PROVE  AAASet(b, c, a, x, b.aaa[a].policy)
BY AAASets

\* Such a write keeps the interfaces matched and the WLANs at home.
LEMMA AAASetFits ==
    ASSUME NEW b, Body(b), NEW a, a \in DOMAIN b.aaa, NEW x, NEW p, NEW c, AAASet(b, c, a, x, p)
    PROVE  /\ Body(c)
           /\ \A U : Fits(b, U) => Fits(c, U)
           /\ \A n \in DOMAIN b.aaa : n # a /\ Homed(b, n) => Homed(c, n)
           /\ x = b.aaa[a].br /\ Homed(b, a) => Homed(c, a)
           /\ \A e : SameHome(b, c, e)
<1>1. /\ Shape(c) /\ SameWLANs(b, c)
      /\ c.netconf = b.netconf /\ c.vlan = b.vlan /\ c.bridge = b.bridge
      /\ DOMAIN c.aaa = DOMAIN b.aaa
      /\ \A n \in DOMAIN b.aaa : n # a => c.aaa[n] = b.aaa[n]
      /\ c.aaa[a].dev = b.aaa[a].dev /\ c.aaa[a].ssid = b.aaa[a].ssid
      /\ c.aaa[a].br = x /\ Numbered(c.aaa, AAARecord)
  BY DEF AAASet, AAAChanged
<1>2. Body(c)
  <2>1. Numbered(c.wireless, WirelessRecord)
    BY <1>1, BodyParts DEF SameWLANs
  <2>2. Numbered(c.filter, SUBSET Interface) /\ RadioType(c.radio)
    BY <1>1, BodyParts DEF SameWLANs
  <2>3. Numbered(c.netconf, Interface) /\ Numbered(c.vlan, Interface) /\ BridgeType(c.bridge)
    BY <1>1, BodyParts
  <2> QED
    BY ONLY <1>1, <2>1, <2>2, <2>3, BodyFromParts, Zenon
<1>3. ASSUME NEW U, Fits(b, U)
      PROVE  Fits(c, U)
  <2>1. /\ PortsMatch(b) /\ RecordsMatch(b, U) /\ BridgesMatch(b, U)
        /\ WLANsMatch(b) /\ RadiosMatch(b) /\ FiltersMatch(b)
    BY <1>3 DEF Fits
  <2>2. \A n \in DOMAIN b.aaa : c.aaa[n].dev = b.aaa[n].dev /\ c.aaa[n].ssid = b.aaa[n].ssid
    BY <1>1
  <2>3. c.wireless = b.wireless /\ c.radio = b.radio /\ c.filter = b.filter
    BY <1>1 DEF SameWLANs
  <2>4. WirelessDevs(c) = WirelessDevs(b)
    BY <2>3 DEF WirelessDevs
  <2>5. WLANsMatch(c)
    BY <1>1, <2>1, <2>2, <2>3, <2>4 DEF WLANsMatch
  <2>6. \A r : OnRadio(c, r) = OnRadio(b, r)
    BY <2>3 DEF OnRadio
  <2>7. RadiosMatch(c)
    BY <2>1, <2>3, <2>6 DEF RadiosMatch
  <2>8. FiltersMatch(c)
    BY <2>1, <2>3, <2>4 DEF FiltersMatch
  <2>9. BridgesMatch(c, U)
    BY <1>1, <2>1 DEF BridgesMatch
  <2>10. PortsMatch(c)
    <3>1. c.bridge = b.bridge /\ PortsMatch(b)
      BY <1>1, <2>1
    <3> QED
      BY ONLY <2>4, <3>1, Zenon DEF PortsMatch
  <2>11. RecordsMatch(c, U)
    BY <1>1, <2>1, <2>4 DEF RecordsMatch
  <2> QED
    BY <2>5, <2>7, <2>8, <2>9, <2>10, <2>11 DEF Fits
<1>4. \A n \in DOMAIN b.aaa : n # a /\ Homed(b, n) => Homed(c, n)
  BY <1>1 DEF Homed
<1>5. x = b.aaa[a].br /\ Homed(b, a) => Homed(c, a)
  BY <1>1 DEF Homed
<1>6. \A e : Members(c, e) = Members(b, e)
  BY <1>1 DEF Members
<1>7. \A e : SameHome(b, c, e)
  BY <1>1, <1>6 DEF SameHome
<1> QED
  BY <1>2, <1>3, <1>4, <1>5, <1>7

\* A body in which the WLAN of record a may have no bridge yet.
Nearly(b, a) ==
    /\ Body(b) /\ Fits(b, Used(b) \ {NoDev})
    /\ \A n \in DOMAIN b.aaa : n # a => Homed(b, n)
    /\ Homed(b, a) \/ b.aaa[a].br = NoDev

WholeBody(b) == Body(b) /\ Fits(b, Used(b)) /\ AllHomed(b)

\* A whole body fits the bridges that its WLANs use, each of them at home.
LEMMA WholeIs ==
    ASSUME NEW b
    PROVE  WholeBody(b) <=> Body(b) /\ Whole(b)
BY DEF WholeBody, Whole, AllHomed

\* In a whole body every WLAN has its bridge.
LEMMA WholeIsNearly ==
    ASSUME NEW b, WholeBody(b), NEW a, a \in DOMAIN b.aaa
    PROVE  Nearly(b, a)
<1>1. Body(b) /\ Fits(b, Used(b)) /\ AllHomed(b)
  BY DEF WholeBody
<1>2. BridgesMatch(b, Used(b))
  BY <1>1 DEF Fits
<1>3. NoDev \notin Used(b)
  BY <1>2, BridgeDevs, BridgesAre, InterfaceKinds
<1>4. Used(b) \ {NoDev} = Used(b)
  BY <1>3
<1> QED
  BY <1>1, <1>4 DEF Nearly, AllHomed

\* A body whose last WLAN has found its bridge is whole.
LEMMA NearlyIsWhole ==
    ASSUME NEW b, NEW a, Nearly(b, a), Homed(b, a)
    PROVE  WholeBody(b)
<1>1. Body(b) /\ Fits(b, Used(b) \ {NoDev}) /\ AllHomed(b)
  BY DEF Nearly, AllHomed
<1>2. Used(b) \subseteq Used(b) \ {NoDev}
  BY <1>1, UsedAreBridges
<1>3. Used(b) \ {NoDev} = Used(b)
  BY <1>2
<1> QED
  BY <1>1, <1>3 DEF WholeBody

\* Body c is b with the WLAN of record a on the bridge of VLAN v.
Assigned(b, c, a, v) ==
    /\ WholeBody(c) /\ SameWLANs(b, c)
    /\ AAAChanged(b, c, a) /\ c.aaa[a].br = Br(v) /\ c.aaa[a].policy = b.aaa[a].policy
    /\ OthersHome(b, c, b.aaa[a].dev)

\* assignBridge makes the body whole with the WLAN on the bridge it names.
LEMMA AssignBridgeIs ==
    ASSUME NEW b, NEW a, a \in DOMAIN b.aaa, Nearly(b, a),
           NEW w, w \in DOMAIN b.wireless, b.wireless[w].dev = b.aaa[a].dev,
           NEW v, v \in VLAN \cup {0}, NEW c, c \in AssignBridge(b, w, a, v)
    PROVE  Assigned(b, c, a, v)
<1> DEFINE old == b.aaa[a].br
           d == b.wireless[w].dev
           U == Used(b) \ {NoDev}
           V == U \cup {Br(v)}
<1>1. Body(b) /\ Fits(b, U)
  BY DEF Nearly
<1>2. Br(v) \in Interface /\ Br(v) # NoDev
  BY VLANIsNumber, InterfaceKinds
<1>3. CASE old = Br(v)
  <2>1. c = b
    BY <1>3 DEF AssignBridge
  <2>2. Homed(b, a)
    BY <1>2, <1>3 DEF Nearly
  <2>3. WholeBody(b)
    BY <2>2, NearlyIsWhole
  <2> QED
    BY <1>3, <2>1, <2>3 DEF Assigned, SameWLANs, AAAChanged, OthersHome, SameHome
<1>4. CASE old # Br(v)
  <2>1. PICK b1 \in WithBridge(b, v) :
           c \in RemoveUnusedBridge(
                    [MoveMember(b1, Least(Named(b1.bridge, Br(v))), d) EXCEPT !.aaa[a].br = Br(v)], old)
    BY <1>4 DEF AssignBridge
  <2> DEFINE i == Least(Named(b1.bridge, Br(v)))
             b2 == MoveMember(b1, i, d)
             b3 == [b2 EXCEPT !.aaa[a].br = Br(v)]
  <2>2. WithBridgeOf(b, b1, U, v)
    BY <1>1, WithBridgeIs
  <2>3. /\ Body(b1) /\ Fits(b1, V) /\ SameWLANs(b, b1) /\ b1.aaa = b.aaa
        /\ \A k \in DOMAIN b.bridge : k \in DOMAIN b1.bridge /\ b1.bridge[k] = b.bridge[k]
        /\ OthersHome(b, b1, NoDev)
    BY <2>2 DEF WithBridgeOf
  <2>4. \A n \in DOMAIN b.aaa : Homed(b, n) => Homed(b1, n)
    BY <2>3 DEF Homed
  <2>5. i \in DOMAIN b1.bridge /\ b1.bridge[i].dev = Br(v)
    <3>1. BridgesMatch(b1, V) /\ BridgeType(b1.bridge)
      BY <2>3, BodyParts DEF Fits
    <3>2. Named(b1.bridge, Br(v)) # {}
      BY <3>1 DEF BridgesMatch, Named
    <3>3. Named(b1.bridge, Br(v)) \subseteq Nat
      BY <3>1 DEF BridgeType, Named
    <3>4. i \in Named(b1.bridge, Br(v))
      BY <3>2, <3>3, LeastIn
    <3> QED
      BY <3>4 DEF Named
  <2>6. d \in WirelessDevs(b1) /\ d.kind = "ap" /\ d \in Interface
    <3>1. w \in DOMAIN b1.wireless /\ b1.wireless[w].dev = d
      BY <2>3 DEF SameWLANs
    <3>2. WLANsMatch(b1)
      BY <2>3 DEF Fits
    <3>3. d \in Interface
      BY <1>1, DevOf
    <3> QED
      BY <3>1, <3>2, <3>3 DEF WLANsMatch, WirelessDevs
  <2> HIDE DEF d, i, U
  <2>7. MovedTo(b1, b2, i, d)
    BY <2>3, <2>5, <2>6, MoveMemberIs
  <2> HIDE DEF b2, V
  <2>8. /\ Body(b2) /\ Fits(b2, V) /\ d \in Uses(b2.bridge[i].port)
        /\ \A n \in DOMAIN b1.aaa : b1.aaa[n].dev # d /\ Homed(b1, n) => Homed(b2, n)
    BY <2>3, <2>5, <2>6, <2>7, MovedFits
  <2>9. /\ SameWLANs(b1, b2) /\ b2.aaa = b1.aaa /\ OthersHome(b1, b2, d)
        /\ i \in DOMAIN b2.bridge /\ b2.bridge[i].dev = Br(v)
    BY <2>5, <2>7 DEF MovedTo
  <2>10. b2.aaa = b.aaa /\ a \in DOMAIN b2.aaa /\ b2.aaa[a].dev = d
    BY <2>3, <2>9 DEF d
  <2>11. AAASet(b2, b3, a, Br(v), b2.aaa[a].policy)
    BY <1>2, <2>8, <2>10, BridgeSets
  <2> HIDE DEF b3
  <2>12. /\ Body(b3) /\ Fits(b3, V)
         /\ \A n \in DOMAIN b2.aaa : n # a /\ Homed(b2, n) => Homed(b3, n)
         /\ \A e : SameHome(b2, b3, e)
    BY <2>8, <2>10, <2>11, AAASetFits
  <2>13. /\ SameWLANs(b2, b3) /\ AAAChanged(b2, b3, a) /\ b3.bridge = b2.bridge
         /\ b3.aaa[a].br = Br(v) /\ b3.aaa[a].policy = b2.aaa[a].policy
    BY <2>11 DEF AAASet
  <2>14. AllHomed(b3)
    <3>1. Homed(b3, a)
      BY <2>8, <2>9, <2>10, <2>13 DEF Homed, AAAChanged
    <3>2. WLANsMatch(b)
      BY <1>1 DEF Fits
    <3>3. ASSUME NEW n \in DOMAIN b3.aaa, n # a PROVE Homed(b3, n)
      <4>1. n \in DOMAIN b.aaa
        BY <2>10, <2>13 DEF AAAChanged
      <4>2. Homed(b1, n)
        BY <2>4, <3>3, <4>1 DEF Nearly
      <4>3. b.aaa[n].dev # d
        BY <3>2, <3>3, <4>1 DEF WLANsMatch, d
      <4>4. Homed(b2, n)
        BY <2>3, <2>8, <4>1, <4>2, <4>3
      <4> QED
        BY <2>10, <2>12, <3>3, <4>1, <4>4
    <3> QED
      BY <3>1, <3>3 DEF AllHomed
  <2>15. V \ {old} \subseteq Used(b3)
    <3>1. ASSUME NEW x \in Used(b), x # old PROVE x \in Used(b3)
      <4>1. CASE x = Br(0)
        BY <4>1 DEF Used
      <4>2. CASE x # Br(0)
        <5>1. PICK n \in DOMAIN b.aaa : b.aaa[n].br = x
          BY <4>2 DEF Used
        <5>2. n # a
          BY <3>1, <5>1
        <5>3. n \in DOMAIN b3.aaa /\ b3.aaa[n] = b.aaa[n]
          BY <2>10, <2>13, <5>2 DEF AAAChanged
        <5> QED
          BY <5>1, <5>3 DEF Used
      <4> QED
        BY <4>1, <4>2
    <3>2. Br(v) \in Used(b3)
      <4>1. a \in DOMAIN b3.aaa
        BY <2>10, <2>13 DEF AAAChanged
      <4> QED
        BY <2>13, <4>1 DEF Used
    <3> QED
      BY <3>1, <3>2 DEF U, V
  <2>16. c \in RemoveUnusedBridge(b3, old)
    BY <2>1 DEF b3, b2, i, d
  <2> HIDE DEF old
  <2>17. Collected(b3, c)
    BY <2>12, <2>14, <2>15, <2>16, RemoveUnusedBridgeFits
  <2>18. /\ WholeBody(c) /\ SameWLANs(b3, c) /\ c.aaa = b3.aaa /\ OthersHome(b3, c, NoDev)
    BY <2>17 DEF Collected, WholeBody
  <2>19. SameWLANs(b, c)
    BY <2>3, <2>9, <2>13, <2>18 DEF SameWLANs
  <2>20. AAAChanged(b, c, a) /\ c.aaa[a].br = Br(v) /\ c.aaa[a].policy = b.aaa[a].policy
    BY <2>10, <2>13, <2>18 DEF AAAChanged
  <2>21. OthersHome(b, c, d)
    <3> SUFFICES ASSUME NEW e, e.kind = "ap", e # d PROVE SameHome(b, c, e)
      BY DEF OthersHome
    <3>1. e # NoDev
      BY InterfaceKinds
    <3>2. SameHome(b, b1, e) /\ SameHome(b3, c, e)
      BY <2>3, <2>18, <3>1 DEF OthersHome
    <3>3. SameHome(b1, b2, e) /\ SameHome(b2, b3, e)
      BY <2>9, <2>12 DEF OthersHome
    <3> QED
      BY <3>2, <3>3 DEF SameHome
  <2> QED
    BY <2>18, <2>19, <2>20, <2>21 DEF Assigned, d
<1> QED
  BY <1>3, <1>4

\* A setting supplies each field at most once.
LEMMA FieldsAre ==
    ASSUME NEW f, f \in WiFiNetwork
    PROVE  /\ f.policy \subseteq Policy /\ \A x, y \in f.policy : x = y
           /\ f.vlan \subseteq VLAN \cup {0} /\ \A x, y \in f.vlan : x = y
           /\ UNION f.radios \subseteq Radio /\ \A x, y \in f.radios : x = y
<1>1. f.policy \in Optional(Policy) /\ f.vlan \in Optional(VLAN \cup {0}) /\ f.radios \in Optional(SUBSET Radio)
  BY DEF WiFiNetwork
<1>2. \A T, g : g \in Optional(T) => g \subseteq T /\ \A x, y \in g : x = y
  BY DEF Optional
<1>3. f.radios \subseteq SUBSET Radio
  BY <1>1, <1>2
<1> QED
  BY <1>1, <1>2, <1>3

\* Body c is b with what f says of the WLAN of record a.
Overlaid(b, c, a, f) ==
    /\ Nearly(c, a) /\ (f.vlan # {} \/ WholeBody(b) => WholeBody(c))
    /\ SameWLANs(b, c) /\ AAAChanged(b, c, a)
    /\ IF f.policy = {} THEN c.aaa[a].policy = b.aaa[a].policy ELSE c.aaa[a].policy \in f.policy
    /\ IF f.vlan = {} THEN c.aaa[a].br = b.aaa[a].br ELSE \E v \in f.vlan : c.aaa[a].br = Br(v)
    /\ OthersHome(b, c, b.aaa[a].dev)

\* The policy is written first.
LEMMA PolicyIsSet ==
    ASSUME NEW b, NEW a, a \in DOMAIN b.aaa, Nearly(b, a), NEW f, f \in WiFiNetwork,
           NEW c, c = IF f.policy = {} THEN b
                      ELSE [b EXCEPT !.aaa[a].policy = CHOOSE p \in f.policy : TRUE]
    PROVE  /\ Nearly(c, a) /\ (WholeBody(b) => WholeBody(c))
           /\ SameWLANs(b, c) /\ AAAChanged(b, c, a) /\ c.aaa[a].br = b.aaa[a].br
           /\ IF f.policy = {} THEN c.aaa[a].policy = b.aaa[a].policy ELSE c.aaa[a].policy \in f.policy
           /\ \A e : SameHome(b, c, e)
<1>1. CASE f.policy = {}
  BY <1>1 DEF SameWLANs, AAAChanged, SameHome
<1>2. CASE f.policy # {}
  <2> DEFINE p == CHOOSE q \in f.policy : TRUE
  <2>1. p \in f.policy /\ p \in Policy
    BY <1>2, FieldsAre
  <2>2. Body(b)
    BY DEF Nearly
  <2>3. c = [b EXCEPT !.aaa[a].policy = p]
    BY <1>2
  <2> HIDE DEF p
  <2>4. AAASet(b, c, a, b.aaa[a].br, p)
    BY <2>1, <2>2, <2>3, PolicySets
  <2>5. /\ Body(c) /\ \A U : Fits(b, U) => Fits(c, U)
        /\ \A n \in DOMAIN b.aaa : n # a /\ Homed(b, n) => Homed(c, n)
        /\ Homed(b, a) => Homed(c, a)
        /\ \A e : SameHome(b, c, e)
    <3> DEFINE x == b.aaa[a].br
    <3>1. AAASet(b, c, a, x, p)
      BY <2>4
    <3>2. x = b.aaa[a].br
      OBVIOUS
    <3> HIDE DEF x
    <3>3. Body(c)
      BY <2>2, <3>1, AAASetFits
    <3>4. \A U : Fits(b, U) => Fits(c, U)
      BY <2>2, <3>1, AAASetFits
    <3>5. \A n \in DOMAIN b.aaa : n # a /\ Homed(b, n) => Homed(c, n)
      BY <2>2, <3>1, AAASetFits
    <3>6. Homed(b, a) => Homed(c, a)
      BY <2>2, <3>1, <3>2, AAASetFits
    <3>7. \A e : SameHome(b, c, e)
      BY <2>2, <3>1, AAASetFits
    <3> QED
      BY <3>3, <3>4, <3>5, <3>6, <3>7
  <2>6. /\ SameWLANs(b, c) /\ AAAChanged(b, c, a) /\ c.aaa[a].br = b.aaa[a].br /\ c.aaa[a].policy = p
    BY <2>4 DEF AAASet
  <2>7. Used(c) = Used(b)
    <3>1. \A n \in DOMAIN b.aaa : n \in DOMAIN c.aaa /\ c.aaa[n].br = b.aaa[n].br
      BY <2>6 DEF AAAChanged
    <3>2. DOMAIN c.aaa = DOMAIN b.aaa
      BY <2>6 DEF AAAChanged
    <3> QED
      BY <3>1, <3>2 DEF Used
  <2>8. Nearly(c, a)
    BY <2>5, <2>6, <2>7 DEF Nearly, AAAChanged
  <2>9. WholeBody(b) => WholeBody(c)
    BY <2>5, <2>6, <2>7 DEF WholeBody, AllHomed, AAAChanged
  <2> QED
    BY <1>2, <2>1, <2>5, <2>6, <2>8, <2>9
<1> QED
  BY <1>1, <1>2

\* overlayWiFi changes the one WLAN and keeps a whole body whole.
LEMMA OverlayWiFiIs ==
    ASSUME NEW b, NEW a, a \in DOMAIN b.aaa, Nearly(b, a),
           NEW w, w \in DOMAIN b.wireless, b.wireless[w].dev = b.aaa[a].dev,
           NEW f, f \in WiFiNetwork, NEW c, c \in OverlayWiFi(b, w, a, f)
    PROVE  Overlaid(b, c, a, f)
<1> DEFINE g == IF f.policy = {} THEN b
                ELSE [b EXCEPT !.aaa[a].policy = CHOOSE p \in f.policy : TRUE]
<1>1. /\ Nearly(g, a) /\ (WholeBody(b) => WholeBody(g))
      /\ SameWLANs(b, g) /\ AAAChanged(b, g, a) /\ g.aaa[a].br = b.aaa[a].br
      /\ IF f.policy = {} THEN g.aaa[a].policy = b.aaa[a].policy ELSE g.aaa[a].policy \in f.policy
      /\ \A e : SameHome(b, g, e)
  BY PolicyIsSet
<1>2. c \in IF f.vlan = {} THEN {g} ELSE UNION {AssignBridge(g, w, a, v) : v \in f.vlan}
  BY DEF OverlayWiFi
<1> HIDE DEF g
<1>3. CASE f.vlan = {}
  <2>1. c = g
    BY <1>2, <1>3
  <2>2. OthersHome(b, g, b.aaa[a].dev)
    BY <1>1 DEF OthersHome
  <2> QED
    BY <1>1, <1>3, <2>1, <2>2 DEF Overlaid
<1>4. CASE f.vlan # {}
  <2>1. PICK v \in f.vlan : c \in AssignBridge(g, w, a, v)
    BY <1>2, <1>4
  <2>2. v \in VLAN \cup {0}
    BY FieldsAre
  <2>3. /\ a \in DOMAIN g.aaa /\ g.aaa[a].dev = b.aaa[a].dev
        /\ w \in DOMAIN g.wireless /\ g.wireless[w].dev = g.aaa[a].dev
    BY <1>1 DEF SameWLANs, AAAChanged
  <2>4. Assigned(g, c, a, v)
    BY <1>1, <2>1, <2>2, <2>3, AssignBridgeIs
  <2>5. WholeBody(c) /\ Nearly(c, a)
    <3>1. a \in DOMAIN c.aaa
      BY <2>3, <2>4 DEF Assigned, AAAChanged
    <3>2. WholeBody(c)
      BY <2>4 DEF Assigned
    <3> QED
      BY <3>1, <3>2, WholeIsNearly
  <2>6. SameWLANs(b, c)
    BY <1>1, <2>4 DEF Assigned, SameWLANs
  <2>7. AAAChanged(b, c, a)
    BY <1>1, <2>4 DEF Assigned, AAAChanged
  <2>8. c.aaa[a].policy = g.aaa[a].policy /\ c.aaa[a].br = Br(v)
    BY <2>4 DEF Assigned
  <2>9. OthersHome(b, c, b.aaa[a].dev)
    <3>1. OthersHome(g, c, b.aaa[a].dev)
      BY <2>3, <2>4 DEF Assigned
    <3> QED
      BY <1>1, <3>1 DEF OthersHome, SameHome
  <2>10. \E x \in f.vlan : c.aaa[a].br = Br(x)
    BY <2>1, <2>8
  <2>11. IF f.policy = {} THEN c.aaa[a].policy = b.aaa[a].policy ELSE c.aaa[a].policy \in f.policy
    BY <1>1, <2>8
  <2> QED
    BY <1>4, <2>5, <2>6, <2>7, <2>9, <2>10, <2>11 DEF Overlaid
<1> QED
  BY <1>3, <1>4

-------------------------------------------------------------------------------
(* Adding a WLAN to a radio *)

\* An interface that no record names.
Fresh(b, d) == d \in Interface /\ d.kind = "ap" /\ d \notin Devs(b)

\* A fresh interface is in no record of any kind.
LEMMA FreshIs ==
    ASSUME NEW b, NEW d, Fresh(b, d)
    PROVE  /\ d # NoDev /\ d \notin WirelessDevs(b) /\ d \notin Uses(b.netconf)
           /\ \A n \in DOMAIN b.aaa : b.aaa[n].dev # d
           /\ \A i \in DOMAIN b.bridge : d \notin Uses(b.bridge[i].port)
           /\ \A r \in DOMAIN b.radio : d # b.radio[r].dev /\ d \notin Uses(b.radio[r].virtual)
<1>1. d # NoDev
  BY InterfaceKinds DEF Fresh
<1>2. d \notin Devs(b)
  BY DEF Fresh
<1> QED
  BY <1>1, <1>2 DEF Devs

\* The interfaces that a radio names.
NamedBy(x) == (Uses(x.virtual) \cup {x.dev}) \ {NoDev}

RadioAdded(g, h, r, d) ==
    /\ RadioType(h) /\ DOMAIN h = DOMAIN g
    /\ \A q \in DOMAIN g : q # r => h[q] = g[q]
    /\ NamedBy(h[r]) = NamedBy(g[r]) \cup {d}

\* A write to a radio's names keeps the other radios.
LEMMA RadioSets ==
    ASSUME NEW g, RadioType(g), NEW r, r \in DOMAIN g, NEW d, d \in Interface, NEW v, Numbered(v, Interface),
           NEW h, h = [g EXCEPT ![r] = [dev |-> d, virtual |-> v]]
    PROVE  /\ RadioType(h) /\ DOMAIN h = DOMAIN g
           /\ \A q \in DOMAIN g : q # r => h[q] = g[q]
           /\ h[r].dev = d /\ h[r].virtual = v
<1>1. DOMAIN h = DOMAIN g /\ h = [q \in DOMAIN h |-> h[q]] /\ \A q \in DOMAIN g : q # r => h[q] = g[q]
  OBVIOUS
<1>2. h[r] = [dev |-> d, virtual |-> v]
  OBVIOUS
<1>3. \A q \in DOMAIN h : /\ h[q] = [dev |-> h[q].dev, virtual |-> h[q].virtual]
                           /\ h[q].dev \in Interface /\ Numbered(h[q].virtual, Interface)
  <2> TAKE q \in DOMAIN h
  <2>1. CASE q = r
    BY <1>2, <2>1
  <2>2. CASE q # r
    BY <1>1, <2>2 DEF RadioType
  <2> QED
    BY <2>1, <2>2
<1>4. h = [q \in DOMAIN h |-> [dev |-> h[q].dev, virtual |-> h[q].virtual]]
  BY <1>1, <1>3
<1>5. IsFiniteSet(DOMAIN h) /\ DOMAIN h \subseteq Radio
  BY <1>1 DEF RadioType
<1>6. RadioType(h)
  BY <1>3, <1>4, <1>5 DEF RadioType
<1> QED
  BY <1>1, <1>2, <1>6

\* Body c is b, but for its radios.
OnlyRadios(b, c) ==
    /\ Shape(c) /\ c.wireless = b.wireless /\ c.aaa = b.aaa /\ c.netconf = b.netconf
    /\ c.vlan = b.vlan /\ c.bridge = b.bridge /\ c.filter = b.filter

\* The radio names the interface, as its own or as a virtual one.
LEMMA WithInterfaceIs ==
    ASSUME NEW b, Shape(b), RadioType(b.radio), NEW r, r \in DOMAIN b.radio,
           NEW d, d \in Interface, d # NoDev, NEW c, c = WithInterface(b, r, d)
    PROVE  OnlyRadios(b, c) /\ RadioAdded(b.radio, c.radio, r, d)
<1>1. /\ b.radio[r] = [dev |-> b.radio[r].dev, virtual |-> b.radio[r].virtual]
      /\ b.radio[r].dev \in Interface /\ Numbered(b.radio[r].virtual, Interface)
  BY DEF RadioType
<1>2. CASE b.radio[r].dev = NoDev
  <2> DEFINE y == [b.radio[r] EXCEPT !.dev = d]
             h == [b.radio EXCEPT ![r] = y]
  <2>1. y = [dev |-> d, virtual |-> b.radio[r].virtual]
    BY <1>1
  <2>2. c = [b EXCEPT !.radio[r].dev = d]
    BY <1>2 DEF WithInterface
  <2>3. c = [wireless |-> b.wireless, aaa |-> b.aaa, netconf |-> b.netconf, vlan |-> b.vlan,
             bridge |-> b.bridge, radio |-> h, filter |-> b.filter]
    BY <2>2 DEF Shape
  <2> HIDE DEF y
  <2>4. OnlyRadios(b, c) /\ c.radio = h
    BY <2>3 DEF OnlyRadios, Shape
  <2>5. /\ RadioType(c.radio) /\ DOMAIN c.radio = DOMAIN b.radio
        /\ \A q \in DOMAIN b.radio : q # r => c.radio[q] = b.radio[q]
        /\ c.radio[r].dev = d /\ c.radio[r].virtual = b.radio[r].virtual
    BY <1>1, <2>1, <2>4, RadioSets
  <2> QED
    BY <1>2, <2>4, <2>5 DEF RadioAdded, NamedBy
<1>3. CASE b.radio[r].dev # NoDev
  <2> DEFINE v == Put(b.radio[r].virtual, d)
             y == [b.radio[r] EXCEPT !.virtual = v]
             h == [b.radio EXCEPT ![r] = y]
  <2>1. y = [dev |-> b.radio[r].dev, virtual |-> v]
    <3> HIDE DEF v
    <3> QED
      BY <1>1
  <2>2. c = [b EXCEPT !.radio[r].virtual = v]
    BY <1>3 DEF WithInterface
  <2>3. Numbered(v, Interface)
    BY <1>1, PutType
  <2>4. Uses(v) = Uses(b.radio[r].virtual) \cup {d}
    BY <1>1, PutIs
  <2> HIDE DEF v
  <2>5. c = [wireless |-> b.wireless, aaa |-> b.aaa, netconf |-> b.netconf, vlan |-> b.vlan,
             bridge |-> b.bridge, radio |-> h, filter |-> b.filter]
    BY <2>2 DEF Shape
  <2> HIDE DEF y
  <2>6. OnlyRadios(b, c) /\ c.radio = h
    BY <2>5 DEF OnlyRadios, Shape
  <2>7. /\ RadioType(c.radio) /\ DOMAIN c.radio = DOMAIN b.radio
        /\ \A q \in DOMAIN b.radio : q # r => c.radio[q] = b.radio[q]
        /\ c.radio[r].dev = b.radio[r].dev /\ c.radio[r].virtual = v
    BY <1>1, <2>1, <2>3, <2>6, RadioSets
  <2> QED
    BY <2>4, <2>6, <2>7 DEF RadioAdded, NamedBy
<1> QED
  BY <1>2, <1>3

\* Records h are records f and a new one, x.
IsPut(f, h, x) ==
    /\ NextRecord(f) \notin DOMAIN f /\ DOMAIN h = DOMAIN f \cup {NextRecord(f)}
    /\ h[NextRecord(f)] = x /\ \A n \in DOMAIN f : h[n] = f[n]
    /\ Uses(h) = Uses(f) \cup {x}

\* A record that is written is one record more.
LEMMA PutsOne ==
    ASSUME NEW T, NEW f, Numbered(f, T), NEW x, NEW h, h = Put(f, x)
    PROVE  IsPut(f, h, x)
<1>1. IsPut(f, Put(f, x), x)
  BY PutIs DEF IsPut
<1> QED
  BY <1>1

\* Filters h are filters g, and filters about interface d alone.
FiltersAdded(g, h, d) ==
    /\ Numbered(h, SUBSET Interface)
    /\ \A n \in DOMAIN g : n \in DOMAIN h /\ h[n] = g[n]
    /\ \A n \in DOMAIN h : n \notin DOMAIN g => \A e \in h[n] : e.kind = "ap" => e = d

WLANRecord(name, r, d) == [ssid |-> name, parent |-> r, dev |-> d]

\* Body c is b with the records of a WLAN on radio r, but for its bridge member.
WLANAdded(b, c, name, r, d, x) ==
    /\ Shape(c) /\ c.bridge = b.bridge /\ c.vlan = b.vlan
    /\ c.wireless = Put(b.wireless, WLANRecord(name, r, d))
    /\ c.aaa = Put(b.aaa, x) /\ c.netconf = Put(b.netconf, d)
    /\ RadioAdded(b.radio, c.radio, r, d) /\ FiltersAdded(b.filter, c.filter, d)

\* The records of other WLANs are where they were, as they were.
RecordsKept(b, c) ==
    /\ \A n \in DOMAIN b.wireless : n \in DOMAIN c.wireless /\ c.wireless[n] = b.wireless[n]
    /\ \A n \in DOMAIN b.aaa : n \in DOMAIN c.aaa /\ c.aaa[n] = b.aaa[n]

OthersFilters(b, c, d) == \A e : e.kind = "ap" /\ e # d => Filters(c, e) = Filters(b, e)

NewRecords(b, c, name, r, d, x) ==
    LET w == NextRecord(b.wireless)
        a == NextRecord(b.aaa)
    IN  /\ w \notin DOMAIN b.wireless /\ DOMAIN c.wireless = DOMAIN b.wireless \cup {w}
        /\ c.wireless[w].ssid = name /\ c.wireless[w].parent = r /\ c.wireless[w].dev = d
        /\ a \notin DOMAIN b.aaa /\ DOMAIN c.aaa = DOMAIN b.aaa \cup {a} /\ c.aaa[a] = x

\* The records of a new WLAN leave the others and their members alone.
LEMMA WLANAddedIs ==
    ASSUME NEW b, Body(b), NEW d, Fresh(b, d), NEW name, name \in Name, NEW r, r \in Radio,
           NEW x, x \in AAARecord, x.ssid = name, x.dev = d,
           NEW c, WLANAdded(b, c, name, r, d, x)
    PROVE  /\ Body(c) /\ RecordsKept(b, c) /\ NewRecords(b, c, name, r, d, x)
           /\ Uses(c.netconf) = Uses(b.netconf) \cup {d}
           /\ IsInjective(b.netconf) => IsInjective(c.netconf)
           /\ OthersHome(b, c, d)
<1> DEFINE y == WLANRecord(name, r, d)
           w == NextRecord(b.wireless)
           a == NextRecord(b.aaa)
<1>1. /\ Numbered(b.wireless, WirelessRecord) /\ Numbered(b.aaa, AAARecord)
      /\ Numbered(b.netconf, Interface) /\ Numbered(b.vlan, Interface) /\ BridgeType(b.bridge)
  BY BodyParts
<1>2. d \in Interface /\ d \notin Uses(b.netconf)
  BY FreshIs DEF Fresh
<1>3. y \in WirelessRecord /\ y.ssid = name /\ y.parent = r /\ y.dev = d
  BY <1>2 DEF WLANRecord, WirelessRecord
<1>4. /\ c.wireless = Put(b.wireless, y) /\ c.aaa = Put(b.aaa, x) /\ c.netconf = Put(b.netconf, d)
      /\ c.bridge = b.bridge /\ c.vlan = b.vlan /\ Shape(c)
      /\ RadioType(c.radio) /\ Numbered(c.filter, SUBSET Interface)
  BY DEF WLANAdded, RadioAdded, FiltersAdded
<1> HIDE DEF y
<1>5. Numbered(c.wireless, WirelessRecord)
  BY <1>1, <1>3, <1>4, PutType
<1>6. Numbered(c.aaa, AAARecord)
  BY <1>1, <1>4, PutType
<1>7. Numbered(c.netconf, Interface)
  BY <1>1, <1>2, <1>4, PutType
<1>8. /\ w \notin DOMAIN b.wireless /\ DOMAIN c.wireless = DOMAIN b.wireless \cup {w}
      /\ c.wireless[w] = y /\ \A n \in DOMAIN b.wireless : c.wireless[n] = b.wireless[n]
  <2>1. IsPut(b.wireless, c.wireless, y)
    BY <1>1, <1>4, PutsOne
  <2> QED
    BY <2>1 DEF IsPut
<1>9. /\ a \notin DOMAIN b.aaa /\ DOMAIN c.aaa = DOMAIN b.aaa \cup {a}
      /\ c.aaa[a] = x /\ \A n \in DOMAIN b.aaa : c.aaa[n] = b.aaa[n]
  <2>1. IsPut(b.aaa, c.aaa, x)
    BY <1>1, <1>4, PutsOne
  <2> QED
    BY <2>1 DEF IsPut
<1>10. Body(c)
  <2>1. BridgeType(c.bridge) /\ Numbered(c.vlan, Interface)
    BY <1>1, <1>4
  <2> QED
    BY ONLY <1>4, <1>5, <1>6, <1>7, <2>1, BodyFromParts, Zenon
<1>11. Uses(c.netconf) = Uses(b.netconf) \cup {d}
  <2>1. IsPut(b.netconf, c.netconf, d)
    BY <1>1, <1>4, PutsOne
  <2> QED
    BY <2>1 DEF IsPut
<1>12. IsInjective(b.netconf) => IsInjective(c.netconf)
  BY <1>1, <1>2, <1>4, PutInjective
<1>13. OthersHome(b, c, d)
  <2> SUFFICES ASSUME NEW e, e # d PROVE SameHome(b, c, e)
    BY DEF OthersHome
  <2>1. At(c.netconf, e) = At(b.netconf, e)
    BY <1>1, <1>4, PutAt
  <2>2. Members(c, e) = Members(b, e)
    BY <1>4 DEF Members
  <2> QED
    BY <2>1, <2>2 DEF SameHome
<1>14. RecordsKept(b, c)
  BY <1>8, <1>9 DEF RecordsKept
<1>15. NewRecords(b, c, name, r, d, x)
  BY <1>3, <1>8, <1>9 DEF NewRecords
<1> QED
  BY <1>10, <1>11, <1>12, <1>13, <1>14, <1>15

\* A new WLAN leaves the interfaces matched.
LEMMA WLANAddedFits ==
    ASSUME NEW b, Body(b), NEW U, Fits(b, U), NEW d, Fresh(b, d),
           NEW name, name \in Name, NEW r, r \in DOMAIN b.radio,
           NEW x, x \in AAARecord, x.ssid = name, x.dev = d,
           NEW c, WLANAdded(b, c, name, r, d, x)
    PROVE  /\ Fits(c, U)
           /\ \A n \in DOMAIN b.aaa : Homed(b, n) => Homed(c, n)
           /\ OthersFilters(b, c, d)
<1> DEFINE w == NextRecord(b.wireless)
           a == NextRecord(b.aaa)
<1>1. /\ PortsMatch(b) /\ RecordsMatch(b, U) /\ BridgesMatch(b, U)
      /\ WLANsMatch(b) /\ RadiosMatch(b) /\ FiltersMatch(b)
  BY DEF Fits
<1>2. r \in Radio
  <2>1. RadioType(b.radio)
    BY BodyParts
  <2> QED
    BY <2>1 DEF RadioType
<1>3. /\ RecordsKept(b, c) /\ NewRecords(b, c, name, r, d, x)
      /\ Uses(c.netconf) = Uses(b.netconf) \cup {d}
      /\ IsInjective(b.netconf) => IsInjective(c.netconf)
  BY <1>2, WLANAddedIs
<1>4. /\ w \notin DOMAIN b.wireless /\ DOMAIN c.wireless = DOMAIN b.wireless \cup {w}
      /\ c.wireless[w].ssid = name /\ c.wireless[w].parent = r /\ c.wireless[w].dev = d
      /\ \A n \in DOMAIN b.wireless : c.wireless[n] = b.wireless[n]
  BY <1>3 DEF RecordsKept, NewRecords
<1>5. /\ a \notin DOMAIN b.aaa /\ DOMAIN c.aaa = DOMAIN b.aaa \cup {a} /\ c.aaa[a] = x
      /\ \A n \in DOMAIN b.aaa : c.aaa[n] = b.aaa[n]
  BY <1>3 DEF RecordsKept, NewRecords
<1>6. /\ c.bridge = b.bridge /\ c.vlan = b.vlan
      /\ RadioAdded(b.radio, c.radio, r, d) /\ FiltersAdded(b.filter, c.filter, d)
  BY DEF WLANAdded
<1> HIDE DEF w, a
<1>7. /\ d \notin WirelessDevs(b) /\ d.kind = "ap"
      /\ \A n \in DOMAIN b.aaa : b.aaa[n].dev # d
  BY FreshIs DEF Fresh
<1>8. WirelessDevs(c) = WirelessDevs(b) \cup {d}
  BY <1>4 DEF WirelessDevs
<1>9. WLANsMatch(c)
  <2>1. \A m, n \in DOMAIN c.wireless : c.wireless[m].dev = c.wireless[n].dev => m = n
    <3>1. \A m \in DOMAIN b.wireless : b.wireless[m].dev # d
      BY <1>7 DEF WirelessDevs
    <3> QED
      BY <1>1, <1>4, <3>1 DEF WLANsMatch
  <2>2. \A m, n \in DOMAIN c.aaa : c.aaa[m].dev = c.aaa[n].dev => m = n
    BY <1>1, <1>5, <1>7 DEF WLANsMatch
  <2>3. \A m \in DOMAIN c.wireless :
           /\ c.wireless[m].dev.kind = "ap"
           /\ \E n \in DOMAIN c.aaa : c.aaa[n].dev = c.wireless[m].dev /\ c.aaa[n].ssid = c.wireless[m].ssid
    <3> TAKE m \in DOMAIN c.wireless
    <3>1. CASE m = w
      BY <1>4, <1>5, <1>7, <3>1
    <3>2. CASE m \in DOMAIN b.wireless
      <4>1. PICK n \in DOMAIN b.aaa : /\ b.aaa[n].dev = b.wireless[m].dev
                                      /\ b.aaa[n].ssid = b.wireless[m].ssid
        BY <1>1, <3>2 DEF WLANsMatch
      <4>2. b.wireless[m].dev.kind = "ap"
        BY <1>1, <3>2 DEF WLANsMatch
      <4> QED
        BY <1>4, <1>5, <3>2, <4>1, <4>2
    <3> QED
      BY <1>4, <3>1, <3>2
  <2>4. \A n \in DOMAIN c.aaa : c.aaa[n].dev \in WirelessDevs(c)
    BY <1>1, <1>5, <1>8 DEF WLANsMatch
  <2> QED
    BY <2>1, <2>2, <2>3, <2>4 DEF WLANsMatch
<1>10. RadiosMatch(c)
  <2>1. \A q : OnRadio(c, q) = OnRadio(b, q) \cup (IF q = r THEN {d} ELSE {})
    BY <1>4 DEF OnRadio
  <2>2. \A q \in DOMAIN b.radio : NamedBy(b.radio[q]) = OnRadio(b, q)
    BY <1>1 DEF RadiosMatch, NamedBy
  <2>3. \A q \in DOMAIN c.radio : NamedBy(c.radio[q]) = OnRadio(c, q)
    BY <1>6, <2>1, <2>2 DEF RadioAdded
  <2> QED
    BY <2>3 DEF RadiosMatch, NamedBy
<1>11. FiltersMatch(c)
  <2> SUFFICES ASSUME NEW n \in DOMAIN c.filter, NEW f \in c.filter[n], NEW e \in c.filter[n],
                      f.kind = "ap", e.kind = "ap"
               PROVE  f = e /\ f \in WirelessDevs(c)
    BY DEF FiltersMatch
  <2>1. CASE n \in DOMAIN b.filter
    BY <1>1, <1>6, <1>8, <2>1 DEF FiltersMatch, FiltersAdded
  <2>2. CASE n \notin DOMAIN b.filter
    BY <1>6, <1>8, <2>2 DEF FiltersAdded
  <2> QED
    BY <2>1, <2>2
<1>12. BridgesMatch(c, U)
  BY <1>1, <1>6 DEF BridgesMatch
<1>13. PortsMatch(c)
  <2>1. WirelessDevs(b) \subseteq WirelessDevs(c)
    BY <1>8
  <2>2. c.bridge = b.bridge
    BY <1>6
  <2>3. PortsMatch(b)
    BY <1>1
  <2> QED
    BY ONLY <2>1, <2>2, <2>3 DEF PortsMatch
<1>14. RecordsMatch(c, U)
  <2>1. IsInjective(c.vlan) /\ Uses(c.vlan) = Wires(U) /\ IsInjective(c.netconf)
    BY <1>1, <1>3, <1>6 DEF RecordsMatch
  <2>2. \A e \in Uses(c.netconf) : e.kind = "ap" => e \in WirelessDevs(c)
    BY <1>1, <1>3, <1>8 DEF RecordsMatch
  <2>3. {e \in Uses(c.netconf) : e.kind # "ap"} = {e \in Uses(b.netconf) : e.kind # "ap"}
    BY <1>3, <1>7
  <2> QED
    BY <1>1, <2>1, <2>2, <2>3 DEF RecordsMatch
<1>15. Fits(c, U)
  BY <1>9, <1>10, <1>11, <1>12, <1>13, <1>14 DEF Fits
<1>16. \A n \in DOMAIN b.aaa : Homed(b, n) => Homed(c, n)
  BY <1>5, <1>6 DEF Homed
<1>17. OthersFilters(b, c, d)
  <2> SUFFICES ASSUME NEW e, e.kind = "ap", e # d PROVE Filters(c, e) = Filters(b, e)
    BY DEF OthersFilters
  <2> QED
    BY <1>6 DEF FiltersAdded, Filters
<1> QED
  BY <1>15, <1>16, <1>17

\* Body c is b with a WLAN more, on a radio and on a bridge.
WLANJoined(b, c, name, r, d) ==
    LET w == NextRecord(b.wireless)
        a == NextRecord(b.aaa)
    IN  /\ WholeBody(c) /\ RecordsKept(b, c)
        /\ w \notin DOMAIN b.wireless /\ DOMAIN c.wireless = DOMAIN b.wireless \cup {w}
        /\ c.wireless[w].ssid = name /\ c.wireless[w].parent = r /\ c.wireless[w].dev = d
        /\ a \notin DOMAIN b.aaa /\ DOMAIN c.aaa = DOMAIN b.aaa \cup {a}
        /\ c.aaa[a].ssid = name /\ c.aaa[a].dev = d
        /\ Fresh(b, d) /\ OthersHome(b, c, d) /\ OthersFilters(b, c, d)

\* A WLAN without a source gets new records, a policy and a bridge.
LEMMA NewWiFiIs ==
    ASSUME NEW b, WholeBody(b), NEW name, name \in Name, NEW r, r \in DOMAIN b.radio,
           NEW f, f \in WiFiNetwork, Complete(f), NEW c, c \in NewWiFi(b, name, r, f)
    PROVE  /\ WLANJoined(b, c, name, r, AvailableInterface(b, r))
           /\ c.aaa[NextRecord(b.aaa)].policy \in f.policy
           /\ \E v \in f.vlan : c.aaa[NextRecord(b.aaa)].br = Br(v)
<1> DEFINE d == AvailableInterface(b, r)
           w == NextRecord(b.wireless)
           a == NextRecord(b.aaa)
           p == CHOOSE q \in f.policy : TRUE
           x == [ssid |-> name, dev |-> d, br |-> NoDev, policy |-> p]
           made == [b EXCEPT
                      !.wireless = Put(@, [ssid |-> name, parent |-> r, dev |-> d]),
                      !.aaa = Put(@, [ssid |-> name, dev |-> d, br |-> NoDev, policy |-> p]),
                      !.netconf = Put(@, d)]
           g == WithInterface(made, r, d)
<1>1. Body(b) /\ Fits(b, Used(b)) /\ AllHomed(b) /\ Shape(b) /\ RadioType(b.radio)
      /\ Numbered(b.filter, SUBSET Interface)
  BY BodyParts DEF WholeBody
<1>2. r \in Radio
  BY <1>1 DEF RadioType
<1>3. Fresh(b, d)
  BY <1>1, <1>2, AvailableIsFresh DEF Fresh
<1>4. d \in Interface /\ d # NoDev
  BY <1>3, FreshIs DEF Fresh
<1>5. p \in Policy /\ f.policy # {} /\ f.vlan # {}
  BY FieldsAre DEF Complete
<1>6. c \in OverlayWiFi(g, w, a, f)
  BY DEF NewWiFi
<1> HIDE DEF d, p
<1>7. x \in AAARecord /\ x.ssid = name /\ x.dev = d /\ x.br = NoDev
  BY <1>4, <1>5, InterfaceKinds DEF AAARecord
<1>8. made = [wireless |-> Put(b.wireless, WLANRecord(name, r, d)), aaa |-> Put(b.aaa, x),
              netconf |-> Put(b.netconf, d), vlan |-> b.vlan,
              bridge |-> b.bridge, radio |-> b.radio, filter |-> b.filter]
  <2> DEFINE X == Put(b.wireless, WLANRecord(name, r, d))
             Y == Put(b.aaa, x)
             Z == Put(b.netconf, d)
  <2>1. made = [b EXCEPT !.wireless = X, !.aaa = Y, !.netconf = Z]
    BY DEF WLANRecord
  <2> HIDE DEF X, Y, Z, made
  <2>2. Shape(b)
    BY <1>1
  <2>3. made = [wireless |-> X, aaa |-> Y, netconf |-> Z, vlan |-> b.vlan,
                bridge |-> b.bridge, radio |-> b.radio, filter |-> b.filter]
    BY <2>1, <2>2 DEF Shape
  <2> QED
    BY <2>3 DEF X, Y, Z
<1>9. /\ Shape(made) /\ made.bridge = b.bridge /\ made.vlan = b.vlan
      /\ made.wireless = Put(b.wireless, WLANRecord(name, r, d))
      /\ made.aaa = Put(b.aaa, x) /\ made.netconf = Put(b.netconf, d)
      /\ made.radio = b.radio /\ made.filter = b.filter
  BY <1>8 DEF Shape
<1> HIDE DEF made, x
<1>10. OnlyRadios(made, g) /\ RadioAdded(made.radio, g.radio, r, d)
  BY <1>1, <1>4, <1>9, WithInterfaceIs
<1> HIDE DEF g
<1>11. WLANAdded(b, g, name, r, d, x)
  <2>1. FiltersAdded(b.filter, g.filter, d)
    BY <1>1, <1>9, <1>10 DEF FiltersAdded, OnlyRadios
  <2> QED
    BY <1>9, <1>10, <2>1 DEF WLANAdded, OnlyRadios
<1>12. Body(g) /\ RecordsKept(b, g) /\ NewRecords(b, g, name, r, d, x) /\ OthersHome(b, g, d)
  BY <1>1, <1>2, <1>3, <1>7, <1>11, WLANAddedIs
<1>13. /\ Fits(g, Used(b)) /\ \A n \in DOMAIN b.aaa : Homed(b, n) => Homed(g, n)
       /\ OthersFilters(b, g, d)
  BY <1>1, <1>3, <1>7, <1>11, WLANAddedFits
<1>14. /\ w \notin DOMAIN b.wireless /\ DOMAIN g.wireless = DOMAIN b.wireless \cup {w}
       /\ g.wireless[w].ssid = name /\ g.wireless[w].parent = r /\ g.wireless[w].dev = d
       /\ a \notin DOMAIN b.aaa /\ DOMAIN g.aaa = DOMAIN b.aaa \cup {a} /\ g.aaa[a] = x
       /\ \A n \in DOMAIN b.aaa : g.aaa[n] = b.aaa[n]
       /\ \A n \in DOMAIN b.wireless : g.wireless[n] = b.wireless[n]
  BY <1>12 DEF NewRecords, RecordsKept
<1> HIDE DEF w, a
<1>15. Nearly(g, a)
  <2>1. Used(g) = Used(b) \cup {NoDev}
    BY <1>7, <1>14 DEF Used
  <2>2. NoDev \notin Used(b)
    <3>1. BridgesMatch(b, Used(b))
      BY <1>1 DEF Fits
    <3> QED
      BY <3>1, BridgeDevs, BridgesAre, InterfaceKinds
  <2>3. Used(g) \ {NoDev} = Used(b)
    BY <2>1, <2>2
  <2>4. \A n \in DOMAIN g.aaa : n # a => Homed(g, n)
    BY <1>1, <1>13, <1>14 DEF AllHomed
  <2> QED
    BY <1>7, <1>12, <1>13, <1>14, <2>3, <2>4 DEF Nearly
<1>16. g.wireless[w].dev = g.aaa[a].dev /\ w \in DOMAIN g.wireless /\ a \in DOMAIN g.aaa
  BY <1>7, <1>14
<1>17. Overlaid(g, c, a, f)
  BY <1>6, <1>15, <1>16, OverlayWiFiIs
<1>18. /\ WholeBody(c) /\ SameWLANs(g, c) /\ AAAChanged(g, c, a)
       /\ c.aaa[a].policy \in f.policy /\ \E v \in f.vlan : c.aaa[a].br = Br(v)
       /\ OthersHome(g, c, d)
  BY <1>5, <1>7, <1>14, <1>17 DEF Overlaid
<1>19. OthersHome(b, c, d)
  BY <1>12, <1>18 DEF OthersHome, SameHome
<1>20. OthersFilters(b, c, d)
  BY <1>13, <1>18 DEF OthersFilters, SameWLANs, Filters
<1>21. RecordsKept(b, c)
  BY <1>14, <1>18 DEF RecordsKept, SameWLANs, AAAChanged
<1>22. /\ DOMAIN c.wireless = DOMAIN b.wireless \cup {w}
       /\ c.wireless[w].ssid = name /\ c.wireless[w].parent = r /\ c.wireless[w].dev = d
       /\ DOMAIN c.aaa = DOMAIN b.aaa \cup {a}
       /\ c.aaa[a].ssid = name /\ c.aaa[a].dev = d
  BY <1>7, <1>14, <1>18 DEF SameWLANs, AAAChanged
<1>23. WLANJoined(b, c, name, r, d)
  BY <1>3, <1>14, <1>18, <1>19, <1>20, <1>21, <1>22 DEF WLANJoined, w, a
<1> QED
  BY <1>18, <1>23 DEF d, a

\* The filters that are copied for a new interface.
CopiedFilters(b, s, old, d) ==
    [k \in 1 .. Cardinality(s.filter) |-> (b.filter[SetToSeq(s.filter)[k]] \ {old}) \cup {d}]

\* Filters copied for a new interface are about that interface.
LEMMA FiltersCopied ==
    ASSUME NEW b, Body(b), FiltersMatch(b), NEW s, NEW old, s.filter = Filters(b, old), old.kind = "ap",
           NEW d, d \in Interface, NEW h, h = PutAll(b.filter, CopiedFilters(b, s, old, d))
    PROVE  FiltersAdded(b.filter, h, d)
<1> DEFINE N == Cardinality(s.filter)
           xs == CopiedFilters(b, s, old, d)
           V == {xs[k] : k \in 1 .. N}
<1>1. Numbered(b.filter, SUBSET Interface)
  BY BodyParts
<1>2. IsFiniteSet(s.filter) /\ s.filter \subseteq DOMAIN b.filter
  <2>1. s.filter \subseteq DOMAIN b.filter
    BY DEF Filters
  <2> QED
    BY <1>1, <2>1, FS_Subset DEF Numbered
<1>3. N \in Nat /\ \A k \in 1 .. N : SetToSeq(s.filter)[k] \in s.filter
  BY <1>2, InSequence
<1>4. \A k \in 1 .. N : xs[k] \in SUBSET Interface /\ \A e \in xs[k] : e.kind = "ap" => e = d
  <2> TAKE k \in 1 .. N
  <2> DEFINE n == SetToSeq(s.filter)[k]
  <2>1. n \in DOMAIN b.filter /\ old \in b.filter[n]
    BY <1>3 DEF Filters
  <2>2. xs[k] = (b.filter[n] \ {old}) \cup {d}
    BY DEF CopiedFilters
  <2> HIDE DEF n
  <2>3. b.filter[n] \in SUBSET Interface
    BY <1>1, <2>1 DEF Numbered
  <2>4. \A e \in b.filter[n] : e.kind = "ap" => e = old
    BY <2>1 DEF FiltersMatch
  <2> QED
    BY <2>2, <2>3, <2>4
<1>5. xs \in [1 .. N -> SUBSET Interface]
  BY <1>4 DEF CopiedFilters
<1>6. Len(xs) = N
  BY <1>3, <1>5
<1> HIDE DEF xs, N
<1>7. Lists(xs, V) /\ V \subseteq SUBSET Interface
  BY <1>3, <1>4, <1>6 DEF Lists
<1>8. \A e \in V : \A y \in e : y.kind = "ap" => y = d
  BY <1>4
<1>9. h = PutAll(b.filter, xs)
  BY DEF xs
<1> HIDE DEF V
<1>10. Numbered(h, SUBSET Interface)
  BY <1>1, <1>7, <1>9, PutAllType
<1>11. /\ \A m \in DOMAIN b.filter : m \in DOMAIN h /\ h[m] = b.filter[m]
       /\ \A m \in DOMAIN h \ DOMAIN b.filter : h[m] \in V
  BY <1>1, <1>7, <1>9, PutAllUses
<1> QED
  BY <1>8, <1>10, <1>11 DEF FiltersAdded

\* Records w and a are of one WLAN: name on radio r.
Bound(b, s) ==
    /\ s.wireless \in DOMAIN b.wireless /\ s.aaa \in DOMAIN b.aaa
    /\ b.aaa[s.aaa].dev = b.wireless[s.wireless].dev
    /\ b.wireless[s.wireless].ssid = s.name /\ b.wireless[s.wireless].parent = s.radio

\* A new member joins one bridge.
LEMMA PortPuts ==
    ASSUME NEW p, Numbered(p, Interface), NEW d, d \in Interface, d \notin Uses(p),
           NEW q, q = Put(p, d)
    PROVE  PortMoved(p, q, TRUE, d)
<1>1. Numbered(q, Interface)
  BY PutType
<1>2. IsPut(p, q, d)
  BY PutsOne
<1>3. Uses(q) = (Uses(p) \ {d}) \cup {d}
  BY <1>2 DEF IsPut
<1>4. IsInjective(p) => IsInjective(q)
  BY PutInjective
<1>5. \A e : e # d => At(q, e) = At(p, e)
  BY <1>2 DEF IsPut, At
<1> QED
  BY <1>1, <1>3, <1>4, <1>5 DEF PortMoved

\* Ports without the interface are ports it has moved out of.
LEMMA PortStays ==
    ASSUME NEW p, Numbered(p, Interface), NEW d, d \notin Uses(p)
    PROVE  PortMoved(p, p, FALSE, d)
BY DEF PortMoved

\* Body c is b with interface d as a new member of bridge i.
LEMMA MemberPuts ==
    ASSUME NEW b, Body(b), NEW i, i \in DOMAIN b.bridge, NEW d, d \in Interface,
           \A k \in DOMAIN b.bridge : d \notin Uses(b.bridge[k].port),
           NEW c, c = [b EXCEPT !.bridge[i].port = Put(@, d)]
    PROVE  MovedTo(b, c, i, d)
<1> DEFINE q == Put(b.bridge[i].port, d)
           y == [b.bridge[i] EXCEPT !.port = q]
           h == [b.bridge EXCEPT ![i] = y]
<1>1. BridgeType(b.bridge) /\ Shape(b)
  BY BodyParts
<1>2. /\ IsFiniteSet(DOMAIN b.bridge) /\ DOMAIN b.bridge \subseteq Nat \ {0}
      /\ \A k \in DOMAIN b.bridge : /\ b.bridge[k] = [dev |-> b.bridge[k].dev, port |-> b.bridge[k].port]
                                    /\ b.bridge[k].dev \in Interface
                                    /\ Numbered(b.bridge[k].port, Interface)
  BY <1>1 DEF BridgeType
<1>3. PortMoved(b.bridge[i].port, q, TRUE, d)
  BY <1>2, PortPuts
<1>4. c = [b EXCEPT !.bridge[i].port = q]
  OBVIOUS
<1> HIDE DEF q
<1>5. c = [wireless |-> b.wireless, aaa |-> b.aaa, netconf |-> b.netconf, vlan |-> b.vlan,
           bridge |-> h, radio |-> b.radio, filter |-> b.filter]
  BY <1>1, <1>4 DEF Shape
<1>6. y = [dev |-> b.bridge[i].dev, port |-> q]
  BY <1>2, PortOf
<1> HIDE DEF y
<1>7. /\ SameWLANs(b, c) /\ c.aaa = b.aaa /\ c.netconf = b.netconf /\ c.vlan = b.vlan
      /\ c.bridge = h /\ Shape(c)
  <2> HIDE DEF h
  <2> QED
    BY ONLY <1>5 DEF Shape, SameWLANs
<1>8. /\ DOMAIN h = DOMAIN b.bridge /\ h[i].dev = b.bridge[i].dev /\ h[i].port = q
      /\ \A k \in DOMAIN b.bridge : k # i => h[k] = b.bridge[k]
      /\ h = [k \in DOMAIN h |-> h[k]]
  BY <1>6
<1>9. h[i] = [dev |-> h[i].dev, port |-> h[i].port]
  BY <1>6, <1>8
<1> HIDE DEF h
<1>10. ASSUME NEW k \in DOMAIN b.bridge
       PROVE  h[k].dev = b.bridge[k].dev /\ PortMoved(b.bridge[k].port, h[k].port, k = i, d)
  <2>1. CASE k = i
    <3>1. (k = i) = TRUE
      BY <2>1
    <3> QED
      BY <1>3, <1>8, <2>1, <3>1
  <2>2. CASE k # i
    <3>1. (k = i) = FALSE
      BY <2>2
    <3>2. PortMoved(b.bridge[k].port, b.bridge[k].port, FALSE, d)
      BY <1>2, PortStays
    <3> QED
      BY <1>8, <2>2, <3>1, <3>2
  <2> QED
    BY <2>1, <2>2
<1>11. BridgeType(h)
  <2>1. \A k \in DOMAIN h : /\ h[k] = [dev |-> h[k].dev, port |-> h[k].port]
                            /\ h[k].dev \in Interface /\ Numbered(h[k].port, Interface)
    BY <1>2, <1>8, <1>9, <1>10 DEF PortMoved
  <2>2. h = [k \in DOMAIN h |-> [dev |-> h[k].dev, port |-> h[k].port]]
    BY <1>8, <2>1
  <2> QED
    BY <1>2, <1>8, <2>1, <2>2 DEF BridgeType
<1>12. OthersHome(b, c, d)
  <2> SUFFICES ASSUME NEW e, e # d PROVE SameHome(b, c, e)
    BY DEF OthersHome
  <2>1. \A k, j :
              (k \in DOMAIN b.bridge /\ j \in DOMAIN b.bridge[k].port /\ b.bridge[k].port[j] = e)
          <=> (k \in DOMAIN c.bridge /\ j \in DOMAIN c.bridge[k].port /\ c.bridge[k].port[j] = e)
    <3> TAKE k, j
    <3>1. CASE k \in DOMAIN b.bridge
      <4>1. At(h[k].port, e) = At(b.bridge[k].port, e)
        BY <1>10, <3>1 DEF PortMoved
      <4> QED
        BY <1>7, <1>8, <3>1, <4>1 DEF At
    <3>2. CASE k \notin DOMAIN b.bridge
      BY <1>7, <1>8, <3>2
    <3> QED
      BY <3>1, <3>2
  <2>2. Members(c, e) = Members(b, e)
    BY ONLY <2>1, SameMembers, Zenon
  <2> QED
    BY <1>7, <2>2 DEF SameHome
<1> QED
  BY <1>7, <1>8, <1>10, <1>11, <1>12 DEF MovedTo

\* A copied WLAN gets its source's policy, bridge and filters, and an interface of its own.
LEMMA CopyWiFiIs ==
    ASSUME NEW b, WholeBody(b), NEW s, Bound(b, s),
           s.filter = Filters(b, b.wireless[s.wireless].dev),
           NEW name, name \in Name, NEW r, r \in DOMAIN b.radio,
           NEW c, c = CopyWiFi(b, s, name, r)
    PROVE  /\ WLANJoined(b, c, name, r, AvailableInterface(b, r))
           /\ c.aaa[NextRecord(b.aaa)].policy = b.aaa[s.aaa].policy
           /\ c.aaa[NextRecord(b.aaa)].br = b.aaa[s.aaa].br
<1> DEFINE d == AvailableInterface(b, r)
           old == b.wireless[s.wireless].dev
           home == Least(Named(b.bridge, b.aaa[s.aaa].br))
           w == NextRecord(b.wireless)
           a == NextRecord(b.aaa)
           x == [b.aaa[s.aaa] EXCEPT !.ssid = name, !.dev = d]
           X == Put(b.wireless, WLANRecord(name, r, d))
           Y == Put(b.aaa, x)
           Z == Put(b.netconf, d)
           F == PutAll(b.filter, CopiedFilters(b, s, old, d))
           made == [b EXCEPT
             !.wireless = Put(@, [ssid |-> name, parent |-> r, dev |-> d]),
             !.aaa = Put(@, [@[s.aaa] EXCEPT !.ssid = name, !.dev = d]),
             !.netconf = Put(@, d),
             !.bridge[home].port = Put(@, d),
             !.filter = PutAll(@, [k \in 1 .. Cardinality(s.filter) |->
                           (b.filter[SetToSeq(s.filter)[k]] \ {old}) \cup {d}])]
           base == [wireless |-> X, aaa |-> Y, netconf |-> Z, vlan |-> b.vlan,
                    bridge |-> b.bridge, radio |-> c.radio, filter |-> F]
<1>1. /\ Body(b) /\ Fits(b, Used(b)) /\ AllHomed(b) /\ Shape(b) /\ RadioType(b.radio)
      /\ Numbered(b.filter, SUBSET Interface) /\ BridgeType(b.bridge) /\ Numbered(b.aaa, AAARecord)
  BY BodyParts DEF WholeBody
<1>2. r \in Radio
  BY <1>1 DEF RadioType
<1>3. Fresh(b, d)
  BY <1>1, <1>2, AvailableIsFresh DEF Fresh
<1>4. d \in Interface /\ d # NoDev
  BY <1>3, FreshIs DEF Fresh
<1>5. c = WithInterface(made, r, d)
  BY DEF CopyWiFi
<1> HIDE DEF d
<1>6. /\ x \in AAARecord /\ x.ssid = name /\ x.dev = d
      /\ x.br = b.aaa[s.aaa].br /\ x.policy = b.aaa[s.aaa].policy
  <2>1. b.aaa[s.aaa] \in AAARecord
    BY <1>1 DEF Bound, Numbered
  <2> QED
    BY <1>4, <2>1 DEF AAARecord
<1>7. home \in DOMAIN b.bridge /\ b.bridge[home].dev = b.aaa[s.aaa].br
  <2>1. PICK k \in DOMAIN b.bridge : b.bridge[k].dev = b.aaa[s.aaa].br
    BY <1>1 DEF AllHomed, Homed, Bound
  <2>2. Named(b.bridge, b.aaa[s.aaa].br) # {} /\ Named(b.bridge, b.aaa[s.aaa].br) \subseteq Nat
    BY <1>1, <2>1 DEF Named, BridgeType
  <2>3. home \in Named(b.bridge, b.aaa[s.aaa].br)
    BY <2>2, LeastIn
  <2> QED
    BY <2>3 DEF Named
<1>8. FiltersAdded(b.filter, F, d)
  <2>1. FiltersMatch(b) /\ WLANsMatch(b)
    BY <1>1 DEF Fits
  <2>2. old.kind = "ap"
    BY <2>1 DEF WLANsMatch, Bound
  <2> HIDE DEF old
  <2>3. s.filter = Filters(b, old)
    BY DEF old
  <2> QED
    BY <1>1, <1>4, <2>1, <2>2, <2>3, FiltersCopied
<1> HIDE DEF home
<1>9. made = [b EXCEPT !.wireless = X, !.aaa = Y, !.netconf = Z,
                       !.bridge[home].port = Put(@, d), !.filter = F]
  BY DEF WLANRecord, CopiedFilters
<1> HIDE DEF X, Y, Z, F, made
<1>10. made = [wireless |-> X, aaa |-> Y, netconf |-> Z, vlan |-> b.vlan,
               bridge |-> [b.bridge EXCEPT ![home].port = Put(@, d)],
               radio |-> b.radio, filter |-> F]
  <2>1. Shape(b)
    BY <1>1
  <2> QED
    BY <1>9, <2>1 DEF Shape
<1>11. Shape(made) /\ made.radio = b.radio
  BY <1>10 DEF Shape
<1>12. OnlyRadios(made, c) /\ RadioAdded(b.radio, c.radio, r, d)
  BY <1>1, <1>4, <1>5, <1>11, WithInterfaceIs
<1>13. /\ Shape(base) /\ base.bridge = b.bridge /\ base.vlan = b.vlan
       /\ base.wireless = X /\ base.aaa = Y /\ base.netconf = Z
       /\ base.radio = c.radio /\ base.filter = F
  BY DEF Shape
<1>14. c = [base EXCEPT !.bridge[home].port = Put(@, d)]
  <2>1. c = [wireless |-> X, aaa |-> Y, netconf |-> Z, vlan |-> b.vlan,
             bridge |-> [b.bridge EXCEPT ![home].port = Put(@, d)],
             radio |-> c.radio, filter |-> F]
    BY <1>10, <1>12 DEF OnlyRadios, Shape
  <2> QED
    BY <2>1
<1> HIDE DEF base, x
<1>15. WLANAdded(b, base, name, r, d, x)
  BY <1>8, <1>12, <1>13 DEF WLANAdded, X, Y, Z
<1>16. /\ Body(base) /\ RecordsKept(b, base) /\ NewRecords(b, base, name, r, d, x)
       /\ OthersHome(b, base, d)
  BY <1>1, <1>2, <1>3, <1>6, <1>15, WLANAddedIs
<1>17. /\ Fits(base, Used(b)) /\ \A n \in DOMAIN b.aaa : Homed(b, n) => Homed(base, n)
       /\ OthersFilters(b, base, d)
  BY <1>1, <1>3, <1>6, <1>15, WLANAddedFits
<1>18. /\ w \notin DOMAIN b.wireless /\ DOMAIN base.wireless = DOMAIN b.wireless \cup {w}
       /\ base.wireless[w].ssid = name /\ base.wireless[w].parent = r /\ base.wireless[w].dev = d
       /\ a \notin DOMAIN b.aaa /\ DOMAIN base.aaa = DOMAIN b.aaa \cup {a} /\ base.aaa[a] = x
       /\ \A n \in DOMAIN b.aaa : base.aaa[n] = b.aaa[n]
       /\ \A n \in DOMAIN b.wireless : base.wireless[n] = b.wireless[n]
  BY <1>16 DEF NewRecords, RecordsKept
<1> HIDE DEF w, a
<1>19. MovedTo(base, c, home, d)
  <2>1. \A k \in DOMAIN base.bridge : d \notin Uses(base.bridge[k].port)
    BY <1>3, <1>13, FreshIs
  <2> QED
    BY <1>4, <1>7, <1>13, <1>14, <1>16, <2>1, MemberPuts
<1>20. d \in WirelessDevs(base) /\ d.kind = "ap"
  BY <1>3, <1>18 DEF WirelessDevs, Fresh
<1>21. /\ Body(c) /\ Fits(c, Used(b)) /\ d \in Uses(c.bridge[home].port)
       /\ \A n \in DOMAIN base.aaa : base.aaa[n].dev # d /\ Homed(base, n) => Homed(c, n)
  BY <1>7, <1>13, <1>16, <1>17, <1>19, <1>20, MovedFits
<1>22. /\ SameWLANs(base, c) /\ c.aaa = base.aaa /\ OthersHome(base, c, d)
       /\ DOMAIN c.bridge = DOMAIN b.bridge /\ c.bridge[home].dev = b.bridge[home].dev
  BY <1>7, <1>13, <1>19 DEF MovedTo
<1>23. AllHomed(c)
  <2>1. Homed(c, a)
    BY <1>6, <1>7, <1>18, <1>21, <1>22 DEF Homed
  <2>2. \A n \in DOMAIN b.aaa : Homed(c, n)
    <3> TAKE n \in DOMAIN b.aaa
    <3>1. Homed(base, n)
      BY <1>1, <1>17 DEF AllHomed
    <3>2. base.aaa[n].dev # d /\ n \in DOMAIN base.aaa
      BY <1>3, <1>18, FreshIs
    <3> QED
      BY <1>21, <3>1, <3>2
  <2> QED
    BY <1>18, <1>22, <2>1, <2>2 DEF AllHomed
<1>24. Used(c) = Used(b)
  <2>1. x.br \in Used(b)
    BY <1>6 DEF Used, Bound
  <2> QED
    BY <1>18, <1>22, <2>1 DEF Used
<1>25. WholeBody(c)
  BY <1>21, <1>23, <1>24 DEF WholeBody
<1>26. OthersHome(b, c, d)
  BY <1>16, <1>22 DEF OthersHome, SameHome
<1>27. OthersFilters(b, c, d)
  BY <1>17, <1>22 DEF OthersFilters, SameWLANs, Filters
<1>28. RecordsKept(b, c)
  BY <1>18, <1>22 DEF RecordsKept, SameWLANs
<1>29. /\ DOMAIN c.wireless = DOMAIN b.wireless \cup {w}
       /\ c.wireless[w].ssid = name /\ c.wireless[w].parent = r /\ c.wireless[w].dev = d
       /\ DOMAIN c.aaa = DOMAIN b.aaa \cup {a}
       /\ c.aaa[a].ssid = name /\ c.aaa[a].dev = d
  BY <1>6, <1>18, <1>22 DEF SameWLANs
<1>30. WLANJoined(b, c, name, r, d)
  BY <1>3, <1>18, <1>25, <1>26, <1>27, <1>28, <1>29 DEF WLANJoined, w, a
<1>31. c.aaa[a].policy = b.aaa[s.aaa].policy /\ c.aaa[a].br = b.aaa[s.aaa].br
  BY <1>6, <1>18, <1>22
<1> QED
  BY <1>30, <1>31 DEF d, a

-------------------------------------------------------------------------------
(* Removing a WLAN from a radio *)

\* The interface d leaves the records f.
LEMMA DeviceLeaves ==
    ASSUME NEW p, Numbered(p, Interface), NEW d, NEW q, q = DeleteRecord(p, At(p, d))
    PROVE  PortMoved(p, q, FALSE, d)
<1>1. At(p, d) = Having(p, {d})
  BY DEF At, Having
<1>2. q = DeleteRecord(p, Having(p, {d}))
  BY <1>1
<1>3. Numbered(q, Interface)
  BY DeleteType
<1>4. IsInjective(p) => IsInjective(q)
  BY DeleteInjective
<1>5. Uses(q) = Uses(p) \ {d} /\ \A e : e \notin {d} => At(q, e) = At(p, e)
  BY <1>2, DeleteValues
<1> QED
  BY <1>3, <1>4, <1>5 DEF PortMoved

\* Radio r no longer names d: its own interface is another WLAN's, or none.
RadioRemoved(g, h, r, d, left) ==
    /\ RadioType(h) /\ DOMAIN h = DOMAIN g
    /\ \A q \in DOMAIN g : q # r => h[q] = g[q]
    /\ r \in DOMAIN g =>
          /\ Uses(h[r].virtual) = Uses(g[r].virtual) \ {d}
          /\ IF g[r].dev # d THEN h[r].dev = g[r].dev ELSE h[r].dev \in left \cup {NoDev}

\* Replacing both parts of a radio replaces the radio.
LEMMA RadioOf ==
    ASSUME NEW x, NEW a, NEW u, x = [dev |-> a, virtual |-> u], NEW v, NEW e,
           NEW y, y = [x EXCEPT !.virtual = v, !.dev = e]
    PROVE  y = [dev |-> e, virtual |-> v]
OBVIOUS

\* The radio no longer names the interface, and takes over one that is left.
LEMMA RemoveRadioInterfaceIs ==
    ASSUME NEW b, Shape(b), RadioType(b.radio), Numbered(b.wireless, WirelessRecord), NEW r, NEW d,
           NEW c, c = RemoveRadioInterface(b, r, d)
    PROVE  OnlyRadios(b, c) /\ RadioRemoved(b.radio, c.radio, r, d, OnRadio(b, r))
<1>1. CASE r \notin DOMAIN b.radio
  <2>1. c = b
    BY <1>1 DEF RemoveRadioInterface
  <2> QED
    BY <1>1, <2>1 DEF OnlyRadios, RadioRemoved
<1>2. CASE r \in DOMAIN b.radio
  <2> DEFINE left == {n \in DOMAIN b.wireless : b.wireless[n].parent = r}
             v == DeleteRecord(b.radio[r].virtual, At(b.radio[r].virtual, d))
             e == IF b.radio[r].dev # d THEN b.radio[r].dev
                  ELSE IF left = {} THEN NoDev ELSE b.wireless[FirstPrefix(left)].dev
             y == [b.radio[r] EXCEPT !.virtual = v, !.dev = e]
             h == [b.radio EXCEPT ![r] = y]
  <2>1. /\ b.radio[r] = [dev |-> b.radio[r].dev, virtual |-> b.radio[r].virtual]
        /\ b.radio[r].dev \in Interface /\ Numbered(b.radio[r].virtual, Interface)
    BY <1>2 DEF RadioType
  <2>2. c = [b EXCEPT !.radio[r].virtual = v, !.radio[r].dev = e]
    BY <1>2 DEF RemoveRadioInterface
  <2>3. PortMoved(b.radio[r].virtual, v, FALSE, d)
    BY <2>1, DeviceLeaves
  <2>4. IF b.radio[r].dev # d THEN e = b.radio[r].dev ELSE e \in OnRadio(b, r) \cup {NoDev}
    <3>1. CASE b.radio[r].dev # d
      BY <3>1
    <3>2. CASE b.radio[r].dev = d /\ left = {}
      BY <3>2
    <3>3. CASE b.radio[r].dev = d /\ left # {}
      <4>1. FirstPrefix(left) \in left
        BY <3>3 DEF FirstPrefix
      <4> QED
        BY <3>3, <4>1 DEF OnRadio
    <3> QED
      BY <3>1, <3>2, <3>3
  <2>5. e \in Interface
    <3>1. OnRadio(b, r) \subseteq Interface
      BY DEF OnRadio, Numbered, WirelessRecord
    <3> QED
      BY <2>1, <2>4, <3>1, InterfaceKinds
  <2> HIDE DEF v, e, left
  <2>6. y = [dev |-> e, virtual |-> v]
    <3>1. y = [b.radio[r] EXCEPT !.virtual = v, !.dev = e]
      OBVIOUS
    <3> HIDE DEF y
    <3> QED
      BY <2>1, <3>1, RadioOf
  <2>7. c = [wireless |-> b.wireless, aaa |-> b.aaa, netconf |-> b.netconf, vlan |-> b.vlan,
             bridge |-> b.bridge, radio |-> h, filter |-> b.filter]
    BY <2>2 DEF Shape
  <2> HIDE DEF y
  <2>8. OnlyRadios(b, c) /\ c.radio = h
    BY ONLY <2>7 DEF OnlyRadios, Shape
  <2>9. /\ RadioType(c.radio) /\ DOMAIN c.radio = DOMAIN b.radio
        /\ \A q \in DOMAIN b.radio : q # r => c.radio[q] = b.radio[q]
        /\ c.radio[r].dev = e /\ c.radio[r].virtual = v
    <3>1. Numbered(v, Interface)
      BY <2>3 DEF PortMoved
    <3> QED
      BY <1>2, <2>5, <2>6, <2>8, <3>1, RadioSets
  <2> QED
    BY <2>3, <2>4, <2>8, <2>9 DEF RadioRemoved, PortMoved
<1> QED
  BY <1>1, <1>2

\* Body c is b without records w and a and what names interface d.
WLANRemoved(b, c, w, a, r, d) ==
    /\ Shape(c) /\ c.vlan = b.vlan
    /\ c.wireless = DeleteRecord(b.wireless, {w}) /\ c.aaa = DeleteRecord(b.aaa, {a})
    /\ c.netconf = DeleteRecord(b.netconf, At(b.netconf, d))
    /\ c.filter = DeleteRecord(b.filter, Filters(b, d))
    /\ BridgeType(c.bridge) /\ DOMAIN c.bridge = DOMAIN b.bridge
    /\ \A k \in DOMAIN b.bridge : /\ c.bridge[k].dev = b.bridge[k].dev
                                  /\ PortMoved(b.bridge[k].port, c.bridge[k].port, FALSE, d)
    /\ RadioRemoved(b.radio, c.radio, r, d, OnRadio(c, r))

Current(b, s) ==
    LET d == b.wireless[s.wireless].dev IN
    /\ Bound(b, s)
    /\ s.netconf = At(b.netconf, d) /\ s.member = Members(b, d) /\ s.filter = Filters(b, d)

\* removeWiFi deletes the WLAN's records, and then its bridge if unused.
LEMMA RemoveWiFiStarts ==
    ASSUME NEW b, Body(b), NEW s, Current(b, s), NEW c, c \in RemoveWiFi(b, s)
    PROVE  \E g : /\ WLANRemoved(b, g, s.wireless, s.aaa, s.radio, b.wireless[s.wireless].dev)
                  /\ c \in RemoveUnusedBridge(g, b.aaa[s.aaa].br)
<1> DEFINE d == b.wireless[s.wireless].dev
           r == b.wireless[s.wireless].parent
           W == DeleteRecord(b.wireless, {s.wireless})
           A == DeleteRecord(b.aaa, {s.aaa})
           N == DeleteRecord(b.netconf, s.netconf)
           F == DeleteRecord(b.filter, s.filter)
           q(i) == DeleteRecord(b.bridge[i].port, {m[2] : m \in {x \in s.member : x[1] = i}})
           h == [i \in DOMAIN b.bridge |-> [b.bridge[i] EXCEPT !.port = q(i)]]
           gone == [b EXCEPT !.wireless = W, !.aaa = A, !.netconf = N, !.filter = F, !.bridge = h]
           g == RemoveRadioInterface(gone, r, d)
<1>1. /\ Shape(b) /\ BridgeType(b.bridge) /\ RadioType(b.radio)
      /\ Numbered(b.wireless, WirelessRecord)
  BY BodyParts
<1>2. c \in RemoveUnusedBridge(g, b.aaa[s.aaa].br)
  BY DEF RemoveWiFi
<1>3. \A i \in DOMAIN b.bridge : PortMoved(b.bridge[i].port, q(i), FALSE, d)
  <2> TAKE i \in DOMAIN b.bridge
  <2>1. {m[2] : m \in {x \in s.member : x[1] = i}} = At(b.bridge[i].port, d)
    <3>1. s.member = Members(b, d)
      BY DEF Current
    <3>2. \A m \in Members(b, d) : m[1] = i => m[2] \in At(b.bridge[i].port, d)
      <4> TAKE m \in Members(b, d)
      <4>1. m = <<m[1], m[2]>>
        BY InMembers
      <4>2. <<m[1], m[2]>> \in Members(b, d)
        BY <4>1
      <4> QED
        BY <4>2, InMembers DEF At
    <3>3. \A j \in At(b.bridge[i].port, d) : <<i, j>> \in Members(b, d)
      BY InMembers DEF At
    <3>4. \A j \in At(b.bridge[i].port, d) : \E m \in {x \in s.member : x[1] = i} : m[2] = j
      <4> TAKE j \in At(b.bridge[i].port, d)
      <4>1. <<i, j>> \in {x \in s.member : x[1] = i} /\ <<i, j>>[2] = j
        BY <3>1, <3>3
      <4> QED
        BY <4>1
    <3>5. \A m \in {x \in s.member : x[1] = i} : m[2] \in At(b.bridge[i].port, d)
      BY <3>1, <3>2
    <3> QED
      BY ONLY <3>4, <3>5
  <2>2. Numbered(b.bridge[i].port, Interface)
    BY <1>1 DEF BridgeType
  <2>3. q(i) = DeleteRecord(b.bridge[i].port, At(b.bridge[i].port, d))
    BY <2>1
  <2> HIDE DEF q, d
  <2> QED
    BY <2>2, <2>3, DeviceLeaves
<1>4. BridgeType(h) /\ DOMAIN h = DOMAIN b.bridge
      /\ \A k \in DOMAIN b.bridge : h[k].dev = b.bridge[k].dev /\ h[k].port = q(k)
  <2> HIDE DEF q
  <2>1. \A k \in DOMAIN b.bridge : h[k] = [dev |-> b.bridge[k].dev, port |-> q(k)]
    <3> TAKE k \in DOMAIN b.bridge
    <3>1. h[k] = [b.bridge[k] EXCEPT !.port = q(k)]
      OBVIOUS
    <3> HIDE DEF h
    <3>2. b.bridge[k] = [dev |-> b.bridge[k].dev, port |-> b.bridge[k].port]
      BY <1>1 DEF BridgeType
    <3> QED
      BY <3>1, <3>2, PortOf
  <2>2. DOMAIN h = DOMAIN b.bridge /\ h = [k \in DOMAIN h |-> h[k]]
    OBVIOUS
  <2> HIDE DEF h
  <2>3. \A k \in DOMAIN b.bridge : /\ h[k].dev = b.bridge[k].dev /\ h[k].port = q(k)
                                   /\ h[k] = [dev |-> h[k].dev, port |-> h[k].port]
    <3> TAKE k \in DOMAIN b.bridge
    <3>1. h[k] = [dev |-> b.bridge[k].dev, port |-> q(k)]
      BY <2>1
    <3> QED
      BY <3>1
  <2>4. \A k \in DOMAIN b.bridge : b.bridge[k].dev \in Interface /\ Numbered(q(k), Interface)
    BY <1>1, <1>3 DEF PortMoved, BridgeType
  <2>5. h = [k \in DOMAIN h |-> [dev |-> h[k].dev, port |-> h[k].port]]
    BY <2>2, <2>3
  <2>6. BridgeType(h)
    BY <1>1, <2>2, <2>3, <2>4, <2>5 DEF BridgeType
  <2> QED
    BY <2>2, <2>3, <2>6
<1> HIDE DEF h, q
<1>5. /\ Shape(gone) /\ gone.wireless = W /\ gone.aaa = A /\ gone.netconf = N /\ gone.filter = F
      /\ gone.bridge = h /\ gone.vlan = b.vlan /\ gone.radio = b.radio
  <2> HIDE DEF W, A, N, F
  <2>0. gone = [b EXCEPT !.wireless = W, !.aaa = A, !.netconf = N, !.filter = F, !.bridge = h]
    OBVIOUS
  <2> HIDE DEF gone
  <2>1. gone = [wireless |-> W, aaa |-> A, netconf |-> N, vlan |-> b.vlan,
                bridge |-> h, radio |-> b.radio, filter |-> F]
    <3>1. Shape(b)
      BY <1>1
    <3> QED
      BY ONLY <2>0, <3>1 DEF Shape
  <2> QED
    BY ONLY <2>1 DEF Shape
<1>6. Numbered(W, WirelessRecord)
  BY <1>1, DeleteType
<1> HIDE DEF gone, d, r
<1>7. OnlyRadios(gone, g) /\ RadioRemoved(gone.radio, g.radio, r, d, OnRadio(gone, r))
  BY <1>1, <1>5, <1>6, RemoveRadioInterfaceIs
<1> HIDE DEF g
<1>8. OnRadio(g, r) = OnRadio(gone, r)
  BY <1>7 DEF OnlyRadios, OnRadio
<1>9. /\ Shape(g) /\ g.vlan = b.vlan /\ g.wireless = W /\ g.aaa = A /\ g.netconf = N /\ g.filter = F
      /\ g.bridge = h
  BY <1>5, <1>7 DEF OnlyRadios
<1>10. s.netconf = At(b.netconf, d) /\ s.filter = Filters(b, d) /\ s.radio = r
  BY DEF Current, Bound, d, r
<1>11. WLANRemoved(b, g, s.wireless, s.aaa, s.radio, d)
  BY <1>3, <1>4, <1>5, <1>7, <1>8, <1>9, <1>10 DEF WLANRemoved
<1> QED
  BY <1>2, <1>11 DEF d

\* Body c has lost wireless record w, aaa record a and what names interface d.
RecordsGone(b, c, w, a, d) ==
    /\ Body(c)
    /\ DOMAIN c.wireless = DOMAIN b.wireless \ {w}
    /\ \A n \in DOMAIN c.wireless : c.wireless[n] = b.wireless[n]
    /\ DOMAIN c.aaa = DOMAIN b.aaa \ {a} /\ \A n \in DOMAIN c.aaa : c.aaa[n] = b.aaa[n]
    /\ PortMoved(b.netconf, c.netconf, FALSE, d)
    /\ OthersHome(b, c, d)

\* Deleting a WLAN's records leaves the others and their members alone.
LEMMA WLANRemovedIs ==
    ASSUME NEW b, Body(b), NEW w, NEW a, NEW r, NEW d, NEW c, WLANRemoved(b, c, w, a, r, d)
    PROVE  RecordsGone(b, c, w, a, d)
<1>1. /\ Numbered(b.wireless, WirelessRecord) /\ Numbered(b.aaa, AAARecord)
      /\ Numbered(b.netconf, Interface) /\ Numbered(b.vlan, Interface)
      /\ Numbered(b.filter, SUBSET Interface)
  BY BodyParts
<1>2. /\ Shape(c) /\ c.vlan = b.vlan
      /\ c.wireless = DeleteRecord(b.wireless, {w}) /\ c.aaa = DeleteRecord(b.aaa, {a})
      /\ c.netconf = DeleteRecord(b.netconf, At(b.netconf, d))
      /\ c.filter = DeleteRecord(b.filter, Filters(b, d))
      /\ BridgeType(c.bridge) /\ DOMAIN c.bridge = DOMAIN b.bridge
      /\ RadioType(c.radio)
  BY DEF WLANRemoved, RadioRemoved
<1>3. Numbered(c.wireless, WirelessRecord)
  BY <1>1, <1>2, DeleteType
<1>4. Numbered(c.aaa, AAARecord)
  BY <1>1, <1>2, DeleteType
<1>5. Numbered(c.filter, SUBSET Interface)
  BY <1>1, <1>2, DeleteType
<1>6. PortMoved(b.netconf, c.netconf, FALSE, d)
  BY <1>1, <1>2, DeviceLeaves
<1>7. Numbered(c.netconf, Interface) /\ Numbered(c.vlan, Interface)
  BY <1>1, <1>2, <1>6 DEF PortMoved
<1>8. Body(c)
  BY ONLY <1>2, <1>3, <1>4, <1>5, <1>7, BodyFromParts, Zenon
<1>9. /\ DOMAIN c.wireless = DOMAIN b.wireless \ {w}
      /\ \A n \in DOMAIN c.wireless : c.wireless[n] = b.wireless[n]
  BY <1>2 DEF DeleteRecord
<1>10. DOMAIN c.aaa = DOMAIN b.aaa \ {a} /\ \A n \in DOMAIN c.aaa : c.aaa[n] = b.aaa[n]
  BY <1>2 DEF DeleteRecord
<1>11. OthersHome(b, c, d)
  <2> SUFFICES ASSUME NEW e, e # d PROVE SameHome(b, c, e)
    BY DEF OthersHome
  <2>1. At(c.netconf, e) = At(b.netconf, e)
    BY <1>6 DEF PortMoved
  <2>2. \A k, j :
              (k \in DOMAIN b.bridge /\ j \in DOMAIN b.bridge[k].port /\ b.bridge[k].port[j] = e)
          <=> (k \in DOMAIN c.bridge /\ j \in DOMAIN c.bridge[k].port /\ c.bridge[k].port[j] = e)
    <3> TAKE k, j
    <3>1. CASE k \in DOMAIN b.bridge
      <4>1. PortMoved(b.bridge[k].port, c.bridge[k].port, FALSE, d)
        BY <3>1 DEF WLANRemoved
      <4>2. At(c.bridge[k].port, e) = At(b.bridge[k].port, e)
        BY <4>1 DEF PortMoved
      <4> QED
        BY <1>2, <3>1, <4>2 DEF At
    <3>2. CASE k \notin DOMAIN b.bridge
      BY <1>2, <3>2
    <3> QED
      BY <3>1, <3>2
  <2>3. Members(c, e) = Members(b, e)
    BY ONLY <2>2, SameMembers, Zenon
  <2> QED
    BY <2>1, <2>3 DEF SameHome
<1> QED
  BY <1>6, <1>8, <1>9, <1>10, <1>11 DEF RecordsGone

\* What is left of a body without a WLAN is matched.
LEMMA WLANRemovedFits ==
    ASSUME NEW b, WholeBody(b), NEW s, Current(b, s), NEW d, d = b.wireless[s.wireless].dev,
           NEW c, WLANRemoved(b, c, s.wireless, s.aaa, s.radio, d)
    PROVE  /\ Fits(c, Used(b)) /\ AllHomed(c)
           /\ Used(b) \ {b.aaa[s.aaa].br} \subseteq Used(c)
           /\ OthersFilters(b, c, d)
<1> DEFINE w == s.wireless
           a == s.aaa
           r == s.radio
           U == Used(b)
<1>1. Body(b) /\ Fits(b, U) /\ AllHomed(b)
  BY DEF WholeBody
<1>2. /\ PortsMatch(b) /\ RecordsMatch(b, U) /\ BridgesMatch(b, U)
      /\ WLANsMatch(b) /\ RadiosMatch(b) /\ FiltersMatch(b)
  BY <1>1 DEF Fits
<1>3. /\ w \in DOMAIN b.wireless /\ a \in DOMAIN b.aaa /\ b.aaa[a].dev = d
      /\ b.wireless[w].dev = d /\ b.wireless[w].parent = r
  BY DEF Current, Bound
<1>4. /\ DOMAIN c.wireless = DOMAIN b.wireless \ {w}
      /\ \A n \in DOMAIN c.wireless : c.wireless[n] = b.wireless[n]
      /\ DOMAIN c.aaa = DOMAIN b.aaa \ {a} /\ \A n \in DOMAIN c.aaa : c.aaa[n] = b.aaa[n]
      /\ PortMoved(b.netconf, c.netconf, FALSE, d)
  <2>1. RecordsGone(b, c, w, a, d)
    BY ONLY <1>1, WLANRemoved(b, c, w, a, r, d), WLANRemovedIs
  <2> QED
    BY <2>1 DEF RecordsGone
<1>5. /\ c.vlan = b.vlan /\ c.filter = DeleteRecord(b.filter, Filters(b, d))
      /\ DOMAIN c.bridge = DOMAIN b.bridge
      /\ \A k \in DOMAIN b.bridge : /\ c.bridge[k].dev = b.bridge[k].dev
                                    /\ PortMoved(b.bridge[k].port, c.bridge[k].port, FALSE, d)
      /\ RadioRemoved(b.radio, c.radio, r, d, OnRadio(c, r))
  BY DEF WLANRemoved
<1>6. d.kind = "ap"
  BY <1>2, <1>3 DEF WLANsMatch
<1> HIDE DEF w, a, r, U
<1>7. /\ \A n \in DOMAIN c.wireless : c.wireless[n].dev # d
      /\ \A n \in DOMAIN c.aaa : c.aaa[n].dev # d
  BY <1>2, <1>3, <1>4 DEF WLANsMatch
<1>8. WirelessDevs(c) = WirelessDevs(b) \ {d}
  BY <1>3, <1>4, <1>7 DEF WirelessDevs
<1>9. WLANsMatch(c)
  <2>1. \A m, n \in DOMAIN c.wireless : c.wireless[m].dev = c.wireless[n].dev => m = n
    BY <1>2, <1>4 DEF WLANsMatch
  <2>2. \A m, n \in DOMAIN c.aaa : c.aaa[m].dev = c.aaa[n].dev => m = n
    BY <1>2, <1>4 DEF WLANsMatch
  <2>3. \A m \in DOMAIN c.wireless :
           /\ c.wireless[m].dev.kind = "ap"
           /\ \E n \in DOMAIN c.aaa : c.aaa[n].dev = c.wireless[m].dev /\ c.aaa[n].ssid = c.wireless[m].ssid
    <3> TAKE m \in DOMAIN c.wireless
    <3>1. PICK n \in DOMAIN b.aaa : /\ b.aaa[n].dev = b.wireless[m].dev
                                    /\ b.aaa[n].ssid = b.wireless[m].ssid
      BY <1>2, <1>4 DEF WLANsMatch
    <3>2. b.wireless[m].dev.kind = "ap" /\ c.wireless[m] = b.wireless[m]
      BY <1>2, <1>4 DEF WLANsMatch
    <3>3. n # a
      BY <1>3, <1>7, <3>1, <3>2
    <3> QED
      BY <1>4, <3>1, <3>2, <3>3
  <2>4. \A n \in DOMAIN c.aaa : c.aaa[n].dev \in WirelessDevs(c)
    BY <1>2, <1>4, <1>7, <1>8 DEF WLANsMatch
  <2> QED
    BY <2>1, <2>2, <2>3, <2>4 DEF WLANsMatch
<1>10. RadiosMatch(c)
  <2>1. \A q : q # r => OnRadio(c, q) = OnRadio(b, q)
    BY <1>3, <1>4 DEF OnRadio
  <2>2. OnRadio(c, r) = OnRadio(b, r) \ {d}
    BY <1>3, <1>4, <1>7 DEF OnRadio
  <2>3. \A q \in DOMAIN b.radio : NamedBy(b.radio[q]) = OnRadio(b, q)
    BY <1>2 DEF RadiosMatch, NamedBy
  <2>4. DOMAIN c.radio = DOMAIN b.radio
    BY <1>5 DEF RadioRemoved
  <2>5. ASSUME NEW q \in DOMAIN b.radio PROVE NamedBy(c.radio[q]) = OnRadio(c, q)
    <3>1. CASE q # r
      BY <1>5, <2>1, <2>3, <3>1 DEF RadioRemoved
    <3>2. CASE q = r
      <4>1. /\ Uses(c.radio[q].virtual) = Uses(b.radio[q].virtual) \ {d}
            /\ IF b.radio[q].dev # d THEN c.radio[q].dev = b.radio[q].dev
               ELSE c.radio[q].dev \in OnRadio(c, r) \cup {NoDev}
        BY <1>5, <3>2 DEF RadioRemoved
      <4>2. NamedBy(b.radio[q]) = OnRadio(b, q)
        BY <2>3
      <4>3. NoDev \notin OnRadio(b, r)
        BY <2>3, <3>2 DEF NamedBy
      <4>4. CASE b.radio[q].dev # d
        BY <2>2, <3>2, <4>1, <4>2, <4>4 DEF NamedBy
      <4>5. CASE b.radio[q].dev = d
        BY <2>2, <3>2, <4>1, <4>2, <4>3, <4>5 DEF NamedBy
      <4> QED
        BY <4>4, <4>5
    <3> QED
      BY <3>1, <3>2
  <2> QED
    BY <2>4, <2>5 DEF RadiosMatch, NamedBy
<1>11. /\ DOMAIN c.filter = DOMAIN b.filter \ Filters(b, d)
       /\ \A n \in DOMAIN c.filter : c.filter[n] = b.filter[n] /\ d \notin b.filter[n]
  BY <1>5 DEF DeleteRecord, Filters
<1>12. FiltersMatch(c)
  <2> SUFFICES ASSUME NEW n \in DOMAIN c.filter, NEW x \in c.filter[n], NEW y \in c.filter[n],
                      x.kind = "ap", y.kind = "ap"
               PROVE  x = y /\ x \in WirelessDevs(c)
    BY DEF FiltersMatch
  <2>1. n \in DOMAIN b.filter /\ x \in b.filter[n] /\ y \in b.filter[n] /\ x # d
    BY <1>11
  <2>2. x = y /\ x \in WirelessDevs(b)
    BY <1>2, <2>1 DEF FiltersMatch
  <2> QED
    BY <1>8, <2>1, <2>2
<1>13. BridgesMatch(c, U)
  <2>1. \A k \in DOMAIN b.bridge : c.bridge[k].dev = b.bridge[k].dev
    BY <1>5
  <2>2. {c.bridge[k].dev : k \in DOMAIN c.bridge} = {b.bridge[k].dev : k \in DOMAIN b.bridge}
    BY <1>5, <2>1
  <2> QED
    BY <1>2, <1>5, <2>1, <2>2 DEF BridgesMatch
<1>14. ASSUME NEW k \in DOMAIN b.bridge
       PROVE  /\ Uses(c.bridge[k].port) = Uses(b.bridge[k].port) \ {d}
              /\ IsInjective(b.bridge[k].port) => IsInjective(c.bridge[k].port)
  <2>1. PortMoved(b.bridge[k].port, c.bridge[k].port, FALSE, d)
    BY <1>5
  <2> QED
    BY <2>1 DEF PortMoved
<1>15. PortsMatch(c)
  <2>1. ASSUME NEW k \in DOMAIN c.bridge
        PROVE  /\ IsInjective(c.bridge[k].port)
               /\ Wires({c.bridge[k].dev}) \subseteq Uses(c.bridge[k].port)
               /\ \A e \in Uses(c.bridge[k].port) :
                     \/ e.kind = "ap" /\ e \in WirelessDevs(c)
                     \/ e.kind = "wire" /\ e.b = c.bridge[k].dev.b
                           /\ (e.b # 0 => e \in Wires({c.bridge[k].dev}))
    <3>1. /\ IsInjective(b.bridge[k].port)
          /\ Wires({b.bridge[k].dev}) \subseteq Uses(b.bridge[k].port)
          /\ \A e \in Uses(b.bridge[k].port) :
                     \/ e.kind = "ap" /\ e \in WirelessDevs(b)
                     \/ e.kind = "wire" /\ e.b = b.bridge[k].dev.b
                           /\ (e.b # 0 => e \in Wires({b.bridge[k].dev}))
      BY <1>2, <1>5 DEF PortsMatch
    <3>2. d \notin Wires({b.bridge[k].dev})
      <4>1. {b.bridge[k].dev} \subseteq Bridges
        BY <1>2, <1>5, BridgeDevs
      <4> QED
        BY <1>6, <4>1, WiresAre
    <3>3. Uses(c.bridge[k].port) = Uses(b.bridge[k].port) \ {d} /\ IsInjective(c.bridge[k].port)
      BY <1>5, <1>14, <3>1
    <3>4. c.bridge[k].dev = b.bridge[k].dev
      BY <1>5
    <3>5. Wires({c.bridge[k].dev}) \subseteq Uses(c.bridge[k].port)
      BY <3>1, <3>2, <3>3, <3>4
    <3>6. ASSUME NEW e \in Uses(c.bridge[k].port)
          PROVE  \/ e.kind = "ap" /\ e \in WirelessDevs(c)
                 \/ e.kind = "wire" /\ e.b = c.bridge[k].dev.b
                       /\ (e.b # 0 => e \in Wires({c.bridge[k].dev}))
      BY <1>8, <3>1, <3>3, <3>4
    <3> QED
      BY <3>3, <3>5, <3>6
  <2>2. \A k, l \in DOMAIN c.bridge :
           k # l => Uses(c.bridge[k].port) \cap Uses(c.bridge[l].port) = {}
    <3>1. \A k, l \in DOMAIN b.bridge :
             k # l => Uses(b.bridge[k].port) \cap Uses(b.bridge[l].port) = {}
      BY <1>2 DEF PortsMatch
    <3> TAKE k, l \in DOMAIN c.bridge
    <3>2. k \in DOMAIN b.bridge /\ l \in DOMAIN b.bridge
      BY <1>5
    <3>3. Uses(c.bridge[k].port) \subseteq Uses(b.bridge[k].port)
      BY <1>14, <3>2
    <3>4. Uses(c.bridge[l].port) \subseteq Uses(b.bridge[l].port)
      BY <1>14, <3>2
    <3> QED
      BY <3>1, <3>2, <3>3, <3>4
  <2> QED
    BY <2>1, <2>2 DEF PortsMatch
<1>16. RecordsMatch(c, U)
  <2>1. Uses(c.netconf) = Uses(b.netconf) \ {d} /\ (IsInjective(b.netconf) => IsInjective(c.netconf))
    BY <1>4 DEF PortMoved
  <2>2. {e \in Uses(c.netconf) : e.kind # "ap"} = {e \in Uses(b.netconf) : e.kind # "ap"}
    BY <1>6, <2>1
  <2>3. \A e \in Uses(c.netconf) : e.kind = "ap" => e \in WirelessDevs(c)
    BY <1>2, <1>8, <2>1 DEF RecordsMatch
  <2> QED
    BY <1>2, <1>5, <2>1, <2>2, <2>3 DEF RecordsMatch
<1>17. Fits(c, U)
  BY <1>9, <1>10, <1>12, <1>13, <1>15, <1>16 DEF Fits
<1>18. AllHomed(c)
  <2> SUFFICES ASSUME NEW n \in DOMAIN c.aaa PROVE Homed(c, n)
    BY DEF AllHomed
  <2>1. n \in DOMAIN b.aaa /\ c.aaa[n] = b.aaa[n] /\ c.aaa[n].dev # d
    BY <1>4, <1>7
  <2>2. PICK k \in DOMAIN b.bridge : b.bridge[k].dev = b.aaa[n].br
                                     /\ b.aaa[n].dev \in Uses(b.bridge[k].port)
    BY <1>1, <2>1 DEF AllHomed, Homed
  <2>3. k \in DOMAIN c.bridge /\ c.bridge[k].dev = c.aaa[n].br /\ c.aaa[n].dev \in Uses(c.bridge[k].port)
    <3>1. k \in DOMAIN c.bridge /\ c.bridge[k].dev = b.bridge[k].dev
      BY <1>5, <2>2
    <3>2. Uses(c.bridge[k].port) = Uses(b.bridge[k].port) \ {d}
      BY <1>14, <2>2
    <3> QED
      BY <2>1, <2>2, <3>1, <3>2
  <2> QED
    BY <2>3 DEF Homed
<1>19. U \ {b.aaa[a].br} \subseteq Used(c)
  BY <1>3, <1>4 DEF Used, U
<1>20. OthersFilters(b, c, d)
  <2> SUFFICES ASSUME NEW e, e.kind = "ap", e # d PROVE Filters(c, e) = Filters(b, e)
    BY DEF OthersFilters
  <2>1. \A n \in DOMAIN b.filter : e \in b.filter[n] => d \notin b.filter[n]
    BY <1>2, <1>6 DEF FiltersMatch
  <2> QED
    BY <1>11, <2>1 DEF Filters
<1> QED
  BY <1>17, <1>18, <1>19, <1>20 DEF U, a

\* Body c is b without the WLAN of binding s, and perhaps its bridge.
WLANLeft(b, c, s) ==
    LET d == b.wireless[s.wireless].dev IN
    /\ WholeBody(c)
    /\ DOMAIN c.wireless = DOMAIN b.wireless \ {s.wireless}
    /\ \A n \in DOMAIN c.wireless : c.wireless[n] = b.wireless[n]
    /\ DOMAIN c.aaa = DOMAIN b.aaa \ {s.aaa} /\ \A n \in DOMAIN c.aaa : c.aaa[n] = b.aaa[n]
    /\ OthersHome(b, c, d) /\ OthersFilters(b, c, d)

\* removeWiFi keeps a whole body whole and the other WLANs as they are.
LEMMA RemoveWiFiIs ==
    ASSUME NEW b, WholeBody(b), NEW s, Current(b, s), NEW c, c \in RemoveWiFi(b, s)
    PROVE  WLANLeft(b, c, s)
<1> DEFINE d == b.wireless[s.wireless].dev
           old == b.aaa[s.aaa].br
<1>1. Body(b)
  BY DEF WholeBody
<1>2. PICK g : WLANRemoved(b, g, s.wireless, s.aaa, s.radio, d) /\ c \in RemoveUnusedBridge(g, old)
  BY <1>1, RemoveWiFiStarts
<1>3. d = b.wireless[s.wireless].dev
  OBVIOUS
<1> HIDE DEF d
<1>4. /\ Body(g)
      /\ DOMAIN g.wireless = DOMAIN b.wireless \ {s.wireless}
      /\ \A n \in DOMAIN g.wireless : g.wireless[n] = b.wireless[n]
      /\ DOMAIN g.aaa = DOMAIN b.aaa \ {s.aaa} /\ \A n \in DOMAIN g.aaa : g.aaa[n] = b.aaa[n]
      /\ OthersHome(b, g, d)
  <2>1. RecordsGone(b, g, s.wireless, s.aaa, d)
    BY <1>1, <1>2, <1>3, WLANRemovedIs
  <2> QED
    BY <2>1 DEF RecordsGone
<1>5. /\ Fits(g, Used(b)) /\ AllHomed(g) /\ Used(b) \ {old} \subseteq Used(g)
      /\ OthersFilters(b, g, d)
  BY <1>2, <1>3, WLANRemovedFits
<1> HIDE DEF old
<1>6. Collected(g, c)
  BY <1>2, <1>4, <1>5, RemoveUnusedBridgeFits
<1>7. WholeBody(c) /\ SameWLANs(g, c) /\ c.aaa = g.aaa /\ OthersHome(g, c, NoDev)
  BY <1>6 DEF Collected, WholeBody
<1>8. OthersHome(b, c, d)
  BY <1>4, <1>7, InterfaceKinds DEF OthersHome, SameHome
<1>9. OthersFilters(b, c, d)
  BY <1>5, <1>7 DEF OthersFilters, SameWLANs, Filters
<1>10. /\ DOMAIN c.wireless = DOMAIN b.wireless \ {s.wireless}
       /\ \A n \in DOMAIN c.wireless : c.wireless[n] = b.wireless[n]
       /\ DOMAIN c.aaa = DOMAIN b.aaa \ {s.aaa} /\ \A n \in DOMAIN c.aaa : c.aaa[n] = b.aaa[n]
  BY <1>4, <1>7 DEF SameWLANs
<1> QED
  BY <1>7, <1>8, <1>9, <1>10 DEF WLANLeft, d

-------------------------------------------------------------------------------
(* Resolving WLANs *)

\* The binding of a WLAN on a radio, from its wireless and aaa records.
BindingOf(b, name, r, w, a) ==
    [name |-> name, radio |-> r, wireless |-> w, aaa |-> a,
     netconf |-> At(b.netconf, b.wireless[w].dev),
     member |-> Members(b, b.wireless[w].dev),
     filter |-> Filters(b, b.wireless[w].dev)]

\* Binding s is what the WLAN resolves to.
IsResolved(b, name, r, s) ==
    /\ Wireless(b, name, r) = {s.wireless} /\ s = BindingOf(b, name, r, s.wireless, s.aaa)
    /\ s.name = name /\ s.radio = r
    /\ Current(b, s) /\ b.aaa[s.aaa].ssid = name
    /\ Named(b.aaa, b.wireless[s.wireless].dev) = {s.aaa}

\* A resolved WLAN is bound to its own records, as they are.
LEMMA ResolvedIs ==
    ASSUME NEW b, NEW name, NEW r, NEW s, s \in ResolveWiFi(b, name, r)
    PROVE  IsResolved(b, name, r, s)
<1>1. PICK w \in Wireless(b, name, r) :
         \E a \in Named(b.aaa, b.wireless[w].dev) :
            Owns(b, name, r, w, a) /\ s = BindingOf(b, name, r, w, a)
  BY DEF ResolveWiFi, BindingOf
<1>2. PICK a \in Named(b.aaa, b.wireless[w].dev) :
         Owns(b, name, r, w, a) /\ s = BindingOf(b, name, r, w, a)
  BY <1>1
<1>3. /\ s.name = name /\ s.radio = r /\ s.wireless = w /\ s.aaa = a
      /\ s.netconf = At(b.netconf, b.wireless[w].dev)
      /\ s.member = Members(b, b.wireless[w].dev)
      /\ s.filter = Filters(b, b.wireless[w].dev)
  BY <1>2 DEF BindingOf
<1>4. /\ w \in DOMAIN b.wireless /\ b.wireless[w].ssid = name /\ b.wireless[w].parent = r
      /\ a \in DOMAIN b.aaa /\ b.aaa[a].dev = b.wireless[w].dev
  BY <1>1, <1>2 DEF Wireless, Named
<1>5. /\ Wireless(b, name, r) = {w} /\ Named(b.aaa, b.wireless[w].dev) = {a}
      /\ b.aaa[a].ssid = name
  BY <1>2 DEF Owns
<1>6. Current(b, s)
  BY <1>3, <1>4 DEF Current, Bound
<1> QED
  BY <1>2, <1>3, <1>5, <1>6 DEF IsResolved

\* A WLAN on a radio resolves to at most one binding.
LEMMA ResolvedIsOne ==
    ASSUME NEW b, NEW name, NEW r, NEW s, s \in ResolveWiFi(b, name, r),
           NEW t, t \in ResolveWiFi(b, name, r)
    PROVE  s = t
<1>1. IsResolved(b, name, r, s) /\ IsResolved(b, name, r, t)
  BY ResolvedIs
<1>2. s.wireless = t.wireless
  BY <1>1 DEF IsResolved
<1>3. s.aaa = t.aaa
  BY <1>1, <1>2 DEF IsResolved
<1> QED
  BY <1>1, <1>2, <1>3 DEF IsResolved

\* A binding is made of record numbers.
LEMMA ResolvedType ==
    ASSUME NEW b, Body(b), NEW name, name \in Name, NEW r, r \in Radio,
           NEW s, s \in ResolveWiFi(b, name, r)
    PROVE  s \in Binding
<1>1. IsResolved(b, name, r, s)
  BY ResolvedIs
<1>2. /\ Numbered(b.wireless, WirelessRecord) /\ Numbered(b.aaa, AAARecord)
      /\ Numbered(b.netconf, Interface) /\ Numbered(b.filter, SUBSET Interface)
      /\ BridgeType(b.bridge)
  BY BodyParts
<1>3. s.wireless \in DOMAIN b.wireless /\ s.aaa \in DOMAIN b.aaa
  BY <1>1 DEF IsResolved, Current, Bound
<1>4. s.wireless \in Nat /\ s.aaa \in Nat
  BY <1>2, <1>3 DEF Numbered
<1> DEFINE d == b.wireless[s.wireless].dev
<1>5. At(b.netconf, d) \in SUBSET Nat
  BY <1>2 DEF Numbered, At
<1>6. Filters(b, d) \in SUBSET Nat
  BY <1>2 DEF Numbered, Filters
<1>7. Members(b, d) \in SUBSET (Nat \X Nat)
  <2> SUFFICES ASSUME NEW m \in Members(b, d) PROVE m \in Nat \X Nat
    OBVIOUS
  <2>1. PICK i \in DOMAIN b.bridge : \E j \in DOMAIN b.bridge[i].port : m = <<i, j>>
    BY DEF Members
  <2>2. PICK j \in DOMAIN b.bridge[i].port : m = <<i, j>>
    BY <2>1
  <2>3. i \in Nat /\ j \in Nat
    BY <1>2, <2>1, <2>2 DEF BridgeType, Numbered
  <2> QED
    BY <2>2, <2>3
<1>8. /\ s.netconf = At(b.netconf, d) /\ s.member = Members(b, d) /\ s.filter = Filters(b, d)
  BY <1>1 DEF IsResolved, Current
<1>9. s = BindingOf(b, name, r, s.wireless, s.aaa)
  BY <1>1 DEF IsResolved
<1> HIDE DEF d
<1>10. s = [name |-> s.name, radio |-> s.radio, wireless |-> s.wireless, aaa |-> s.aaa,
            netconf |-> s.netconf, member |-> s.member, filter |-> s.filter]
  BY <1>9 DEF BindingOf
<1>11. s.name = name /\ s.radio = r
  BY <1>1 DEF IsResolved
<1> QED
  BY <1>4, <1>5, <1>6, <1>7, <1>8, <1>10, <1>11 DEF Binding

\* Interface d is a member once, of the bridge x.
MemberOf(b, d, x) ==
    /\ Cardinality(Members(b, d)) = 1 /\ Cardinality(Members(b, d)) <= 1
    /\ \E k \in DOMAIN b.bridge : b.bridge[k].dev = x /\ \A m \in Members(b, d) : m[1] = k

\* In a whole body the interface of a WLAN is a member of one bridge, once.
LEMMA HomeIsOne ==
    ASSUME NEW b, WholeBody(b), NEW a \in DOMAIN b.aaa
    PROVE  MemberOf(b, b.aaa[a].dev, b.aaa[a].br)
<1> DEFINE d == b.aaa[a].dev
<1>1. AllHomed(b) /\ PortsMatch(b)
  BY DEF WholeBody, Fits
<1>2. PICK i \in DOMAIN b.bridge : b.bridge[i].dev = b.aaa[a].br /\ d \in Uses(b.bridge[i].port)
  BY <1>1 DEF AllHomed, Homed
<1>3. PICK j \in DOMAIN b.bridge[i].port : b.bridge[i].port[j] = d
  BY <1>2 DEF Uses
<1>4. IsInjective(b.bridge[i].port)
  BY <1>1 DEF PortsMatch
<1>5. \A k \in DOMAIN b.bridge : k # i => d \notin Uses(b.bridge[k].port)
  BY <1>1, <1>2 DEF PortsMatch
<1> HIDE DEF d
<1>6. Members(b, d) = {<<i, j>>}
  <2>1. \A k, l : <<k, l>> \in Members(b, d) => k = i /\ l = j
    <3> SUFFICES ASSUME NEW k, NEW l, <<k, l>> \in Members(b, d) PROVE k = i /\ l = j
      OBVIOUS
    <3>1. k \in DOMAIN b.bridge /\ l \in DOMAIN b.bridge[k].port /\ b.bridge[k].port[l] = d
      BY InMembers
    <3>2. d \in Uses(b.bridge[k].port)
      BY <3>1 DEF Uses
    <3>3. k = i
      BY <1>5, <3>1, <3>2
    <3> QED
      BY <1>3, <1>4, <3>1, <3>3 DEF IsInjective
  <2>2. <<i, j>> \in Members(b, d)
    BY <1>3, InMembers
  <2>3. \A m \in Members(b, d) : m = <<m[1], m[2]>>
    BY InMembers
  <2> QED
    BY <2>1, <2>2, <2>3
<1>7. Cardinality(Members(b, d)) = 1
  BY <1>6, FS_Singleton
<1>8. \A m \in Members(b, d) : m[1] = i
  BY <1>6
<1> QED
  BY <1>2, <1>7, <1>8 DEF MemberOf, d

\* In a whole body a WLAN with one wireless record on a radio is unambiguous.
LEMMA OneWirelessResolves ==
    ASSUME NEW b, WholeBody(b), NEW name, NEW r, NEW w, Wireless(b, name, r) = {w}
    PROVE  ResolveWiFi(b, name, r) # {}
<1>1. Body(b) /\ Fits(b, Used(b)) /\ AllHomed(b)
  BY DEF WholeBody
<1>2. /\ Numbered(b.netconf, Interface) /\ BridgeType(b.bridge)
  BY <1>1, BodyParts
<1>3. WLANsMatch(b) /\ FiltersMatch(b) /\ BridgesMatch(b, Used(b)) /\ PortsMatch(b)
      /\ RecordsMatch(b, Used(b))
  BY <1>1 DEF Fits
<1> DEFINE d == b.wireless[w].dev
<1>4. w \in DOMAIN b.wireless /\ b.wireless[w].ssid = name
  BY DEF Wireless
<1>5. /\ d.kind = "ap"
      /\ \E a \in DOMAIN b.aaa : b.aaa[a].dev = d /\ b.aaa[a].ssid = b.wireless[w].ssid
  BY <1>3, <1>4 DEF WLANsMatch
<1>6. PICK a \in DOMAIN b.aaa : b.aaa[a].dev = d /\ b.aaa[a].ssid = name
  BY <1>4, <1>5
<1>7. Named(b.aaa, d) = {a}
  BY <1>3, <1>6 DEF WLANsMatch, Named
<1>8. Named(b.wireless, d) = {w}
  BY <1>3, <1>4 DEF WLANsMatch, Named
<1>9. d # NoDev
  BY <1>5, InterfaceKinds
<1>10. PICK i \in DOMAIN b.bridge : b.bridge[i].dev = b.aaa[a].br /\ b.aaa[a].dev \in Uses(b.bridge[i].port)
  BY <1>1, <1>6 DEF AllHomed, Homed
<1>11. Named(b.bridge, b.aaa[a].br) = {i}
  BY <1>3, <1>10 DEF BridgesMatch, Named
<1>12. Cardinality(At(b.netconf, d)) <= 1
  <2>1. IsFiniteSet(At(b.netconf, d))
    <3>1. At(b.netconf, d) \subseteq DOMAIN b.netconf /\ IsFiniteSet(DOMAIN b.netconf)
      BY <1>2 DEF Numbered, At
    <3> QED
      BY <3>1, FS_Subset
  <2>2. \A x, y \in At(b.netconf, d) : x = y
    BY <1>3 DEF RecordsMatch, IsInjective, At
  <2> QED
    BY <2>1, <2>2, AtMostOne
<1>14. Cardinality(Members(b, d)) <= 1
  BY <1>6, HomeIsOne DEF MemberOf
<1>13. \A m \in Members(b, d) : m[1] = i
  <2>1. PICK k \in DOMAIN b.bridge : /\ b.bridge[k].dev = b.aaa[a].br
                                     /\ \A m \in Members(b, d) : m[1] = k
    BY <1>6, HomeIsOne DEF MemberOf
  <2>2. k = i
    BY <1>3, <1>10, <2>1 DEF BridgesMatch
  <2> QED
    BY <2>1, <2>2
<1>15. \A m \in Members(b, d) : m[1] \in {i}
  BY <1>13
<1>16. \A n \in Filters(b, d) : b.filter[n] \cap WirelessDevs(b) = {d}
  <2> TAKE n \in Filters(b, d)
  <2>1. n \in DOMAIN b.filter /\ d \in b.filter[n]
    BY DEF Filters
  <2>2. d \in WirelessDevs(b)
    BY <1>4 DEF WirelessDevs
  <2>3. ASSUME NEW e \in b.filter[n], e \in WirelessDevs(b) PROVE e = d
    <3>1. e.kind = "ap"
      BY <1>3, <2>3 DEF WLANsMatch, WirelessDevs
    <3> QED
      BY <1>3, <1>5, <2>1, <2>3, <3>1 DEF FiltersMatch
  <2> QED
    BY <2>1, <2>2, <2>3
<1>17. Cardinality({i}) = 1
  BY FS_Singleton
<1>18. Owns(b, name, r, w, a)
  <2> HIDE DEF d
  <2> USE DEF d
  <2> QED
    BY <1>6, <1>7, <1>8, <1>9, <1>11, <1>12, <1>14, <1>15, <1>16, <1>17 DEF Owns
<1>19. BindingOf(b, name, r, w, a) \in ResolveWiFi(b, name, r)
  BY <1>7, <1>18 DEF ResolveWiFi, BindingOf
<1> QED
  BY <1>19

-------------------------------------------------------------------------------
(* What a composed WLAN says *)

\* From aaa record x a record y is made that says what f supplies.
Says(f, x, y) ==
    /\ IF f.policy = {} THEN y.policy = x.policy ELSE y.policy \in f.policy
    /\ IF f.vlan = {} THEN y.br = x.br ELSE \E v \in f.vlan : y.br = Br(v)

\* Body c is b with the WLAN of wireless record n and aaa record a, edited or new.
Edited(b, c, name, r, n, a) ==
    /\ WholeBody(c)
    /\ n \in DOMAIN c.wireless /\ c.wireless[n].ssid = name /\ c.wireless[n].parent = r
    /\ a \in DOMAIN c.aaa /\ c.aaa[a].dev = c.wireless[n].dev
    /\ DOMAIN c.wireless = DOMAIN b.wireless \cup {n}
    /\ \A m \in DOMAIN b.wireless : c.wireless[m] = b.wireless[m]
    /\ DOMAIN c.aaa = DOMAIN b.aaa \cup {a}
    /\ \A m \in DOMAIN b.aaa : m # a => c.aaa[m] = b.aaa[m]
    /\ a \in DOMAIN b.aaa => n \in DOMAIN b.wireless /\ c.aaa[a].dev = b.aaa[a].dev
    /\ OthersHome(b, c, c.wireless[n].dev) /\ OthersFilters(b, c, c.wireless[n].dev)

\* Overlaying the settings of a bound WLAN edits that WLAN.
LEMMA OverlayEdits ==
    ASSUME NEW b, WholeBody(b), NEW s, Bound(b, s), NEW f, f \in WiFiNetwork,
           NEW c, c \in OverlayWiFi(b, s.wireless, s.aaa, f)
    PROVE  /\ Edited(b, c, s.name, s.radio, s.wireless, s.aaa)
           /\ Says(f, b.aaa[s.aaa], c.aaa[s.aaa])
<1> DEFINE n == s.wireless
           a == s.aaa
<1>1. /\ n \in DOMAIN b.wireless /\ a \in DOMAIN b.aaa /\ b.wireless[n].dev = b.aaa[a].dev
      /\ b.wireless[n].ssid = s.name /\ b.wireless[n].parent = s.radio
  BY DEF Bound
<1>2. Nearly(b, a)
  BY <1>1, WholeIsNearly
<1> HIDE DEF n, a
<1>3. c \in OverlayWiFi(b, n, a, f)
  BY DEF n, a
<1>4. Overlaid(b, c, a, f)
  BY ONLY <1>1, <1>2, <1>3, f \in WiFiNetwork, OverlayWiFiIs
<1>5. WholeBody(c)
  BY <1>4 DEF Overlaid
<1>6. c.wireless = b.wireless /\ c.filter = b.filter
  BY <1>4 DEF Overlaid, SameWLANs
<1>7. /\ DOMAIN c.aaa = DOMAIN b.aaa /\ \A m \in DOMAIN b.aaa : m # a => c.aaa[m] = b.aaa[m]
      /\ c.aaa[a].dev = b.aaa[a].dev
  BY <1>4 DEF Overlaid, AAAChanged
<1>8. OthersHome(b, c, b.aaa[a].dev)
  BY <1>4 DEF Overlaid
<1>9. OthersFilters(b, c, b.aaa[a].dev)
  BY <1>6 DEF OthersFilters, Filters
<1>10. DOMAIN c.wireless = DOMAIN b.wireless \cup {n} /\ DOMAIN c.aaa = DOMAIN b.aaa \cup {a}
  BY <1>1, <1>6, <1>7
<1>11. Edited(b, c, s.name, s.radio, n, a)
  BY <1>1, <1>5, <1>6, <1>7, <1>8, <1>9, <1>10 DEF Edited
<1>12. Says(f, b.aaa[a], c.aaa[a])
  BY <1>4 DEF Overlaid, Says
<1> QED
  BY <1>11, <1>12 DEF n, a

\* The same after the WLAN joined the body.
LEMMA JoinedEdits ==
    ASSUME NEW b, NEW e, NEW name, NEW r, NEW d, WLANJoined(b, e, name, r, d),
           NEW f, f \in WiFiNetwork,
           NEW c, c \in OverlayWiFi(e, NextRecord(b.wireless), NextRecord(b.aaa), f)
    PROVE  /\ Edited(b, c, name, r, NextRecord(b.wireless), NextRecord(b.aaa))
           /\ Says(f, e.aaa[NextRecord(b.aaa)], c.aaa[NextRecord(b.aaa)])
           /\ NextRecord(b.wireless) \notin DOMAIN b.wireless
           /\ NextRecord(b.aaa) \notin DOMAIN b.aaa
<1> DEFINE n == NextRecord(b.wireless)
           a == NextRecord(b.aaa)
           s == [wireless |-> n, aaa |-> a, name |-> name, radio |-> r]
<1>1. /\ WholeBody(e) /\ RecordsKept(b, e)
      /\ n \notin DOMAIN b.wireless /\ DOMAIN e.wireless = DOMAIN b.wireless \cup {n}
      /\ e.wireless[n].ssid = name /\ e.wireless[n].parent = r /\ e.wireless[n].dev = d
      /\ a \notin DOMAIN b.aaa /\ DOMAIN e.aaa = DOMAIN b.aaa \cup {a}
      /\ e.aaa[a].ssid = name /\ e.aaa[a].dev = d
      /\ OthersHome(b, e, d) /\ OthersFilters(b, e, d)
  BY DEF WLANJoined
<1> HIDE DEF n, a
<1>2. s.wireless = n /\ s.aaa = a /\ s.name = name /\ s.radio = r
  OBVIOUS
<1>3. c \in OverlayWiFi(e, s.wireless, s.aaa, f)
  BY <1>2 DEF n, a
<1> HIDE DEF s
<1>4. Bound(e, s)
  BY <1>1, <1>2 DEF Bound
<1>5. /\ Edited(e, c, s.name, s.radio, s.wireless, s.aaa)
      /\ Says(f, e.aaa[s.aaa], c.aaa[s.aaa])
  BY <1>1, <1>3, <1>4, OverlayEdits
<1>6. Edited(e, c, name, r, n, a) /\ Says(f, e.aaa[a], c.aaa[a])
  BY <1>2, <1>5
<1>7. /\ WholeBody(c)
      /\ n \in DOMAIN c.wireless /\ c.wireless[n].ssid = name /\ c.wireless[n].parent = r
      /\ a \in DOMAIN c.aaa /\ c.aaa[a].dev = c.wireless[n].dev
      /\ DOMAIN c.wireless = DOMAIN e.wireless \cup {n}
      /\ \A m \in DOMAIN e.wireless : c.wireless[m] = e.wireless[m]
      /\ DOMAIN c.aaa = DOMAIN e.aaa \cup {a}
      /\ \A m \in DOMAIN e.aaa : m # a => c.aaa[m] = e.aaa[m]
      /\ OthersHome(e, c, c.wireless[n].dev) /\ OthersFilters(e, c, c.wireless[n].dev)
  BY <1>6 DEF Edited
<1>8. c.wireless[n].dev = d
  BY <1>1, <1>7
<1>9. /\ \A m \in DOMAIN b.wireless : c.wireless[m] = b.wireless[m]
      /\ \A m \in DOMAIN b.aaa : m # a => c.aaa[m] = b.aaa[m]
  BY <1>1, <1>7 DEF RecordsKept
<1>10. OthersHome(b, c, d)
  BY <1>1, <1>7, <1>8 DEF OthersHome, SameHome
<1>11. OthersFilters(b, c, d)
  BY <1>1, <1>7, <1>8 DEF OthersFilters
<1>12. DOMAIN c.wireless = DOMAIN b.wireless \cup {n} /\ DOMAIN c.aaa = DOMAIN b.aaa \cup {a}
  BY <1>1, <1>7
<1>13. Edited(b, c, name, r, n, a)
  BY <1>1, <1>7, <1>8, <1>9, <1>10, <1>11, <1>12 DEF Edited
<1> QED
  BY <1>1, <1>6, <1>13 DEF n, a

\* What an added WLAN starts from: complete settings, or another WLAN's record.
StartsFrom(b, B, name, from, r, f, x) ==
    \/ /\ Complete(f) /\ from = {} /\ Sources(B, name, from, r) = {}
       /\ x.policy \in f.policy /\ \E v \in f.vlan : x.br = Br(v)
    \/ \E s \in Sources(B, name, from, r) : \E t \in ResolveWiFi(b, s.name, s.radio) :
          x.policy = b.aaa[t.aaa].policy /\ x.br = b.aaa[t.aaa].br

\* addWiFi adds the WLAN, from complete settings or from a source's record.
LEMMA AddWiFiIs ==
    ASSUME NEW b, WholeBody(b), NEW B, NEW name, name \in Name, NEW from, NEW r,
           NEW f, f \in WiFiNetwork, NEW e, e \in AddWiFi(b, B, name, from, r, f)
    PROVE  /\ \E d : WLANJoined(b, e, name, r, d)
           /\ StartsFrom(b, B, name, from, r, f, e.aaa[NextRecord(b.aaa)])
<1> DEFINE sources == Sources(B, name, from, r)
<1>1. r \in DOMAIN b.radio
  BY DEF AddWiFi
<1>2. CASE sources = {}
  <2>1. Complete(f) /\ from = {} /\ e \in NewWiFi(b, name, r, f)
    BY <1>1, <1>2 DEF AddWiFi
  <2>2. /\ WLANJoined(b, e, name, r, AvailableInterface(b, r))
        /\ e.aaa[NextRecord(b.aaa)].policy \in f.policy
        /\ \E v \in f.vlan : e.aaa[NextRecord(b.aaa)].br = Br(v)
    BY <1>1, <2>1, NewWiFiIs
  <2> QED
    BY <1>2, <2>1, <2>2 DEF StartsFrom
<1>3. CASE sources # {}
  <2>1. e \in {CopyWiFi(b, s, name, r) : s \in UNION {Refresh(b, x) : x \in sources}}
    BY <1>1, <1>3 DEF AddWiFi
  <2>2. PICK x \in sources : \E t \in Refresh(b, x) : e = CopyWiFi(b, t, name, r)
    BY <2>1
  <2>3. PICK t \in ResolveWiFi(b, x.name, x.radio) : e = CopyWiFi(b, t, name, r)
    BY <2>2 DEF Refresh
  <2>4. Bound(b, t) /\ t.filter = Filters(b, b.wireless[t.wireless].dev)
    BY <2>3, ResolvedIs DEF IsResolved, Current
  <2>5. /\ WLANJoined(b, e, name, r, AvailableInterface(b, r))
        /\ e.aaa[NextRecord(b.aaa)].policy = b.aaa[t.aaa].policy
        /\ e.aaa[NextRecord(b.aaa)].br = b.aaa[t.aaa].br
    BY <1>1, <2>3, <2>4, CopyWiFiIs
  <2> QED
    BY <2>2, <2>3, <2>5 DEF StartsFrom
<1> QED
  BY <1>2, <1>3

\* The settings of WLANs merge field by field.
LEMMA MergeIs ==
    ASSUME NEW f, f \in WiFiNetwork, NEW g, g \in WiFiNetwork
    PROVE  /\ MergeWiFi(f, g) \in WiFiNetwork
           /\ MergeWiFi(f, g).policy = IF g.policy # {} THEN g.policy ELSE f.policy
           /\ MergeWiFi(f, g).vlan = IF g.vlan # {} THEN g.vlan ELSE f.vlan
           /\ MergeWiFi(f, g).radios = IF g.radios # {} THEN g.radios ELSE f.radios
BY DEF MergeWiFi, WiFiNetwork

\* A configuration is a set of WLANs with their settings.
LEMMA ConfigIs ==
    ASSUME NEW c
    PROVE  c \in APConfig <=> /\ DOMAIN c \subseteq Name /\ c = [w \in DOMAIN c |-> c[w]]
                              /\ \A w \in DOMAIN c : c[w] \in WiFiNetwork
<1>1. c \in APConfig => \E S \in SUBSET Name : c \in [S -> WiFiNetwork]
  BY DEF APConfig
<1>2. DOMAIN c \subseteq Name /\ c \in [DOMAIN c -> WiFiNetwork] => c \in APConfig
  BY DEF APConfig
<1> QED
  BY <1>1, <1>2

\* What a merged configuration says of a WLAN.
MergedFrom(prior, new, from, w, f) ==
    IF w \in DOMAIN from THEN f = MergeWiFi(prior[from[w]], new[w])
    ELSE IF w \in DOMAIN prior THEN f = MergeWiFi(prior[w], new[w])
    ELSE f = new[w]

\* mergeEffectiveConfig makes a configuration of the WLANs of the request.
LEMMA MergeEffectiveIs ==
    ASSUME NEW prior, prior \in APConfig, NEW new, new \in APConfig,
           NEW from, \A w \in DOMAIN from : from[w] \in DOMAIN prior
    PROVE  /\ MergeEffective(prior, new, from) \in APConfig
           /\ DOMAIN MergeEffective(prior, new, from) = DOMAIN new
           /\ \A w \in DOMAIN new : MergedFrom(prior, new, from, w, MergeEffective(prior, new, from)[w])
<1> DEFINE e == MergeEffective(prior, new, from)
<1>1. DOMAIN e = DOMAIN new /\ e = [w \in DOMAIN e |-> e[w]]
  BY DEF MergeEffective
<1>2. \A w \in DOMAIN new : MergedFrom(prior, new, from, w, e[w])
  BY DEF MergeEffective, MergedFrom
<1> HIDE DEF e
<1>3. ASSUME NEW w \in DOMAIN new PROVE e[w] \in WiFiNetwork
  <2>1. /\ new[w] \in WiFiNetwork
        /\ \A x \in DOMAIN prior : prior[x] \in WiFiNetwork
    BY ConfigIs
  <2>2. CASE w \in DOMAIN from
    BY <1>2, <2>1, <2>2, MergeIs DEF MergedFrom
  <2>3. CASE w \notin DOMAIN from /\ w \in DOMAIN prior
    BY <1>2, <2>1, <2>3, MergeIs DEF MergedFrom
  <2>4. CASE w \notin DOMAIN from /\ w \notin DOMAIN prior
    BY <1>2, <2>1, <2>4 DEF MergedFrom
  <2> QED
    BY <2>2, <2>3, <2>4
<1>4. DOMAIN new \subseteq Name
  BY ConfigIs
<1>5. e \in APConfig
  BY <1>1, <1>3, <1>4, ConfigIs
<1> QED
  BY <1>1, <1>2, <1>5 DEF e

\* The pairs of a configuration.
LEMMA PairsAre ==
    ASSUME NEW c, NEW rep
    PROVE  \A x : x \in Pairs(c, rep) <=> \E w \in DOMAIN c : \E r \in Selected(c[w], rep) : x = <<w, r>>
BY DEF Pairs

\* The pairs of a configuration are names and radios.
LEMMA PairsType ==
    ASSUME NEW c, c \in APConfig, NEW rep, rep \subseteq Radio
    PROVE  Pairs(c, rep) \subseteq Name \X Radio
<1> SUFFICES ASSUME NEW x \in Pairs(c, rep) PROVE x \in Name \X Radio
  OBVIOUS
<1>1. PICK w \in DOMAIN c : \E r \in Selected(c[w], rep) : x = <<w, r>>
  BY PairsAre
<1>2. PICK r \in Selected(c[w], rep) : x = <<w, r>>
  BY <1>1
<1>3. r \in Radio
  BY <1>2 DEF Selected
<1>4. w \in Name
  BY ConfigIs
<1> QED
  BY <1>2, <1>3, <1>4

\* The first pair is one of them.
LEMMA FirstIn ==
    ASSUME NEW S, S \subseteq Name \X Radio, S # {}
    PROVE  First(S) \in S
<1>1. Name \subseteq Nat /\ Radio \subseteq Nat
  BY WifiAssumption
<1> DEFINE A == {x[1] : x \in S}
           p == Least(A)
           B == {x[2] : x \in {y \in S : y[1] = p}}
           q == Least(B)
<1>2. A \subseteq Nat /\ A # {}
  BY <1>1
<1>3. p \in A /\ \A y \in A : p <= y
  BY <1>2, LeastIn
<1>4. B \subseteq Nat /\ B # {}
  BY <1>1, <1>3
<1>5. q \in B /\ \A y \in B : q <= y
  BY <1>4, LeastIn
<1>6. PICK z \in S : z[1] = p /\ z[2] = q
  BY <1>5
<1>7. \A y \in S : z[1] < y[1] \/ (z[1] = y[1] /\ z[2] <= y[2])
  <2> TAKE y \in S
  <2>1. y[1] \in A /\ p <= y[1]
    BY <1>3
  <2>2. y[1] = p => y[2] \in B /\ q <= y[2]
    BY <1>5
  <2>3. y[1] \in Nat /\ p \in Nat
    BY <1>1, <1>2, <1>3
  <2> HIDE DEF A, B, p, q
  <2> QED
    BY <1>6, <2>1, <2>2, <2>3
<1> HIDE DEF A, B, p, q
<1> QED
  BY <1>7 DEF First

-------------------------------------------------------------------------------
(* The compilation *)

PairOf(s) == <<s.name, s.radio>>

\* The WLANs and radios that the request asks for.
Wanted == Pairs(Effective, reported)

\* What Compile has taken from its arguments and from the stored body.
Taken ==
    /\ DOMAIN copies \subseteq DOMAIN request
    /\ \A w \in DOMAIN copies : copies[w] \in DOMAIN desired /\ w \notin DOMAIN desired
    /\ \A w \in DOMAIN request : Selected(Effective[w], reported) # {}
    /\ Resolves(body, desired, reported)
    /\ bindings = ResolveBindings(body, desired, reported)
    /\ todo \subseteq Wanted
    /\ \A s \in drop : s \in bindings /\ PairOf(s) \notin Wanted

\* The numbers resolved at the start still lead to the records they led to.
Followed ==
    /\ \A s \in bindings : PairOf(s) \in Wanted => Bound(draft, s)
    /\ \A s \in drop : Current(draft, s)

\* Between compilations.
Resting ==
    /\ draft = body /\ bindings = {} /\ todo = {} /\ drop = {}
    /\ request = Nothing /\ copies = Nothing /\ asked = {} /\ repeat = FALSE

ComposingInv ==
    /\ TypeOK /\ WholeBody(body) /\ WholeBody(draft)
    /\ IF pc = "idle" THEN Resting ELSE Taken /\ Followed

\* No WLAN is asked for.
LEMMA NothingIs == Nothing \in APConfig /\ DOMAIN Nothing = {}
<1>1. DOMAIN Nothing = {}
  BY DEF Nothing
<1>2. Nothing = [w \in DOMAIN Nothing |-> Nothing[w]]
  BY DEF Nothing
<1> QED
  BY <1>1, <1>2, ConfigIs

\* The merged configuration is one, and names the WLANs of the request.
LEMMA EffectiveIs ==
    ASSUME TypeOK, Taken
    PROVE  /\ Effective \in APConfig /\ DOMAIN Effective = DOMAIN request
           /\ \A w \in DOMAIN request : MergedFrom(desired, request, copies, w, Effective[w])
<1>1. desired \in APConfig /\ request \in APConfig
  BY DEF TypeOK
<1>2. \A w \in DOMAIN copies : copies[w] \in DOMAIN desired
  BY DEF Taken
<1> QED
  BY <1>1, <1>2, MergeEffectiveIs DEF Effective

\* The pairs asked for are WLANs of the request, on radios.
LEMMA WantedType ==
    ASSUME TypeOK, Taken
    PROVE  /\ Wanted \subseteq Name \X Radio
           /\ \A x \in Wanted : x[1] \in DOMAIN request /\ x[2] \in Radio
<1>1. Effective \in APConfig /\ DOMAIN Effective = DOMAIN request
  BY EffectiveIs
<1>2. reported \subseteq Radio
  BY DEF TypeOK
<1>3. Wanted \subseteq Name \X Radio
  BY <1>1, <1>2, PairsType DEF Wanted
<1>4. \A x \in Wanted : x[1] \in DOMAIN request
  BY <1>1, PairsAre DEF Wanted
<1> QED
  BY <1>3, <1>4

\* A binding is resolved from a stored WLAN, on a radio that it selects.
IsBinding(b, c, rep, s) ==
    /\ s.name \in DOMAIN c /\ s.radio \in Selected(c[s.name], rep)
    /\ s \in ResolveWiFi(b, s.name, s.radio)

\* resolveBindings returns bindings.
LEMMA BindingsAre ==
    ASSUME NEW b, NEW c, NEW rep, NEW s, s \in ResolveBindings(b, c, rep)
    PROVE  IsBinding(b, c, rep, s)
<1>1. PICK x \in Pairs(c, rep) : s \in ResolveWiFi(b, x[1], x[2])
  BY DEF ResolveBindings
<1>2. PICK w \in DOMAIN c : \E r \in Selected(c[w], rep) : x = <<w, r>>
  BY <1>1, PairsAre
<1>3. PICK r \in Selected(c[w], rep) : x = <<w, r>>
  BY <1>2
<1>4. s \in ResolveWiFi(b, w, r)
  BY <1>1, <1>3
<1>5. s.name = w /\ s.radio = r
  BY <1>4, ResolvedIs DEF IsResolved
<1> QED
  BY <1>3, <1>4, <1>5 DEF IsBinding

\* Two bindings are bound to the same wireless record only if they are the same.
LEMMA BindingsDiffer ==
    ASSUME NEW b, NEW c, NEW rep, NEW s, s \in ResolveBindings(b, c, rep),
           NEW t, t \in ResolveBindings(b, c, rep),
           PairOf(s) = PairOf(t)
    PROVE  s = t
<1>1. s.name = t.name /\ s.radio = t.radio
  BY DEF PairOf
<1>2. s \in ResolveWiFi(b, s.name, s.radio) /\ t \in ResolveWiFi(b, s.name, s.radio)
  BY <1>1, BindingsAre DEF IsBinding
<1> QED
  BY <1>2, ResolvedIsOne

\* Bindings to the same wireless record are of the same WLAN and radio.
LEMMA BoundDiffer ==
    ASSUME NEW b, NEW s, Bound(b, s), NEW t, Bound(b, t), s.wireless = t.wireless
    PROVE  PairOf(s) = PairOf(t)
BY DEF Bound, PairOf

-------------------------------------------------------------------------------
(* One step of the compilation *)

\* Body c is b with the WLAN of pair x composed.
ComposedIs(b, c, x) ==
    \E n, a :
        /\ Edited(b, c, x[1], x[2], n, a)
        /\ \/ \E s \in bindings :
                 /\ s.name = x[1] /\ s.radio = x[2] /\ n = s.wireless /\ a = s.aaa
                 /\ PairOf(s) \in Wanted /\ c \in OverlayWiFi(b, n, a, request[x[1]])
                 /\ Says(request[x[1]], b.aaa[a], c.aaa[a])
           \/ /\ \A s \in bindings : ~(s.name = x[1] /\ s.radio = x[2])
              /\ n \notin DOMAIN b.wireless /\ a \notin DOMAIN b.aaa
              /\ \E y : /\ StartsFrom(b, bindings, x[1], {copies[w] : w \in {x[1]} \cap DOMAIN copies},
                                      x[2], Effective[x[1]], y)
                        /\ Says(request[x[1]], y, c.aaa[a])

\* The body of the loops composes its pair.
LEMMA ComposeIs ==
    ASSUME ComposingInv, pc # "idle", NEW x, x \in todo, NEW c, c \in Composed(x)
    PROVE  ComposedIs(draft, c, x)
<1> DEFINE found == {s \in bindings : s.name = x[1] /\ s.radio = x[2]}
           from == {copies[w] : w \in {x[1]} \cap DOMAIN copies}
           f == request[x[1]]
           g == Effective[x[1]]
<1>1. TypeOK /\ Taken /\ Followed /\ WholeBody(draft)
  BY DEF ComposingInv
<1>2. x \in Wanted
  BY <1>1 DEF Taken
<1>3. x[1] \in DOMAIN request /\ x[2] \in Radio /\ x = <<x[1], x[2]>>
  BY <1>1, <1>2, WantedType
<1>4. request \in APConfig /\ Effective \in APConfig /\ DOMAIN Effective = DOMAIN request
  BY <1>1, EffectiveIs DEF TypeOK
<1>5. f \in WiFiNetwork /\ g \in WiFiNetwork /\ x[1] \in Name
  BY <1>3, <1>4, ConfigIs
<1>6. CASE found # {}
  <2>1. c \in UNION {OverlayWiFi(draft, s.wireless, s.aaa, f) : s \in found}
    BY <1>6 DEF Composed
  <2>2. PICK s \in found : c \in OverlayWiFi(draft, s.wireless, s.aaa, f)
    BY <2>1
  <2>3. s \in bindings /\ s.name = x[1] /\ s.radio = x[2]
    OBVIOUS
  <2>4. PairOf(s) \in Wanted
    BY <1>2, <1>3, <2>3 DEF PairOf
  <2>5. Bound(draft, s)
    BY <1>1, <2>3, <2>4 DEF Followed
  <2> HIDE DEF found, f, g, from
  <2>6. /\ Edited(draft, c, s.name, s.radio, s.wireless, s.aaa)
        /\ Says(f, draft.aaa[s.aaa], c.aaa[s.aaa])
    BY <1>1, <1>5, <2>2, <2>5, OverlayEdits
  <2>7. Edited(draft, c, x[1], x[2], s.wireless, s.aaa)
    BY <2>3, <2>6
  <2> QED
    BY <2>2, <2>3, <2>4, <2>6, <2>7 DEF ComposedIs, f
<1>7. CASE found = {}
  <2>1. c \in UNION {OverlayWiFi(b, NextRecord(draft.wireless), NextRecord(draft.aaa), f) :
                        b \in AddWiFi(draft, bindings, x[1], from, x[2], g)}
    BY <1>7 DEF Composed
  <2>2. PICK b \in AddWiFi(draft, bindings, x[1], from, x[2], g) :
           c \in OverlayWiFi(b, NextRecord(draft.wireless), NextRecord(draft.aaa), f)
    BY <2>1
  <2>3. \A s \in bindings : ~(s.name = x[1] /\ s.radio = x[2])
    BY <1>7
  <2> HIDE DEF found, f, g, from
  <2>4. /\ \E d : WLANJoined(draft, b, x[1], x[2], d)
        /\ StartsFrom(draft, bindings, x[1], from, x[2], g, b.aaa[NextRecord(draft.aaa)])
    BY <1>1, <1>5, <2>2, AddWiFiIs
  <2>5. PICK d : WLANJoined(draft, b, x[1], x[2], d)
    BY <2>4
  <2>6. /\ Edited(draft, c, x[1], x[2], NextRecord(draft.wireless), NextRecord(draft.aaa))
        /\ Says(f, b.aaa[NextRecord(draft.aaa)], c.aaa[NextRecord(draft.aaa)])
        /\ NextRecord(draft.wireless) \notin DOMAIN draft.wireless
        /\ NextRecord(draft.aaa) \notin DOMAIN draft.aaa
    BY <1>5, <2>2, <2>5, JoinedEdits
  <2> QED
    BY <2>3, <2>4, <2>6 DEF ComposedIs, f, g, from
<1> QED
  BY <1>6, <1>7

\* A binding stays bound while another WLAN is edited, and current besides.
LEMMA EditKeeps ==
    ASSUME NEW b, WholeBody(b), NEW c, NEW name, NEW r, NEW n, NEW a, Edited(b, c, name, r, n, a),
           NEW s, Bound(b, s)
    PROVE  /\ Bound(c, s)
           /\ Current(b, s) /\ s.wireless # n => Current(c, s)
<1> DEFINE d == b.wireless[s.wireless].dev
<1>1. /\ s.wireless \in DOMAIN b.wireless /\ s.aaa \in DOMAIN b.aaa /\ b.aaa[s.aaa].dev = d
      /\ b.wireless[s.wireless].ssid = s.name /\ b.wireless[s.wireless].parent = s.radio
  BY DEF Bound
<1>2. /\ n \in DOMAIN c.wireless
      /\ DOMAIN c.wireless = DOMAIN b.wireless \cup {n}
      /\ \A m \in DOMAIN b.wireless : c.wireless[m] = b.wireless[m]
      /\ DOMAIN c.aaa = DOMAIN b.aaa \cup {a}
      /\ \A m \in DOMAIN b.aaa : m # a => c.aaa[m] = b.aaa[m]
      /\ a \in DOMAIN b.aaa => c.aaa[a].dev = b.aaa[a].dev
      /\ OthersHome(b, c, c.wireless[n].dev) /\ OthersFilters(b, c, c.wireless[n].dev)
      /\ WLANsMatch(c) /\ WLANsMatch(b)
  BY DEF Edited, WholeBody, Fits
<1>3. c.wireless[s.wireless] = b.wireless[s.wireless] /\ s.wireless \in DOMAIN c.wireless
  BY <1>1, <1>2
<1>4. s.aaa \in DOMAIN c.aaa /\ c.aaa[s.aaa].dev = d
  BY <1>1, <1>2
<1>5. Bound(c, s)
  BY <1>1, <1>3, <1>4 DEF Bound
<1>6. ASSUME Current(b, s), s.wireless # n PROVE Current(c, s)
  <2>1. s.netconf = At(b.netconf, d) /\ s.member = Members(b, d) /\ s.filter = Filters(b, d)
    BY <1>6 DEF Current
  <2>2. d.kind = "ap"
    BY <1>1, <1>2 DEF WLANsMatch
  <2>3. d # c.wireless[n].dev
    BY <1>2, <1>3, <1>6 DEF WLANsMatch
  <2>4. At(c.netconf, d) = At(b.netconf, d) /\ Members(c, d) = Members(b, d)
    BY <1>2, <2>2, <2>3 DEF OthersHome, SameHome
  <2>5. Filters(c, d) = Filters(b, d)
    BY <1>2, <2>2, <2>3 DEF OthersFilters
  <2>6. c.wireless[s.wireless].dev = d
    BY <1>3
  <2> QED
    BY <1>5, <2>1, <2>4, <2>5, <2>6 DEF Current
<1> QED
  BY <1>5, <1>6

\* So does it while another WLAN is removed.
LEMMA LeftKeeps ==
    ASSUME NEW b, WholeBody(b), NEW s, Bound(b, s), NEW c, WLANLeft(b, c, s),
           NEW t, Bound(b, t), t.wireless # s.wireless
    PROVE  /\ Bound(c, t)
           /\ Current(b, t) => Current(c, t)
<1> DEFINE d == b.wireless[t.wireless].dev
           e == b.wireless[s.wireless].dev
<1>1. /\ t.wireless \in DOMAIN b.wireless /\ t.aaa \in DOMAIN b.aaa /\ b.aaa[t.aaa].dev = d
      /\ b.wireless[t.wireless].ssid = t.name /\ b.wireless[t.wireless].parent = t.radio
      /\ s.wireless \in DOMAIN b.wireless /\ b.aaa[s.aaa].dev = e
  BY DEF Bound
<1>2. /\ DOMAIN c.wireless = DOMAIN b.wireless \ {s.wireless}
      /\ \A m \in DOMAIN c.wireless : c.wireless[m] = b.wireless[m]
      /\ DOMAIN c.aaa = DOMAIN b.aaa \ {s.aaa} /\ \A m \in DOMAIN c.aaa : c.aaa[m] = b.aaa[m]
      /\ OthersHome(b, c, e) /\ OthersFilters(b, c, e)
  BY DEF WLANLeft
<1>3. WLANsMatch(b)
  BY DEF WholeBody, Fits
<1>4. d # e /\ d.kind = "ap"
  BY <1>1, <1>3 DEF WLANsMatch
<1>5. c.wireless[t.wireless] = b.wireless[t.wireless] /\ t.wireless \in DOMAIN c.wireless
  BY <1>1, <1>2
<1>6. s.aaa # t.aaa
  BY <1>1, <1>4
<1>7. t.aaa \in DOMAIN c.aaa /\ c.aaa[t.aaa] = b.aaa[t.aaa]
  BY <1>1, <1>2, <1>6
<1>8. Bound(c, t)
  BY <1>1, <1>5, <1>7 DEF Bound
<1>9. At(c.netconf, d) = At(b.netconf, d) /\ Members(c, d) = Members(b, d)
  BY <1>2, <1>4 DEF OthersHome, SameHome
<1>10. Filters(c, d) = Filters(b, d)
  BY <1>2, <1>4 DEF OthersFilters
<1>11. c.wireless[t.wireless].dev = d
  BY <1>5
<1> QED
  BY <1>8, <1>9, <1>10, <1>11 DEF Current

\* The binding that is removed next is one of those to remove.
LEMMA FirstBindingIn ==
    ASSUME TypeOK, drop # {}
    PROVE  FirstBinding \in drop
<1> DEFINE S == {<<t.name, t.radio>> : t \in drop}
<1>0. drop # {}
  OBVIOUS
<1>1. \A t \in drop : t \in Binding
  BY DEF TypeOK
<1>2. S \subseteq Name \X Radio /\ S # {}
  <2>1. \A t \in drop : t.name \in Name /\ t.radio \in Radio
    BY <1>1 DEF Binding
  <2>2. \A t \in drop : <<t.name, t.radio>> \in Name \X Radio
    BY <2>1
  <2> QED
    BY <1>0, <2>2
<1>3. First(S) \in S
  BY <1>2, FirstIn
<1>4. \E t \in drop : <<t.name, t.radio>> = First(S)
  BY <1>3
<1> QED
  BY <1>4 DEF FirstBinding

\* What a step of the compilation leaves alone.
Continues ==
    /\ body' = body /\ desired' = desired /\ reported' = reported /\ request' = request
    /\ copies' = copies /\ bindings' = bindings /\ pc' = pc
    /\ asked' = asked /\ supplied' = supplied /\ last' = last /\ repeat' = repeat /\ runs' = runs

\* A step of the compilation that narrows its work keeps what it has taken.
LEMMA ContinuesIs ==
    ASSUME Continues, TypeOK, Taken, Body(draft'), todo' \subseteq todo, drop' \subseteq drop
    PROVE  TypeOK' /\ Taken' /\ Wanted' = Wanted /\ Effective' = Effective
<1>1. Effective' = Effective
  BY DEF Continues, Effective, MergeEffective, MergeWiFi
<1>2. Wanted' = Wanted
  BY <1>1 DEF Continues, Wanted, Pairs, Selected
<1>3. TypeOK'
  BY DEF Continues, TypeOK
<1>4. Taken'
  <2>1. /\ \A w \in DOMAIN request : Selected(Effective[w], reported) # {}
        /\ Resolves(body, desired, reported)
        /\ bindings = ResolveBindings(body, desired, reported)
    BY DEF Taken
  <2>2. \A w \in DOMAIN request' : Selected(Effective[w], reported)' # {}
    BY <1>1, <2>1 DEF Continues, Selected
  <2>3. Resolves(body, desired, reported)' /\ bindings' = ResolveBindings(body, desired, reported)'
    <3>1. body' = body /\ desired' = desired /\ reported' = reported /\ bindings' = bindings
      BY DEF Continues
    <3> QED
      BY <2>1, <3>1
  <2>4. /\ DOMAIN copies' \subseteq DOMAIN request'
        /\ \A w \in DOMAIN copies' : copies'[w] \in DOMAIN desired' /\ w \notin DOMAIN desired'
    BY DEF Continues, Taken
  <2>5. todo' \subseteq Wanted' /\ \A s \in drop' : s \in bindings' /\ PairOf(s) \notin Wanted'
    BY <1>2 DEF Continues, Taken
  <2> QED
    BY <2>2, <2>3, <2>4, <2>5 DEF Taken
<1> QED
  BY <1>1, <1>2, <1>3, <1>4

\* A WLAN is composed in a whole body, and the bindings stay bound.
LEMMA ComposeKeeps ==
    ASSUME ComposingInv, Compose
    PROVE  ComposingInv' /\ ComposedIs(draft, draft', First(todo)) /\ First(todo) \in todo
           /\ Wanted' = Wanted /\ Effective' = Effective /\ Taken' /\ Followed' /\ Continues
<1> DEFINE x == First(todo)
<1>1. /\ TypeOK /\ Taken /\ Followed /\ WholeBody(draft) /\ WholeBody(body)
      /\ pc = "compose" /\ todo # {} /\ draft' \in Composed(x) /\ todo' = todo \ {x}
      /\ drop' = drop /\ Continues
  BY DEF ComposingInv, Compose, Continues, call, stored, history
<1>2. x \in todo
  <2>1. todo \subseteq Name \X Radio
    BY <1>1 DEF TypeOK
  <2> QED
    BY <1>1, <2>1, FirstIn
<1> HIDE DEF x
<1>3. ComposedIs(draft, draft', x)
  BY <1>1, <1>2, ComposeIs
<1>4. PICK n, a : Edited(draft, draft', x[1], x[2], n, a)
  BY <1>3 DEF ComposedIs
<1>5. WholeBody(draft') /\ Body(draft')
  BY <1>4 DEF Edited, WholeBody
<1>6. TypeOK' /\ Taken' /\ Wanted' = Wanted /\ Effective' = Effective
  BY <1>1, <1>5, ContinuesIs
<1>7. Followed'
  <2>1. \A s \in bindings : PairOf(s) \in Wanted => Bound(draft', s)
    BY <1>1, <1>4, EditKeeps DEF Followed
  <2>2. ASSUME NEW s \in drop PROVE Current(draft', s)
    <3>1. Current(draft, s) /\ Bound(draft, s)
      BY <1>1 DEF Followed, Current
    <3>2. s.wireless # n
      <4> SUFFICES ASSUME s.wireless = n PROVE FALSE
        OBVIOUS
      <4>1. /\ draft'.wireless[n].ssid = x[1] /\ draft'.wireless[n].parent = x[2]
            /\ \A m \in DOMAIN draft.wireless : draft'.wireless[m] = draft.wireless[m]
        BY <1>4 DEF Edited
      <4>2. s.name = x[1] /\ s.radio = x[2]
        BY <3>1, <4>1 DEF Bound
      <4>3. x \in Wanted
        BY <1>1, <1>2 DEF Taken
      <4>4. x = <<x[1], x[2]>>
        BY <1>1, <4>3, WantedType
      <4> QED
        BY <1>1, <4>2, <4>3, <4>4 DEF Taken, PairOf
    <3> QED
      BY <1>1, <1>4, <3>1, <3>2, EditKeeps
  <2>3. bindings' = bindings /\ drop' = drop /\ Wanted' = Wanted
    BY <1>1, <1>6 DEF Continues
  <2> QED
    BY <2>1, <2>2, <2>3 DEF Followed
<1>8. WholeBody(body')
  BY <1>1 DEF Continues
<1>9. pc' # "idle"
  BY <1>1 DEF Continues
<1>10. ComposingInv'
  <2>1. WholeBody(body)' /\ WholeBody(draft)'
    BY <1>5, <1>8
  <2> QED
    BY <1>6, <1>7, <1>9, <2>1 DEF ComposingInv
<1> QED
  BY <1>1, <1>2, <1>3, <1>6, <1>7, <1>10 DEF x

\* So they do when a WLAN is removed from a radio.
LEMMA RemoveMemberKeeps ==
    ASSUME ComposingInv, RemoveMember
    PROVE  /\ ComposingInv' /\ FirstBinding \in drop /\ Current(draft, FirstBinding)
           /\ WLANLeft(draft, draft', FirstBinding)
           /\ Wanted' = Wanted /\ Effective' = Effective /\ Taken' /\ Followed' /\ Continues
<1> DEFINE s == FirstBinding
<1>1. /\ TypeOK /\ Taken /\ Followed /\ WholeBody(draft) /\ WholeBody(body)
      /\ pc = "compose" /\ todo' = todo /\ drop # {} /\ draft' \in RemoveWiFi(draft, s)
      /\ drop' = drop \ {s} /\ Continues
  BY DEF ComposingInv, RemoveMember, Continues, call, stored, history
<1>2. s \in drop
  BY <1>1, FirstBindingIn
<1> HIDE DEF s
<1>3. Current(draft, s) /\ Bound(draft, s)
  BY <1>1, <1>2 DEF Followed, Current
<1>4. WLANLeft(draft, draft', s)
  BY <1>1, <1>3, RemoveWiFiIs
<1>5. WholeBody(draft') /\ Body(draft')
  BY <1>4 DEF WLANLeft, WholeBody
<1>6. TypeOK' /\ Taken' /\ Wanted' = Wanted /\ Effective' = Effective
  BY <1>1, <1>5, ContinuesIs
<1>7. ASSUME NEW t \in bindings, t # s, Bound(draft, t) PROVE t.wireless # s.wireless
  <2>1. s \in bindings /\ bindings = ResolveBindings(body, desired, reported)
    BY <1>1, <1>2 DEF Taken
  <2> QED
    BY <1>3, <1>7, <2>1, BoundDiffer, BindingsDiffer
<1>8. Followed'
  <2>1. ASSUME NEW t \in bindings, PairOf(t) \in Wanted PROVE Bound(draft', t)
    <3>1. Bound(draft, t) /\ t # s
      BY <1>1, <1>2, <2>1 DEF Followed, Taken
    <3> QED
      BY <1>1, <1>3, <1>4, <1>7, <3>1, LeftKeeps
  <2>2. ASSUME NEW t \in drop, t # s PROVE Current(draft', t)
    <3>1. Current(draft, t) /\ Bound(draft, t) /\ t \in bindings
      BY <1>1, <2>2 DEF Followed, Current, Taken
    <3> QED
      BY <1>1, <1>3, <1>4, <1>7, <2>2, <3>1, LeftKeeps
  <2>3. bindings' = bindings /\ drop' = drop \ {s} /\ Wanted' = Wanted
    BY <1>1, <1>6 DEF Continues
  <2> QED
    BY <2>1, <2>2, <2>3 DEF Followed
<1>9. WholeBody(body')
  BY <1>1 DEF Continues
<1>10. pc' # "idle"
  BY <1>1 DEF Continues
<1>11. ComposingInv'
  <2>1. WholeBody(body)' /\ WholeBody(draft)'
    BY <1>5, <1>9
  <2> QED
    BY <1>6, <1>8, <1>10, <2>1 DEF ComposingInv
<1> QED
  BY <1>1, <1>2, <1>3, <1>4, <1>6, <1>8, <1>11 DEF s

\* Compile starts on whole bodies, with bindings as they are.
LEMMA BeginKeeps ==
    ASSUME ComposingInv, NEW rep, rep \in Report, NEW new, new \in APConfig, NEW from,
           DOMAIN from \subseteq DOMAIN new,
           \A w \in DOMAIN from : from[w] \in DOMAIN desired /\ w \notin DOMAIN desired,
           Begin(rep, new, from), asked' \subseteq Name
    PROVE  ComposingInv' /\ Taken' /\ Followed'
<1>1. /\ TypeOK /\ WholeBody(body) /\ pc = "idle" /\ runs < MaxRuns
      /\ body' = body /\ desired' = desired /\ supplied' = supplied
      /\ pc' = "compose" /\ draft' = body /\ reported' = rep /\ request' = new /\ copies' = from
      /\ last' = {} /\ runs' = runs + 1 /\ repeat' \in BOOLEAN
  BY DEF ComposingInv, Begin, stored
<1> DEFINE effective == MergeEffective(desired, new, from)
           resolved == ResolveBindings(body, desired, rep)
<1>2. /\ \A w \in DOMAIN effective : Selected(effective[w], rep) # {}
      /\ Resolves(body, desired, rep)
      /\ bindings' = resolved /\ todo' = Pairs(effective, rep)
      /\ drop' = {s \in resolved : <<s.name, s.radio>> \notin Pairs(effective, rep)}
  BY DEF Begin
<1>3. desired \in APConfig /\ rep \subseteq Radio /\ MaxRuns \in Nat
  BY <1>1, WifiAssumption DEF TypeOK
<1>4. effective \in APConfig /\ DOMAIN effective = DOMAIN new
  BY <1>3, MergeEffectiveIs
<1>5. Effective' = effective
  <2>1. Effective' = MergeEffective(desired', request', copies')
    BY DEF Effective
  <2> QED
    BY <1>1, <2>1
<1> HIDE DEF effective
<1>6. Wanted' = Pairs(effective, rep)
  <2>1. Wanted' = Pairs(Effective', reported')
    BY DEF Wanted
  <2> QED
    BY <1>1, <1>5, <2>1
<1>7. \A s \in resolved : Current(body, s) /\ s \in Binding
  <2> TAKE s \in resolved
  <2>1. PICK x \in Pairs(desired, rep) : s \in ResolveWiFi(body, x[1], x[2])
    BY DEF ResolveBindings
  <2>2. x[1] \in Name /\ x[2] \in Radio
    BY <1>3, <2>1, PairsType
  <2>3. s \in Binding
    BY <1>1, <2>1, <2>2, ResolvedType DEF WholeBody
  <2>4. Current(body, s)
    BY <2>1, ResolvedIs DEF IsResolved
  <2> QED
    BY <2>3, <2>4
<1>8. TypeOK'
  <2>1. Body(body)' /\ Body(draft)'
    BY <1>1 DEF WholeBody
  <2>2. desired' \in APConfig /\ request' \in APConfig /\ reported' \subseteq Radio
    BY <1>1, <1>3
  <2>3. DOMAIN copies' \subseteq Name /\ \A w \in DOMAIN copies' : copies'[w] \in Name
    BY <1>1, <1>3, ConfigIs
  <2>4. \A s \in bindings' \cup drop' : s \in Binding
    BY <1>2, <1>7
  <2>5. todo' \subseteq Name \X Radio
    BY <1>2, <1>3, <1>4, PairsType
  <2>6. supplied' \in [Name -> SUBSET {"policy", "vlan", "radios"}]
    BY <1>1 DEF TypeOK
  <2>7. runs' \in 0 .. MaxRuns
    BY <1>1, <1>3 DEF TypeOK
  <2> QED
    BY <1>1, <2>1, <2>2, <2>3, <2>4, <2>5, <2>6, <2>7 DEF TypeOK
<1>9. Taken'
  <2>1. \A w \in DOMAIN request' : Selected(Effective'[w], reported') # {}
    BY <1>1, <1>2, <1>4, <1>5
  <2>2. Resolves(body', desired', reported')
    BY <1>1, <1>2
  <2>3. bindings' = ResolveBindings(body', desired', reported')
    BY <1>1, <1>2
  <2>4. todo' \subseteq Wanted' /\ \A s \in drop' : s \in bindings' /\ PairOf(s) \notin Wanted'
    BY <1>2, <1>6 DEF PairOf
  <2> QED
    BY <1>1, <2>1, <2>2, <2>3, <2>4 DEF Taken
<1>10. Followed'
  <2>1. \A s \in bindings' : Bound(draft', s)
    BY <1>1, <1>2, <1>7 DEF Current
  <2>2. \A s \in drop' : Current(draft', s)
    BY <1>1, <1>2, <1>7
  <2> QED
    BY <2>1, <2>2 DEF Followed
<1>11. ComposingInv'
  <2>1. WholeBody(body)' /\ WholeBody(draft)'
    BY <1>1
  <2> QED
    BY <1>1, <1>8, <1>9, <1>10, <2>1 DEF ComposingInv
<1> QED
  BY <1>9, <1>10, <1>11

-------------------------------------------------------------------------------
(* The operator's requests *)

\* The configurations of the operator's requests.
LEMMA ApplyTypes ==
    ASSUME NEW S \in SUBSET Name, NEW new \in [S -> Patch]
    PROVE  new \in APConfig
<1>1. Patch \subseteq WiFiNetwork
  BY WifiAssumption
<1> QED
  BY <1>1, ConfigIs

\* The untouched rest of a request is a configuration that says nothing.
LEMMA OthersIs ==
    ASSUME desired \in APConfig, NEW S
    PROVE  Others(S) \in APConfig /\ DOMAIN Others(S) = DOMAIN desired \ S
           /\ \A w \in DOMAIN desired \ S : Others(S)[w] = Unchanged
<1>1. Unchanged \in WiFiNetwork
  BY DEF Unchanged, WiFiNetwork, Optional
<1>2. DOMAIN desired \subseteq Name
  BY ConfigIs
<1>3. DOMAIN Others(S) = DOMAIN desired \ S /\ \A w \in DOMAIN desired \ S : Others(S)[w] = Unchanged
  BY DEF Others
<1>4. Others(S) = [w \in DOMAIN Others(S) |-> Others(S)[w]]
  BY DEF Others
<1> QED
  BY <1>1, <1>2, <1>3, <1>4, ConfigIs

WithOf(c, w, f, e) ==
    /\ e \in APConfig /\ DOMAIN e = DOMAIN c \cup {w}
    /\ \A x \in DOMAIN c \cup {w} : e[x] = IF x = w THEN f ELSE c[x]

\* A request with a WLAN more is a configuration.
LEMMA WithIs ==
    ASSUME NEW c, c \in APConfig, NEW w, w \in Name, NEW f, f \in WiFiNetwork
    PROVE  WithOf(c, w, f, With(c, w, f))
<1>1. /\ DOMAIN With(c, w, f) = DOMAIN c \cup {w}
      /\ \A x \in DOMAIN c \cup {w} : With(c, w, f)[x] = IF x = w THEN f ELSE c[x]
  BY DEF With
<1>2. With(c, w, f) = [x \in DOMAIN With(c, w, f) |-> With(c, w, f)[x]]
  BY DEF With
<1>3. DOMAIN c \subseteq Name /\ \A x \in DOMAIN c : c[x] \in WiFiNetwork
  BY ConfigIs
<1> HIDE DEF With
<1>4. With(c, w, f) \in APConfig
  BY <1>1, <1>2, <1>3, ConfigIs
<1> QED
  BY <1>1, <1>4 DEF WithOf

\* Compile starts with a request, and the WLANs it may change are known.
Started(rep, new, from) ==
    /\ rep \in Report /\ new \in APConfig /\ DOMAIN from \subseteq DOMAIN new
    /\ \A w \in DOMAIN from : from[w] \in DOMAIN desired /\ w \notin DOMAIN desired
    /\ Begin(rep, new, from)
    /\ asked' \subseteq Name /\ DOMAIN desired \ DOMAIN new \subseteq asked'
    /\ \A w \in DOMAIN new : w \in asked' \/ (new[w] = Unchanged /\ w \notin DOMAIN from)
    /\ \A w \in DOMAIN from : from[w] \in DOMAIN new => new[from[w]] = Unchanged

Starting == \E rep, new, from : Started(rep, new, from)

\* Apply starts a compilation.
LEMMA ApplyStarts ==
    ASSUME ComposingInv, NEW rep \in Report, NEW S \in SUBSET Name, NEW new \in [S -> Patch],
           Apply(rep, new)
    PROVE  Starting
<1>1. new \in APConfig
  BY ApplyTypes
<1>2. desired \in APConfig
  BY DEF ComposingInv, TypeOK
<1>3. DOMAIN new \subseteq Name /\ DOMAIN desired \subseteq Name
  BY <1>1, <1>2, ConfigIs
<1>4. DOMAIN Nothing = {}
  BY NothingIs
<1>5. Begin(rep, new, Nothing) /\ asked' = Requested(new) \cup (DOMAIN desired \ DOMAIN new)
  BY DEF Apply
<1>6. Started(rep, new, Nothing)
  BY <1>1, <1>3, <1>4, <1>5 DEF Started, Requested
<1> QED
  BY <1>6 DEF Starting

\* So does adding a network.
LEMMA AddNetworkStarts ==
    ASSUME ComposingInv, NEW rep \in Report, NEW w \in Name, NEW from \in Name, NEW p \in Policy,
           AddNetwork(rep, w, from, p)
    PROVE  Starting
<1> DEFINE f == [Unchanged EXCEPT !.policy = {p}]
           new == With(Others({}), w, f)
           cp == [x \in {w} |-> from]
<1>1. desired \in APConfig
  BY DEF ComposingInv, TypeOK
<1>2. f \in WiFiNetwork
  BY DEF Unchanged, WiFiNetwork, Optional
<1>3. /\ from \in DOMAIN desired /\ w \notin DOMAIN desired
      /\ Begin(rep, new, cp) /\ asked' = {w}
  BY DEF AddNetwork
<1>4. /\ Others({}) \in APConfig /\ DOMAIN Others({}) = DOMAIN desired
      /\ \A x \in DOMAIN desired : Others({})[x] = Unchanged
  BY <1>1, OthersIs
<1> HIDE DEF f
<1>5. WithOf(Others({}), w, f, new)
  BY <1>2, <1>4, WithIs
<1>6. DOMAIN cp = {w} /\ cp[w] = from
  OBVIOUS
<1> HIDE DEF new, cp
<1>7. Started(rep, new, cp)
  BY <1>3, <1>4, <1>5, <1>6 DEF Started, WithOf
<1> QED
  BY <1>7 DEF Starting

\* So does changing a network.
LEMMA SetNetworkStarts ==
    ASSUME ComposingInv, NEW rep \in Report, NEW w \in Name, NEW from \in Name, NEW f \in Patch,
           SetNetwork(rep, from, w, f)
    PROVE  Starting
<1> DEFINE new == With(Others({from}), w, f)
           cp == IF w = from THEN Nothing ELSE [x \in {w} |-> from]
<1>1. desired \in APConfig
  BY DEF ComposingInv, TypeOK
<1>2. f \in WiFiNetwork
  BY WifiAssumption
<1>3. /\ from \in DOMAIN desired /\ (w # from => w \notin DOMAIN desired)
      /\ Begin(rep, new, cp) /\ asked' = {from, w}
  BY DEF SetNetwork
<1>4. /\ Others({from}) \in APConfig /\ DOMAIN Others({from}) = DOMAIN desired \ {from}
      /\ \A x \in DOMAIN desired \ {from} : Others({from})[x] = Unchanged
  BY <1>1, OthersIs
<1>5. WithOf(Others({from}), w, f, new)
  BY <1>2, <1>4, WithIs
<1>6. \A x \in DOMAIN cp : x = w /\ w # from /\ cp[x] = from
  BY NothingIs
<1> HIDE DEF new, cp
<1>7. Started(rep, new, cp)
  BY <1>3, <1>4, <1>5, <1>6 DEF Started, WithOf
<1> QED
  BY <1>7 DEF Starting

\* So does removing a network.
LEMMA RemoveNetworkStarts ==
    ASSUME ComposingInv, NEW rep \in Report, NEW w \in Name, RemoveNetwork(rep, w)
    PROVE  Starting
<1> DEFINE new == Others({w})
<1>1. desired \in APConfig
  BY DEF ComposingInv, TypeOK
<1>2. w \in DOMAIN desired /\ Begin(rep, new, Nothing) /\ asked' = {w}
  BY DEF RemoveNetwork
<1>3. /\ new \in APConfig /\ DOMAIN new = DOMAIN desired \ {w}
      /\ \A x \in DOMAIN desired \ {w} : new[x] = Unchanged
  BY <1>1, OthersIs
<1>4. DOMAIN Nothing = {}
  BY NothingIs
<1> HIDE DEF new
<1>5. Started(rep, new, Nothing)
  BY <1>2, <1>3, <1>4 DEF Started
<1> QED
  BY <1>5 DEF Starting

-------------------------------------------------------------------------------
(* Bodies stay whole *)

\* What a step does, told apart for the proofs that follow.
LEMMA NextIs ==
    ASSUME ComposingInv, Next
    PROVE  \/ Starting \/ \E rep \in Report, b \in Baseline : ImportBaseline(rep, b)
           \/ Compose \/ RemoveMember \/ Finish \/ Reject
<1>1. CASE \E rep \in Report, S \in SUBSET Name : \E new \in [S -> Patch] : Apply(rep, new)
  BY <1>1, ApplyStarts
<1>2. CASE \E rep \in Report, w \in Name, from \in Name, p \in Policy : AddNetwork(rep, w, from, p)
  BY <1>2, AddNetworkStarts
<1>3. CASE \E rep \in Report, w \in Name, from \in Name, f \in Patch : SetNetwork(rep, from, w, f)
  BY <1>3, SetNetworkStarts
<1>4. CASE \E rep \in Report, w \in Name : RemoveNetwork(rep, w)
  BY <1>4, RemoveNetworkStarts
<1> QED
  BY <1>1, <1>2, <1>3, <1>4 DEF Next

\* Between compilations there is nothing to follow.
LEMMA RestingKeeps ==
    ASSUME ComposingInv, pc' = "idle", Resting', WholeBody(body'), desired' \in APConfig,
           reported' \subseteq Radio,
           supplied' \in [Name -> SUBSET {"policy", "vlan", "radios"}],
           last' \subseteq APConfig, runs' \in 0 .. MaxRuns
    PROVE  ComposingInv'
<1>1. /\ draft' = body' /\ bindings' = {} /\ todo' = {} /\ drop' = {}
      /\ request' = Nothing /\ copies' = Nothing /\ asked' = {} /\ repeat' = FALSE
  BY DEF Resting
<1>2. WholeBody(body)' /\ WholeBody(draft)' /\ Body(body)' /\ Body(draft)'
  BY <1>1 DEF WholeBody
<1>3. request' \in APConfig
  BY <1>1, NothingIs
<1>4. DOMAIN copies' = {}
  BY <1>1, NothingIs
<1>5. TypeOK'
  BY <1>1, <1>2, <1>3, <1>4 DEF TypeOK
<1> QED
  BY <1>2, <1>5 DEF ComposingInv

\* What is committed is whole.
LEMMA FinishKeeps ==
    ASSUME ComposingInv, Finish
    PROVE  ComposingInv'
<1>1. /\ TypeOK /\ Taken /\ WholeBody(draft) /\ pc = "compose"
  BY DEF ComposingInv, Finish
<1>2. /\ todo = {} /\ drop = {}
      /\ body' = draft /\ desired' = Effective /\ pc' = "idle"
      /\ request' = Nothing /\ copies' = Nothing /\ bindings' = {}
      /\ last' = {request} /\ asked' = {} /\ repeat' = FALSE /\ reported' = Radio
      /\ draft' = draft /\ todo' = todo /\ drop' = drop /\ runs' = runs
  BY <1>1 DEF Finish, Composing
<1>3. supplied' \in [Name -> SUBSET {"policy", "vlan", "radios"}]
  <2> DEFINE g(w) == IF w \notin DOMAIN request THEN {}
                     ELSE FieldsOf(request[w]) \cup supplied[IF w \in DOMAIN copies THEN copies[w] ELSE w]
  <2>1. supplied' = [w \in Name |-> g(w)]
    BY DEF Finish
  <2>2. ASSUME NEW w \in Name PROVE g(w) \subseteq {"policy", "vlan", "radios"}
    <3>1. FieldsOf(request[w]) \subseteq {"policy", "vlan", "radios"}
      BY DEF FieldsOf
    <3>2. (IF w \in DOMAIN copies THEN copies[w] ELSE w) \in Name
      BY <1>1 DEF TypeOK
    <3>3. \A x \in Name : supplied[x] \subseteq {"policy", "vlan", "radios"}
      BY <1>1 DEF TypeOK
    <3> QED
      BY <3>1, <3>2, <3>3
  <2> HIDE DEF g
  <2> QED
    BY <2>1, <2>2
<1>4. desired' \in APConfig
  BY <1>1, <1>2, EffectiveIs
<1>5. last' \subseteq APConfig /\ runs' \in 0 .. MaxRuns /\ reported' \subseteq Radio
  BY <1>1, <1>2 DEF TypeOK
<1>6. Resting' /\ WholeBody(body')
  BY <1>1, <1>2 DEF Resting
<1> QED
  BY <1>2, <1>3, <1>4, <1>5, <1>6, RestingKeeps

\* A rejected compilation leaves what was stored.
LEMMA RejectKeeps ==
    ASSUME ComposingInv, Reject
    PROVE  ComposingInv'
<1>1. TypeOK /\ WholeBody(body)
  BY DEF ComposingInv
<1>2. /\ body' = body /\ desired' = desired /\ pc' = "idle" /\ draft' = body
      /\ request' = Nothing /\ copies' = Nothing /\ bindings' = {} /\ todo' = {} /\ drop' = {}
      /\ asked' = {} /\ repeat' = FALSE /\ reported' = Radio
      /\ supplied' = supplied /\ last' = last /\ runs' = runs
  BY DEF Reject, stored
<1>3. /\ desired' \in APConfig /\ reported' \subseteq Radio
      /\ supplied' \in [Name -> SUBSET {"policy", "vlan", "radios"}]
      /\ last' \subseteq APConfig /\ runs' \in 0 .. MaxRuns
  BY <1>1, <1>2 DEF TypeOK
<1>4. Resting' /\ WholeBody(body')
  BY <1>1, <1>2 DEF Resting
<1> QED
  BY <1>2, <1>3, <1>4, RestingKeeps

\* What is imported is whole.
LEMMA ImportKeeps ==
    ASSUME ComposingInv, NEW rep \in Report, NEW b \in Baseline, ImportBaseline(rep, b)
    PROVE  ComposingInv'
<1>1. TypeOK /\ pc = "idle" /\ Resting
  BY DEF ComposingInv, ImportBaseline
<1>2. /\ body' = b.body /\ desired' = b.desired /\ draft' = b.body
      /\ supplied' = [w \in Name |-> {}] /\ last' = {} /\ runs' = 0
      /\ pc' = pc /\ reported' = reported /\ request' = request /\ copies' = copies
      /\ bindings' = bindings /\ todo' = todo /\ drop' = drop /\ asked' = asked /\ repeat' = repeat
  BY DEF ImportBaseline, call
<1>3. Body(b.body) /\ Whole(b.body) /\ b.desired \in APConfig /\ MaxRuns \in Nat
  BY BaselineAssumption, WifiAssumption
<1>4. WholeBody(body')
  BY <1>2, <1>3, WholeIs
<1>5. /\ desired' \in APConfig /\ reported' \subseteq Radio
      /\ last' \subseteq APConfig /\ runs' \in 0 .. MaxRuns
  BY <1>1, <1>2, <1>3 DEF TypeOK
<1>6. supplied' \in [Name -> SUBSET {"policy", "vlan", "radios"}]
  BY <1>2
<1>7. Resting' /\ pc' = "idle"
  BY <1>1, <1>2 DEF Resting
<1> QED
  BY <1>4, <1>5, <1>6, <1>7, RestingKeeps

\* An access point starts with an imported body.
LEMMA InitComposing == Init => ComposingInv
<1> SUFFICES ASSUME Init PROVE ComposingInv
  OBVIOUS
<1>1. PICK b \in Baseline : body = b.body /\ desired = b.desired
  BY DEF Init
<1>2. Body(b.body) /\ Whole(b.body) /\ b.desired \in APConfig /\ MaxRuns \in Nat
  BY BaselineAssumption, WifiAssumption
<1>3. WholeBody(body) /\ WholeBody(draft) /\ Body(body) /\ Body(draft)
  BY <1>1, <1>2, WholeIs DEF Init
<1>4. /\ pc = "idle" /\ reported = Radio /\ draft = body
      /\ request = Nothing /\ copies = Nothing /\ bindings = {} /\ todo = {} /\ drop = {}
      /\ asked = {} /\ last = {} /\ repeat = FALSE /\ runs = 0
      /\ supplied = [w \in Name |-> {}]
  BY DEF Init
<1>5. request \in APConfig /\ DOMAIN copies = {}
  BY <1>4, NothingIs
<1>6. supplied \in [Name -> SUBSET {"policy", "vlan", "radios"}]
  BY <1>4
<1>7. TypeOK
  <2>1. desired \in APConfig /\ runs \in 0 .. MaxRuns /\ last \subseteq APConfig
    BY <1>1, <1>2, <1>4
  <2>2. /\ DOMAIN copies \subseteq Name /\ \A w \in DOMAIN copies : copies[w] \in Name
        /\ \A s \in bindings \cup drop : s \in Binding
    BY <1>4, <1>5
  <2> QED
    BY <1>3, <1>4, <1>5, <1>6, <2>1, <2>2 DEF TypeOK
<1> QED
  BY <1>3, <1>4, <1>7 DEF ComposingInv, Resting

\* Every step keeps the bodies whole and the bindings bound.
LEMMA ComposingSteps == ComposingInv /\ [Next]_vars => ComposingInv'
<1> SUFFICES ASSUME ComposingInv, [Next]_vars PROVE ComposingInv'
  OBVIOUS
<1>1. CASE Starting
  BY <1>1, BeginKeeps DEF Starting, Started
<1>2. ASSUME NEW rep \in Report, NEW b \in Baseline, ImportBaseline(rep, b) PROVE ComposingInv'
  BY <1>2, ImportKeeps
<1>3. CASE Compose
  BY <1>3, ComposeKeeps
<1>4. CASE RemoveMember
  BY <1>4, RemoveMemberKeeps
<1>5. CASE Finish
  BY <1>5, FinishKeeps
<1>6. CASE Reject
  BY <1>6, RejectKeeps
<1>7. CASE UNCHANGED vars
  <2>1. /\ body' = body /\ desired' = desired /\ pc' = pc /\ draft' = draft
        /\ reported' = reported /\ request' = request /\ copies' = copies /\ bindings' = bindings
        /\ todo' = todo /\ drop' = drop /\ asked' = asked /\ supplied' = supplied /\ last' = last
        /\ repeat' = repeat /\ runs' = runs
    BY <1>7 DEF vars, stored, call, history
  <2>2. TypeOK'
    BY <2>1 DEF ComposingInv, TypeOK
  <2>3. WholeBody(body)' /\ WholeBody(draft)'
    BY <2>1 DEF ComposingInv
  <2>4. Resting => Resting'
    BY <2>1 DEF Resting
  <2>5. Continues
    BY <2>1 DEF Continues
  <2>6. TypeOK /\ Taken => Taken' /\ Wanted' = Wanted
    <3> SUFFICES ASSUME TypeOK, Taken PROVE Taken' /\ Wanted' = Wanted
      OBVIOUS
    <3>1. Body(draft') /\ todo' \subseteq todo /\ drop' \subseteq drop
      BY <2>1 DEF TypeOK
    <3> QED
      BY <2>5, <3>1, ContinuesIs
  <2>7. TypeOK /\ Taken /\ Followed => Followed'
    BY <2>1, <2>6 DEF Followed
  <2> QED
    BY <2>1, <2>2, <2>3, <2>4, <2>6, <2>7 DEF ComposingInv
<1> QED
  BY <1>1, <1>2, <1>3, <1>4, <1>5, <1>6, <1>7, NextIs

\* In every state the bodies are whole, and while a compilation runs the numbers
\* it resolved at the start lead to the records they led to (compiler.go:
\* resolveBindings).
THEOREM ComposingIsKept == Spec => []ComposingInv
<1>1. Init => ComposingInv
  BY InitComposing
<1>2. ComposingInv /\ [Next]_vars => ComposingInv'
  BY ComposingSteps
<1> QED
  BY <1>1, <1>2, PTL DEF Spec

\* However WLANs are added, moved, copied and removed, the body is whole
\* (compiler.go: overlayNetworks, removeWiFiMembers).
THEOREM BodyStaysWhole == Spec => []BodyIsWhole
<1>1. ComposingInv => BodyIsWhole
  BY WholeIs DEF ComposingInv, BodyIsWhole
<1> QED
  BY <1>1, ComposingIsKept, PTL

-------------------------------------------------------------------------------
(* Untouched WLANs *)

\* The records of f that are about WLANs nobody asked about are in g.
Spared(f, g) == \A n \in DOMAIN f : f[n].ssid \notin asked => n \in DOMAIN g /\ g[n] = f[n]

\* The request says nothing of the WLANs that the operator did not ask about.
AskedCovers ==
    /\ DOMAIN desired \ DOMAIN request \subseteq asked
    /\ \A w \in DOMAIN request : w \in asked \/ (request[w] = Unchanged /\ w \notin DOMAIN copies)

UntouchedInv ==
    /\ pc # "idle" => AskedCovers
    /\ Spared(body.wireless, draft.wireless) /\ Spared(body.aaa, draft.aaa)

\* A bound aaa record is about the WLAN of the binding.
LEMMA BoundNames ==
    ASSUME NEW b, WholeBody(b), NEW s, Bound(b, s)
    PROVE  b.aaa[s.aaa].ssid = s.name
<1>1. WLANsMatch(b)
  BY DEF WholeBody, Fits
<1>2. /\ s.wireless \in DOMAIN b.wireless /\ s.aaa \in DOMAIN b.aaa
      /\ b.aaa[s.aaa].dev = b.wireless[s.wireless].dev /\ b.wireless[s.wireless].ssid = s.name
  BY DEF Bound
<1>3. PICK n \in DOMAIN b.aaa : /\ b.aaa[n].dev = b.wireless[s.wireless].dev
                                /\ b.aaa[n].ssid = b.wireless[s.wireless].ssid
  BY <1>1, <1>2 DEF WLANsMatch
<1>4. n = s.aaa
  BY <1>1, <1>2, <1>3 DEF WLANsMatch
<1> QED
  BY <1>2, <1>3, <1>4

\* A WLAN that is to be removed somewhere is one that the operator asked about.
LEMMA DropIsAsked ==
    ASSUME TypeOK, Taken, AskedCovers, NEW s \in drop
    PROVE  s.name \in asked
<1>1. IsBinding(body, desired, reported, s) /\ PairOf(s) \notin Wanted
  BY BindingsAre DEF Taken
<1>2. s.name \in DOMAIN desired /\ s.radio \in Selected(desired[s.name], reported)
  BY <1>1 DEF IsBinding
<1>3. CASE s.name \notin DOMAIN request
  BY <1>2, <1>3 DEF AskedCovers
<1>4. CASE s.name \in DOMAIN request
  <2> SUFFICES ASSUME s.name \notin asked PROVE FALSE
    OBVIOUS
  <2>1. request[s.name] = Unchanged /\ s.name \notin DOMAIN copies
    BY <1>4 DEF AskedCovers
  <2>2. MergedFrom(desired, request, copies, s.name, Effective[s.name]) /\ DOMAIN Effective = DOMAIN request
    BY <1>4, EffectiveIs
  <2>3. Effective[s.name] = MergeWiFi(desired[s.name], request[s.name])
    BY <1>2, <2>1, <2>2 DEF MergedFrom
  <2>4. desired[s.name] \in WiFiNetwork /\ request[s.name] \in WiFiNetwork
    BY <1>2, <1>4, ConfigIs DEF TypeOK
  <2>5. Effective[s.name].radios = desired[s.name].radios
    BY <2>1, <2>3, <2>4, MergeIs DEF Unchanged
  <2>6. s.radio \in Selected(Effective[s.name], reported)
    BY <1>2, <2>5 DEF Selected
  <2>7. PairOf(s) \in Wanted
    BY <1>4, <2>2, <2>6, PairsAre DEF Wanted, PairOf
  <2> QED
    BY <1>1, <2>7
<1> QED
  BY <1>3, <1>4

\* A WLAN of which the request says nothing stays as it is.
LEMMA OverlayOfNothing ==
    ASSUME NEW b, NEW w, NEW a, NEW c, c \in OverlayWiFi(b, w, a, Unchanged)
    PROVE  c = b
BY DEF OverlayWiFi, Unchanged

\* Composing a WLAN of the request spares those that nobody asked about.
LEMMA ComposeSpares ==
    ASSUME ComposingInv, UntouchedInv, Compose
    PROVE  UntouchedInv'
<1> DEFINE x == First(todo)
<1>1. /\ ComposedIs(draft, draft', x) /\ x \in todo /\ Continues /\ TypeOK /\ Taken /\ Followed
      /\ pc = "compose" /\ WholeBody(draft)
  BY ComposeKeeps DEF ComposingInv, Compose
<1> HIDE DEF x
<1>2. PICK n, a :
        /\ Edited(draft, draft', x[1], x[2], n, a)
        /\ \/ \E s \in bindings :
                 /\ s.name = x[1] /\ s.radio = x[2] /\ n = s.wireless /\ a = s.aaa
                 /\ PairOf(s) \in Wanted /\ draft' \in OverlayWiFi(draft, n, a, request[x[1]])
           \/ a \notin DOMAIN draft.aaa
  BY <1>1 DEF ComposedIs
<1>3. /\ DOMAIN draft'.wireless = DOMAIN draft.wireless \cup {n}
      /\ \A m \in DOMAIN draft.wireless : draft'.wireless[m] = draft.wireless[m]
      /\ DOMAIN draft'.aaa = DOMAIN draft.aaa \cup {a}
      /\ \A m \in DOMAIN draft.aaa : m # a => draft'.aaa[m] = draft.aaa[m]
  BY <1>2 DEF Edited
<1>4. asked' = asked /\ body' = body /\ AskedCovers /\ AskedCovers'
  BY <1>1 DEF UntouchedInv, Continues, AskedCovers
<1>5. Spared(body.wireless, draft.wireless) /\ Spared(body.aaa, draft.aaa)
  BY DEF UntouchedInv
<1>7. \A m \in DOMAIN body.aaa : body.aaa[m].ssid \notin asked
                                   => m \in DOMAIN draft'.aaa /\ draft'.aaa[m] = body.aaa[m]
  <2> SUFFICES ASSUME NEW m \in DOMAIN body.aaa, body.aaa[m].ssid \notin asked
               PROVE  m \in DOMAIN draft'.aaa /\ draft'.aaa[m] = body.aaa[m]
    OBVIOUS
  <2>1. m \in DOMAIN draft.aaa /\ draft.aaa[m] = body.aaa[m]
    BY <1>5 DEF Spared
  <2>2. CASE m # a
    BY <1>3, <2>1, <2>2
  <2>3. CASE m = a
    <3>1. PICK s \in bindings :
                 /\ s.name = x[1] /\ s.radio = x[2] /\ n = s.wireless /\ a = s.aaa
                 /\ PairOf(s) \in Wanted /\ draft' \in OverlayWiFi(draft, n, a, request[x[1]])
      BY <1>2, <2>1, <2>3
    <3>2. Bound(draft, s)
      BY <1>1, <3>1 DEF Followed
    <3>3. draft.aaa[a].ssid = x[1]
      BY <1>1, <3>1, <3>2, BoundNames
    <3>4. x[1] \notin asked
      BY <2>1, <2>3, <3>3
    <3>5. x[1] \in DOMAIN request
      BY <1>1, WantedType DEF Taken
    <3>6. request[x[1]] = Unchanged
      BY <1>4, <3>4, <3>5 DEF AskedCovers
    <3>7. draft' = draft
      BY <3>1, <3>6, OverlayOfNothing
    <3> QED
      BY <2>1, <3>7
  <2> QED
    BY <2>2, <2>3
<1>8. Spared(body.aaa, draft.aaa)'
  BY <1>4, <1>7 DEF Spared
<1>9. Spared(body.wireless, draft.wireless)'
  BY <1>3, <1>4, <1>5 DEF Spared
<1> QED
  BY <1>4, <1>8, <1>9 DEF UntouchedInv

\* So does removing one.
LEMMA RemoveMemberSpares ==
    ASSUME ComposingInv, UntouchedInv, RemoveMember
    PROVE  UntouchedInv'
<1> DEFINE s == FirstBinding
<1>1. /\ s \in drop /\ Current(draft, s) /\ WLANLeft(draft, draft', s) /\ Continues
      /\ TypeOK /\ Taken /\ WholeBody(draft) /\ pc = "compose"
  BY RemoveMemberKeeps DEF ComposingInv, RemoveMember
<1> HIDE DEF s
<1>2. /\ DOMAIN draft'.wireless = DOMAIN draft.wireless \ {s.wireless}
      /\ \A m \in DOMAIN draft'.wireless : draft'.wireless[m] = draft.wireless[m]
      /\ DOMAIN draft'.aaa = DOMAIN draft.aaa \ {s.aaa}
      /\ \A m \in DOMAIN draft'.aaa : draft'.aaa[m] = draft.aaa[m]
  BY <1>1 DEF WLANLeft
<1>3. asked' = asked /\ body' = body /\ AskedCovers /\ AskedCovers'
  BY <1>1 DEF UntouchedInv, Continues, AskedCovers
<1>4. s.name \in asked
  BY <1>1, <1>3, DropIsAsked
<1>5. Bound(draft, s)
  BY <1>1 DEF Current
<1>6. draft.wireless[s.wireless].ssid = s.name /\ draft.aaa[s.aaa].ssid = s.name
  BY <1>1, <1>5, BoundNames DEF Bound
<1>7. Spared(body.wireless, draft.wireless) /\ Spared(body.aaa, draft.aaa)
  BY DEF UntouchedInv
<1>8. Spared(body.wireless, draft.wireless)'
  BY <1>2, <1>3, <1>4, <1>6, <1>7 DEF Spared
<1>9. Spared(body.aaa, draft.aaa)'
  BY <1>2, <1>3, <1>4, <1>6, <1>7 DEF Spared
<1> QED
  BY <1>3, <1>8, <1>9 DEF UntouchedInv

\* A draft that is the stored body spares every WLAN.
LEMMA SameIsSpared ==
    ASSUME draft' = body', pc' # "idle" => AskedCovers'
    PROVE  UntouchedInv'
BY DEF UntouchedInv, Spared

\* Every step spares the WLANs that nobody asked about.
LEMMA UntouchedSteps == ComposingInv /\ UntouchedInv /\ [Next]_vars => UntouchedInv'
<1> SUFFICES ASSUME ComposingInv, UntouchedInv, [Next]_vars PROVE UntouchedInv'
  OBVIOUS
<1>1. CASE Starting
  <2>1. PICK rep, new, from : Started(rep, new, from)
    BY <1>1 DEF Starting
  <2>2. draft' = body' /\ desired' = desired /\ request' = new /\ copies' = from
    BY <2>1 DEF Started, Begin, stored
  <2>3. AskedCovers'
    BY <2>1, <2>2 DEF Started, AskedCovers
  <2> QED
    BY <2>2, <2>3, SameIsSpared
<1>2. ASSUME NEW rep \in Report, NEW b \in Baseline, ImportBaseline(rep, b) PROVE UntouchedInv'
  BY <1>2, SameIsSpared DEF ImportBaseline
<1>3. CASE Compose
  BY <1>3, ComposeSpares
<1>4. CASE RemoveMember
  BY <1>4, RemoveMemberSpares
<1>5. CASE Finish
  BY <1>5, SameIsSpared DEF Finish
<1>6. CASE Reject
  BY <1>6, SameIsSpared DEF Reject, stored
<1>7. CASE UNCHANGED vars
  BY <1>7 DEF vars, stored, call, history, UntouchedInv, Spared, AskedCovers
<1> QED
  BY <1>1, <1>2, <1>3, <1>4, <1>5, <1>6, <1>7, NextIs

\* In every state the records of WLANs that nobody asked about are in the draft as
\* they are stored (compiler.go: overlayNetworks).
THEOREM UntouchedIsKept == Spec => []UntouchedInv
<1>1. Init => UntouchedInv
  BY DEF Init, UntouchedInv, Spared
<1>2. ComposingInv /\ UntouchedInv /\ [Next]_vars => UntouchedInv'
  BY UntouchedSteps
<1> QED
  BY <1>1, <1>2, ComposingIsKept, PTL DEF Spec

\* A compilation that succeeds leaves the WLANs alone that the operator did not
\* ask to change (compiler.go: overlayNetworks, removeWiFiMembers).
THEOREM OthersStayUntouched == Spec => OthersUntouched
<1> DEFINE Untouched == Finish => \A n \in DOMAIN body.aaa : body.aaa[n].ssid \notin asked =>
              /\ n \in DOMAIN body'.aaa /\ body'.aaa[n] = body.aaa[n]
              /\ \E m \in DOMAIN body.wireless :
                    /\ body.wireless[m].dev = body.aaa[n].dev
                    /\ m \in DOMAIN body'.wireless /\ body'.wireless[m] = body.wireless[m]
<1>1. ComposingInv /\ UntouchedInv => Untouched
  <2> SUFFICES ASSUME ComposingInv, UntouchedInv, Finish, NEW n \in DOMAIN body.aaa,
                      body.aaa[n].ssid \notin asked
               PROVE  /\ n \in DOMAIN body'.aaa /\ body'.aaa[n] = body.aaa[n]
                      /\ \E m \in DOMAIN body.wireless :
                            /\ body.wireless[m].dev = body.aaa[n].dev
                            /\ m \in DOMAIN body'.wireless /\ body'.wireless[m] = body.wireless[m]
    OBVIOUS
  <2>1. body' = draft /\ WLANsMatch(body)
    BY DEF Finish, ComposingInv, WholeBody, Fits
  <2>2. PICK m \in DOMAIN body.wireless : body.wireless[m].dev = body.aaa[n].dev
    BY <2>1 DEF WLANsMatch, WirelessDevs
  <2>3. PICK k \in DOMAIN body.aaa : /\ body.aaa[k].dev = body.wireless[m].dev
                                     /\ body.aaa[k].ssid = body.wireless[m].ssid
    BY <2>1 DEF WLANsMatch
  <2>4. k = n
    BY <2>1, <2>2, <2>3 DEF WLANsMatch
  <2>5. body.wireless[m].ssid \notin asked
    BY <2>3, <2>4
  <2> QED
    BY <2>1, <2>2, <2>5 DEF UntouchedInv, Spared
<1> QED
  BY <1>1, ComposingIsKept, UntouchedIsKept, PTL DEF OthersUntouched

-------------------------------------------------------------------------------
(* Composed requests resolve *)

\* The WLAN and radio of a wireless record.
PairAt(b, n) == <<b.wireless[n].ssid, b.wireless[n].parent>>

\* Every WLAN of the body is one of the configuration.
AllOwned(b, c) == \A n \in DOMAIN b.wireless : PairAt(b, n) \in Pairs(c, Radio)

\* The imported projections leave out no WLAN of their bodies.
Owning == \A b \in Baseline : AllOwned(b.body, b.desired)

\* A pair that was not resolved and is still to compose has no record yet;
\* every other pair asked for has one.
OneRecordEach ==
    \A x \in Wanted :
        IF x \in todo /\ \A s \in bindings : PairOf(s) # x
        THEN Wireless(draft, x[1], x[2]) = {}
        ELSE \E n : Wireless(draft, x[1], x[2]) = {n}

\* The other records of the draft are those to be removed.
OthersLeave ==
    \A n \in DOMAIN draft.wireless :
        PairAt(draft, n) \in Wanted \/ \E s \in drop : s.wireless = n

OwnedInv ==
    /\ AllOwned(body, desired)
    /\ pc # "idle" => OneRecordEach /\ OthersLeave

\* Which radios are reported makes no difference to a configuration that resolves.
LEMMA PairsGrow ==
    ASSUME NEW c, NEW rep, rep \subseteq Radio
    PROVE  Pairs(c, rep) \subseteq Pairs(c, Radio)
<1> SUFFICES ASSUME NEW x \in Pairs(c, rep) PROVE x \in Pairs(c, Radio)
  OBVIOUS
<1>1. PICK w \in DOMAIN c : \E r \in Selected(c[w], rep) : x = <<w, r>>
  BY PairsAre
<1>2. PICK r \in Selected(c[w], rep) : x = <<w, r>>
  BY <1>1
<1>3. r \in Selected(c[w], Radio)
  BY <1>2 DEF Selected
<1> QED
  BY <1>2, <1>3, PairsAre

\* A configuration that resolves selects reported radios only.
LEMMA PairsOfResolved ==
    ASSUME NEW b, NEW c, NEW rep, Resolves(b, c, rep), NEW x, x \in Pairs(c, Radio)
    PROVE  x \in Pairs(c, rep)
<1>1. PICK w \in DOMAIN c : \E r \in Selected(c[w], Radio) : x = <<w, r>>
  BY PairsAre
<1>2. PICK r \in Selected(c[w], Radio) : x = <<w, r>>
  BY <1>1
<1>3. Selected(c[w], rep) # {}
  BY DEF Resolves
<1>4. r \in Selected(c[w], rep)
  BY <1>2, <1>3 DEF Selected
<1> QED
  BY <1>2, <1>4, PairsAre

\* A WLAN of the body with a record on a radio has a binding to that record.
LEMMA OwnedIsBound ==
    ASSUME NEW b, NEW c, NEW rep, Resolves(b, c, rep), AllOwned(b, c), NEW n \in DOMAIN b.wireless
    PROVE  \E s \in ResolveBindings(b, c, rep) : s.wireless = n /\ PairOf(s) = PairAt(b, n)
<1> DEFINE x == PairAt(b, n)
<1>1. x \in Pairs(c, rep)
  BY PairsOfResolved DEF AllOwned
<1>2. PICK s : s \in ResolveWiFi(b, x[1], x[2])
  BY <1>1 DEF Resolves
<1>3. s \in ResolveBindings(b, c, rep)
  BY <1>1, <1>2 DEF ResolveBindings
<1>4. Wireless(b, x[1], x[2]) = {s.wireless} /\ s.name = x[1] /\ s.radio = x[2]
  BY <1>2, ResolvedIs DEF IsResolved
<1>5. n \in Wireless(b, x[1], x[2])
  BY DEF Wireless, PairAt
<1> QED
  BY <1>3, <1>4, <1>5 DEF PairOf, PairAt

\* The records of an owned body are all resolved when a compilation starts.
LEMMA StartOwns ==
    ASSUME ComposingInv, OwnedInv, Starting
    PROVE  OwnedInv'
<1>1. PICK rep, new, from : Started(rep, new, from)
  BY DEF Starting
<1>2. /\ Begin(rep, new, from) /\ ComposingInv' /\ Taken' /\ Followed'
  BY <1>1, BeginKeeps DEF Started
<1>3. /\ body' = body /\ desired' = desired /\ draft' = body /\ pc' = "compose" /\ reported' = rep
      /\ Resolves(body, desired, rep) /\ bindings' = ResolveBindings(body, desired, rep)
      /\ todo' = Pairs(MergeEffective(desired, new, from), rep)
      /\ drop' = {s \in bindings' : <<s.name, s.radio>> \notin todo'}
      /\ request' = new /\ copies' = from
  BY <1>2 DEF Begin, stored
<1>4. Effective' = MergeEffective(desired, new, from)
  <2>1. Effective' = MergeEffective(desired', request', copies')
    BY DEF Effective
  <2> QED
    BY <1>3, <2>1
<1>5. Wanted' = todo'
  <2>1. Wanted' = Pairs(Effective', reported')
    BY DEF Wanted
  <2> QED
    BY <1>3, <1>4, <2>1
<1>6. AllOwned(body, desired)
  BY DEF OwnedInv
<1>7. \A n \in DOMAIN body.wireless : \E s \in bindings' : s.wireless = n /\ PairOf(s) = PairAt(body, n)
  BY <1>3, <1>6, OwnedIsBound
<1>8. ASSUME NEW x \in Wanted'
      PROVE  IF x \in todo' /\ \A s \in bindings' : PairOf(s) # x
             THEN Wireless(draft', x[1], x[2]) = {}
             ELSE \E n : Wireless(draft', x[1], x[2]) = {n}
  <2>1. TypeOK' /\ x = <<x[1], x[2]>>
    <3>1. TypeOK' /\ x \in todo'
      BY <1>2, <1>5 DEF ComposingInv
    <3>2. todo' \subseteq Name \X Radio
      BY <3>1 DEF TypeOK
    <3> QED
      BY <3>1, <3>2
  <2>2. CASE \A s \in bindings' : PairOf(s) # x
    <3>1. \A n \in DOMAIN body.wireless : PairAt(body, n) # x
      BY <1>7, <2>2
    <3>2. Wireless(body, x[1], x[2]) = {}
      BY <2>1, <3>1 DEF Wireless, PairAt
    <3> QED
      BY <1>3, <1>5, <2>2, <3>2
  <2>3. CASE \E s \in bindings' : PairOf(s) = x
    <3>1. PICK s \in bindings' : PairOf(s) = x
      BY <2>3
    <3>2. s \in ResolveWiFi(body, s.name, s.radio)
      BY <1>3, BindingsAre DEF IsBinding
    <3>3. Wireless(body, s.name, s.radio) = {s.wireless}
      BY <3>2, ResolvedIs DEF IsResolved
    <3>4. s.name = x[1] /\ s.radio = x[2]
      BY <3>1 DEF PairOf
    <3> QED
      BY <1>3, <3>1, <3>3, <3>4
  <2> QED
    BY <2>2, <2>3
<1>9. OneRecordEach'
  BY <1>8 DEF OneRecordEach
<1>10. OthersLeave'
  <2>1. \A n \in DOMAIN draft'.wireless :
           PairAt(draft', n) \in Wanted' \/ \E s \in drop' : s.wireless = n
    BY <1>3, <1>5, <1>7 DEF PairOf
  <2> QED
    BY <2>1 DEF OthersLeave
<1>11. AllOwned(body, desired)'
  BY <1>3, <1>6
<1> QED
  BY <1>9, <1>10, <1>11 DEF OwnedInv

\* A composed WLAN has one record on its radio, and no other gets one.
LEMMA ComposeOwns ==
    ASSUME ComposingInv, OwnedInv, Compose
    PROVE  OwnedInv'
<1> DEFINE x == First(todo)
<1>1. /\ ComposedIs(draft, draft', x) /\ x \in todo /\ Continues /\ TypeOK /\ Taken
      /\ pc = "compose" /\ Wanted' = Wanted /\ todo' = todo \ {x} /\ drop' = drop
  BY ComposeKeeps DEF ComposingInv, Compose
<1> HIDE DEF x
<1>2. OneRecordEach /\ OthersLeave /\ AllOwned(body, desired)
  BY <1>1 DEF OwnedInv
<1>3. PICK n, a :
        /\ Edited(draft, draft', x[1], x[2], n, a)
        /\ \/ \E s \in bindings : s.name = x[1] /\ s.radio = x[2] /\ n = s.wireless
           \/ /\ \A s \in bindings : ~(s.name = x[1] /\ s.radio = x[2])
              /\ n \notin DOMAIN draft.wireless
  BY <1>1 DEF ComposedIs
<1>4. /\ n \in DOMAIN draft'.wireless
      /\ draft'.wireless[n].ssid = x[1] /\ draft'.wireless[n].parent = x[2]
      /\ DOMAIN draft'.wireless = DOMAIN draft.wireless \cup {n}
      /\ \A m \in DOMAIN draft.wireless : draft'.wireless[m] = draft.wireless[m]
  BY <1>3 DEF Edited
<1>5. x \in Wanted /\ x = <<x[1], x[2]>>
  BY <1>1, WantedType DEF Taken
<1>6. \A y \in Wanted : y = <<y[1], y[2]>>
  BY <1>1, WantedType
<1>7. ASSUME NEW y \in Wanted, y # x
      PROVE  Wireless(draft', y[1], y[2]) = Wireless(draft, y[1], y[2])
  <2>1. ~(x[1] = y[1] /\ x[2] = y[2])
    BY <1>5, <1>6, <1>7
  <2> QED
    BY <1>4, <2>1 DEF Wireless
<1>8. \E m : Wireless(draft', x[1], x[2]) = {m}
  <2>1. CASE \A s \in bindings : ~(s.name = x[1] /\ s.radio = x[2])
    <3>1. \A s \in bindings : PairOf(s) # x
      BY <1>5, <2>1 DEF PairOf
    <3>2. Wireless(draft, x[1], x[2]) = {}
      BY <1>1, <1>2, <1>5, <3>1 DEF OneRecordEach
    <3>3. Wireless(draft', x[1], x[2]) = {n}
      BY <1>4, <3>2 DEF Wireless
    <3> QED
      BY <3>3
  <2>2. CASE \E s \in bindings : s.name = x[1] /\ s.radio = x[2] /\ n = s.wireless
    <3>1. PICK s \in bindings : s.name = x[1] /\ s.radio = x[2] /\ n = s.wireless
      BY <2>2
    <3>2. PairOf(s) = x
      BY <1>5, <3>1 DEF PairOf
    <3>3. PICK m : Wireless(draft, x[1], x[2]) = {m}
      BY <1>2, <1>5, <3>1, <3>2 DEF OneRecordEach
    <3>4. s \in ResolveWiFi(body, s.name, s.radio) /\ Bound(draft, s)
      <4>1. Followed /\ IsBinding(body, desired, reported, s)
        BY <1>1, <3>1, BindingsAre DEF ComposingInv, Taken
      <4> QED
        BY <1>5, <3>1, <3>2, <4>1 DEF IsBinding, Followed
    <3>5. n \in DOMAIN draft.wireless
      BY <3>1, <3>4 DEF Bound
    <3>6. Wireless(draft', x[1], x[2]) = Wireless(draft, x[1], x[2])
      BY <1>4, <3>5 DEF Wireless
    <3> QED
      BY <3>3, <3>6
  <2> QED
    BY <1>3, <2>1, <2>2
<1>9. bindings' = bindings /\ body' = body /\ desired' = desired
  BY <1>1 DEF Continues
<1>10. OneRecordEach'
  <2> SUFFICES ASSUME NEW y \in Wanted
               PROVE  IF y \in todo' /\ \A s \in bindings' : PairOf(s) # y
                      THEN Wireless(draft', y[1], y[2]) = {}
                      ELSE \E m : Wireless(draft', y[1], y[2]) = {m}
    BY <1>1 DEF OneRecordEach
  <2>1. CASE y = x
    BY <1>1, <1>8, <2>1
  <2>2. CASE y # x
    BY <1>1, <1>2, <1>7, <1>9, <2>2 DEF OneRecordEach
  <2> QED
    BY <2>1, <2>2
<1>11. OthersLeave'
  <2> SUFFICES ASSUME NEW m \in DOMAIN draft'.wireless
               PROVE  PairAt(draft', m) \in Wanted \/ \E s \in drop : s.wireless = m
    BY <1>1 DEF OthersLeave
  <2>1. CASE m = n
    BY <1>4, <1>5, <2>1 DEF PairAt
  <2>2. CASE m \in DOMAIN draft.wireless
    BY <1>2, <1>4, <2>2 DEF OthersLeave, PairAt
  <2> QED
    BY <1>4, <2>1, <2>2
<1> QED
  BY <1>2, <1>9, <1>10, <1>11 DEF OwnedInv

\* A WLAN that is removed leaves the others their record.
LEMMA RemoveMemberOwns ==
    ASSUME ComposingInv, OwnedInv, RemoveMember
    PROVE  OwnedInv'
<1> DEFINE s == FirstBinding
<1>1. /\ s \in drop /\ Current(draft, s) /\ WLANLeft(draft, draft', s) /\ Continues
      /\ TypeOK /\ Taken /\ pc = "compose" /\ Wanted' = Wanted /\ todo' = todo /\ drop' = drop \ {s}
  BY RemoveMemberKeeps DEF ComposingInv, RemoveMember
<1> HIDE DEF s
<1>2. OneRecordEach /\ OthersLeave /\ AllOwned(body, desired)
  BY <1>1 DEF OwnedInv
<1>3. /\ DOMAIN draft'.wireless = DOMAIN draft.wireless \ {s.wireless}
      /\ \A m \in DOMAIN draft'.wireless : draft'.wireless[m] = draft.wireless[m]
  BY <1>1 DEF WLANLeft
<1>4. /\ s.wireless \in DOMAIN draft.wireless
      /\ PairAt(draft, s.wireless) = PairOf(s) /\ PairOf(s) \notin Wanted
  BY <1>1 DEF Current, Bound, PairAt, PairOf, Taken
<1>5. \A y \in Wanted : y = <<y[1], y[2]>>
  BY <1>1, WantedType
<1>6. ASSUME NEW y \in Wanted
      PROVE  Wireless(draft', y[1], y[2]) = Wireless(draft, y[1], y[2])
  <2>1. s.wireless \notin Wireless(draft, y[1], y[2])
    BY <1>4, <1>5 DEF Wireless, PairAt
  <2> QED
    BY <1>3, <2>1 DEF Wireless
<1>7. bindings' = bindings /\ body' = body /\ desired' = desired
  BY <1>1 DEF Continues
<1>8. OneRecordEach'
  <2> SUFFICES ASSUME NEW y \in Wanted
               PROVE  IF y \in todo' /\ \A t \in bindings' : PairOf(t) # y
                      THEN Wireless(draft', y[1], y[2]) = {}
                      ELSE \E m : Wireless(draft', y[1], y[2]) = {m}
    BY <1>1 DEF OneRecordEach
  <2> QED
    BY <1>1, <1>2, <1>6, <1>7 DEF OneRecordEach
<1>9. OthersLeave'
  <2> SUFFICES ASSUME NEW m \in DOMAIN draft'.wireless
               PROVE  PairAt(draft', m) \in Wanted \/ \E t \in drop' : t.wireless = m
    BY <1>1 DEF OthersLeave
  <2> QED
    BY <1>1, <1>2, <1>3 DEF OthersLeave, PairAt
<1> QED
  BY <1>2, <1>7, <1>8, <1>9 DEF OwnedInv

\* Every step keeps one record for each WLAN and radio.
LEMMA OwnedSteps ==
    ASSUME Owning
    PROVE  ComposingInv /\ OwnedInv /\ [Next]_vars => OwnedInv'
<1> SUFFICES ASSUME ComposingInv, OwnedInv, [Next]_vars PROVE OwnedInv'
  OBVIOUS
<1>1. CASE Starting
  BY <1>1, StartOwns
<1>2. ASSUME NEW rep \in Report, NEW b \in Baseline, ImportBaseline(rep, b) PROVE OwnedInv'
  <2>1. body' = b.body /\ desired' = b.desired /\ pc' = "idle"
    BY <1>2 DEF ImportBaseline
  <2>2. AllOwned(b.body, b.desired)
    BY DEF Owning
  <2>3. AllOwned(body, desired)'
    BY <2>1, <2>2
  <2> QED
    BY <2>1, <2>3 DEF OwnedInv
<1>3. CASE Compose
  BY <1>3, ComposeOwns
<1>4. CASE RemoveMember
  BY <1>4, RemoveMemberOwns
<1>5. CASE Finish
  <2>1. /\ pc = "compose" /\ drop = {} /\ body' = draft /\ desired' = Effective /\ pc' = "idle"
    BY <1>5 DEF Finish, Composing
  <2>2. OthersLeave /\ reported \subseteq Radio
    BY <2>1 DEF OwnedInv, ComposingInv, TypeOK
  <2>3. \A n \in DOMAIN draft.wireless : PairAt(draft, n) \in Pairs(Effective, Radio)
    BY <2>1, <2>2, PairsGrow DEF OthersLeave, Wanted
  <2>4. AllOwned(draft, Effective)
    BY <2>3 DEF AllOwned
  <2>5. AllOwned(body', desired')
    BY <2>1, <2>4
  <2> QED
    BY <2>1, <2>5 DEF OwnedInv
<1>6. CASE Reject
  <2>1. body' = body /\ desired' = desired /\ pc' = "idle"
    BY <1>6 DEF Reject, stored
  <2>2. AllOwned(body, desired)'
    BY <2>1 DEF OwnedInv
  <2> QED
    BY <2>1, <2>2 DEF OwnedInv
<1>7. CASE UNCHANGED vars
  <2>1. /\ body' = body /\ desired' = desired /\ pc' = pc /\ draft' = draft
        /\ reported' = reported /\ request' = request /\ copies' = copies /\ bindings' = bindings
        /\ todo' = todo /\ drop' = drop
    BY <1>7 DEF vars, stored, call
  <2>2. Effective' = Effective
    <3>1. Effective' = MergeEffective(desired', request', copies')
      BY DEF Effective
    <3> QED
      BY <2>1, <3>1 DEF Effective
  <2>3. Wanted' = Wanted
    <3>1. Wanted' = Pairs(Effective', reported')
      BY DEF Wanted
    <3> QED
      BY <2>1, <2>2, <3>1 DEF Wanted
  <2>4. AllOwned(body, desired)'
    BY <2>1 DEF OwnedInv
  <2>5. OneRecordEach => OneRecordEach'
    BY <2>1, <2>3 DEF OneRecordEach
  <2>6. OthersLeave => OthersLeave'
    BY <2>1, <2>3 DEF OthersLeave
  <2> QED
    BY <2>1, <2>4, <2>5, <2>6 DEF OwnedInv
<1> QED
  BY <1>1, <1>2, <1>3, <1>4, <1>5, <1>6, <1>7, NextIs

\* Where every WLAN of an access point was imported with its body, a request
\* that every step of the composition accepts resolves at the end
\* (compiler.go: resolveBindings).
THEOREM ComposedRequestsResolve ==
    ASSUME Owning
    PROVE  Spec => []ComposedResolves
<1>1. Init => OwnedInv
  <2> SUFFICES ASSUME Init PROVE OwnedInv
    OBVIOUS
  <2>1. PICK b \in Baseline : body = b.body /\ desired = b.desired
    BY DEF Init
  <2>2. pc = "idle"
    BY DEF Init
  <2> QED
    BY <2>1, <2>2 DEF Owning, OwnedInv
<1>2. ComposingInv /\ OwnedInv /\ [Next]_vars => OwnedInv'
  BY OwnedSteps
<1>3. ComposingInv /\ OwnedInv => ComposedResolves
  <2> SUFFICES ASSUME ComposingInv, OwnedInv, pc = "compose", ~Composing
               PROVE  Resolves(draft, Effective, reported)
    BY DEF ComposedResolves
  <2>1. TypeOK /\ Taken /\ OneRecordEach /\ todo = {} /\ WholeBody(draft)
    BY DEF ComposingInv, OwnedInv, Composing
  <2>2. DOMAIN Effective = DOMAIN request
    BY <2>1, EffectiveIs
  <2>3. \A w \in DOMAIN Effective : Selected(Effective[w], reported) # {}
    BY <2>1, <2>2 DEF Taken
  <2>4. ASSUME NEW x \in Pairs(Effective, reported) PROVE ResolveWiFi(draft, x[1], x[2]) # {}
    <3>1. PICK n : Wireless(draft, x[1], x[2]) = {n}
      BY <2>1 DEF OneRecordEach, Wanted
    <3> QED
      BY <2>1, <3>1, OneWirelessResolves
  <2> QED
    BY <2>3, <2>4 DEF Resolves
<1> QED
  BY <1>1, <1>2, <1>3, ComposingIsKept, PTL DEF Spec

-------------------------------------------------------------------------------
(* What was supplied *)

\* An aaa record says, of the supplied fields, what the settings say.
Holds(y, f, fields) ==
    /\ "policy" \in fields => y.policy \in f.policy
    /\ "vlan" \in fields => \E v \in f.vlan : y.br = Br(v)

\* So does the record that a WLAN resolves to.
Shows(b, name, r, f, fields) ==
    \A s \in ResolveWiFi(b, name, r) : Holds(b.aaa[s.aaa], f, fields)

Origin(w) == IF w \in DOMAIN copies THEN copies[w] ELSE w

\* The fields that are supplied for a WLAN when the compilation succeeds.
SuppliedNext(w) == FieldsOf(request[w]) \cup supplied[Origin(w)]

\* The stored body says what was supplied.
BodySays ==
    \A w \in DOMAIN desired : \A r \in UNION desired[w].radios :
        Shows(body, w, r, desired[w], supplied[w])

\* A WLAN that is copied is not changed by the same request.
SourcesStay == \A w \in DOMAIN copies : copies[w] \in DOMAIN request => request[copies[w]] = Unchanged

\* The pairs that are composed say what will have been supplied.
ComposedSay ==
    \A x \in Wanted \ todo : Shows(draft, x[1], x[2], Effective[x[1]], SuppliedNext(x[1]))

\* The other resolved records still say what was supplied, and are still there.
UncomposedSay ==
    \A s \in bindings :
        /\ PairOf(s) \in todo \/ PairOf(s) \notin Wanted =>
              Holds(draft.aaa[s.aaa], desired[s.name], supplied[s.name])
        /\ PairOf(s) \notin Wanted => s \in drop

SuppliedInv ==
    /\ BodySays
    /\ pc # "idle" => SourcesStay /\ ComposedSay /\ (todo # {} => UncomposedSay)

\* Overlaying a request on a record adds its fields to those that hold.
LEMMA OverlayHolds ==
    ASSUME NEW f, f \in WiFiNetwork, NEW g, g \in WiFiNetwork, NEW F, NEW y, Holds(y, f, F),
           NEW z, Says(g, y, z)
    PROVE  Holds(z, MergeWiFi(f, g), FieldsOf(g) \cup F)
<1>1. /\ MergeWiFi(f, g).policy = IF g.policy # {} THEN g.policy ELSE f.policy
      /\ MergeWiFi(f, g).vlan = IF g.vlan # {} THEN g.vlan ELSE f.vlan
  BY MergeIs
<1>2. ("policy" \in FieldsOf(g) <=> g.policy # {}) /\ ("vlan" \in FieldsOf(g) <=> g.vlan # {})
  BY DEF FieldsOf
<1> QED
  BY <1>1, <1>2 DEF Holds, Says

\* A record made of complete settings says all of them.
LEMMA CompleteHolds ==
    ASSUME NEW e, NEW g, g.policy # {} => e.policy = g.policy, g.vlan # {} => e.vlan = g.vlan,
           NEW y, y.policy \in e.policy, \E v \in e.vlan : y.br = Br(v),
           NEW z, Says(g, y, z), NEW F
    PROVE  Holds(z, e, F)
BY DEF Holds, Says

\* The settings of the request are those of the merged configuration.
LEMMA RequestIsEffective ==
    ASSUME TypeOK, Taken, NEW w \in DOMAIN request
    PROVE  /\ request[w].policy # {} => Effective[w].policy = request[w].policy
           /\ request[w].vlan # {} => Effective[w].vlan = request[w].vlan
<1>1. MergedFrom(desired, request, copies, w, Effective[w])
  BY EffectiveIs
<1>2. request[w] \in WiFiNetwork /\ \A x \in DOMAIN desired : desired[x] \in WiFiNetwork
  BY ConfigIs DEF TypeOK
<1>3. CASE w \in DOMAIN copies
  BY <1>1, <1>2, <1>3, MergeIs DEF MergedFrom, Taken
<1>4. CASE w \notin DOMAIN copies /\ w \in DOMAIN desired
  BY <1>1, <1>2, <1>4, MergeIs DEF MergedFrom
<1>5. CASE w \notin DOMAIN copies /\ w \notin DOMAIN desired
  BY <1>1, <1>5 DEF MergedFrom
<1> QED
  BY <1>3, <1>4, <1>5

\* A WLAN with an origin is merged from it.
LEMMA OriginIsMerged ==
    ASSUME TypeOK, Taken, NEW w \in DOMAIN request, Origin(w) \in DOMAIN desired
    PROVE  /\ Effective[w] = MergeWiFi(desired[Origin(w)], request[w])
           /\ desired[Origin(w)] \in WiFiNetwork /\ request[w] \in WiFiNetwork
<1>1. MergedFrom(desired, request, copies, w, Effective[w])
  BY EffectiveIs
<1>2. request[w] \in WiFiNetwork /\ \A x \in DOMAIN desired : desired[x] \in WiFiNetwork
  BY ConfigIs DEF TypeOK
<1> QED
  BY <1>1, <1>2 DEF MergedFrom, Origin, Taken

\* A WLAN resolves to the records it is bound to.
LEMMA BoundIsResolved ==
    ASSUME NEW b, NEW s, Bound(b, s), NEW t, t \in ResolveWiFi(b, s.name, s.radio)
    PROVE  t.wireless = s.wireless /\ t.aaa = s.aaa
<1>1. /\ Wireless(b, s.name, s.radio) = {t.wireless}
      /\ Named(b.aaa, b.wireless[t.wireless].dev) = {t.aaa}
  BY ResolvedIs DEF IsResolved
<1>2. s.wireless \in Wireless(b, s.name, s.radio)
  BY DEF Bound, Wireless
<1>3. t.wireless = s.wireless
  BY <1>1, <1>2
<1>4. s.aaa \in Named(b.aaa, b.wireless[t.wireless].dev)
  BY <1>3 DEF Bound, Named
<1> QED
  BY <1>1, <1>3, <1>4

\* What a WLAN shows stays while its records stay.
LEMMA ShowsStays ==
    ASSUME NEW b, WholeBody(b), NEW c, NEW name, NEW r, NEW f, NEW F, Shows(b, name, r, f, F),
           Wireless(c, name, r) = Wireless(b, name, r),
           \A m \in Wireless(b, name, r) :
              /\ c.wireless[m] = b.wireless[m]
              /\ \A k \in DOMAIN c.aaa : c.aaa[k].dev = b.wireless[m].dev
                                            => k \in DOMAIN b.aaa /\ c.aaa[k] = b.aaa[k]
    PROVE  Shows(c, name, r, f, F)
<1> SUFFICES ASSUME NEW s \in ResolveWiFi(c, name, r) PROVE Holds(c.aaa[s.aaa], f, F)
  BY DEF Shows
<1>1. /\ Wireless(c, name, r) = {s.wireless} /\ s.aaa \in DOMAIN c.aaa
      /\ c.aaa[s.aaa].dev = c.wireless[s.wireless].dev
  BY ResolvedIs DEF IsResolved, Current, Bound
<1>2. Wireless(b, name, r) = {s.wireless}
  BY <1>1
<1>3. PICK t : t \in ResolveWiFi(b, name, r)
  BY <1>2, OneWirelessResolves
<1>4. t.wireless = s.wireless /\ Named(b.aaa, b.wireless[t.wireless].dev) = {t.aaa}
  BY <1>2, <1>3, ResolvedIs DEF IsResolved
<1>5. s.aaa \in DOMAIN b.aaa /\ c.aaa[s.aaa] = b.aaa[s.aaa] /\ b.aaa[s.aaa].dev = b.wireless[s.wireless].dev
  BY <1>1, <1>2
<1>6. t.aaa = s.aaa
  BY <1>4, <1>5 DEF Named
<1>7. Holds(b.aaa[t.aaa], f, F)
  BY <1>3 DEF Shows
<1> QED
  BY <1>5, <1>6, <1>7

\* What a composed WLAN is made from says what was supplied for its origin.
LEMMA SourceHolds ==
    ASSUME ComposingInv, SuppliedInv, pc # "idle", NEW x \in todo,
           NEW s \in Sources(bindings, x[1], {copies[w] : w \in {x[1]} \cap DOMAIN copies}, x[2]),
           NEW t \in ResolveWiFi(draft, s.name, s.radio)
    PROVE  /\ s.name = Origin(x[1]) /\ s.name \in DOMAIN desired
           /\ request[x[1]].policy = {} /\ "policy" \in supplied[s.name]
                 => draft.aaa[t.aaa].policy \in desired[s.name].policy
           /\ request[x[1]].vlan = {} /\ "vlan" \in supplied[s.name]
                 => \E v \in desired[s.name].vlan : draft.aaa[t.aaa].br = Br(v)
<1>1. TypeOK /\ Taken /\ Followed /\ SourcesStay /\ ComposedSay /\ UncomposedSay
  BY DEF ComposingInv, SuppliedInv
<1>2. s \in bindings /\ s.name = Origin(x[1])
  BY DEF Sources, Origin
<1>3. s.name \in DOMAIN desired
  BY <1>1, <1>2, BindingsAre DEF Taken, IsBinding
<1>4. CASE PairOf(s) \in Wanted \ todo
  <2>1. s.name \in DOMAIN request
    BY <1>1, <1>4, WantedType DEF PairOf
  <2>2. Shows(draft, s.name, s.radio, Effective[s.name], SuppliedNext(s.name))
    BY <1>1, <1>4 DEF ComposedSay, PairOf
  <2>3. Holds(draft.aaa[t.aaa], Effective[s.name], SuppliedNext(s.name))
    BY <2>2 DEF Shows
  <2>4. s.name \notin DOMAIN copies
    BY <1>1, <1>3 DEF Taken
  <2>5. Origin(s.name) = s.name
    BY <2>4 DEF Origin
  <2>6. /\ Effective[s.name] = MergeWiFi(desired[s.name], request[s.name])
        /\ desired[s.name] \in WiFiNetwork /\ request[s.name] \in WiFiNetwork
    BY <1>1, <1>3, <2>1, <2>5, OriginIsMerged
  <2>7. supplied[s.name] \subseteq SuppliedNext(s.name)
    BY <2>5 DEF SuppliedNext
  <2>8. request[s.name] = Unchanged \/ s.name = x[1]
    BY <1>1, <1>2, <2>1 DEF Origin, SourcesStay
  <2>9. /\ request[x[1]].policy = {} => request[s.name].policy = {}
        /\ request[x[1]].vlan = {} => request[s.name].vlan = {}
    BY <2>8 DEF Unchanged
  <2>10. /\ request[s.name].policy = {} => Effective[s.name].policy = desired[s.name].policy
         /\ request[s.name].vlan = {} => Effective[s.name].vlan = desired[s.name].vlan
    BY <2>6, MergeIs
  <2> QED
    BY <1>2, <1>3, <2>3, <2>7, <2>9, <2>10 DEF Holds
<1>5. CASE PairOf(s) \notin Wanted \ todo
  <2>1. PairOf(s) \in todo \/ PairOf(s) \notin Wanted
    BY <1>5
  <2>2. Holds(draft.aaa[s.aaa], desired[s.name], supplied[s.name])
    BY <1>1, <1>2, <2>1 DEF UncomposedSay
  <2>3. Bound(draft, s)
    BY <1>1, <1>2, <2>1 DEF UncomposedSay, Followed, Taken, Current
  <2>4. t.aaa = s.aaa
    BY <2>3, BoundIsResolved
  <2> QED
    BY <1>2, <1>3, <2>2, <2>4 DEF Holds
<1> QED
  BY <1>4, <1>5

\* The record of a WLAN that was added says what will have been supplied.
LEMMA AddedHolds ==
    ASSUME ComposingInv, SuppliedInv, pc # "idle", NEW x \in todo, NEW y,
           StartsFrom(draft, bindings, x[1], {copies[w] : w \in {x[1]} \cap DOMAIN copies}, x[2],
                      Effective[x[1]], y),
           NEW z, Says(request[x[1]], y, z)
    PROVE  Holds(z, Effective[x[1]], SuppliedNext(x[1]))
<1> DEFINE g == request[x[1]]
           e == Effective[x[1]]
           from == {copies[w] : w \in {x[1]} \cap DOMAIN copies}
<1>1. TypeOK /\ Taken
  BY DEF ComposingInv
<1>2. x[1] \in DOMAIN request
  BY <1>1, WantedType DEF Taken
<1>3. /\ g.policy # {} => e.policy = g.policy
      /\ g.vlan # {} => e.vlan = g.vlan
  BY <1>1, <1>2, RequestIsEffective
<1>4. CASE y.policy \in e.policy /\ \E v \in e.vlan : y.br = Br(v)
  BY <1>3, <1>4, CompleteHolds
<1>5. CASE \E s \in Sources(bindings, x[1], from, x[2]) : \E t \in ResolveWiFi(draft, s.name, s.radio) :
              y.policy = draft.aaa[t.aaa].policy /\ y.br = draft.aaa[t.aaa].br
  <2>1. PICK s \in Sources(bindings, x[1], from, x[2]) : \E t \in ResolveWiFi(draft, s.name, s.radio) :
              y.policy = draft.aaa[t.aaa].policy /\ y.br = draft.aaa[t.aaa].br
    BY <1>5
  <2>2. PICK t \in ResolveWiFi(draft, s.name, s.radio) :
              y.policy = draft.aaa[t.aaa].policy /\ y.br = draft.aaa[t.aaa].br
    BY <2>1
  <2>3. /\ s.name = Origin(x[1]) /\ s.name \in DOMAIN desired
        /\ g.policy = {} /\ "policy" \in supplied[s.name]
              => draft.aaa[t.aaa].policy \in desired[s.name].policy
        /\ g.vlan = {} /\ "vlan" \in supplied[s.name]
              => \E v \in desired[s.name].vlan : draft.aaa[t.aaa].br = Br(v)
    BY SourceHolds
  <2>4. /\ e = MergeWiFi(desired[s.name], g)
        /\ desired[s.name] \in WiFiNetwork /\ g \in WiFiNetwork
    BY <1>1, <1>2, <2>3, OriginIsMerged
  <2> DEFINE F == {i \in supplied[s.name] :
                     \/ i = "policy" /\ g.policy = {}
                     \/ i = "vlan" /\ g.vlan = {}}
  <2>5. Holds(y, desired[s.name], F)
    BY <2>2, <2>3 DEF Holds
  <2> HIDE DEF e, g
  <2>6. Holds(z, e, FieldsOf(g) \cup F)
    BY <2>4, <2>5, OverlayHolds DEF g
  <2>7. ("policy" \in FieldsOf(g) <=> g.policy # {}) /\ ("vlan" \in FieldsOf(g) <=> g.vlan # {})
    BY DEF FieldsOf
  <2>8. SuppliedNext(x[1]) = FieldsOf(g) \cup supplied[s.name]
    BY <2>3 DEF SuppliedNext, g
  <2>9. Holds(z, e, SuppliedNext(x[1]))
    BY <2>6, <2>7, <2>8 DEF Holds
  <2> QED
    BY <2>9 DEF e
<1> QED
  BY <1>4, <1>5 DEF StartsFrom

\* What the step leaves alone keeps the meaning of the request.
LEMMA SuppliedNextStays ==
    ASSUME Continues
    PROVE  \A w : SuppliedNext(w)' = SuppliedNext(w)
BY DEF Continues, SuppliedNext, Origin

\* A composed WLAN says what was supplied; the others say what they said.
LEMMA ComposeSupplies ==
    ASSUME ComposingInv, SuppliedInv, Compose
    PROVE  SuppliedInv'
<1> DEFINE x == First(todo)
<1>1. /\ ComposedIs(draft, draft', x) /\ x \in todo /\ Continues /\ TypeOK /\ Taken /\ Followed
      /\ pc = "compose" /\ Wanted' = Wanted /\ Effective' = Effective /\ WholeBody(draft)
      /\ todo' = todo \ {x} /\ drop' = drop
  BY ComposeKeeps DEF ComposingInv, Compose
<1> HIDE DEF x
<1>2. BodySays /\ SourcesStay /\ ComposedSay /\ UncomposedSay
  BY <1>1 DEF SuppliedInv
<1>3. PICK n, a :
        /\ Edited(draft, draft', x[1], x[2], n, a)
        /\ \/ \E s \in bindings :
                 /\ s.name = x[1] /\ s.radio = x[2] /\ n = s.wireless /\ a = s.aaa
                 /\ PairOf(s) \in Wanted
                 /\ Says(request[x[1]], draft.aaa[a], draft'.aaa[a])
           \/ /\ n \notin DOMAIN draft.wireless /\ a \notin DOMAIN draft.aaa
              /\ \E y : /\ StartsFrom(draft, bindings, x[1],
                                      {copies[w] : w \in {x[1]} \cap DOMAIN copies},
                                      x[2], Effective[x[1]], y)
                        /\ Says(request[x[1]], y, draft'.aaa[a])
  BY <1>1 DEF ComposedIs
<1>4. /\ n \in DOMAIN draft'.wireless /\ a \in DOMAIN draft'.aaa
      /\ draft'.wireless[n].ssid = x[1] /\ draft'.wireless[n].parent = x[2]
      /\ draft'.aaa[a].dev = draft'.wireless[n].dev
      /\ DOMAIN draft'.wireless = DOMAIN draft.wireless \cup {n}
      /\ \A m \in DOMAIN draft.wireless : draft'.wireless[m] = draft.wireless[m]
      /\ DOMAIN draft'.aaa = DOMAIN draft.aaa \cup {a}
      /\ \A m \in DOMAIN draft.aaa : m # a => draft'.aaa[m] = draft.aaa[m]
      /\ WLANsMatch(draft')
  BY <1>3 DEF Edited, WholeBody, Fits
<1>5. x \in Wanted /\ x = <<x[1], x[2]>> /\ x[1] \in DOMAIN request
  BY <1>1, WantedType DEF Taken
<1>6. Holds(draft'.aaa[a], Effective[x[1]], SuppliedNext(x[1]))
  <2>1. CASE \E s \in bindings :
                 /\ s.name = x[1] /\ s.radio = x[2] /\ n = s.wireless /\ a = s.aaa
                 /\ Says(request[x[1]], draft.aaa[a], draft'.aaa[a])
    <3>1. PICK s \in bindings :
                 /\ s.name = x[1] /\ s.radio = x[2] /\ n = s.wireless /\ a = s.aaa
                 /\ Says(request[x[1]], draft.aaa[a], draft'.aaa[a])
      BY <2>1
    <3>2. PairOf(s) = x
      BY <1>5, <3>1 DEF PairOf
    <3>3. Holds(draft.aaa[a], desired[x[1]], supplied[x[1]])
      BY <1>1, <1>2, <3>1, <3>2 DEF UncomposedSay
    <3>4. x[1] \in DOMAIN desired
      BY <1>1, <3>1, BindingsAre DEF Taken, IsBinding
    <3>5. Origin(x[1]) = x[1]
      BY <1>1, <3>4 DEF Origin, Taken
    <3>6. /\ Effective[x[1]] = MergeWiFi(desired[x[1]], request[x[1]])
          /\ desired[x[1]] \in WiFiNetwork /\ request[x[1]] \in WiFiNetwork
      BY <1>1, <1>5, <3>4, <3>5, OriginIsMerged
    <3>7. Holds(draft'.aaa[a], MergeWiFi(desired[x[1]], request[x[1]]),
                FieldsOf(request[x[1]]) \cup supplied[x[1]])
      BY <3>1, <3>3, <3>6, OverlayHolds
    <3> QED
      BY <3>5, <3>6, <3>7 DEF SuppliedNext
  <2>2. CASE \E y : /\ StartsFrom(draft, bindings, x[1],
                                  {copies[w] : w \in {x[1]} \cap DOMAIN copies},
                                  x[2], Effective[x[1]], y)
                    /\ Says(request[x[1]], y, draft'.aaa[a])
    BY <1>1, <2>2, AddedHolds
  <2> QED
    BY <1>3, <2>1, <2>2
<1>7. \A w : SuppliedNext(w)' = SuppliedNext(w)
  BY <1>1, SuppliedNextStays
<1>8. ComposedSay'
  <2> SUFFICES ASSUME NEW y \in Wanted \ todo'
               PROVE  Shows(draft', y[1], y[2], Effective[y[1]], SuppliedNext(y[1]))
    BY <1>1, <1>7 DEF ComposedSay
  <2>1. CASE y = x
    <3> SUFFICES ASSUME NEW s \in ResolveWiFi(draft', x[1], x[2])
                 PROVE  Holds(draft'.aaa[s.aaa], Effective[x[1]], SuppliedNext(x[1]))
      BY <2>1 DEF Shows
    <3>1. /\ Wireless(draft', x[1], x[2]) = {s.wireless}
          /\ Named(draft'.aaa, draft'.wireless[s.wireless].dev) = {s.aaa}
      BY ResolvedIs DEF IsResolved
    <3>2. n \in Wireless(draft', x[1], x[2])
      BY <1>4 DEF Wireless
    <3>3. n = s.wireless
      BY <3>1, <3>2
    <3>4. a \in Named(draft'.aaa, draft'.wireless[s.wireless].dev)
      BY <1>4, <3>3 DEF Named
    <3>5. a = s.aaa
      BY <3>1, <3>4
    <3> QED
      BY <1>6, <3>5
  <2>2. CASE y # x
    <3>1. Shows(draft, y[1], y[2], Effective[y[1]], SuppliedNext(y[1]))
      BY <1>1, <1>2, <2>2 DEF ComposedSay
    <3>2. y = <<y[1], y[2]>>
      BY <1>1, WantedType
    <3>3. ~(x[1] = y[1] /\ x[2] = y[2])
      BY <1>5, <2>2, <3>2
    <3>4. Wireless(draft', y[1], y[2]) = Wireless(draft, y[1], y[2])
      BY <1>4, <3>3 DEF Wireless
    <3>5. ASSUME NEW m \in Wireless(draft, y[1], y[2])
          PROVE  /\ draft'.wireless[m] = draft.wireless[m]
                 /\ \A k \in DOMAIN draft'.aaa : draft'.aaa[k].dev = draft.wireless[m].dev
                                => k \in DOMAIN draft.aaa /\ draft'.aaa[k] = draft.aaa[k]
      <4>1. /\ m \in DOMAIN draft.wireless
            /\ draft.wireless[m].ssid = y[1] /\ draft.wireless[m].parent = y[2]
        BY DEF Wireless
      <4>2. draft'.wireless[m] = draft.wireless[m]
        BY <1>4, <4>1
      <4>3. m # n
        BY <1>4, <3>3, <4>1, <4>2
      <4>4. draft'.wireless[m].dev # draft'.wireless[n].dev
        BY <1>4, <4>1, <4>3 DEF WLANsMatch
      <4> QED
        BY <1>4, <4>2, <4>4
    <3> QED
      BY <1>1, <3>1, <3>4, <3>5, ShowsStays
  <2> QED
    BY <2>1, <2>2
<1>9. UncomposedSay'
  <2>1. bindings' = bindings /\ desired' = desired /\ supplied' = supplied
    BY <1>1 DEF Continues
  <2> SUFFICES ASSUME NEW s \in bindings
               PROVE  /\ PairOf(s) \in todo' \/ PairOf(s) \notin Wanted =>
                            Holds(draft'.aaa[s.aaa], desired[s.name], supplied[s.name])
                      /\ PairOf(s) \notin Wanted => s \in drop'
    BY <1>1, <2>1 DEF UncomposedSay
  <2>2. PairOf(s) \notin Wanted => s \in drop'
    BY <1>1, <1>2 DEF UncomposedSay
  <2>3. ASSUME PairOf(s) \in todo' \/ PairOf(s) \notin Wanted
        PROVE  Holds(draft'.aaa[s.aaa], desired[s.name], supplied[s.name])
    <3>1. Holds(draft.aaa[s.aaa], desired[s.name], supplied[s.name]) /\ PairOf(s) # x
      BY <1>1, <1>2, <1>5, <2>3 DEF UncomposedSay
    <3>2. Bound(draft, s)
      BY <1>1, <1>2, <2>3 DEF UncomposedSay, Followed, Taken, Current
    <3>3. /\ s.wireless \in DOMAIN draft.wireless /\ s.aaa \in DOMAIN draft.aaa
          /\ draft.aaa[s.aaa].dev = draft.wireless[s.wireless].dev
          /\ draft.wireless[s.wireless].ssid = s.name /\ draft.wireless[s.wireless].parent = s.radio
      BY <3>2 DEF Bound
    <3>4. s.wireless # n
      BY <1>4, <1>5, <3>1, <3>3 DEF PairOf
    <3>5. s.aaa # a
      <4> SUFFICES ASSUME s.aaa = a PROVE FALSE
        OBVIOUS
      <4>1. draft'.aaa[a].dev = draft.aaa[a].dev
        BY <1>3, <3>3 DEF Edited
      <4>2. draft'.wireless[s.wireless].dev = draft'.wireless[n].dev
        BY <1>4, <3>3, <4>1
      <4> QED
        BY <1>4, <3>3, <3>4, <4>2 DEF WLANsMatch
    <3> QED
      BY <1>4, <3>1, <3>3, <3>5
  <2> QED
    BY <2>2, <2>3
<1>10. SourcesStay' /\ BodySays'
  <2>1. /\ body' = body /\ desired' = desired /\ supplied' = supplied
        /\ copies' = copies /\ request' = request
    BY <1>1 DEF Continues
  <2> QED
    BY <1>2, <2>1 DEF SourcesStay, BodySays
<1> QED
  BY <1>8, <1>9, <1>10 DEF SuppliedInv

\* Removing a WLAN leaves what the others say.
LEMMA RemoveMemberSupplies ==
    ASSUME ComposingInv, SuppliedInv, RemoveMember
    PROVE  SuppliedInv'
<1> DEFINE s == FirstBinding
<1>1. /\ s \in drop /\ Current(draft, s) /\ WLANLeft(draft, draft', s) /\ Continues
      /\ TypeOK /\ Taken /\ pc = "compose" /\ Wanted' = Wanted /\ Effective' = Effective
      /\ todo' = todo /\ todo = {} /\ WholeBody(draft)
  BY RemoveMemberKeeps DEF ComposingInv, RemoveMember
<1> HIDE DEF s
<1>2. BodySays /\ SourcesStay /\ ComposedSay
  BY <1>1 DEF SuppliedInv
<1>3. /\ DOMAIN draft'.wireless = DOMAIN draft.wireless \ {s.wireless}
      /\ \A m \in DOMAIN draft'.wireless : draft'.wireless[m] = draft.wireless[m]
      /\ DOMAIN draft'.aaa = DOMAIN draft.aaa \ {s.aaa}
      /\ \A m \in DOMAIN draft'.aaa : draft'.aaa[m] = draft.aaa[m]
  BY <1>1 DEF WLANLeft
<1>4. /\ s.wireless \in DOMAIN draft.wireless
      /\ draft.wireless[s.wireless].ssid = s.name /\ draft.wireless[s.wireless].parent = s.radio
      /\ PairOf(s) \notin Wanted
  BY <1>1 DEF Current, Bound, Taken
<1>5. \A w : SuppliedNext(w)' = SuppliedNext(w)
  BY <1>1, SuppliedNextStays
<1>6. ComposedSay'
  <2> SUFFICES ASSUME NEW y \in Wanted \ todo
               PROVE  Shows(draft', y[1], y[2], Effective[y[1]], SuppliedNext(y[1]))
    BY <1>1, <1>5 DEF ComposedSay
  <2>1. Shows(draft, y[1], y[2], Effective[y[1]], SuppliedNext(y[1]))
    BY <1>2 DEF ComposedSay
  <2>2. y = <<y[1], y[2]>>
    BY <1>1, WantedType
  <2>3. s.wireless \notin Wireless(draft, y[1], y[2])
    BY <1>4, <2>2 DEF Wireless, PairOf
  <2>4. Wireless(draft', y[1], y[2]) = Wireless(draft, y[1], y[2])
    BY <1>3, <2>3 DEF Wireless
  <2>5. \A m \in Wireless(draft, y[1], y[2]) : draft'.wireless[m] = draft.wireless[m]
    BY <1>3, <2>3 DEF Wireless
  <2>6. \A k \in DOMAIN draft'.aaa : k \in DOMAIN draft.aaa /\ draft'.aaa[k] = draft.aaa[k]
    BY <1>3
  <2> QED
    BY <1>1, <2>1, <2>4, <2>5, <2>6, ShowsStays
<1>7. SourcesStay' /\ BodySays'
  <2>1. /\ body' = body /\ desired' = desired /\ supplied' = supplied
        /\ copies' = copies /\ request' = request
    BY <1>1 DEF Continues
  <2> QED
    BY <1>2, <2>1 DEF SourcesStay, BodySays
<1> QED
  BY <1>1, <1>6, <1>7 DEF SuppliedInv

\* A compilation starts on a body that says what was supplied.
LEMMA StartSupplies ==
    ASSUME ComposingInv, SuppliedInv, Starting
    PROVE  SuppliedInv'
<1>1. PICK rep, new, from : Started(rep, new, from)
  BY DEF Starting
<1>2. /\ Begin(rep, new, from) /\ ComposingInv' /\ Taken' /\ Followed'
  BY <1>1, BeginKeeps DEF Started
<1>3. /\ body' = body /\ desired' = desired /\ draft' = body /\ supplied' = supplied
      /\ bindings' = ResolveBindings(body, desired, rep)
      /\ todo' = Pairs(MergeEffective(desired, new, from), rep)
      /\ drop' = {s \in bindings' : <<s.name, s.radio>> \notin todo'}
      /\ request' = new /\ copies' = from /\ reported' = rep
  BY <1>2 DEF Begin, stored
<1>4. Effective' = MergeEffective(desired, new, from)
  <2>1. Effective' = MergeEffective(desired', request', copies')
    BY DEF Effective
  <2> QED
    BY <1>3, <2>1
<1>5. Wanted' = todo'
  <2>1. Wanted' = Pairs(Effective', reported')
    BY DEF Wanted
  <2> QED
    BY <1>3, <1>4, <2>1
<1>6. BodySays
  BY DEF SuppliedInv
<1>7. BodySays'
  BY <1>3, <1>6 DEF BodySays
<1>8. SourcesStay'
  BY <1>1, <1>3 DEF Started, SourcesStay
<1>9. ComposedSay'
  <2>1. Wanted' \ todo' = {}
    BY <1>5
  <2> QED
    BY <2>1 DEF ComposedSay
<1>10. UncomposedSay'
  <2>1. ASSUME NEW s \in bindings'
        PROVE  Holds(draft'.aaa[s.aaa], desired'[s.name], supplied'[s.name])
    <3>1. IsBinding(body, desired, rep, s)
      BY <1>3, BindingsAre
    <3>2. s.name \in DOMAIN desired /\ s.radio \in UNION desired[s.name].radios
      BY <3>1 DEF IsBinding, Selected
    <3>3. Shows(body, s.name, s.radio, desired[s.name], supplied[s.name])
      BY <1>6, <3>2 DEF BodySays
    <3>4. Holds(body.aaa[s.aaa], desired[s.name], supplied[s.name])
      BY <3>1, <3>3 DEF Shows, IsBinding
    <3> QED
      BY <1>3, <3>4
  <2>2. ASSUME NEW s \in bindings', PairOf(s) \notin Wanted' PROVE s \in drop'
    BY <1>3, <1>5, <2>2 DEF PairOf
  <2>3. \A s \in bindings' :
           /\ PairOf(s) \in todo' \/ PairOf(s) \notin Wanted' =>
                 Holds(draft'.aaa[s.aaa], desired'[s.name], supplied'[s.name])
           /\ PairOf(s) \notin Wanted' => s \in drop'
    BY <2>1, <2>2
  <2> QED
    BY <2>3 DEF UncomposedSay
<1> QED
  BY <1>7, <1>8, <1>9, <1>10 DEF SuppliedInv

\* What is committed says what was supplied.
LEMMA FinishSupplies ==
    ASSUME ComposingInv, SuppliedInv, Finish
    PROVE  SuppliedInv'
<1>1. /\ pc = "compose" /\ todo = {} /\ body' = draft /\ desired' = Effective /\ pc' = "idle"
      /\ supplied' = [w \in Name |->
            IF w \notin DOMAIN request THEN {}
            ELSE FieldsOf(request[w]) \cup supplied[IF w \in DOMAIN copies THEN copies[w] ELSE w]]
  BY DEF Finish, Composing
<1>2. TypeOK /\ Taken /\ ComposedSay
  BY <1>1 DEF ComposingInv, SuppliedInv
<1>3. Effective \in APConfig /\ DOMAIN Effective = DOMAIN request
  BY <1>2, EffectiveIs
<1>4. ASSUME NEW w \in DOMAIN Effective, NEW r \in UNION Effective[w].radios
      PROVE  Shows(draft, w, r, Effective[w], supplied'[w])
  <2>1. Selected(Effective[w], reported) # {}
    BY <1>2, <1>3 DEF Taken
  <2>2. r \in Selected(Effective[w], reported)
    BY <2>1 DEF Selected
  <2>3. <<w, r>> \in Wanted
    BY <2>2, PairsAre DEF Wanted
  <2>4. Shows(draft, <<w, r>>[1], <<w, r>>[2], Effective[<<w, r>>[1]], SuppliedNext(<<w, r>>[1]))
    BY <1>1, <1>2, <2>3 DEF ComposedSay
  <2>5. w \in Name
    BY <1>3, ConfigIs
  <2>6. supplied'[w] = SuppliedNext(w)
    BY <1>1, <1>3, <2>5 DEF SuppliedNext, Origin
  <2> QED
    BY <2>4, <2>6
<1>5. \A w \in DOMAIN desired' : \A r \in UNION desired'[w].radios :
         Shows(body', w, r, desired'[w], supplied'[w])
  BY <1>1, <1>4
<1>6. BodySays'
  BY <1>5 DEF BodySays
<1> QED
  BY <1>1, <1>6 DEF SuppliedInv

\* Nothing was supplied yet for the WLANs of an import.
LEMMA NothingSupplied ==
    ASSUME NEW b, NEW c, c \in APConfig, NEW sup, sup = [w \in Name |-> {}]
    PROVE  \A w \in DOMAIN c : \A r \in UNION c[w].radios : Shows(b, w, r, c[w], sup[w])
<1>1. \A w \in DOMAIN c : sup[w] = {}
  BY ConfigIs
<1> QED
  BY <1>1 DEF Shows, Holds

\* Every step keeps what was supplied in the body.
LEMMA SuppliedSteps == ComposingInv /\ SuppliedInv /\ [Next]_vars => SuppliedInv'
<1> SUFFICES ASSUME ComposingInv, SuppliedInv, [Next]_vars PROVE SuppliedInv'
  OBVIOUS
<1>1. CASE Starting
  BY <1>1, StartSupplies
<1>2. ASSUME NEW rep \in Report, NEW b \in Baseline, ImportBaseline(rep, b) PROVE SuppliedInv'
  <2>1. body' = b.body /\ desired' = b.desired /\ pc' = "idle" /\ supplied' = [w \in Name |-> {}]
    BY <1>2 DEF ImportBaseline
  <2>2. b.desired \in APConfig
    BY BaselineAssumption
  <2>3. \A w \in DOMAIN b.desired : \A r \in UNION b.desired[w].radios :
           Shows(b.body, w, r, b.desired[w], supplied'[w])
    BY <2>1, <2>2, NothingSupplied
  <2>4. BodySays'
    BY <2>1, <2>3 DEF BodySays
  <2> QED
    BY <2>1, <2>4 DEF SuppliedInv
<1>3. CASE Compose
  BY <1>3, ComposeSupplies
<1>4. CASE RemoveMember
  BY <1>4, RemoveMemberSupplies
<1>5. CASE Finish
  BY <1>5, FinishSupplies
<1>6. CASE Reject
  <2>1. body' = body /\ desired' = desired /\ supplied' = supplied /\ pc' = "idle"
    BY <1>6 DEF Reject, stored
  <2>2. BodySays'
    BY <2>1 DEF SuppliedInv, BodySays
  <2> QED
    BY <2>1, <2>2 DEF SuppliedInv
<1>7. CASE UNCHANGED vars
  <2>1. /\ body' = body /\ desired' = desired /\ pc' = pc /\ draft' = draft
        /\ reported' = reported /\ request' = request /\ copies' = copies /\ bindings' = bindings
        /\ todo' = todo /\ drop' = drop /\ supplied' = supplied
    BY <1>7 DEF vars, stored, call, history
  <2>2. Effective' = Effective
    <3>1. Effective' = MergeEffective(desired', request', copies')
      BY DEF Effective
    <3> QED
      BY <2>1, <3>1 DEF Effective
  <2>3. Wanted' = Wanted
    <3>1. Wanted' = Pairs(Effective', reported')
      BY DEF Wanted
    <3> QED
      BY <2>1, <2>2, <3>1 DEF Wanted
  <2>4. \A w : SuppliedNext(w)' = SuppliedNext(w)
    BY <2>1 DEF SuppliedNext, Origin
  <2>5. BodySays' /\ (SourcesStay => SourcesStay')
    BY <2>1 DEF SuppliedInv, BodySays, SourcesStay
  <2>6. ComposedSay => ComposedSay'
    BY <2>1, <2>2, <2>3, <2>4 DEF ComposedSay
  <2>7. UncomposedSay => UncomposedSay'
    BY <2>1, <2>3 DEF UncomposedSay
  <2> QED
    BY <2>1, <2>5, <2>6, <2>7 DEF SuppliedInv
<1> QED
  BY <1>1, <1>2, <1>3, <1>4, <1>5, <1>6, <1>7, NextIs

\* In every state the body, and the draft for the WLANs that are done, say what
\* requests supplied (compiler.go: overlayWiFi).
THEOREM SuppliedIsKept == Spec => []SuppliedInv
<1>1. Init => SuppliedInv
  <2> SUFFICES ASSUME Init PROVE SuppliedInv
    OBVIOUS
  <2>1. pc = "idle" /\ supplied = [w \in Name |-> {}]
    BY DEF Init
  <2>2. desired \in APConfig
    BY InitComposing DEF ComposingInv, TypeOK
  <2>3. BodySays
    BY <2>1, <2>2, NothingSupplied DEF BodySays
  <2> QED
    BY <2>1, <2>3 DEF SuppliedInv
<1>2. ComposingInv /\ SuppliedInv /\ [Next]_vars => SuppliedInv'
  BY SuppliedSteps
<1> QED
  BY <1>1, <1>2, ComposingIsKept, PTL DEF Spec

\* What requests supplied for the owned WLANs, now or earlier, is what the body
\* says on every radio they select (compiler.go: overlayWiFi, addWiFi,
\* mergeEffectiveConfig).
THEOREM SuppliedStaysComposed == Spec => []SuppliedIsComposed
<1>1. ComposingInv /\ SuppliedInv => SuppliedIsComposed
  <2> SUFFICES ASSUME ComposingInv, SuppliedInv, NEW w \in DOMAIN desired,
                      NEW r \in UNION desired[w].radios, NEW s \in ResolveWiFi(body, w, r)
               PROVE  /\ "policy" \in supplied[w] => body.aaa[s.aaa].policy \in desired[w].policy
                      /\ "vlan" \in supplied[w] =>
                            \E v \in desired[w].vlan :
                                body.aaa[s.aaa].br = Br(v) /\ Cardinality(s.member) = 1
    BY DEF SuppliedIsComposed
  <2>1. Holds(body.aaa[s.aaa], desired[w], supplied[w])
    BY DEF SuppliedInv, BodySays, Shows
  <2>2. Bound(body, s) /\ s.member = Members(body, body.wireless[s.wireless].dev)
    BY ResolvedIs DEF IsResolved, Current
  <2>3. s.aaa \in DOMAIN body.aaa /\ body.aaa[s.aaa].dev = body.wireless[s.wireless].dev
    BY <2>2 DEF Bound
  <2>4. Cardinality(s.member) = 1
    BY <2>2, <2>3, HomeIsOne DEF ComposingInv, MemberOf
  <2> QED
    BY <2>1, <2>4 DEF Holds
<1> QED
  BY <1>1, ComposingIsKept, SuppliedIsKept, PTL

-------------------------------------------------------------------------------
(* A request that is repeated *)

\* The request that was committed last is met by what is stored.
LastIsMet ==
    \A q \in last :
        /\ DOMAIN q = DOMAIN desired
        /\ \A w \in DOMAIN q : /\ FieldsOf(q[w]) \subseteq supplied[w]
                               /\ MergeWiFi(desired[w], q[w]) = desired[w]

\* A request that is repeated asks for what is stored, and nothing has changed.
NothingChanges ==
    /\ draft = body /\ drop = {} /\ Effective = desired /\ copies = Nothing
    /\ \A w \in DOMAIN request : FieldsOf(request[w]) \subseteq supplied[w]

RepeatInv == LastIsMet /\ (repeat => NothingChanges)

\* Supplying a field twice is supplying it once.
LEMMA MergeTwice ==
    ASSUME NEW f, f \in WiFiNetwork, NEW g, g \in WiFiNetwork
    PROVE  MergeWiFi(MergeWiFi(f, g), g) = MergeWiFi(f, g) /\ MergeWiFi(g, g) = g
BY DEF MergeWiFi, WiFiNetwork

\* A policy that is set to what it is changes nothing.
LEMMA SamePolicy ==
    ASSUME NEW b, Body(b), NEW a, a \in DOMAIN b.aaa, NEW p, p = b.aaa[a].policy
    PROVE  [b EXCEPT !.aaa[a].policy = p] = b
<1>1. Shape(b) /\ Numbered(b.aaa, AAARecord)
  BY BodyParts
<1>2. b.aaa \in [DOMAIN b.aaa -> AAARecord]
  BY <1>1 DEF Numbered
<1>3. b.aaa[a] \in AAARecord
  BY <1>2
<1> DEFINE x == [b.aaa[a] EXCEPT !.policy = p]
<1>4. x = b.aaa[a]
  BY <1>3 DEF AAARecord
<1> HIDE DEF x
<1> DEFINE f == [b.aaa EXCEPT ![a] = x]
<1>5. f = b.aaa
  BY <1>2, <1>4
<1> HIDE DEF f
<1>6. [b EXCEPT !.aaa = f] = b
  BY <1>1, <1>5 DEF Shape
<1> QED
  BY <1>6 DEF f, x

\* Overlaying what a record says already changes nothing.
LEMMA OverlayOfSame ==
    ASSUME NEW b, Body(b), NEW w, NEW a, a \in DOMAIN b.aaa, NEW f, f \in WiFiNetwork,
           Holds(b.aaa[a], f, FieldsOf(f)), NEW c, c \in OverlayWiFi(b, w, a, f)
    PROVE  c = b
<1>1. /\ f.policy # {} => b.aaa[a].policy \in f.policy
      /\ f.vlan # {} => \E v \in f.vlan : b.aaa[a].br = Br(v)
  BY DEF Holds, FieldsOf
<1>2. (\A x, y \in f.policy : x = y) /\ (\A x, y \in f.vlan : x = y)
  BY FieldsAre
<1> DEFINE q == CHOOSE p \in f.policy : TRUE
           e == IF f.policy = {} THEN b ELSE [b EXCEPT !.aaa[a].policy = q]
<1>3. e = b
  <2>1. f.policy # {} => q = b.aaa[a].policy
    BY <1>1, <1>2
  <2> HIDE DEF q
  <2> QED
    BY <2>1, SamePolicy
<1>4. c \in (IF f.vlan = {} THEN {e} ELSE UNION {AssignBridge(e, w, a, v) : v \in f.vlan})
  BY DEF OverlayWiFi
<1> HIDE DEF e
<1>5. CASE f.vlan = {}
  BY <1>3, <1>4, <1>5
<1>6. CASE f.vlan # {}
  <2>1. PICK v \in f.vlan : c \in AssignBridge(b, w, a, v)
    BY <1>3, <1>4, <1>6
  <2>2. b.aaa[a].br = Br(v)
    BY <1>1, <1>2, <1>6
  <2> QED
    BY <2>1, <2>2 DEF AssignBridge
<1> QED
  BY <1>5, <1>6

\* Composing a WLAN of a repeated request changes nothing.
LEMMA ComposeRepeats ==
    ASSUME ComposingInv, SuppliedInv, RepeatInv, Compose
    PROVE  RepeatInv'
<1> DEFINE x == First(todo)
<1>1. /\ ComposedIs(draft, draft', x) /\ x \in todo /\ Continues /\ TypeOK /\ Taken
      /\ pc = "compose" /\ Effective' = Effective /\ WholeBody(body) /\ drop' = drop
  BY ComposeKeeps DEF ComposingInv, Compose
<1> HIDE DEF x
<1>2. /\ body' = body /\ desired' = desired /\ supplied' = supplied /\ last' = last
      /\ repeat' = repeat /\ copies' = copies /\ request' = request
  BY <1>1 DEF Continues
<1>3. LastIsMet'
  BY <1>2 DEF RepeatInv, LastIsMet
<1>4. ASSUME repeat PROVE draft' = draft
  <2>1. NothingChanges
    BY <1>4 DEF RepeatInv
  <2>2. x \in Pairs(desired, reported) /\ x[1] \in DOMAIN request
    BY <1>1, <2>1, WantedType DEF Taken, Wanted, NothingChanges
  <2>3. ResolveWiFi(body, x[1], x[2]) # {}
    BY <1>1, <2>2 DEF Taken, Resolves
  <2>4. PICK u : u \in ResolveWiFi(body, x[1], x[2])
    BY <2>3
  <2>5. u \in bindings /\ u.name = x[1] /\ u.radio = x[2]
    BY <1>1, <2>2, <2>4, ResolvedIs DEF Taken, ResolveBindings, IsResolved
  <2>6. PICK n, a : \E s \in bindings :
                 /\ s.name = x[1] /\ s.radio = x[2] /\ n = s.wireless /\ a = s.aaa
                 /\ draft' \in OverlayWiFi(draft, n, a, request[x[1]])
    BY <1>1, <2>5 DEF ComposedIs
  <2>7. PICK s \in bindings :
                 /\ s.name = x[1] /\ s.radio = x[2] /\ n = s.wireless /\ a = s.aaa
                 /\ draft' \in OverlayWiFi(draft, n, a, request[x[1]])
    BY <2>6
  <2>8. IsBinding(body, desired, reported, s)
    BY <1>1, <2>7, BindingsAre DEF Taken
  <2>9. x[1] \in DOMAIN desired /\ x[2] \in UNION desired[x[1]].radios
    BY <2>7, <2>8 DEF IsBinding, Selected
  <2>10. Shows(body, x[1], x[2], desired[x[1]], supplied[x[1]])
    BY <2>9 DEF SuppliedInv, BodySays
  <2>11. s \in ResolveWiFi(body, x[1], x[2])
    BY <2>7, <2>8 DEF IsBinding
  <2>12. Holds(body.aaa[a], desired[x[1]], supplied[x[1]])
    BY <2>7, <2>10, <2>11 DEF Shows
  <2>13. a \in DOMAIN body.aaa
    BY <2>7, <2>11, ResolvedIs DEF IsResolved, Current, Bound
  <2> DEFINE f == request[x[1]]
  <2>14. /\ f.policy # {} => desired[x[1]].policy = f.policy
         /\ f.vlan # {} => desired[x[1]].vlan = f.vlan
    BY <1>1, <2>1, <2>2, RequestIsEffective DEF NothingChanges
  <2>15. f \in WiFiNetwork
    BY <1>1, <2>2, ConfigIs DEF TypeOK
  <2>16. FieldsOf(f) \subseteq supplied[x[1]]
    BY <2>1, <2>2 DEF NothingChanges
  <2>17. draft = body /\ draft' \in OverlayWiFi(draft, n, a, f)
    BY <2>1, <2>7 DEF NothingChanges
  <2> HIDE DEF f
  <2>18. Holds(body.aaa[a], f, FieldsOf(f))
    BY <2>12, <2>14, <2>16 DEF Holds, FieldsOf
  <2> QED
    BY <1>1, <2>13, <2>15, <2>17, <2>18, OverlayOfSame DEF WholeBody
<1>5. repeat' => NothingChanges'
  BY <1>1, <1>2, <1>4 DEF RepeatInv, NothingChanges, Nothing
<1> QED
  BY <1>3, <1>5 DEF RepeatInv

\* A request that was committed last starts without a change to make.
LEMMA StartRepeats ==
    ASSUME ComposingInv, RepeatInv, Starting
    PROVE  RepeatInv'
<1>1. PICK rep, new, from : Started(rep, new, from)
  BY DEF Starting
<1>2. /\ Begin(rep, new, from) /\ new \in APConfig /\ desired \in APConfig
  BY <1>1 DEF Started, ComposingInv, TypeOK
<1>3. /\ body' = body /\ desired' = desired /\ draft' = body /\ supplied' = supplied
      /\ drop' = {s \in ResolveBindings(body, desired, rep) :
                     <<s.name, s.radio>> \notin Pairs(MergeEffective(desired, new, from), rep)}
      /\ request' = new /\ copies' = from /\ last' = {}
      /\ repeat' = (new \in last /\ from = Nothing)
  BY <1>2 DEF Begin, stored
<1>4. Effective' = MergeEffective(desired, new, from)
  <2>1. Effective' = MergeEffective(desired', request', copies')
    BY DEF Effective
  <2> QED
    BY <1>3, <2>1
<1>5. LastIsMet'
  BY <1>3 DEF LastIsMet
<1>6. ASSUME repeat' PROVE NothingChanges'
  <2>1. new \in last /\ from = Nothing
    BY <1>3, <1>6
  <2>2. /\ DOMAIN new = DOMAIN desired
        /\ \A w \in DOMAIN new : /\ FieldsOf(new[w]) \subseteq supplied[w]
                                 /\ MergeWiFi(desired[w], new[w]) = desired[w]
    BY <2>1 DEF RepeatInv, LastIsMet
  <2>3. DOMAIN from = {}
    BY <2>1, NothingIs
  <2> DEFINE e == MergeEffective(desired, new, from)
  <2>4. /\ e \in APConfig /\ DOMAIN e = DOMAIN new
        /\ \A w \in DOMAIN new : MergedFrom(desired, new, from, w, e[w])
    BY <1>2, <2>3, MergeEffectiveIs
  <2> HIDE DEF e
  <2>5. \A w \in DOMAIN new : e[w] = desired[w]
    BY <2>2, <2>3, <2>4 DEF MergedFrom
  <2>6. e = desired
    <3>1. e = [w \in DOMAIN e |-> e[w]] /\ desired = [w \in DOMAIN desired |-> desired[w]]
      BY <1>2, <2>4, ConfigIs
    <3>2. [w \in DOMAIN e |-> e[w]] = [w \in DOMAIN desired |-> desired[w]]
      BY <2>2, <2>4, <2>5
    <3> QED
      BY <3>1, <3>2
  <2>7. drop' = {}
    <3>1. \A s \in ResolveBindings(body, desired, rep) : <<s.name, s.radio>> \in Pairs(desired, rep)
      BY BindingsAre, PairsAre DEF IsBinding
    <3> QED
      BY <1>3, <2>6, <3>1 DEF e
  <2>8. Effective' = desired'
    BY <1>3, <1>4, <2>6 DEF e
  <2>9. \A w \in DOMAIN request' : FieldsOf(request'[w]) \subseteq supplied'[w]
    BY <1>3, <2>2
  <2>10. copies' = Nothing'
    BY <1>3, <2>1 DEF Nothing
  <2> QED
    BY <1>3, <2>7, <2>8, <2>9, <2>10 DEF NothingChanges
<1> QED
  BY <1>5, <1>6 DEF RepeatInv

\* A request is met by what it stores.
LEMMA FinishRepeats ==
    ASSUME ComposingInv, Finish
    PROVE  RepeatInv'
<1>1. /\ pc = "compose" /\ desired' = Effective /\ last' = {request} /\ repeat' = FALSE
      /\ supplied' = [w \in Name |->
            IF w \notin DOMAIN request THEN {}
            ELSE FieldsOf(request[w]) \cup supplied[IF w \in DOMAIN copies THEN copies[w] ELSE w]]
  BY DEF Finish
<1>2. TypeOK /\ Taken
  BY <1>1 DEF ComposingInv
<1>3. /\ Effective \in APConfig /\ DOMAIN Effective = DOMAIN request
      /\ \A w \in DOMAIN request : MergedFrom(desired, request, copies, w, Effective[w])
  BY <1>2, EffectiveIs
<1>4. ASSUME NEW w \in DOMAIN request
      PROVE  FieldsOf(request[w]) \subseteq supplied'[w] /\ MergeWiFi(Effective[w], request[w]) = Effective[w]
  <2>1. request[w] \in WiFiNetwork /\ \A y \in DOMAIN desired : desired[y] \in WiFiNetwork
    BY <1>2, ConfigIs DEF TypeOK
  <2>2. w \in Name
    BY <1>2, ConfigIs DEF TypeOK
  <2>3. FieldsOf(request[w]) \subseteq supplied'[w]
    BY <1>1, <2>2
  <2>4. MergedFrom(desired, request, copies, w, Effective[w])
    BY <1>3
  <2>5. CASE w \in DOMAIN copies
    <3>1. desired[copies[w]] \in WiFiNetwork /\ Effective[w] = MergeWiFi(desired[copies[w]], request[w])
      BY <1>2, <2>1, <2>4, <2>5 DEF MergedFrom, Taken
    <3> QED
      BY <2>1, <2>3, <3>1, MergeTwice
  <2>6. CASE w \notin DOMAIN copies /\ w \in DOMAIN desired
    <3>1. Effective[w] = MergeWiFi(desired[w], request[w])
      BY <2>4, <2>6 DEF MergedFrom
    <3> QED
      BY <2>1, <2>3, <2>6, <3>1, MergeTwice
  <2>7. CASE w \notin DOMAIN copies /\ w \notin DOMAIN desired
    <3>1. Effective[w] = request[w]
      BY <2>4, <2>7 DEF MergedFrom
    <3> QED
      BY <2>1, <2>3, <3>1, MergeTwice
  <2> QED
    BY <2>5, <2>6, <2>7
<1>5. \A q \in last' :
         /\ DOMAIN q = DOMAIN desired'
         /\ \A w \in DOMAIN q : /\ FieldsOf(q[w]) \subseteq supplied'[w]
                                /\ MergeWiFi(desired'[w], q[w]) = desired'[w]
  BY <1>1, <1>3, <1>4
<1>6. LastIsMet'
  BY <1>5 DEF LastIsMet
<1> QED
  BY <1>1, <1>6 DEF RepeatInv

\* Every step keeps a repeated request without effect.
LEMMA RepeatSteps == ComposingInv /\ SuppliedInv /\ RepeatInv /\ [Next]_vars => RepeatInv'
<1> SUFFICES ASSUME ComposingInv, SuppliedInv, RepeatInv, [Next]_vars PROVE RepeatInv'
  OBVIOUS
<1>1. CASE Starting
  BY <1>1, StartRepeats
<1>2. ASSUME NEW rep \in Report, NEW b \in Baseline, ImportBaseline(rep, b) PROVE RepeatInv'
  <2>1. last' = {} /\ repeat' = repeat /\ pc = "idle"
    BY <1>2 DEF ImportBaseline
  <2>2. repeat = FALSE
    BY <2>1 DEF ComposingInv, Resting
  <2> QED
    BY <2>1, <2>2 DEF RepeatInv, LastIsMet
<1>3. CASE Compose
  BY <1>3, ComposeRepeats
<1>4. CASE RemoveMember
  <2>1. drop # {} /\ Continues
    BY <1>4 DEF RemoveMember, Continues, call, stored, history
  <2>2. repeat = FALSE
    BY <2>1 DEF RepeatInv, NothingChanges, ComposingInv, TypeOK
  <2> QED
    BY <2>1, <2>2 DEF RepeatInv, LastIsMet, Continues
<1>5. CASE Finish
  BY <1>5, FinishRepeats
<1>6. CASE Reject
  <2>1. last' = last /\ desired' = desired /\ supplied' = supplied /\ repeat' = FALSE
    BY <1>6 DEF Reject, stored
  <2> QED
    BY <2>1 DEF RepeatInv, LastIsMet
<1>7. CASE UNCHANGED vars
  <2>1. /\ body' = body /\ desired' = desired /\ draft' = draft /\ request' = request
        /\ copies' = copies /\ drop' = drop /\ supplied' = supplied /\ last' = last /\ repeat' = repeat
    BY <1>7 DEF vars, stored, call, history
  <2>2. Effective' = Effective
    <3>1. Effective' = MergeEffective(desired', request', copies')
      BY DEF Effective
    <3> QED
      BY <2>1, <3>1 DEF Effective
  <2>3. LastIsMet => LastIsMet'
    BY <2>1 DEF LastIsMet
  <2>4. NothingChanges => NothingChanges'
    BY <2>1, <2>2 DEF NothingChanges, Nothing
  <2> QED
    BY <2>1, <2>3, <2>4 DEF RepeatInv
<1> QED
  BY <1>1, <1>2, <1>3, <1>4, <1>5, <1>6, <1>7, NextIs

\* In every state the request that was committed last is met, and while it is
\* repeated the draft is the stored body (compiler.go: overlayWiFi).
THEOREM RepeatIsKept == Spec => []RepeatInv
<1>1. Init => RepeatInv
  BY DEF Init, RepeatInv, LastIsMet
<1>2. ComposingInv /\ SuppliedInv /\ RepeatInv /\ [Next]_vars => RepeatInv'
  BY RepeatSteps
<1> QED
  BY <1>1, <1>2, ComposingIsKept, SuppliedIsKept, PTL DEF Spec

\* A request that was committed last changes nothing when it is applied again
\* (compiler.go: overlayWiFi, assignBridge).
THEOREM ReapplyStaysStable == Spec => ReapplyIsStable
<1>1. RepeatInv => (Finish /\ repeat => UNCHANGED stored)
  BY DEF RepeatInv, NothingChanges, Finish, stored
<1> QED
  BY <1>1, RepeatIsKept, PTL DEF ReapplyIsStable

===============================================================================
