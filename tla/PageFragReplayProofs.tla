------------------------ MODULE PageFragReplayProofs ------------------------
(***************************************************************************)
(* Proofs about PageFragReplay.  The replay drives PageFrag, so everything *)
(* proved there holds here.  The totals are folds over sets of pages;      *)
(* folds are reasoned about by the least counterexample, stated for sets   *)
(* of subsets (SetInduction) and not for operators.                        *)
(***************************************************************************)
EXTENDS PageFragReplay, PageFragProofs, WellFoundedInduction

-----------------------------------------------------------------------------
(* Folds over finite sets, by the least counterexample *)

LEMMA LeastNat ==
    ASSUME NEW T \in SUBSET Nat, T # {}
    PROVE  \E n \in T : \A m \in T : n <= m
<1> DEFINE R == {ss \in Nat \X Nat : ss[1] < ss[2]}
<1>1. OpToRel(<, Nat) = R
    BY Zenon DEF OpToRel
<1>2. IsWellFoundedOn(R, Nat)
    BY <1>1, NatLessThanWellFounded
<1> HIDE DEF R
<1>3. PICK n \in T : \A m \in T : ~(<<m, n>> \in R)
    BY <1>2, WFMin
<1>4. ASSUME NEW m \in T PROVE n <= m
    <2>1. m \in Nat /\ n \in Nat /\ (m < n => <<m, n>> \in R)
        BY DEF R
    <2>2. QED
        BY <1>3, <2>1
<1>5. QED
    BY <1>4

(* What FoldSet and MapThenSumSet take next *)
Pick(s) == CHOOSE x \in s : TRUE
Rest(s) == s \ {Pick(s)}

LEMMA PickOne ==
    ASSUME NEW s, s # {}
    PROVE  Pick(s) \in s
BY Zenon DEF Pick

LEMMA RestSmaller ==
    ASSUME NEW S, IsFiniteSet(S), NEW s \in SUBSET S
    PROVE  /\ IsFiniteSet(s) /\ Cardinality(s) \in Nat /\ Cardinality(s) <= Cardinality(S)
           /\ s = {} <=> Cardinality(s) = 0
           /\ s # {} => Pick(s) \in s /\ Pick(s) \in S /\ Rest(s) \in SUBSET S
                        /\ Cardinality(Rest(s)) = Cardinality(s) - 1
           /\ \A x \in s : s \ {x} \in SUBSET S /\ Cardinality(s \ {x}) = Cardinality(s) - 1
<1>1. IsFiniteSet(s) /\ Cardinality(s) <= Cardinality(S) /\ Cardinality(s) \in Nat
    BY FS_Subset, FS_CardinalityType
<1>2. s = {} <=> Cardinality(s) = 0
    BY <1>1, FS_EmptySet
<1>3. \A x \in s : s \ {x} \in SUBSET S /\ Cardinality(s \ {x}) = Cardinality(s) - 1
    BY <1>1, FS_RemoveElement
<1>4. QED
    BY <1>1, <1>2, <1>3, PickOne DEF Rest

(* g is the fold of h from base over the subsets of S *)
Folded(S, V, base, h, g) ==
    \A s \in SUBSET S :
        /\ g[s] \in V
        /\ s = {} => g[s] = base
        /\ s # {} => g[s] = h[<<Pick(s), g[Rest(s)]>>]

(* A recursion that follows h keeps to V *)
LEMMA FoldTyped ==
    ASSUME NEW S, IsFiniteSet(S), NEW V, NEW base \in V, NEW h \in [S \X V -> V], NEW g,
           g[{}] = base,
           \A s \in SUBSET S : s # {} /\ g[Rest(s)] \in V => g[s] = h[<<Pick(s), g[Rest(s)]>>]
    PROVE  Folded(S, V, base, h, g)
<1> DEFINE T == {n \in Nat : \E s \in SUBSET S : Cardinality(s) = n /\ g[s] \notin V}
<1>1. T = {}
    <2> SUFFICES ASSUME T # {} PROVE FALSE
        OBVIOUS
    <2>1. PICK n \in T : \A m \in T : n <= m
        BY LeastNat
    <2>2. PICK s \in SUBSET S : Cardinality(s) = n /\ g[s] \notin V
        BY <2>1
    <2>3. s # {}
        BY <2>2
    <2>4. Rest(s) \in SUBSET S /\ Cardinality(Rest(s)) = n - 1 /\ Pick(s) \in S
          /\ n \in Nat /\ n # 0
        BY <2>2, <2>3, RestSmaller
    <2>5. g[Rest(s)] \in V
        <3>1. n - 1 \notin T /\ n - 1 \in Nat
            BY <2>1, <2>4
        <3>2. QED
            BY <2>4, <3>1
    <2>6. QED
        BY <2>2, <2>3, <2>4, <2>5
<1>2. ASSUME NEW s \in SUBSET S PROVE g[s] \in V
    BY <1>1, RestSmaller
<1>3. ASSUME NEW s \in SUBSET S, s # {} PROVE g[s] = h[<<Pick(s), g[Rest(s)]>>]
    BY <1>2, <1>3, RestSmaller
<1>4. QED
    BY <1>2, <1>3 DEF Folded

(* The recursion has a solution *)
LEMMA FoldExists ==
    ASSUME NEW S, IsFiniteSet(S), NEW V, NEW base \in V, NEW h \in [S \X V -> V]
    PROVE  \E g \in [SUBSET S -> V] : Folded(S, V, base, h, g)
<1> DEFINE Dom(n) == {s \in SUBSET S : Cardinality(s) <= n}
           Part(n, g) == /\ g \in [Dom(n) -> V] /\ g[{}] = base
                         /\ \A s \in Dom(n) : s # {} => g[s] = h[<<Pick(s), g[Rest(s)]>>]
           T == {n \in Nat : ~\E g : Part(n, g)}
<1>1. T = {}
    <2> SUFFICES ASSUME T # {} PROVE FALSE
        OBVIOUS
    <2>1. PICK n \in T : \A m \in T : n <= m
        BY LeastNat
    <2>2. n \in Nat /\ ~\E g : Part(n, g)
        OBVIOUS
    <2>3. CASE n = 0
        <3> DEFINE g == [s \in Dom(n) |-> base]
        <3>1. \A s \in Dom(n) : s = {}
            BY <2>3, RestSmaller
        <3>2. {} \in Dom(n)
            BY <2>3, FS_EmptySet
        <3>3. Part(n, g)
            BY <3>1, <3>2
        <3>4. QED
            BY <2>2, <3>3
    <2>4. CASE n # 0
        <3>1. n - 1 \in Nat /\ n - 1 \notin T
            <4> HIDE DEF T
            <4>1. QED
                BY <2>1, <2>2, <2>4
        <3>2. PICK f : Part(n - 1, f)
            BY <3>1
        <3> DEFINE g == [s \in Dom(n) |-> IF s = {} THEN base ELSE h[<<Pick(s), f[Rest(s)]>>]]
        <3>3. {} \in Dom(n) /\ Dom(n - 1) \subseteq Dom(n)
            BY <2>2, FS_EmptySet, RestSmaller
        <3>4. ASSUME NEW s \in Dom(n), s # {}
              PROVE  Pick(s) \in S /\ Rest(s) \in Dom(n - 1) /\ f[Rest(s)] \in V
            <4>1. Pick(s) \in S /\ Rest(s) \in SUBSET S /\ Cardinality(s) \in Nat
                  /\ Cardinality(Rest(s)) = Cardinality(s) - 1
                BY <3>4, RestSmaller
            <4>2. Rest(s) \in Dom(n - 1)
                BY <2>2, <4>1
            <4>3. QED
                BY <3>2, <4>1, <4>2
        <3>5. g \in [Dom(n) -> V] /\ g[{}] = base
            BY <3>3, <3>4
        <3>6. ASSUME NEW s \in Dom(n - 1) PROVE g[s] = f[s]
            BY <3>2, <3>3
        <3>7. ASSUME NEW s \in Dom(n), s # {} PROVE g[s] = h[<<Pick(s), g[Rest(s)]>>]
            BY <3>4, <3>6, <3>7
        <3>8. Part(n, g)
            BY <3>5, <3>7
        <3>9. QED
            BY <2>2, <3>8
    <2>5. QED
        BY <2>3, <2>4
<1>2. Cardinality(S) \in Nat
    BY FS_CardinalityType
<1>3. PICK g : Part(Cardinality(S), g)
    BY <1>1, <1>2
<1>4. Dom(Cardinality(S)) = SUBSET S
    BY RestSmaller
<1>5. g \in [SUBSET S -> V] /\ g[{}] = base
      /\ \A s \in SUBSET S : s # {} => g[s] = h[<<Pick(s), g[Rest(s)]>>]
    BY <1>3, <1>4
<1>6. QED
    BY <1>5, FoldTyped

(* Two folds whose steps agree on Q agree on the subsets of Q *)
LEMMA FoldSame ==
    ASSUME NEW S, IsFiniteSet(S), NEW V, NEW base \in V,
           NEW h, NEW k, NEW g, NEW f, Folded(S, V, base, h, g), Folded(S, V, base, k, f),
           NEW Q \in SUBSET S, \A x \in Q, v \in V : h[<<x, v>>] = k[<<x, v>>],
           NEW q \in SUBSET Q
    PROVE  g[q] = f[q]
<1> DEFINE T == {n \in Nat : \E s \in SUBSET Q : Cardinality(s) = n /\ g[s] # f[s]}
<1>1. T = {}
    <2> SUFFICES ASSUME T # {} PROVE FALSE
        OBVIOUS
    <2>1. PICK n \in T : \A m \in T : n <= m
        BY LeastNat
    <2>2. PICK s \in SUBSET Q : Cardinality(s) = n /\ g[s] # f[s]
        BY <2>1
    <2>3. s # {} /\ s \in SUBSET S
        BY <2>2 DEF Folded
    <2>4. Rest(s) \in SUBSET Q /\ Cardinality(Rest(s)) = n - 1 /\ Pick(s) \in Q
          /\ n \in Nat /\ n # 0 /\ Rest(s) \in SUBSET S
        BY <2>2, <2>3, RestSmaller DEF Rest
    <2>5. g[Rest(s)] = f[Rest(s)]
        <3>1. n - 1 \notin T /\ n - 1 \in Nat
            BY <2>1, <2>4
        <3>2. QED
            BY <2>4, <3>1
    <2>6. g[s] = h[<<Pick(s), g[Rest(s)]>>] /\ f[s] = k[<<Pick(s), f[Rest(s)]>>] /\ g[Rest(s)] \in V
        BY <2>3, <2>4 DEF Folded
    <2>7. QED
        BY <2>2, <2>4, <2>5, <2>6
<1>2. q \in SUBSET S /\ Cardinality(q) \in Nat
    BY RestSmaller
<1>3. QED
    BY <1>1, <1>2

(* When the steps commute any element may come last *)
LEMMA FoldAny ==
    ASSUME NEW S, IsFiniteSet(S), NEW V, NEW base \in V,
           NEW h, NEW g, Folded(S, V, base, h, g),
           \A x, y \in S, v \in V : h[<<x, h[<<y, v>>]>>] = h[<<y, h[<<x, v>>]>>],
           NEW q \in SUBSET S, NEW z \in q
    PROVE  g[q] = h[<<z, g[q \ {z}]>>]
<1> DEFINE T == {n \in Nat : \E s \in SUBSET S : \E x \in s :
                                Cardinality(s) = n /\ g[s] # h[<<x, g[s \ {x}]>>]}
<1>1. T = {}
    <2> SUFFICES ASSUME T # {} PROVE FALSE
        OBVIOUS
    <2>1. PICK n \in T : \A m \in T : n <= m
        BY LeastNat
    <2>2. PICK s \in SUBSET S : \E x \in s : Cardinality(s) = n /\ g[s] # h[<<x, g[s \ {x}]>>]
        BY <2>1
    <2>3. PICK x \in s : Cardinality(s) = n /\ g[s] # h[<<x, g[s \ {x}]>>]
        BY <2>2
    <2> DEFINE y == Pick(s)
    <2>4. /\ y \in s /\ y \in S /\ x \in S /\ n \in Nat /\ n # 0
          /\ s \ {x} \in SUBSET S /\ Cardinality(s \ {x}) = n - 1
          /\ s \ {y} \in SUBSET S /\ Cardinality(s \ {y}) = n - 1
        BY <2>3, RestSmaller
    <2>5. g[s] = h[<<y, g[s \ {y}]>>]
        BY <2>3 DEF Folded, Rest
    <2> HIDE DEF y
    <2>6. x # y
        BY <2>3, <2>5
    <2>7. n - 1 \in Nat /\ n - 1 \notin T
        <3> HIDE DEF T
        <3>1. QED
            BY <2>1, <2>4
    <2>8. \A t \in SUBSET S, u \in S : Cardinality(t) = n - 1 /\ u \in t => g[t] = h[<<u, g[t \ {u}]>>]
        BY <2>7
    <2> DEFINE r == (s \ {x}) \ {y}
    <2>9. r \in SUBSET S /\ (s \ {y}) \ {x} = r /\ g[r] \in V
        BY <2>4 DEF Folded
    <2> HIDE DEF r
    <2>10. g[s \ {y}] = h[<<x, g[r]>>]
        BY <2>4, <2>6, <2>8, <2>9
    <2>11. g[s \ {x}] = h[<<y, g[r]>>]
        <3>1. (s \ {x}) \ {y} = r
            BY DEF r
        <3>2. QED
            BY <2>4, <2>6, <2>8, <3>1
    <2>12. QED
        BY <2>3, <2>4, <2>5, <2>9, <2>10, <2>11
<1>2. Cardinality(q) \in Nat /\ Cardinality(q) \notin T
    BY <1>1, RestSmaller
<1>3. ~\E s \in SUBSET S : \E x \in s :
            Cardinality(s) = Cardinality(q) /\ g[s] # h[<<x, g[s \ {x}]>>]
    BY <1>2
<1>4. QED
    BY <1>3
(* Induction over the subsets of a finite set *)
LEMMA SetInduction ==
    ASSUME NEW S, IsFiniteSet(S), NEW B, {} \in B,
           \A s \in SUBSET S : s # {} /\ (\A x \in s : s \ {x} \in B) => s \in B
    PROVE  \A s \in SUBSET S : s \in B
<1> DEFINE T == {n \in Nat : \E s \in SUBSET S : Cardinality(s) = n /\ s \notin B}
<1>1. T = {}
    <2> SUFFICES ASSUME T # {} PROVE FALSE
        OBVIOUS
    <2>1. PICK n \in T : \A m \in T : n <= m
        BY LeastNat
    <2>2. PICK s \in SUBSET S : Cardinality(s) = n /\ s \notin B
        BY <2>1
    <2>3. s # {}
        BY <2>2
    <2>4. n \in Nat /\ n - 1 \notin T
        <3> HIDE DEF T
        <3>1. n \in Nat
            BY DEF T
        <3>2. QED
            BY <2>1, <3>1
    <2>5. ASSUME NEW x \in s PROVE s \ {x} \in B
        <3>1. s \ {x} \in SUBSET S /\ Cardinality(s \ {x}) = n - 1 /\ Cardinality(s \ {x}) \in Nat
            BY <2>2, RestSmaller
        <3>2. QED
            BY <2>4, <3>1
    <2>6. QED
        BY <2>2, <2>3, <2>5
<1>2. \A s \in SUBSET S : Cardinality(s) \in Nat
    BY RestSmaller
<1>3. QED
    BY <1>1, <1>2

(* A fold over S is one over each subset of S *)
LEMMA FoldRestrict ==
    ASSUME NEW S, NEW Q \in SUBSET S, NEW V, NEW base, NEW h, NEW g, Folded(S, V, base, h, g)
    PROVE  Folded(Q, V, base, h, g)
BY DEF Folded

-----------------------------------------------------------------------------
(* The totals *)

Counts == [Totals -> Int]

LEMMA PlusMinus ==
    ASSUME NEW a \in Counts, NEW b \in Counts, NEW c \in Counts
    PROVE  /\ Plus(a, b) \in Counts /\ Minus(a, b) \in Counts /\ Zero \in Counts
           /\ Plus(Plus(a, b), c) = Plus(Plus(a, c), b)
           /\ Plus(Plus(a, b), c) = Plus(a, Plus(b, c))
           /\ Minus(Minus(a, b), c) = Minus(Minus(a, c), b)
           /\ Minus(Minus(a, b), c) = Minus(a, Plus(b, c))
           /\ Plus(Minus(a, b), c) = Minus(Plus(a, c), b)
           /\ Minus(Plus(a, b), a) = b /\ Plus(a, b) = Plus(b, a)
           /\ Plus(a, Zero) = a /\ Minus(a, Zero) = a
<1>1. Plus(a, b) \in Counts /\ Minus(a, b) \in Counts /\ Zero \in Counts
    BY DEF Plus, Minus, Zero, Counts
<1>2. Plus(Plus(a, b), c) = Plus(Plus(a, c), b) /\ Plus(Plus(a, b), c) = Plus(a, Plus(b, c))
    BY DEF Plus, Counts
<1>3. Minus(Minus(a, b), c) = Minus(Minus(a, c), b)
    BY DEF Minus, Counts
<1>4. Minus(Minus(a, b), c) = Minus(a, Plus(b, c))
    BY DEF Plus, Minus, Counts
<1>5. Plus(Minus(a, b), c) = Minus(Plus(a, c), b)
    BY DEF Plus, Minus, Counts
<1>6. Minus(Plus(a, b), a) = b /\ Plus(a, b) = Plus(b, a)
    BY DEF Plus, Minus, Counts
<1>7. Plus(a, Zero) = a /\ Minus(a, Zero) = a
    BY DEF Plus, Minus, Zero, Counts
<1>8. QED
    BY <1>1, <1>2, <1>3, <1>4, <1>5, <1>6, <1>7

(* AddAll is the fold of Plus *)
LEMMA AddFolded ==
    ASSUME NEW a \in Counts, NEW pg, NEW lv, NEW P, IsFiniteSet(P),
           \A p \in P : contribution(pg, lv, p) \in Counts
    PROVE  \E h, g : /\ Folded(P, Counts, a, h, g) /\ AddAll(a, pg, lv, P) = g[P]
                     /\ \A x \in P, v \in Counts : h[<<x, v>>] = Plus(v, contribution(pg, lv, x))
<1>0. PICK h : h = [z \in P \X Counts |-> Plus(z[2], contribution(pg, lv, z[1]))]
    OBVIOUS
<1>1. PICK g : g = CHOOSE iter : iter = [s \in SUBSET P |-> IF s = {} THEN a
            ELSE LET x == CHOOSE x \in s : TRUE IN Plus(iter[s \ {x}], contribution(pg, lv, x))]
    OBVIOUS
<1>2. AddAll(a, pg, lv, P) = g[P]
    BY <1>1 DEF FoldSet, MapThenFoldSet, AddAll
<1>3. /\ h \in [P \X Counts -> Counts]
      /\ \A x \in P, v \in Counts : h[<<x, v>>] = Plus(v, contribution(pg, lv, x))
    BY <1>0, PlusMinus
<1>4. PICK f \in [SUBSET P -> Counts] : Folded(P, Counts, a, h, f)
    BY <1>3, FoldExists
<1>5. ASSUME NEW s \in SUBSET P, s # {}
      PROVE  f[s] = Plus(f[s \ {CHOOSE x \in s : TRUE}], contribution(pg, lv, CHOOSE x \in s : TRUE))
    <2>1. Pick(s) \in P /\ f[Rest(s)] \in Counts /\ f[s] = h[<<Pick(s), f[Rest(s)]>>]
        <3>1. Rest(s) \in SUBSET P
            BY DEF Rest
        <3>2. QED
            BY <1>4, <1>5, <3>1, PickOne DEF Folded
    <2>2. f[s] = Plus(f[Rest(s)], contribution(pg, lv, Pick(s)))
        BY <1>3, <2>1
    <2>3. QED
        BY <2>2 DEF Pick, Rest
<1>6. f = [s \in SUBSET P |-> IF s = {} THEN a
            ELSE LET x == CHOOSE x \in s : TRUE IN Plus(f[s \ {x}], contribution(pg, lv, x))]
    BY <1>4, <1>5 DEF Folded
<1>7. g = [s \in SUBSET P |-> IF s = {} THEN a
            ELSE LET x == CHOOSE x \in s : TRUE IN Plus(g[s \ {x}], contribution(pg, lv, x))]
    BY <1>1, <1>6
<1>8. g[{}] = a
    BY <1>7
<1>9. ASSUME NEW s \in SUBSET P, s # {}, g[Rest(s)] \in Counts
      PROVE  g[s] = h[<<Pick(s), g[Rest(s)]>>]
    <2>1. g[s] = Plus(g[Rest(s)], contribution(pg, lv, Pick(s)))
        BY <1>7, <1>9 DEF Pick, Rest
    <2>2. QED
        BY <1>3, <1>9, <2>1, PickOne
<1>10. Folded(P, Counts, a, h, g)
    BY <1>3, <1>8, <1>9, FoldTyped
<1>11. QED
    BY <1>2, <1>3, <1>10

(* Adding nothing, and adding any page last *)
LEMMA AddOne ==
    ASSUME NEW a \in Counts, NEW pg, NEW lv, NEW P, IsFiniteSet(P),
           \A p \in P : contribution(pg, lv, p) \in Counts
    PROVE  /\ AddAll(a, pg, lv, P) \in Counts
           /\ P = {} => AddAll(a, pg, lv, P) = a
           /\ \A z \in P : AddAll(a, pg, lv, P)
                            = Plus(AddAll(a, pg, lv, P \ {z}), contribution(pg, lv, z))
<1>2. PICK h, g : /\ Folded(P, Counts, a, h, g) /\ AddAll(a, pg, lv, P) = g[P]
                  /\ \A x \in P, v \in Counts : h[<<x, v>>] = Plus(v, contribution(pg, lv, x))
    BY AddFolded
<1>3. AddAll(a, pg, lv, P) \in Counts /\ (P = {} => AddAll(a, pg, lv, P) = a)
    BY <1>2 DEF Folded
<1>4. ASSUME NEW z \in P
      PROVE  AddAll(a, pg, lv, P) = Plus(AddAll(a, pg, lv, P \ {z}), contribution(pg, lv, z))
    <2>1. PICK Q : Q = P \ {z}
        OBVIOUS
    <2>2. Q \in SUBSET P /\ IsFiniteSet(Q)
        BY <2>1, FS_Subset
    <2>3. \A p \in Q : contribution(pg, lv, p) \in Counts
        BY <2>2
    <2>4. PICK k, f : /\ Folded(Q, Counts, a, k, f) /\ AddAll(a, pg, lv, Q) = f[Q]
                      /\ \A x \in Q, v \in Counts : k[<<x, v>>] = Plus(v, contribution(pg, lv, x))
        BY <2>2, <2>3, AddFolded
    <2>5. Folded(Q, Counts, a, h, g)
        BY <1>2, <2>2, FoldRestrict
    <2>6. \A x \in Q, v \in Counts : h[<<x, v>>] = k[<<x, v>>]
        BY <1>2, <2>2, <2>4
    <2>7. g[Q] = f[Q] /\ g[Q] \in Counts
        <3>1. Q \in SUBSET Q
            OBVIOUS
        <3>2. g[Q] = f[Q]
            BY <2>2, <2>4, <2>5, <2>6, <3>1, FoldSame
        <3>3. QED
            BY <2>5, <3>1, <3>2 DEF Folded
    <2>8. ASSUME NEW x \in P, NEW y \in P, NEW v \in Counts
          PROVE  h[<<x, h[<<y, v>>]>>] = h[<<y, h[<<x, v>>]>>]
        <3>0. /\ h[<<y, v>>] = Plus(v, contribution(pg, lv, y))
              /\ h[<<x, v>>] = Plus(v, contribution(pg, lv, x))
            BY <1>2
        <3>1. h[<<y, v>>] \in Counts /\ h[<<x, v>>] \in Counts
            BY <3>0, PlusMinus
        <3>2. /\ h[<<x, h[<<y, v>>]>>] = Plus(h[<<y, v>>], contribution(pg, lv, x))
              /\ h[<<y, h[<<x, v>>]>>] = Plus(h[<<x, v>>], contribution(pg, lv, y))
            BY <1>2, <3>1
        <3>3. QED
            BY <3>0, <3>2, PlusMinus
    <2>9. g[P] = h[<<z, g[P \ {z}]>>]
        <3>1. P \in SUBSET P
            OBVIOUS
        <3>2. QED
            BY <1>2, <2>8, <3>1, FoldAny
    <2>10. h[<<z, g[Q]>>] = Plus(g[Q], contribution(pg, lv, z))
        BY <1>2, <2>7
    <2>11. QED
        BY <1>2, <2>1, <2>4, <2>7, <2>9, <2>10
<1>5. QED
    BY <1>3, <1>4

(* Taking a set of pages off takes off what they add up to *)
LEMMA RemoveIsMinus ==
    ASSUME NEW a \in Counts, NEW pg, NEW lv, NEW P, IsFiniteSet(P),
           \A p \in P : contribution(pg, lv, p) \in Counts
    PROVE  RemoveAll(a, pg, lv, P) = Minus(a, AddAll(Zero, pg, lv, P))
<1> DEFINE t(s) == AddAll(Zero, pg, lv, s)
<1>1. PICK g : g = CHOOSE iter : iter = [s \in SUBSET P |-> IF s = {} THEN a
            ELSE LET x == CHOOSE x \in s : TRUE IN Minus(iter[s \ {x}], contribution(pg, lv, x))]
    OBVIOUS
<1>2. RemoveAll(a, pg, lv, P) = g[P]
    BY <1>1 DEF FoldSet, MapThenFoldSet, RemoveAll
<1>3. \A s \in SUBSET P : IsFiniteSet(s) /\ \A p \in s : contribution(pg, lv, p) \in Counts
    BY FS_Subset
<1>4. Zero \in Counts
    BY DEF Zero, Counts
<1>5. ASSUME NEW s \in SUBSET P
      PROVE  /\ t(s) \in Counts /\ (s = {} => t(s) = Zero)
             /\ \A z \in s : t(s) = Plus(t(s \ {z}), contribution(pg, lv, z))
    BY <1>3, <1>4, AddOne
<1> HIDE DEF t
<1>6. ASSUME NEW s \in SUBSET P, s # {}
      PROVE  Minus(a, t(s)) = Minus(Minus(a, t(Rest(s))), contribution(pg, lv, Pick(s)))
    <2>1. Pick(s) \in s /\ Rest(s) \in SUBSET P
        BY <1>6, PickOne DEF Rest
    <2>2. t(s) = Plus(t(Rest(s)), contribution(pg, lv, Pick(s)))
        BY <1>5, <2>1 DEF Rest
    <2>3. t(Rest(s)) \in Counts /\ contribution(pg, lv, Pick(s)) \in Counts
        BY <1>5, <2>1
    <2>4. QED
        BY <2>2, <2>3, PlusMinus
<1>7. PICK f : f = [s \in SUBSET P |-> Minus(a, t(s))]
    OBVIOUS
<1>8. ASSUME NEW s \in SUBSET P, s # {}
      PROVE  f[s] = Minus(f[s \ {CHOOSE x \in s : TRUE}], contribution(pg, lv, CHOOSE x \in s : TRUE))
    <2>1. Rest(s) \in SUBSET P
        BY DEF Rest
    <2>2. f[s] = Minus(f[Rest(s)], contribution(pg, lv, Pick(s)))
        BY <1>6, <1>7, <1>8, <2>1
    <2>3. QED
        BY <2>2 DEF Pick, Rest
<1>9. f[{}] = a
    <2>1. t({}) = Zero
        BY <1>5
    <2>2. f[{}] = Minus(a, t({}))
        BY <1>7
    <2>3. Minus(a, Zero) = a
        BY <1>4, PlusMinus
    <2>4. QED
        BY <2>1, <2>2, <2>3
<1>10. f = [s \in SUBSET P |-> IF s = {} THEN a
            ELSE LET x == CHOOSE x \in s : TRUE IN Minus(f[s \ {x}], contribution(pg, lv, x))]
    BY <1>7, <1>8, <1>9
<1>11. g = [s \in SUBSET P |-> IF s = {} THEN a
            ELSE LET x == CHOOSE x \in s : TRUE IN Minus(g[s \ {x}], contribution(pg, lv, x))]
    BY <1>1, <1>10
<1>12. PICK B : B = {s \in SUBSET P : g[s] = f[s]}
    OBVIOUS
<1>13. {} \in B
    BY <1>9, <1>11, <1>12
<1>14. ASSUME NEW s \in SUBSET P, s # {}, \A x \in s : s \ {x} \in B PROVE s \in B
    <2>1. g[s] = Minus(g[Rest(s)], contribution(pg, lv, Pick(s)))
        BY <1>11, <1>14 DEF Pick, Rest
    <2>2. f[s] = Minus(f[Rest(s)], contribution(pg, lv, Pick(s)))
        BY <1>8, <1>14 DEF Pick, Rest
    <2>3. Rest(s) \in B
        BY <1>14, PickOne DEF Rest
    <2>4. QED
        BY <1>12, <2>1, <2>2, <2>3
<1>15. P \in B
    <2>1. \A s \in SUBSET P : s \in B
        BY <1>13, <1>14, SetInduction
    <2>2. QED
        BY <2>1
<1>16. QED
    BY <1>2, <1>7, <1>12, <1>15 DEF t

(* What is there already adds up with what is added *)
LEMMA AddShift ==
    ASSUME NEW a \in Counts, NEW pg, NEW lv, NEW P, IsFiniteSet(P),
           \A p \in P : contribution(pg, lv, p) \in Counts
    PROVE  AddAll(a, pg, lv, P) = Plus(a, AddAll(Zero, pg, lv, P))
<1> DEFINE B == {s \in SUBSET P : AddAll(a, pg, lv, s) = Plus(a, AddAll(Zero, pg, lv, s))}
<1>1. Zero \in Counts
    BY DEF Zero, Counts
<1>2. \A s \in SUBSET P : IsFiniteSet(s) /\ \A p \in s : contribution(pg, lv, p) \in Counts
    BY FS_Subset
<1>3. {} \in B
    <2>1. AddAll(a, pg, lv, {}) = a /\ AddAll(Zero, pg, lv, {}) = Zero
        BY <1>1, <1>2, AddOne
    <2>2. QED
        BY <1>1, <2>1, PlusMinus
<1>4. ASSUME NEW s \in SUBSET P, s # {}, \A x \in s : s \ {x} \in B PROVE s \in B
    <2>1. PICK z \in s : TRUE
        BY <1>4
    <2>2. /\ AddAll(a, pg, lv, s) = Plus(AddAll(a, pg, lv, s \ {z}), contribution(pg, lv, z))
          /\ AddAll(Zero, pg, lv, s) = Plus(AddAll(Zero, pg, lv, s \ {z}), contribution(pg, lv, z))
        BY <1>1, <1>2, AddOne
    <2>3. s \ {z} \in B /\ s \ {z} \in SUBSET P
        BY <1>4
    <2>4. AddAll(a, pg, lv, s \ {z}) = Plus(a, AddAll(Zero, pg, lv, s \ {z}))
        BY <2>3
    <2>5. AddAll(Zero, pg, lv, s \ {z}) \in Counts /\ contribution(pg, lv, z) \in Counts
        BY <1>1, <1>2, <2>3, AddOne
    <2>6. AddAll(a, pg, lv, s) = Plus(a, AddAll(Zero, pg, lv, s))
        BY <2>2, <2>4, <2>5, PlusMinus
    <2>7. QED
        BY <2>6
<1> HIDE DEF B
<1>5. \A s \in SUBSET P : s \in B
    BY <1>3, <1>4, SetInduction
<1>6. QED
    BY <1>5 DEF B

(* A set of pages adds up part by part *)
LEMMA AddSplit ==
    ASSUME NEW pg, NEW lv, NEW P, IsFiniteSet(P), NEW Q \in SUBSET P,
           \A p \in P : contribution(pg, lv, p) \in Counts
    PROVE  AddAll(Zero, pg, lv, P) = Plus(AddAll(Zero, pg, lv, Q), AddAll(Zero, pg, lv, P \ Q))
<1> DEFINE t(s) == AddAll(Zero, pg, lv, s)
           B == {s \in SUBSET P : t(P) = Plus(t(s), t(P \ s))}
<1>1. Zero \in Counts
    BY DEF Zero, Counts
<1>2. \A s \in SUBSET P : IsFiniteSet(s) /\ \A p \in s : contribution(pg, lv, p) \in Counts
    BY FS_Subset
<1>3. \A s \in SUBSET P : /\ t(s) \in Counts /\ (s = {} => t(s) = Zero)
                          /\ \A z \in s : t(s) = Plus(t(s \ {z}), contribution(pg, lv, z))
    BY <1>1, <1>2, AddOne
<1> HIDE DEF t
<1>4. {} \in B
    <2>1. t(P \ {}) = t(P)
        <3>1. P \ {} = P
            OBVIOUS
        <3>2. QED
            BY <3>1
    <2>2. t({}) = Zero /\ t(P) \in Counts
        BY <1>3
    <2>3. Plus(Zero, t(P)) = t(P)
        BY <1>1, <2>2, PlusMinus
    <2>4. QED
        BY <2>1, <2>2, <2>3
<1>5. ASSUME NEW s \in SUBSET P, s # {}, \A x \in s : s \ {x} \in B PROVE s \in B
    <2>1. PICK z \in s : TRUE
        BY <1>5
    <2>2. PICK r : r = s \ {z}
        OBVIOUS
    <2>3. r \in SUBSET P /\ P \ r \in SUBSET P /\ P \ s \in SUBSET P /\ z \in P \ r
          /\ (P \ r) \ {z} = P \ s /\ z \in P
        BY <2>2
    <2>4. t(s) = Plus(t(r), contribution(pg, lv, z))
        BY <1>3, <2>2
    <2>5. t(P \ r) = Plus(t(P \ s), contribution(pg, lv, z))
        BY <1>3, <2>3
    <2>6. t(P) = Plus(t(r), t(P \ r))
        BY <1>5, <2>2
    <2>7. t(r) \in Counts /\ t(P \ s) \in Counts /\ contribution(pg, lv, z) \in Counts
        BY <1>3, <2>3
    <2>8. t(P) = Plus(t(s), t(P \ s))
        BY <2>4, <2>5, <2>6, <2>7, PlusMinus
    <2>9. QED
        BY <2>8
<1> HIDE DEF B
<1>6. Q \in B
    <2>1. \A s \in SUBSET P : s \in B
        BY <1>4, <1>5, SetInduction
    <2>2. QED
        BY <2>1
<1>7. QED
    BY <1>6 DEF B, t

(* Pages that count alike add up alike *)
LEMMA AddSame ==
    ASSUME NEW pg, NEW lv, NEW pg2, NEW lv2, NEW P, IsFiniteSet(P),
           \A p \in P : /\ contribution(pg, lv, p) \in Counts
                        /\ contribution(pg2, lv2, p) = contribution(pg, lv, p)
    PROVE  AddAll(Zero, pg, lv, P) = AddAll(Zero, pg2, lv2, P)
<1> DEFINE B == {s \in SUBSET P : AddAll(Zero, pg, lv, s) = AddAll(Zero, pg2, lv2, s)}
<1>1. Zero \in Counts
    BY DEF Zero, Counts
<1>2. \A s \in SUBSET P : /\ IsFiniteSet(s) /\ (\A p \in s : contribution(pg, lv, p) \in Counts)
                          /\ \A p \in s : contribution(pg2, lv2, p) \in Counts
    BY FS_Subset
<1>3. {} \in B
    BY <1>1, <1>2, AddOne
<1>4. ASSUME NEW s \in SUBSET P, s # {}, \A x \in s : s \ {x} \in B PROVE s \in B
    <2>1. PICK z \in s : TRUE
        BY <1>4
    <2>2. /\ AddAll(Zero, pg, lv, s) = Plus(AddAll(Zero, pg, lv, s \ {z}), contribution(pg, lv, z))
          /\ AddAll(Zero, pg2, lv2, s)
                = Plus(AddAll(Zero, pg2, lv2, s \ {z}), contribution(pg2, lv2, z))
        BY <1>1, <1>2, AddOne
    <2>3. QED
        BY <1>4, <2>1, <2>2
<1> HIDE DEF B
<1>5. \A s \in SUBSET P : s \in B
    BY <1>3, <1>4, SetInduction
<1>6. QED
    BY <1>5 DEF B

(* Pages that add nothing to a total add up to nothing in it *)
LEMMA AddNothing ==
    ASSUME NEW pg, NEW lv, NEW P, IsFiniteSet(P), NEW f \in Totals,
           \A p \in P : contribution(pg, lv, p) \in Counts /\ contribution(pg, lv, p)[f] = 0
    PROVE  AddAll(Zero, pg, lv, P)[f] = 0
<1> DEFINE B == {s \in SUBSET P : AddAll(Zero, pg, lv, s)[f] = 0}
<1>1. Zero \in Counts /\ Zero[f] = 0
    BY DEF Zero, Counts
<1>2. \A s \in SUBSET P : IsFiniteSet(s) /\ \A p \in s : contribution(pg, lv, p) \in Counts
    BY FS_Subset
<1>3. {} \in B
    BY <1>1, <1>2, AddOne
<1>4. ASSUME NEW s \in SUBSET P, s # {}, \A x \in s : s \ {x} \in B PROVE s \in B
    <2>1. PICK z \in s : TRUE
        BY <1>4
    <2>2. AddAll(Zero, pg, lv, s) = Plus(AddAll(Zero, pg, lv, s \ {z}), contribution(pg, lv, z))
        BY <1>1, <1>2, AddOne
    <2>3. AddAll(Zero, pg, lv, s)[f]
            = AddAll(Zero, pg, lv, s \ {z})[f] + contribution(pg, lv, z)[f]
        BY <2>2 DEF Plus
    <2>4. QED
        BY <1>4, <2>1, <2>3
<1> HIDE DEF B
<1>5. \A s \in SUBSET P : s \in B
    BY <1>3, <1>4, SetInduction
<1>6. QED
    BY <1>5 DEF B

(* AddAll in Recount: what leaves the totals and what comes back *)
LEMMA RecountExact ==
    ASSUME NEW pg, NEW lv, NEW pg2, NEW lv2, NEW A \in SUBSET Pages, NEW Q \in SUBSET A,
           \A p \in Pages : contribution(pg, lv, p) \in Counts,
           \A p \in Pages : contribution(pg2, lv2, p) \in Counts,
           \A p \in Pages \ A : contribution(pg2, lv2, p) = contribution(pg, lv, p),
           \A p \in A \ Q : contribution(pg, lv, p) = Zero
    PROVE  AddAll(RemoveAll(AddAll(Zero, pg, lv, Pages), pg, lv, Q), pg2, lv2, A)
            = AddAll(Zero, pg2, lv2, Pages)
<1> DEFINE t(s) == AddAll(Zero, pg, lv, s)
           t2(s) == AddAll(Zero, pg2, lv2, s)
<1>1. Zero \in Counts
    BY DEF Zero, Counts
<1>2. /\ IsFiniteSet(Pages) /\ IsFiniteSet(A) /\ IsFiniteSet(Q)
      /\ IsFiniteSet(Pages \ A) /\ IsFiniteSet(A \ Q)
    BY PagesAssumption, FS_Subset
<1>3. /\ t(Pages) \in Counts /\ t(A) \in Counts /\ t(Q) \in Counts /\ t(Pages \ A) \in Counts
      /\ t(A \ Q) \in Counts
    BY <1>1, <1>2, AddOne
<1>4. t2(A) \in Counts /\ t2(Pages \ A) \in Counts
    BY <1>1, <1>2, AddOne
<1>5. t(Pages) = Plus(t(A), t(Pages \ A)) /\ t2(Pages) = Plus(t2(A), t2(Pages \ A))
    BY <1>2, AddSplit
<1>6. t(A) = Plus(t(Q), t(A \ Q))
    BY <1>2, AddSplit
<1>7. t(A \ Q) = Zero
    <2>1. \A f \in Totals : t(A \ Q)[f] = 0
        <3> SUFFICES ASSUME NEW f \in Totals PROVE t(A \ Q)[f] = 0
            OBVIOUS
        <3>1. \A p \in A \ Q : contribution(pg, lv, p)[f] = 0
            BY DEF Zero
        <3>2. QED
            BY <1>2, <3>1, AddNothing
    <2> HIDE DEF t
    <2>2. QED
        BY <1>3, <2>1 DEF Counts, Zero
<1>8. t(Pages \ A) = t2(Pages \ A)
    BY <1>2, AddSame
<1>9. RemoveAll(t(Pages), pg, lv, Q) = Minus(t(Pages), t(Q))
    BY <1>2, <1>3, RemoveIsMinus
<1>10. Minus(t(Pages), t(Q)) = t(Pages \ A)
    <2> HIDE DEF t
    <2>1. t(A) = t(Q)
        BY <1>3, <1>6, <1>7, PlusMinus
    <2>2. QED
        BY <1>3, <1>5, <2>1, PlusMinus
<1>11. AddAll(t(Pages \ A), pg2, lv2, A) = Plus(t(Pages \ A), t2(A))
    BY <1>2, <1>3, AddShift
<1>12. Plus(t(Pages \ A), t2(A)) = t2(Pages)
    <2> HIDE DEF t, t2
    <2>1. QED
        BY <1>3, <1>4, <1>5, <1>8, PlusMinus
<1>13. QED
    BY <1>9, <1>10, <1>11, <1>12

-----------------------------------------------------------------------------
(* The bytes of the fragments on a page *)

Length(lv, s) == MapThenSumSet(LAMBDA i : lv[i].size, s)

(* Names for the provers to match on *)
Whole == Int
Nought == 0
Summed(lv, P, h, g) ==
    /\ Folded(P, Whole, Nought, h, g) /\ Length(lv, P) = g[P]
    /\ \A x \in P, v \in Whole : h[<<x, v>>] = lv[x].size + v
Sized(lv, P) == \A i \in P : lv[i].size \in Int

LEMMA LengthFolded ==
    ASSUME NEW lv, NEW P, IsFiniteSet(P), Sized(lv, P)
    PROVE  \E h, g : Summed(lv, P, h, g)
<1>0. PICK h : h = [z \in P \X Whole |-> lv[z[1]].size + z[2]]
    OBVIOUS
<1> DEFINE Body(it) == [s \in SUBSET P |-> IF s = {} THEN 0
                          ELSE LET x == CHOOSE x \in s : TRUE IN lv[x].size + it[s \ {x}]]
<1>1. PICK g : g = CHOOSE iter : iter = Body(iter)
    OBVIOUS
<1>2. Length(lv, P) = g[P]
    BY <1>1 DEF MapThenSumSet, MapThenFoldSet, Length
<1>3. /\ h \in [P \X Whole -> Whole] /\ Nought \in Whole
      /\ \A x \in P, v \in Whole : h[<<x, v>>] = lv[x].size + v
    BY <1>0 DEF Whole, Sized, Nought
<1>4. PICK f \in [SUBSET P -> Whole] : Folded(P, Whole, Nought, h, f)
    BY <1>3, FoldExists
<1>5. ASSUME NEW s \in SUBSET P, s # {}
      PROVE  f[s] = lv[CHOOSE x \in s : TRUE].size + f[s \ {CHOOSE x \in s : TRUE}]
    <2>1. Pick(s) \in P /\ f[Rest(s)] \in Whole /\ f[s] = h[<<Pick(s), f[Rest(s)]>>]
        <3>1. Rest(s) \in SUBSET P
            BY DEF Rest
        <3>2. QED
            BY <1>4, <1>5, <3>1, PickOne DEF Folded
    <2>2. f[s] = lv[Pick(s)].size + f[Rest(s)]
        BY <1>3, <2>1
    <2>3. QED
        BY <2>2 DEF Pick, Rest
<1>6. f = Body(f)
    BY <1>4, <1>5 DEF Folded, Nought
<1>7. g = Body(g)
    <2> HIDE DEF Body
    <2>1. QED
        BY <1>1, <1>6
<1>8. g[{}] = Nought
    BY <1>7 DEF Nought
<1>9. ASSUME NEW s \in SUBSET P, s # {}, g[Rest(s)] \in Whole
      PROVE  g[s] = h[<<Pick(s), g[Rest(s)]>>]
    <2>1. g[s] = lv[Pick(s)].size + g[Rest(s)]
        BY <1>7, <1>9 DEF Pick, Rest
    <2>2. QED
        BY <1>3, <1>9, <2>1, PickOne
<1>10. Folded(P, Whole, Nought, h, g)
    BY <1>3, <1>8, <1>9, FoldTyped
<1>11. Summed(lv, P, h, g)
    BY <1>2, <1>3, <1>10 DEF Summed
<1>12. QED
    BY <1>11

(* Nothing has no length, and any fragment may be counted last *)
LEMMA LengthOne ==
    ASSUME NEW lv, NEW P, IsFiniteSet(P), Sized(lv, P)
    PROVE  /\ Length(lv, P) \in Int
           /\ P = {} => Length(lv, P) = 0
           /\ \A z \in P : Length(lv, P) = lv[z].size + Length(lv, P \ {z})
<1>1. PICK h, g : Summed(lv, P, h, g)
    BY LengthFolded
<1>2. /\ Folded(P, Whole, Nought, h, g) /\ Length(lv, P) = g[P]
      /\ \A x \in P, v \in Whole : h[<<x, v>>] = lv[x].size + v
    BY <1>1 DEF Summed
<1>3. Length(lv, P) \in Int /\ (P = {} => Length(lv, P) = 0)
    BY <1>2 DEF Folded, Whole, Nought
<1>4. ASSUME NEW z \in P PROVE Length(lv, P) = lv[z].size + Length(lv, P \ {z})
    <2>1. PICK Q : Q = P \ {z}
        OBVIOUS
    <2>2. Q \in SUBSET P /\ IsFiniteSet(Q) /\ Sized(lv, Q)
        BY <2>1, FS_Subset DEF Sized
    <2>3. PICK k, f : Summed(lv, Q, k, f)
        BY <2>2, LengthFolded
    <2>4. /\ Folded(Q, Whole, Nought, k, f) /\ Length(lv, Q) = f[Q]
          /\ \A x \in Q, v \in Whole : k[<<x, v>>] = lv[x].size + v
        BY <2>3 DEF Summed
    <2>5. Folded(Q, Whole, Nought, h, g) /\ Nought \in Whole
        <3>1. Folded(Q, Whole, Nought, h, g)
            BY <1>2, <2>2, FoldRestrict
        <3>2. QED
            BY <3>1 DEF Whole, Nought
    <2>6. \A x \in Q, v \in Whole : h[<<x, v>>] = k[<<x, v>>]
        BY <1>2, <2>2, <2>4
    <2>7. g[Q] = f[Q] /\ g[Q] \in Whole
        <3>1. Q \in SUBSET Q
            OBVIOUS
        <3>2. g[Q] = f[Q]
            BY <2>2, <2>4, <2>5, <2>6, <3>1, FoldSame
        <3>3. QED
            BY <2>5, <3>1, <3>2 DEF Folded
    <2>8. ASSUME NEW x \in P, NEW y \in P, NEW v \in Whole
          PROVE  h[<<x, h[<<y, v>>]>>] = h[<<y, h[<<x, v>>]>>]
        <3>1. h[<<y, v>>] = lv[y].size + v /\ h[<<x, v>>] = lv[x].size + v
            BY <1>2
        <3>2. lv[x].size \in Int /\ lv[y].size \in Int /\ v \in Int
            BY DEF Sized, Whole
        <3>3. h[<<y, v>>] \in Whole /\ h[<<x, v>>] \in Whole
            BY <3>1, <3>2 DEF Whole
        <3>4. /\ h[<<x, h[<<y, v>>]>>] = lv[x].size + h[<<y, v>>]
              /\ h[<<y, h[<<x, v>>]>>] = lv[y].size + h[<<x, v>>]
            BY <1>2, <3>3
        <3>5. QED
            BY <3>1, <3>2, <3>4
    <2>9. g[P] = h[<<z, g[P \ {z}]>>]
        <3>1. P \in SUBSET P
            OBVIOUS
        <3>2. Folded(P, Whole, Nought, h, g) /\ Nought \in Whole
            BY <1>2, <2>5
        <3>3. QED
            BY <2>8, <3>1, <3>2, FoldAny
    <2>10. h[<<z, g[Q]>>] = lv[z].size + g[Q]
        BY <1>2, <2>7
    <2>11. QED
        BY <1>2, <2>1, <2>4, <2>7, <2>9, <2>10
<1>5. QED
    BY <1>3, <1>4

(* Fragments of equal sizes are equally long together *)
LEMMA LengthSame ==
    ASSUME NEW lv, NEW lv2, NEW P, IsFiniteSet(P), Sized(lv, P), \A i \in P : lv2[i] = lv[i]
    PROVE  Length(lv, P) = Length(lv2, P)
<1> DEFINE B == {s \in SUBSET P : Length(lv, s) = Length(lv2, s)}
<1>1. \A s \in SUBSET P : IsFiniteSet(s) /\ Sized(lv, s) /\ Sized(lv2, s)
    BY FS_Subset DEF Sized
<1>2. {} \in B
    BY <1>1, LengthOne
<1>3. ASSUME NEW s \in SUBSET P, s # {}, \A x \in s : s \ {x} \in B PROVE s \in B
    <2>1. PICK z \in s : TRUE
        BY <1>3
    <2>2. /\ Length(lv, s) = lv[z].size + Length(lv, s \ {z})
          /\ Length(lv2, s) = lv2[z].size + Length(lv2, s \ {z})
        BY <1>1, LengthOne
    <2>3. Length(lv, s \ {z}) = Length(lv2, s \ {z}) /\ lv2[z] = lv[z]
        BY <1>3, <2>1
    <2>4. QED
        BY <2>2, <2>3
<1> HIDE DEF B
<1>4. \A s \in SUBSET P : s \in B
    BY <1>2, <1>3, SetInduction
<1>5. QED
    BY <1>4 DEF B

Stretch(f) == f.offset .. (f.offset + f.size - 1)

(* Fragments apart from each other are together no longer than the page    *)
(* they lie on: their length is the number of bytes they cover             *)
LEMMA LengthFits ==
    ASSUME NEW lv, NEW P, IsFiniteSet(P), NEW m \in Nat,
           \A i \in P : /\ lv[i].offset \in Nat /\ lv[i].size \in Nat
                        /\ lv[i].offset + lv[i].size <= m,
           \A i, j \in P : i # j => Disjoint(lv[i], lv[j])
    PROVE  Length(lv, P) <= m
<1> DEFINE Cover(s) == {b \in 0..(m - 1) : \E i \in s : b \in Stretch(lv[i])}
           B == {s \in SUBSET P : Length(lv, s) = Cardinality(Cover(s))}
<1>1. \A s \in SUBSET P : IsFiniteSet(s) /\ Sized(lv, s)
    BY FS_Subset DEF Sized
<1>2. IsFiniteSet(0..(m - 1)) /\ Cardinality(0..(m - 1)) = m
    <2>1. 0 \in Int /\ m - 1 \in Int
        OBVIOUS
    <2>2. QED
        BY <2>1, FS_Interval
<1>3. \A s \in SUBSET P : /\ IsFiniteSet(Cover(s)) /\ Cardinality(Cover(s)) \in Nat
                          /\ Cardinality(Cover(s)) <= m
    <2> SUFFICES ASSUME NEW s \in SUBSET P
                 PROVE  /\ IsFiniteSet(Cover(s)) /\ Cardinality(Cover(s)) \in Nat
                        /\ Cardinality(Cover(s)) <= m
        OBVIOUS
    <2>1. Cover(s) \subseteq 0..(m - 1)
        OBVIOUS
    <2> HIDE DEF Cover
    <2>2. QED
        BY <1>2, <2>1, FS_Subset, FS_CardinalityType
<1>4. {} \in B
    <2>1. Cover({}) = {}
        OBVIOUS
    <2>2. Length(lv, {}) = 0
        BY <1>1, LengthOne
    <2>3. QED
        BY <2>1, <2>2, FS_EmptySet
<1>5. ASSUME NEW s \in SUBSET P, s # {}, \A x \in s : s \ {x} \in B PROVE s \in B
    <2>1. PICK z \in s : TRUE
        BY <1>5
    <2>2. Length(lv, s) = lv[z].size + Length(lv, s \ {z})
        BY <1>1, LengthOne
    <2>3. Length(lv, s \ {z}) = Cardinality(Cover(s \ {z}))
        BY <1>5
    <2>4. lv[z].offset \in Nat /\ lv[z].size \in Nat /\ lv[z].offset + lv[z].size <= m /\ z \in P
        OBVIOUS
    <2>5. IsFiniteSet(Stretch(lv[z])) /\ Cardinality(Stretch(lv[z])) = lv[z].size
        <3>1. lv[z].offset \in Int /\ lv[z].offset + lv[z].size - 1 \in Int
            BY <2>4
        <3>2. PICK a, b : a = lv[z].offset /\ b = lv[z].offset + lv[z].size - 1
            OBVIOUS
        <3>3. IsFiniteSet(a..b) /\ Cardinality(a..b) = IF a > b THEN 0 ELSE b - a + 1
            BY <3>1, <3>2, FS_Interval
        <3>4. (IF a > b THEN 0 ELSE b - a + 1) = lv[z].size
            BY <2>4, <3>2
        <3>5. QED
            BY <3>2, <3>3, <3>4 DEF Stretch
    <2>6. Cover(s) = Cover(s \ {z}) \union Stretch(lv[z])
        BY <2>4 DEF Stretch
    <2>7. Cover(s \ {z}) \intersect Stretch(lv[z]) = {}
        <3> SUFFICES ASSUME NEW b \in 0..(m - 1), NEW i \in s \ {z},
                            b \in Stretch(lv[i]), b \in Stretch(lv[z])
                     PROVE  FALSE
            OBVIOUS
        <3>1. /\ Disjoint(lv[i], lv[z]) /\ i \in P
              /\ lv[i].offset \in Nat /\ lv[i].size \in Nat
            OBVIOUS
        <3>2. QED
            BY <2>4, <3>1 DEF Disjoint, Stretch
    <2>8. PICK C : C = Cover(s \ {z})
        OBVIOUS
    <2>9. IsFiniteSet(C) /\ Cardinality(C) \in Nat
        <3>1. s \ {z} \in SUBSET P
            OBVIOUS
        <3> HIDE DEF Cover
        <3>2. QED
            BY <1>3, <2>8, <3>1
    <2> HIDE DEF Cover
    <2>10. Cardinality(Cover(s)) = Cardinality(C) + Cardinality(Stretch(lv[z]))
        <3>1. Cardinality(C \union Stretch(lv[z])) = Cardinality(C)
                + Cardinality(Stretch(lv[z])) - Cardinality(C \intersect Stretch(lv[z]))
            BY <2>5, <2>9, FS_Union
        <3>2. Cardinality(C \intersect Stretch(lv[z])) = 0
            BY <2>7, <2>8, FS_EmptySet
        <3>3. QED
            BY <2>4, <2>5, <2>6, <2>8, <2>9, <3>1, <3>2
    <2>11. Length(lv, s) = Cardinality(Cover(s))
        BY <2>2, <2>3, <2>4, <2>5, <2>8, <2>9, <2>10
    <2>12. QED
        BY <2>11
<1> HIDE DEF B
<1>6. P \in B
    <2>1. \A s \in SUBSET P : s \in B
        BY <1>4, <1>5, SetInduction
    <2>2. QED
        BY <2>1
<1>7. QED
    BY <1>3, <1>6 DEF B

-----------------------------------------------------------------------------
(* What one page contributes *)

LEMMA OnSized ==
    ASSUME NEW lv \in [Ids -> FragState], NEW p
    PROVE  Sized(lv, On(lv, p)) /\ IsFiniteSet(On(lv, p))
<1>1. \A i \in On(lv, p) : i \in Ids /\ lv[i].alive
    BY DEF On
<1>2. \A i \in On(lv, p) : lv[i].size \in Nat
    BY <1>1, FragFacts
<1>3. QED
    BY <1>2, OnCard DEF Sized

LEMMA ContributionShape ==
    ASSUME NEW pg \in [Pages -> PageState], NEW lv \in [Ids -> FragState], NEW p \in Pages
    PROVE  /\ contribution(pg, lv, p) \in Counts
           /\ ~pg[p].used => contribution(pg, lv, p) = Zero
           /\ pg[p].used =>
                /\ contribution(pg, lv, p)["slack_bytes"] = pg[p].size - Length(lv, On(lv, p))
                /\ contribution(pg, lv, p)["aligned_bytes"] = Length(lv, On(lv, p))
                /\ contribution(pg, lv, p)["current_mixed_pages"]
                        = One(Cardinality({lv[i].ring : i \in On(lv, p)}) > 1)
<1>1. PICK a1, a2, a3, a4 :
        /\ a1 = Length(lv, On(lv, p)) /\ a2 = One(Cardinality({lv[i].ring : i \in On(lv, p)}) > 1)
        /\ a3 = One(On(lv, p) # {} /\ CrossLifetime(pg[p].rings))
        /\ a4 = One(On(lv, p) # {} /\ Cardinality(pg[p].rings) = 1)
    OBVIOUS
<1>2. a1 \in Int /\ pg[p].size \in Int
    BY <1>1, OnSized, LengthOne DEF PageState
<1>3. a2 \in Int /\ a3 \in Int /\ a4 \in Int
    BY <1>1 DEF One
<1>4. contribution(pg, lv, p) =
        IF ~pg[p].used THEN Zero
        ELSE [unique_pages |-> 1, aligned_bytes |-> a1, backing_bytes |-> pg[p].size,
              slack_bytes |-> pg[p].size - a1, current_mixed_pages |-> a2,
              historical_cross_lifetime_pages |-> a3, same_ring_only_pages |-> a4]
    BY <1>1 DEF contribution, On, Length
<1>5. CASE ~pg[p].used
    BY <1>4, <1>5 DEF Zero, Counts
<1>6. CASE pg[p].used
    <2>1. contribution(pg, lv, p) \in Counts
        BY <1>2, <1>3, <1>4, <1>6 DEF Counts, Totals
    <2>2. QED
        BY <1>1, <1>4, <1>6, <2>1
<1>7. QED
    BY <1>5, <1>6

(* A page that stays as it is, its fragments too, contributes the same *)
LEMMA ContributionFrame ==
    ASSUME NEW pg, NEW pg2, NEW lv \in [Ids -> FragState], NEW lv2, NEW p,
           pg2[p] = pg[p], On(lv2, p) = On(lv, p), \A i \in On(lv, p) : lv2[i] = lv[i]
    PROVE  contribution(pg2, lv2, p) = contribution(pg, lv, p)
<1>1. Length(lv2, On(lv2, p)) = Length(lv, On(lv, p))
    BY OnSized, LengthSame
<1>2. {lv2[i].ring : i \in On(lv2, p)} = {lv[i].ring : i \in On(lv, p)}
    OBVIOUS
<1>3. QED
    BY <1>1, <1>2 DEF contribution, On, Length

-----------------------------------------------------------------------------
(* The replay *)

(* A step of the replay is a step of the allocator, or leaves it alone *)
LEMMA ReplayStep == [ReplayNext]_replayVars => [Next]_vars
<1>1. ASSUME NEW i \in Ids, NEW n \in Sizes, NEW r \in Rings, NEW s, NEW l \in Lanes,
             replay_pagefrag(i, n, r, l, s)
      PROVE  Alloc
    BY <1>1 DEF replay_pagefrag, Alloc
<1>2. ASSUME NEW i \in Ids, NEW n \in Sizes, NEW r \in Rings, NEW s, replay_direct(i, n, r, s)
      PROVE  Alloc
    BY <1>2 DEF replay_direct, Alloc
<1>3. ASSUME NEW i \in Ids, reap(i) PROVE UNCHANGED vars
    BY <1>3 DEF reap
<1>4. ASSUME NEW i \in Ids, replay_free(i) PROVE free(i)
    BY <1>4 DEF replay_free
<1>5. ReplayNext => UNCHANGED policy
    BY DEF ReplayNext
<1>6. ReplayNext => Alloc \/ (\E i \in Ids : free(i)) \/ UNCHANGED vars
    BY <1>1, <1>2, <1>3, <1>4 DEF ReplayNext
<1>7. UNCHANGED replayVars => UNCHANGED vars
    BY DEF replayVars
<1>8. QED
    BY <1>5, <1>6, <1>7 DEF Next

(* The replay implements the allocator: whatever it does to pages, caches  *)
(* and fragments is a behaviour of PageFrag, so the theorems about the     *)
(* allocator hold of every replay.                                         *)
THEOREM ReplayImplementsPageFrag == ReplaySpec => Spec
<1>1. ReplayInit => Init
    BY DEF ReplayInit
<1>2. QED
    BY <1>1, ReplayStep, PTL DEF ReplaySpec, Spec

(* Each page contributes a count to each total *)
LEMMA AllCounted ==
    ASSUME NEW pg, NEW cs, NEW lv, Sound(pg, cs, lv)
    PROVE  \A p \in Pages : /\ contribution(pg, lv, p) \in Counts
                            /\ ~pg[p].used => contribution(pg, lv, p) = Zero
BY ContributionShape DEF Sound, Types

(* What refill changes *)
LEMMA RefillFrame ==
    ASSUME NEW pg \in [Pages -> PageState], NEW st \in refill(pg)
    PROVE  \E p \in Pages : /\ ~pg[p].used /\ st.c.page = {p}
                            /\ st.c.offset \in {PAGE_SIZE, PAGE_FRAG_CACHE_MAX_SIZE}
                            /\ \A q \in Pages : q # p => st.pages[q] = pg[q]
<1>1. PICK p \in {q \in Pages : ~pg[q].used},
           z \in {PAGE_SIZE, PAGE_FRAG_CACHE_MAX_SIZE}, m \in BOOLEAN :
        st = [pages |-> [pg EXCEPT ![p] =
                    [used |-> TRUE, size |-> z, pfmemalloc |-> m,
                     refcount |-> 1 + PAGE_FRAG_CACHE_MAX_SIZE, rings |-> {}]],
              c |-> [page |-> {p}, offset |-> z, bias |-> PAGE_FRAG_CACHE_BIAS]]
    BY DEF refill
<1>2. st.c.page = {p} /\ st.c.offset = z /\ \A q \in Pages : q # p => st.pages[q] = pg[q]
    BY <1>1
<1>3. QED
    BY <1>2

(* What rollover changes: the page it leaves, and the one it comes to,     *)
(* which nobody used                                                       *)
LEMMA RolloverFrame ==
    ASSUME NEW pg \in [Pages -> PageState], NEW c, c.bias \in Nat, NEW p \in Pages, c.page = {p},
           NEW st \in rollover(pg, c, p), c \in CacheState
    PROVE  \E x \in Pages : /\ st.c.page = {x} /\ (x # p => ~pg[x].used)
                            /\ \A q \in Pages : q # p /\ q # x => st.pages[q] = pg[q]
<1>1. CASE pg[p].refcount # c.bias \/ pg[p].pfmemalloc
    <2>1. PICK pg1 : pg1 = Unref(pg, p, c.bias)
        OBVIOUS
    <2>2. \A q \in Pages : q # p => pg1[q] = pg[q]
        BY <2>1, UnrefRest
    <2>3. st \in refill(pg1)
        BY <1>1, <2>1 DEF rollover
    <2>4. PICK x \in {q \in Pages : ~pg1[q].used},
               z \in {PAGE_SIZE, PAGE_FRAG_CACHE_MAX_SIZE}, m \in BOOLEAN :
            st = [pages |-> [pg1 EXCEPT ![x] =
                        [used |-> TRUE, size |-> z, pfmemalloc |-> m,
                         refcount |-> 1 + PAGE_FRAG_CACHE_MAX_SIZE, rings |-> {}]],
                  c |-> [page |-> {x}, offset |-> z, bias |-> PAGE_FRAG_CACHE_BIAS]]
        BY <2>3 DEF refill
    <2>5. pg1 = [q \in Pages |-> pg1[q]]
        BY <2>1 DEF Unref
    <2>6. st.c.page = {x} /\ \A q \in Pages : q # x => st.pages[q] = pg1[q]
        BY <2>4, <2>5
    <2>7. QED
        BY <2>2, <2>4, <2>6
<1>2. CASE ~(pg[p].refcount # c.bias \/ pg[p].pfmemalloc)
    <2>1. st = [pages |-> [pg EXCEPT ![p].refcount = PAGE_FRAG_CACHE_BIAS],
                c |-> [c EXCEPT !.bias = PAGE_FRAG_CACHE_BIAS]]
        BY <1>2 DEF rollover
    <2>2. st.c.page = {p} /\ \A q \in Pages : q # p => st.pages[q] = pg[q]
        BY <2>1 DEF CacheState
    <2>3. QED
        BY <2>2
<1>3. QED
    BY <1>1, <1>2

(* A request touches two pages at most, the one its cache had and the one  *)
(* it has then; if they differ nobody used the second one.                 *)
Touches(k) ==
    /\ cache[k].page \in SUBSET Pages /\ cache'[k].page \in SUBSET Pages
    /\ \A p \in cache'[k].page \ cache[k].page : ~page[p].used
    /\ \A q \in Pages \ (cache[k].page \union cache'[k].page) :
        /\ page'[q] = page[q] /\ On(live', q) = On(live, q)
        /\ \A j \in On(live, q) : live'[j] = live[j]

LEMMA TakeTouches ==
    ASSUME cache \in [Keys -> CacheState], live \in [Ids -> FragState],
           NEW k \in Keys, NEW st, NEW i \in Ids, ~live[i].alive, NEW p \in Pages,
           NEW off, NEW n, NEW r, Take(st, k, i, p, off, n, r),
           cache[k].page \in SUBSET Pages, p \notin cache[k].page => ~page[p].used,
           \A q \in Pages : q \notin cache[k].page /\ q # p => st.pages[q] = page[q],
           st.pages = [q \in Pages |-> st.pages[q]]
    PROVE  Touches(k)
<1>1. cache'[k].page = {p}
    BY DEF Take
<1>2. \A q \in Pages : q # p => page'[q] = st.pages[q]
    BY DEF Take
<1>3. live' = With(live, i, Frag(p, off, n, r))
    BY DEF Take, With, Frag
<1>4. \A q \in Pages : q # p => On(live', q) = On(live, q)
    BY <1>3, OnAdd
<1>5. \A j \in Ids : j # i => live'[j] = live[j]
    BY <1>3 DEF With
<1>6. \A q, j : j \in On(live, q) => j \in Ids /\ j # i
    BY DEF On
<1>7. QED
    BY <1>1, <1>2, <1>4, <1>5, <1>6 DEF Touches

LEMMA AllocateTouches ==
    ASSUME Sound(page, cache, live), NEW k \in Keys,
           NEW i \in Ids, NEW n \in Sizes, NEW r \in Rings, allocate(k, i, n, r)
    PROVE  Touches(k)
<1>1. /\ cache \in [Keys -> CacheState] /\ live \in [Ids -> FragState]
      /\ page \in [Pages -> PageState]
    BY DEF Sound, Types
<1>2. ~live[i].alive
    BY DEF allocate
<1>3. PICK st \in AtHand(k), p \in Pages :
        /\ p \in st.c.page
        /\ \/ Take(st, k, i, p, st.c.offset - n, n, r)
           \/ /\ ~(n <= st.c.offset)
              /\ \E st2 \in rollover(st.pages, st.c, p), q \in Pages :
                    /\ q \in st2.c.page
                    /\ \/ Take(st2, k, i, q, st2.pages[q].size - n, n, r)
                       \/ Fail(st2, k)
    BY DEF allocate, Fits
<1>4. cache[k] \in CacheState /\ cache[k].page \in SUBSET Pages
    BY <1>1 DEF CacheState
<1>5. CASE cache[k].page = {}
    <2>1. st \in refill(page)
        BY <1>5 DEF AtHand
    <2>2. PICK x \in Pages : /\ ~page[x].used /\ st.c.page = {x}
                             /\ st.c.offset \in {PAGE_SIZE, PAGE_FRAG_CACHE_MAX_SIZE}
                             /\ \A q \in Pages : q # x => st.pages[q] = page[q]
        BY <1>1, <2>1, RefillFrame
    <2>3. n <= st.c.offset
        <3>1. n \in Nat /\ PAGE_SIZE \in Nat /\ PAGE_FRAG_CACHE_MAX_SIZE \in Nat
              /\ PAGE_SIZE <= PAGE_FRAG_CACHE_MAX_SIZE /\ n <= PAGE_SIZE
            BY SizeAssumption, FitsAssumption
        <3>2. QED
            BY <2>2, <3>1
    <2>4. Take(st, k, i, p, st.c.offset - n, n, r) /\ p = x
        BY <1>3, <2>2, <2>3
    <2>5. st.pages = [q \in Pages |-> st.pages[q]]
        BY <1>1, <2>1 DEF refill
    <2>6. QED
        BY <1>1, <1>2, <1>4, <1>5, <2>2, <2>4, <2>5, TakeTouches
<1>6. CASE cache[k].page # {}
    <2>1. st = [pages |-> page, c |-> cache[k]]
        BY <1>6 DEF AtHand
    <2>2. st.pages = page /\ st.c = cache[k]
        BY <2>1
    <2>3. cache[k].page = {p}
        BY <1>1, <1>3, <2>2, OnePage
    <2>4. CASE Take(st, k, i, p, st.c.offset - n, n, r)
        <3>1. st.pages = [q \in Pages |-> st.pages[q]]
            BY <1>1, <2>2
        <3>2. QED
            BY <1>1, <1>2, <1>4, <2>2, <2>3, <2>4, <3>1, TakeTouches
    <2>5. ASSUME NEW st2 \in rollover(st.pages, st.c, p), NEW q \in Pages, q \in st2.c.page,
                 \/ Take(st2, k, i, q, st2.pages[q].size - n, n, r)
                 \/ Fail(st2, k)
          PROVE  Touches(k)
        <3>1. cache[k].bias \in Nat /\ st2 \in rollover(page, cache[k], p)
            BY <1>4, <2>2, <2>5, SizeAssumption DEF CacheState, PAGE_FRAG_CACHE_BIAS
        <3>2. PICK x \in Pages : /\ st2.c.page = {x} /\ (x # p => ~page[x].used)
                                 /\ \A y \in Pages : y # p /\ y # x => st2.pages[y] = page[y]
            BY <1>1, <1>4, <2>3, <3>1, RolloverFrame
        <3>3. x = q
            BY <2>5, <3>2
        <3>4. CASE Take(st2, k, i, q, st2.pages[q].size - n, n, r)
            <4>1. st2.pages = [y \in Pages |-> st2.pages[y]]
                BY <1>1, <3>1 DEF rollover, refill, Unref
            <4>2. PICK off : Take(st2, k, i, q, off, n, r)
                BY <3>4
            <4>3. QED
                BY <1>1, <1>2, <1>4, <2>3, <3>2, <3>3, <4>1, <4>2, TakeTouches
        <3>5. CASE Fail(st2, k)
            <4>1. page' = st2.pages /\ cache'[k] = st2.c /\ live' = live
                BY <1>1, <3>5 DEF Fail
            <4>2. QED
                BY <1>4, <2>3, <3>2, <4>1 DEF Touches
        <3>6. QED
            BY <2>5, <3>4, <3>5
    <2>6. QED
        BY <1>3, <2>4, <2>5
<1>7. QED
    BY <1>5, <1>6

(* Recount keeps the totals exact when only the pages in A count           *)
(* differently, and those of them not taken out counted nothing            *)
LEMMA RecountStep ==
    ASSUME Sound(page, cache, live), Sound(page', cache', live'), AggregateExact,
           NEW A \in SUBSET Pages, NEW Q \in SUBSET A, Recount(Q, A),
           \A p \in A \ Q : ~page[p].used,
           \A p \in Pages \ A : /\ page'[p] = page[p] /\ On(live', p) = On(live, p)
                                /\ \A j \in On(live, p) : live'[j] = live[j]
    PROVE  aggregate' = AddAll(Zero, page', live', Pages)
<1>1. live \in [Ids -> FragState]
    BY DEF Sound, Types
<1>2. PICK pg2, lv2, cs2 : pg2 = page' /\ lv2 = live' /\ cs2 = cache'
    OBVIOUS
<1>3. \A p \in Pages \ A : contribution(pg2, lv2, p) = contribution(page, live, p)
    BY <1>1, <1>2, ContributionFrame
<1>4. /\ \A p \in Pages : contribution(page, live, p) \in Counts
      /\ \A p \in A \ Q : contribution(page, live, p) = Zero
    BY AllCounted
<1>5. \A p \in Pages : contribution(pg2, lv2, p) \in Counts
    <2>1. Sound(pg2, cs2, lv2)
        BY <1>2
    <2>2. QED
        BY <2>1, AllCounted
<1>6. AddAll(RemoveAll(AddAll(Zero, page, live, Pages), page, live, Q), pg2, lv2, A)
        = AddAll(Zero, pg2, lv2, Pages)
    BY <1>3, <1>4, <1>5, RecountExact
<1>7. aggregate' = AddAll(RemoveAll(AddAll(Zero, page, live, Pages), page, live, Q), pg2, lv2, A)
    BY <1>2 DEF Recount, AggregateExact
<1>8. QED
    BY <1>2, <1>6, <1>7

LEMMA ExactStep ==
    ASSUME Sound(page, cache, live), Sound(page', cache', live'), AggregateExact,
           [ReplayNext]_replayVars
    PROVE  aggregate' = AddAll(Zero, page', live', Pages)
<1>0. /\ page \in [Pages -> PageState] /\ cache \in [Keys -> CacheState]
      /\ live \in [Ids -> FragState]
    BY DEF Sound, Types
<1>1. ASSUME NEW i \in Ids, NEW n \in Sizes, NEW r \in Rings, NEW s, NEW l \in Lanes,
             replay_pagefrag(i, n, r, l, s)
      PROVE  aggregate' = AddAll(Zero, page', live', Pages)
    <2>1. PICK k : k = cache_key(r, l)
        OBVIOUS
    <2>2. k \in Keys
        BY <2>1 DEF Keys, cache_key
    <2>3. allocate(k, i, n, r) /\ Recount(cache[k].page, cache[k].page \union cache'[k].page)
        BY <1>1, <2>1 DEF replay_pagefrag, allocate_pagefrag, affected
    <2>4. Touches(k)
        BY <2>2, <2>3, AllocateTouches
    <2>5. PICK A, Q : A = cache[k].page \union cache'[k].page /\ Q = cache[k].page
        OBVIOUS
    <2>6. A \in SUBSET Pages /\ Q \in SUBSET A /\ Recount(Q, A) /\ (\A p \in A \ Q : ~page[p].used)
        BY <2>3, <2>4, <2>5 DEF Touches
    <2>7. \A p \in Pages \ A : /\ page'[p] = page[p] /\ On(live', p) = On(live, p)
                               /\ \A j \in On(live, p) : live'[j] = live[j]
        BY <2>4, <2>5 DEF Touches
    <2>8. QED
        BY <2>6, <2>7, RecountStep
<1>2. ASSUME NEW i \in Ids, NEW n \in Sizes, NEW r \in Rings, NEW s, replay_direct(i, n, r, s)
      PROVE  aggregate' = AddAll(Zero, page', live', Pages)
    <2>1. ~live[i].alive /\ Recount({}, {live'[i].page})
        BY <1>2 DEF replay_direct, allocate_direct
    <2>2. PICK p \in Pages :
            /\ ~page[p].used
            /\ page' = [page EXCEPT ![p] =
                 [used |-> TRUE, size |-> backing(n),
                  pfmemalloc |-> FALSE, refcount |-> 1, rings |-> {r}]]
            /\ live' = [live EXCEPT ![i] =
                 [alive |-> TRUE, page |-> p, offset |-> 0, size |-> n, ring |-> r]]
        BY <1>2 DEF replay_direct, allocate_direct
    <2>3. live' = With(live, i, Frag(p, 0, n, r)) /\ live'[i].page = p
        BY <1>0, <2>2 DEF With, Frag
    <2>4. \A q \in Pages : q # p => page'[q] = page[q] /\ On(live', q) = On(live, q)
        <3>1. \A q \in Pages : q # p => On(live', q) = On(live, q)
            BY <1>0, <2>1, <2>3, OnAdd
        <3>2. QED
            BY <1>0, <2>2, <3>1
    <2>5. \A q : \A j \in On(live, q) : live'[j] = live[j]
        BY <1>0, <2>1, <2>2 DEF On
    <2>6. Recount({}, {p}) /\ {p} \in SUBSET Pages /\ {} \in SUBSET {p}
        BY <2>1, <2>3
    <2>7. QED
        BY <2>2, <2>4, <2>5, <2>6, RecountStep
<1>3. ASSUME NEW i \in Ids, reap(i) PROVE aggregate' = AddAll(Zero, page', live', Pages)
    BY <1>3 DEF reap, vars, AggregateExact
<1>4. ASSUME NEW i \in Ids, replay_free(i)
      PROVE  aggregate' = AddAll(Zero, page', live', Pages)
    <2>1. PICK p : p = live[i].page
        OBVIOUS
    <2>2. /\ live[i].alive /\ page' = Unref(page, p, 1) /\ Recount({p}, {p})
          /\ live' = [live EXCEPT ![i] = Dead]
        BY <1>4, <2>1 DEF replay_free, free
    <2>3. p \in Pages
        BY <1>0, <2>1, <2>2, FragFacts
    <2>4. \A q \in Pages : q # p => page'[q] = page[q]
        BY <1>0, <2>2, <2>3, UnrefRest
    <2>5. \A j \in Ids : j # i => live'[j] = live[j]
        BY <1>0, <2>2
    <2>6. ~live'[i].alive
        BY <1>0, <2>2 DEF Dead
    <2>7. \A q \in Pages : q # p => On(live', q) = On(live, q)
                                    /\ \A j \in On(live, q) : live'[j] = live[j]
        BY <2>1, <2>5, <2>6 DEF On
    <2>8. {p} \in SUBSET Pages /\ {p} \in SUBSET {p} /\ {p} \ {p} = {}
        BY <2>3
    <2>9. QED
        BY <2>2, <2>4, <2>7, <2>8, RecountStep
<1>5. ASSUME UNCHANGED replayVars PROVE aggregate' = AddAll(Zero, page', live', Pages)
    BY <1>5 DEF replayVars, vars, AggregateExact
<1>6. QED
    BY <1>1, <1>2, <1>3, <1>4, <1>5 DEF ReplayNext

(* The totals that the simulator keeps page by page equal a recount over   *)
(* all pages, for any number of pages, buffers, rings and lanes.           *)
THEOREM TotalsExact == ReplaySpec => []AggregateExact
<1>1. ReplayInit => AggregateExact
    <2> SUFFICES ASSUME ReplayInit PROVE AggregateExact
        OBVIOUS
    <2>1. Sound(page, cache, live)
        BY SoundInit DEF ReplayInit
    <2>2. \A p \in Pages : ~page[p].used
        BY DEF ReplayInit, Init, FreePage
    <2>3. \A p \in Pages : contribution(page, live, p) = Zero
        BY <2>1, <2>2, AllCounted
    <2>4. PICK t : t = AddAll(Zero, page, live, Pages)
        OBVIOUS
    <2>5. Zero \in Counts
        BY DEF Zero, Counts
    <2>6. t \in Counts
        BY <2>3, <2>4, <2>5, PagesAssumption, AddOne
    <2>7. \A f \in Totals : t[f] = 0
        <3> SUFFICES ASSUME NEW f \in Totals PROVE t[f] = 0
            OBVIOUS
        <3>1. \A p \in Pages : contribution(page, live, p) \in Counts
                               /\ contribution(page, live, p)[f] = 0
            BY <2>3, <2>5 DEF Zero
        <3>2. QED
            BY <2>4, <3>1, PagesAssumption, AddNothing
    <2>8. t = Zero
        BY <2>6, <2>7 DEF Counts, Zero
    <2>9. QED
        BY <2>4, <2>8 DEF ReplayInit, AggregateExact
<1>2. Sound(page, cache, live) /\ AggregateExact /\ [ReplayNext]_replayVars => AggregateExact'
    <2> SUFFICES ASSUME Sound(page, cache, live), AggregateExact, [ReplayNext]_replayVars
                 PROVE  AggregateExact'
        OBVIOUS
    <2>1. Sound(page', cache', live')
        BY ReplayStep, SoundStep
    <2>2. aggregate' = AddAll(Zero, page', live', Pages)
        BY <2>1, ExactStep
    <2>3. QED
        BY <2>2 DEF AggregateExact, AddAll, contribution, FoldSet, MapThenFoldSet, MapThenSumSet,
                    Plus, Zero, One, CrossLifetime
<1>3. ReplaySpec => []Sound(page, cache, live)
    BY ReplayImplementsPageFrag, AlwaysSound, PTL
<1>4. QED
    BY <1>1, <1>2, <1>3, PTL DEF ReplaySpec

(* "live fragments exceed backing page" and "empty page usage retains      *)
(* accounting" are unreachable: the fragments on a page lie apart inside   *)
(* it, so they are together no longer than it.                             *)
THEOREM UsageAlwaysSound == ReplaySpec => []UsageSound
<1>1. ASSUME Sound(page, cache, live), Laid(page, cache, live), AggregateExact
      PROVE  UsageSound
    <2>1. page \in [Pages -> PageState] /\ live \in [Ids -> FragState]
        BY <1>1 DEF Sound, Types
    <2>2. ASSUME NEW p \in Pages PROVE contribution(page, live, p).slack_bytes >= 0
        <3>1. Carved(page, cache, live, p)
            BY <1>1 DEF Laid, LaidOn
        <3>2. page[p].size \in Nat
            BY <2>1 DEF PageState
        <3>3. \A i \in On(live, p) : i \in Ids /\ live[i].alive
            BY DEF On
        <3>4. \A i \in On(live, p) : live[i].offset \in Nat /\ live[i].size \in Nat
            BY <2>1, <3>3, FragFacts
        <3>5. Length(live, On(live, p)) <= page[p].size
            BY <3>1, <3>2, <3>4, OnCard, LengthFits DEF Carved
        <3>6. Length(live, On(live, p)) \in Int
            BY <2>1, OnSized, LengthOne
        <3>7. CASE page[p].used
            <4>1. contribution(page, live, p)["slack_bytes"]
                    = page[p].size - Length(live, On(live, p))
                BY <2>1, <3>7, ContributionShape
            <4>2. QED
                BY <3>2, <3>5, <3>6, <4>1
        <3>8. CASE ~page[p].used
            <4>1. contribution(page, live, p) = Zero
                BY <2>1, <3>8, ContributionShape
            <4>2. Zero["slack_bytes"] = 0
                BY DEF Zero, Totals
            <4>3. QED
                BY <4>1, <4>2
        <3>9. QED
            BY <3>7, <3>8
    <2>3. ASSUME \A i \in Ids : ~live[i].alive
          PROVE  aggregate.aligned_bytes = 0 /\ aggregate.current_mixed_pages = 0
        <3>1. ASSUME NEW p \in Pages
              PROVE  /\ contribution(page, live, p) \in Counts
                     /\ contribution(page, live, p)["aligned_bytes"] = 0
                     /\ contribution(page, live, p)["current_mixed_pages"] = 0
            <4>1. On(live, p) = {}
                BY <2>3 DEF On
            <4>2. Length(live, On(live, p)) = 0
                BY <2>1, <4>1, OnSized, LengthOne
            <4>3. One(Cardinality({live[i].ring : i \in On(live, p)}) > 1) = 0
                <5>1. {live[i].ring : i \in On(live, p)} = {}
                    BY <4>1
                <5>2. Cardinality({live[i].ring : i \in On(live, p)}) = 0
                    BY <5>1, FS_EmptySet
                <5>3. QED
                    BY <5>2 DEF One
            <4>4. Zero["aligned_bytes"] = 0 /\ Zero["current_mixed_pages"] = 0
                BY DEF Zero, Totals
            <4>5. QED
                BY <2>1, <4>2, <4>3, <4>4, ContributionShape
        <3>2. "aligned_bytes" \in Totals /\ "current_mixed_pages" \in Totals
            BY DEF Totals
        <3>3. AddAll(Zero, page, live, Pages)["aligned_bytes"] = 0
            BY <3>1, <3>2, PagesAssumption, AddNothing
        <3>4. AddAll(Zero, page, live, Pages)["current_mixed_pages"] = 0
            BY <3>1, <3>2, PagesAssumption, AddNothing
        <3>5. QED
            BY <1>1, <3>3, <3>4 DEF AggregateExact
    <2>4. QED
        BY <2>2, <2>3 DEF UsageSound
<1>2. QED
    BY <1>1, ReplayImplementsPageFrag, AlwaysSound, AlwaysLaid, TotalsExact, PTL
=============================================================================
