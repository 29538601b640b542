--------------------------- MODULE SequenceLemmas ---------------------------
(***************************************************************************)
(* Lemmas about what the models are built from, by induction over data:    *)
(* the type of a flattened sequence, and what FoldLeft computes.           *)
(*                                                                         *)
(* An induction theorem takes the formula as a parameter, which no prover   *)
(* here can give a value.  So induction is stated for a set: a set of      *)
(* natural numbers that has zero and every successor is all of Nat, since  *)
(* there would otherwise be a smallest number outside.  A fold takes its   *)
(* operator as a parameter too; what can be said of one once and for all   *)
(* is said of a function F on a set of values X that F does not leave.     *)
(***************************************************************************)
EXTENDS Integers, Sequences, SequencesExt, WellFoundedInduction, TLAPS

-----------------------------------------------------------------------------
(* Induction over the natural numbers, for a set of them *)

Less == {p \in Nat \X Nat : p[1] < p[2]}

LEMMA LessWellFounded == IsWellFoundedOn(Less, Nat)
BY NatLessThanWellFounded DEF OpToRel, Less

LEMMA Smallest ==
    ASSUME NEW T, T \subseteq Nat, T # {}
    PROVE  \E x \in T : \A y \in T : x <= y
<1>1. PICK x \in T : \A y \in T : ~(<<y, x>> \in Less)
  BY LessWellFounded, WFMin
<1>. SUFFICES ASSUME NEW y \in T PROVE x <= y
  OBVIOUS
<1>2. x \in Nat /\ y \in Nat /\ <<y, x>> \in Nat \X Nat
  OBVIOUS
<1>3. <<y, x>> \notin Less
  BY <1>1
<1>4. ~(y < x)
  BY <1>2, <1>3 DEF Less
<1>. QED
  BY <1>2, <1>4

LEMMA Induction ==
    ASSUME NEW T, T \subseteq Nat, 0 \in T, \A n \in T : n + 1 \in T
    PROVE  T = Nat
<1>. SUFFICES ASSUME Nat \ T # {} PROVE FALSE
  OBVIOUS
<1>1. PICK x \in Nat \ T : \A y \in Nat \ T : x <= y
  <2>1. Nat \ T \subseteq Nat
    OBVIOUS
  <2>. QED BY <2>1, Smallest
<1>2. x - 1 \in Nat /\ ~(x <= x - 1)
  BY <1>1
<1>. QED
  BY <1>1, <1>2

-----------------------------------------------------------------------------
(* Flattening *)

LEMMA FlattenType ==
    ASSUME NEW S, NEW s \in Seq(Seq(S))
    PROVE  FlattenSeq(s) \in Seq(S)
<1>1. CASE Len(s) = 0
  <2>1. s = <<>>
    BY <1>1
  <2>. QED BY <1>1, <2>1 DEF FlattenSeq
<1>2. CASE Len(s) # 0
  <2>. DEFINE Is(g, k) ==
                g = [i \in 1..k |-> IF i = 1 THEN s[i] ELSE g[i - 1] \o s[i]]
              T == {k \in Nat : \E g : Is(g, k)}
              flat == CHOOSE g : Is(g, Len(s))
              U == {k \in Nat : k \in 1..Len(s) => flat[k] \in Seq(S)}
  <2>1. 0 \in T
    <3>1. Is([i \in 1..0 |-> s[i]], 0)
      OBVIOUS
    <3>. QED BY <3>1
  <2>2. \A k \in T : k + 1 \in T
    <3>. SUFFICES ASSUME NEW k \in T PROVE k + 1 \in T
      OBVIOUS
    <3>. PICK g : Is(g, k)
      OBVIOUS
    <3>. DEFINE h == [i \in 1..k + 1 |-> IF i = 1 THEN s[i] ELSE g[i - 1] \o s[i]]
    <3>1. \A i \in 1..k : h[i] = g[i]
      <4>. SUFFICES ASSUME NEW i \in 1..k PROVE h[i] = g[i]
        OBVIOUS
      <4>1. g[i] = IF i = 1 THEN s[i] ELSE g[i - 1] \o s[i]
        BY Zenon
      <4>2. i \in 1..k + 1
        OBVIOUS
      <4>3. h[i] = IF i = 1 THEN s[i] ELSE g[i - 1] \o s[i]
        BY <4>2, Zenon
      <4>. QED BY <4>1, <4>3
    <3>2. \A i \in 1..k + 1 : i # 1 => i - 1 \in 1..k
      OBVIOUS
    <3>3. Is(h, k + 1)
      BY <3>1, <3>2
    <3>4. k + 1 \in Nat
      OBVIOUS
    <3>5. \E f : Is(f, k + 1)
      <4>. HIDE DEF h
      <4>. QED BY <3>3
    <3>. QED BY <3>4, <3>5
  <2>3. T = Nat
    <3>1. T \subseteq Nat
      OBVIOUS
    <3>. HIDE DEF T
    <3>. QED BY <2>1, <2>2, <3>1, Induction
  <2>4. Is(flat, Len(s))
    <3>1. Len(s) \in T
      <4>1. Len(s) \in Nat
        OBVIOUS
      <4>. HIDE DEF T
      <4>. QED BY <2>3, <4>1
    <3>2. \E g : Is(g, Len(s))
      BY <3>1
    <3>. QED BY <3>2
  <2>5. FlattenSeq(s) = flat[Len(s)]
    BY <1>2 DEF FlattenSeq
  <2>. HIDE DEF flat
  <2>6. 0 \in U
    OBVIOUS
  <2>7. \A k \in U : k + 1 \in U
    <3>. SUFFICES ASSUME NEW k \in U
                  PROVE  k + 1 \in U
      OBVIOUS
    <3>. SUFFICES ASSUME k + 1 \in 1..Len(s)
                  PROVE  flat[k + 1] \in Seq(S)
      OBVIOUS
    <3>1. s[k + 1] \in Seq(S)
      OBVIOUS
    <3>2. CASE k = 0
      <4>1. flat[k + 1] = s[k + 1]
        BY <2>4, <3>2
      <4>. QED BY <3>1, <4>1
    <3>3. CASE k # 0
      <4>1. k \in 1..Len(s)
        BY <3>3
      <4>2. k + 1 \in 1..Len(s) /\ k + 1 # 1 /\ k + 1 - 1 = k
        BY <3>3
      <4>3. flat[k + 1] = flat[(k + 1) - 1] \o s[k + 1]
        BY <2>4, <4>2, Zenon
      <4>. QED BY <3>1, <4>1, <4>2, <4>3
    <3>. QED BY <3>2, <3>3
  <2>8. U = Nat
    <3>1. U \subseteq Nat
      OBVIOUS
    <3>. HIDE DEF U
    <3>. QED BY <2>6, <2>7, <3>1, Induction
  <2>9. Len(s) \in U /\ Len(s) \in 1..Len(s)
    BY <1>2, <2>8
  <2>. QED
    BY <2>5, <2>9
<1>. QED
  BY <1>1, <1>2

-----------------------------------------------------------------------------
(* FoldLeft *)

LEMMA MaxUpTo ==
    ASSUME NEW k \in Nat, NEW u \in SUBSET (1..k + 1), k + 1 \in u
    PROVE  Max(u) = k + 1
<1>1. \A y \in u : k + 1 >= y
  OBVIOUS
<1>2. /\ Max(u) \in u
      /\ \A y \in u : Max(u) >= y
  BY <1>1, Zenon DEF Max
<1>3. PICK m : m = Max(u)
  OBVIOUS
<1>4. m \in 1..k + 1 /\ m >= k + 1
  BY <1>2, <1>3
<1>. QED
  BY <1>3, <1>4

LEMMA MaxIn ==
    ASSUME NEW n \in Nat, NEW u \in SUBSET (1..n), u # {}
    PROVE  Max(u) \in u
<1>. DEFINE T == {n - y : y \in u}
<1>1. T \subseteq Nat /\ T # {}
  <2>1. \A y \in u : n - y \in Nat
    OBVIOUS
  <2>2. PICK y \in u : TRUE
    OBVIOUS
  <2>3. n - y \in T
    OBVIOUS
  <2>. QED BY <2>1, <2>3
<1>2. PICK x \in T : \A z \in T : x <= z
  <2>. HIDE DEF T
  <2>. QED BY <1>1, Smallest
<1>3. PICK m \in u : x = n - m
  OBVIOUS
<1>4. \A y \in u : m >= y
  <2>. SUFFICES ASSUME NEW y \in u PROVE m >= y
    OBVIOUS
  <2>1. n - y \in T
    OBVIOUS
  <2>2. n - m <= n - y
    BY <1>2, <1>3, <2>1
  <2>. QED BY <2>2
<1>. QED
  BY <1>4, Zenon DEF Max

LEMMA UpTo ==
    ASSUME NEW k \in Nat
    PROVE  1..k + 1 # {} /\ Max(1..k + 1) = k + 1 /\ (1..k + 1) \ {k + 1} = 1..k
<1>1. k + 1 \in 1..k + 1
  OBVIOUS
<1>2. Max(1..k + 1) = k + 1
  BY <1>1, MaxUpTo
<1>3. (1..k + 1) \ {k + 1} = 1..k
  OBVIOUS
<1>. QED
  BY <1>1, <1>2, <1>3

\* The recursive function by which FoldLeft is defined, if op is F.
FoldsUp(g, F, base, s, k) ==
    g = [u \in SUBSET (1..k) |-> IF u = {} THEN base ELSE F[<<g[u \ {Max(u)}], s[Max(u)]>>]]

(* There is such a function, and its values are in X. *)
LEMMA FoldExists ==
    ASSUME NEW X, NEW S, NEW F \in [X \X S -> X], NEW base \in X, NEW s \in Seq(S)
    PROVE  \E g \in [SUBSET (1..Len(s)) -> X] : FoldsUp(g, F, base, s, Len(s))
<1>. DEFINE Has(k) == \E g \in [SUBSET (1..k) -> X] : FoldsUp(g, F, base, s, k)
            T == {k \in Nat : k <= Len(s) => Has(k)}
<1>. HIDE DEF Has
<1>1. 0 \in T
  <2>. DEFINE g == [u \in SUBSET (1..0) |-> base]
  <2>1. g \in [SUBSET (1..0) -> X]
    OBVIOUS
  <2>2. \A u \in SUBSET (1..0) : u = {}
    OBVIOUS
  <2>3. FoldsUp(g, F, base, s, 0)
    BY <2>2 DEF FoldsUp
  <2>. HIDE DEF g
  <2>. QED BY <2>1, <2>3 DEF Has
<1>2. \A k \in T : k + 1 \in T
  <2>. SUFFICES ASSUME NEW k \in Nat, k + 1 <= Len(s), Has(k)
                PROVE  Has(k + 1)
    OBVIOUS
  <2>. PICK g \in [SUBSET (1..k) -> X] : FoldsUp(g, F, base, s, k)
    BY DEF Has
  <2>. DEFINE h == [u \in SUBSET (1..k + 1) |->
                      IF k + 1 \in u THEN F[<<g[u \ {k + 1}], s[k + 1]>>] ELSE g[u]]
  <2>1. /\ \A u \in SUBSET (1..k + 1) : u \ {k + 1} \in SUBSET (1..k)
        /\ \A u \in SUBSET (1..k + 1) : k + 1 \notin u => u \in SUBSET (1..k)
        /\ \A u \in SUBSET (1..k + 1) : \A m : u \ {m} \in SUBSET (1..k + 1)
        /\ \A u \in SUBSET (1..k) : \A m : u \ {m} \in SUBSET (1..k)
    <3>1. \A i \in 1..k + 1 : i # k + 1 => i \in 1..k
      OBVIOUS
    <3>. QED BY <3>1, Zenon
  <2>2. s[k + 1] \in S
    OBVIOUS
  <2>3. h \in [SUBSET (1..k + 1) -> X]
    <3>. SUFFICES ASSUME NEW u \in SUBSET (1..k + 1)
                  PROVE  (IF k + 1 \in u THEN F[<<g[u \ {k + 1}], s[k + 1]>>] ELSE g[u]) \in X
      OBVIOUS
    <3>1. CASE k + 1 \in u
      <4>1. g[u \ {k + 1}] \in X
        BY <2>1
      <4>. QED BY <3>1, <4>1, <2>2
    <3>2. CASE k + 1 \notin u
      BY <3>2, <2>1
    <3>. QED BY <3>1, <3>2
  <2>4. \A u \in SUBSET (1..k + 1) :
            h[u] = IF u = {} THEN base ELSE F[<<h[u \ {Max(u)}], s[Max(u)]>>]
    <3>. SUFFICES ASSUME NEW u \in SUBSET (1..k + 1)
                  PROVE  h[u] = IF u = {} THEN base ELSE F[<<h[u \ {Max(u)}], s[Max(u)]>>]
      OBVIOUS
    <3>1. CASE k + 1 \in u
      <4>1. Max(u) = k + 1
        BY <3>1, MaxUpTo
      <4>2. h[u \ {k + 1}] = g[u \ {k + 1}]
        BY <2>1
      <4>. QED BY <3>1, <4>1, <4>2
    <3>2. CASE k + 1 \notin u
      <4>1. u \in SUBSET (1..k)
        BY <3>2, <2>1
      <4>2. h[u] = g[u] /\ h[u \ {Max(u)}] = g[u \ {Max(u)}]
        BY <3>2, <2>1
      <4>3. g[u] = IF u = {} THEN base ELSE F[<<g[u \ {Max(u)}], s[Max(u)]>>]
        BY <4>1, Zenon DEF FoldsUp
      <4>. QED BY <4>2, <4>3, Zenon
    <3>. QED BY <3>1, <3>2
  <2>5. FoldsUp(h, F, base, s, k + 1)
    <3>1. h = [u \in SUBSET (1..k + 1) |-> h[u]]
      BY <2>3
    <3>. HIDE DEF h
    <3>. QED BY <2>4, <3>1 DEF FoldsUp
  <2>. HIDE DEF h
  <2>. QED BY <2>3, <2>5 DEF Has
<1>3. T = Nat
  <2>1. T \subseteq Nat
    OBVIOUS
  <2>. HIDE DEF T
  <2>. QED BY <1>1, <1>2, <2>1, Induction
<1>4. Len(s) \in T
  <2>1. Len(s) \in Nat
    OBVIOUS
  <2>. QED BY <1>3, <2>1, Zenon
<1>5. Has(Len(s))
  BY <1>4
<1>. QED
  BY <1>5 DEF Has

-----------------------------------------------------------------------------
(* Two sequences put together; and the parts of a sequence of sequences: the *)
(* first n of them put together                                              *)

LEMMA Concatenation ==
    ASSUME NEW S, NEW a \in Seq(S), NEW b \in Seq(S)
    PROVE  /\ a \o b \in Seq(S) /\ Len(a \o b) = Len(a) + Len(b)
           /\ Len(a) \in Nat /\ Len(b) \in Nat
           /\ \A i \in 1..Len(a) : (a \o b)[i] = a[i]
           /\ \A i \in 1..Len(b) : (a \o b)[Len(a) + i] = b[i]
OBVIOUS

\* Parts(s)[n] is the first n of s, put together.
Parts(s) == LET p[n \in 0..Len(s)] == IF n = 0 THEN <<>> ELSE p[n - 1] \o s[n] IN p

LEMMA PartsExist ==
    ASSUME NEW S, NEW s \in Seq(Seq(S))
    PROVE  /\ DOMAIN Parts(s) = 0..Len(s)
           /\ Parts(s)[0] = <<>>
           /\ \A n \in 1..Len(s) : Parts(s)[n] = Parts(s)[n - 1] \o s[n]
<1>. DEFINE Is(g, k) == g = [n \in 0..k |-> IF n = 0 THEN <<>> ELSE g[n - 1] \o s[n]]
            T == {k \in Nat : \E g : Is(g, k)}
            p == CHOOSE g : Is(g, Len(s))
<1>1. 0 \in T
  <2>1. Is([n \in 0..0 |-> <<>>], 0)
    OBVIOUS
  <2>. QED BY <2>1
<1>2. \A k \in T : k + 1 \in T
  <2>. SUFFICES ASSUME NEW k \in T PROVE k + 1 \in T
    OBVIOUS
  <2>. PICK g : Is(g, k)
    OBVIOUS
  <2>. DEFINE h == [n \in 0..k + 1 |-> IF n = 0 THEN <<>> ELSE g[n - 1] \o s[n]]
  <2>1. \A n \in 0..k : h[n] = g[n]
    <3>. SUFFICES ASSUME NEW n \in 0..k PROVE h[n] = g[n]
      OBVIOUS
    <3>1. g[n] = IF n = 0 THEN <<>> ELSE g[n - 1] \o s[n]
      BY Zenon
    <3>2. n \in 0..k + 1
      OBVIOUS
    <3>3. h[n] = IF n = 0 THEN <<>> ELSE g[n - 1] \o s[n]
      BY <3>2, Zenon
    <3>. QED BY <3>1, <3>3
  <2>2. \A n \in 0..k + 1 : n # 0 => n - 1 \in 0..k
    OBVIOUS
  <2>3. Is(h, k + 1)
    BY <2>1, <2>2
  <2>4. k + 1 \in Nat
    OBVIOUS
  <2>5. \E f : Is(f, k + 1)
    <3>. HIDE DEF h
    <3>. QED BY <2>3
  <2>. QED BY <2>4, <2>5
<1>3. T = Nat
  <2>1. T \subseteq Nat
    OBVIOUS
  <2>. HIDE DEF T
  <2>. QED BY <1>1, <1>2, <2>1, Induction
<1>4. Len(s) \in Nat
  OBVIOUS
<1>5. Is(p, Len(s))
  <2>1. \E g : Is(g, Len(s))
    BY <1>3, <1>4
  <2>. QED BY <2>1
<1>6. Parts(s) = p
  BY DEF Parts
<1>. HIDE DEF p
<1>7. DOMAIN p = 0..Len(s)
  BY <1>5
<1>8. \A n \in 0..Len(s) : p[n] = IF n = 0 THEN <<>> ELSE p[n - 1] \o s[n]
  BY <1>5, Zenon
<1>9. 0 \in 0..Len(s) /\ \A n \in 1..Len(s) : n \in 0..Len(s) /\ n # 0
  BY <1>4
<1>. QED
  BY <1>6, <1>7, <1>8, <1>9

LEMMA PartsType ==
    ASSUME NEW S, NEW s \in Seq(Seq(S))
    PROVE  \A n \in 0..Len(s) : Parts(s)[n] \in Seq(S)
<1>. DEFINE T == {n \in Nat : n <= Len(s) => Parts(s)[n] \in Seq(S)}
<1>1. 0 \in T
  <2>1. <<>> \in Seq(S)
    OBVIOUS
  <2>. QED BY <2>1, PartsExist
<1>2. \A n \in T : n + 1 \in T
  <2>. SUFFICES ASSUME NEW n \in Nat, n + 1 <= Len(s), Parts(s)[n] \in Seq(S)
                PROVE  Parts(s)[n + 1] \in Seq(S)
    OBVIOUS
  <2>1. n + 1 \in 1..Len(s) /\ (n + 1) - 1 = n
    OBVIOUS
  <2>2. Parts(s)[n + 1] = Parts(s)[n] \o s[n + 1]
    BY <2>1, PartsExist
  <2>3. s[n + 1] \in Seq(S)
    BY <2>1
  <2>. QED BY <2>2, <2>3
<1>3. T = Nat
  <2>1. T \subseteq Nat
    OBVIOUS
  <2>. HIDE DEF T
  <2>. QED BY <1>1, <1>2, <2>1, Induction
<1>. QED
  BY <1>3

\* All parts are the whole.
LEMMA PartsWhole ==
    ASSUME NEW S, NEW s \in Seq(Seq(S))
    PROVE  Parts(s)[Len(s)] = FlattenSeq(s)
<1>1. CASE Len(s) = 0
  <2>1. s = <<>>
    BY <1>1
  <2>2. FlattenSeq(s) = <<>>
    BY <1>1, <2>1 DEF FlattenSeq
  <2>. QED BY <1>1, <2>2, PartsExist
<1>2. CASE Len(s) # 0
  <2>. DEFINE Is(g) == g = [i \in 1..Len(s) |-> IF i = 1 THEN s[i] ELSE g[i - 1] \o s[i]]
              flat == CHOOSE g : Is(g)
              parts == [i \in 1..Len(s) |-> Parts(s)[i]]
              T == {n \in Nat : n \in 1..Len(s) => flat[n] = Parts(s)[n]}
  <2>1. FlattenSeq(s) = flat[Len(s)]
    BY <1>2 DEF FlattenSeq
  <2>2. Is(parts)
    <3>1. \A i \in 1..Len(s) : Parts(s)[i] = IF i = 1 THEN s[i] ELSE parts[i - 1] \o s[i]
      <4>. SUFFICES ASSUME NEW i \in 1..Len(s)
                    PROVE  Parts(s)[i] = IF i = 1 THEN s[i] ELSE parts[i - 1] \o s[i]
        OBVIOUS
      <4>1. Parts(s)[i] = Parts(s)[i - 1] \o s[i]
        BY PartsExist
      <4>2. CASE i = 1
        <5>1. s[1] \in Seq(S) /\ i - 1 = 0
          BY <4>2
        <5>2. <<>> \o s[1] = s[1]
          BY <5>1
        <5>. QED BY <4>1, <4>2, <5>1, <5>2, PartsExist
      <4>3. CASE i # 1
        <5>1. i - 1 \in 1..Len(s)
          BY <4>3
        <5>2. parts[i - 1] = Parts(s)[i - 1]
          BY <5>1
        <5>. QED BY <4>1, <4>3, <5>2
      <4>. QED BY <4>2, <4>3
    <3>. QED BY <3>1
  <2>3. Is(flat)
    <3>. HIDE DEF parts
    <3>1. \E g : Is(g)
      BY <2>2
    <3>. QED BY <3>1
  <2>. HIDE DEF flat
  <2>4. \A i \in 1..Len(s) : flat[i] = IF i = 1 THEN s[i] ELSE flat[i - 1] \o s[i]
    BY <2>3, Zenon
  <2>5. 0 \in T
    OBVIOUS
  <2>6. \A n \in T : n + 1 \in T
    <3>. SUFFICES ASSUME NEW n \in Nat, n + 1 \in 1..Len(s), n \in 1..Len(s) => flat[n] = Parts(s)[n]
                  PROVE  flat[n + 1] = Parts(s)[n + 1]
      OBVIOUS
    <3>0. (n + 1) - 1 = n
      OBVIOUS
    <3>1. Parts(s)[n + 1] = Parts(s)[n] \o s[n + 1]
      BY <3>0, PartsExist
    <3>2. CASE n = 0
      <4>1. s[n + 1] \in Seq(S)
        OBVIOUS
      <4>2. <<>> \o s[n + 1] = s[n + 1]
        BY <4>1
      <4>3. flat[n + 1] = s[n + 1]
        BY <2>4, <3>2
      <4>4. Parts(s)[n] = <<>>
        BY <3>2, PartsExist
      <4>. QED BY <3>1, <4>2, <4>3, <4>4
    <3>3. CASE n # 0
      <4>1. n \in 1..Len(s) /\ n + 1 # 1
        BY <3>3
      <4>2. flat[n + 1] = flat[(n + 1) - 1] \o s[n + 1]
        BY <2>4, <4>1, Zenon
      <4>. QED BY <3>0, <3>1, <4>1, <4>2
    <3>. QED BY <3>2, <3>3
  <2>7. T = Nat
    <3>1. T \subseteq Nat
      OBVIOUS
    <3>. HIDE DEF T
    <3>. QED BY <2>5, <2>6, <3>1, Induction
  <2>8. Len(s) \in T /\ Len(s) \in 1..Len(s)
    BY <1>2, <2>7
  <2>. QED BY <2>1, <2>8
<1>. QED
  BY <1>1, <1>2

\* Every part is a prefix of the later ones.
LEMMA PartsGrow ==
    ASSUME NEW S, NEW s \in Seq(Seq(S)), NEW m \in 0..Len(s), NEW n \in 0..Len(s), m <= n
    PROVE  /\ Len(Parts(s)[m]) <= Len(Parts(s)[n])
           /\ \A k \in 1..Len(Parts(s)[m]) : Parts(s)[n][k] = Parts(s)[m][k]
<1>. DEFINE P(i) == Parts(s)[i]
            Grows(i) == Len(P(m)) <= Len(P(i)) /\ \A k \in 1..Len(P(m)) : P(i)[k] = P(m)[k]
            T == {d \in Nat : m + d <= Len(s) => Grows(m + d)}
<1>1. \A i \in 0..Len(s) : P(i) \in Seq(S)
  BY PartsType
<1>2. 0 \in T
  BY <1>1
<1>3. \A d \in T : d + 1 \in T
  <2>. SUFFICES ASSUME NEW d \in Nat, m + (d + 1) <= Len(s), Grows(m + d) PROVE Grows(m + (d + 1))
    OBVIOUS
  <2>1. m + (d + 1) \in 1..Len(s) /\ (m + (d + 1)) - 1 = m + d /\ m + d \in 0..Len(s)
    OBVIOUS
  <2>2. P(m + (d + 1)) = P(m + d) \o s[m + (d + 1)]
    BY <2>1, PartsExist
  <2>3. s[m + (d + 1)] \in Seq(S) /\ P(m + d) \in Seq(S) /\ P(m) \in Seq(S)
    BY <1>1, <2>1
  <2>. DEFINE a == P(m + d)
              b == s[m + (d + 1)]
              c == P(m + (d + 1))
              e == P(m)
  <2>4. c = a \o b /\ a \in Seq(S) /\ b \in Seq(S) /\ e \in Seq(S) /\ Len(e) <= Len(a)
        /\ \A k \in 1..Len(e) : a[k] = e[k]
    BY <2>2, <2>3
  <2>. HIDE DEF a, b, c, e, P
  <2>5. Len(e) <= Len(c) /\ \A k \in 1..Len(e) : c[k] = e[k]
    <3>1. Len(c) = Len(a) + Len(b) /\ \A k \in 1..Len(a) : c[k] = a[k]
      BY <2>4
    <3>2. Len(a) \in Nat /\ Len(b) \in Nat /\ Len(e) \in Nat
      BY <2>4
    <3>. DEFINE la == Len(a)
                lb == Len(b)
                le == Len(e)
    <3>3. la \in Nat /\ lb \in Nat /\ le \in Nat /\ le <= la
      BY <2>4, <3>2
    <3>. HIDE DEF la, lb, le
    <3>4. le <= la + lb /\ \A k \in 1..le : k \in 1..la
      BY <3>3
    <3>5. \A k \in 1..le : c[k] = a[k] /\ a[k] = e[k]
      BY <2>4, <3>1, <3>4 DEF la, le
    <3>. QED BY <3>1, <3>4, <3>5 DEF la, lb, le
  <2>. QED BY <2>5 DEF c, e
<1>4. T = Nat
  <2>1. T \subseteq Nat
    OBVIOUS
  <2>. HIDE DEF T
  <2>. QED BY <1>2, <1>3, <2>1, Induction
<1>5. n - m \in T /\ m + (n - m) = n /\ n <= Len(s)
  <2>1. n - m \in Nat /\ m + (n - m) = n /\ n <= Len(s)
    OBVIOUS
  <2>. HIDE DEF T
  <2>. QED BY <1>4, <2>1
<1>. QED
  BY <1>5
=============================================================================
