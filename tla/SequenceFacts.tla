---------------------------- MODULE SequenceFacts ----------------------------
(****************************************************************************)
(* What the proofs need to know of numbers, folds, sequences and finite     *)
(* sets: induction, the steps of a FoldLeft, how often an element occurs in *)
(* a sequence, and when one sequence is a prefix of another.                *)
(****************************************************************************)
EXTENDS Integers, SequencesExt, FiniteSetsExt, Sieve, FunctionTheorems, FiniteSetTheorems,
        SequenceTheorems, WellFoundedInduction, TLAPS

(* Induction over a set of numbers: no number is the least one outside it.  *)
LEMMA Induction ==
    ASSUME NEW S, 0 \in S, \A n \in Nat : n \in S => n + 1 \in S
    PROVE  Nat \subseteq S
<1> DEFINE R == OpToRel(<, Nat)
           T == Nat \ S
<1> SUFFICES ASSUME T # {} PROVE FALSE OBVIOUS
<1>1. IsWellFoundedOn(R, Nat) BY NatLessThanWellFounded
<1>2. PICK x \in T : \A y \in T : <<y, x>> \notin R
  <2> HIDE DEF R
  <2> QED BY <1>1, WFMin
<1>3. \A y \in T : ~(y < x) BY <1>2 DEF OpToRel
<1>4. x # 0 /\ x - 1 \in Nat /\ x - 1 \in S BY <1>3
<1> QED BY <1>4

(* A set of numbers has a least one, *)
LEMMA MinIn ==
    ASSUME NEW t \in SUBSET Nat, t # {}
    PROVE  Min(t) \in t /\ \A x \in t : Min(t) <= x
<1> DEFINE R == OpToRel(<, Nat)
<1>1. IsWellFoundedOn(R, Nat) BY NatLessThanWellFounded
<1>2. PICK x \in t : \A y \in t : <<y, x>> \notin R
  <2> HIDE DEF R
  <2> QED BY <1>1, WFMin
<1>3. \A y \in t : y \in Nat /\ x \in Nat OBVIOUS
<1>4. \A y \in t : ~(y < x) BY <1>2, <1>3 DEF OpToRel
<1>5. \A y \in t : x <= y BY <1>3, <1>4
<1>6. ASSUME NEW z \in t, \A y \in t : z <= y PROVE z = x
  BY <1>3, <1>5, <1>6
<1> QED BY <1>5, <1>6 DEF Min

(* and, when it is bounded, a greatest one.                                 *)
LEMMA MaxIn ==
    ASSUME NEW n \in Nat, NEW t \in SUBSET (1..n), t # {}
    PROVE  Max(t) \in t /\ \A x \in t : x <= Max(t)
<1> DEFINE Bounds == {b \in 1..n : \A y \in t : y <= b}
<1>1. Bounds \in SUBSET Nat /\ n \in Bounds
  <2>1. PICK y \in t : y \in 1..n OBVIOUS
  <2>2. n \in 1..n BY <2>1
  <2>3. \A x \in t : x <= n OBVIOUS
  <2> QED BY <2>2, <2>3
<1>2. PICK b \in Bounds : \A c \in Bounds : b <= c
  <2> HIDE DEF Bounds
  <2> QED BY <1>1, MinIn
<1>3. b \in t
  <2> SUFFICES ASSUME b \notin t PROVE FALSE OBVIOUS
  <2>1. \A y \in t : y <= b - 1 BY <1>2
  <2>2. PICK y \in t : y \in 1..n OBVIOUS
  <2>3. y <= b - 1 /\ b - 1 \in 1..n BY <2>1, <2>2
  <2> QED BY <1>2, <2>1, <2>3
<1>4. \A y \in t : b >= y BY <1>2
<1>5. \A x \in t : x \in Int OBVIOUS
<1> QED BY <1>3, <1>4, <1>5 DEF Max

LEMMA MaxIs ==
    ASSUME NEW n \in Nat, NEW s \in SUBSET (1..n), n \in s
    PROVE  Max(s) = n
<1>1. Max(s) \in s /\ n <= Max(s) BY MaxIn
<1>2. Max(s) \in 1..n BY <1>1
<1> QED BY <1>1, <1>2

-----------------------------------------------------------------------------
LEMMA Upto ==
    ASSUME NEW n \in Nat, NEW m \in 1..n
    PROVE  /\ m \in Nat /\ m \in 0..n /\ m - 1 \in 0..n
           /\ (1..m) \in SUBSET (1..n) /\ 1..m # {}
           /\ (1..m) \ {m} = 1..(m - 1)
           /\ Max(1..m) = m
<1>1. /\ m \in Nat /\ m \in 0..n /\ m - 1 \in 0..n
      /\ (1..m) \in SUBSET (1..n) /\ m \in 1..m
      /\ (1..m) \ {m} = 1..(m - 1)
  OBVIOUS
<1>2. Max(1..m) = m BY <1>1, MaxIs
<1> QED BY <1>1, <1>2

LEMMA Successor ==
    ASSUME NEW n \in Nat, NEW m \in Nat, m + 1 <= n
    PROVE  m <= n /\ m + 1 \in 1..n /\ (m + 1) - 1 = m
OBVIOUS

LEMMA WithoutLast ==
    ASSUME NEW m \in Nat, NEW s \in SUBSET (1..(m + 1))
    PROVE  /\ s \ {m + 1} \in SUBSET (1..m)
           /\ m + 1 \notin s => s \in SUBSET (1..m)
OBVIOUS

(* FoldLeft is by recursion over the subsets of the sequence's domain.      *)
FoldsThrough(h, D, base, f, seq) ==
    \A s \in D : h[s] = IF s = {} THEN base ELSE f[h[s \ {Max(s)}], seq[Max(s)]]

(* There is a function that satisfies the recursion,                        *)
LEMMA FoldDefined ==
    ASSUME NEW V, NEW base \in V, NEW X, NEW f \in [V \X X -> V],
           NEW n \in Nat, NEW seq, \A m \in 1..n : seq[m] \in X
    PROVE  \E h \in [SUBSET (1..n) -> V] : FoldsThrough(h, SUBSET (1..n), base, f, seq)
<1> DEFINE Defined(m) == \E h \in [SUBSET (1..m) -> V] :
                             FoldsThrough(h, SUBSET (1..m), base, f, seq)
           S == {m \in Nat : m <= n => Defined(m)}
<1>1. 0 \in S
  <2> DEFINE h == [s \in SUBSET (1..0) |-> base]
  <2>1. h \in [SUBSET (1..0) -> V] OBVIOUS
  <2>2. \A s \in SUBSET (1..0) : s = {} OBVIOUS
  <2>3. FoldsThrough(h, SUBSET (1..0), base, f, seq) BY <2>2 DEF FoldsThrough
  <2> HIDE DEF h
  <2> QED BY <2>1, <2>3
<1>2. ASSUME NEW m \in Nat, m + 1 <= n, Defined(m) PROVE Defined(m + 1)
  <2>1. PICK g \in [SUBSET (1..m) -> V] : FoldsThrough(g, SUBSET (1..m), base, f, seq)
    BY <1>2
  <2> DEFINE h == [s \in SUBSET (1..(m + 1)) |->
                     IF m + 1 \in s THEN f[g[s \ {m + 1}], seq[m + 1]] ELSE g[s]]
  <2>2. seq[m + 1] \in X BY <1>2, Successor
  <2>3. ASSUME NEW s \in SUBSET (1..(m + 1)) PROVE h[s] \in V
    <3>1. CASE m + 1 \in s
      <4>1. g[s \ {m + 1}] \in V BY WithoutLast
      <4>2. f[g[s \ {m + 1}], seq[m + 1]] \in V BY <2>2, <4>1
      <4> QED BY <3>1, <4>2
    <3>2. CASE m + 1 \notin s BY <3>2, WithoutLast
    <3> QED BY <3>1, <3>2
  <2>4. h \in [SUBSET (1..(m + 1)) -> V] BY <2>3
  <2>5. ASSUME NEW s \in SUBSET (1..(m + 1))
        PROVE  h[s] = IF s = {} THEN base ELSE f[h[s \ {Max(s)}], seq[Max(s)]]
    <3>1. CASE m + 1 \in s
      <4>1. Max(s) = m + 1 BY <3>1, MaxIs
      <4>2. s \ {m + 1} \in SUBSET (1..(m + 1)) /\ m + 1 \notin s \ {m + 1} OBVIOUS
      <4>3. h[s \ {m + 1}] = g[s \ {m + 1}] BY <4>2
      <4> QED BY <3>1, <4>1, <4>3
    <3>2. CASE m + 1 \notin s
      <4>1. s \in SUBSET (1..m) /\ s \ {Max(s)} \in SUBSET (1..m) BY WithoutLast, <3>2
      <4>2. h[s] = g[s] BY <3>2
      <4>3. s \ {Max(s)} \in SUBSET (1..(m + 1)) /\ m + 1 \notin s \ {Max(s)} BY <3>2
      <4>4. h[s \ {Max(s)}] = g[s \ {Max(s)}] BY <4>3
      <4>5. g[s] = IF s = {} THEN base ELSE f[g[s \ {Max(s)}], seq[Max(s)]]
        BY <2>1, <4>1 DEF FoldsThrough
      <4> QED BY <4>2, <4>4, <4>5
    <3> QED BY <3>1, <3>2
  <2>6. FoldsThrough(h, SUBSET (1..(m + 1)), base, f, seq) BY <2>5 DEF FoldsThrough
  <2> HIDE DEF h
  <2> QED BY <2>4, <2>6
<1>3. Defined(n)
  <2> HIDE DEF Defined
  <2>1. \A m \in Nat : m \in S => m + 1 \in S BY <1>2, Successor
  <2> HIDE DEF S
  <2>2. n \in S BY <1>1, <2>1, Induction
  <2> USE DEF S
  <2> QED BY <2>2
<1> QED BY <1>3

(* and every such function goes through the sequence from left to right.    *)
FoldsWhere(h, D, V, f, seq) ==
    \A t \in D : t # {} /\ h[t \ {Max(t)}] \in V => h[t] = f[h[t \ {Max(t)}], seq[Max(t)]]

FoldsAlong(h, n, V, base, f, seq) ==
    \E G \in [0..n -> V] :
        /\ G[0] = base
        /\ \A m \in 1..n : G[m] = f[G[m - 1], seq[m]]
        /\ h[1..n] = G[n]

LEMMA FoldSteps ==
    ASSUME NEW V, NEW base \in V, NEW X, NEW f \in [V \X X -> V],
           NEW n \in Nat, NEW seq, \A m \in 1..n : seq[m] \in X,
           NEW h, h[{}] = base, FoldsWhere(h, SUBSET (1..n), V, f, seq)
    PROVE  FoldsAlong(h, n, V, base, f, seq)
<1> DEFINE Typed == {m \in Nat : m <= n => h[1..m] \in V}
<1>1. 1..0 = {} /\ h[1..0] = base OBVIOUS
<1>2. ASSUME NEW m \in 1..n, h[1..(m - 1)] \in V
      PROVE  h[1..m] = f[h[1..(m - 1)], seq[m]] /\ h[1..m] \in V
  <2>1. h[1..m] = f[h[1..(m - 1)], seq[m]] BY <1>2, Upto DEF FoldsWhere
  <2>2. f[h[1..(m - 1)], seq[m]] \in V BY <1>2
  <2> QED BY <2>1, <2>2
<1>3. ASSUME NEW m \in Nat, m \in Typed PROVE m + 1 \in Typed
  <2>1. m + 1 <= n => h[1..(m + 1)] \in V BY <1>2, <1>3, Successor
  <2> QED BY <2>1
<1>4. Nat \subseteq Typed
  <2>1. 0 \in Typed BY <1>1
  <2> HIDE DEF Typed
  <2> QED BY <1>3, <2>1, Induction
<1>5. \A m \in 0..n : m \in Nat /\ m <= n OBVIOUS
<1>6. \A m \in 0..n : h[1..m] \in V BY <1>4, <1>5
<1> DEFINE G == [m \in 0..n |-> h[1..m]]
<1>7. G \in [0..n -> V] BY <1>6
<1>8. ASSUME NEW m \in 1..n PROVE G[m] = f[G[m - 1], seq[m]]
  <2>1. m - 1 \in 0..n /\ m \in 0..n BY Upto
  <2> QED BY <1>2, <1>6, <2>1
<1>9. 0 \in 0..n /\ n \in 0..n OBVIOUS
<1>10. G[0] = base /\ h[1..n] = G[n] BY <1>1, <1>9
<1> HIDE DEF G
<1> QED BY <1>7, <1>8, <1>10 DEF FoldsAlong

-----------------------------------------------------------------------------
(* How often an element is in a sequence.                                   *)
Count(s, k) == Quantify(DOMAIN s, LAMBDA n : s[n] = k)

LEMMA CountIs ==
    ASSUME NEW s, NEW n \in Nat, DOMAIN s = 1..n, NEW k
    PROVE  /\ IsFiniteSet({m \in 1..n : s[m] = k})
           /\ Count(s, k) = Cardinality({m \in 1..n : s[m] = k})
           /\ Count(s, k) \in Nat
<1>1. IsFiniteSet(1..n) BY FS_Interval
<1>2. IsFiniteSet({m \in 1..n : s[m] = k}) BY <1>1, FS_Subset
<1>3. Count(s, k) = Cardinality({m \in 1..n : s[m] = k}) BY DEF Count, Quantify
<1> QED BY <1>2, <1>3, FS_CardinalityType

LEMMA CountEmpty ==
    ASSUME NEW k
    PROVE  Count(<<>>, k) = 0
<1>1. {m \in DOMAIN <<>> : <<>>[m] = k} = {} OBVIOUS
<1> QED BY <1>1, FS_EmptySet DEF Count, Quantify

(* An element is in the sequence if it occurs at all.                       *)
LEMMA CountZero ==
    ASSUME NEW s, NEW n \in Nat, DOMAIN s = 1..n, NEW k
    PROVE  Count(s, k) = 0 <=> \A m \in 1..n : s[m] # k
<1> DEFINE A == {m \in 1..n : s[m] = k}
<1>1. IsFiniteSet(A) /\ Count(s, k) = Cardinality(A) BY CountIs
<1>2. Cardinality(A) = 0 <=> A = {}
  <2> HIDE DEF A
  <2> QED BY <1>1, FS_EmptySet
<1>3. A = {} <=> \A m \in 1..n : s[m] # k OBVIOUS
<1> QED BY <1>1, <1>2, <1>3

Places(s, n, k) == {m \in 1..n : s[m] = k}

LEMMA CountPlaces ==
    ASSUME NEW s, NEW n \in Nat, DOMAIN s = 1..n, NEW k
    PROVE  IsFiniteSet(Places(s, n, k)) /\ Count(s, k) = Cardinality(Places(s, n, k))
BY CountIs DEF Places

(* Without its i-th element a sequence has that element once less.          *)
LEMMA CountRemoveAt ==
    ASSUME NEW S, NEW s \in Seq(S), NEW i \in 1..Len(s), NEW k
    PROVE  /\ RemoveAt(s, i) \in Seq(S) /\ Len(RemoveAt(s, i)) = Len(s) - 1
           /\ \A m \in 1..(Len(s) - 1) :
                  RemoveAt(s, i)[m] = IF m < i THEN s[m] ELSE s[m + 1]
           /\ Count(s, k) = Count(RemoveAt(s, i), k) + (IF s[i] = k THEN 1 ELSE 0)
<1> DEFINE r == RemoveAt(s, i)
           n == Len(s)
           A == {m \in 1..n : s[m] = k}
           B == {m \in 1..(n - 1) : r[m] = k}
<1>1. /\ r \in Seq(S) /\ Len(r) = n - 1
      /\ \A m \in 1..(n - 1) : r[m] = IF m < i THEN s[m] ELSE s[m + 1]
  <2>1. \A m \in 1..n : s[m] \in S BY ElementOfSeq
  <2>2. /\ SubSeq(s, 1, i - 1) \in Seq(S) /\ Len(SubSeq(s, 1, i - 1)) = i - 1
        /\ \A m \in 1..(i - 1) : SubSeq(s, 1, i - 1)[m] = s[m]
    BY <2>1, SubSeqProperties
  <2>3. /\ SubSeq(s, i + 1, n) \in Seq(S) /\ Len(SubSeq(s, i + 1, n)) = n - i
        /\ \A m \in 1..(n - i) : SubSeq(s, i + 1, n)[m] = s[i + m]
    BY <2>1, SubSeqProperties
  <2>4. i - 1 \in Nat /\ n - i \in Nat /\ (i - 1) + (n - i) = n - 1 OBVIOUS
  <2>5. /\ r \in Seq(S) /\ Len(r) = n - 1
        /\ \A m \in 1..(n - 1) :
               r[m] = IF m <= i - 1 THEN SubSeq(s, 1, i - 1)[m]
                                    ELSE SubSeq(s, i + 1, n)[m - (i - 1)]
    <3> DEFINE a == SubSeq(s, 1, i - 1)
               b == SubSeq(s, i + 1, n)
    <3>1. r = a \o b BY DEF RemoveAt
    <3>2. a \in Seq(S) /\ b \in Seq(S) /\ Len(a) = i - 1 /\ Len(b) = n - i BY <2>2, <2>3
    <3> HIDE DEF a, b, r
    <3>3. /\ a \o b \in Seq(S) /\ Len(a \o b) = Len(a) + Len(b)
          /\ \A m \in 1..(Len(a) + Len(b)) :
                 (a \o b)[m] = IF m <= Len(a) THEN a[m] ELSE b[m - Len(a)]
      BY ONLY <3>2, ConcatProperties
    <3>4. /\ r \in Seq(S) /\ Len(r) = n - 1
          /\ \A m \in 1..(n - 1) : r[m] = IF m <= i - 1 THEN a[m] ELSE b[m - (i - 1)]
      BY ONLY <2>4, <3>1, <3>2, <3>3
    <3> QED BY <3>4 DEF a, b
  <2>6. ASSUME NEW m \in 1..(n - 1) PROVE r[m] = IF m < i THEN s[m] ELSE s[m + 1]
    <3>1. CASE m < i
      <4>1. m \in 1..(i - 1) BY <3>1
      <4> QED BY <2>2, <2>5, <3>1, <4>1
    <3>2. CASE ~(m < i)
      <4>1. ~(m <= i - 1) /\ m - (i - 1) \in 1..(n - i) /\ i + (m - (i - 1)) = m + 1
        BY <3>2
      <4>2. r[m] = SubSeq(s, i + 1, n)[m - (i - 1)] BY <2>5, <4>1
      <4>3. SubSeq(s, i + 1, n)[m - (i - 1)] = s[i + (m - (i - 1))] BY <2>3, <4>1
      <4> QED BY <3>2, <4>1, <4>2, <4>3
    <3> QED BY <3>1, <3>2
  <2> QED BY <2>5, <2>6
<1>2. n \in Nat /\ n - 1 \in Nat /\ DOMAIN s = 1..n /\ DOMAIN r = 1..(n - 1) BY <1>1
<1> HIDE DEF r
<1>3. ExistsBijection(B, A \ {i})
  <2> DEFINE f == [m \in B |-> IF m < i THEN m ELSE m + 1]
  <2>1. f \in [B -> A \ {i}] BY <1>1, <1>2
  <2>2. \A m, o \in B : f[m] = f[o] => m = o OBVIOUS
  <2>3. ASSUME NEW a \in A \ {i} PROVE \E m \in B : f[m] = a
    <3>1. CASE a < i
      <4>1. a \in B /\ f[a] = a BY <1>1, <1>2, <3>1
      <4> QED BY <4>1
    <3>2. CASE ~(a < i)
      <4>1. a > i /\ a \in 1..n /\ s[a] = k BY <3>2
      <4>2. a - 1 \in 1..(n - 1) /\ ~(a - 1 < i) /\ (a - 1) + 1 = a BY <4>1, <1>2
      <4>3. a - 1 \in B BY <1>1, <4>1, <4>2
      <4>4. f[a - 1] = a BY <4>2, <4>3
      <4> QED BY <4>3, <4>4
    <3> QED BY <3>1, <3>2
  <2>4. f \in Bijection(B, A \ {i})
    <3> HIDE DEF f, A, B
    <3> QED BY <2>1, <2>2, <2>3, Fun_IsBij
  <2> QED BY <2>4 DEF ExistsBijection
<1>4. /\ IsFiniteSet(A) /\ Count(s, k) = Cardinality(A)
      /\ IsFiniteSet(B) /\ Count(r, k) = Cardinality(B)
  <2>1. IsFiniteSet(A) /\ Count(s, k) = Cardinality(A)
    <3>1. n \in Nat /\ DOMAIN s = 1..n BY <1>2
    <3> HIDE DEF n
    <3> QED BY ONLY <3>1, CountIs
  <2>2. IsFiniteSet(B) /\ Count(r, k) = Cardinality(B)
    <3>1. PICK q \in Nat : q = n - 1 /\ DOMAIN r = 1..q BY <1>2
    <3>2. IsFiniteSet(Places(r, q, k)) /\ Count(r, k) = Cardinality(Places(r, q, k))
      BY ONLY <3>1, CountPlaces
    <3>3. Places(r, q, k) = B BY <3>1 DEF Places
    <3> QED BY <3>2, <3>3
  <2> QED BY <2>1, <2>2
<1>5. Cardinality(B) = Cardinality(A \ {i}) /\ IsFiniteSet(A \ {i})
  <2>1. IsFiniteSet(A \ {i}) BY <1>4, FS_Subset
  <2> QED BY <1>3, <1>4, <2>1, FS_Bijection
<1>6. Cardinality(A \ {i}) = IF i \in A THEN Cardinality(A) - 1 ELSE Cardinality(A)
  BY <1>4, FS_RemoveElement
<1>7. i \in A <=> s[i] = k OBVIOUS
<1>8. Cardinality(A) \in Nat BY <1>4, FS_CardinalityType
<1>9. Count(s, k) = Count(r, k) + (IF s[i] = k THEN 1 ELSE 0)
  <2> HIDE DEF A, B
  <2> QED BY <1>4, <1>5, <1>6, <1>7, <1>8
<1> QED BY <1>1, <1>9 DEF r

LEMMA TailIsRemoveAt ==
    ASSUME NEW S, NEW s \in Seq(S), s # <<>>
    PROVE  Tail(s) = RemoveAt(s, 1)
<1>1. 1 \in 1..Len(s) BY EmptySeq
<1>2. /\ Tail(s) \in Seq(S) /\ Len(Tail(s)) = Len(s) - 1
      /\ \A i \in 1..Len(Tail(s)) : Tail(s)[i] = s[i + 1]
  BY HeadTailProperties
<1>3. /\ RemoveAt(s, 1) \in Seq(S) /\ Len(RemoveAt(s, 1)) = Len(s) - 1
      /\ \A i \in 1..(Len(s) - 1) : RemoveAt(s, 1)[i] = s[i + 1]
  BY <1>1, CountRemoveAt
<1> QED BY <1>2, <1>3, SeqEqual

LEMMA CountAppend ==
    ASSUME NEW S, NEW s \in Seq(S), NEW e \in S, NEW k
    PROVE  Count(Append(s, e), k) = Count(s, k) + (IF e = k THEN 1 ELSE 0)
<1> DEFINE t == Append(s, e)
           n == Len(s)
<1>1. /\ t \in Seq(S) /\ Len(t) = n + 1 /\ n + 1 \in 1..Len(t) /\ n \in Nat
      /\ t[n + 1] = e /\ \A i \in 1..n : t[i] = s[i]
  BY AppendProperties
<1> HIDE DEF t
<1>2. RemoveAt(t, n + 1) = s
  <2>1. /\ RemoveAt(t, n + 1) \in Seq(S) /\ Len(RemoveAt(t, n + 1)) = n
        /\ \A i \in 1..n : RemoveAt(t, n + 1)[i] = t[i]
    BY <1>1, CountRemoveAt
  <2> QED BY <1>1, <2>1, SeqEqual
<1>3. Count(t, k) = Count(RemoveAt(t, n + 1), k) + (IF t[n + 1] = k THEN 1 ELSE 0)
  <2> HIDE DEF n
  <2> QED BY <1>1, CountRemoveAt
<1> QED BY <1>1, <1>2, <1>3 DEF t

(* The elements of a sequence, of its tail, and with one more.              *)
LEMMA ToSetIs ==
    ASSUME NEW S, NEW s \in Seq(S)
    PROVE  ToSet(s) = {s[n] : n \in 1..Len(s)} /\ ToSet(s) \subseteq S
BY LenProperties, ElementOfSeq DEF ToSet

LEMMA ToSetTail ==
    ASSUME NEW S, NEW s \in Seq(S), s # <<>>
    PROVE  ToSet(Tail(s)) \subseteq ToSet(s)
<1>1. /\ Tail(s) \in Seq(S) /\ Len(Tail(s)) = Len(s) - 1 /\ Len(s) \in Nat
      /\ \A n \in 1..Len(Tail(s)) : Tail(s)[n] = s[n + 1]
  BY HeadTailProperties, LenProperties
<1>2. \A n \in 1..Len(Tail(s)) : n + 1 \in 1..Len(s) BY <1>1
<1>3. ToSet(Tail(s)) = {Tail(s)[n] : n \in 1..Len(Tail(s))} BY ONLY <1>1, ToSetIs
<1>4. ToSet(s) = {s[n] : n \in 1..Len(s)} BY ToSetIs
<1>5. ASSUME NEW x \in ToSet(Tail(s)) PROVE x \in ToSet(s)
  <2>1. PICK n \in 1..Len(Tail(s)) : x = Tail(s)[n] BY <1>3
  <2> QED BY <1>1, <1>2, <1>4, <2>1
<1> QED BY <1>5

LEMMA ToSetAppend ==
    ASSUME NEW S, NEW s \in Seq(S), NEW e \in S
    PROVE  ToSet(Append(s, e)) = ToSet(s) \cup {e}
<1>1. /\ Append(s, e) \in Seq(S) /\ Len(Append(s, e)) = Len(s) + 1 /\ Len(s) \in Nat
      /\ \A n \in 1..Len(s) : Append(s, e)[n] = s[n]
      /\ Append(s, e)[Len(s) + 1] = e
  BY AppendProperties, LenProperties
<1>2. 1..(Len(s) + 1) = 1..Len(s) \cup {Len(s) + 1} BY <1>1
<1>3. ToSet(s) = {s[n] : n \in 1..Len(s)} BY ToSetIs
<1> DEFINE t == Append(s, e)
<1>4. ToSet(t) = {t[n] : n \in 1..Len(t)}
  <2>1. t \in Seq(S) BY <1>1
  <2> HIDE DEF t
  <2> QED BY ONLY <2>1, ToSetIs
<1>5. ToSet(t) = {t[n] : n \in 1..Len(s)} \cup {t[Len(s) + 1]}
  <2>1. Len(t) = Len(s) + 1 BY <1>1
  <2> HIDE DEF t
  <2> QED BY <1>2, <1>4, <2>1
<1>6. {t[n] : n \in 1..Len(s)} = {s[n] : n \in 1..Len(s)} BY <1>1
<1>7. t[Len(s) + 1] = e BY <1>1
<1> HIDE DEF t
<1> QED BY <1>3, <1>5, <1>6, <1>7 DEF t

(* Without one of its elements a sequence that has each once has it no more. *)
LEMMA InjectiveRemoveAt ==
    ASSUME NEW S, NEW s \in Seq(S), IsInjective(s), NEW i \in 1..Len(s)
    PROVE  /\ RemoveAt(s, i) \in Seq(S) /\ Len(RemoveAt(s, i)) = Len(s) - 1
           /\ IsInjective(RemoveAt(s, i))
           /\ ToSet(RemoveAt(s, i)) = ToSet(s) \ {s[i]}
<1> DEFINE r == RemoveAt(s, i)
           n == Len(s)
<1>1. /\ r \in Seq(S) /\ Len(r) = n - 1 /\ n \in Nat
      /\ \A m \in 1..(n - 1) : r[m] = IF m < i THEN s[m] ELSE s[m + 1]
  BY CountRemoveAt, LenProperties
<1>2. DOMAIN s = 1..n /\ DOMAIN r = 1..(n - 1) BY <1>1, LenProperties
<1> DEFINE o(m) == IF m < i THEN m ELSE m + 1
<1>3. \A m \in 1..(n - 1) : o(m) \in 1..n /\ o(m) # i /\ r[m] = s[o(m)] BY <1>1
<1>4. \A l, m \in 1..(n - 1) : o(l) = o(m) => l = m BY <1>1
<1>5. \A m \in 1..n : m # i => \E l \in 1..(n - 1) : o(l) = m
  <2> TAKE m \in 1..n
  <2> HAVE m # i
  <2>1. CASE m < i
    <3>1. m \in 1..(n - 1) BY <1>1, <2>1
    <3> QED BY <2>1, <3>1
  <2>2. CASE m > i
    <3>1. m - 1 \in 1..(n - 1) /\ ~(m - 1 < i) /\ (m - 1) + 1 = m BY <1>1, <2>2
    <3> QED BY <3>1
  <2> QED BY <1>1, <2>1, <2>2
<1> HIDE DEF r, o
<1>6. \A l, m \in 1..n : s[l] = s[m] => l = m BY <1>2 DEF IsInjective
<1>7. IsInjective(r)
  <2>1. ASSUME NEW l \in 1..(n - 1), NEW m \in 1..(n - 1), r[l] = r[m] PROVE l = m
    <3>1. o(l) = o(m) BY <1>3, <1>6, <2>1
    <3> QED BY <1>4, <3>1
  <2> QED BY <1>2, <2>1 DEF IsInjective
<1>8. ToSet(r) = {r[m] : m \in 1..(n - 1)} /\ ToSet(s) = {s[m] : m \in 1..n}
  BY <1>2 DEF ToSet
<1>9. ToSet(r) = ToSet(s) \ {s[i]}
  <2>1. ASSUME NEW x \in ToSet(r) PROVE x \in ToSet(s) \ {s[i]}
    <3>1. PICK m \in 1..(n - 1) : x = r[m] BY <1>8
    <3> QED BY <1>3, <1>6, <1>8, <3>1
  <2>2. ASSUME NEW x \in ToSet(s) \ {s[i]} PROVE x \in ToSet(r)
    <3>1. PICK m \in 1..n : x = s[m] BY <1>8
    <3>2. PICK l \in 1..(n - 1) : o(l) = m BY <1>5, <3>1
    <3> QED BY <1>3, <1>8, <3>1, <3>2
  <2> QED BY <2>1, <2>2
<1> QED BY <1>1, <1>7, <1>9 DEF r

LEMMA InjectiveRemoveFirst ==
    ASSUME NEW S, NEW s \in Seq(S), IsInjective(s), NEW x
    PROVE  /\ RemoveFirst(s, x) \in Seq(S) /\ Len(RemoveFirst(s, x)) <= Len(s)
           /\ IsInjective(RemoveFirst(s, x))
           /\ ToSet(RemoveFirst(s, x)) = ToSet(s) \ {x}
<1> DEFINE places == {n \in 1..Len(s) : s[n] = x}
<1>1. Len(s) \in Nat /\ ToSet(s) = {s[n] : n \in 1..Len(s)} BY LenProperties, ToSetIs
<1>2. CASE places = {}
  <2>1. RemoveFirst(s, x) = s BY <1>2 DEF RemoveFirst
  <2>2. x \notin ToSet(s) BY <1>1, <1>2
  <2> QED BY <1>1, <2>1, <2>2
<1>3. CASE places # {}
  <2>1. RemoveFirst(s, x) = RemoveAt(s, Min(places)) BY <1>3 DEF RemoveFirst, SelectInSeq
  <2>2. Min(places) \in places
    <3>1. places \in SUBSET Nat BY <1>1
    <3> HIDE DEF places
    <3> QED BY <1>3, <3>1, MinIn
  <2>3. Min(places) \in 1..Len(s) /\ s[Min(places)] = x BY <2>2
  <2> DEFINE n == Min(places)
  <2>4. n \in 1..Len(s) /\ s[n] = x /\ RemoveFirst(s, x) = RemoveAt(s, n) BY <2>1, <2>3
  <2> HIDE DEF places, n
  <2>5. /\ RemoveAt(s, n) \in Seq(S) /\ Len(RemoveAt(s, n)) = Len(s) - 1
        /\ IsInjective(RemoveAt(s, n))
        /\ ToSet(RemoveAt(s, n)) = ToSet(s) \ {s[n]}
    BY <2>4, InjectiveRemoveAt
  <2>6. Len(RemoveAt(s, n)) <= Len(s) BY <1>1, <2>5
  <2> QED BY <2>4, <2>5, <2>6
<1> QED BY <1>2, <1>3

LEMMA InjectiveTail ==
    ASSUME NEW S, NEW s \in Seq(S), IsInjective(s), s # <<>>
    PROVE  /\ Tail(s) \in Seq(S) /\ Len(Tail(s)) = Len(s) - 1 /\ IsInjective(Tail(s))
           /\ Head(s) \in ToSet(s) /\ ToSet(Tail(s)) = ToSet(s) \ {Head(s)}
<1>1. 1 \in 1..Len(s) /\ Head(s) = s[1] BY EmptySeq, HeadTailProperties
<1>2. Head(s) \in ToSet(s) BY <1>1, ToSetIs
<1>3. /\ RemoveAt(s, 1) \in Seq(S) /\ Len(RemoveAt(s, 1)) = Len(s) - 1
      /\ IsInjective(RemoveAt(s, 1))
      /\ ToSet(RemoveAt(s, 1)) = ToSet(s) \ {s[1]}
  BY <1>1, InjectiveRemoveAt
<1>4. Tail(s) = RemoveAt(s, 1) BY TailIsRemoveAt
<1> QED BY <1>1, <1>2, <1>3, <1>4

LEMMA InjectiveAppend ==
    ASSUME NEW S, NEW s \in Seq(S), IsInjective(s), NEW e \in S, e \notin ToSet(s)
    PROVE  IsInjective(Append(s, e))
<1> DEFINE t == Append(s, e)
<1>1. /\ t \in Seq(S) /\ Len(t) = Len(s) + 1 /\ Len(s) \in Nat
      /\ \A n \in 1..Len(s) : t[n] = s[n] /\ s[n] # e
      /\ t[Len(s) + 1] = e
  BY AppendProperties, LenProperties, ToSetIs
<1>2. DOMAIN t = 1..(Len(s) + 1) /\ DOMAIN s = 1..Len(s) BY <1>1, LenProperties
<1> HIDE DEF t
<1>3. ASSUME NEW l \in 1..(Len(s) + 1), NEW m \in 1..(Len(s) + 1), t[l] = t[m]
      PROVE  l = m
  <2>1. CASE l = Len(s) + 1 /\ m = Len(s) + 1 BY <2>1
  <2>2. CASE l = Len(s) + 1 /\ m \in 1..Len(s) BY <1>1, <1>3, <2>2
  <2>3. CASE l \in 1..Len(s) /\ m = Len(s) + 1 BY <1>1, <1>3, <2>3
  <2>4. CASE l \in 1..Len(s) /\ m \in 1..Len(s)
    BY <1>1, <1>2, <1>3, <2>4 DEF IsInjective
  <2> QED BY <1>1, <2>1, <2>2, <2>3, <2>4
<1>4. IsInjective(t) BY <1>2, <1>3 DEF IsInjective
<1> QED BY <1>4 DEF t

LEMMA InjectiveLen ==
    ASSUME NEW S, NEW s \in Seq(S), IsInjective(s)
    PROVE  IsFiniteSet(ToSet(s)) /\ Len(s) = Cardinality(ToSet(s))
<1>1. Len(s) \in Nat /\ DOMAIN s = 1..Len(s) /\ ToSet(s) = {s[n] : n \in 1..Len(s)}
  BY LenProperties, ToSetIs
<1>2. IsFiniteSet(1..Len(s)) /\ Cardinality(1..Len(s)) = Len(s)
  BY <1>1, FS_Interval
<1>3. s \in Bijection(1..Len(s), ToSet(s))
  <2>1. s \in [1..Len(s) -> ToSet(s)] BY <1>1, LenProperties, SeqDef
  <2>2. \A l, m \in 1..Len(s) : s[l] = s[m] => l = m BY <1>1 DEF IsInjective
  <2>3. \A x \in ToSet(s) : \E l \in 1..Len(s) : s[l] = x BY <1>1
  <2> QED BY <2>1, <2>2, <2>3, Fun_IsBij
<1>4. ExistsBijection(1..Len(s), ToSet(s)) BY <1>3 DEF ExistsBijection
<1>5. IsFiniteSet(ToSet(s)) /\ Cardinality(ToSet(s)) = Len(s)
  BY ONLY <1>2, <1>4, FS_Bijection
<1> QED BY <1>5

(* A sequence grows from nothing by its elements in order.                  *)
LEMMA PrefixSteps ==
    ASSUME NEW S, NEW s \in Seq(S)
    PROVE  /\ SubSeq(s, 1, 0) = <<>>
           /\ SubSeq(s, 1, Len(s)) = s
           /\ \A m \in 0..Len(s) : SubSeq(s, 1, m) \in Seq(S) /\ Len(SubSeq(s, 1, m)) = m
           /\ \A m \in Nat : m + 1 <= Len(s) =>
                  SubSeq(s, 1, m + 1) = Append(SubSeq(s, 1, m), s[m + 1])
<1>1. \A n \in 1..Len(s) : s[n] \in S BY ElementOfSeq
<1>2. ASSUME NEW m \in 0..Len(s)
      PROVE  /\ SubSeq(s, 1, m) \in Seq(S) /\ Len(SubSeq(s, 1, m)) = m
             /\ \A i \in 1..m : SubSeq(s, 1, m)[i] = s[i]
  BY <1>1, SubSeqProperties
<1>3. ASSUME NEW m \in Nat, m + 1 <= Len(s)
      PROVE  SubSeq(s, 1, m + 1) = Append(SubSeq(s, 1, m), s[m + 1])
  <2> DEFINE a == SubSeq(s, 1, m)
             b == SubSeq(s, 1, m + 1)
  <2>1. m \in 0..Len(s) /\ m + 1 \in 0..Len(s) /\ m + 1 \in 1..Len(s) BY <1>3
  <2>2. a \in Seq(S) /\ Len(a) = m /\ \A i \in 1..m : a[i] = s[i] BY <1>2, <2>1
  <2>3. b \in Seq(S) /\ Len(b) = m + 1 /\ \A i \in 1..(m + 1) : b[i] = s[i] BY <1>2, <2>1
  <2>4. s[m + 1] \in S BY <1>1, <2>1
  <2> HIDE DEF a, b
  <2>5. /\ Append(a, s[m + 1]) \in Seq(S) /\ Len(Append(a, s[m + 1])) = m + 1
        /\ \A i \in 1..m : Append(a, s[m + 1])[i] = s[i]
        /\ Append(a, s[m + 1])[m + 1] = s[m + 1]
    BY <2>2, <2>4, AppendProperties
  <2>6. b = Append(a, s[m + 1]) BY <2>3, <2>5, SeqEqual
  <2> QED BY <2>6 DEF a, b
<1> QED BY <1>2, <1>3, SubSeqFull, SubSeqEmpty

-----------------------------------------------------------------------------
(* Prefixes, element by element. *)
LEMMA PrefixIs ==
    ASSUME NEW S, NEW s \in Seq(S), NEW t \in Seq(S)
    PROVE  IsPrefix(s, t) <=> Len(s) <= Len(t) /\ \A n \in 1..Len(s) : s[n] = t[n]
<1>1. Len(s) \in Nat /\ Len(t) \in Nat OBVIOUS
<1>2. CASE Len(s) <= Len(t)
  <2>1. /\ SubSeq(s, 1, Len(s)) \in Seq(S) /\ Len(SubSeq(s, 1, Len(s))) = Len(s)
        /\ \A n \in 1..Len(s) : SubSeq(s, 1, Len(s))[n] = s[n]
    BY <1>1, SubSeqProperties
  <2>2. /\ SubSeq(t, 1, Len(s)) \in Seq(S) /\ Len(SubSeq(t, 1, Len(s))) = Len(s)
        /\ \A n \in 1..Len(s) : SubSeq(t, 1, Len(s))[n] = t[n]
    BY <1>1, <1>2, SubSeqProperties
  <2> QED BY <1>2, <2>1, <2>2, SeqEqual DEF IsPrefix
<1>3. CASE ~(Len(s) <= Len(t)) BY <1>3 DEF IsPrefix
<1> QED BY <1>2, <1>3

(* Two prefixes of one sequence: the shorter is one of the longer. *)
LEMMA PrefixesCompare ==
    ASSUME NEW S, NEW r \in Seq(S), NEW s \in Seq(S), NEW t \in Seq(S),
           IsPrefix(r, t), IsPrefix(s, t), Len(r) <= Len(s)
    PROVE  IsPrefix(r, s)
<1>1. Len(r) \in Nat /\ Len(s) \in Nat OBVIOUS
<1>2. \A n \in 1..Len(r) : r[n] = t[n] BY PrefixIs
<1>3. \A n \in 1..Len(s) : s[n] = t[n] BY PrefixIs
<1>4. \A n \in 1..Len(r) : n \in 1..Len(s) BY <1>1
<1> QED BY <1>2, <1>3, <1>4, PrefixIs

LEMMA PrefixTransitive ==
    ASSUME NEW S, NEW r \in Seq(S), NEW s \in Seq(S), NEW t \in Seq(S),
           IsPrefix(r, s), IsPrefix(s, t)
    PROVE  IsPrefix(r, t)
<1>1. Len(r) \in Nat /\ Len(s) \in Nat /\ Len(t) \in Nat OBVIOUS
<1>2. Len(r) <= Len(s) /\ \A n \in 1..Len(r) : r[n] = s[n] BY PrefixIs
<1>3. Len(s) <= Len(t) /\ \A n \in 1..Len(s) : s[n] = t[n] BY PrefixIs
<1>4. \A n \in 1..Len(r) : n \in 1..Len(s) BY <1>1, <1>2
<1>5. Len(r) <= Len(t) BY <1>1, <1>2, <1>3
<1> QED BY <1>2, <1>3, <1>4, <1>5, PrefixIs

LEMMA PrefixSame ==
    ASSUME NEW S, NEW s \in Seq(S), NEW t \in Seq(S), IsPrefix(s, t), Len(s) = Len(t)
    PROVE  s = t
BY PrefixIs, SeqEqual

LEMMA PrefixSelf == ASSUME NEW S, NEW s \in Seq(S) PROVE IsPrefix(s, s)
BY PrefixIs

(* A sequence that goes on as another does from some place. *)
LEMMA GoesOn ==
    ASSUME NEW S, NEW s \in Seq(S), NEW t \in Seq(S), NEW k \in 0..Len(t)
    PROVE  /\ s \o SubSeq(t, k + 1, Len(t)) \in Seq(S)
           /\ Len(s \o SubSeq(t, k + 1, Len(t))) = Len(s) + (Len(t) - k)
           /\ IsPrefix(s, s \o SubSeq(t, k + 1, Len(t)))
<1> DEFINE u == SubSeq(t, k + 1, Len(t))
<1>1. Len(s) \in Nat /\ Len(t) \in Nat OBVIOUS
<1>2. u \in Seq(S) /\ Len(u) = Len(t) - k BY <1>1, SubSeqProperties
<1> HIDE DEF u
<1>3. /\ s \o u \in Seq(S) /\ Len(s \o u) = Len(s) + Len(u)
      /\ \A n \in 1..Len(s) : (s \o u)[n] = s[n]
  <2>1. /\ s \o u \in Seq(S) /\ Len(s \o u) = Len(s) + Len(u)
        /\ \A n \in 1..(Len(s) + Len(u)) :
               (s \o u)[n] = IF n <= Len(s) THEN s[n] ELSE u[n - Len(s)]
    BY <1>2, ConcatProperties
  <2>2. \A n \in 1..Len(s) : n \in 1..(Len(s) + Len(u)) /\ n <= Len(s)
    BY <1>1, <1>2
  <2> QED BY <2>1, <2>2
<1>4. Len(u) \in Nat /\ Len(s) <= Len(s \o u) BY <1>1, <1>2, <1>3
<1>5. IsPrefix(s, s \o u) BY <1>3, <1>4, PrefixIs
<1> QED BY <1>2, <1>3, <1>5 DEF u

(* The elements of a finite set, each once. *)
LEMMA SetInSequence ==
    ASSUME NEW S, IsFiniteSet(S)
    PROVE  /\ SetToSeq(S) \in Seq(S) /\ IsInjective(SetToSeq(S))
           /\ ToSet(SetToSeq(S)) = S
<1> DEFINE n == Cardinality(S)
           f == SetToSeq(S)
<1>1. n \in Nat BY FS_CardinalityType
<1>2. IsFiniteSet(1..n) /\ Cardinality(1..n) = n BY <1>1, FS_Interval
<1>3. PICK g \in Bijection(1..n, S) : TRUE
  BY <1>1, <1>2, FS_SameCardinalityBij DEF ExistsBijection
<1>4. g \in [1..n -> S] /\ IsInjective(g) BY <1>3 DEF Bijection, Injection
<1>5. f \in [1..n -> S] /\ IsInjective(f) BY <1>4 DEF SetToSeq
<1> HIDE DEF f
<1>6. f \in Surjection(1..n, S)
  <2>1. f \in Injection(1..n, S) BY <1>5 DEF Injection
  <2> QED BY <1>2, <2>1, FS_Injection
<1>7. \A x \in S : \E m \in 1..n : f[m] = x BY <1>6 DEF Surjection
<1>8. ToSet(f) = S BY <1>5, <1>7 DEF ToSet
<1>9. f \in Seq(S) BY <1>1, <1>5
<1> QED BY <1>5, <1>8, <1>9 DEF f

(* The image of a finite set under a function. *)
LEMMA FiniteImage ==
    ASSUME NEW S, IsFiniteSet(S), NEW f
    PROVE  IsFiniteSet({f[x] : x \in S})
<1> DEFINE T == {f[x] : x \in S}
           g == [x \in S |-> f[x]]
<1>1. g \in [S -> T] OBVIOUS
<1>2. \A t \in T : \E x \in S : g[x] = t OBVIOUS
<1>3. g \in Surjection(S, T)
  <2> HIDE DEF g, T
  <2> QED BY <1>1, <1>2 DEF Surjection
<1> HIDE DEF g, T
<1>4. IsFiniteSet(T) BY <1>3, FS_Surjection
<1> QED BY <1>4 DEF T

(* Of the places in a set, the last of those with the greatest value.       *)
Outranks(g, n, m) == g[m] < g[n] \/ (g[m] = g[n] /\ m <= n)

LEMMA LastGreatest ==
    ASSUME NEW L \in Nat, NEW g \in [1..L -> Nat], NEW T \in SUBSET (1..L), T # {}
    PROVE  \E n \in T : \A m \in T : Outranks(g, n, m)
<1> DEFINE Found(l) == \A i \in T : i <= l =>
               \E n \in T : n <= l /\ \A m \in T : m <= l => Outranks(g, n, m)
           S == {l \in Nat : Found(l)}
<1>1. 0 \in S OBVIOUS
<1>2. ASSUME NEW l \in Nat, l \in S PROVE l + 1 \in S
  <2>1. CASE l + 1 \notin T
    <3>1. \A i \in T : i <= l + 1 <=> i <= l BY <2>1
    <3> QED BY <1>2, <3>1
  <2>2. CASE l + 1 \in T
    <3>1. \A i \in T : i <= l + 1 <=> i <= l \/ i = l + 1 OBVIOUS
    <3>2. CASE \A i \in T : ~(i <= l)
      <4>1. \A m \in T : m <= l + 1 => Outranks(g, l + 1, m)
        BY <2>2, <3>1, <3>2 DEF Outranks
      <4> QED BY <2>2, <4>1
    <3>3. CASE \E i \in T : i <= l
      <4>1. PICK n \in T : n <= l /\ \A m \in T : m <= l => Outranks(g, n, m)
        BY <1>2, <3>3
      <4>2. g[n] \in Nat /\ g[l + 1] \in Nat /\ \A m \in T : g[m] \in Nat BY <2>2
      <4>3. CASE g[n] <= g[l + 1]
        <5>1. ASSUME NEW m \in T, m <= l + 1 PROVE Outranks(g, l + 1, m)
          <6>1. CASE m = l + 1 BY <6>1 DEF Outranks
          <6>2. CASE m <= l BY <4>1, <4>2, <4>3, <6>2 DEF Outranks
          <6> QED BY <3>1, <5>1, <6>1, <6>2
        <5> QED BY <2>2, <5>1
      <4>4. CASE g[l + 1] < g[n]
        <5>1. \A m \in T : m <= l + 1 => Outranks(g, n, m)
          BY <3>1, <4>1, <4>4 DEF Outranks
        <5> QED BY <4>1, <5>1
      <4>5. g[n] <= g[l + 1] \/ g[l + 1] < g[n] BY ONLY <4>2
      <4> QED BY <4>3, <4>4, <4>5
    <3> QED BY <3>2, <3>3
  <2> QED BY <2>1, <2>2
<1>3. L \in S
  <2> HIDE DEF S
  <2> QED BY <1>1, <1>2, Induction
<1>4. Found(L) BY <1>3
<1>5. \A i \in T : i <= L OBVIOUS
<1> HIDE DEF Found
<1>6. PICK i \in T : TRUE OBVIOUS
<1> QED BY <1>4, <1>5, <1>6 DEF Found

(* Backwards, a sequence has the same elements. *)
LEMMA ReversedIs ==
    ASSUME NEW S, NEW s \in Seq(S)
    PROVE  Reverse(s) \in Seq(S) /\ ToSet(Reverse(s)) = ToSet(s)
<1> DEFINE n == Len(s)
<1>1. n \in Nat /\ DOMAIN s = 1..n BY LenProperties
<1>2. \A i \in 1..n : (n - i) + 1 \in 1..n /\ s[i] \in S BY <1>1, ElementOfSeq
<1>3. /\ Reverse(s) \in Seq(S) /\ DOMAIN Reverse(s) = 1..n
      /\ \A i \in 1..n : Reverse(s)[i] = s[(n - i) + 1]
  BY <1>1, <1>2, IsASeq DEF Reverse
<1>4. \A i \in 1..n : s[i] = Reverse(s)[(n - i) + 1]
  <2> SUFFICES ASSUME NEW i \in 1..n PROVE s[i] = Reverse(s)[(n - i) + 1] OBVIOUS
  <2>1. (n - ((n - i) + 1)) + 1 = i BY <1>1
  <2> QED BY <1>2, <1>3, <2>1
<1> QED BY <1>1, <1>2, <1>3, <1>4 DEF ToSet

(* The elements of a sequence by parts of it. *)
LEMMA ToSetHead ==
    ASSUME NEW S, NEW s \in Seq(S), s # <<>>
    PROVE  /\ Head(s) \in ToSet(s) /\ Head(s) \in S /\ Tail(s) \in Seq(S)
           /\ ToSet(s) = ToSet(Tail(s)) \cup {Head(s)}
<1>1. /\ Tail(s) \in Seq(S) /\ Len(Tail(s)) = Len(s) - 1 /\ Len(s) \in Nat
      /\ Head(s) = s[1] /\ \A n \in 1..Len(Tail(s)) : Tail(s)[n] = s[n + 1]
  BY HeadTailProperties, LenProperties
<1>2. Len(s) >= 1 BY <1>1, EmptySeq
<1>3. ToSet(s) = {s[n] : n \in 1..Len(s)} /\ ToSet(s) \subseteq S BY ToSetIs
<1>4. ToSet(Tail(s)) = {Tail(s)[n] : n \in 1..Len(Tail(s))} BY ONLY <1>1, ToSetIs
<1>5. ToSet(Tail(s)) \subseteq ToSet(s) BY ToSetTail
<1>6. Head(s) \in ToSet(s) BY <1>1, <1>2, <1>3
<1>7. ASSUME NEW x \in ToSet(s), x # Head(s) PROVE x \in ToSet(Tail(s))
  <2>1. PICK n \in 1..Len(s) : x = s[n] BY <1>3
  <2>2. n # 1 BY <1>1, <1>7, <2>1
  <2>3. n - 1 \in 1..Len(Tail(s)) /\ (n - 1) + 1 = n BY <1>1, <2>2
  <2> QED BY <1>1, <1>4, <2>1, <2>3
<1> QED BY <1>1, <1>3, <1>5, <1>6, <1>7

LEMMA ToSetLast ==
    ASSUME NEW S, NEW s \in Seq(S), s # <<>>
    PROVE  /\ Last(s) \in ToSet(s) /\ Last(s) \in S /\ Front(s) \in Seq(S)
           /\ ToSet(s) = ToSet(Front(s)) \cup {Last(s)}
<1>1. Len(s) \in Nat /\ Len(s) >= 1 BY EmptySeq, LenProperties
<1> DEFINE m == Len(s) - 1
           r == SubSeq(s, 1, m)
<1>2. m \in 0..Len(s) /\ m \in Nat /\ m + 1 = Len(s) /\ Len(s) \in 1..Len(s) BY <1>1
<1>3. s[Len(s)] \in S BY <1>2, ElementOfSeq
<1>4. Front(s) = r /\ Last(s) = s[Len(s)] BY DEF Front, Last
<1> HIDE DEF m
<1>5. r \in Seq(S) /\ s = Append(r, s[Len(s)])
  <2>1. m + 1 <= Len(s) BY <1>1, <1>2
  <2> QED BY <1>2, <2>1, PrefixSteps
<1> HIDE DEF r
<1> DEFINE e == s[Len(s)]
<1>6. e \in S /\ s = Append(r, e) BY <1>3, <1>5
<1> HIDE DEF e
<1>7. ToSet(s) = ToSet(r) \cup {e} BY <1>5, <1>6, ToSetAppend
<1> QED BY <1>4, <1>5, <1>6, <1>7 DEF e

LEMMA ToSetConcat ==
    ASSUME NEW S, NEW s \in Seq(S), NEW t \in Seq(S)
    PROVE  s \o t \in Seq(S) /\ ToSet(s \o t) = ToSet(s) \cup ToSet(t)
<1>1. s \o t \in Seq(S) BY ConcatProperties
<1>2. Range(s \o t) = Range(s) \cup Range(t) BY RangeConcatenation
<1> QED BY <1>1, <1>2 DEF Range, ToSet

LEMMA ToSetNone == ToSet(<<>>) = {}
BY DEF ToSet

(* The orders a finite set can be listed in. *)
LEMMA OrdersOf ==
    ASSUME NEW S, IsFiniteSet(S), NEW s \in SetToSeqs(S)
    PROVE  s \in Seq(S) /\ ToSet(s) = S
<1> DEFINE n == Cardinality(S)
<1>1. n \in Nat BY FS_CardinalityType
<1>2. IsFiniteSet(1..n) /\ Cardinality(1..n) = n BY <1>1, FS_Interval
<1>3. s \in [1..n -> S] /\ IsInjective(s) BY DEF SetToSeqs, IsInjective
<1>4. s \in Surjection(1..n, S)
  <2>1. s \in Injection(1..n, S) BY <1>3 DEF Injection
  <2> HIDE DEF n
  <2>2. Cardinality(1..n) = Cardinality(S) BY <1>2 DEF n
  <2> QED BY <1>2, <2>1, <2>2, FS_Injection
<1>5. \A x \in S : \E m \in 1..n : s[m] = x BY <1>4 DEF Surjection
<1>6. ToSet(s) = S BY <1>3, <1>5 DEF ToSet
<1>7. s \in Seq(S) BY <1>1, <1>3
<1> QED BY <1>6, <1>7

-----------------------------------------------------------------------------
(* Without goes through a sequence from left to right.                      *)
SieveSteps(G, S, s, gone) ==
    /\ G \in [0..Len(s) -> Seq(S)]
    /\ G[0] = <<>>
    /\ \A m \in 1..Len(s) :
           G[m] = IF s[m] \in gone THEN G[m - 1] ELSE Append(G[m - 1], s[m])
    /\ Without(s, gone) = G[Len(s)]

LEMMA WithoutSteps ==
    ASSUME NEW S, NEW s \in Seq(S), NEW gone
    PROVE  \E G : SieveSteps(G, S, s, gone)
<1> DEFINE n == Len(s)
           f == [p \in Seq(S) \X S |-> IF p[2] \in gone THEN p[1] ELSE Append(p[1], p[2])]
           rec(h) == [t \in SUBSET (1..n) |-> IF t = {} THEN <<>> ELSE
                        IF s[Max(t)] \in gone THEN h[t \ {Max(t)}]
                        ELSE Append(h[t \ {Max(t)}], s[Max(t)])]
           iter == CHOOSE h : h = rec(h)
<1>1. n \in Nat /\ DOMAIN s = 1..n /\ \A m \in 1..n : s[m] \in S
  BY LenProperties, ElementOfSeq
<1>2. f \in [Seq(S) \X S -> Seq(S)] /\ <<>> \in Seq(S) OBVIOUS
<1>3. \A r \in Seq(S), e \in S : f[r, e] = IF e \in gone THEN r ELSE Append(r, e) OBVIOUS
<1> HIDE DEF f, n
<1>4. \A t \in SUBSET (1..n) : t # {} => s[Max(t)] \in S /\ t \ {Max(t)} \in SUBSET (1..n)
  BY <1>1, MaxIn
<1>5. PICK g \in [SUBSET (1..n) -> Seq(S)] : FoldsThrough(g, SUBSET (1..n), <<>>, f, s)
  BY <1>1, <1>2, FoldDefined
<1>6. g = rec(g)
  <2>1. ASSUME NEW t \in SUBSET (1..n) PROVE g[t] = rec(g)[t]
    <3>1. t # {} => g[t \ {Max(t)}] \in Seq(S) BY <1>4
    <3> QED BY <1>3, <1>4, <1>5, <3>1 DEF FoldsThrough
  <2> QED BY <2>1
<1>7. iter = rec(iter)
  <2> HIDE DEF rec
  <2> QED BY <1>6
<1>8. iter[{}] = <<>> /\ FoldsWhere(iter, SUBSET (1..n), Seq(S), f, s)
  <2> HIDE DEF iter
  <2>1. iter[{}] = <<>> BY <1>7
  <2>2. ASSUME NEW t \in SUBSET (1..n), t # {}, iter[t \ {Max(t)}] \in Seq(S)
        PROVE  iter[t] = f[iter[t \ {Max(t)}], s[Max(t)]]
    <3>1. iter[t] = IF s[Max(t)] \in gone THEN iter[t \ {Max(t)}]
                    ELSE Append(iter[t \ {Max(t)}], s[Max(t)])
      BY <1>7, <2>2
    <3> HIDE DEF rec
    <3>2. s[Max(t)] \in S BY <1>4, <2>2
    <3> QED BY <1>3, <2>2, <3>1, <3>2
  <2> QED BY <2>1, <2>2 DEF FoldsWhere
<1>9. Without(s, gone) = iter[1..n]
  BY <1>1 DEF Without, FoldLeft, MapThenFoldSet
<1> HIDE DEF iter
<1>10. PICK G \in [0..n -> Seq(S)] :
         /\ G[0] = <<>>
         /\ \A m \in 1..n : G[m] = f[G[m - 1], s[m]]
         /\ iter[1..n] = G[n]
  <2> HIDE DEF rec
  <2>1. FoldsAlong(iter, n, Seq(S), <<>>, f, s)
    BY ONLY <1>1, <1>2, <1>8, FoldSteps
  <2> QED BY <2>1 DEF FoldsAlong
<1>11. \A m \in 1..n : G[m] = IF s[m] \in gone THEN G[m - 1] ELSE Append(G[m - 1], s[m])
  BY <1>1, <1>3, <1>10, Upto
<1> QED BY <1>9, <1>10, <1>11 DEF n, SieveSteps

(* What is left are the elements that are not gone. *)
LEMMA SieveElements ==
    ASSUME NEW S, NEW s \in Seq(S), NEW gone
    PROVE  Without(s, gone) \in Seq(S) /\ ToSet(Without(s, gone)) = ToSet(s) \ gone
<1> DEFINE n == Len(s)
           First(m) == SubSeq(s, 1, m)
<1>1. PICK G : SieveSteps(G, S, s, gone) BY WithoutSteps
<1>2. /\ G[0] = <<>> /\ Without(s, gone) = G[n] /\ n \in Nat
      /\ \A m \in 0..n : G[m] \in Seq(S)
      /\ \A m \in 1..n : G[m] = IF s[m] \in gone THEN G[m - 1] ELSE Append(G[m - 1], s[m])
  BY <1>1, LenProperties DEF SieveSteps
<1>3. /\ First(0) = <<>> /\ First(n) = s
      /\ \A m \in 0..n : First(m) \in Seq(S)
      /\ \A m \in Nat : m + 1 <= n => First(m + 1) = Append(First(m), s[m + 1])
  BY PrefixSteps
<1>4. \A m \in 1..n : s[m] \in S BY ElementOfSeq
<1> HIDE DEF n, First
<1> DEFINE Left(m) == ToSet(G[m]) = ToSet(First(m)) \ gone
           T == {m \in Nat : m <= n => Left(m)}
<1>5. Left(0) BY <1>2, <1>3, ToSetNone
<1>6. ASSUME NEW m \in Nat, m + 1 <= n, Left(m) PROVE Left(m + 1)
  <2>1. m + 1 \in 1..n /\ m \in 0..n /\ (m + 1) - 1 = m BY <1>2, <1>6, Successor
  <2>2. First(m + 1) = Append(First(m), s[m + 1]) BY <1>3, <1>6
  <2>3. First(m) \in Seq(S) /\ G[m] \in Seq(S) /\ s[m + 1] \in S BY <1>2, <1>3, <1>4, <2>1
  <2> DEFINE p == First(m)
             e == s[m + 1]
  <2>4. ToSet(First(m + 1)) = ToSet(p) \cup {e}
    <3>1. p \in Seq(S) /\ e \in S /\ First(m + 1) = Append(p, e) BY <2>2, <2>3
    <3> HIDE DEF p, e
    <3>2. ToSet(Append(p, e)) = ToSet(p) \cup {e} BY <3>1, ToSetAppend
    <3> QED BY <3>1, <3>2
  <2>5. G[m + 1] = IF s[m + 1] \in gone THEN G[m] ELSE Append(G[m], s[m + 1])
    BY <1>2, <2>1
  <2>6. ToSet(Append(G[m], s[m + 1])) = ToSet(G[m]) \cup {s[m + 1]} BY <2>3, ToSetAppend
  <2> QED BY <1>6, <2>4, <2>5, <2>6
<1>7. Nat \subseteq T
  <2>1. 0 \in T BY <1>5
  <2>2. ASSUME NEW m \in Nat, m \in T PROVE m + 1 \in T
    <3> SUFFICES ASSUME m + 1 <= n PROVE Left(m + 1) OBVIOUS
    <3>1. m <= n BY <1>2
    <3>2. Left(m) BY <2>2, <3>1
    <3> QED BY <1>6, <3>2
  <2> HIDE DEF T
  <2> QED BY <2>1, <2>2, Induction
<1>8. Left(n) BY <1>2, <1>7
<1>9. n \in 0..n BY <1>2
<1> QED BY <1>2, <1>3, <1>8, <1>9
=============================================================================
