----------------------------- MODULE DataLemmas -----------------------------
(***************************************************************************)
(* Facts about numbers, sets and sequences that the proofs of several      *)
(* modules rest on, and that the library states only for operators.        *)
(***************************************************************************)
EXTENDS Integers, Sequences, FiniteSets, FiniteSetTheorems,
        WellFoundedInduction, NaturalsInduction, TLAPS

(* Every set of numbers has a least one.                                   *)
LEMMA LeastNumber ==
    ASSUME NEW T \in SUBSET Nat, T # {}
    PROVE  \E m \in T : \A k \in T : m <= k
<1> DEFINE Smaller == {p \in Nat \X Nat : p[1] < p[2]}
<1>1. OpToRel(<, Nat) = Smaller BY Zenon DEF OpToRel
<1>2. IsWellFoundedOn(Smaller, Nat) BY <1>1, NatLessThanWellFounded, Zenon
<1> HIDE DEF Smaller
<1>3. PICK m \in T : \A k \in T : ~(<<k, m>> \in Smaller) BY <1>2, WFMin
<1>4. ASSUME NEW k \in T PROVE m <= k
  <2>1. k \in Nat /\ m \in Nat /\ <<k, m>> \notin Smaller BY <1>3
  <2> QED BY <2>1 DEF Smaller
<1> QED BY <1>4

(* Induction: a set that has 0 and with each number the next has them all. *)
LEMMA AllNumbers ==
    ASSUME NEW G, 0 \in G, \A n \in Nat : n \in G => n + 1 \in G
    PROVE  Nat \subseteq G
<1> SUFFICES ASSUME Nat \ G # {} PROVE FALSE
  OBVIOUS
<1>1. PICK m \in Nat \ G : \A k \in Nat \ G : m <= k BY LeastNumber
<1>2. m # 0 /\ m - 1 \in Nat /\ m - 1 \notin Nat \ G BY <1>1
<1> QED BY <1>1, <1>2

(* The members of a finite set of numbers can be listed in their order.    *)
Listing(K, n) == {f \in [1..n -> K] : \A i, j \in 1..n : i < j => f[i] < f[j]}

LEMMA NumbersListed ==
    ASSUME NEW K \in SUBSET Nat, IsFiniteSet(K)
    PROVE  Listing(K, Cardinality(K)) # {}
<1> DEFINE Holds(n) == \A T \in SUBSET Nat :
               IsFiniteSet(T) /\ Cardinality(T) = n => Listing(T, n) # {}
<1> DEFINE G == {n \in Nat : Holds(n)}
<1>1. Holds(0)
  <2> SUFFICES ASSUME NEW T PROVE [i \in 1..0 |-> 0] \in Listing(T, 0)
    OBVIOUS
  <2>1. 1..0 = {} OBVIOUS
  <2> QED BY <2>1 DEF Listing
<1>2. ASSUME NEW n \in Nat, Holds(n) PROVE Holds(n + 1)
  <2> SUFFICES ASSUME NEW T \in SUBSET Nat, IsFiniteSet(T), Cardinality(T) = n + 1
               PROVE  Listing(T, n + 1) # {}
    OBVIOUS
  <2>1. T # {} BY <1>2, FS_EmptySet
  <2>2. PICK m \in T : \A k \in T : m <= k BY <2>1, LeastNumber
  <2>3. IsFiniteSet(T \ {m}) /\ Cardinality(T \ {m}) = n
    <3>1. /\ IsFiniteSet(T \ {m})
          /\ Cardinality(T \ {m}) = Cardinality(T) - 1
      BY <2>2, FS_RemoveElement
    <3> QED BY <3>1
  <2>4. PICK f : f \in Listing(T \ {m}, n) BY <1>2, <2>3
  <2>5. /\ f \in [1..n -> T \ {m}]
        /\ \A i, j \in 1..n : i < j => f[i] < f[j]
    BY <2>4 DEF Listing
  <2> DEFINE g == [i \in 1..n + 1 |-> IF i = 1 THEN m ELSE f[i - 1]]
  <2>6. \A i \in 1..n + 1 : i = 1 \/ i - 1 \in 1..n OBVIOUS
  <2>7. g \in [1..n + 1 -> T] BY <2>2, <2>5, <2>6
  <2>8. ASSUME NEW i \in 1..n + 1, NEW j \in 1..n + 1, i < j PROVE g[i] < g[j]
    <3>1. j - 1 \in 1..n /\ j # 1 /\ g[j] = f[j - 1] BY <2>6, <2>8
    <3>2. CASE i = 1
      <4>1. g[i] = m /\ f[j - 1] \in T /\ f[j - 1] # m BY <2>5, <3>1, <3>2
      <4>2. m <= f[j - 1] /\ m \in Nat /\ f[j - 1] \in Nat BY <2>2, <4>1
      <4> QED BY <3>1, <4>1, <4>2
    <3>3. CASE i # 1
      <4>1. i - 1 \in 1..n /\ g[i] = f[i - 1] /\ i - 1 < j - 1
        BY <2>6, <2>8, <3>3
      <4> QED BY <2>5, <3>1, <4>1
    <3> QED BY <3>2, <3>3
  <2>9. g \in Listing(T, n + 1)
    <3> HIDE DEF g
    <3> QED BY <2>7, <2>8 DEF Listing
  <2> QED BY <2>9
<1> HIDE DEF Holds
<1>3. Nat \subseteq G
  <2>1. 0 \in G /\ \A n \in Nat : n \in G => n + 1 \in G BY <1>1, <1>2
  <2> HIDE DEF G
  <2> QED BY <2>1, AllNumbers
<1>4. Cardinality(K) \in Nat BY FS_CardinalityType
<1>5. Holds(Cardinality(K)) BY <1>3, <1>4
<1> QED BY <1>5 DEF Holds

-----------------------------------------------------------------------------
(* Taking the head of one sequence to the end of another moves nothing.    *)
LEMMA MoveOn ==
    ASSUME NEW S, NEW a \in Seq(S), NEW b \in Seq(S), b # <<>>
    PROVE  Append(a, Head(b)) \o Tail(b) = a \o b
OBVIOUS

LEMMA JoinAssociative ==
    ASSUME NEW S, NEW a \in Seq(S), NEW b \in Seq(S), NEW c \in Seq(S)
    PROVE  (a \o b) \o c = a \o (b \o c)
OBVIOUS

(* Sharing two or three elements between three sequences.                  *)
LEMMA Shares ==
    ASSUME NEW a \in Nat, NEW b \in Nat \ {0}, NEW c \in Nat
    PROVE  /\ a + b + c = 2 /\ a # 0 => a = 1 /\ b = 1 /\ c = 0
           /\ a + b + c = 3 /\ a # 0 /\ a # 1 => a = 2 /\ b = 1 /\ c = 0
OBVIOUS

(* Where the elements of three joined sequences are.                       *)
LEMMA JoinParts ==
    ASSUME NEW S, NEW a \in Seq(S), NEW b \in Seq(S), NEW c \in Seq(S)
    PROVE  /\ Len(a) \in Nat /\ Len(b) \in Nat /\ Len(c) \in Nat
           /\ Len(a \o (b \o c)) = Len(a) + Len(b) + Len(c)
           /\ \A i \in 1..Len(a) : (a \o (b \o c))[i] = a[i]
           /\ b # <<>> => Len(b) > 0 /\ (a \o (b \o c))[Len(a) + 1] = Head(b)
<1>1. b \o c \in Seq(S) /\ Len(b \o c) = Len(b) + Len(c) OBVIOUS
<1>2. Len(a) \in Nat /\ Len(b) \in Nat /\ Len(c) \in Nat OBVIOUS
<1>3. Len(a \o (b \o c)) = Len(a) + Len(b) + Len(c) BY <1>1
<1>4. \A i \in 1..Len(a) : (a \o (b \o c))[i] = a[i] BY <1>1
<1>5. ASSUME b # <<>>
      PROVE  Len(b) > 0 /\ (a \o (b \o c))[Len(a) + 1] = Head(b)
  <2>1. Len(b) > 0 /\ (b \o c)[1] = b[1] /\ Head(b) = b[1] BY <1>2, <1>5
  <2>2. (a \o (b \o c))[Len(a) + 1] = (b \o c)[1] BY <1>1, <1>2, <2>1
  <2> QED BY <2>1, <2>2
<1> QED BY <1>2, <1>3, <1>4, <1>5

LEMMA JoinTuples ==
    ASSUME NEW x, NEW y, NEW z
    PROVE  <<>> \o <<y, z>> = <<y, z>> /\ <<x>> \o <<y, z>> = <<x, y, z>>
<1>1. <<>> \o <<y, z>> = <<y, z>> OBVIOUS
<1>2. <<x>> \o <<y, z>> = <<x, y, z>>
  <2> DEFINE s == <<x>> \o <<y, z>>
  <2>1. Len(<<x>>) = 1 /\ Len(<<y, z>>) = 2 OBVIOUS
  <2>2. <<x>> \in Seq({x, y, z}) /\ <<y, z>> \in Seq({x, y, z}) OBVIOUS
  <2>3. s \in Seq({x, y, z}) /\ Len(s) = 3 BY <2>1, <2>2
  <2>4. s[1] = x /\ s[2] = y /\ s[3] = z BY <2>1, <2>2
  <2> HIDE DEF s
  <2>5. s = <<x, y, z>> BY <2>3, <2>4
  <2> QED BY <2>5 DEF s
<1> QED BY <1>1, <1>2

-----------------------------------------------------------------------------
(***************************************************************************)
(* How many elements of a sequence are in a set                            *)
(***************************************************************************)
Places(s, P) == {i \in 1..Len(s) : s[i] \in P}
Count(s, P) == Cardinality(Places(s, P))

LEMMA PlacesFinite ==
    ASSUME NEW S, NEW s \in Seq(S), NEW P
    PROVE  IsFiniteSet(Places(s, P)) /\ Count(s, P) \in Nat
<1>1. Len(s) \in Nat OBVIOUS
<1>2. IsFiniteSet(1..Len(s)) BY <1>1, FS_Interval
<1>3. Places(s, P) \in SUBSET (1..Len(s)) BY DEF Places
<1>4. IsFiniteSet(Places(s, P)) BY <1>2, <1>3, FS_Subset
<1> QED BY <1>4, FS_CardinalityType DEF Count

LEMMA CountNothing == ASSUME NEW P PROVE Count(<<>>, P) = 0
<1>1. Places(<<>>, P) = {} BY DEF Places
<1> QED BY <1>1, FS_EmptySet DEF Count

LEMMA CountAppended ==
    ASSUME NEW S, NEW s \in Seq(S), NEW x \in S, NEW P
    PROVE  Count(Append(s, x), P) = IF x \in P THEN Count(s, P) + 1 ELSE Count(s, P)
<1>1. /\ Len(s) \in Nat /\ Len(Append(s, x)) = Len(s) + 1
      /\ Append(s, x)[Len(s) + 1] = x
      /\ \A i \in 1..Len(s) : Append(s, x)[i] = s[i]
  OBVIOUS
<1>2. \A i : i \in 1..Len(s) + 1 <=> i \in 1..Len(s) \/ i = Len(s) + 1
  BY <1>1
<1>3. Len(s) + 1 \notin Places(s, P) BY <1>1 DEF Places
<1>4. CASE x \in P
  <2>1. Places(Append(s, x), P) = Places(s, P) \cup {Len(s) + 1}
    BY <1>1, <1>2, <1>4 DEF Places
  <2> QED BY <1>3, <1>4, <2>1, PlacesFinite, FS_AddElement DEF Count
<1>5. CASE x \notin P
  <2>1. Places(Append(s, x), P) = Places(s, P) BY <1>1, <1>2, <1>5 DEF Places
  <2> QED BY <1>5, <2>1 DEF Count
<1> QED BY <1>4, <1>5

LEMMA CountFew ==
    ASSUME NEW x, NEW y, NEW z, NEW P, x \notin P, z \notin P
    PROVE  /\ Count(<<y, z>>, P) = IF y \in P THEN 1 ELSE 0
           /\ Count(<<x, y, z>>, P) = IF y \in P THEN 1 ELSE 0
<1>1. Cardinality({}) = 0 /\ \A i : Cardinality({i}) = 1
  BY FS_EmptySet, FS_Singleton
<1>2. Count(<<y, z>>, P) = IF y \in P THEN 1 ELSE 0
  <2>1. \A i : i \in 1..Len(<<y, z>>) <=> i = 1 \/ i = 2 OBVIOUS
  <2>2. <<y, z>>[1] = y /\ <<y, z>>[2] = z OBVIOUS
  <2>3. Places(<<y, z>>, P) = IF y \in P THEN {1} ELSE {} BY <2>1, <2>2 DEF Places
  <2> QED BY <1>1, <2>3 DEF Count
<1>3. Count(<<x, y, z>>, P) = IF y \in P THEN 1 ELSE 0
  <2>1. \A i : i \in 1..Len(<<x, y, z>>) <=> i = 1 \/ i = 2 \/ i = 3 OBVIOUS
  <2>2. <<x, y, z>>[1] = x /\ <<x, y, z>>[2] = y /\ <<x, y, z>>[3] = z OBVIOUS
  <2>3. Places(<<x, y, z>>, P) = IF y \in P THEN {2} ELSE {}
    BY <2>1, <2>2 DEF Places
  <2> QED BY <1>1, <2>3 DEF Count
<1> QED BY <1>2, <1>3

(* A set that maps one to one into a finite one is no larger.              *)
LEMMA NoLarger ==
    ASSUME NEW A, NEW B, IsFiniteSet(B), NEW f \in [A -> B],
           \A x, y \in A : f[x] = f[y] => x = y
    PROVE  IsFiniteSet(A) /\ Cardinality(A) <= Cardinality(B)
<1>1. f \in Injection(A, B) BY DEF Injection, IsInjective
<1> QED BY <1>1, FS_Injection

LEMMA CountTail ==
    ASSUME NEW S, NEW s \in Seq(S), s # <<>>, NEW P
    PROVE  Count(s, P) = IF Head(s) \in P THEN Count(Tail(s), P) + 1
                                          ELSE Count(Tail(s), P)
<1> DEFINE t == Tail(s)
<1>1. /\ t \in Seq(S) /\ Len(s) \in Nat \ {0} /\ Len(t) = Len(s) - 1
      /\ \A i \in 1..Len(t) : t[i] = s[i + 1] /\ i + 1 \in 1..Len(s)
      /\ Head(s) = s[1] /\ 1 \in 1..Len(s)
  OBVIOUS
<1> HIDE DEF t
<1> DEFINE later == Places(s, P) \ {1}
<1>2. IsFiniteSet(Places(s, P)) /\ IsFiniteSet(Places(t, P)) /\ IsFiniteSet(later)
  BY <1>1, PlacesFinite, FS_RemoveElement
<1>3. Cardinality(later) <= Cardinality(Places(t, P))
  <2> DEFINE f == [i \in later |-> i - 1]
  <2>1. f \in [later -> Places(t, P)] BY <1>1 DEF Places
  <2>2. \A i, j \in later : f[i] = f[j] => i = j BY <1>1 DEF Places
  <2> HIDE DEF f, later
  <2> QED BY <1>2, <2>1, <2>2, NoLarger
<1>4. Cardinality(Places(t, P)) <= Cardinality(later)
  <2> DEFINE f == [i \in Places(t, P) |-> i + 1]
  <2>1. f \in [Places(t, P) -> later] BY <1>1 DEF Places
  <2>2. \A i, j \in Places(t, P) : f[i] = f[j] => i = j BY <1>1 DEF Places
  <2> HIDE DEF f, later
  <2> QED BY <1>2, <2>1, <2>2, NoLarger
<1>5. Cardinality(later) = Count(t, P)
  <2> HIDE DEF later
  <2>1. Cardinality(later) \in Nat /\ Cardinality(Places(t, P)) \in Nat
    BY <1>2, FS_CardinalityType
  <2> QED BY <1>3, <1>4, <2>1 DEF Count
<1>6. 1 \in Places(s, P) <=> Head(s) \in P BY <1>1 DEF Places
<1>7. /\ Cardinality(later) = IF 1 \in Places(s, P) THEN Count(s, P) - 1
                                                     ELSE Count(s, P)
      /\ Count(s, P) \in Nat /\ Count(t, P) \in Nat
  BY <1>1, <1>2, PlacesFinite, FS_RemoveElement DEF Count
<1>8. CASE Head(s) \in P BY <1>5, <1>6, <1>7, <1>8 DEF t
<1>9. CASE Head(s) \notin P BY <1>5, <1>6, <1>7, <1>9 DEF t
<1> QED BY <1>8, <1>9

(* Replacing elements by others that are in the set only if these were.    *)
LEMMA CountReplaced ==
    ASSUME NEW S, NEW s \in Seq(S), NEW t \in Seq(S), NEW P, Len(t) = Len(s),
           \A i \in 1..Len(s) : t[i] \in P => s[i] \in P
    PROVE  Count(t, P) <= Count(s, P)
<1>1. Places(t, P) \in SUBSET Places(s, P) BY DEF Places
<1> QED BY <1>1, PlacesFinite, FS_Subset DEF Count
=============================================================================
