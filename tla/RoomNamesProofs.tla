-------------------------- MODULE RoomNamesProofs --------------------------
(***************************************************************************)
(* Theorems about RoomNames, for all strings.  A string is compared with   *)
(* another by a one-to-one map between their places that keeps the         *)
(* characters: sorting is such a map, so is joining the uids the other way *)
(* round, and any two anagrams have one.                                   *)
(***************************************************************************)
EXTENDS RoomNames, FunctionTheorems, FiniteSetTheorems, TLAPS

Strings == Seq(Int)

Sorted(s) == \A i, j \in DOMAIN s : i <= j => s[i] <= s[j]

\* The places of s that hold c.
Places(s, c) == {i \in DOMAIN s : s[i] = c}

LEMMA StringType ==
    ASSUME NEW s \in Strings
    PROVE  /\ Len(s) \in Nat /\ DOMAIN s = 1..Len(s)
           /\ \A i \in DOMAIN s : s[i] \in Int
           /\ IsFiniteSet(DOMAIN s) /\ Cardinality(DOMAIN s) = Len(s)
<1>1. /\ Len(s) \in Nat /\ DOMAIN s = 1..Len(s)
      /\ \A i \in DOMAIN s : s[i] \in Int
  BY DEF Strings
<1>2. IsFiniteSet(1..Len(s)) /\ Cardinality(1..Len(s)) = Len(s)
  BY <1>1, FS_Interval
<1> QED
  BY <1>1, <1>2

LEMMA OccurrencesType ==
    ASSUME NEW s \in Strings, NEW c
    PROVE  /\ IsFiniteSet(Places(s, c))
           /\ Occurrences(s, c) = Cardinality(Places(s, c))
           /\ Occurrences(s, c) \in Nat
<1>1. IsFiniteSet(Places(s, c))
  BY StringType, FS_Subset DEF Places
<1> QED
  BY <1>1, FS_CardinalityType DEF Places, Occurrences

LEMMA AnagramsOfAll ==
    ASSUME NEW s \in Strings, NEW t \in Strings
    PROVE  Anagrams(s, t) <=> \A c \in Int : Occurrences(s, c) = Occurrences(t, c)
<1>1. ASSUME NEW c \in Int, c \notin {s[i] : i \in DOMAIN s},
             c \notin {t[i] : i \in DOMAIN t}
      PROVE  Occurrences(s, c) = Occurrences(t, c)
  <2>1. Places(s, c) = {} /\ Places(t, c) = {}
    BY <1>1 DEF Places
  <2> QED
    BY <2>1, OccurrencesType
<1>2. {s[i] : i \in DOMAIN s} \cup {t[i] : i \in DOMAIN t} \subseteq Int
  BY StringType
<1> QED
  BY <1>1, <1>2 DEF Anagrams

-----------------------------------------------------------------------------
(* Maps between places. *)

\* A string whose characters are those of s, moved by a permutation.
LEMMA Moved ==
    ASSUME NEW s \in Strings, NEW t \in Strings,
           NEW f \in Bijection(DOMAIN t, DOMAIN s),
           \A k \in DOMAIN t : t[k] = s[f[k]]
    PROVE  Anagrams(s, t)
<1> SUFFICES ASSUME NEW c \in Int PROVE Occurrences(s, c) = Occurrences(t, c)
  BY AnagramsOfAll
<1> DEFINE g == [k \in Places(t, c) |-> f[k]]
<1>1. /\ f \in [DOMAIN t -> DOMAIN s]
      /\ \A a, b \in DOMAIN t : f[a] = f[b] => a = b
      /\ \A i \in DOMAIN s : \E k \in DOMAIN t : f[k] = i
  BY DEF Bijection, Injection, Surjection, IsInjective
<1>2. g \in [Places(t, c) -> Places(s, c)]
  BY <1>1 DEF Places
<1>3. \A i \in Places(s, c) : \E k \in Places(t, c) : g[k] = i
  BY <1>1 DEF Places
<1>4. g \in Bijection(Places(t, c), Places(s, c))
  BY <1>1, <1>2, <1>3, Fun_IsBij DEF Places
<1> QED
  BY <1>4, OccurrencesType, FS_Bijection DEF ExistsBijection

\* The places of one anagram map into those of the other.
LEMMA Matching ==
    ASSUME NEW s \in Strings, NEW t \in Strings, Anagrams(s, t)
    PROVE  \E f \in Injection(DOMAIN s, DOMAIN t) :
               \A i \in DOMAIN s : t[f[i]] = s[i]
<1> DEFINE g(c) == CHOOSE h : h \in Bijection(Places(s, c), Places(t, c))
           f == [i \in DOMAIN s |-> g(s[i])[i]]
<1>1. ASSUME NEW c \in Int PROVE g(c) \in Bijection(Places(s, c), Places(t, c))
  <2>1. Cardinality(Places(s, c)) = Cardinality(Places(t, c))
    BY AnagramsOfAll, OccurrencesType
  <2>2. ExistsBijection(Places(s, c), Places(t, c))
    BY <2>1, OccurrencesType, FS_SameCardinalityBij
  <2> QED
    BY <2>2 DEF ExistsBijection
<1> HIDE DEF g
<1>2. ASSUME NEW c \in Int
      PROVE  /\ g(c) \in [Places(s, c) -> Places(t, c)]
             /\ \A a, b \in Places(s, c) : g(c)[a] = g(c)[b] => a = b
  BY <1>1 DEF Bijection, Injection, IsInjective
<1>3. \A i \in DOMAIN s : s[i] \in Int /\ i \in Places(s, s[i])
  BY StringType DEF Places
<1>4. ASSUME NEW i \in DOMAIN s PROVE f[i] \in DOMAIN t /\ t[f[i]] = s[i]
  <2>1. g(s[i])[i] \in Places(t, s[i])
    BY <1>2, <1>3
  <2> QED
    BY <2>1 DEF Places
<1>5. ASSUME NEW a \in DOMAIN s, NEW b \in DOMAIN s, f[a] = f[b] PROVE a = b
  <2>1. s[a] = s[b]
    BY <1>4, <1>5
  <2> QED
    BY <1>2, <1>3, <1>5, <2>1
<1>6. f \in [DOMAIN s -> DOMAIN t]
  BY <1>4
<1>7. f \in Injection(DOMAIN s, DOMAIN t)
  BY <1>5, <1>6, Fun_IsInj
<1> QED
  BY <1>4, <1>7

LEMMA AnagramsAreAsLong ==
    ASSUME NEW s \in Strings, NEW t \in Strings, Anagrams(s, t)
    PROVE  Len(s) = Len(t)
<1>1. ASSUME NEW a \in Strings, NEW b \in Strings, Anagrams(a, b)
      PROVE  Len(a) <= Len(b)
  BY <1>1, Matching, StringType, FS_Injection
<1>2. Anagrams(t, s)
  BY DEF Anagrams
<1> QED
  BY <1>1, <1>2, StringType

\* Of two sorted anagrams, no place of the first holds a smaller character:
\* the places up to it would have to map to fewer.
LEMMA NoSmaller ==
    ASSUME NEW s \in Strings, NEW t \in Strings, Anagrams(s, t),
           Sorted(s), Sorted(t), NEW k \in DOMAIN s, k \in DOMAIN t
    PROVE  ~(s[k] < t[k])
<1> SUFFICES ASSUME s[k] < t[k] PROVE FALSE
  OBVIOUS
<1>1. PICK f \in Injection(DOMAIN s, DOMAIN t) :
          \A i \in DOMAIN s : t[f[i]] = s[i]
  BY Matching
<1>2. /\ f \in [DOMAIN s -> DOMAIN t]
      /\ \A a, b \in DOMAIN s : f[a] = f[b] => a = b
  BY DEF Injection, IsInjective
<1> DEFINE g == [i \in 1..k |-> f[i]]
<1>3. k \in Nat /\ k >= 1 /\ 1..k \subseteq DOMAIN s
  BY StringType
<1>4. ASSUME NEW i \in 1..k PROVE f[i] \in 1..(k - 1)
  <2>1. i \in DOMAIN s /\ f[i] \in DOMAIN t /\ f[i] \in Int /\ f[i] >= 1
    BY <1>2, <1>3, StringType
  <2>2. t[f[i]] < t[k]
    BY <1>1, <1>3, <2>1, StringType DEF Sorted
  <2>3. ~(k <= f[i])
    BY <2>1, <2>2, StringType DEF Sorted
  <2> QED
    BY <1>3, <2>1, <2>3
<1>5. g \in Injection(1..k, 1..(k - 1))
  BY <1>2, <1>3, <1>4, Fun_IsInj
<1>6. /\ IsFiniteSet(1..k) /\ Cardinality(1..k) = k
      /\ IsFiniteSet(1..(k - 1)) /\ Cardinality(1..(k - 1)) = k - 1
  BY <1>3, FS_Interval
<1>7. Cardinality(1..k) <= Cardinality(1..(k - 1))
  BY <1>5, <1>6, FS_Injection
<1> QED
  BY <1>3, <1>6, <1>7

\* A sorted string is determined by how often each character occurs in it.
THEOREM SortedAnagramsAreEqual ==
    ASSUME NEW s \in Strings, NEW t \in Strings, Anagrams(s, t),
           Sorted(s), Sorted(t)
    PROVE  s = t
<1>1. DOMAIN s = DOMAIN t /\ Anagrams(t, s)
  BY AnagramsAreAsLong, StringType DEF Anagrams
<1>2. \A k \in DOMAIN s : s[k] = t[k]
  BY <1>1, NoSmaller, StringType
<1> QED
  BY <1>1, <1>2 DEF Strings

-----------------------------------------------------------------------------
(* The sort. *)

Before(s, i) == {j \in DOMAIN s : s[j] < s[i] \/ (s[j] = s[i] /\ j <= i)}

LEMMA PositionType ==
    ASSUME NEW s \in Strings, NEW i \in DOMAIN s
    PROVE  /\ Before(s, i) \subseteq DOMAIN s /\ IsFiniteSet(Before(s, i))
           /\ Position(s, i) = Cardinality(Before(s, i))
           /\ Position(s, i) \in DOMAIN s
<1>1. Before(s, i) \subseteq DOMAIN s /\ IsFiniteSet(Before(s, i))
  BY StringType, FS_Subset DEF Before
<1>2. /\ Cardinality(Before(s, i)) \in Nat
      /\ Cardinality(Before(s, i)) <= Cardinality(DOMAIN s)
  BY <1>1, StringType, FS_Subset, FS_CardinalityType
<1>3. i \in Before(s, i)
  BY StringType DEF Before
<1>4. Cardinality(Before(s, i)) # 0
  BY <1>1, <1>3, FS_EmptySet
<1> QED
  BY <1>1, <1>2, <1>4, StringType DEF Position, Before

\* What comes before in the order of characters, and of places among equal ones,
\* is put before.
LEMMA PositionGrows ==
    ASSUME NEW s \in Strings, NEW i \in DOMAIN s, NEW j \in DOMAIN s,
           s[i] < s[j] \/ (s[i] = s[j] /\ i < j)
    PROVE  Position(s, i) < Position(s, j)
<1>1. \A k \in DOMAIN s : k \in Int /\ s[k] \in Int
  BY StringType
<1>2. Before(s, i) \subseteq Before(s, j)
  BY <1>1 DEF Before
<1>3. j \in Before(s, j) /\ j \notin Before(s, i)
  BY <1>1 DEF Before
<1>4. /\ Cardinality(Before(s, i)) <= Cardinality(Before(s, j))
      /\ Cardinality(Before(s, i)) # Cardinality(Before(s, j))
  BY <1>2, <1>3, PositionType, FS_Subset
<1> QED
  BY <1>4, PositionType, StringType

LEMMA PositionsAreABijection ==
    ASSUME NEW s \in Strings
    PROVE  [i \in DOMAIN s |-> Position(s, i)] \in Bijection(DOMAIN s, DOMAIN s)
<1> DEFINE f == [i \in DOMAIN s |-> Position(s, i)]
<1>1. f \in [DOMAIN s -> DOMAIN s]
  BY PositionType
<1>2. ASSUME NEW i \in DOMAIN s, NEW j \in DOMAIN s, f[i] = f[j] PROVE i = j
  BY <1>2, PositionGrows, PositionType, StringType
<1>3. f \in Injection(DOMAIN s, DOMAIN s)
  BY <1>1, <1>2, Fun_IsInj
<1>4. f \in Surjection(DOMAIN s, DOMAIN s)
  BY <1>3, StringType, FS_Injection
<1> QED
  BY <1>3, <1>4 DEF Bijection

\* The place in s of the k-th character of the sorted string.
From(s, k) == CHOOSE i \in DOMAIN s : Position(s, i) = k

LEMMA FromIsInverse ==
    ASSUME NEW s \in Strings
    PROVE  /\ \A k \in DOMAIN s : From(s, k) \in DOMAIN s
                                  /\ Position(s, From(s, k)) = k
           /\ [k \in DOMAIN s |-> From(s, k)] \in Bijection(DOMAIN s, DOMAIN s)
<1> DEFINE f == [i \in DOMAIN s |-> Position(s, i)]
           g == [k \in DOMAIN s |-> From(s, k)]
<1>1. f \in Bijection(DOMAIN s, DOMAIN s)
  BY PositionsAreABijection
<1>2. /\ \A i, j \in DOMAIN s : f[i] = f[j] => i = j
      /\ \A k \in DOMAIN s : \E i \in DOMAIN s : f[i] = k
  BY <1>1 DEF Bijection, Injection, Surjection, IsInjective
<1>3. \A k \in DOMAIN s : From(s, k) \in DOMAIN s /\ Position(s, From(s, k)) = k
  BY <1>2 DEF From
<1>4. \A i \in DOMAIN s : Position(s, i) \in DOMAIN s /\ From(s, Position(s, i)) = i
  BY <1>2, <1>3, PositionType
<1>5. g \in [DOMAIN s -> DOMAIN s]
  BY <1>3
<1>6. \A a, b \in DOMAIN s : g[a] = g[b] => a = b
  BY <1>3
<1>7. \A i \in DOMAIN s : \E k \in DOMAIN s : g[k] = i
  BY <1>4
<1>8. g \in Bijection(DOMAIN s, DOMAIN s)
  BY <1>5, <1>6, <1>7, Fun_IsBij
<1> QED
  BY <1>3, <1>8

\* Sorting a uid pair's characters loses none and adds none, and puts them in
\* order (OnlineUsersTableViewController 106-107, AppDelegate 87-88).
THEOREM SortedStringSorts ==
    ASSUME NEW s \in Strings
    PROVE  /\ SortedString(s) \in Strings
           /\ Sorted(SortedString(s))
           /\ Anagrams(s, SortedString(s))
<1> DEFINE t == SortedString(s)
<1>1. t = [k \in DOMAIN s |-> s[From(s, k)]]
  BY DEF SortedString, From
<1>2. DOMAIN t = DOMAIN s /\ \A k \in DOMAIN s : t[k] = s[From(s, k)]
  BY <1>1
<1> HIDE DEF t
<1>3. t \in Strings
  <2>1. Len(s) \in Nat /\ t \in [1..Len(s) -> Int]
    BY <1>1, FromIsInverse, StringType
  <2> QED
    BY <2>1 DEF Strings
<1>4. ASSUME NEW i \in DOMAIN t, NEW j \in DOMAIN t, i <= j PROVE t[i] <= t[j]
  <2> DEFINE a == From(s, i)
             b == From(s, j)
  <2>1. /\ a \in DOMAIN s /\ Position(s, a) = i
        /\ b \in DOMAIN s /\ Position(s, b) = j
    BY <1>2, FromIsInverse
  <2>2. ~(s[b] < s[a])
    BY <1>4, <1>2, <2>1, PositionGrows, StringType
  <2> QED
    BY <1>2, <2>1, <2>2, StringType
<1>5. Anagrams(s, t)
  <2> DEFINE f == [k \in DOMAIN s |-> From(s, k)]
  <2>1. f \in Bijection(DOMAIN t, DOMAIN s) /\ \A k \in DOMAIN t : t[k] = s[f[k]]
    BY <1>2, FromIsInverse
  <2> QED
    BY <1>3, <2>1, Moved
<1> QED
  BY <1>3, <1>4, <1>5 DEF Sorted, t

-----------------------------------------------------------------------------
(* The names of rooms. *)

LEMMA JoinedEitherWay ==
    ASSUME NEW a \in Strings, NEW b \in Strings
    PROVE  /\ a \o b \in Strings /\ b \o a \in Strings
           /\ Anagrams(a \o b, b \o a)
<1> DEFINE m == Len(a)
           n == Len(b)
           f == [k \in 1..(n + m) |-> IF k <= n THEN k + m ELSE k - n]
<1>1. a \o b \in Strings /\ b \o a \in Strings
  BY DEF Strings
<1>2. /\ m \in Nat /\ n \in Nat
      /\ DOMAIN (a \o b) = 1..(m + n) /\ DOMAIN (b \o a) = 1..(n + m)
      /\ \A i \in 1..(m + n) : (a \o b)[i] = IF i <= m THEN a[i] ELSE b[i - m]
      /\ \A i \in 1..(n + m) : (b \o a)[i] = IF i <= n THEN b[i] ELSE a[i - n]
  BY DEF Strings
<1>3. f \in [1..(n + m) -> 1..(m + n)]
  BY <1>2
<1>4. \A i, j \in 1..(n + m) : f[i] = f[j] => i = j
  BY <1>2
<1>5. ASSUME NEW i \in 1..(m + n) PROVE \E k \in 1..(n + m) : f[k] = i
  <2>1. CASE i <= m
    <3>1. i + n \in 1..(n + m) /\ f[i + n] = i
      BY <1>2, <2>1
    <3> QED
      BY <3>1
  <2>2. CASE i > m
    <3>1. i - m \in 1..(n + m) /\ f[i - m] = i
      BY <1>2, <2>2
    <3> QED
      BY <3>1
  <2> QED
    BY <1>2, <2>1, <2>2
<1>6. f \in Bijection(1..(n + m), 1..(m + n))
  BY <1>3, <1>4, <1>5, Fun_IsBij
<1>7. \A k \in 1..(n + m) : (b \o a)[k] = (a \o b)[f[k]]
  BY <1>2
<1>8. /\ f \in Bijection(DOMAIN (b \o a), DOMAIN (a \o b))
      /\ \A k \in DOMAIN (b \o a) : (b \o a)[k] = (a \o b)[f[k]]
  BY <1>2, <1>6, <1>7
<1> HIDE DEF f, m, n
<1> QED
  BY <1>1, <1>8, Moved

\* Two pairs of uids name one room exactly if they are anagrams: whatever the
\* uids are, and however long (OnlineUsersTableViewController 106-107,
\* AppDelegate 87-88).
THEOREM OneRoomForAnagrams ==
    ASSUME NEW a \in Strings, NEW b \in Strings, NEW c \in Strings, NEW d \in Strings
    PROVE  RoomString(a, b) = RoomString(c, d) <=> Anagrams(a \o b, c \o d)
<1> DEFINE s == a \o b
           t == c \o d
<1>1. s \in Strings /\ t \in Strings
  BY DEF Strings
<1> HIDE DEF s, t
<1>2. /\ SortedString(s) \in Strings /\ Sorted(SortedString(s))
      /\ SortedString(t) \in Strings /\ Sorted(SortedString(t))
      /\ Anagrams(s, SortedString(s)) /\ Anagrams(t, SortedString(t))
  BY <1>1, SortedStringSorts
<1>3. ASSUME SortedString(s) = SortedString(t) PROVE Anagrams(s, t)
  BY <1>1, <1>2, <1>3, AnagramsOfAll
<1>4. ASSUME Anagrams(s, t) PROVE SortedString(s) = SortedString(t)
  <2>1. Anagrams(SortedString(s), SortedString(t))
    BY <1>1, <1>2, <1>4, AnagramsOfAll
  <2> QED
    BY <1>2, <2>1, SortedAnagramsAreEqual
<1> QED
  BY <1>3, <1>4 DEF RoomString, s, t

\* Caller and receiver name one room, whoever of them put the other first
\* (OnlineUsersTableViewController 106-107, AppDelegate 87-88).
THEOREM RoomOfEither ==
    ASSUME NEW a \in Strings, NEW b \in Strings
    PROVE  RoomString(a, b) = RoomString(b, a)
BY OneRoomForAnagrams, JoinedEitherWay
=============================================================================
