---------------------------- MODULE AutosaveProofs ----------------------------
(***************************************************************************)
(* Proofs about the automatic capture of sessions, for every value of the  *)
(* constants. For any number of processes that overwrite each other's      *)
(* state: what a state knows is stored (SavedIsStored), an empty pass of   *)
(* heal is a proof (EmptyPassProves), and nothing is skipped as long as no *)
(* file is replaced by one with the same head (NothingIsSkipped). For one  *)
(* process at a time: re-scans and repeated events of a turn store nothing *)
(* twice (RescanIsFree, TurnIsSavedOnce).                                  *)
(***************************************************************************)
EXTENDS Autosave, FiniteSetTheorems, SequenceTheorems, WellFoundedInduction,
        TLAPS

-----------------------------------------------------------------------------
(* Numbers and lists.                                                      *)

\* A set of naturals that is not empty has a least element.
LEMMA LeastExists ==
  ASSUME NEW S \in SUBSET Nat, S # {}
  PROVE  \E n \in S : \A k \in S : n <= k
<1>1. IsWellFoundedOn(OpToRel(<, Nat), Nat)
  BY NatLessThanWellFounded
<1>2. PICK n \in S : \A k \in S : <<k, n>> \notin OpToRel(<, Nat)
  BY <1>1, WFMin, Zenon
<1>3. \A k \in S : n <= k
  <2>1. SUFFICES ASSUME NEW k \in S
                 PROVE  n <= k
    OBVIOUS
  <2>2. n \in Nat /\ k \in Nat
    OBVIOUS
  <2>3. ~(k < n)
    BY <1>2, <2>2 DEF OpToRel
  <2> QED  BY <2>2, <2>3
<1> QED  BY <1>3

LEMMA MinIsLeast ==
  ASSUME NEW S \in SUBSET Nat, S # {}
  PROVE  Min(S) \in S /\ \A k \in S : Min(S) <= k
<1>1. \E n \in S : \A k \in S : n <= k
  BY LeastExists, Zenon
<1> QED  BY <1>1, Zenon DEF Min

\* A set of naturals with a bound has a greatest element: the least bound.
LEMMA MaxIsGreatest ==
  ASSUME NEW S \in SUBSET Nat, S # {}, NEW bound \in Nat,
         \A i \in S : i <= bound
  PROVE  Max(S) \in S /\ \A k \in S : k <= Max(S)
<1> DEFINE Bounds == {n \in Nat : \A i \in S : i <= n}
<1>1. PICK n \in Bounds : \A k \in Bounds : n <= k
  <2>1. Bounds \in SUBSET Nat /\ Bounds # {}
    OBVIOUS
  <2> HIDE DEF Bounds
  <2> QED  BY <2>1, LeastExists, Zenon
<1>2. n \in S
  <2>1. SUFFICES ASSUME n \notin S
                 PROVE  FALSE
    OBVIOUS
  <2>2. PICK i \in S : TRUE
    OBVIOUS
  <2>3. n # 0
    BY <2>1, <2>2
  <2>4. \A k \in S : k <= n - 1
    BY <2>1
  <2>5. n - 1 \in Bounds
    BY <2>3, <2>4
  <2> QED  BY <1>1, <2>5
<1>3. \E x \in S : \A y \in S : x >= y
  BY <1>2
<1>4. Max(S) \in S /\ \A y \in S : Max(S) >= y
  BY <1>3, Zenon DEF Max
<1> QED  BY <1>4

LEMMA NumbersAreFinite ==
  ASSUME NEW n \in Nat, NEW S \in SUBSET (1..n)
  PROVE  /\ IsFiniteSet(S) /\ Cardinality(S) \in Nat
         /\ Cardinality(S) <= n
<1>1. IsFiniteSet(1..n) /\ Cardinality(1..n) = n
  <2>1. 1 \in Int /\ n \in Int
    OBVIOUS
  <2>2. Cardinality(1..n) = IF 1 > n THEN 0 ELSE n - 1 + 1
    BY <2>1, FS_Interval, Zenon
  <2>3. IsFiniteSet(1..n)
    BY <2>1, FS_Interval, Zenon
  <2> QED  BY <2>2, <2>3
<1>2. IsFiniteSet(S) /\ Cardinality(S) <= Cardinality(1..n)
  BY <1>1, FS_Subset, Zenon
<1> QED  BY <1>1, <1>2, FS_CardinalityType, Zenon

LEMMA ListsAreSequences ==
  ASSUME NEW S, NEW n \in Nat, NEW list \in [1..n -> S]
  PROVE  list \in Seq(S) /\ Len(list) = n
<1>1. list \in UNION {[1..m -> S] : m \in Nat}
  BY Zenon
<1>2. list \in Seq(S)
  BY <1>1, SeqDef, Zenon
<1> QED  BY <1>2

\* The ascending list of a finite set of naturals has each of them in it, in
\* ascending order: the rank of a number is its place.
LEMMA AscendingIsSorted ==
  ASSUME NEW n \in Nat, NEW S \in SUBSET (1..n)
  PROVE  /\ Ascending(S) \in [1..Cardinality(S) -> S]
         /\ Cardinality(S) \in 0..n
         /\ \A x \in S : \E k \in 1..Cardinality(S) : Ascending(S)[k] = x
<1> DEFINE UpTo(x) == {y \in S : y <= x}
<1> DEFINE size == Cardinality(S)
<1>1. IsFiniteSet(S) /\ size \in 0..n
  BY NumbersAreFinite
<1>2. ASSUME NEW x \in S
      PROVE  Cardinality(UpTo(x)) \in 1..size
  <2>1. UpTo(x) \in SUBSET S /\ x \in UpTo(x)
    OBVIOUS
  <2> HIDE DEF UpTo
  <2>2. IsFiniteSet(UpTo(x)) /\ Cardinality(UpTo(x)) <= size
    BY <1>1, <2>1, FS_Subset, Zenon
  <2>3. Cardinality(UpTo(x)) \in Nat /\ Cardinality(UpTo(x)) # 0
    BY <2>1, <2>2, FS_CardinalityType, FS_EmptySet, Zenon
  <2> QED  BY <1>1, <2>2, <2>3
<1>3. ASSUME NEW x \in S, NEW y \in S, x < y
      PROVE  Cardinality(UpTo(x)) < Cardinality(UpTo(y))
  <2>1. UpTo(x) \in SUBSET UpTo(y) /\ y \in UpTo(y) /\ y \notin UpTo(x)
    <3>1. x \in Nat /\ y \in Nat /\ \A z \in S : z \in Nat
      OBVIOUS
    <3>2. \A z \in UpTo(x) : z \in UpTo(y)
      BY <1>3, <3>1
    <3>3. y \in UpTo(y) /\ y \notin UpTo(x)
      BY <1>3, <3>1
    <3> HIDE DEF UpTo
    <3> QED  BY <3>2, <3>3
  <2>2. UpTo(y) \in SUBSET S
    OBVIOUS
  <2>3. Cardinality(UpTo(x)) \in Nat /\ Cardinality(UpTo(y)) \in Nat
    BY <1>2
  <2> HIDE DEF UpTo
  <2>4. IsFiniteSet(UpTo(y))
    BY <1>1, <2>2, FS_Subset, Zenon
  <2>5. /\ Cardinality(UpTo(x)) <= Cardinality(UpTo(y))
        /\ Cardinality(UpTo(x)) # Cardinality(UpTo(y))
    BY <2>1, <2>4, FS_Subset, Zenon
  <2> QED  BY <2>3, <2>5
<1> DEFINE rank == [x \in S |-> Cardinality(UpTo(x))]
<1>4. rank \in Bijection(S, 1..size)
  <2>1. rank \in [S -> 1..size]
    BY <1>2
  <2>2. \A x, y \in S : x < y => rank[x] < rank[y]
    BY <1>3
  <2>3. \A x \in S : rank[x] \in Nat /\ x \in Nat
    BY <2>1
  <2>4. IsInjective(rank)
    <3> HIDE DEF rank
    <3> QED  BY <2>1, <2>2, <2>3 DEF IsInjective
  <2>5. rank \in Injection(S, 1..size)
    BY <2>1, <2>4, Zenon DEF Injection
  <2>6. IsFiniteSet(1..size) /\ Cardinality(1..size) = size
    <3>1. 1 \in Int /\ size \in Int
      BY <1>1
    <3>2. Cardinality(1..size) = IF 1 > size THEN 0 ELSE size - 1 + 1
      BY <3>1, FS_Interval, Zenon
    <3>3. IsFiniteSet(1..size)
      BY <3>1, FS_Interval, Zenon
    <3> HIDE DEF size
    <3> QED  BY <1>1, <3>2, <3>3
  <2>7. rank \in Surjection(S, 1..size)
    <3> HIDE DEF rank, size
    <3>1. Cardinality(S) = Cardinality(1..size)
      BY <2>6 DEF size
    <3> QED  BY <2>5, <2>6, <3>1, FS_Injection, Zenon
  <2> QED  BY <2>5, <2>7, Zenon DEF Bijection
<1> DEFINE list == [k \in 1..size |-> CHOOSE x \in S : rank[x] = k]
<1>5. \A k \in 1..size : list[k] \in S /\ rank[list[k]] = k
  <2>1. \A k \in 1..size : \E x \in S : rank[x] = k
    <3> HIDE DEF rank
    <3> QED  BY <1>4 DEF Bijection, Surjection
  <2> HIDE DEF rank, size
  <2> QED  BY <2>1
<1>6. \A i, j \in 1..size : i < j => list[i] < list[j]
  <2>1. SUFFICES ASSUME NEW i \in 1..size, NEW j \in 1..size, i < j,
                        ~(list[i] < list[j])
                 PROVE  FALSE
    OBVIOUS
  <2> DEFINE x == list[i]
             y == list[j]
  <2>2. x \in S /\ y \in S /\ rank[x] = i /\ rank[y] = j
    BY <1>5
  <2>3. rank[x] = Cardinality(UpTo(x)) /\ rank[y] = Cardinality(UpTo(y))
    BY <2>2
  <2>4. ~(x < y) /\ x \in Nat /\ y \in Nat
    <3>1. ~(x < y)
      BY <2>1
    <3>2. \A z \in S : z \in Nat
      OBVIOUS
    <3> HIDE DEF x, y
    <3> QED  BY <2>2, <3>1, <3>2
  <2> HIDE DEF x, y, list, rank, UpTo
  <2>5. y < x => Cardinality(UpTo(y)) < Cardinality(UpTo(x))
    BY <1>3, <2>2
  <2> QED  BY <2>1, <2>2, <2>3, <2>4, <2>5
<1>7. list \in [1..size -> S] /\ DOMAIN list = 1..size
  BY <1>5
<1> DEFINE Sorted(s) == \A i, j \in DOMAIN s : i < j => s[i] < s[j]
<1>8. \E s \in [1..size -> S] : Sorted(s)
  <2> HIDE DEF list, size
  <2> QED  BY <1>6, <1>7
<1> DEFINE sorted == Ascending(S)
<1>9. sorted \in [1..size -> S] /\ Sorted(sorted)
  BY <1>8, Zenon DEF Ascending
<1>10. \A x \in S : \E k \in 1..size : sorted[k] = x
  <2> HIDE DEF sorted
  <2>1. sorted \in Injection(1..size, S)
    <3>1. \A i, j \in 1..size : i < j => sorted[i] < sorted[j]
      BY <1>9
    <3>2. \A i \in 1..size : i \in Nat /\ sorted[i] \in Nat
      <4>1. \A x \in S : x \in Nat
        OBVIOUS
      <4>2. \A i \in 1..size : sorted[i] \in S
        BY <1>9
      <4>3. \A i \in 1..size : i \in Nat
        BY <1>1
      <4> HIDE DEF sorted, size
      <4> QED  BY <4>1, <4>2, <4>3
    <3>3. IsInjective(sorted)
      <4> HIDE DEF size
      <4> QED  BY <1>9, <3>1, <3>2 DEF IsInjective
    <3> QED  BY <1>9, <3>3, Zenon DEF Injection
  <2>2. sorted \in Surjection(1..size, S)
    <3>1. 1 \in Int /\ size \in Int
      BY <1>1
    <3>2. Cardinality(1..size) = IF 1 > size THEN 0 ELSE size - 1 + 1
      BY <3>1, FS_Interval, Zenon
    <3>3. Cardinality(1..size) = size
      <4> HIDE DEF size
      <4> QED  BY <1>1, <3>2
    <3>4. Cardinality(1..size) = Cardinality(S)
      BY <3>3
    <3> HIDE DEF size
    <3> QED  BY <1>1, <2>1, <3>4, FS_Injection, Zenon
  <2> HIDE DEF size
  <2> QED  BY <2>2 DEF Surjection
<1> QED  BY <1>1, <1>9, <1>10

\* A window of the last n items of a list has no others, and is the list as
\* long as that is no longer than the window.
LEMMA WindowOfList ==
  ASSUME NEW S, NEW s \in Seq(S), NEW n \in Nat \ {0}
  PROVE  /\ LastN(s, n) \in Seq(S)
         /\ Len(LastN(s, n)) <= n
         /\ Range(LastN(s, n)) \subseteq Range(s)
         /\ Len(s) <= n => LastN(s, n) = s
<1> DEFINE pair == {1, Len(s) - n + 1}
           m == Max(pair)
           window == LastN(s, n)
<1>1. Len(s) \in Nat
  BY LenProperties
<1>2. m = IF Len(s) <= n THEN 1 ELSE Len(s) - n + 1
  <2> DEFINE top == IF Len(s) <= n THEN 1 ELSE Len(s) - n + 1
  <2>1. top \in pair /\ \A y \in pair : top >= y
    BY <1>1
  <2>2. m \in pair /\ \A y \in pair : m >= y
    <3> HIDE DEF pair, top
    <3> QED  BY <2>1, Zenon DEF Max
  <2>3. m >= top /\ top >= m
    <3> HIDE DEF m, top
    <3> QED  BY <2>1, <2>2
  <2> HIDE DEF m
  <2> QED  BY <1>1, <2>2, <2>3
<1>3. window = SubSeq(s, m, Len(s))
  BY DEF LastN
<1> HIDE DEF m, window
<1>4. m \in Int /\ m >= 1 /\ \A i \in m..Len(s) : s[i] \in S
  <2>1. \A i \in 1..Len(s) : s[i] \in S
    BY ElementOfSeq, Zenon
  <2> QED  BY <1>1, <1>2, <2>1
<1>5. /\ window \in Seq(S)
      /\ Len(window) = IF m <= Len(s) THEN Len(s) - m + 1 ELSE 0
      /\ \A i \in 1..Len(s) - m + 1 : window[i] = s[m + i - 1]
  BY <1>1, <1>3, <1>4, SubSeqProperties
<1>6. Range(window) \subseteq Range(s)
  <2>1. \A i \in DOMAIN window : \E k \in DOMAIN s : window[i] = s[k]
    <3>1. SUFFICES ASSUME NEW i \in DOMAIN window
                   PROVE  \E k \in DOMAIN s : window[i] = s[k]
      OBVIOUS
    <3>2. DOMAIN window = 1..Len(window) /\ DOMAIN s = 1..Len(s)
      BY <1>5, LenProperties
    <3>3. i \in 1..Len(s) - m + 1
      BY <1>1, <1>4, <1>5, <3>2
    <3>4. m + i - 1 \in DOMAIN s
      BY <1>1, <1>4, <3>2, <3>3
    <3> QED  BY <1>5, <3>3, <3>4
  <2> QED  BY <2>1 DEF Range
<1>7. Len(s) <= n => window = s
  BY <1>2, <1>3, SubSeqFull
<1> QED  BY <1>1, <1>2, <1>5, <1>6, <1>7 DEF window

-----------------------------------------------------------------------------
(* The messages of a file.                                                 *)

\* The messages of a file after line from are those of the lines C that carry
\* something: each such line is of one message, and the next one starts behind
\* the last line of the one before it (iter_wire_coalesced).
MessagesCover(lines, from, C, M) ==
  /\ DOMAIN M \subseteq C
  /\ \A i \in DOMAIN M :
       /\ M[i].content \in Contents
       /\ M[i].last \in from + 1 .. Len(lines)
       /\ i <= M[i].last
  /\ \A i, k \in DOMAIN M : i < k => M[i].last < k
  /\ \A n \in C : \E i \in DOMAIN M :
       /\ i <= n /\ n <= M[i].last
       /\ lines[n].text \in Range(M[i].content)

LEMMA MessagesOfLines ==
  ASSUME NEW lines \in Seq(Lines), Len(lines) <= MaxLines, NEW from \in Nat,
         NEW v
  PROVE  MessagesCover(lines, from, Carrying(lines, from, v),
                       Messages(lines, from, v))
<1> SUFFICES ASSUME NEW C, C = Carrying(lines, from, v),
                    NEW M, M = Messages(lines, from, v)
             PROVE  MessagesCover(lines, from, C, M)
  BY Zenon
<1> DEFINE own(i) == MessageLines(lines, C, i)
           parts(i) == Ascending(own(i))
           joined(i) == Joined(lines, C, i)
<1>1. Len(lines) \in Nat /\ MaxLines \in Nat
  BY AutosaveAssumption
<1>2. C \subseteq from + 1 .. Len(lines) /\ C \in SUBSET (1..Len(lines))
      /\ C \in SUBSET Nat
  BY <1>1 DEF Carrying
<1>3. M = [i \in {i \in C : ~joined(i)} |->
             [last |-> Max(own(i)),
              content |-> [k \in DOMAIN parts(i) |-> lines[parts(i)[k]].text]]]
  BY Zenon DEF Messages
<1>4. DOMAIN M = {i \in C : ~joined(i)}
  <2> HIDE DEF own, parts, joined
  <2> QED  BY <1>3, Zenon
<1>5. ASSUME NEW i \in DOMAIN M
      PROVE  /\ i \in own(i) /\ own(i) \subseteq C
             /\ M[i].last = Max(own(i)) /\ M[i].last \in own(i)
             /\ \A k \in own(i) : i <= k /\ k <= M[i].last
             /\ M[i].content = [k \in DOMAIN parts(i) |-> lines[parts(i)[k]].text]
  <2>1. i \in C
    BY <1>4
  <2>2. own(i) = {j \in C : j >= i /\ \A k \in C : i < k /\ k <= j => joined(k)}
    BY Zenon DEF MessageLines
  <2>3. i \in own(i) /\ own(i) \subseteq C /\ \A k \in own(i) : i <= k
    <3> HIDE DEF own, joined
    <3> QED  BY <1>2, <2>1, <2>2
  <2>4. Max(own(i)) \in own(i) /\ \A k \in own(i) : k <= Max(own(i))
    <3>1. own(i) \in SUBSET Nat /\ own(i) # {}
          /\ \A k \in own(i) : k <= Len(lines)
      <4> DEFINE S == own(i)
      <4> HIDE DEF own
      <4>1. S \subseteq C /\ i \in S
        BY <2>3
      <4> HIDE DEF S
      <4>2. \A k \in C : k \in Nat /\ k <= Len(lines)
        BY <1>1, <1>2
      <4>3. S \in SUBSET Nat /\ S # {} /\ \A k \in S : k <= Len(lines)
        BY <4>1, <4>2
      <4> QED  BY <4>3 DEF S
    <3> HIDE DEF own
    <3> QED  BY <1>1, <3>1, MaxIsGreatest, Zenon
  <2>5. M[i] = [last |-> Max(own(i)),
                content |-> [k \in DOMAIN parts(i) |-> lines[parts(i)[k]].text]]
    <3> HIDE DEF own, parts, joined
    <3> QED  BY <1>3, <1>4, Zenon
  <2> HIDE DEF own, parts, joined
  <2> QED  BY <2>3, <2>4, <2>5
<1>6. ASSUME NEW i \in DOMAIN M
      PROVE  /\ parts(i) \in [1..Cardinality(own(i)) -> own(i)]
             /\ Cardinality(own(i)) \in 0..Len(lines)
             /\ \A x \in own(i) : \E k \in 1..Cardinality(own(i)) : parts(i)[k] = x
  <2>1. own(i) \in SUBSET (1..Len(lines))
    <3> HIDE DEF own
    <3> QED  BY <1>2, <1>5
  <2> DEFINE S == own(i)
  <2>2. parts(i) = Ascending(S)
    OBVIOUS
  <2> HIDE DEF own, parts, S
  <2>3. S \in SUBSET (1..Len(lines))
    BY <2>1 DEF S
  <2> SUFFICES /\ Ascending(S) \in [1..Cardinality(S) -> S]
               /\ Cardinality(S) \in 0..Len(lines)
               /\ \A x \in S : \E k \in 1..Cardinality(S) : Ascending(S)[k] = x
    BY <2>2, Zenon DEF S
  <2> QED  BY <1>1, <2>3, AscendingIsSorted, Zenon
<1>7. ASSUME NEW i \in DOMAIN M
      PROVE  M[i].content \in Contents
  <2> DEFINE n == Cardinality(own(i))
             c == M[i].content
  <2>1. parts(i) \in [1..n -> C]
    <3>1. parts(i) \in [1..n -> own(i)]
      BY <1>6, Zenon
    <3>2. own(i) \subseteq C
      BY <1>5, Zenon
    <3> HIDE DEF own, parts, n
    <3> QED  BY <3>1, <3>2
  <2>2. \A k \in C : lines[k].text \in Texts
    <3>1. \A k \in 1..Len(lines) : lines[k].text \in Texts
      <4>1. \A k \in 1..Len(lines) : lines[k] \in Lines
        BY ElementOfSeq, Zenon
      <4> QED  BY <4>1 DEF Lines
    <3> QED  BY <1>2, <3>1
  <2>3. c = [k \in 1..n |-> lines[parts(i)[k]].text]
    <3>1. DOMAIN parts(i) = 1..n
      <4> HIDE DEF n, parts
      <4> QED  BY <2>1
    <3>2. c = [k \in DOMAIN parts(i) |-> lines[parts(i)[k]].text]
      BY <1>5, Zenon
    <3> HIDE DEF n, parts, c
    <3> QED  BY <3>1, <3>2, Zenon
  <2>4. c \in [1..n -> Texts]
    <3> HIDE DEF n, parts, c
    <3> QED  BY <2>1, <2>2, <2>3
  <2>5. n \in 1..MaxLines
    <3>1. n # 0
      <4>1. \E k \in 1..n : parts(i)[k] = i
        <5> HIDE DEF own, parts
        <5> QED  BY <1>5, <1>6
      <4> HIDE DEF n, parts
      <4> QED  BY <4>1
    <3>2. n \in 0..Len(lines)
      BY <1>6, Zenon
    <3> HIDE DEF n
    <3> QED  BY <1>1, <3>1, <3>2
  <2> HIDE DEF n, c
  <2>6. c \in Contents
    BY <2>4, <2>5, Zenon DEF Contents
  <2> QED  BY <2>6 DEF c
<1>8. ASSUME NEW i \in DOMAIN M, NEW k \in DOMAIN M, i < k
      PROVE  M[i].last < k
  <2>1. M[i].last \in {j \in C : j >= i /\ \A l \in C : i < l /\ l <= j => joined(l)}
    <3>1. own(i) = {j \in C : j >= i /\ \A l \in C : i < l /\ l <= j => joined(l)}
      BY Zenon DEF MessageLines
    <3> HIDE DEF own, joined
    <3> QED  BY <1>5, <3>1
  <2>2. k \in C /\ ~joined(k)
    <3> HIDE DEF joined
    <3> QED  BY <1>4
  <2>3. M[i].last \in Nat /\ k \in Nat
    <3> HIDE DEF joined
    <3> QED  BY <1>2, <2>1, <2>2
  <2>4. ~(k <= M[i].last)
    <3> HIDE DEF joined
    <3> QED  BY <1>8, <2>1, <2>2
  <2> QED  BY <2>3, <2>4
<1>9. ASSUME NEW n \in C
      PROVE  \E i \in DOMAIN M : /\ i <= n /\ n <= M[i].last
                                 /\ lines[n].text \in Range(M[i].content)
  <2> DEFINE Starts == {k \in C : k <= n /\ ~joined(k)}
  <2>1. Starts # {}
    <3>1. PICK first \in C : \A k \in C : first <= k
      <4>1. C # {} /\ C \in SUBSET Nat
        BY <1>2
      <4> QED  BY <4>1, LeastExists, Zenon
    <3>2. ~joined(first)
      <4>1. joined(first) => \E j \in C : j < first
        BY Zenon DEF Joined
      <4> HIDE DEF joined
      <4> QED  BY <1>2, <3>1, <4>1
    <3> HIDE DEF joined
    <3> QED  BY <3>1, <3>2
  <2> DEFINE i == Max(Starts)
  <2>2. i \in Starts /\ \A k \in Starts : k <= i
    <3>1. Starts \in SUBSET Nat /\ n \in Nat /\ \A k \in Starts : k <= n
      <4> HIDE DEF joined
      <4> QED  BY <1>2
    <3> HIDE DEF Starts
    <3> QED  BY <2>1, <3>1, MaxIsGreatest, Zenon
  <2>3. i \in C /\ i <= n /\ ~joined(i) /\ i \in DOMAIN M
    <3> HIDE DEF joined, i
    <3> QED  BY <1>4, <2>2
  <2>4. \A k \in C : i < k /\ k <= n => joined(k)
    <3> HIDE DEF joined, i
    <3> QED  BY <1>2, <2>2, <2>3
  <2>5. n \in own(i)
    <3>1. own(i) = {j \in C : j >= i /\ \A l \in C : i < l /\ l <= j => joined(l)}
      BY Zenon DEF MessageLines
    <3> HIDE DEF own, joined, i
    <3> QED  BY <1>2, <2>3, <2>4, <3>1
  <2>6. n <= M[i].last
    <3> HIDE DEF own, i
    <3> QED  BY <1>5, <2>3, <2>5
  <2>7. lines[n].text \in Range(M[i].content)
    <3>1. PICK k \in 1..Cardinality(own(i)) : parts(i)[k] = n
      <4> HIDE DEF own, parts, i
      <4> QED  BY <1>6, <2>3, <2>5
    <3>2. k \in DOMAIN parts(i)
      <4> HIDE DEF own, parts, i
      <4> QED  BY <1>6, <2>3
    <3>3. M[i].content = [l \in DOMAIN parts(i) |-> lines[parts(i)[l]].text]
      <4> HIDE DEF own, parts, i
      <4> QED  BY <1>5, <2>3, Zenon
    <3> HIDE DEF own, parts, i
    <3>4. k \in DOMAIN M[i].content /\ M[i].content[k] = lines[n].text
      BY <3>1, <3>2, <3>3
    <3> QED  BY <3>4, Zenon DEF Range
  <2> HIDE DEF i
  <2> QED  BY <2>3, <2>6, <2>7
<1>10. \A i \in DOMAIN M : /\ M[i].last \in from + 1 .. Len(lines)
                           /\ i <= M[i].last
  <2> HIDE DEF own, parts
  <2> QED  BY <1>2, <1>5
<1>11. DOMAIN M \subseteq C
  <2> HIDE DEF joined
  <2> QED  BY <1>4
<1> QED  BY <1>7, <1>8, <1>9, <1>10, <1>11, Zenon DEF MessagesCover

\* What a pass over a file leaves: its entries are messages that the state and
\* the stored digests do not know; each line up to where it ends, and each line
\* of the file unless it stops early, is of an entry or of a known message; and
\* a pass that adds nothing without a deadline does not stop early.
LEMMA PassOverLines ==
  ASSUME NEW lines \in Seq(Lines), Len(lines) <= MaxLines,
         NEW j, j.start \in Nat, NEW stop \in Nat
  PROVE  LET pass == Pass(j, Messages(lines, j.start, j.version), stop)
             known == Range(j.state.hashes) \cup j.stored
         IN /\ pass.entries \in Seq(Contents)
            /\ pass.early \in BOOLEAN
            /\ pass.to \in Nat /\ pass.to >= j.start
            /\ pass.to <= Len(lines) \/ pass.to = j.start
            /\ Range(pass.entries) \cap known = {}
            /\ \A n \in Carrying(lines, j.start, j.version) :
                 n <= pass.to \/ ~pass.early =>
                   \E content \in known \cup Range(pass.entries) :
                     lines[n].text \in Range(content)
            /\ pass.entries = << >> /\ stop = Len(lines) + 1 => ~pass.early
<1> DEFINE C == Carrying(lines, j.start, j.version)
           M == Messages(lines, j.start, j.version)
           all == DOMAIN M
           known == Range(j.state.hashes) \cup j.stored
           new == {i \in all : M[i].content \notin known}
           reach == Reach(all, new)
           read == {i \in reach : i < stop}
           chosen == read \cap new
           added == Ascending(chosen)
           lasts == {M[i].last : i \in read}
           pass == Pass(j, M, stop)
           size == Len(lines)
<1>1. /\ pass.entries = [k \in DOMAIN added |-> M[added[k]].content]
      /\ pass.to = Max(lasts \cup {j.start})
      /\ pass.early = StopsEarly(reach, read, Len(added))
  BY Zenon DEF Pass
<1> HIDE DEF pass, C, M
<1>2. /\ all \subseteq C
      /\ \A i \in all : /\ M[i].content \in Contents
                        /\ M[i].last \in j.start + 1 .. size
                        /\ i <= M[i].last
      /\ \A i, k \in all : i < k => M[i].last < k
      /\ \A n \in C : \E i \in all : /\ i <= n /\ n <= M[i].last
                                     /\ lines[n].text \in Range(M[i].content)
  <2>1. C = Carrying(lines, j.start, j.version)
        /\ M = Messages(lines, j.start, j.version)
    BY Zenon DEF C, M
  <2>2. MessagesCover(lines, j.start, C, M)
    <3>1. MessagesCover(lines, j.start, Carrying(lines, j.start, j.version),
                        Messages(lines, j.start, j.version))
      BY MessagesOfLines, Zenon
    <3> QED  BY <2>1, <3>1, Zenon
  <2> QED  BY <2>2, Zenon DEF MessagesCover
<1>3. size \in Nat /\ C \in SUBSET (1..size) /\ all \in SUBSET (1..size)
      /\ \A n \in C : n \in Nat /\ n <= size
  <2>1. size \in Nat
    OBVIOUS
  <2>2. \A n \in C : n \in 1..size
    BY <2>1 DEF C, Carrying
  <2> HIDE DEF all, size
  <2>3. \A n \in 1..size : n \in Nat /\ n <= size
    BY <2>1
  <2> QED  BY <1>2, <2>1, <2>2, <2>3
<1> HIDE DEF size
<1>4. reach = {i \in all : Cardinality({n \in new : n < i}) < PassCap}
  BY Zenon DEF Reach
<1>5. chosen \in SUBSET (1..size) /\ new \in SUBSET (1..size)
      /\ read \subseteq all /\ reach \subseteq all
  <2> HIDE DEF all, reach
  <2> QED  BY <1>3, <1>4
<1>6. \A S \in SUBSET (1..size) : IsFiniteSet(S) /\ Cardinality(S) \in Nat
  BY <1>3, NumbersAreFinite
<1>7. /\ added \in [1..Cardinality(chosen) -> chosen]
      /\ \A x \in chosen : \E k \in 1..Cardinality(chosen) : added[k] = x
  <2> HIDE DEF chosen
  <2> QED  BY <1>3, <1>5, AscendingIsSorted, Zenon
<1>8. added \in Seq(chosen) /\ Len(added) = Cardinality(chosen)
      /\ DOMAIN added = 1..Cardinality(chosen)
  <2> HIDE DEF chosen, added
  <2>1. Cardinality(chosen) \in Nat
    BY <1>5, <1>6, Zenon
  <2> QED  BY <1>7, <2>1, ListsAreSequences, Zenon
<1>9. pass.entries \in [1..Cardinality(chosen) -> {M[i].content : i \in chosen}]
  <2> HIDE DEF chosen, added
  <2> QED  BY <1>1, <1>7, <1>8
<1>10. Range(pass.entries) = {M[i].content : i \in chosen}
  <2> DEFINE content == {M[i].content : i \in chosen}
  <2>1. Range(pass.entries) \subseteq content
    <3> HIDE DEF content, chosen
    <3>1. DOMAIN pass.entries = 1..Cardinality(chosen)
          /\ \A k \in 1..Cardinality(chosen) : pass.entries[k] \in content
      BY <1>9 DEF content
    <3> QED  BY <3>1, Zenon DEF Range
  <2>2. \A i \in chosen : M[i].content \in Range(pass.entries)
    <3>1. SUFFICES ASSUME NEW i \in chosen
                   PROVE  M[i].content \in Range(pass.entries)
      OBVIOUS
    <3> HIDE DEF chosen, added
    <3>2. PICK k \in DOMAIN added : added[k] = i
      BY <1>7, <1>8, <3>1
    <3>3. k \in DOMAIN pass.entries /\ pass.entries[k] = M[i].content
      BY <1>1, <3>2
    <3> QED  BY <3>3, Zenon DEF Range
  <2> HIDE DEF chosen
  <2> QED  BY <2>1, <2>2
<1>11. pass.entries \in Seq(Contents)
  <2>1. {M[i].content : i \in chosen} \subseteq Contents
    <3> HIDE DEF all, reach
    <3> QED  BY <1>2
  <2>2. Cardinality(chosen) \in Nat
    <3> HIDE DEF chosen
    <3> QED  BY <1>5, <1>6, Zenon
  <2> HIDE DEF chosen
  <2>3. pass.entries \in [1..Cardinality(chosen) -> Contents]
    BY <1>9, <2>1
  <2> QED  BY <2>2, <2>3, ListsAreSequences, Zenon
<1>12. Range(pass.entries) \cap known = {}
  <2>1. \A i \in chosen : M[i].content \notin known
    BY Zenon
  <2> HIDE DEF chosen, known
  <2> QED  BY <1>10, <2>1
<1>13. \A i \in read : M[i].last \in Nat /\ M[i].last <= size
  <2>1. SUFFICES ASSUME NEW i \in all
                 PROVE  M[i].last \in Nat /\ M[i].last <= size
    BY <1>5
  <2> HIDE DEF all
  <2>2. M[i].last \in j.start + 1 .. size
    BY <1>2
  <2> QED  BY <1>3, <2>2
<1>14. /\ pass.to \in lasts \cup {j.start}
       /\ \A k \in lasts \cup {j.start} : k <= pass.to
  <2> DEFINE S == lasts \cup {j.start}
  <2>1. S \in SUBSET Nat /\ S # {} /\ \A k \in S : k <= size + j.start
    <3> HIDE DEF read
    <3> QED  BY <1>3, <1>13
  <2>2. size + j.start \in Nat
    BY <1>3
  <2>3. pass.to = Max(S)
    BY <1>1
  <2> HIDE DEF S
  <2> SUFFICES pass.to \in S /\ \A k \in S : k <= pass.to
    BY Zenon DEF S
  <2> QED  BY <2>1, <2>2, <2>3, MaxIsGreatest, Zenon
<1>15. pass.to \in Nat /\ pass.to >= j.start /\ (pass.to <= size \/ pass.to = j.start)
  <2> HIDE DEF read
  <2> QED  BY <1>3, <1>13, <1>14
<1>16. ASSUME NEW k \in read, NEW i \in all, i <= k
       PROVE  i \in read
  <2> DEFINE before(x) == {n \in new : n < x}
  <2>1. i \in Nat /\ k \in Nat /\ k \in all /\ k \in reach /\ k < stop
    <3>1. k \in reach /\ k < stop
      BY Zenon
    <3> HIDE DEF all, reach, read
    <3> QED  BY <1>2, <1>3, <1>5, <3>1
  <2>2. before(i) \in SUBSET before(k) /\ before(k) \in SUBSET (1..size)
    <3>1. \A n \in new : n \in Nat
      <4> HIDE DEF new
      <4> QED  BY <1>5
    <3>2. \A n \in before(i) : n \in before(k)
      <4> HIDE DEF new
      <4> QED  BY <1>16, <2>1, <3>1
    <3> HIDE DEF new
    <3> QED  BY <1>5, <3>2
  <2>3. Cardinality(before(i)) <= Cardinality(before(k))
        /\ Cardinality(before(i)) \in Nat /\ Cardinality(before(k)) \in Nat
    <3> HIDE DEF before
    <3>1. IsFiniteSet(before(k)) /\ Cardinality(before(k)) \in Nat
      BY <1>6, <2>2, Zenon
    <3>2. IsFiniteSet(before(i)) /\ Cardinality(before(i)) <= Cardinality(before(k))
      BY <2>2, <3>1, FS_Subset, Zenon
    <3> QED  BY <3>1, <3>2, FS_CardinalityType, Zenon
  <2>4. Cardinality(before(k)) < PassCap
    <3> HIDE DEF all, new, reach
    <3> QED  BY <1>4, <2>1
  <2>5. PassCap \in Nat
    BY AutosaveAssumption
  <2>6. Cardinality(before(i)) < PassCap
    <3> HIDE DEF before
    <3> QED  BY <2>3, <2>4, <2>5
  <2>7. i \in reach
    <3> HIDE DEF all, new, reach
    <3> QED  BY <1>4, <2>6
  <2>8. i < stop
    BY <1>16, <2>1
  <2> HIDE DEF reach
  <2> QED  BY <2>7, <2>8
<1>17. ASSUME ~pass.early
       PROVE  read = all
  <2>1. read = reach /\ ~(Cardinality(chosen) >= PassCap)
    <3> HIDE DEF read, reach, added, chosen
    <3> QED  BY <1>1, <1>8, <1>17 DEF StopsEarly
  <2>2. SUFFICES ASSUME all \ reach # {}
                 PROVE  FALSE
    <3> HIDE DEF all, read, reach
    <3> QED  BY <1>5, <2>1
  <2>3. PICK m \in all \ reach : \A i \in all \ reach : m <= i
    <3> DEFINE S == all \ reach
    <3>1. S \in SUBSET Nat /\ S # {}
      <4> HIDE DEF all, reach
      <4>1. \A i \in all : i \in Nat
        BY <1>2, <1>3
      <4> QED  BY <2>2, <4>1
    <3> HIDE DEF S
    <3>2. \E m \in S : \A i \in S : m <= i
      BY <3>1, LeastExists, Zenon
    <3> QED  BY <3>2 DEF S
  <2> DEFINE before == {n \in new : n < m}
  <2>4. before \in SUBSET chosen
    <3>1. SUFFICES ASSUME NEW n \in before
                   PROVE  n \in chosen
      OBVIOUS
    <3>2. n \in all /\ n \in new /\ n < m
      BY Zenon
    <3>3. n \in Nat /\ m \in Nat
      <4> HIDE DEF all, reach
      <4> QED  BY <1>3, <3>2
    <3>4. n \in reach
      <4> HIDE DEF all, reach, new, before
      <4> QED  BY <2>3, <3>2, <3>3
    <3> HIDE DEF all, reach, read, new, before
    <3> QED  BY <2>1, <3>2, <3>4
  <2>5. Cardinality(before) <= Cardinality(chosen)
        /\ Cardinality(before) \in Nat /\ Cardinality(chosen) \in Nat
    <3> HIDE DEF before, chosen
    <3>1. IsFiniteSet(chosen) /\ Cardinality(chosen) \in Nat
      BY <1>5, <1>6, Zenon
    <3>2. IsFiniteSet(before) /\ Cardinality(before) <= Cardinality(chosen)
      BY <2>4, <3>1, FS_Subset, Zenon
    <3> QED  BY <3>1, <3>2, FS_CardinalityType, Zenon
  <2>6. PassCap \in Nat
    BY AutosaveAssumption
  <2>7. Cardinality(before) < PassCap
    <3> HIDE DEF before, chosen
    <3> QED  BY <2>1, <2>5, <2>6
  <2>8. m \in reach
    <3> HIDE DEF all, reach, new
    <3> QED  BY <1>4, <2>3, <2>7
  <2> HIDE DEF reach
  <2> QED  BY <2>3, <2>8
<1>18. ASSUME NEW n \in C, n <= pass.to \/ ~pass.early
       PROVE  \E content \in known \cup Range(pass.entries) :
                lines[n].text \in Range(content)
  <2>1. PICK i \in all : /\ i <= n /\ n <= M[i].last
                         /\ lines[n].text \in Range(M[i].content)
    <3> HIDE DEF all
    <3> QED  BY <1>2
  <2>2. i \in read
    <3>1. CASE ~pass.early
      <4> HIDE DEF all, read
      <4> QED  BY <1>17, <3>1
    <3>2. CASE n <= pass.to
      <4>1. n \in Nat /\ n > j.start /\ n <= size
        BY <1>3 DEF C, Carrying
      <4>2. PICK k \in read : pass.to = M[k].last
        <5>1. pass.to # j.start
          BY <1>15, <3>2, <4>1
        <5> HIDE DEF read
        <5> QED  BY <1>14, <5>1
      <4>3. k \in all /\ i \in Nat /\ k \in Nat
            /\ M[k].last \in Nat
        <5> HIDE DEF all, read
        <5>1. k \in all
          BY <1>5, <4>2
        <5>2. M[k].last \in j.start + 1 .. size
          BY <1>2, <5>1
        <5>3. M[k].last \in Nat
          BY <1>3, <5>2
        <5> QED  BY <1>2, <1>3, <5>1, <5>3
      <4>4. i <= k
        <5>1. k < i => M[k].last < i
          <6> HIDE DEF all, read
          <6> QED  BY <1>2, <4>3
        <5> HIDE DEF all, read
        <5> QED  BY <2>1, <3>2, <4>1, <4>2, <4>3, <5>1
      <4> HIDE DEF all, read
      <4> QED  BY <1>16, <4>2, <4>4
    <3> QED  BY <1>18, <3>1, <3>2
  <2>3. M[i].content \in known \cup Range(pass.entries)
    <3>1. CASE M[i].content \in known
      <4> HIDE DEF known
      <4> QED  BY <3>1
    <3>2. CASE M[i].content \notin known
      <4>1. i \in chosen
        <5> HIDE DEF all, read, known
        <5> QED  BY <2>2, <3>2
      <4> HIDE DEF chosen
      <4> QED  BY <1>10, <4>1
    <3> QED  BY <3>1, <3>2
  <2> HIDE DEF known
  <2> QED  BY <2>1, <2>3
<1>19. ASSUME pass.entries = << >>, stop = size + 1
       PROVE  ~pass.early
  <2>1. read = reach
    <3>1. \A i \in all : i < stop
      <4> HIDE DEF all
      <4> QED  BY <1>3, <1>19
    <3>2. reach \subseteq all
      BY <1>5
    <3> HIDE DEF all, reach
    <3> QED  BY <3>1, <3>2
  <2>2. Len(added) = 0
    <3>1. DOMAIN pass.entries = DOMAIN added
      <4> HIDE DEF added
      <4> QED  BY <1>1
    <3>2. DOMAIN added = 1..Cardinality(chosen) /\ Len(added) = Cardinality(chosen)
          /\ Cardinality(chosen) \in Nat
      <4> HIDE DEF chosen, added
      <4> QED  BY <1>5, <1>6, <1>8, Zenon
    <3> HIDE DEF chosen, added
    <3>3. DOMAIN pass.entries = {}
      BY <1>19
    <3>4. ~(1 \in 1..Cardinality(chosen))
      BY <3>1, <3>2, <3>3
    <3> QED  BY <3>2, <3>4
  <2>3. PassCap \in Nat \ {0}
    BY AutosaveAssumption
  <2> HIDE DEF read, reach, added
  <2>4. ~StopsEarly(reach, read, Len(added))
    <3>1. ~(Len(added) >= PassCap)
      BY <2>2, <2>3
    <3> QED  BY <2>1, <3>1, Zenon DEF StopsEarly
  <2> QED  BY <1>1, <2>4, Zenon
<1>20. pass.early \in BOOLEAN
  <2> HIDE DEF read, reach, added
  <2> QED  BY <1>1 DEF StopsEarly
<1> HIDE DEF all, known, new, reach, read, chosen, added, lasts
<1> QED  BY <1>11, <1>12, <1>15, <1>18, <1>19, <1>20, Zenon DEF pass, known, C, M, size

-----------------------------------------------------------------------------
(* The inductive invariants.                                               *)

Mark == [mtime : Nat, size : Nat, head : Seq(Lines)]

Cursor == [path : Paths, line : Nat, mark : Mark, complete : BOOLEAN,
           parser : Versions]

State == [seen : Seq(Keys), hashes : Seq(Contents), cursors : Seq(Cursor),
          anchored : BOOLEAN]

Row == [task : 1..MaxTasks, kind : {"prompt"}, from : Keys, content : Contents]
         \cup
       [task : 1..MaxTasks, kind : {"wire"}, from : Paths, content : Contents]

Places == {"idle", "resolve", "create", "read", "turn", "next", "look",
           "digests", "scan", "store"}

Job == [at : Places, heal : BOOLEAN, version : Nat, key : Keys \cup {<< >>},
        todo : Seq(Paths), sweep : SUBSET (1..MaxTasks),
        path : Paths \cup {NoPath}, passes : Nat, task : 0..MaxTasks,
        state : State, start : Nat, rescan : BOOLEAN, mark : Mark \cup {<< >>},
        stored : SUBSET Contents, entries : Seq(Contents), to : Nat,
        early : BOOLEAN]

\* Where a job holds a state it has read, and where it holds a mark as well.
Informed(j) == j.at \in {"turn", "look", "digests", "scan", "store"}
Marked(j) == j.at \in {"digests", "scan", "store"}

\* What a job holds where it is, and what it does not hold yet, with n tasks.
JobFits(j, n) ==
  /\ j.at # "idle" => j.version \in Versions
  /\ j.sweep \subseteq 1..n
  /\ Informed(j) \/ j.at = "read" => j.task \in 1..n
  /\ j.path # NoPath => j.at # "next" /\ j.todo # << >>
  /\ Marked(j) \/ j.at = "look" => j.path # NoPath
  /\ \/ j.at = "turn"
     \/ j.at \in {"resolve", "create", "read"} /\ j.path = NoPath
     => j.key \in Keys
  /\ Marked(j) => j.mark \in Mark
  /\ ~Marked(j) => ~j.rescan /\ j.stored = {} /\ j.start = 0
  /\ j.heal \/ j.rescan => j.start = 0
  /\ j.at = "digests" => j.rescan

\* The types of the variables.
WiresTyped ==
  /\ wire \in [Paths -> [lines : Seq(Lines), writes : 0..MaxWrites]]
  /\ \A p \in Paths : Len(wire[p].lines) <= MaxLines
RowsTyped == rows \in Seq(Row) /\ \A i \in DOMAIN rows : rows[i].task <= tasks
StateTyped ==
  /\ state \in [1..MaxTasks -> State]
  /\ \A t \in 1..MaxTasks : /\ Len(state[t].seen) <= SeenCap
                            /\ Len(state[t].hashes) <= HashCap
                            /\ Len(state[t].cursors) <= CursorCap
JobsTyped ==
  /\ job \in [Processes -> Job]
  /\ \A p \in Processes : JobFits(job[p], tasks)

Typed ==
  /\ WiresTyped /\ version \in Versions /\ tasks \in 0..MaxTasks
  /\ RowsTyped /\ StateTyped /\ JobsTyped

\* Every process holds a job that fits, if the one that goes on does.
LEMMA GoesIsTyped ==
  ASSUME JobsTyped, NEW p \in Processes, NEW holding \in Job,
         Goes(p, holding), JobFits(holding, tasks'),
         tasks \in Nat, tasks' \in Nat, tasks <= tasks'
  PROVE  JobsTyped'
<1>1. job' = [job EXCEPT ![p] = holding] /\ job \in [Processes -> Job]
  BY DEF Goes, JobsTyped
<1>2. job' \in [Processes -> Job]
  BY <1>1
<1>3. ASSUME NEW q \in Processes
      PROVE  JobFits(job'[q], tasks')
  <2>1. CASE q = p
    <3>1. job'[q] = holding
      BY <1>1, <2>1
    <3> QED  BY <3>1, Zenon
  <2>2. CASE q # p
    <3>1. job'[q] = job[q] /\ JobFits(job[q], tasks)
      BY <1>1, <2>2 DEF JobsTyped
    <3>2. 1..tasks \subseteq 1..tasks'
      OBVIOUS
    <3>3. JobFits(job[q], tasks')
      BY <3>1, <3>2 DEF JobFits
    <3> QED  BY <3>1, <3>3
  <2> QED  BY <2>1, <2>2
<1> QED  BY <1>2, <1>3 DEF JobsTyped

\* The bounds are naturals.
LEMMA BoundsAreNaturals ==
  /\ MaxTasks \in Nat /\ MaxWrites \in Nat /\ MaxLines \in Nat \ {0}
  /\ HeadLines \in Nat \ {0} /\ PassCap \in Nat \ {0}
  /\ SeenCap \in Nat \ {0} /\ HashCap \in Nat \ {0} /\ CursorCap \in Nat \ {0}
BY AutosaveAssumption

\* The empty state and the job of an idle process.
LEMMA NoJobIsTyped ==
  ASSUME NEW n
  PROVE  EmptyState \in State /\ NoJob \in Job /\ JobFits(NoJob, n)
<1>1. EmptyState \in State
  BY EmptySeq DEF EmptyState, State
<1>2. NoJob \in Job
  <2>1. 0 \in 0..MaxTasks
    BY BoundsAreNaturals
  <2> QED  BY <1>1, <2>1, EmptySeq DEF NoJob, Job, Places
<1>3. JobFits(NoJob, n)
  BY DEF NoJob, JobFits, Informed, Marked
<1> QED  BY <1>1, <1>2, <1>3

\* What is left of a job between two calls.
LEMMA BetweenIs ==
  ASSUME NEW j
  PROVE  /\ Between(j).at = "next" /\ Between(j).heal = j.heal
         /\ Between(j).version = j.version
         /\ Between(j).todo = j.todo /\ Between(j).sweep = j.sweep
         /\ Between(j).path = NoPath /\ Between(j).passes = j.passes
         /\ Between(j).start = 0 /\ Between(j).rescan = FALSE
         /\ Between(j).stored = {}
<1>1. Between(j).at = "next" /\ Between(j).heal = j.heal
      /\ Between(j).version = j.version
  BY DEF Between, NoJob
<1>2. Between(j).todo = j.todo /\ Between(j).sweep = j.sweep
  BY DEF Between, NoJob
<1>3. Between(j).path = NoPath /\ Between(j).passes = j.passes
  BY DEF Between, NoJob
<1>4. Between(j).start = 0 /\ Between(j).rescan = FALSE /\ Between(j).stored = {}
  BY DEF Between, NoJob
<1> QED  BY <1>1, <1>2, <1>3, <1>4

LEMMA BetweenIsTyped ==
  ASSUME NEW j \in Job, NEW n, JobFits(j, n), j.at # "idle"
  PROVE  Between(j) \in Job /\ JobFits(Between(j), n)
<1>1. Between(j) \in Job
  BY NoJobIsTyped DEF Between, Job, Places
<1>2. JobFits(Between(j), n)
  BY BetweenIs DEF JobFits, Informed, Marked
<1> QED  BY <1>1, <1>2

\* The job that goes on with the rest of its wires, or with the same one.
LEMMA TakesNext ==
  ASSUME NEW j \in Job, NEW n, JobFits(j, n), j.at # "idle", j.path # NoPath,
         NEW holding,
         \/ holding = [Between(j) EXCEPT !.passes = @ + 1]
         \/ holding = [Between(j) EXCEPT !.passes = 0, !.todo = Tail(@)]
  PROVE  /\ holding \in Job /\ JobFits(holding, n)
         /\ holding.at = "next" /\ holding.stored = {}
<1> DEFINE b == Between(j)
<1>1. b \in Job /\ JobFits(b, n) /\ b.at = "next" /\ b.stored = {}
      /\ b.todo # << >>
  BY BetweenIs, BetweenIsTyped DEF JobFits
<1>2. Tail(b.todo) \in Seq(Paths) /\ b.passes + 1 \in Nat
  <2>1. b.todo \in Seq(Paths) /\ b.passes \in Nat
    <3> HIDE DEF b
    <3> QED  BY <1>1 DEF Job
  <2> HIDE DEF b
  <2> QED  BY <1>1, <2>1, HeadTailProperties
<1>3. CASE holding = [b EXCEPT !.passes = @ + 1]
  <2> HIDE DEF b
  <2>1. holding \in Job
    BY <1>1, <1>2, <1>3 DEF Job
  <2>2. JobFits(holding, n)
    BY <1>1, <1>3 DEF Job, JobFits, Informed, Marked
  <2>3. holding.at = "next" /\ holding.stored = {}
    BY <1>1, <1>3 DEF Job
  <2> QED  BY <2>1, <2>2, <2>3
<1>4. CASE holding = [b EXCEPT !.passes = 0, !.todo = Tail(@)]
  <2>1. b.path = NoPath
    BY BetweenIs
  <2> HIDE DEF b
  <2>2. holding \in Job
    BY <1>1, <1>2, <1>4 DEF Job
  <2>3. holding.at = "next" /\ holding.stored = {} /\ holding.start = b.start
        /\ holding.version = b.version /\ holding.sweep = b.sweep
        /\ holding.path = NoPath /\ holding.rescan = b.rescan
    BY <1>1, <1>4, <2>1 DEF Job
  <2>4. JobFits(holding, n)
    BY <1>1, <2>3 DEF JobFits, Informed, Marked
  <2> QED  BY <2>2, <2>3, <2>4
<1> QED  BY <1>3, <1>4

LEMMA AfterPassIsTyped ==
  ASSUME NEW j \in Job, NEW n, JobFits(j, n), j.at # "idle", j.path # NoPath,
         NEW added
  PROVE  /\ AfterPass(j, added) \in Job /\ JobFits(AfterPass(j, added), n)
         /\ AfterPass(j, added).at = "next" /\ AfterPass(j, added).stored = {}
<1> DEFINE holding == AfterPass(j, added)
<1>1. \/ holding = [Between(j) EXCEPT !.passes = @ + 1]
      \/ holding = [Between(j) EXCEPT !.passes = 0, !.todo = Tail(@)]
  BY Zenon DEF AfterPass
<1> HIDE DEF holding
<1>2. holding \in Job /\ JobFits(holding, n) /\ holding.at = "next"
      /\ holding.stored = {}
  BY <1>1, TakesNext, Zenon
<1> QED  BY <1>2 DEF holding

-----------------------------------------------------------------------------
(* Every variable keeps its type.                                          *)

\* A state within its windows.
Windowed(s) ==
  /\ s \in State
  /\ Len(s.seen) <= SeenCap /\ Len(s.hashes) <= HashCap
  /\ Len(s.cursors) <= CursorCap

LEMMA TurnStateIsTyped ==
  ASSUME NEW j \in Job, NEW n, JobFits(j, n), j.at = "turn", TurnIsNew(j)
  PROVE  /\ Windowed(TurnState(j)) /\ TurnContent(j) \in Contents
         /\ TurnState(j).seen = LastN(Append(j.state.seen, j.key), SeenCap)
         /\ TurnState(j).hashes =
              LastN(Append(j.state.hashes, TurnContent(j)), HashCap)
         /\ TurnState(j).cursors = LastN(j.state.cursors, CursorCap)
<1> DEFINE s == j.state
           seen == LastN(Append(s.seen, j.key), SeenCap)
           hashes == LastN(Append(s.hashes, TurnContent(j)), HashCap)
           cursors == LastN(s.cursors, CursorCap)
<1>1. s \in State /\ s.seen \in Seq(Keys) /\ s.hashes \in Seq(Contents)
      /\ s.cursors \in Seq(Cursor)
  BY DEF Job, State
<1>2. j.key \in Keys /\ PromptOf[j.key[2]] \in Texts
  <2>1. j.key \in Sessions \X (Turns \cup {NoTurn}) /\ j.key[2] # NoTurn
    BY DEF JobFits, TurnIsNew, Keys
  <2> QED  BY <2>1, AutosaveAssumption DEF Keys
<1>3. TurnContent(j) \in Contents
  <2>1. <<PromptOf[j.key[2]]>> \in [1..1 -> Texts]
    BY <1>2
  <2>2. 1 \in 1..MaxLines
    BY BoundsAreNaturals
  <2> QED  BY <2>1, <2>2, Zenon DEF TurnContent, Contents
<1>4. Append(s.seen, j.key) \in Seq(Keys)
      /\ Append(s.hashes, TurnContent(j)) \in Seq(Contents)
  BY <1>1, <1>2, <1>3, AppendProperties
<1>5. /\ seen \in Seq(Keys) /\ Len(seen) <= SeenCap
      /\ hashes \in Seq(Contents) /\ Len(hashes) <= HashCap
      /\ cursors \in Seq(Cursor) /\ Len(cursors) <= CursorCap
  <2>1. seen \in Seq(Keys) /\ Len(seen) <= SeenCap
    <3> DEFINE list == Append(s.seen, j.key)
    <3>1. list \in Seq(Keys)
      BY <1>4, Zenon
    <3> HIDE DEF list
    <3>2. LastN(list, SeenCap) \in Seq(Keys) /\ Len(LastN(list, SeenCap)) <= SeenCap
      BY <3>1, BoundsAreNaturals, WindowOfList
    <3> QED  BY <3>2, Zenon DEF list
  <2>2. hashes \in Seq(Contents) /\ Len(hashes) <= HashCap
    BY <1>4, BoundsAreNaturals, WindowOfList
  <2>3. cursors \in Seq(Cursor) /\ Len(cursors) <= CursorCap
    BY <1>1, BoundsAreNaturals, WindowOfList
  <2> QED  BY <2>1, <2>2, <2>3
<1>6. TurnState(j) = [s EXCEPT !.seen = seen, !.hashes = hashes,
                               !.cursors = cursors, !.anchored = TRUE]
  BY Zenon DEF TurnState
<1> HIDE DEF s, seen, hashes, cursors
<1>7. TurnState(j) \in State
  BY <1>1, <1>5, <1>6 DEF State
<1>8. TurnState(j).seen = seen /\ TurnState(j).hashes = hashes
      /\ TurnState(j).cursors = cursors
  BY <1>1, <1>6 DEF State
<1> QED  BY <1>3, <1>5, <1>7, <1>8, Zenon DEF Windowed, s, seen, hashes, cursors

\* Putting a cursor replaces that of its path, or adds it.
LEMMA PutCursorPuts ==
  ASSUME NEW cursors \in Seq(Cursor), NEW cursor \in Cursor
  PROVE  /\ PutCursor(cursors, cursor) \in Seq(Cursor)
         /\ Range(PutCursor(cursors, cursor)) \subseteq Range(cursors) \cup {cursor}
<1>1. CASE \E i \in DOMAIN cursors : cursors[i].path = cursor.path
  <2> DEFINE put == [i \in DOMAIN cursors |->
                       IF cursors[i].path = cursor.path THEN cursor ELSE cursors[i]]
  <2>1. PutCursor(cursors, cursor) = put
    BY <1>1, Zenon DEF PutCursor
  <2>2. DOMAIN cursors = 1..Len(cursors) /\ Len(cursors) \in Nat
        /\ \A i \in DOMAIN cursors : cursors[i] \in Cursor
    BY LenProperties, ElementOfSeq
  <2>3. put \in [1..Len(cursors) -> Cursor]
    BY <2>2
  <2>4. Range(put) \subseteq Range(cursors) \cup {cursor}
    BY Zenon DEF Range
  <2> HIDE DEF put
  <2>5. put \in Seq(Cursor)
    BY <2>2, <2>3, ListsAreSequences, Zenon
  <2> QED  BY <2>1, <2>4, <2>5
<1>2. CASE ~ \E i \in DOMAIN cursors : cursors[i].path = cursor.path
  <2> DEFINE put == Append(cursors, cursor)
  <2>1. PutCursor(cursors, cursor) = put
    BY <1>2, Zenon DEF PutCursor
  <2>2. put \in Seq(Cursor)
    BY AppendProperties
  <2>3. Range(put) \subseteq Range(cursors) \cup {cursor}
    <3>1. \A i \in DOMAIN put : put[i] \in Range(cursors) \cup {cursor}
      BY AppendProperties DEF Range
    <3> HIDE DEF put
    <3> QED  BY <3>1, Zenon DEF Range
  <2> QED  BY <2>1, <2>2, <2>3
<1> QED  BY <1>1, <1>2

\* The cursor that a pass records.
PassCursor(j) == [path |-> j.path, line |-> j.to, mark |-> j.mark,
                  complete |-> ~j.early, parser |-> j.version]

LEMMA PassStateIsTyped ==
  ASSUME NEW j \in Job, NEW n, JobFits(j, n), j.at = "store"
  PROVE  /\ Windowed(PassState(j)) /\ PassCursor(j) \in Cursor
         /\ PassState(j).seen = LastN(j.state.seen, SeenCap)
         /\ PassState(j).hashes = LastN(j.state.hashes \o j.entries, HashCap)
         /\ PassState(j).cursors =
              LastN(PutCursor(j.state.cursors, PassCursor(j)), CursorCap)
<1> DEFINE s == j.state
           seen == LastN(s.seen, SeenCap)
           hashes == LastN(s.hashes \o j.entries, HashCap)
           put == PutCursor(s.cursors, PassCursor(j))
           cursors == LastN(put, CursorCap)
<1>1. s \in State /\ s.seen \in Seq(Keys) /\ s.hashes \in Seq(Contents)
      /\ s.cursors \in Seq(Cursor) /\ j.entries \in Seq(Contents)
  BY DEF Job, State
<1>2. PassCursor(j) \in Cursor
  <2>1. j.path \in Paths /\ j.to \in Nat /\ j.mark \in Mark
        /\ j.early \in BOOLEAN /\ j.version \in Versions
    BY DEF Job, JobFits, Marked
  <2>2. (~j.early) \in BOOLEAN
    OBVIOUS
  <2> QED  BY <2>1, <2>2 DEF PassCursor, Cursor
<1>3. s.hashes \o j.entries \in Seq(Contents)
  BY <1>1, ConcatProperties
<1>4. put \in Seq(Cursor)
  BY <1>1, <1>2, PutCursorPuts, Zenon
<1>5. /\ seen \in Seq(Keys) /\ Len(seen) <= SeenCap
      /\ hashes \in Seq(Contents) /\ Len(hashes) <= HashCap
      /\ cursors \in Seq(Cursor) /\ Len(cursors) <= CursorCap
  <2> HIDE DEF put
  <2>1. seen \in Seq(Keys) /\ Len(seen) <= SeenCap
    BY <1>1, BoundsAreNaturals, WindowOfList
  <2>2. hashes \in Seq(Contents) /\ Len(hashes) <= HashCap
    BY <1>3, BoundsAreNaturals, WindowOfList
  <2>3. cursors \in Seq(Cursor) /\ Len(cursors) <= CursorCap
    BY <1>4, BoundsAreNaturals, WindowOfList
  <2> QED  BY <2>1, <2>2, <2>3
<1>6. PassState(j) = [s EXCEPT !.seen = seen, !.hashes = hashes,
                               !.cursors = cursors, !.anchored = TRUE]
  BY Zenon DEF PassState, PassCursor
<1> HIDE DEF s, seen, hashes, cursors, put
<1>7. PassState(j) \in State
  BY <1>1, <1>5, <1>6 DEF State
<1>8. PassState(j).seen = seen /\ PassState(j).hashes = hashes
      /\ PassState(j).cursors = cursors
  BY <1>1, <1>6 DEF State
<1> QED  BY <1>2, <1>5, <1>7, <1>8, Zenon DEF Windowed, s, seen, hashes, cursors, put

LEMMA InitIsTyped ==
  ASSUME Init
  PROVE  Typed
<1>1. WiresTyped
  <2>1. << >> \in Seq(Lines) /\ Len(<< >>) = 0 /\ 0 \in 0..MaxWrites /\ 0 <= MaxLines
    BY EmptySeq, BoundsAreNaturals
  <2> QED  BY <2>1 DEF Init, WiresTyped
<1>2. version \in Versions /\ tasks \in 0..MaxTasks
  <2>1. Min(Versions) \in Versions
    BY AutosaveAssumption, MinIsLeast, Zenon
  <2> QED  BY <2>1, BoundsAreNaturals DEF Init
<1>3. RowsTyped
  BY EmptySeq DEF Init, RowsTyped
<1>4. StateTyped
  <2>1. EmptyState \in State
    BY NoJobIsTyped
  <2>2. Len(EmptyState.seen) = 0 /\ Len(EmptyState.hashes) = 0
        /\ Len(EmptyState.cursors) = 0
    BY EmptySeq DEF EmptyState
  <2> QED  BY <2>1, <2>2, BoundsAreNaturals DEF Init, StateTyped
<1>5. JobsTyped
  BY NoJobIsTyped DEF Init, JobsTyped
<1> QED  BY <1>1, <1>2, <1>3, <1>4, <1>5 DEF Typed

\* The steps of a process that change nothing but its job: what it goes on
\* with fits where it goes.
LEMMA JobIsTyped ==
  ASSUME Typed, NEW p \in Processes, NEW holding \in Job, Goes(p, holding),
         JobFits(holding, tasks), UNCHANGED <<wire, version, tasks, rows, state>>
  PROVE  Typed'
<1>1. tasks \in Nat /\ tasks' = tasks
  BY DEF Typed
<1>2. JobsTyped'
  BY <1>1, GoesIsTyped DEF Typed
<1>3. WiresTyped' /\ RowsTyped' /\ StateTyped'
  BY DEF Typed, WiresTyped, RowsTyped, StateTyped
<1> QED  BY <1>2, <1>3 DEF Typed

LEMMA StartHookIsTyped ==
  ASSUME Typed, NEW p \in Processes, NEW s \in Sessions, NEW k \in Turns \cup {NoTurn},
         StartHook(p, s, k)
  PROVE  Typed'
<1>1. NoJob \in Job /\ version \in Versions /\ version \in Nat
  BY NoJobIsTyped, AutosaveAssumption DEF Typed
<1> DEFINE holding == [NoJob EXCEPT !.at = "resolve", !.version = version,
                                    !.key = <<s, k>>, !.todo = WiresOf[s]]
<1>2. <<s, k>> \in Keys /\ WiresOf[s] \in Seq(Paths)
  BY AutosaveAssumption DEF Keys
<1>3. holding \in Job
  BY <1>1, <1>2 DEF Job, Places
<1>4. JobFits(holding, tasks)
  BY <1>1, <1>2 DEF NoJob, JobFits, Informed, Marked
<1>5. Goes(p, holding) /\ UNCHANGED <<wire, version, tasks, rows, state>>
  BY DEF StartHook
<1> HIDE DEF holding
<1> QED  BY <1>3, <1>4, <1>5, JobIsTyped

LEMMA StartHealIsTyped ==
  ASSUME Typed, NEW p \in Processes, StartHeal(p)
  PROVE  Typed'
<1> DEFINE holding == [NoJob EXCEPT !.at = "next", !.version = version,
                                    !.heal = TRUE, !.sweep = 1..tasks]
<1>1. NoJob \in Job /\ version \in Versions /\ version \in Nat
  BY NoJobIsTyped, AutosaveAssumption DEF Typed
<1>2. 1..tasks \in SUBSET (1..MaxTasks)
  BY BoundsAreNaturals DEF Typed
<1>3. holding \in Job
  BY <1>1, <1>2 DEF Job, Places
<1>4. JobFits(holding, tasks)
  BY <1>1, <1>2 DEF NoJob, JobFits, Informed, Marked
<1>5. Goes(p, holding) /\ UNCHANGED <<wire, version, tasks, rows, state>>
  BY DEF StartHeal
<1> HIDE DEF holding
<1> QED  BY <1>3, <1>4, <1>5, JobIsTyped

LEMMA ResolveTaskIsTyped ==
  ASSUME Typed, NEW p \in Processes, ResolveTask(p)
  PROVE  Typed'
<1> DEFINE j == job[p]
           holding == IF tasks > 0 THEN [j EXCEPT !.at = "read", !.task = 1]
                                   ELSE [j EXCEPT !.at = "create"]
<1>1. j \in Job /\ JobFits(j, tasks) /\ tasks \in 0..MaxTasks /\ j.at = "resolve"
  BY DEF Typed, JobsTyped, ResolveTask, At
<1>2. Goes(p, holding) /\ UNCHANGED <<wire, version, tasks, rows, state>>
  BY DEF ResolveTask
<1> HIDE DEF j
<1>3. holding \in Job
  <2>1. CASE tasks > 0
    <3>1. 1 \in 0..MaxTasks
      BY <1>1, <2>1, BoundsAreNaturals
    <3>2. holding = [j EXCEPT !.at = "read", !.task = 1]
      BY <2>1
    <3> HIDE DEF holding
    <3> QED  BY <1>1, <3>1, <3>2 DEF Job, Places
  <2>2. CASE ~(tasks > 0)
    <3>2. holding = [j EXCEPT !.at = "create"]
      BY <2>2
    <3> HIDE DEF holding
    <3> QED  BY <1>1, <3>2 DEF Job, Places
  <2> QED  BY <2>1, <2>2
<1>4. JobFits(holding, tasks)
  BY <1>1 DEF JobFits, Informed, Marked, Job
<1> HIDE DEF holding
<1> QED  BY <1>2, <1>3, <1>4, JobIsTyped

LEMMA CreateTaskIsTyped ==
  ASSUME Typed, NEW p \in Processes, CreateTask(p)
  PROVE  Typed'
<1> DEFINE j == job[p]
           holding == [j EXCEPT !.at = "read", !.task = tasks + 1]
<1>1. j \in Job /\ JobFits(j, tasks) /\ tasks \in 0..MaxTasks /\ j.at = "create"
      /\ tasks < MaxTasks
  BY DEF Typed, JobsTyped, CreateTask, At
<1>2. Goes(p, holding) /\ tasks' = tasks + 1 /\ UNCHANGED <<wire, version, rows, state>>
  BY DEF CreateTask
<1> HIDE DEF j
<1>3. tasks + 1 \in 0..MaxTasks /\ tasks + 1 \in 1..tasks + 1
  BY <1>1, BoundsAreNaturals
<1>4. holding \in Job
  BY <1>1, <1>3 DEF Job, Places
<1>5. JobFits(holding, tasks')
  <2>1. 1..tasks \subseteq 1..tasks'
    BY <1>1, <1>2
  <2> QED  BY <1>1, <1>2, <1>3, <2>1 DEF JobFits, Informed, Marked, Job
<1> HIDE DEF holding
<1>6. tasks \in Nat /\ tasks' \in Nat /\ tasks <= tasks' /\ tasks' \in 0..MaxTasks
  BY <1>1, <1>2, <1>3
<1>7. JobsTyped'
  BY <1>2, <1>4, <1>5, <1>6, GoesIsTyped DEF Typed
<1>8. WiresTyped' /\ StateTyped' /\ version' \in Versions
  BY <1>2 DEF Typed, WiresTyped, StateTyped
<1>9. RowsTyped'
  <2>1. rows' \in Seq(Row)
    BY <1>2 DEF Typed, RowsTyped
  <2>2. \A i \in DOMAIN rows : rows[i].task <= tasks /\ rows[i].task \in Nat
    <3>1. \A i \in DOMAIN rows : rows[i] \in Row
      BY ElementOfSeq DEF Typed, RowsTyped
    <3> QED  BY <3>1 DEF Typed, RowsTyped, Row
  <2>3. \A i \in DOMAIN rows' : rows'[i].task <= tasks'
    BY <1>2, <1>6, <2>2
  <2> QED  BY <2>1, <2>3 DEF RowsTyped
<1> QED  BY <1>6, <1>7, <1>8, <1>9 DEF Typed

LEMMA ReadStateIsTyped ==
  ASSUME Typed, NEW p \in Processes, ReadState(p)
  PROVE  Typed'
<1> DEFINE j == job[p]
           holding == [j EXCEPT !.at = IF j.path = NoPath THEN "turn" ELSE "look",
                                !.state = state[j.task]]
<1>1. j \in Job /\ JobFits(j, tasks) /\ j.at = "read"
  BY DEF Typed, JobsTyped, ReadState, At
<1>2. Goes(p, holding) /\ UNCHANGED <<wire, version, tasks, rows, state>>
  BY DEF ReadState
<1>3. state[j.task] \in State
  <2>1. j.task \in 1..MaxTasks
    BY <1>1, BoundsAreNaturals DEF JobFits, Typed
  <2> HIDE DEF j
  <2> QED  BY <2>1 DEF Typed, StateTyped
<1> HIDE DEF j
<1>4. holding \in Job
  BY <1>1, <1>3 DEF Job, Places
<1>5. JobFits(holding, tasks)
  BY <1>1 DEF JobFits, Informed, Marked, Job
<1> HIDE DEF holding
<1> QED  BY <1>2, <1>4, <1>5, JobIsTyped

LEMMA TurnIsTyped ==
  ASSUME Typed, NEW p \in Processes, SkipTurn(p) \/ StoreTurn(p)
  PROVE  Typed'
<1> DEFINE j == job[p]
           holding == Between(j)
<1>1. j \in Job /\ JobFits(j, tasks) /\ j.at = "turn" /\ tasks \in 0..MaxTasks
  BY DEF Typed, JobsTyped, SkipTurn, StoreTurn, At
<1>2. Goes(p, holding) /\ UNCHANGED <<wire, version, tasks>>
  BY DEF SkipTurn, StoreTurn
<1>3. holding \in Job /\ JobFits(holding, tasks)
  <2> HIDE DEF j
  <2> QED  BY <1>1, BetweenIsTyped
<1>4. CASE SkipTurn(p)
  <2>1. UNCHANGED <<rows, state>>
    BY <1>4 DEF SkipTurn
  <2> HIDE DEF holding
  <2> QED  BY <1>2, <1>3, <2>1, JobIsTyped
<1>5. CASE StoreTurn(p)
  <2> DEFINE row == [task |-> j.task, kind |-> "prompt", from |-> j.key,
                     content |-> TurnContent(j)]
  <2>1. /\ TurnIsNew(j) /\ rows' = Append(rows, row)
        /\ state' = [state EXCEPT ![j.task] = TurnState(j)]
    BY <1>5 DEF StoreTurn
  <2> HIDE DEF j
  <2>2. Windowed(TurnState(j)) /\ TurnContent(j) \in Contents
    BY <1>1, <2>1, TurnStateIsTyped, Zenon
  <2>3. j.task \in 1..tasks /\ j.task \in 1..MaxTasks /\ j.key \in Keys
    BY <1>1, BoundsAreNaturals DEF JobFits, Informed
  <2>4. row \in Row /\ row.task <= tasks
    BY <1>1, <2>2, <2>3 DEF Row
  <2> HIDE DEF row
  <2>5. RowsTyped'
    <3>1. rows' \in Seq(Row)
      BY <2>1, <2>4, AppendProperties DEF Typed, RowsTyped
    <3>2. \A i \in DOMAIN rows' : rows'[i].task <= tasks
      BY <2>1, <2>4, AppendProperties DEF Typed, RowsTyped
    <3> QED  BY <1>2, <3>1, <3>2 DEF RowsTyped
  <2>6. StateTyped'
    BY <2>1, <2>2, <2>3 DEF Typed, StateTyped, Windowed
  <2>7. JobsTyped'
    <3> HIDE DEF holding
    <3> QED  BY <1>1, <1>2, <1>3, GoesIsTyped DEF Typed
  <2>8. WiresTyped' /\ version' \in Versions /\ tasks' \in 0..MaxTasks
    BY <1>2 DEF Typed, WiresTyped
  <2> QED  BY <2>5, <2>6, <2>7, <2>8 DEF Typed
<1> QED  BY <1>4, <1>5

LEMMA BetweenCallsIsTyped ==
  ASSUME Typed, NEW p \in Processes, NextWire(p) \/ SweepTask(p) \/ Finish(p)
  PROVE  Typed'
<1> DEFINE j == job[p]
<1>1. j \in Job /\ JobFits(j, tasks) /\ j.at = "next" /\ tasks \in 0..MaxTasks
  BY DEF Typed, JobsTyped, NextWire, SweepTask, Finish, At
<1>2. UNCHANGED <<wire, version, tasks, rows, state>>
  BY DEF NextWire, SweepTask, Finish
<1>3. CASE NextWire(p)
  <2> DEFINE holding == [j EXCEPT !.at = "resolve", !.path = Head(j.todo)]
  <2>1. Goes(p, holding) /\ j.todo # << >>
    BY <1>3 DEF NextWire
  <2> HIDE DEF j
  <2>2. Head(j.todo) \in Paths
    BY <1>1, <2>1, HeadTailProperties DEF Job
  <2>3. holding \in Job
    BY <1>1, <2>2 DEF Job, Places
  <2>4. JobFits(holding, tasks)
    BY <1>1, <2>1, <2>2, AutosaveAssumption DEF JobFits, Informed, Marked, Job
  <2> HIDE DEF holding
  <2> QED  BY <1>2, <2>1, <2>3, <2>4, JobIsTyped
<1>4. CASE SweepTask(p)
  <2> DEFINE t == Min(j.sweep)
             cursors == state[t].cursors
             todo == [i \in DOMAIN cursors |-> cursors[i].path]
             holding == [j EXCEPT !.sweep = @ \ {t}, !.todo = todo]
  <2>1. Goes(p, holding) /\ j.sweep # {}
    BY <1>4 DEF SweepTask
  <2> HIDE DEF j
  <2>2. t \in 1..MaxTasks
    <3>1. j.sweep \in SUBSET Nat /\ j.sweep \subseteq 1..MaxTasks
      BY <1>1 DEF Job
    <3>2. t \in j.sweep
      <4> HIDE DEF t
      <4> QED  BY <2>1, <3>1, MinIsLeast DEF t
    <3> QED  BY <3>1, <3>2
  <2>3. todo \in Seq(Paths)
    <3>1. cursors \in Seq(Cursor)
      <4> HIDE DEF t
      <4> QED  BY <2>2 DEF Typed, StateTyped, State
    <3> HIDE DEF cursors
    <3>2. DOMAIN cursors = 1..Len(cursors) /\ Len(cursors) \in Nat
          /\ \A i \in 1..Len(cursors) : cursors[i] \in Cursor
      BY <3>1, LenProperties, ElementOfSeq
    <3>3. todo \in [1..Len(cursors) -> Paths]
      BY <3>2 DEF Cursor
    <3> HIDE DEF todo
    <3> QED  BY <3>2, <3>3, ListsAreSequences, Zenon
  <2> HIDE DEF t, todo
  <2>4. holding \in Job
    BY <1>1, <2>3 DEF Job
  <2>5. j.path = NoPath
    BY <1>1 DEF JobFits
  <2>6. JobFits(holding, tasks)
    BY <1>1, <2>5 DEF JobFits, Informed, Marked, Job
  <2> HIDE DEF holding
  <2> QED  BY <1>2, <2>1, <2>4, <2>6, JobIsTyped
<1>5. CASE Finish(p)
  <2>1. Goes(p, NoJob)
    BY <1>5 DEF Finish
  <2> QED  BY <1>2, <2>1, NoJobIsTyped, JobIsTyped
<1> QED  BY <1>3, <1>4, <1>5

\* The marker of a wire: its head is empty if and only if the wire is, and
\* begins with its first line.
LEMMA MarkerIs ==
  ASSUME WiresTyped, NEW p \in Paths
  PROVE  /\ Marker(p) \in Mark
         /\ Marker(p).mtime = wire[p].writes /\ Marker(p).size = Len(wire[p].lines)
         /\ Marker(p).head = << >> <=> wire[p].lines = << >>
         /\ wire[p].lines # << >> => Marker(p).head[1] = wire[p].lines[1]
<1> DEFINE lines == wire[p].lines
           pair == {HeadLines, Len(lines)}
           n == Min(pair)
           head == SubSeq(lines, 1, n)
<1>1. lines \in Seq(Lines) /\ wire[p].writes \in Nat /\ Len(lines) \in Nat
  BY LenProperties, BoundsAreNaturals DEF WiresTyped
<1> HIDE DEF lines
<1>2. n \in pair /\ \A k \in pair : n <= k
  <2>1. pair \in SUBSET Nat /\ pair # {}
    BY <1>1, BoundsAreNaturals
  <2> HIDE DEF pair
  <2> QED  BY <2>1, MinIsLeast, Zenon
<1>3. n \in Nat /\ n <= Len(lines) /\ (n = 0 <=> Len(lines) = 0)
  <2> HIDE DEF n
  <2> QED  BY <1>1, <1>2, BoundsAreNaturals
<1> HIDE DEF n
<1>4. /\ head \in Seq(Lines) /\ Len(head) = n
      /\ n >= 1 => head[1] = lines[1]
  <2>1. \A i \in 1..n : lines[i] \in Lines
    BY <1>1, <1>3, ElementOfSeq
  <2>2. /\ head \in Seq(Lines)
        /\ Len(head) = IF 1 <= n THEN n - 1 + 1 ELSE 0
        /\ \A i \in 1..n - 1 + 1 : head[i] = lines[1 + i - 1]
    BY <1>3, <2>1, SubSeqProperties
  <2> HIDE DEF head
  <2> QED  BY <1>3, <2>2
<1>5. Marker(p) = [mtime |-> wire[p].writes, size |-> Len(lines), head |-> head]
  BY Zenon DEF Marker, lines, n
<1> HIDE DEF head
<1>6. (head = << >> <=> lines = << >>) /\ (lines # << >> => head[1] = lines[1])
  BY <1>1, <1>3, <1>4, EmptySeq
<1>7. Marker(p) \in Mark
  BY <1>1, <1>4, <1>5 DEF Mark
<1>8. /\ Marker(p).mtime = wire[p].writes /\ Marker(p).size = Len(lines)
      /\ Marker(p).head = head
  BY <1>5
<1> QED  BY <1>6, <1>7, <1>8 DEF lines

\* The cursor of a path is one of the state, or there is none.
LEMMA CursorOfIs ==
  ASSUME NEW cursors, NEW path
  PROVE  \/ CursorOf(cursors, path) = NoCursor
         \/ \E i \in DOMAIN cursors : /\ CursorOf(cursors, path) = cursors[i]
                                      /\ cursors[i].path = path
<1> DEFINE own == {i \in DOMAIN cursors : cursors[i].path = path}
<1>1. CASE own = {}
  BY <1>1, Zenon DEF CursorOf
<1>2. CASE own # {}
  <2> DEFINE i == CHOOSE k \in own : TRUE
  <2>1. i \in own
    BY <1>2, Zenon
  <2>2. CursorOf(cursors, path) = cursors[i]
    BY <1>2, Zenon DEF CursorOf
  <2> HIDE DEF i
  <2> QED  BY <2>1, <2>2
<1> QED  BY <1>1, <1>2

LEMMA LookAtWireIsTyped ==
  ASSUME Typed, NEW p \in Processes, LookAtWire(p)
  PROVE  Typed'
<1> DEFINE j == job[p]
           cursor == CursorOf(j.state.cursors, j.path)
           mark == Marker(j.path)
           rescans == [j EXCEPT !.at = "digests", !.mark = mark, !.rescan = TRUE]
           resumes == [j EXCEPT !.at = "scan", !.mark = mark, !.start = cursor.line]
<1>1. j \in Job /\ JobFits(j, tasks) /\ j.at = "look" /\ tasks \in 0..MaxTasks
  BY DEF Typed, JobsTyped, LookAtWire, At
<1>2. /\ \/ Goes(p, AfterPass(j, 0))
         \/ Goes(p, rescans)
         \/ ~Restarts(j, cursor, mark) /\ Goes(p, resumes)
      /\ UNCHANGED <<wire, version, tasks, rows, state>>
  BY DEF LookAtWire
<1> HIDE DEF j
<1>3. j.path \in Paths /\ j.path # NoPath /\ ~j.rescan /\ j.start = 0 /\ j.stored = {}
  BY <1>1 DEF JobFits, Job, Marked
<1>4. mark \in Mark
  BY <1>3, MarkerIs DEF Typed
<1>5. cursor.line \in Nat
  <2>1. NoCursor.line \in Nat
    BY DEF NoCursor
  <2>2. \A i \in DOMAIN j.state.cursors : j.state.cursors[i].line \in Nat
    <3>1. j.state.cursors \in Seq(Cursor)
      BY <1>1 DEF Job, State
    <3>2. \A i \in DOMAIN j.state.cursors : j.state.cursors[i] \in Cursor
      BY <3>1, ElementOfSeq, LenProperties
    <3> QED  BY <3>2 DEF Cursor
  <2>3. \/ cursor = NoCursor
        \/ \E i \in DOMAIN j.state.cursors : cursor = j.state.cursors[i]
    BY CursorOfIs, Zenon
  <2> HIDE DEF cursor
  <2> QED  BY <2>1, <2>2, <2>3
<1> HIDE DEF cursor, mark
<1>6. CASE Goes(p, AfterPass(j, 0))
  <2>1. AfterPass(j, 0) \in Job /\ JobFits(AfterPass(j, 0), tasks)
    BY <1>1, <1>3, AfterPassIsTyped
  <2> QED  BY <1>2, <1>6, <2>1, JobIsTyped
<1>7. CASE Goes(p, rescans)
  <2>1. rescans \in Job
    BY <1>1, <1>4 DEF Job, Places
  <2>2. JobFits(rescans, tasks)
    BY <1>1, <1>3, <1>4 DEF JobFits, Informed, Marked, Job
  <2> HIDE DEF rescans
  <2> QED  BY <1>2, <1>7, <2>1, <2>2, JobIsTyped
<1>8. CASE ~Restarts(j, cursor, mark) /\ Goes(p, resumes)
  <2>1. resumes \in Job
    BY <1>1, <1>4, <1>5 DEF Job, Places
  <2>2. ~j.heal
    BY <1>8 DEF Restarts
  <2>3. JobFits(resumes, tasks)
    BY <1>1, <1>3, <1>4, <2>2 DEF JobFits, Informed, Marked, Job
  <2> HIDE DEF resumes
  <2> QED  BY <1>2, <1>8, <2>1, <2>3, JobIsTyped
<1> QED  BY <1>2, <1>6, <1>7, <1>8

LEMMA ReadDigestsIsTyped ==
  ASSUME Typed, NEW p \in Processes, ReadDigests(p)
  PROVE  Typed'
<1> DEFINE j == job[p]
           digests == WireDigests(j)
           holding == [j EXCEPT !.at = "scan", !.stored = digests]
<1>1. j \in Job /\ JobFits(j, tasks) /\ j.at = "digests"
  BY DEF Typed, JobsTyped, ReadDigests, At
<1>2. Goes(p, holding) /\ UNCHANGED <<wire, version, tasks, rows, state>>
  BY DEF ReadDigests
<1> HIDE DEF j
<1>3. digests \in SUBSET Contents
  <2>1. \A i \in DOMAIN rows : rows[i].content \in Contents
    <3>1. \A i \in DOMAIN rows : rows[i] \in Row
      BY ElementOfSeq DEF Typed, RowsTyped
    <3> QED  BY <3>1 DEF Row
  <2> QED  BY <2>1 DEF WireDigests, WireRows
<1> HIDE DEF digests
<1>4. holding \in Job
  BY <1>1, <1>3 DEF Job, Places
<1>5. JobFits(holding, tasks)
  BY <1>1 DEF JobFits, Informed, Marked, Job
<1> HIDE DEF holding
<1> QED  BY <1>2, <1>4, <1>5, JobIsTyped

\* What a pass over a file finds (PassOverLines).
PassFinds(lines, j, pass) ==
  LET known == Range(j.state.hashes) \cup j.stored
  IN /\ pass.entries \in Seq(Contents)
     /\ pass.early \in BOOLEAN
     /\ pass.to \in Nat /\ pass.to >= j.start
     /\ pass.to <= Len(lines) \/ pass.to = j.start
     /\ Range(pass.entries) \cap known = {}
     /\ \A n \in Carrying(lines, j.start, j.version) :
          n <= pass.to \/ ~pass.early =>
            \E content \in known \cup Range(pass.entries) :
              lines[n].text \in Range(content)
     /\ j.heal /\ pass.entries = << >> => ~pass.early

LEMMA PassesFind ==
  ASSUME WiresTyped, NEW j \in Job, j.path \in Paths, NEW pass \in Passes(j)
  PROVE  PassFinds(wire[j.path].lines, j, pass)
<1> DEFINE lines == wire[j.path].lines
           end == Len(lines) + 1
<1>1. lines \in Seq(Lines) /\ Len(lines) <= MaxLines /\ Len(lines) \in Nat
      /\ j.start \in Nat
  BY LenProperties DEF WiresTyped, Job
<1>2. PICK stop \in IF Deadlines /\ ~j.heal THEN 1..end ELSE {end} :
        pass = Pass(j, Messages(lines, j.start, j.version), stop)
  BY DEF Passes
<1> HIDE DEF lines
<1>3. stop \in Nat /\ (j.heal => stop = Len(lines) + 1)
  BY <1>1, <1>2
<1> HIDE DEF end
<1>4. PassFinds(lines, j, Pass(j, Messages(lines, j.start, j.version), stop))
  BY <1>1, <1>3, PassOverLines, Zenon DEF PassFinds
<1> QED  BY <1>2, <1>4 DEF lines

LEMMA ScanWireIsTyped ==
  ASSUME Typed, NEW p \in Processes, ScanWire(p)
  PROVE  Typed'
<1> DEFINE j == job[p]
<1>1. j \in Job /\ JobFits(j, tasks) /\ j.at = "scan"
  BY DEF Typed, JobsTyped, ScanWire, At
<1>2. j.path \in Paths /\ j.path # NoPath
  BY <1>1 DEF JobFits, Job, Marked
<1>3. PICK pass \in Passes(j) :
        Goes(p, IF pass.to <= j.start THEN AfterPass(j, 0)
                ELSE [j EXCEPT !.at = "store", !.to = pass.to,
                        !.entries = pass.entries, !.early = pass.early])
  BY Zenon DEF ScanWire
<1>8. UNCHANGED <<wire, version, tasks, rows, state>>
  BY DEF ScanWire
<1>4. PassFinds(wire[j.path].lines, j, pass)
  <2> HIDE DEF j
  <2> QED  BY <1>1, <1>2, PassesFind DEF Typed
<1>5. /\ pass.entries \in Seq(Contents) /\ pass.early \in BOOLEAN /\ pass.to \in Nat
  BY <1>4, Zenon DEF PassFinds
<1> DEFINE holding == [j EXCEPT !.at = "store", !.to = pass.to,
                                !.entries = pass.entries, !.early = pass.early]
<1> HIDE DEF j
<1>6. CASE pass.to <= j.start
  <2>1. AfterPass(j, 0) \in Job /\ JobFits(AfterPass(j, 0), tasks)
    BY <1>1, <1>2, AfterPassIsTyped
  <2> QED  BY <1>3, <1>6, <1>8, <2>1, JobIsTyped
<1>7. CASE ~(pass.to <= j.start)
  <2>1. holding \in Job
    BY <1>1, <1>5 DEF Job, Places
  <2>2. JobFits(holding, tasks)
    BY <1>1 DEF JobFits, Informed, Marked, Job
  <2>3. Goes(p, holding)
    BY <1>3, <1>7
  <2> HIDE DEF holding
  <2> QED  BY <1>8, <2>1, <2>2, <2>3, JobIsTyped
<1> QED  BY <1>6, <1>7

LEMMA StorePassIsTyped ==
  ASSUME Typed, NEW p \in Processes, StorePass(p)
  PROVE  Typed'
<1> DEFINE j == job[p]
           added == [k \in DOMAIN j.entries |->
                       [task |-> j.task, kind |-> "wire", from |-> j.path,
                        content |-> j.entries[k]]]
           holding == AfterPass(j, Len(j.entries))
<1>1. j \in Job /\ JobFits(j, tasks) /\ j.at = "store" /\ tasks \in 0..MaxTasks
  BY DEF Typed, JobsTyped, StorePass, At
<1>2. /\ rows' = rows \o added
      /\ state' = state \/ state' = [state EXCEPT ![j.task] = PassState(j)]
      /\ Goes(p, holding) /\ UNCHANGED <<wire, version, tasks>>
  BY DEF StorePass
<1> HIDE DEF j
<1>3. j.path \in Paths /\ j.path # NoPath /\ j.task \in 1..tasks
      /\ j.task \in 1..MaxTasks
  BY <1>1, BoundsAreNaturals DEF JobFits, Job, Marked, Informed
<1>4. Windowed(PassState(j))
  BY <1>1, PassStateIsTyped
<1>5. added \in Seq(Row) /\ \A i \in DOMAIN added : added[i].task = j.task
  <2>1. j.entries \in Seq(Contents)
    BY <1>1 DEF Job
  <2>2. DOMAIN j.entries = 1..Len(j.entries) /\ Len(j.entries) \in Nat
        /\ \A k \in 1..Len(j.entries) : j.entries[k] \in Contents
    BY <2>1, LenProperties, ElementOfSeq
  <2>3. added \in [1..Len(j.entries) -> Row]
    BY <1>3, <2>2 DEF Row
  <2>4. \A i \in DOMAIN added : added[i].task = j.task
    OBVIOUS
  <2> HIDE DEF added
  <2> QED  BY <2>2, <2>3, <2>4, ListsAreSequences, Zenon
<1> HIDE DEF added
<1>6. RowsTyped'
  <2>1. rows \in Seq(Row) /\ \A i \in DOMAIN rows : rows[i].task <= tasks
    BY DEF Typed, RowsTyped
  <2>2. rows' \in Seq(Row)
    BY <1>2, <1>5, <2>1, ConcatProperties
  <2>3. \A i \in DOMAIN rows' : rows'[i].task <= tasks
    <3>1. SUFFICES ASSUME NEW i \in DOMAIN rows'
                   PROVE  rows'[i].task <= tasks
      OBVIOUS
    <3>2. /\ Len(rows') = Len(rows) + Len(added) /\ i \in 1..Len(rows')
          /\ Len(rows) \in Nat /\ Len(added) \in Nat
          /\ DOMAIN rows = 1..Len(rows) /\ DOMAIN added = 1..Len(added)
      BY <1>2, <1>5, <2>1, <2>2, LenProperties, ConcatProperties
    <3>3. CASE i \in DOMAIN rows
      <4>1. rows'[i] = rows[i]
        BY <1>2, <1>5, <2>1, <3>2, <3>3, ConcatProperties
      <4> QED  BY <2>1, <3>3, <4>1
    <3>4. CASE i \notin DOMAIN rows
      <4>1. i - Len(rows) \in DOMAIN added /\ rows'[i] = added[i - Len(rows)]
        BY <1>2, <1>5, <2>1, <3>2, <3>4, ConcatProperties
      <4> QED  BY <1>1, <1>3, <1>5, <4>1
    <3> QED  BY <3>3, <3>4
  <2> QED  BY <1>2, <2>2, <2>3 DEF RowsTyped
<1>7. StateTyped'
  BY <1>2, <1>3, <1>4 DEF Typed, StateTyped, Windowed
<1>8. JobsTyped'
  <2>1. holding \in Job /\ JobFits(holding, tasks)
    BY <1>1, <1>3, AfterPassIsTyped
  <2> HIDE DEF holding
  <2> QED  BY <1>1, <1>2, <2>1, GoesIsTyped DEF Typed
<1>9. WiresTyped' /\ version' \in Versions /\ tasks' \in 0..MaxTasks
  BY <1>2 DEF Typed, WiresTyped
<1> QED  BY <1>6, <1>7, <1>8, <1>9 DEF Typed

LEMMA AbortIsTyped ==
  ASSUME Typed, NEW p \in Processes, Abort(p)
  PROVE  Typed'
<1> DEFINE j == job[p]
           holding == [Between(j) EXCEPT !.passes = 0, !.todo = Tail(@)]
<1>1. j \in Job /\ JobFits(j, tasks) /\ j.at # "idle"
  BY DEF Typed, JobsTyped, Abort, At
<1>2. /\ Goes(p, NoJob) \/ (j.path # NoPath /\ Goes(p, holding))
      /\ UNCHANGED <<wire, version, tasks, rows, state>>
  BY DEF Abort
<1> HIDE DEF j
<1>3. CASE Goes(p, NoJob)
  BY <1>2, <1>3, NoJobIsTyped, JobIsTyped
<1>4. CASE j.path # NoPath /\ Goes(p, holding)
  <2>1. holding \in Job /\ JobFits(holding, tasks)
    BY <1>1, <1>4, TakesNext, Zenon
  <2> HIDE DEF holding
  <2> QED  BY <1>2, <1>4, <2>1, JobIsTyped
<1> QED  BY <1>2, <1>3, <1>4

\* What others write: only the wire, or only the version.
LEMMA WorldIsTyped ==
  ASSUME Typed,
         \/ Upgrade
         \/ \E p \in Paths :
              \/ \E line \in Lines : AppendLine(p, line)
              \/ \E lines \in Replacements : ReplaceWire(p, lines)
  PROVE  Typed'
<1>1. CASE Upgrade
  <2>1. version' \in Versions /\ UNCHANGED <<wire, tasks, rows, state, job>>
    BY <1>1 DEF Upgrade
  <2> QED  BY <2>1 DEF Typed, WiresTyped, RowsTyped, StateTyped, JobsTyped
<1>2. ASSUME NEW p \in Paths,
             \/ \E line \in Lines : AppendLine(p, line)
             \/ \E lines \in Replacements : ReplaceWire(p, lines)
      PROVE  Typed'
  <2>1. UNCHANGED <<version, tasks, rows, state, job>>
    BY <1>2 DEF AppendLine, ReplaceWire
  <2>2. PICK new \in Seq(Lines) :
          /\ Len(new) <= MaxLines /\ wire[p].writes < MaxWrites
          /\ wire' = [wire EXCEPT ![p] = [lines |-> new, writes |-> @.writes + 1]]
    <3>1. ASSUME NEW line \in Lines, AppendLine(p, line)
          PROVE  /\ Append(wire[p].lines, line) \in Seq(Lines)
                 /\ Len(Append(wire[p].lines, line)) <= MaxLines
      <4>1. wire[p].lines \in Seq(Lines) /\ Len(wire[p].lines) \in Nat
        BY LenProperties DEF Typed, WiresTyped
      <4>2. Len(wire[p].lines) < MaxLines
        BY <3>1 DEF AppendLine
      <4> QED  BY <4>1, <4>2, AppendProperties, BoundsAreNaturals
    <3>2. ASSUME NEW line \in Lines, AppendLine(p, line)
          PROVE  /\ wire[p].writes < MaxWrites
                 /\ wire' = [wire EXCEPT ![p] =
                      [lines |-> Append(wire[p].lines, line), writes |-> @.writes + 1]]
      BY <3>2 DEF AppendLine
    <3>3. ASSUME NEW lines \in Replacements, ReplaceWire(p, lines)
          PROVE  /\ lines \in Seq(Lines) /\ Len(lines) <= MaxLines
                 /\ wire[p].writes < MaxWrites
                 /\ wire' = [wire EXCEPT ![p] = [lines |-> lines, writes |-> @.writes + 1]]
      BY <3>3, AutosaveAssumption DEF ReplaceWire, Lines
    <3> QED  BY <1>2, <3>1, <3>2, <3>3
  <2>3. WiresTyped'
    <3>1. wire[p].writes + 1 \in 0..MaxWrites
      BY <2>2, BoundsAreNaturals DEF Typed, WiresTyped
    <3> QED  BY <2>2, <3>1 DEF Typed, WiresTyped
  <2> QED  BY <2>1, <2>3 DEF Typed, RowsTyped, StateTyped, JobsTyped
<1> QED  BY <1>1, <1>2

LEMMA NextIsTyped ==
  ASSUME Typed, [Next]_vars
  PROVE  Typed'
<1>1. CASE UNCHANGED vars
  BY <1>1 DEF vars, Typed, WiresTyped, RowsTyped, StateTyped, JobsTyped
<1>2. ASSUME NEW p \in Processes, Step(p)
      PROVE  Typed'
  BY <1>2, ResolveTaskIsTyped, CreateTaskIsTyped, ReadStateIsTyped, TurnIsTyped,
     BetweenCallsIsTyped, LookAtWireIsTyped, ReadDigestsIsTyped, ScanWireIsTyped,
     StorePassIsTyped, Zenon DEF Step
<1>3. ASSUME NEW p \in Processes, NEW s \in Sessions, NEW k \in Turns \cup {NoTurn},
             StartHook(p, s, k)
      PROVE  Typed'
  BY <1>3, StartHookIsTyped
<1>4. ASSUME NEW p \in Processes, StartHeal(p)
      PROVE  Typed'
  BY <1>4, StartHealIsTyped
<1>5. ASSUME NEW p \in Processes, Abort(p)
      PROVE  Typed'
  BY <1>5, AbortIsTyped
<1> QED  BY <1>1, <1>2, <1>3, <1>4, <1>5, WorldIsTyped, Zenon DEF Next

\* Each variable has its type in every state (Typed is what the steps of the
\* processes preserve: what a job holds depends on where it is).
THEOREM AutosaveTyped == Spec => []Typed
<1>1. Init => Typed
  BY InitIsTyped
<1>2. Typed /\ [Next]_vars => Typed'
  BY NextIsTyped
<1> QED  BY <1>1, <1>2, PTL DEF Spec

\* The type invariant of the model: the windows of the state keep to their
\* caps, each message is of a task there is, and comes from a turn or a wire.
THEOREM AutosaveTypeOK == Spec => []TypeOK
<1>1. Typed => TypeOK
  <2> SUFFICES ASSUME Typed
               PROVE  TypeOK
    OBVIOUS
  <2>1. ASSUME NEW p \in Paths
        PROVE  wire[p].lines \in Seq(Lines) /\ wire[p].writes \in 0..MaxWrites
    BY DEF Typed, WiresTyped
  <2>2. ASSUME NEW i \in DOMAIN rows
        PROVE  /\ rows[i].task \in 1..tasks
               /\ rows[i].content \in Contents
               /\ \/ rows[i].kind = "prompt" /\ rows[i].from \in Keys
                  \/ rows[i].kind = "wire" /\ rows[i].from \in Paths
    <3>1. rows[i] \in Row /\ rows[i].task <= tasks /\ tasks \in 0..MaxTasks
      BY ElementOfSeq, LenProperties DEF Typed, RowsTyped
    <3> QED  BY <3>1 DEF Row
  <2>3. ASSUME NEW t \in 1..MaxTasks
        PROVE  /\ state[t].seen \in Seq(Keys) /\ Len(state[t].seen) <= SeenCap
               /\ state[t].hashes \in Seq(Contents) /\ Len(state[t].hashes) <= HashCap
               /\ Len(state[t].cursors) <= CursorCap
               /\ state[t].anchored \in BOOLEAN
    BY DEF Typed, StateTyped, State
  <2>4. ASSUME NEW p \in Processes
        PROVE  job[p].at \in {"idle", "resolve", "create", "read", "turn", "next",
                              "look", "digests", "scan", "store"}
    BY DEF Typed, JobsTyped, Job, Places
  <2> QED  BY <2>1, <2>2, <2>3, <2>4 DEF Typed, TypeOK
<1> QED  BY <1>1, AutosaveTyped, PTL

-----------------------------------------------------------------------------
(* Saved means stored.                                                     *)

\* The messages r of the database, of which task t has one with a content, or
\* one that contains a text.
StoredIn(r, t, content) ==
  \E i \in DOMAIN r : r[i].task = t /\ r[i].content = content
HeldIn(r, t, text) ==
  \E i \in DOMAIN r : r[i].task = t /\ text \in Range(r[i].content)

\* Each digest and each seen turn of a state is that of a message of the task.
Backed(r, t, s) ==
  /\ \A content \in Range(s.hashes) : StoredIn(r, t, content)
  /\ \A key \in Range(s.seen) : HeldIn(r, t, PromptOf[key[2]])

\* So it is of the states in the database, and of those that jobs have read:
\* a job writes what it has read back, whatever others have written meanwhile.
JobBacked(r, j) ==
  /\ Informed(j) => Backed(r, j.task, j.state)
  /\ \A content \in j.stored : StoredIn(r, j.task, content)
AllBacked ==
  /\ \A t \in 1..MaxTasks : Backed(rows, t, state[t])
  /\ \A p \in Processes : JobBacked(rows, job[p])

\* The messages are only appended to.
Kept(r, new) == \A i \in DOMAIN r : i \in DOMAIN new /\ new[i] = r[i]

LEMMA KeptIsStored ==
  ASSUME NEW r, NEW new, Kept(r, new)
  PROVE  /\ \A t, content : StoredIn(r, t, content) => StoredIn(new, t, content)
         /\ \A t, text : HeldIn(r, t, text) => HeldIn(new, t, text)
         /\ \A t, s : Backed(r, t, s) => Backed(new, t, s)
         /\ \A j : JobBacked(r, j) => JobBacked(new, j)
<1>1. \A t, content : StoredIn(r, t, content) => StoredIn(new, t, content)
  BY DEF Kept, StoredIn
<1>2. \A t, text : HeldIn(r, t, text) => HeldIn(new, t, text)
  BY DEF Kept, HeldIn
<1>3. \A t, s : Backed(r, t, s) => Backed(new, t, s)
  BY <1>1, <1>2, Zenon DEF Backed
<1>4. \A j : JobBacked(r, j) => JobBacked(new, j)
  BY <1>1, <1>3, Zenon DEF JobBacked
<1> QED  BY <1>1, <1>2, <1>3, <1>4

\* What is stored stays so, so only what changes has to be looked at.
LEMMA BackedStep ==
  ASSUME AllBacked, Kept(rows, rows'),
         \A t \in 1..MaxTasks : state'[t] = state[t] \/ Backed(rows', t, state'[t]),
         \A p \in Processes : job'[p] = job[p] \/ JobBacked(rows', job'[p])
  PROVE  AllBacked'
<1>1. \A t \in 1..MaxTasks : Backed(rows', t, state'[t])
  BY KeptIsStored, Zenon DEF AllBacked
<1>2. \A p \in Processes : JobBacked(rows', job'[p])
  BY KeptIsStored, Zenon DEF AllBacked
<1> QED  BY <1>1, <1>2, Zenon DEF AllBacked

LEMMA RangeOfAppend ==
  ASSUME NEW S, NEW s \in Seq(S), NEW e \in S
  PROVE  Range(Append(s, e)) = Range(s) \cup {e}
<1>1. \A x \in Range(Append(s, e)) : x \in Range(s) \cup {e}
  BY AppendProperties, LenProperties DEF Range
<1>2. \A x \in Range(s) \cup {e} : x \in Range(Append(s, e))
  BY AppendProperties, LenProperties DEF Range
<1> QED  BY <1>1, <1>2

LEMMA RangeOfConcat ==
  ASSUME NEW S, NEW s \in Seq(S), NEW u \in Seq(S)
  PROVE  Range(s \o u) = Range(s) \cup Range(u)
<1>1. /\ Len(s \o u) = Len(s) + Len(u) /\ s \o u \in Seq(S)
      /\ \A i \in 1..Len(s) : (s \o u)[i] = s[i]
      /\ \A i \in 1..Len(u) : (s \o u)[Len(s) + i] = u[i]
      /\ Len(s) \in Nat /\ Len(u) \in Nat /\ DOMAIN s = 1..Len(s)
      /\ DOMAIN u = 1..Len(u) /\ DOMAIN (s \o u) = 1..Len(s \o u)
  BY ConcatProperties, LenProperties
<1> DEFINE w == s \o u
<1>2. \A x \in Range(w) : x \in Range(s) \cup Range(u)
  <2>1. SUFFICES ASSUME NEW i \in DOMAIN w
                 PROVE  w[i] \in Range(s) \cup Range(u)
    BY DEF Range
  <2> HIDE DEF w
  <2>2. CASE i \in DOMAIN s
    BY <1>1, <2>2 DEF Range, w
  <2>3. CASE i \notin DOMAIN s
    <3>1. i - Len(s) \in DOMAIN u /\ Len(s) + (i - Len(s)) = i
      BY <1>1, <2>3 DEF w
    <3>2. w[i] = u[i - Len(s)]
      BY <1>1, <3>1 DEF w
    <3> QED  BY <3>1, <3>2 DEF Range
  <2> QED  BY <2>2, <2>3
<1>3. \A x \in Range(s) \cup Range(u) : x \in Range(w)
  <2> HIDE DEF w
  <2>1. \A i \in DOMAIN s : i \in DOMAIN w /\ w[i] = s[i]
    BY <1>1 DEF w
  <2>2. \A i \in DOMAIN u : Len(s) + i \in DOMAIN w /\ w[Len(s) + i] = u[i]
    BY <1>1 DEF w
  <2> QED  BY <2>1, <2>2 DEF Range
<1> QED  BY <1>2, <1>3

\* What a step of a process makes of the jobs.
LEMMA GoesOn ==
  ASSUME JobsTyped, NEW p \in Processes, NEW holding, Goes(p, holding)
  PROVE  /\ job'[p] = holding
         /\ \A q \in Processes : q # p => job'[q] = job[q]
BY DEF JobsTyped, Goes

LEMMA UninformedIsBacked ==
  ASSUME NEW r, NEW n, NEW j, JobFits(j, n), ~Informed(j)
  PROVE  JobBacked(r, j)
BY DEF JobFits, Informed, Marked, JobBacked

\* The steps that change nothing but the job of a process.
LEMMA JobIsBacked ==
  ASSUME Typed, AllBacked, NEW p \in Processes, NEW holding, Goes(p, holding),
         UNCHANGED <<rows, state>>, JobBacked(rows, holding)
  PROVE  AllBacked'
<1>1. job'[p] = holding /\ \A q \in Processes : q # p => job'[q] = job[q]
  BY GoesOn DEF Typed
<1>2. Kept(rows, rows') /\ rows' = rows
  BY DEF Kept
<1>3. \A t \in 1..MaxTasks : state'[t] = state[t]
  OBVIOUS
<1>4. \A q \in Processes : job'[q] = job[q] \/ JobBacked(rows', job'[q])
  BY <1>1, <1>2
<1> QED  BY <1>2, <1>3, <1>4, BackedStep, Zenon

-----------------------------------------------------------------------------
(* Where the steps of a pass lead.                                         *)

\* A job that carries on with a call: the task, the state it has read, the file.
CarriesOn(j, h) ==
  /\ h.task = j.task /\ h.state = j.state /\ h.path = j.path
  /\ h.version = j.version /\ h.heal = j.heal

\* A job that carries on with a pass.
SamePass(j, h) ==
  /\ CarriesOn(j, h)
  /\ h.mark = j.mark /\ h.start = j.start /\ h.rescan = j.rescan

\* A look at a wire starts a pass at line 0 or at the cursor, or none.
LooksFrom(j, cursor, mark, h) ==
  \/ h.at = "next"
  \/ /\ CarriesOn(j, h) /\ h.stored = {} /\ h.mark = mark
     /\ \/ h.at = "digests" /\ h.rescan /\ h.start = 0
        \/ /\ h.at = "scan" /\ ~h.rescan
           /\ ~Restarts(j, cursor, mark) /\ h.start = cursor.line

LEMMA ReadStateLeads ==
  ASSUME Typed, NEW p \in Processes, ReadState(p)
  PROVE  /\ job[p].at = "read" /\ UNCHANGED <<wire, version, tasks, rows, state>>
         /\ \A q \in Processes : q # p => job'[q] = job[q]
         /\ job'[p].at \in {"turn", "look"} /\ job'[p].task = job[p].task
         /\ job'[p].key = job[p].key /\ job'[p].path = job[p].path
         /\ job'[p].state = state[job[p].task] /\ job'[p].stored = {}
<1> DEFINE j == job[p]
           holding == [j EXCEPT !.at = IF j.path = NoPath THEN "turn" ELSE "look",
                                !.state = state[j.task]]
<1>1. j \in Job /\ j.at = "read" /\ j.stored = {}
  BY DEF Typed, JobsTyped, ReadState, At, JobFits, Marked
<1>2. Goes(p, holding) /\ UNCHANGED <<wire, version, tasks, rows, state>>
  BY DEF ReadState
<1> HIDE DEF j
<1>3. /\ holding.at \in {"turn", "look"} /\ holding.task = j.task
      /\ holding.key = j.key /\ holding.path = j.path
      /\ holding.state = state[j.task] /\ holding.stored = {}
  BY <1>1 DEF Job
<1> HIDE DEF holding
<1>4. job'[p] = holding /\ \A q \in Processes : q # p => job'[q] = job[q]
  BY <1>2, GoesOn DEF Typed
<1> QED  BY <1>1, <1>2, <1>3, <1>4 DEF j

LEMMA LookAtWireLeads ==
  ASSUME Typed, NEW p \in Processes, LookAtWire(p)
  PROVE  /\ job[p].at = "look" /\ UNCHANGED <<wire, version, tasks, rows, state>>
         /\ \A q \in Processes : q # p => job'[q] = job[q]
         /\ LooksFrom(job[p], CursorOf(job[p].state.cursors, job[p].path),
                      Marker(job[p].path), job'[p])
<1> DEFINE j == job[p]
           cursor == CursorOf(j.state.cursors, j.path)
           mark == Marker(j.path)
           rescans == [j EXCEPT !.at = "digests", !.mark = mark, !.rescan = TRUE]
           resumes == [j EXCEPT !.at = "scan", !.mark = mark, !.start = cursor.line]
<1>1. /\ j \in Job /\ JobFits(j, tasks) /\ j.at = "look" /\ ~j.rescan
      /\ j.stored = {} /\ j.start = 0 /\ j.path # NoPath
  BY DEF Typed, JobsTyped, LookAtWire, At, JobFits, Marked
<1>2. /\ \/ Goes(p, AfterPass(j, 0))
         \/ Goes(p, rescans)
         \/ ~Restarts(j, cursor, mark) /\ Goes(p, resumes)
      /\ UNCHANGED <<wire, version, tasks, rows, state>>
  BY DEF LookAtWire
<1> HIDE DEF j, cursor, mark
<1>3. ASSUME NEW holding, Goes(p, holding), LooksFrom(j, cursor, mark, holding)
      PROVE  /\ LooksFrom(j, cursor, mark, job'[p])
             /\ \A q \in Processes : q # p => job'[q] = job[q]
  BY <1>3, GoesOn DEF Typed
<1>4. LooksFrom(j, cursor, mark, AfterPass(j, 0))
  BY <1>1, AfterPassIsTyped DEF LooksFrom
<1>5. LooksFrom(j, cursor, mark, rescans)
  <2>1. /\ CarriesOn(j, rescans) /\ rescans.stored = {} /\ rescans.mark = mark
        /\ rescans.at = "digests" /\ rescans.rescan /\ rescans.start = 0
    BY <1>1 DEF CarriesOn, Job
  <2> HIDE DEF rescans
  <2> QED  BY <2>1 DEF LooksFrom
<1>6. ASSUME ~Restarts(j, cursor, mark)
      PROVE  LooksFrom(j, cursor, mark, resumes)
  <2>1. /\ CarriesOn(j, resumes) /\ resumes.stored = {} /\ resumes.mark = mark
        /\ resumes.at = "scan" /\ ~resumes.rescan /\ resumes.start = cursor.line
    BY <1>1 DEF CarriesOn, Job
  <2> HIDE DEF resumes
  <2> QED  BY <1>6, <2>1 DEF LooksFrom
<1> HIDE DEF rescans, resumes
<1>7. /\ LooksFrom(j, cursor, mark, job'[p])
      /\ \A q \in Processes : q # p => job'[q] = job[q]
  BY <1>2, <1>3, <1>4, <1>5, <1>6
<1> QED  BY <1>1, <1>2, <1>7 DEF j, cursor, mark

LEMMA ReadDigestsLeads ==
  ASSUME Typed, NEW p \in Processes, ReadDigests(p)
  PROVE  /\ job[p].at = "digests" /\ UNCHANGED <<wire, version, tasks, rows, state>>
         /\ \A q \in Processes : q # p => job'[q] = job[q]
         /\ SamePass(job[p], job'[p]) /\ job'[p].at = "scan"
         /\ job'[p].stored = WireDigests(job[p])
<1> DEFINE j == job[p]
           digests == WireDigests(j)
           holding == [j EXCEPT !.at = "scan", !.stored = digests]
<1>1. j \in Job /\ j.at = "digests"
  BY DEF Typed, JobsTyped, ReadDigests, At
<1>2. Goes(p, holding) /\ UNCHANGED <<wire, version, tasks, rows, state>>
  BY DEF ReadDigests
<1> HIDE DEF j, digests
<1>3. SamePass(j, holding) /\ holding.at = "scan" /\ holding.stored = digests
  BY <1>1 DEF SamePass, CarriesOn, Job
<1> HIDE DEF holding
<1>4. job'[p] = holding /\ \A q \in Processes : q # p => job'[q] = job[q]
  BY <1>2, GoesOn DEF Typed
<1> QED  BY <1>1, <1>2, <1>3, <1>4 DEF j, digests

LEMMA ScanWireLeads ==
  ASSUME Typed, NEW p \in Processes, ScanWire(p)
  PROVE  /\ job[p].at = "scan" /\ UNCHANGED <<wire, version, tasks, rows, state>>
         /\ \A q \in Processes : q # p => job'[q] = job[q]
         /\ \/ job'[p].at = "next"
            \/ /\ SamePass(job[p], job'[p]) /\ job'[p].at = "store"
               /\ job'[p].stored = job[p].stored /\ job'[p].to > job[p].start
               /\ PassFinds(wire[job[p].path].lines, job[p], job'[p])
<1> DEFINE j == job[p]
<1>1. j \in Job /\ JobFits(j, tasks) /\ j.at = "scan"
  BY DEF Typed, JobsTyped, ScanWire, At
<1>2. j.path \in Paths /\ j.path # NoPath
  BY <1>1 DEF JobFits, Job, Marked
<1>3. PICK pass \in Passes(j) :
        Goes(p, IF pass.to <= j.start THEN AfterPass(j, 0)
                ELSE [j EXCEPT !.at = "store", !.to = pass.to,
                        !.entries = pass.entries, !.early = pass.early])
  BY Zenon DEF ScanWire
<1>4. UNCHANGED <<wire, version, tasks, rows, state>>
  BY DEF ScanWire
<1>5. PassFinds(wire[j.path].lines, j, pass)
  <2> HIDE DEF j
  <2> QED  BY <1>1, <1>2, PassesFind DEF Typed
<1> DEFINE holding == [j EXCEPT !.at = "store", !.to = pass.to,
                                !.entries = pass.entries, !.early = pass.early]
           lines == wire[j.path].lines
<1> HIDE DEF j
<1>6. CASE pass.to <= j.start
  <2>1. AfterPass(j, 0).at = "next"
    BY <1>1, <1>2, AfterPassIsTyped
  <2>2. Goes(p, AfterPass(j, 0))
    BY <1>3, <1>6
  <2>3. job'[p] = AfterPass(j, 0) /\ \A q \in Processes : q # p => job'[q] = job[q]
    BY <2>2, GoesOn DEF Typed
  <2> QED  BY <1>1, <1>4, <2>1, <2>3 DEF j
<1>7. CASE ~(pass.to <= j.start)
  <2>1. /\ SamePass(j, holding) /\ holding.at = "store"
        /\ holding.stored = j.stored
        /\ holding.to = pass.to /\ holding.entries = pass.entries
        /\ holding.early = pass.early
    BY <1>1 DEF SamePass, CarriesOn, Job
  <2>2. Goes(p, holding)
    BY <1>3, <1>7
  <2> HIDE DEF holding, lines
  <2>3. PassFinds(lines, j, holding)
    BY <1>5, <2>1, Zenon DEF PassFinds, lines
  <2>4. holding.to > j.start
    BY <1>1, <1>5, <1>7, <2>1 DEF PassFinds, Job
  <2>5. job'[p] = holding /\ \A q \in Processes : q # p => job'[q] = job[q]
    BY <2>2, GoesOn DEF Typed
  <2> QED  BY <1>1, <1>4, <2>1, <2>3, <2>4, <2>5 DEF j, lines
<1> QED  BY <1>6, <1>7

\* The steps of a process that leave the wires, the messages and the states
\* alone and end where no state is held.
Quiet(p) ==
  \/ \E s \in Sessions, k \in Turns \cup {NoTurn} : StartHook(p, s, k)
  \/ StartHeal(p) \/ ResolveTask(p) \/ CreateTask(p) \/ SkipTurn(p)
  \/ NextWire(p) \/ SweepTask(p) \/ Finish(p) \/ Abort(p)

LEMMA QuietLeads ==
  ASSUME Typed, NEW p \in Processes, Quiet(p)
  PROVE  /\ UNCHANGED <<wire, rows, state>>
         /\ \A q \in Processes : q # p => job'[q] = job[q]
         /\ ~Informed(job'[p])
         /\ \/ tasks' = tasks /\ (job'[p].at = "create" => tasks = 0)
            \/ job[p].at = "create" /\ tasks' = tasks + 1 /\ job'[p].at = "read"
<1> DEFINE j == job[p]
           Calm(h) ==
             \/ /\ h.at \in {"idle", "resolve", "create", "read", "next"}
                /\ tasks' = tasks /\ (h.at = "create" => tasks = 0)
             \/ j.at = "create" /\ tasks' = tasks + 1 /\ h.at = "read"
<1>1. j \in Job /\ JobFits(j, tasks) /\ tasks \in Nat
  BY DEF Typed, JobsTyped
<1>2. SUFFICES /\ UNCHANGED <<wire, rows, state>>
               /\ \E holding : Goes(p, holding) /\ Calm(holding)
  BY GoesOn DEF Typed, Informed
<1>3. ASSUME NEW s \in Sessions, NEW k \in Turns \cup {NoTurn}, StartHook(p, s, k)
      PROVE  /\ UNCHANGED <<wire, rows, state>>
             /\ \E holding : Goes(p, holding) /\ Calm(holding)
  <2> DEFINE h == [NoJob EXCEPT !.at = "resolve", !.version = version,
                                !.key = <<s, k>>, !.todo = WiresOf[s]]
  <2>1. UNCHANGED <<wire, tasks, rows, state>> /\ Goes(p, h)
    BY <1>3 DEF StartHook
  <2>2. h.at = "resolve"
    BY DEF NoJob
  <2> HIDE DEF h
  <2> QED  BY <2>1, <2>2
<1>4. ASSUME StartHeal(p)
      PROVE  /\ UNCHANGED <<wire, rows, state>>
             /\ \E holding : Goes(p, holding) /\ Calm(holding)
  <2> DEFINE h == [NoJob EXCEPT !.at = "next", !.version = version,
                                !.heal = TRUE, !.sweep = 1..tasks]
  <2>1. UNCHANGED <<wire, tasks, rows, state>> /\ Goes(p, h)
    BY <1>4 DEF StartHeal
  <2>2. h.at = "next"
    BY DEF NoJob
  <2> HIDE DEF h
  <2> QED  BY <2>1, <2>2
<1>5. ASSUME ResolveTask(p)
      PROVE  /\ UNCHANGED <<wire, rows, state>>
             /\ \E holding : Goes(p, holding) /\ Calm(holding)
  <2> DEFINE h == IF tasks > 0 THEN [j EXCEPT !.at = "read", !.task = 1]
                               ELSE [j EXCEPT !.at = "create"]
  <2>1. UNCHANGED <<wire, tasks, rows, state>> /\ Goes(p, h)
    BY <1>5 DEF ResolveTask
  <2> HIDE DEF j
  <2>2. h.at \in {"read", "create"} /\ (h.at = "create" => tasks = 0)
    BY <1>1 DEF Job
  <2> HIDE DEF h
  <2> QED  BY <2>1, <2>2
<1>6. ASSUME CreateTask(p)
      PROVE  /\ UNCHANGED <<wire, rows, state>>
             /\ \E holding : Goes(p, holding) /\ Calm(holding)
  <2> DEFINE h == [j EXCEPT !.at = "read", !.task = tasks + 1]
  <2>1. /\ UNCHANGED <<wire, rows, state>> /\ Goes(p, h)
        /\ j.at = "create" /\ tasks' = tasks + 1
    BY <1>6 DEF CreateTask, At
  <2> HIDE DEF j
  <2>2. h.at = "read"
    BY <1>1 DEF Job
  <2> HIDE DEF h
  <2> QED  BY <2>1, <2>2
<1>7. ASSUME SkipTurn(p)
      PROVE  /\ UNCHANGED <<wire, rows, state>>
             /\ \E holding : Goes(p, holding) /\ Calm(holding)
  <2>1. UNCHANGED <<wire, tasks, rows, state>> /\ Goes(p, Between(j))
    BY <1>7 DEF SkipTurn
  <2>2. Between(j).at = "next"
    BY BetweenIs
  <2> QED  BY <2>1, <2>2
<1>8. ASSUME NextWire(p)
      PROVE  /\ UNCHANGED <<wire, rows, state>>
             /\ \E holding : Goes(p, holding) /\ Calm(holding)
  <2> DEFINE h == [j EXCEPT !.at = "resolve", !.path = Head(j.todo)]
  <2>1. UNCHANGED <<wire, tasks, rows, state>> /\ Goes(p, h)
    BY <1>8 DEF NextWire
  <2> HIDE DEF j
  <2>2. h.at = "resolve"
    BY <1>1 DEF Job
  <2> HIDE DEF h
  <2> QED  BY <2>1, <2>2
<1>9. ASSUME SweepTask(p)
      PROVE  /\ UNCHANGED <<wire, rows, state>>
             /\ \E holding : Goes(p, holding) /\ Calm(holding)
  <2> DEFINE t == Min(j.sweep)
             cursors == state[t].cursors
             h == [j EXCEPT !.sweep = @ \ {t},
                            !.todo = [i \in DOMAIN cursors |-> cursors[i].path]]
  <2>1. UNCHANGED <<wire, tasks, rows, state>> /\ Goes(p, h) /\ j.at = "next"
    BY <1>9 DEF SweepTask, At
  <2> HIDE DEF j, t, cursors
  <2>2. h.at = "next"
    BY <1>1, <2>1 DEF Job
  <2> HIDE DEF h
  <2> QED  BY <2>1, <2>2
<1>10. ASSUME Finish(p)
       PROVE  /\ UNCHANGED <<wire, rows, state>>
              /\ \E holding : Goes(p, holding) /\ Calm(holding)
  <2>1. UNCHANGED <<wire, tasks, rows, state>> /\ Goes(p, NoJob)
    BY <1>10 DEF Finish
  <2> QED  BY <2>1 DEF NoJob
<1>11. ASSUME Abort(p)
       PROVE  /\ UNCHANGED <<wire, rows, state>>
              /\ \E holding : Goes(p, holding) /\ Calm(holding)
  <2> DEFINE h == [Between(j) EXCEPT !.passes = 0, !.todo = Tail(@)]
  <2>1. /\ UNCHANGED <<wire, tasks, rows, state>> /\ j.at # "idle"
        /\ Goes(p, NoJob) \/ (Goes(p, h) /\ j.path # NoPath)
    BY <1>11 DEF Abort, At
  <2>2. NoJob.at = "idle"
    BY DEF NoJob
  <2> HIDE DEF j
  <2>3. j.path # NoPath => h.at = "next"
    BY <1>1, <2>1, TakesNext, Zenon
  <2> HIDE DEF h
  <2> QED  BY <2>1, <2>2, <2>3
<1> QED  BY <1>3, <1>4, <1>5, <1>6, <1>7, <1>8, <1>9, <1>10, <1>11, Zenon DEF Quiet

\* A turn is stored: its message, and the state with its key and its digest.
LEMMA StoreTurnLeads ==
  ASSUME Typed, NEW p \in Processes, StoreTurn(p)
  PROVE  /\ job[p].at = "turn" /\ job[p].task \in 1..tasks /\ job[p].task \in 1..MaxTasks
         /\ job[p].key \in Keys /\ TurnIsNew(job[p])
         /\ UNCHANGED <<wire, version, tasks>> /\ Kept(rows, rows')
         /\ \A q \in Processes : q # p => job'[q] = job[q]
         /\ job'[p].at = "next"
         /\ \A t \in 1..MaxTasks : t # job[p].task => state'[t] = state[t]
         /\ state'[job[p].task] = TurnState(job[p])
         /\ DOMAIN rows' = DOMAIN rows \cup {Len(rows) + 1}
         /\ Len(rows) + 1 \notin DOMAIN rows
         /\ rows'[Len(rows) + 1].task = job[p].task
         /\ rows'[Len(rows) + 1].kind = "prompt"
         /\ rows'[Len(rows) + 1].from = job[p].key
         /\ rows'[Len(rows) + 1].content = TurnContent(job[p])
<1> DEFINE j == job[p]
           row == [task |-> j.task, kind |-> "prompt", from |-> j.key,
                   content |-> TurnContent(j)]
<1>1. /\ j \in Job /\ JobFits(j, tasks) /\ j.at = "turn" /\ TurnIsNew(j)
  BY DEF Typed, JobsTyped, StoreTurn, At
<1>2. /\ UNCHANGED <<wire, version, tasks>> /\ rows' = Append(rows, row)
      /\ state' = [state EXCEPT ![j.task] = TurnState(j)] /\ Goes(p, Between(j))
  BY DEF StoreTurn
<1> HIDE DEF j, row
<1>3. j.task \in 1..tasks /\ j.task \in 1..MaxTasks /\ j.key \in Keys
  BY <1>1, BoundsAreNaturals DEF JobFits, Informed, Typed
<1>4. /\ \A t \in 1..MaxTasks : t # j.task => state'[t] = state[t]
      /\ state'[j.task] = TurnState(j)
  BY <1>2, <1>3 DEF Typed, StateTyped
<1>5. job'[p].at = "next" /\ \A q \in Processes : q # p => job'[q] = job[q]
  <2>1. job'[p] = Between(j) /\ \A q \in Processes : q # p => job'[q] = job[q]
    BY <1>2, GoesOn DEF Typed
  <2>2. Between(j).at = "next"
    BY BetweenIs
  <2> QED  BY <2>1, <2>2
<1>6. /\ Len(rows) \in Nat /\ DOMAIN rows = 1..Len(rows)
      /\ DOMAIN rows' = 1..Len(rows) + 1
      /\ \A i \in 1..Len(rows) : rows'[i] = rows[i]
      /\ rows'[Len(rows) + 1] = row
  BY <1>2, AppendProperties, LenProperties DEF Typed, RowsTyped
<1>7. /\ Kept(rows, rows') /\ DOMAIN rows' = DOMAIN rows \cup {Len(rows) + 1}
      /\ Len(rows) + 1 \notin DOMAIN rows
  BY <1>6 DEF Kept
<1>8. /\ row.task = j.task /\ row.kind = "prompt" /\ row.from = j.key
      /\ row.content = TurnContent(j)
  BY DEF row
<1> QED  BY <1>1, <1>2, <1>3, <1>4, <1>5, <1>6, <1>7, <1>8 DEF j

\* A pass is stored: a message for each entry, and the state of the pass.
LEMMA StorePassLeads ==
  ASSUME Typed, NEW p \in Processes, StorePass(p)
  PROVE  /\ job[p].at = "store" /\ job[p].task \in 1..tasks /\ job[p].task \in 1..MaxTasks
         /\ job[p].path \in Paths
         /\ UNCHANGED <<wire, version, tasks>> /\ Kept(rows, rows')
         /\ \A q \in Processes : q # p => job'[q] = job[q]
         /\ job'[p].at = "next"
         /\ \A t \in 1..MaxTasks : t # job[p].task => state'[t] = state[t]
         /\ state'[job[p].task] \in {state[job[p].task], PassState(job[p])}
         /\ \A content \in Range(job[p].entries) :
              StoredIn(rows', job[p].task, content)
         /\ \A i \in DOMAIN rows' : i \in DOMAIN rows \/
              /\ rows'[i].task = job[p].task /\ rows'[i].kind = "wire"
              /\ rows'[i].from = job[p].path
              /\ rows'[i].content \in Range(job[p].entries)
<1> DEFINE j == job[p]
           added == [k \in DOMAIN j.entries |->
                       [task |-> j.task, kind |-> "wire", from |-> j.path,
                        content |-> j.entries[k]]]
<1>1. j \in Job /\ JobFits(j, tasks) /\ j.at = "store"
  BY DEF Typed, JobsTyped, StorePass, At
<1>2. /\ UNCHANGED <<wire, version, tasks>> /\ rows' = rows \o added
      /\ state' = state \/ state' = [state EXCEPT ![j.task] = PassState(j)]
      /\ Goes(p, AfterPass(j, Len(j.entries)))
  BY DEF StorePass
<1> HIDE DEF j
<1>3. /\ j.task \in 1..tasks /\ j.task \in 1..MaxTasks /\ j.path \in Paths
      /\ j.path # NoPath
  BY <1>1, BoundsAreNaturals DEF JobFits, Informed, Marked, Typed, Job
<1>4. /\ \A t \in 1..MaxTasks : t # j.task => state'[t] = state[t]
      /\ state'[j.task] \in {state[j.task], PassState(j)}
  BY <1>2, <1>3 DEF Typed, StateTyped
<1>5. job'[p].at = "next" /\ \A q \in Processes : q # p => job'[q] = job[q]
  <2>1. AfterPass(j, Len(j.entries)).at = "next"
    BY <1>1, <1>3, AfterPassIsTyped
  <2> QED  BY <1>2, <2>1, GoesOn DEF Typed
<1>6. /\ added \in Seq([task : {j.task}, kind : {"wire"}, from : {j.path},
                        content : Range(j.entries)])
      /\ Len(added) = Len(j.entries) /\ DOMAIN j.entries = 1..Len(j.entries)
      /\ Len(j.entries) \in Nat
      /\ \A k \in DOMAIN j.entries : added[k].task = j.task /\ added[k].content = j.entries[k]
  <2> DEFINE New == [task : {j.task}, kind : {"wire"}, from : {j.path},
                     content : Range(j.entries)]
  <2>1. DOMAIN j.entries = 1..Len(j.entries) /\ Len(j.entries) \in Nat
    BY <1>1, LenProperties DEF Job
  <2>2. added \in [1..Len(j.entries) -> New]
    BY <2>1 DEF Range
  <2>3. \A k \in DOMAIN j.entries : added[k].task = j.task /\ added[k].content = j.entries[k]
    OBVIOUS
  <2> HIDE DEF added, New
  <2>4. added \in Seq(New) /\ Len(added) = Len(j.entries)
    BY <2>1, <2>2, ListsAreSequences, Zenon
  <2> QED  BY <2>1, <2>3, <2>4 DEF New
<1> HIDE DEF added
<1> DEFINE New == [task : {j.task}, kind : {"wire"}, from : {j.path},
                   content : Range(j.entries)]
<1>7. /\ Len(rows) \in Nat /\ DOMAIN rows = 1..Len(rows)
      /\ DOMAIN added = 1..Len(added) /\ Len(added) \in Nat
      /\ DOMAIN rows' = 1..Len(rows) + Len(added)
      /\ \A i \in 1..Len(rows) : rows'[i] = rows[i]
      /\ \A i \in 1..Len(added) : rows'[Len(rows) + i] = added[i]
  <2> DEFINE Rows == Row \cup New
  <2>1. rows \in Seq(Rows) /\ added \in Seq(Rows)
    <3>1. rows \in Seq(Row) /\ added \in Seq(New)
      BY <1>6 DEF Typed, RowsTyped
    <3> HIDE DEF New
    <3> QED  BY <3>1
  <2> HIDE DEF Rows
  <2> QED  BY <1>2, <2>1, ConcatProperties, LenProperties
<1>8. Kept(rows, rows')
  BY <1>7 DEF Kept
<1>9. ASSUME NEW content \in Range(j.entries)
      PROVE  StoredIn(rows', j.task, content)
  <2>1. PICK k \in DOMAIN j.entries : j.entries[k] = content
    BY DEF Range
  <2>2. Len(rows) + k \in DOMAIN rows' /\ rows'[Len(rows) + k] = added[k]
        /\ added[k].task = j.task /\ added[k].content = content
    BY <1>6, <1>7, <2>1
  <2> QED  BY <2>2 DEF StoredIn
<1>10. ASSUME NEW i \in DOMAIN rows', i \notin DOMAIN rows
       PROVE  /\ rows'[i].task = j.task /\ rows'[i].kind = "wire"
              /\ rows'[i].from = j.path /\ rows'[i].content \in Range(j.entries)
  <2>1. i - Len(rows) \in 1..Len(added) /\ rows'[i] = added[i - Len(rows)]
    BY <1>7, <1>10
  <2>2. added[i - Len(rows)] \in New
    <3> HIDE DEF New
    <3>1. added \in Seq(New)
      BY <1>6 DEF New
    <3> QED  BY <2>1, <3>1, ElementOfSeq
  <2> QED  BY <2>1, <2>2
<1> QED  BY <1>1, <1>2, <1>3, <1>4, <1>5, <1>8, <1>9, <1>10 DEF j

-----------------------------------------------------------------------------
(* Saved means stored.                                                     *)

LEMMA InitIsBacked ==
  ASSUME Init
  PROVE  AllBacked
<1>1. Range(<< >>) = {}
  BY DEF Range
<1>2. \A t : Backed(rows, t, EmptyState)
  BY <1>1 DEF Backed, EmptyState
<1>3. ~Informed(NoJob) /\ NoJob.stored = {}
  BY DEF NoJob, Informed
<1> QED  BY <1>2, <1>3 DEF Init, AllBacked, JobBacked

\* The steps of a pass, and the reading of a state before it.
LEMMA PassIsBacked ==
  ASSUME Typed, Typed', AllBacked, NEW p \in Processes,
         Quiet(p) \/ ReadState(p) \/ LookAtWire(p) \/ ReadDigests(p) \/ ScanWire(p)
  PROVE  AllBacked'
<1> DEFINE j == job[p]
           h == job'[p]
<1>1. /\ UNCHANGED <<rows, state>>
      /\ \A q \in Processes : q # p => job'[q] = job[q]
  BY QuietLeads, ReadStateLeads, LookAtWireLeads, ReadDigestsLeads, ScanWireLeads
<1>2. \/ ~Informed(h)
      \/ j.at = "read" /\ h.task = j.task /\ h.state = state[j.task] /\ h.stored = {}
      \/ /\ Informed(j) /\ h.task = j.task /\ h.state = j.state
         /\ h.stored \in {{}, j.stored, WireDigests(j)}
  <2>1. CASE Quiet(p)
    BY <2>1, QuietLeads
  <2>2. CASE ReadState(p)
    BY <2>2, ReadStateLeads
  <2>3. CASE LookAtWire(p)
    BY <2>3, LookAtWireLeads DEF LooksFrom, CarriesOn, Informed
  <2>4. CASE ReadDigests(p)
    BY <2>4, ReadDigestsLeads DEF SamePass, CarriesOn, Informed
  <2>5. CASE ScanWire(p)
    BY <2>5, ScanWireLeads DEF SamePass, CarriesOn, Informed
  <2> QED  BY <2>1, <2>2, <2>3, <2>4, <2>5
<1>3. JobFits(j, tasks) /\ JobFits(h, tasks') /\ JobBacked(rows, j)
      /\ tasks \in 0..MaxTasks
  BY DEF Typed, JobsTyped, AllBacked
<1>4. j.at = "read" => Backed(rows, j.task, state[j.task])
  <2>1. j.at = "read" => j.task \in 1..MaxTasks
    BY <1>3, BoundsAreNaturals DEF JobFits
  <2> QED  BY <2>1, Zenon DEF AllBacked
<1>5. \A content \in WireDigests(j) : StoredIn(rows, j.task, content)
  BY DEF WireDigests, WireRows, StoredIn
<1> HIDE DEF j, h
<1>6. JobBacked(rows, h)
  <2>1. CASE ~Informed(h)
    BY <1>3, <2>1, UninformedIsBacked
  <2>2. CASE j.at = "read" /\ h.task = j.task /\ h.state = state[j.task]
             /\ h.stored = {}
    BY <1>4, <2>2 DEF JobBacked
  <2>3. CASE /\ Informed(j) /\ h.task = j.task /\ h.state = j.state
             /\ h.stored \in {{}, j.stored, WireDigests(j)}
    BY <1>3, <1>5, <2>3, Zenon DEF JobBacked
  <2> QED  BY <1>2, <2>1, <2>2, <2>3
<1>7. Kept(rows, rows') /\ rows' = rows /\ state' = state
  BY <1>1 DEF Kept
<1>8. \A q \in Processes : job'[q] = job[q] \/ JobBacked(rows', job'[q])
  BY <1>1, <1>6, <1>7 DEF h
<1> QED  BY <1>7, <1>8, BackedStep, Zenon

LEMMA StoreTurnIsBacked ==
  ASSUME Typed, Typed', AllBacked, NEW p \in Processes, StoreTurn(p)
  PROVE  AllBacked'
<1> DEFINE j == job[p]
           last == Len(rows) + 1
<1>1. j \in Job /\ JobFits(j, tasks) /\ JobFits(job'[p], tasks')
      /\ JobBacked(rows, j)
  BY DEF Typed, JobsTyped, AllBacked
<1>2. /\ j.at = "turn" /\ TurnIsNew(j) /\ j.task \in 1..MaxTasks /\ j.key \in Keys
      /\ Kept(rows, rows') /\ job'[p].at = "next"
      /\ \A q \in Processes : q # p => job'[q] = job[q]
      /\ \A t \in 1..MaxTasks : t # j.task => state'[t] = state[t]
      /\ state'[j.task] = TurnState(j)
      /\ last \in DOMAIN rows'
      /\ rows'[last].task = j.task /\ rows'[last].content = TurnContent(j)
  BY StoreTurnLeads
<1>3. Backed(rows', j.task, j.state)
  <2>1. Backed(rows, j.task, j.state)
    BY <1>1, <1>2 DEF JobBacked, Informed
  <2> HIDE DEF j
  <2> QED  BY <1>2, <2>1, KeptIsStored, Zenon
<1>4. StoredIn(rows', j.task, TurnContent(j))
      /\ HeldIn(rows', j.task, PromptOf[j.key[2]])
  <2>1. PromptOf[j.key[2]] \in Range(TurnContent(j))
    BY DEF Range, TurnContent
  <2> HIDE DEF j
  <2> QED  BY <1>2, <2>1 DEF StoredIn, HeldIn
<1> HIDE DEF j
<1>5. Backed(rows', j.task, TurnState(j))
  <2> DEFINE s == j.state
             seen == Append(s.seen, j.key)
             hashes == Append(s.hashes, TurnContent(j))
  <2>1. s.seen \in Seq(Keys) /\ s.hashes \in Seq(Contents)
    BY <1>1 DEF Job, State
  <2>2. TurnContent(j) \in Contents
        /\ TurnState(j).seen = LastN(seen, SeenCap)
        /\ TurnState(j).hashes = LastN(hashes, HashCap)
    BY <1>1, <1>2, TurnStateIsTyped, Zenon
  <2>3. seen \in Seq(Keys) /\ hashes \in Seq(Contents)
        /\ Range(seen) = Range(s.seen) \cup {j.key}
        /\ Range(hashes) = Range(s.hashes) \cup {TurnContent(j)}
    <3> HIDE DEF s
    <3> QED  BY <1>2, <2>1, <2>2, AppendProperties, RangeOfAppend
  <2> HIDE DEF seen, hashes, s
  <2>4. Range(LastN(seen, SeenCap)) \subseteq Range(seen)
    BY <2>3, BoundsAreNaturals, WindowOfList
  <2>5. Range(LastN(hashes, HashCap)) \subseteq Range(hashes)
    BY <2>3, BoundsAreNaturals, WindowOfList
  <2>6. ASSUME NEW content \in Range(TurnState(j).hashes)
        PROVE  StoredIn(rows', j.task, content)
    <3>1. content \in Range(s.hashes) \/ content = TurnContent(j)
      BY <2>2, <2>3, <2>5, <2>6
    <3> QED  BY <1>3, <1>4, <3>1 DEF Backed, s
  <2>7. ASSUME NEW key \in Range(TurnState(j).seen)
        PROVE  HeldIn(rows', j.task, PromptOf[key[2]])
    <3>1. key \in Range(s.seen) \/ key = j.key
      BY <2>2, <2>3, <2>4, <2>7
    <3> QED  BY <1>3, <1>4, <3>1 DEF Backed, s
  <2> QED  BY <2>6, <2>7 DEF Backed
<1>6. \A t \in 1..MaxTasks : state'[t] = state[t] \/ Backed(rows', t, state'[t])
  BY <1>2, <1>5
<1>7. \A q \in Processes : job'[q] = job[q] \/ JobBacked(rows', job'[q])
  <2>1. ~Informed(job'[p])
    BY <1>2 DEF Informed
  <2>2. JobBacked(rows', job'[p])
    BY <1>1, <2>1, UninformedIsBacked
  <2> QED  BY <1>2, <2>2
<1> QED  BY <1>2, <1>6, <1>7, BackedStep, Zenon

LEMMA StorePassIsBacked ==
  ASSUME Typed, Typed', AllBacked, NEW p \in Processes, StorePass(p)
  PROVE  AllBacked'
<1> DEFINE j == job[p]
<1>1. j \in Job /\ JobFits(j, tasks) /\ JobFits(job'[p], tasks')
      /\ JobBacked(rows, j)
  BY DEF Typed, JobsTyped, AllBacked
<1>2. /\ j.at = "store" /\ j.task \in 1..MaxTasks
      /\ Kept(rows, rows') /\ job'[p].at = "next"
      /\ \A q \in Processes : q # p => job'[q] = job[q]
      /\ \A t \in 1..MaxTasks : t # j.task => state'[t] = state[t]
      /\ state'[j.task] \in {state[j.task], PassState(j)}
      /\ \A content \in Range(j.entries) : StoredIn(rows', j.task, content)
  BY StorePassLeads
<1>3. Backed(rows', j.task, j.state)
  <2>1. Backed(rows, j.task, j.state)
    BY <1>1, <1>2 DEF JobBacked, Informed
  <2> HIDE DEF j
  <2> QED  BY <1>2, <2>1, KeptIsStored, Zenon
<1> HIDE DEF j
<1>4. Backed(rows', j.task, PassState(j))
  <2> DEFINE s == j.state
             hashes == s.hashes \o j.entries
  <2>1. s.seen \in Seq(Keys) /\ s.hashes \in Seq(Contents) /\ j.entries \in Seq(Contents)
    BY <1>1 DEF Job, State
  <2>2. PassState(j).seen = LastN(s.seen, SeenCap)
        /\ PassState(j).hashes = LastN(hashes, HashCap)
    BY <1>1, <1>2, PassStateIsTyped, Zenon
  <2>3. hashes \in Seq(Contents) /\ Range(hashes) = Range(s.hashes) \cup Range(j.entries)
    <3> DEFINE known == s.hashes
               entries == j.entries
    <3>1. known \in Seq(Contents) /\ entries \in Seq(Contents)
      BY <2>1
    <3> HIDE DEF known, entries
    <3>2. known \o entries \in Seq(Contents)
          /\ Range(known \o entries) = Range(known) \cup Range(entries)
      BY <3>1, ConcatProperties, RangeOfConcat
    <3> QED  BY <3>2 DEF known, entries
  <2> HIDE DEF hashes, s
  <2>4. Range(LastN(s.seen, SeenCap)) \subseteq Range(s.seen)
    BY <2>1, BoundsAreNaturals, WindowOfList
  <2>5. Range(LastN(hashes, HashCap)) \subseteq Range(hashes)
    BY <2>3, BoundsAreNaturals, WindowOfList
  <2>6. ASSUME NEW content \in Range(PassState(j).hashes)
        PROVE  StoredIn(rows', j.task, content)
    <3>1. content \in Range(s.hashes) \/ content \in Range(j.entries)
      BY <2>2, <2>3, <2>5, <2>6
    <3> QED  BY <1>2, <1>3, <3>1 DEF Backed, s
  <2>7. ASSUME NEW key \in Range(PassState(j).seen)
        PROVE  HeldIn(rows', j.task, PromptOf[key[2]])
    BY <1>3, <2>2, <2>4, <2>7 DEF Backed, s
  <2> QED  BY <2>6, <2>7 DEF Backed
<1>5. \A t \in 1..MaxTasks : state'[t] = state[t] \/ Backed(rows', t, state'[t])
  <2>1. state'[j.task] = state[j.task] \/ Backed(rows', j.task, state'[j.task])
    BY <1>2, <1>4
  <2> QED  BY <1>2, <2>1
<1>6. \A q \in Processes : job'[q] = job[q] \/ JobBacked(rows', job'[q])
  <2>1. ~Informed(job'[p])
    BY <1>2 DEF Informed
  <2>2. JobBacked(rows', job'[p])
    BY <1>1, <2>1, UninformedIsBacked
  <2> QED  BY <1>2, <2>2
<1> QED  BY <1>2, <1>5, <1>6, BackedStep, Zenon

\* A step is one of a process, or changes none of the messages, states and jobs.
World ==
  \/ Upgrade
  \/ \E p \in Paths :
       \/ \E line \in Lines : AppendLine(p, line)
       \/ \E lines \in Replacements : ReplaceWire(p, lines)

LEMMA StepsAre ==
  ASSUME Next
  PROVE  \/ World
         \/ \E p \in Processes :
              \/ Quiet(p) \/ ReadState(p) \/ LookAtWire(p) \/ ReadDigests(p)
              \/ ScanWire(p) \/ StoreTurn(p) \/ StorePass(p)
BY Zenon DEF Next, Step, Quiet, World

LEMMA WorldLeads ==
  ASSUME World \/ UNCHANGED vars
  PROVE  UNCHANGED <<tasks, rows, state, job>>
BY DEF World, Upgrade, AppendLine, ReplaceWire, vars

LEMMA NextIsBacked ==
  ASSUME Typed, Typed', AllBacked, [Next]_vars
  PROVE  AllBacked'
<1>1. CASE World \/ UNCHANGED vars
  <2>1. UNCHANGED <<rows, state, job>>
    BY <1>1, WorldLeads
  <2> QED  BY <2>1 DEF AllBacked
<1>2. CASE Next /\ ~World
  BY <1>2, StepsAre, PassIsBacked, StoreTurnIsBacked, StorePassIsBacked, Zenon
<1> QED  BY <1>1, <1>2

LEMMA AlwaysBacked == Spec => [](Typed /\ AllBacked)
<1>1. Init => Typed /\ AllBacked
  BY InitIsTyped, InitIsBacked
<1>2. Typed /\ AllBacked /\ [Next]_vars => (Typed /\ AllBacked)'
  BY NextIsTyped, NextIsBacked
<1> QED  BY <1>1, <1>2, PTL DEF Spec

\* The dedup state never claims more than the task holds, for any number of
\* processes: rows and fact are written in one batch, and a state that was read
\* before is written back only with what was stored since, since messages stay.
THEOREM SavedIsStored == Spec => []SavedMeansStored
<1>1. AllBacked => SavedMeansStored
  BY Zenon DEF AllBacked, Backed, StoredIn, HeldIn, SavedMeansStored, Holds
<1> QED  BY <1>1, AlwaysBacked, PTL

-----------------------------------------------------------------------------
(* An empty heal pass is a proof.                                          *)

\* The mark of a pass is of the past of its wire, and a heal pass that found
\* nothing to add has found all lines of the file it looked at stored.
EmptyPassFits(w, r, j) ==
  /\ Marked(j) => j.mark.mtime <= w[j.path].writes
  /\ j.at = "store" /\ j.heal /\ j.entries = << >> =>
       /\ ~j.early
       /\ j.mark.mtime = w[j.path].writes =>
            \A n \in Carrying(w[j.path].lines, 0, j.version) :
              HeldIn(r, j.task, w[j.path].lines[n].text)
EmptyPassesFit == \A p \in Processes : EmptyPassFits(wire, rows, job[p])

\* A write changes one wire, and is counted.
LEMMA WritesLead ==
  ASSUME Typed, World \/ UNCHANGED vars
  PROVE  \A p \in Paths : \/ wire'[p] = wire[p]
                          \/ wire'[p].writes = wire[p].writes + 1
<1>1. CASE Upgrade \/ UNCHANGED vars
  BY <1>1 DEF Upgrade, vars
<1>2. ASSUME NEW p \in Paths, \E line \in Lines : AppendLine(p, line)
      PROVE  \A q \in Paths : wire'[q] = wire[q] \/ wire'[q].writes = wire[q].writes + 1
  BY <1>2 DEF AppendLine, Typed, WiresTyped
<1>3. ASSUME NEW p \in Paths, \E lines \in Replacements : ReplaceWire(p, lines)
      PROVE  \A q \in Paths : wire'[q] = wire[q] \/ wire'[q].writes = wire[q].writes + 1
  BY <1>3 DEF ReplaceWire, Typed, WiresTyped
<1> QED  BY <1>1, <1>2, <1>3 DEF World

LEMMA EmptyPassStays ==
  ASSUME NEW w, NEW r, NEW new, Kept(r, new), NEW j, EmptyPassFits(w, r, j)
  PROVE  EmptyPassFits(w, new, j)
<1>1. \A t, text : HeldIn(r, t, text) => HeldIn(new, t, text)
  BY KeptIsStored, Zenon
<1> QED  BY <1>1, Zenon DEF EmptyPassFits

LEMMA ScanIsEmptyPass ==
  ASSUME Typed, Typed', AllBacked, EmptyPassesFit, NEW p \in Processes, ScanWire(p)
  PROVE  EmptyPassFits(wire, rows, job'[p])
<1> DEFINE j == job[p]
           h == job'[p]
           lines == wire[j.path].lines
           known == Range(j.state.hashes) \cup j.stored
<1> SUFFICES EmptyPassFits(wire, rows, h)
  OBVIOUS
<1>1. /\ j.at = "scan"
      /\ \/ h.at = "next"
         \/ /\ SamePass(j, h) /\ h.at = "store"
            /\ PassFinds(lines, j, h)
  BY ScanWireLeads
<1>2. /\ j \in Job /\ JobFits(j, tasks) /\ JobBacked(rows, j)
      /\ EmptyPassFits(wire, rows, j)
  BY DEF Typed, JobsTyped, AllBacked, EmptyPassesFit
<1> HIDE DEF j, h
<1>3. CASE h.at = "next"
  BY <1>3 DEF EmptyPassFits, Marked
<1>4. CASE SamePass(j, h) /\ h.at = "store" /\ PassFinds(lines, j, h)
  <2>1. /\ h.path = j.path /\ h.mark = j.mark /\ h.task = j.task
        /\ h.version = j.version /\ h.heal = j.heal
    BY <1>4 DEF SamePass, CarriesOn
  <2>2. h.mark.mtime <= wire[h.path].writes
    BY <1>1, <1>2, <2>1 DEF EmptyPassFits, Marked
  <2>3. ASSUME h.heal, h.entries = << >>
        PROVE  /\ ~h.early
               /\ \A n \in Carrying(lines, 0, h.version) :
                    HeldIn(rows, h.task, lines[n].text)
    <3>1. j.start = 0
      BY <1>2, <2>1, <2>3 DEF JobFits
    <3>2. Range(h.entries) = {}
      BY <2>3 DEF Range
    <3> HIDE DEF lines, known
    <3>3. /\ ~h.early
          /\ \A n \in Carrying(lines, 0, j.version) :
               \E content \in known : lines[n].text \in Range(content)
      BY <1>4, <2>1, <2>3, <3>1, <3>2, Zenon DEF PassFinds, known
    <3>4. \A content \in known : StoredIn(rows, j.task, content)
      BY <1>1, <1>2, Zenon DEF JobBacked, Informed, Backed, known
    <3>5. \A n \in Carrying(lines, 0, j.version) : HeldIn(rows, j.task, lines[n].text)
      BY <3>3, <3>4, Zenon DEF StoredIn, HeldIn
    <3> QED  BY <2>1, <3>3, <3>5
  <2>4. wire[h.path].lines = lines
    BY <2>1
  <2> HIDE DEF lines
  <2> QED  BY <2>2, <2>3, <2>4 DEF EmptyPassFits
<1> QED  BY <1>1, <1>3, <1>4

LEMMA NextIsEmptyPass ==
  ASSUME Typed, Typed', AllBacked, EmptyPassesFit, [Next]_vars
  PROVE  EmptyPassesFit'
<1>1. ASSUME NEW p \in Processes, UNCHANGED wire, Kept(rows, rows'),
             \A q \in Processes : q # p => job'[q] = job[q],
             EmptyPassFits(wire, rows, job'[p])
      PROVE  EmptyPassesFit'
  <2>1. ASSUME NEW q \in Processes
        PROVE  EmptyPassFits(wire, rows', job'[q])
    <3>1. EmptyPassFits(wire, rows, job'[q])
      BY <1>1 DEF EmptyPassesFit
    <3> QED  BY <1>1, <3>1, EmptyPassStays, Zenon
  <2> QED  BY <1>1, <2>1 DEF EmptyPassesFit
<1>2. ASSUME NEW h, ~Marked(h)
      PROVE  EmptyPassFits(wire, rows, h)
  BY <1>2 DEF EmptyPassFits, Marked
<1>3. ASSUME NEW p \in Processes, Quiet(p) \/ ReadState(p) \/ StoreTurn(p) \/ StorePass(p)
      PROVE  EmptyPassesFit'
  <2>1. /\ UNCHANGED wire /\ Kept(rows, rows') /\ ~Marked(job'[p])
        /\ \A q \in Processes : q # p => job'[q] = job[q]
    BY <1>3, QuietLeads, ReadStateLeads, StoreTurnLeads, StorePassLeads
       DEF Kept, Informed, Marked
  <2> QED  BY <1>1, <1>2, <2>1
<1>4. ASSUME NEW p \in Processes, LookAtWire(p) \/ ReadDigests(p) \/ ScanWire(p)
      PROVE  EmptyPassesFit'
  <2>1. /\ UNCHANGED <<wire, rows>>
        /\ \A q \in Processes : q # p => job'[q] = job[q]
    BY <1>4, LookAtWireLeads, ReadDigestsLeads, ScanWireLeads
  <2>2. CASE LookAtWire(p)
    <3> DEFINE j == job[p]
               h == job'[p]
    <3>1. j.at = "look" /\ LooksFrom(j, CursorOf(j.state.cursors, j.path), Marker(j.path), h)
      BY <2>2, LookAtWireLeads
    <3>2. /\ h.at \in {"next", "digests", "scan"}
          /\ h.at # "next" => h.path = j.path /\ h.mark = Marker(j.path)
      <4> HIDE DEF j, h
      <4> QED  BY <3>1 DEF LooksFrom, CarriesOn
    <3>3. Marked(h) => h.path \in Paths
      BY DEF Typed, JobsTyped, JobFits, Job, Marked
    <3>4. Marker(h.path).mtime = wire[h.path].writes
      BY DEF Marker
    <3>5. h.path \in Paths => wire[h.path].writes \in Int
      BY DEF Typed, WiresTyped
    <3> HIDE DEF j, h
    <3>6. EmptyPassFits(wire, rows, h)
      BY <3>2, <3>3, <3>4, <3>5 DEF EmptyPassFits, Marked
    <3> QED  BY <1>1, <2>1, <3>6 DEF h, Kept
  <2>3. CASE ReadDigests(p)
    <3>1. EmptyPassFits(wire, rows, job[p])
      BY DEF EmptyPassesFit
    <3>2. /\ job[p].at = "digests" /\ job'[p].at = "scan"
          /\ job'[p].path = job[p].path /\ job'[p].mark = job[p].mark
      BY <2>3, ReadDigestsLeads DEF SamePass, CarriesOn
    <3>3. EmptyPassFits(wire, rows, job'[p])
      BY <3>1, <3>2 DEF EmptyPassFits, Marked
    <3> QED  BY <1>1, <2>1, <3>3 DEF Kept
  <2>4. CASE ScanWire(p)
    <3>1. EmptyPassFits(wire, rows, job'[p])
      BY <2>4, ScanIsEmptyPass
    <3> QED  BY <1>1, <2>1, <3>1 DEF Kept
  <2> QED  BY <1>4, <2>2, <2>3, <2>4
<1>5. CASE World \/ UNCHANGED vars
  <2>1. UNCHANGED <<rows, job>>
    BY <1>5, WorldLeads
  <2>2. \A p \in Paths : \/ wire'[p] = wire[p]
                         \/ wire'[p].writes = wire[p].writes + 1
    BY <1>5, WritesLead
  <2>3. ASSUME NEW q \in Processes
        PROVE  EmptyPassFits(wire', rows, job[q])
    <3> DEFINE j == job[q]
    <3> SUFFICES EmptyPassFits(wire', rows, j)
      OBVIOUS
    <3>1. EmptyPassFits(wire, rows, j) /\ JobFits(j, tasks) /\ j \in Job
      BY DEF EmptyPassesFit, Typed, JobsTyped
    <3>2. Marked(j) => /\ j.path \in Paths /\ j.mark \in Mark
                       /\ wire[j.path].writes \in Nat /\ wire'[j.path].writes \in Nat
      <4>1. \A p \in Paths : wire[p].writes \in Nat /\ wire'[p].writes \in Nat
        BY BoundsAreNaturals DEF Typed, WiresTyped
      <4> HIDE DEF j
      <4>2. Marked(j) => j.path \in Paths /\ j.mark \in Mark
        BY <3>1 DEF JobFits, Job
      <4> QED  BY <4>1, <4>2
    <3> HIDE DEF j
    <3>3. CASE ~Marked(j)
      BY <3>3 DEF EmptyPassFits, Marked
    <3>4. CASE Marked(j) /\ wire'[j.path] = wire[j.path]
      BY <3>1, <3>4 DEF EmptyPassFits
    <3>5. CASE Marked(j) /\ wire'[j.path].writes = wire[j.path].writes + 1
      <4>1. j.mark.mtime \in Nat
        BY <3>2, <3>5 DEF Mark
      <4>2. j.mark.mtime < wire'[j.path].writes
        BY <3>1, <3>2, <3>5, <4>1 DEF EmptyPassFits
      <4> QED  BY <3>1, <3>2, <3>5, <4>1, <4>2 DEF EmptyPassFits
    <3> QED  BY <2>2, <3>2, <3>3, <3>4, <3>5
  <2> QED  BY <2>1, <2>3 DEF EmptyPassesFit
<1> QED  BY <1>3, <1>4, <1>5, StepsAre, Zenon

\* For any number of processes, and whatever happens to the files meanwhile: a
\* heal pass that adds nothing has read its file to the end, and each line of it
\* that the parser keeps is stored. That rests on SavedMeansStored for the state
\* and the digests of the pass, and on a pass that restarts at line 0.
THEOREM EmptyPassProves == Spec => []EmptyPassIsProof
<1>1. Init => EmptyPassesFit
  BY DEF Init, NoJob, EmptyPassesFit, EmptyPassFits, Marked
<1>2. Typed /\ AllBacked /\ Typed' /\ EmptyPassesFit /\ [Next]_vars => EmptyPassesFit'
  BY NextIsEmptyPass
<1>3. EmptyPassesFit => EmptyPassIsProof
  BY Zenon DEF EmptyPassesFit, EmptyPassFits, EmptyPassIsProof, HeldIn, Holds, At
<1> QED  BY <1>1, <1>2, <1>3, AlwaysBacked, PTL DEF Spec

-----------------------------------------------------------------------------
(* Nothing is skipped.                                                     *)

\* A mark of a file that does not begin with a line.
OtherHead(mark, line) == mark.head = << >> \/ mark.head[1] # line

\* A mark is of an earlier file than the one that a path has in the wires w.
EarlierFile(w, path, mark) ==
  /\ mark.mtime < w[path].writes
  /\ w[path].lines # << >> => OtherHead(mark, w[path].lines[1])

\* What a cursor says of its wire when the texts in held are stored: it is of
\* an earlier file, or all that it lets a pass skip is stored.
CursorFits(w, held, c) ==
  \/ EarlierFile(w, c.path, c.mark)
  \/ /\ c.mark.mtime <= w[c.path].writes
     /\ c.line <= Len(w[c.path].lines)
     /\ \A n \in Carrying(w[c.path].lines, 0, c.parser) :
          n <= c.line \/ (c.complete /\ c.mark.mtime = w[c.path].writes)
          => w[c.path].lines[n].text \in held

\* The texts of the messages of a task, and those with the entries of a job.
TextsOf(r, t) == UNION {Range(r[i].content) : i \in {i \in DOMAIN r : r[i].task = t}}
TextsToBe(r, j) == TextsOf(r, j.task) \cup UNION {Range(c) : c \in Range(j.entries)}

\* What a pass knows of its wire is a cursor as well: where it starts, and once
\* it is read to its end the cursor it is to record with its entries.
StartCursor(j) == [path |-> j.path, line |-> j.start, mark |-> j.mark,
                   complete |-> FALSE, parser |-> j.version]
StateFits(w, r, t, s) ==
  \A i \in DOMAIN s.cursors : CursorFits(w, TextsOf(r, t), s.cursors[i])
PassFits(w, r, j) ==
  /\ Informed(j) => StateFits(w, r, j.task, j.state)
  /\ Marked(j) => CursorFits(w, TextsOf(r, j.task), StartCursor(j))
  /\ j.at = "store" => CursorFits(w, TextsToBe(r, j), PassCursor(j))
AllFit ==
  /\ \A t \in 1..MaxTasks : StateFits(wire, rows, t, state[t])
  /\ \A p \in Processes : PassFits(wire, rows, job[p])

\* A first line that no mark of a path begins with.
BeginsAnew(path, line) ==
  /\ \A t \in 1..MaxTasks : \A i \in DOMAIN state[t].cursors :
       state[t].cursors[i].path = path => OtherHead(state[t].cursors[i].mark, line)
  /\ \A p \in Processes :
       /\ \A i \in DOMAIN job[p].state.cursors :
            job[p].state.cursors[i].path = path =>
              OtherHead(job[p].state.cursors[i].mark, line)
       /\ Marked(job[p]) /\ job[p].path = path => OtherHead(job[p].mark, line)

\* A file that takes the place of another, or is written anew once it is empty,
\* does not begin with the line that a mark of that path begins with.
NewFilesDiffer ==
  \A p \in Paths :
    /\ \A lines \in Replacements :
         ReplaceWire(p, lines) /\ lines # << >> => BeginsAnew(p, lines[1])
    /\ \A line \in Lines :
         AppendLine(p, line) /\ wire[p].lines = << >> => BeginsAnew(p, line)

LEMMA TextsAreHeld ==
  \A r, t, text : text \in TextsOf(r, t) <=> HeldIn(r, t, text)
BY DEF TextsOf, HeldIn

LEMMA CursorFitsMore ==
  ASSUME NEW w, NEW c, NEW held, NEW more, held \subseteq more,
         CursorFits(w, held, c)
  PROVE  CursorFits(w, more, c)
BY Zenon DEF CursorFits

LEMMA KeptTexts ==
  ASSUME NEW r, NEW new, Kept(r, new)
  PROVE  /\ \A t : TextsOf(r, t) \subseteq TextsOf(new, t)
         /\ \A j : TextsToBe(r, j) \subseteq TextsToBe(new, j)
<1>1. \A t : TextsOf(r, t) \subseteq TextsOf(new, t)
  BY KeptIsStored, TextsAreHeld, Zenon
<1>2. \A j : TextsToBe(r, j) \subseteq TextsToBe(new, j)
  BY <1>1, Zenon DEF TextsToBe
<1> QED  BY <1>1, <1>2

LEMMA FitsMore ==
  ASSUME NEW w, NEW r, NEW new, Kept(r, new)
  PROVE  /\ \A t, s : StateFits(w, r, t, s) => StateFits(w, new, t, s)
         /\ \A j : PassFits(w, r, j) => PassFits(w, new, j)
<1>1. \A t : TextsOf(r, t) \subseteq TextsOf(new, t)
  BY KeptTexts, Zenon
<1>2. \A j : TextsToBe(r, j) \subseteq TextsToBe(new, j)
  BY KeptTexts, Zenon
<1>3. ASSUME NEW t, NEW s, StateFits(w, r, t, s)
      PROVE  StateFits(w, new, t, s)
  BY <1>1, <1>3, CursorFitsMore, Zenon DEF StateFits
<1>4. ASSUME NEW j, PassFits(w, r, j)
      PROVE  PassFits(w, new, j)
  BY <1>1, <1>2, <1>3, <1>4, CursorFitsMore, Zenon DEF PassFits
<1> QED  BY <1>3, <1>4

\* The wires are not written: only what changes has to be looked at.
LEMMA FitStep ==
  ASSUME AllFit, UNCHANGED wire, Kept(rows, rows'),
         \A t \in 1..MaxTasks :
           state'[t] = state[t] \/ StateFits(wire, rows', t, state'[t]),
         \A p \in Processes : job'[p] = job[p] \/ PassFits(wire, rows', job'[p])
  PROVE  AllFit'
<1>1. \A t \in 1..MaxTasks : StateFits(wire, rows', t, state'[t])
  BY FitsMore, Zenon DEF AllFit
<1>2. \A p \in Processes : PassFits(wire, rows', job'[p])
  BY FitsMore, Zenon DEF AllFit
<1>3. wire' = wire
  OBVIOUS
<1> QED  BY <1>1, <1>2, <1>3 DEF AllFit

\* A cursor stays right when its file is appended to, and when another file
\* takes the place of it.
LEMMA CursorStays ==
  ASSUME WiresTyped, NEW p \in Paths, NEW c, c.path \in Paths, c.mark \in Mark,
         c.line \in Nat, NEW held, CursorFits(wire, held, c),
         \/ \E line \in Lines :
              /\ AppendLine(p, line)
              /\ wire[p].lines = << >> /\ c.path = p => OtherHead(c.mark, line)
         \/ \E lines \in Replacements :
              /\ ReplaceWire(p, lines)
              /\ lines # << >> /\ c.path = p => OtherHead(c.mark, lines[1])
  PROVE  CursorFits(wire', held, c)
<1> DEFINE w == wire[p]
<1>1. w.lines \in Seq(Lines) /\ w.writes \in Nat /\ Len(w.lines) \in Nat
      /\ c.mark.mtime \in Nat
  BY LenProperties, BoundsAreNaturals DEF WiresTyped, Mark
<1>2. PICK new : wire' = [wire EXCEPT ![p] = [lines |-> new, writes |-> @.writes + 1]]
  BY DEF AppendLine, ReplaceWire
<1>3. /\ \A q \in Paths : q # p => wire'[q] = wire[q]
      /\ wire'[p].lines = new /\ wire'[p].writes = w.writes + 1
  BY <1>2 DEF WiresTyped
<1>4. CASE c.path # p
  BY <1>3, <1>4 DEF CursorFits, EarlierFile
<1>5. ASSUME c.path = p
      PROVE  c.mark.mtime < w.writes + 1
  BY <1>1, <1>5 DEF CursorFits, EarlierFile
<1>6. ASSUME c.path = p, NEW line \in Lines, AppendLine(p, line),
             w.lines = << >> => OtherHead(c.mark, line)
      PROVE  CursorFits(wire', held, c)
  <2>1. new = Append(w.lines, line)
    <3>1. wire' = [wire EXCEPT ![p] = [lines |-> Append(@.lines, line),
                                       writes |-> @.writes + 1]]
      BY <1>6 DEF AppendLine
    <3>2. wire'[p].lines = Append(w.lines, line)
      BY <3>1 DEF WiresTyped
    <3> QED  BY <1>3, <3>2
  <2> HIDE DEF w
  <2>2. /\ Len(new) = Len(w.lines) + 1 /\ new # << >>
        /\ \A i \in 1..Len(w.lines) : new[i] = w.lines[i]
        /\ new[Len(w.lines) + 1] = line
    BY <1>1, <2>1, AppendProperties
  <2>3. CASE EarlierFile(wire, p, c.mark)
    <3>1. OtherHead(c.mark, new[1])
      <4>1. CASE w.lines = << >>
        BY <1>1, <1>6, <2>2, <4>1
      <4>2. CASE w.lines # << >>
        <5>1. 1 \in 1..Len(w.lines)
          BY <1>1, <4>2, EmptySeq
        <5>2. OtherHead(c.mark, w.lines[1])
          BY <2>3, <4>2 DEF EarlierFile, w
        <5> QED  BY <2>2, <5>1, <5>2
      <4> QED  BY <4>1, <4>2
    <3>2. EarlierFile(wire', p, c.mark)
      BY <1>3, <1>5, <1>6, <3>1 DEF EarlierFile
    <3> QED  BY <1>6, <3>2 DEF CursorFits
  <2>4. CASE ~EarlierFile(wire, p, c.mark)
    <3>1. /\ c.line <= Len(w.lines)
          /\ \A n \in Carrying(w.lines, 0, c.parser) :
               n <= c.line => w.lines[n].text \in held
      BY <1>6, <2>4 DEF CursorFits, w
    <3>2. ASSUME NEW n \in Carrying(new, 0, c.parser), n <= c.line
          PROVE  new[n].text \in held
      <4>1. n \in 1..Len(w.lines)
        BY <1>1, <2>2, <3>1, <3>2 DEF Carrying
      <4>2. n \in Carrying(w.lines, 0, c.parser)
        BY <1>1, <2>2, <3>2, <4>1 DEF Carrying
      <4> QED  BY <2>2, <3>1, <3>2, <4>1, <4>2
    <3>3. c.line <= Len(new)
      BY <1>1, <2>2, <3>1
    <3>4. c.mark.mtime <= w.writes + 1 /\ c.mark.mtime # w.writes + 1
      BY <1>1, <1>5, <1>6
    <3> QED  BY <1>3, <1>6, <3>2, <3>3, <3>4 DEF CursorFits
  <2> QED  BY <2>3, <2>4
<1>7. ASSUME c.path = p, NEW lines \in Replacements, ReplaceWire(p, lines),
             lines # << >> => OtherHead(c.mark, lines[1])
      PROVE  CursorFits(wire', held, c)
  <2>1. wire'[p].lines = lines
    BY <1>7 DEF ReplaceWire, WiresTyped
  <2>2. EarlierFile(wire', p, c.mark)
    BY <1>3, <1>5, <1>7, <2>1 DEF EarlierFile
  <2> QED  BY <1>7, <2>2 DEF CursorFits
<1> QED  BY <1>4, <1>6, <1>7

LEMMA InitFits ==
  ASSUME Init
  PROVE  AllFit
<1>1. DOMAIN EmptyState.cursors = {}
  BY DEF EmptyState
<1>2. ~Informed(NoJob) /\ ~Marked(NoJob) /\ NoJob.at # "store"
  BY DEF NoJob, Informed, Marked
<1> QED  BY <1>1, <1>2 DEF Init, AllFit, StateFits, PassFits

\* The steps that change nothing but the job of a process.
LEMMA JobFitsOn ==
  ASSUME AllFit, NEW p \in Processes, UNCHANGED <<wire, rows, state>>,
         \A q \in Processes : q # p => job'[q] = job[q],
         PassFits(wire, rows, job'[p])
  PROVE  AllFit'
<1>1. Kept(rows, rows') /\ rows' = rows /\ state' = state /\ UNCHANGED wire
  BY DEF Kept
<1>2. \A q \in Processes : job'[q] = job[q] \/ PassFits(wire, rows', job'[q])
  BY <1>1
<1> QED  BY <1>1, <1>2, FitStep, Zenon

LEMMA UninformedFits ==
  ASSUME NEW w, NEW r, NEW j, ~Informed(j)
  PROVE  PassFits(w, r, j)
BY DEF PassFits, Informed, Marked

LEMMA ReadStateFits ==
  ASSUME Typed, AllFit, NEW p \in Processes, ReadState(p)
  PROVE  AllFit'
<1> DEFINE j == job[p]
           h == job'[p]
<1>1. /\ j.at = "read" /\ UNCHANGED <<wire, rows, state>>
      /\ \A q \in Processes : q # p => job'[q] = job[q]
      /\ h.at \in {"turn", "look"} /\ h.task = j.task /\ h.state = state[j.task]
  BY ReadStateLeads
<1>2. StateFits(wire, rows, j.task, state[j.task])
  <2>1. JobFits(j, tasks) /\ tasks \in 0..MaxTasks
    BY DEF Typed, JobsTyped
  <2> HIDE DEF j
  <2>2. j.task \in 1..MaxTasks
    BY <1>1, <2>1, BoundsAreNaturals DEF JobFits
  <2> QED  BY <2>2, Zenon DEF AllFit
<1> SUFFICES PassFits(wire, rows, h)
  BY <1>1, JobFitsOn
<1> HIDE DEF j, h
<1> QED  BY <1>1, <1>2 DEF PassFits, Marked

\* A look at a wire resumes at a cursor only while the cursor is of that file.
LEMMA LookAtWireFits ==
  ASSUME Typed, Typed', AllFit, NEW p \in Processes, LookAtWire(p)
  PROVE  AllFit'
<1> DEFINE j == job[p]
           h == job'[p]
           cursor == CursorOf(j.state.cursors, j.path)
           mark == Marker(j.path)
           w == wire[j.path]
<1>1. /\ j.at = "look" /\ UNCHANGED <<wire, rows, state>>
      /\ \A q \in Processes : q # p => job'[q] = job[q]
      /\ LooksFrom(j, cursor, mark, h)
  BY LookAtWireLeads
<1>2. j \in Job /\ JobFits(j, tasks) /\ PassFits(wire, rows, j)
  BY DEF Typed, JobsTyped, AllFit
<1>3. j.path \in Paths
  <2> HIDE DEF j
  <2> QED  BY <1>1, <1>2 DEF JobFits, Job
<1>4. /\ w.lines \in Seq(Lines) /\ Len(w.lines) \in Nat /\ w.writes \in Nat
  <2> HIDE DEF j
  <2> QED  BY <1>3, BoundsAreNaturals, LenProperties DEF Typed, WiresTyped
<1>5. /\ mark.mtime = w.writes /\ mark.size = Len(w.lines)
      /\ mark.head = << >> <=> w.lines = << >>
      /\ w.lines # << >> => mark.head[1] = w.lines[1]
  <2> HIDE DEF j
  <2> QED  BY <1>3, MarkerIs DEF Typed
<1>6. cursor = NoCursor \/ (cursor \in Cursor /\ cursor.path = j.path
                            /\ CursorFits(wire, TextsOf(rows, j.task), cursor))
  <2>1. j.state.cursors \in Seq(Cursor) /\ StateFits(wire, rows, j.task, j.state)
    <3> HIDE DEF j
    <3> QED  BY <1>1, <1>2 DEF Job, State, PassFits, Informed
  <2>2. \A i \in DOMAIN j.state.cursors : j.state.cursors[i] \in Cursor
    <3> HIDE DEF j
    <3> QED  BY <2>1, ElementOfSeq, LenProperties
  <2> HIDE DEF j
  <2>3. \/ cursor = NoCursor
        \/ \E i \in DOMAIN j.state.cursors :
             cursor = j.state.cursors[i] /\ j.state.cursors[i].path = j.path
    BY CursorOfIs, Zenon
  <2> HIDE DEF cursor
  <2> QED  BY <2>1, <2>2, <2>3 DEF StateFits
<1> SUFFICES PassFits(wire, rows, h)
  BY <1>1, JobFitsOn
<1>7. NoCursor.line = 0
  BY DEF NoCursor
<1> HIDE DEF j, h, cursor, mark
<1>8. CASE h.at = "next"
  BY <1>8, UninformedFits DEF Informed
<1>9. CASE /\ CarriesOn(j, h) /\ h.mark = mark /\ h.at \in {"digests", "scan"}
           /\ \/ h.start = 0
              \/ ~Restarts(j, cursor, mark) /\ h.start = cursor.line
  <2> DEFINE texts == TextsOf(rows, j.task)
             start == StartCursor(h)
  <2>1. /\ start.path = j.path /\ start.line = h.start /\ start.mark = mark
        /\ start.complete = FALSE /\ start.parser = j.version
    BY <1>9 DEF StartCursor, CarriesOn
  <2>2. CursorFits(wire, texts, start)
    <3> HIDE DEF start, texts
    <3>1. CASE h.start = 0
      <4>1. \A n \in Carrying(w.lines, 0, j.version) : ~(n <= 0)
        BY <1>4 DEF Carrying
      <4> QED  BY <1>4, <1>5, <2>1, <3>1, <4>1 DEF CursorFits
    <3>2. CASE h.start # 0 /\ ~Restarts(j, cursor, mark) /\ h.start = cursor.line
      <4>1. cursor \in Cursor /\ cursor.path = j.path /\ CursorFits(wire, texts, cursor)
        BY <1>6, <1>7, <3>2 DEF texts
      <4>2. cursor.line \in Nat /\ cursor.line > 0 /\ cursor.mark \in Mark
            /\ cursor.mark.size \in Nat /\ cursor.mark.mtime \in Nat
        BY <3>2, <4>1 DEF Cursor, Mark
      <4>3. cursor.parser = j.version /\ Resumes(mark, cursor)
        BY <3>2, <4>2 DEF Restarts, OtherParser
      <4>4. ~EarlierFile(wire, j.path, cursor.mark)
        <5>1. SUFFICES ASSUME EarlierFile(wire, j.path, cursor.mark)
                       PROVE  FALSE
          OBVIOUS
        <5>2. mark.head = cursor.mark.head
              /\ (mark.size > cursor.mark.size \/ mark.mtime = cursor.mark.mtime)
          BY <4>3 DEF Resumes, SameFile
        <5>3. CASE w.lines = << >>
          <6>1. Len(w.lines) = 0
            BY <5>3
          <6> QED  BY <1>4, <1>5, <4>2, <5>1, <5>2, <6>1 DEF EarlierFile
        <5>4. CASE w.lines # << >>
          BY <1>5, <5>1, <5>2, <5>4 DEF EarlierFile, OtherHead
        <5> QED  BY <5>3, <5>4
      <4>5. /\ cursor.line <= Len(w.lines)
            /\ \A n \in Carrying(w.lines, 0, cursor.parser) :
                 n <= cursor.line => w.lines[n].text \in texts
        BY <4>1, <4>4 DEF CursorFits
      <4> QED  BY <1>4, <1>5, <2>1, <3>2, <4>3, <4>5 DEF CursorFits
    <3> QED  BY <1>9, <3>1, <3>2
  <2>3. StateFits(wire, rows, h.task, h.state) /\ h.task = j.task
    BY <1>1, <1>2, <1>9 DEF CarriesOn, PassFits, Informed
  <2> HIDE DEF start
  <2> QED  BY <1>9, <2>2, <2>3 DEF PassFits, start
<1> QED  BY <1>1, <1>8, <1>9 DEF LooksFrom

LEMMA ReadDigestsFits ==
  ASSUME Typed, AllFit, NEW p \in Processes, ReadDigests(p)
  PROVE  AllFit'
<1> DEFINE j == job[p]
           h == job'[p]
<1>1. /\ j.at = "digests" /\ UNCHANGED <<wire, rows, state>>
      /\ \A q \in Processes : q # p => job'[q] = job[q]
      /\ SamePass(j, h) /\ h.at = "scan"
  BY ReadDigestsLeads
<1>2. PassFits(wire, rows, j)
  BY DEF AllFit
<1> SUFFICES PassFits(wire, rows, h)
  BY <1>1, JobFitsOn
<1> HIDE DEF j, h
<1>3. StartCursor(h) = StartCursor(j) /\ h.task = j.task /\ h.state = j.state
  BY <1>1 DEF SamePass, CarriesOn, StartCursor
<1> QED  BY <1>1, <1>2, <1>3 DEF PassFits, Informed, Marked

\* A pass from where all before is stored finds or adds what it reads.
LEMMA ScanWireFits ==
  ASSUME Typed, AllBacked, AllFit, NEW p \in Processes, ScanWire(p)
  PROVE  AllFit'
<1> DEFINE j == job[p]
           h == job'[p]
           w == wire[j.path]
           lines == w.lines
           known == Range(j.state.hashes) \cup j.stored
<1>1. /\ j.at = "scan" /\ UNCHANGED <<wire, rows, state>>
      /\ \A q \in Processes : q # p => job'[q] = job[q]
      /\ \/ h.at = "next"
         \/ /\ SamePass(j, h) /\ h.at = "store" /\ h.to > j.start
            /\ PassFinds(lines, j, h)
  BY ScanWireLeads
<1>2. j \in Job /\ JobFits(j, tasks) /\ PassFits(wire, rows, j) /\ JobBacked(rows, j)
  BY DEF Typed, JobsTyped, AllFit, AllBacked
<1>3. j.path \in Paths
  <2> HIDE DEF j
  <2> QED  BY <1>1, <1>2 DEF JobFits, Job, Marked
<1>4. /\ lines \in Seq(Lines) /\ Len(lines) \in Nat
  <2> HIDE DEF j
  <2> QED  BY <1>3, LenProperties DEF Typed, WiresTyped
<1> SUFFICES PassFits(wire, rows, h)
  BY <1>1, JobFitsOn
<1>5. w.lines = lines
  OBVIOUS
<1> HIDE DEF j, h, lines, w
<1>6. CASE h.at = "next"
  BY <1>6, UninformedFits DEF Informed
<1>7. CASE SamePass(j, h) /\ h.at = "store" /\ h.to > j.start /\ PassFinds(lines, j, h)
  <2> DEFINE texts == TextsOf(rows, j.task)
             more == TextsToBe(rows, h)
             start == StartCursor(j)
             end == PassCursor(h)
  <2>1. /\ start.path = j.path /\ start.line = j.start /\ start.mark = j.mark
        /\ start.complete = FALSE /\ start.parser = j.version
    BY DEF StartCursor
  <2>2. /\ end.path = j.path /\ end.line = h.to /\ end.mark = j.mark
        /\ end.complete = (~h.early) /\ end.parser = j.version
    BY <1>7 DEF PassCursor, SamePass, CarriesOn
  <2>3. StartCursor(h) = start /\ h.task = j.task /\ h.state = j.state
    BY <1>7 DEF SamePass, CarriesOn, StartCursor
  <2>4. CursorFits(wire, texts, start) /\ StateFits(wire, rows, j.task, j.state)
    BY <1>1, <1>2 DEF PassFits, Informed, Marked
  <2>5. texts \subseteq more /\ \A c \in Range(h.entries) : Range(c) \subseteq more
    BY <2>3 DEF TextsToBe
  <2>6. \A c \in known : Range(c) \subseteq texts
    <3>1. \A c \in known : StoredIn(rows, j.task, c)
      BY <1>1, <1>2, Zenon DEF JobBacked, Informed, Backed
    <3> HIDE DEF known
    <3>2. \A c : StoredIn(rows, j.task, c) => Range(c) \subseteq texts
      BY Zenon DEF StoredIn, TextsOf
    <3> QED  BY <3>1, <3>2
  <2> HIDE DEF start, end, texts, more, known
  <2>7. CursorFits(wire, more, end)
    <3>1. CASE EarlierFile(wire, j.path, j.mark)
      BY <2>2, <3>1 DEF CursorFits
    <3>2. CASE ~EarlierFile(wire, j.path, j.mark)
      <4>1. /\ j.mark.mtime <= w.writes /\ j.start <= Len(lines)
            /\ \A n \in Carrying(lines, 0, j.version) :
                 n <= j.start => lines[n].text \in texts
        BY <1>5, <2>1, <2>4, <3>2 DEF CursorFits, w
      <4>2. h.to \in Nat /\ j.start \in Nat /\ h.to <= Len(lines)
        BY <1>2, <1>4, <1>7, <4>1 DEF PassFinds, Job
      <4>3. ASSUME NEW n \in Carrying(lines, 0, j.version), n <= h.to \/ ~h.early
            PROVE  lines[n].text \in more
        <5>1. n \in Nat /\ n \in 1..Len(lines)
          BY <1>4, <4>3 DEF Carrying
        <5>2. CASE n <= j.start
          BY <2>5, <4>1, <4>3, <5>2
        <5>3. CASE ~(n <= j.start)
          <6>1. n \in Carrying(lines, j.start, j.version)
            BY <1>4, <4>2, <4>3, <5>1, <5>3 DEF Carrying
          <6>2. PICK c \in known \cup Range(h.entries) : lines[n].text \in Range(c)
            BY <1>7, <4>3, <6>1, Zenon DEF PassFinds, known
          <6> QED  BY <2>5, <2>6, <6>2
        <5> QED  BY <5>2, <5>3
      <4>4. wire[j.path] = w
        BY DEF w
      <4> QED  BY <1>5, <2>2, <4>1, <4>2, <4>3, <4>4 DEF CursorFits
    <3> QED  BY <3>1, <3>2
  <2>8. CursorFits(wire, TextsOf(rows, h.task), StartCursor(h))
        /\ StateFits(wire, rows, h.task, h.state)
    BY <2>3, <2>4 DEF texts
  <2> QED  BY <1>7, <2>7, <2>8 DEF PassFits, end, more
<1> QED  BY <1>1, <1>6, <1>7

LEMMA StoreTurnFits ==
  ASSUME Typed, AllFit, NEW p \in Processes, StoreTurn(p)
  PROVE  AllFit'
<1> DEFINE j == job[p]
           s == j.state
<1>1. /\ j.at = "turn" /\ TurnIsNew(j) /\ j.task \in 1..MaxTasks
      /\ UNCHANGED wire /\ Kept(rows, rows') /\ job'[p].at = "next"
      /\ \A q \in Processes : q # p => job'[q] = job[q]
      /\ \A t \in 1..MaxTasks : t # j.task => state'[t] = state[t]
      /\ state'[j.task] = TurnState(j)
  BY StoreTurnLeads
<1>2. j \in Job /\ JobFits(j, tasks) /\ PassFits(wire, rows, j)
  BY DEF Typed, JobsTyped, AllFit
<1> HIDE DEF j
<1>3. StateFits(wire, rows', j.task, TurnState(j))
  <2>1. s.cursors \in Seq(Cursor) /\ TurnState(j).cursors = LastN(s.cursors, CursorCap)
    BY <1>1, <1>2, TurnStateIsTyped DEF Job, State
  <2>2. StateFits(wire, rows', j.task, s)
    <3>1. StateFits(wire, rows, j.task, s)
      BY <1>1, <1>2 DEF PassFits, Informed
    <3> HIDE DEF s
    <3> QED  BY <1>1, <3>1, FitsMore, Zenon
  <2> HIDE DEF s
  <2>3. Range(LastN(s.cursors, CursorCap)) \subseteq Range(s.cursors)
    BY <2>1, BoundsAreNaturals, WindowOfList
  <2>4. \A c \in Range(s.cursors) : CursorFits(wire, TextsOf(rows', j.task), c)
    BY <2>2 DEF StateFits, Range
  <2> QED  BY <2>1, <2>3, <2>4, Zenon DEF StateFits, Range
<1>4. \A t \in 1..MaxTasks :
        state'[t] = state[t] \/ StateFits(wire, rows', t, state'[t])
  BY <1>1, <1>3
<1>5. \A q \in Processes : job'[q] = job[q] \/ PassFits(wire, rows', job'[q])
  <2>1. PassFits(wire, rows', job'[p])
    BY <1>1, UninformedFits DEF Informed
  <2> QED  BY <1>1, <2>1
<1> QED  BY <1>1, <1>4, <1>5, FitStep, Zenon

\* The cursor of a pass is recorded together with its entries.
LEMMA StorePassFits ==
  ASSUME Typed, AllFit, NEW p \in Processes, StorePass(p)
  PROVE  AllFit'
<1> DEFINE j == job[p]
           s == j.state
           put == PutCursor(s.cursors, PassCursor(j))
<1>1. /\ j.at = "store" /\ j.task \in 1..MaxTasks
      /\ UNCHANGED wire /\ Kept(rows, rows') /\ job'[p].at = "next"
      /\ \A q \in Processes : q # p => job'[q] = job[q]
      /\ \A t \in 1..MaxTasks : t # j.task => state'[t] = state[t]
      /\ state'[j.task] \in {state[j.task], PassState(j)}
      /\ \A content \in Range(j.entries) : StoredIn(rows', j.task, content)
  BY StorePassLeads
<1>2. j \in Job /\ JobFits(j, tasks) /\ PassFits(wire, rows, j)
  BY DEF Typed, JobsTyped, AllFit
<1> HIDE DEF j
<1>3. StateFits(wire, rows', j.task, PassState(j))
  <2>1. /\ s.cursors \in Seq(Cursor) /\ PassCursor(j) \in Cursor
        /\ PassState(j).cursors = LastN(put, CursorCap)
    BY <1>1, <1>2, PassStateIsTyped DEF Job, State
  <2>2. StateFits(wire, rows', j.task, s)
    <3>1. StateFits(wire, rows, j.task, s)
      BY <1>1, <1>2 DEF PassFits, Informed
    <3> HIDE DEF s
    <3> QED  BY <1>1, <3>1, FitsMore, Zenon
  <2>3. CursorFits(wire, TextsOf(rows', j.task), PassCursor(j))
    <3>1. CursorFits(wire, TextsToBe(rows, j), PassCursor(j))
      BY <1>1, <1>2 DEF PassFits
    <3>2. TextsToBe(rows, j) \subseteq TextsOf(rows', j.task)
      <4>1. TextsOf(rows, j.task) \subseteq TextsOf(rows', j.task)
        BY <1>1, KeptTexts, Zenon
      <4>2. \A c : StoredIn(rows', j.task, c) => Range(c) \subseteq TextsOf(rows', j.task)
        BY Zenon DEF StoredIn, TextsOf
      <4> QED  BY <1>1, <4>1, <4>2 DEF TextsToBe
    <3> QED  BY <3>1, <3>2, CursorFitsMore, Zenon
  <2> HIDE DEF s
  <2>4. put \in Seq(Cursor) /\ Range(put) \subseteq Range(s.cursors) \cup {PassCursor(j)}
    BY <2>1, PutCursorPuts, Zenon
  <2> HIDE DEF put
  <2>5. Range(LastN(put, CursorCap)) \subseteq Range(put)
    BY <2>4, BoundsAreNaturals, WindowOfList
  <2>6. \A c \in Range(s.cursors) : CursorFits(wire, TextsOf(rows', j.task), c)
    BY <2>2 DEF StateFits, Range
  <2>7. \A c \in Range(LastN(put, CursorCap)) : CursorFits(wire, TextsOf(rows', j.task), c)
    BY <2>3, <2>4, <2>5, <2>6
  <2> QED  BY <2>1, <2>7, Zenon DEF StateFits, Range
<1>4. \A t \in 1..MaxTasks :
        state'[t] = state[t] \/ StateFits(wire, rows', t, state'[t])
  <2>1. state'[j.task] = state[j.task] \/ StateFits(wire, rows', j.task, state'[j.task])
    BY <1>1, <1>3
  <2> QED  BY <1>1, <2>1
<1>5. \A q \in Processes : job'[q] = job[q] \/ PassFits(wire, rows', job'[q])
  <2>1. PassFits(wire, rows', job'[p])
    BY <1>1, UninformedFits DEF Informed
  <2> QED  BY <1>1, <2>1
<1> QED  BY <1>1, <1>4, <1>5, FitStep, Zenon

\* A write to a wire: each cursor of it is of the file it goes on, or of an
\* earlier one that another has now taken the place of.
LEMMA WorldFits ==
  ASSUME Typed, AllFit, World, NewFilesDiffer
  PROVE  AllFit'
<1>1. UNCHANGED <<rows, state, job>>
  BY WorldLeads
<1>2. CASE UNCHANGED wire
  BY <1>1, <1>2 DEF AllFit
<1>3. ASSUME NEW p \in Paths,
             \/ \E line \in Lines : AppendLine(p, line)
             \/ \E lines \in Replacements : ReplaceWire(p, lines)
      PROVE  AllFit'
  <2> DEFINE Stays(c) ==
        \/ \E line \in Lines :
             /\ AppendLine(p, line)
             /\ wire[p].lines = << >> /\ c.path = p => OtherHead(c.mark, line)
        \/ \E lines \in Replacements :
             /\ ReplaceWire(p, lines)
             /\ lines # << >> /\ c.path = p => OtherHead(c.mark, lines[1])
  <2>1. /\ \A t \in 1..MaxTasks : \A i \in DOMAIN state[t].cursors :
             Stays(state[t].cursors[i])
        /\ \A q \in Processes : \A i \in DOMAIN job[q].state.cursors :
             Stays(job[q].state.cursors[i])
        /\ \A q \in Processes : Marked(job[q]) =>
             Stays(StartCursor(job[q])) /\ Stays(PassCursor(job[q]))
    <3>1. \A j : /\ StartCursor(j).path = j.path /\ StartCursor(j).mark = j.mark
                 /\ PassCursor(j).path = j.path /\ PassCursor(j).mark = j.mark
      BY DEF StartCursor, PassCursor
    <3>2. ASSUME NEW line \in Lines, AppendLine(p, line)
          PROVE  wire[p].lines = << >> => BeginsAnew(p, line)
      BY <3>2, Zenon DEF NewFilesDiffer
    <3>3. ASSUME NEW lines \in Replacements, ReplaceWire(p, lines)
          PROVE  lines # << >> => BeginsAnew(p, lines[1])
      BY <3>3, Zenon DEF NewFilesDiffer
    <3>4. CASE \E line \in Lines : AppendLine(p, line)
      BY <3>1, <3>2, <3>4, Zenon DEF BeginsAnew
    <3>5. CASE \E lines \in Replacements : ReplaceWire(p, lines)
      <4>1. PICK lines \in Replacements : ReplaceWire(p, lines)
        BY <3>5
      <4>2. \A c : (lines # << >> /\ c.path = p => OtherHead(c.mark, lines[1])) => Stays(c)
        BY <4>1, Zenon
      <4>3. lines # << >> => BeginsAnew(p, lines[1])
        BY <3>3, <4>1
      <4> HIDE DEF Stays
      <4>4. ASSUME NEW t \in 1..MaxTasks, NEW i \in DOMAIN state[t].cursors
            PROVE  Stays(state[t].cursors[i])
        BY <4>2, <4>3, Zenon DEF BeginsAnew
      <4>5. ASSUME NEW q \in Processes, NEW i \in DOMAIN job[q].state.cursors
            PROVE  Stays(job[q].state.cursors[i])
        BY <4>2, <4>3, Zenon DEF BeginsAnew
      <4>6. ASSUME NEW q \in Processes, Marked(job[q])
            PROVE  Stays(StartCursor(job[q])) /\ Stays(PassCursor(job[q]))
        <5>1. lines # << >> /\ job[q].path = p => OtherHead(job[q].mark, lines[1])
          BY <4>3, <4>6, Zenon DEF BeginsAnew
        <5>2. ASSUME NEW c, c.path = job[q].path, c.mark = job[q].mark
              PROVE  Stays(c)
          BY <4>2, <5>1, <5>2, Zenon
        <5> QED  BY <3>1, <5>2, Zenon
      <4> QED  BY <4>4, <4>5, <4>6
    <3> QED  BY <1>3, <3>4, <3>5
  <2>2. ASSUME NEW c \in Cursor, NEW held, CursorFits(wire, held, c), Stays(c)
        PROVE  CursorFits(wire', held, c)
    <3>1. c.path \in Paths /\ c.mark \in Mark /\ c.line \in Nat
      BY DEF Cursor
    <3> QED  BY <2>2, <3>1, CursorStays, Zenon DEF Typed
  <2> HIDE DEF Stays
  <2>3. ASSUME NEW t, NEW s, s.cursors \in Seq(Cursor), StateFits(wire, rows, t, s),
               \A i \in DOMAIN s.cursors : Stays(s.cursors[i])
        PROVE  StateFits(wire', rows, t, s)
    <3>1. \A i \in DOMAIN s.cursors : s.cursors[i] \in Cursor
      BY <2>3, ElementOfSeq, LenProperties
    <3> QED  BY <2>2, <2>3, <3>1, Zenon DEF StateFits
  <2>4. ASSUME NEW t \in 1..MaxTasks
        PROVE  StateFits(wire', rows, t, state[t])
    <3>1. state[t].cursors \in Seq(Cursor) /\ StateFits(wire, rows, t, state[t])
      BY DEF Typed, StateTyped, State, AllFit
    <3> QED  BY <2>1, <2>3, <3>1, Zenon
  <2>5. ASSUME NEW q \in Processes
        PROVE  PassFits(wire', rows, job[q])
    <3> DEFINE j == job[q]
    <3> SUFFICES PassFits(wire', rows, j)
      OBVIOUS
    <3>1. j \in Job /\ JobFits(j, tasks) /\ PassFits(wire, rows, j)
      BY DEF Typed, JobsTyped, AllFit
    <3>2. /\ \A i \in DOMAIN j.state.cursors : Stays(j.state.cursors[i])
          /\ Marked(j) => Stays(StartCursor(j)) /\ Stays(PassCursor(j))
      BY <2>1
    <3> HIDE DEF j
    <3>3. j.state.cursors \in Seq(Cursor)
      BY <3>1 DEF Job, State
    <3>4. Informed(j) => StateFits(wire', rows, j.task, j.state)
      BY <2>3, <3>1, <3>2, <3>3, Zenon DEF PassFits
    <3>5. Marked(j) => StartCursor(j) \in Cursor /\ PassCursor(j) \in Cursor
      <4>1. SUFFICES ASSUME Marked(j)
                     PROVE  StartCursor(j) \in Cursor /\ PassCursor(j) \in Cursor
        OBVIOUS
      <4>2. /\ j.path \in Paths /\ j.to \in Nat /\ j.start \in Nat /\ j.mark \in Mark
            /\ (~j.early) \in BOOLEAN /\ FALSE \in BOOLEAN /\ j.version \in Versions
        BY <3>1, <4>1 DEF Job, JobFits, Marked
      <4> QED  BY <4>2 DEF StartCursor, PassCursor, Cursor
    <3>6. Marked(j) => CursorFits(wire', TextsOf(rows, j.task), StartCursor(j))
      BY <2>2, <3>1, <3>2, <3>5, Zenon DEF PassFits
    <3>7. j.at = "store" => CursorFits(wire', TextsToBe(rows, j), PassCursor(j))
      <4>1. j.at = "store" => Marked(j)
        BY DEF Marked
      <4> QED  BY <2>2, <3>1, <3>2, <3>5, <4>1, Zenon DEF PassFits
    <3> QED  BY <3>4, <3>6, <3>7 DEF PassFits
  <2>6. /\ \A t \in 1..MaxTasks : StateFits(wire', rows', t, state'[t])
        /\ \A q \in Processes : PassFits(wire', rows', job'[q])
    BY <1>1, <2>4, <2>5
  <2> QED  BY <2>6, Zenon DEF AllFit
<1>4. UNCHANGED wire \/ \E p \in Paths :
        \/ \E line \in Lines : AppendLine(p, line)
        \/ \E lines \in Replacements : ReplaceWire(p, lines)
  BY DEF World, Upgrade
<1> QED  BY <1>2, <1>3, <1>4

LEMMA NextFits ==
  ASSUME Typed, Typed', AllBacked, AllFit, [Next]_vars, [NewFilesDiffer]_vars
  PROVE  AllFit'
<1>1. CASE UNCHANGED vars
  <2>1. UNCHANGED <<wire, rows, state, job>>
    BY <1>1 DEF vars
  <2> QED  BY <2>1 DEF AllFit
<1>2. ASSUME NEW p \in Processes, Quiet(p)
      PROVE  AllFit'
  <2>1. /\ UNCHANGED <<wire, rows, state>> /\ ~Informed(job'[p])
        /\ \A q \in Processes : q # p => job'[q] = job[q]
    BY <1>2, QuietLeads
  <2>2. PassFits(wire, rows, job'[p])
    BY <2>1, UninformedFits
  <2> QED  BY <2>1, <2>2, JobFitsOn
<1>3. CASE Next /\ ~UNCHANGED vars
  BY <1>2, <1>3, StepsAre, ReadStateFits, LookAtWireFits, ReadDigestsFits,
     ScanWireFits, StoreTurnFits, StorePassFits, WorldFits, Zenon
<1> QED  BY <1>1, <1>3

LEMMA FitIsNothingSkipped ==
  ASSUME Typed, AllFit
  PROVE  NothingSkipped
<1> SUFFICES ASSUME NEW t \in 1..MaxTasks, NEW i \in DOMAIN state[t].cursors,
                    NEW cursor, cursor = state[t].cursors[i],
                    Resumes(Marker(cursor.path), cursor),
                    NEW n \in Carrying(wire[cursor.path].lines, 0, cursor.parser),
                    n <= cursor.line \/
                      (cursor.complete /\ SameFile(Marker(cursor.path), cursor.mark))
             PROVE  Holds(t, wire[cursor.path].lines[n].text)
  BY Zenon DEF NothingSkipped
<1> DEFINE w == wire[cursor.path]
           mark == Marker(cursor.path)
<1>1. cursor \in Cursor /\ CursorFits(wire, TextsOf(rows, t), cursor)
  <2>1. state[t].cursors \in Seq(Cursor) /\ StateFits(wire, rows, t, state[t])
    BY DEF Typed, StateTyped, State, AllFit
  <2> QED  BY <2>1, ElementOfSeq, LenProperties DEF StateFits
<1>2. cursor.path \in Paths
  BY <1>1 DEF Cursor
<1>3. /\ mark.mtime = w.writes
      /\ mark.head = << >> <=> w.lines = << >>
      /\ w.lines # << >> => mark.head[1] = w.lines[1]
  BY <1>2, MarkerIs DEF Typed
<1>4. w.lines # << >>
  <2>1. n \in 1..Len(w.lines)
    <3>1. Len(w.lines) \in Nat
      BY <1>2, LenProperties DEF Typed, WiresTyped
    <3> QED  BY <3>1 DEF Carrying
  <2> QED  BY <2>1
<1>5. ~EarlierFile(wire, cursor.path, cursor.mark)
  BY <1>3, <1>4 DEF EarlierFile, OtherHead, Resumes
<1>6. n <= cursor.line \/ (cursor.complete /\ cursor.mark.mtime = w.writes)
  BY <1>3 DEF SameFile
<1>7. w.lines[n].text \in TextsOf(rows, t)
  <2> DEFINE texts == TextsOf(rows, t)
  <2>1. CursorFits(wire, texts, cursor)
    BY <1>1
  <2> HIDE DEF texts
  <2>2. \A m \in Carrying(w.lines, 0, cursor.parser) :
          m <= cursor.line \/ (cursor.complete /\ cursor.mark.mtime = w.writes)
          => w.lines[m].text \in texts
    BY <1>5, <2>1, Zenon DEF CursorFits
  <2>3. w.lines[n].text \in texts
    <3> HIDE DEF w
    <3>1. n \in Carrying(w.lines, 0, cursor.parser)
      BY DEF w
    <3> QED  BY <1>6, <2>2, <3>1, Zenon
  <2> QED  BY <2>3 DEF texts
<1>8. HeldIn(rows, t, w.lines[n].text)
  BY <1>7, TextsAreHeld, Zenon
<1> QED  BY <1>8 DEF HeldIn, Holds

\* As long as no file takes the place of another and begins with the same line,
\* what a cursor lets a pass skip is stored: for any number of processes that
\* write their cursors over each other, for appends during a pass, caps,
\* deadlines, kills and upgrades of the parser.
THEOREM NothingIsSkipped ==
  Spec /\ [][NewFilesDiffer]_vars => []NothingSkipped
<1>1. Init => AllFit
  BY InitFits
<1>2. Typed /\ AllBacked /\ Typed' /\ AllFit /\ [Next]_vars /\ [NewFilesDiffer]_vars
      => AllFit'
  BY NextFits
<1>3. Typed /\ AllFit => NothingSkipped
  BY FitIsNothingSkipped
<1> QED  BY <1>1, <1>2, <1>3, AlwaysBacked, PTL DEF Spec

-----------------------------------------------------------------------------
(* One process at a time.                                                  *)

\* A re-scan knows the contents that its path has stored, and what it is about
\* to add is not among those.
RescanKnows(r, j) ==
  /\ j.at \in {"scan", "store"} /\ j.rescan =>
       \A i \in DOMAIN r :
         r[i].task = j.task /\ r[i].kind = "wire" /\ r[i].from = j.path
         => r[i].content \in j.stored
  /\ j.at = "store" => Range(j.entries) \cap j.stored = {}
RescansKnow == \A p \in Processes : RescanKnows(rows, job[p])

LEMMA NextRescanKnows ==
  ASSUME \A p, q \in Processes : p = q, Typed, RescansKnow, [Next]_vars
  PROVE  RescansKnow'
<1>1. ASSUME NEW p \in Processes, RescanKnows(rows', job'[p])
      PROVE  RescansKnow'
  BY <1>1, Zenon DEF RescansKnow
<1>2. ASSUME NEW r, NEW h, h.at \notin {"scan", "store"}
      PROVE  RescanKnows(r, h)
  BY <1>2 DEF RescanKnows
<1>3. ASSUME NEW p \in Processes, Quiet(p) \/ ReadState(p) \/ StoreTurn(p) \/ StorePass(p)
      PROVE  RescansKnow'
  <2>1. job'[p].at \notin {"scan", "store"}
    BY <1>3, QuietLeads, ReadStateLeads, StoreTurnLeads, StorePassLeads DEF Informed
  <2> QED  BY <1>1, <1>2, <2>1
<1>4. ASSUME NEW p \in Processes, LookAtWire(p)
      PROVE  RescansKnow'
  <2> DEFINE h == job'[p]
  <2>1. h.at = "next" \/ h.at = "digests" \/ (h.at = "scan" /\ ~h.rescan)
    BY <1>4, LookAtWireLeads DEF LooksFrom
  <2> HIDE DEF h
  <2>2. RescanKnows(rows', h)
    BY <2>1 DEF RescanKnows
  <2> QED  BY <1>1, <2>2 DEF h
<1>5. ASSUME NEW p \in Processes, ReadDigests(p)
      PROVE  RescansKnow'
  <2> DEFINE j == job[p]
             h == job'[p]
  <2>1. /\ UNCHANGED rows /\ SamePass(j, h) /\ h.at = "scan" /\ h.stored = WireDigests(j)
    BY <1>5, ReadDigestsLeads
  <2> HIDE DEF j, h
  <2>2. h.task = j.task /\ h.path = j.path
    BY <2>1 DEF SamePass, CarriesOn
  <2>3. RescanKnows(rows, h)
    BY <2>1, <2>2 DEF RescanKnows, WireDigests, WireRows
  <2> QED  BY <1>1, <2>1, <2>3 DEF h
<1>6. ASSUME NEW p \in Processes, ScanWire(p)
      PROVE  RescansKnow'
  <2> DEFINE j == job[p]
             h == job'[p]
             lines == wire[j.path].lines
  <2>1. /\ UNCHANGED rows /\ j.at = "scan"
        /\ \/ h.at = "next"
           \/ /\ SamePass(j, h) /\ h.at = "store" /\ h.stored = j.stored
              /\ PassFinds(lines, j, h)
    BY <1>6, ScanWireLeads
  <2>2. RescanKnows(rows, j)
    BY DEF RescansKnow
  <2> HIDE DEF j, h, lines
  <2>3. RescanKnows(rows, h)
    <3>1. CASE h.at = "next"
      BY <3>1 DEF RescanKnows
    <3>2. CASE /\ SamePass(j, h) /\ h.at = "store" /\ h.stored = j.stored
               /\ PassFinds(lines, j, h)
      <4>1. h.task = j.task /\ h.path = j.path /\ h.rescan = j.rescan
        BY <3>2 DEF SamePass, CarriesOn
      <4>2. Range(h.entries) \cap (Range(j.state.hashes) \cup j.stored) = {}
        BY <3>2, Zenon DEF PassFinds
      <4>3. Range(h.entries) \cap h.stored = {}
        BY <3>2, <4>2
      <4> QED  BY <2>1, <2>2, <3>2, <4>1, <4>3 DEF RescanKnows
    <3> QED  BY <2>1, <3>1, <3>2
  <2> QED  BY <1>1, <2>1, <2>3 DEF h
<1>7. CASE World \/ UNCHANGED vars
  <2>1. UNCHANGED <<rows, job>>
    BY <1>7, WorldLeads
  <2> QED  BY <2>1 DEF RescansKnow
<1> QED  BY <1>3, <1>4, <1>5, <1>6, <1>7, StepsAre, Zenon

\* With one process, a scan that restarts at line 0 adds nothing that its path
\* has stored, though the window of digests may remember none of it. Two
\* processes can store the same file twice (StoredOncePerPath).
THEOREM RescanIsFree ==
  ASSUME \A p, q \in Processes : p = q
  PROVE  Spec => []RescanAddsOnlyNew
<1>1. Init => RescansKnow
  BY DEF Init, NoJob, RescansKnow, RescanKnows
<1>2. Typed /\ RescansKnow /\ [Next]_vars => RescansKnow'
  BY NextRescanKnows
<1>3. RescansKnow => RescanAddsOnlyNew
  <2>1. SUFFICES ASSUME RescansKnow, NEW p \in Processes, At(p, "store"), job[p].rescan,
                        NEW i \in DOMAIN rows, rows[i].kind = "wire",
                        rows[i].task = job[p].task, rows[i].from = job[p].path
                 PROVE  rows[i].content \notin Range(job[p].entries)
    BY Zenon DEF RescanAddsOnlyNew
  <2>2. RescanKnows(rows, job[p])
    BY <2>1, Zenon DEF RescansKnow
  <2> QED  BY <2>1, <2>2 DEF RescanKnows, At
<1> QED  BY <1>1, <1>2, <1>3, AutosaveTyped, PTL DEF Spec

\* What the only process knows: its state is that of the task as it is, and the
\* task has seen each turn it has saved, once, and has forgotten none.
TurnsSeen(s) ==
  /\ IsInjective(s.seen)
  /\ \A i \in DOMAIN s.seen : s.seen[i][2] # NoTurn
SeenRows(r, st) ==
  \A i \in DOMAIN r : r[i].kind = "prompt" => r[i].from \in Range(st[r[i].task].seen)
OnlyJob(j, n, st) ==
  /\ j.at = "create" => n = 0
  /\ Informed(j) => j.state = st[j.task]
TurnsKnown ==
  /\ tasks <= 1
  /\ \A p \in Processes : OnlyJob(job[p], tasks, state)
  /\ \A t \in 1..MaxTasks : TurnsSeen(state[t])
  /\ SeenRows(rows, state)
  /\ TurnSavedOnce

\* A list without repetitions is no longer than the set of what may be in it.
LEMMA InjectiveIsShort ==
  ASSUME NEW S, IsFiniteSet(S), NEW s \in Seq(S), IsInjective(s)
  PROVE  Len(s) <= Cardinality(S)
<1> DEFINE n == Len(s)
<1>1. n \in Nat /\ DOMAIN s = 1..n /\ s \in [1..n -> S]
  BY LenProperties, SeqDef
<1>2. s \in Injection(1..n, S)
  BY <1>1, Zenon DEF Injection, IsInjective
<1>3. Cardinality(1..n) = n
  <2>1. 1 \in Int /\ n \in Int
    BY <1>1
  <2>2. Cardinality(1..n) = IF 1 > n THEN 0 ELSE n - 1 + 1
    BY <2>1, FS_Interval, Zenon
  <2> HIDE DEF n
  <2> QED  BY <1>1, <2>2
<1>4. Cardinality(1..n) <= Cardinality(S)
  BY <1>2, FS_Injection, Zenon
<1> QED  BY <1>3, <1>4

\* So the window of seen turns that has room for all turns drops none.
LEMMA SeenKeepsAll ==
  ASSUME IsFiniteSet(Sessions \X Turns), Cardinality(Sessions \X Turns) <= SeenCap,
         NEW seen \in Seq(Keys), IsInjective(seen),
         \A i \in DOMAIN seen : seen[i][2] # NoTurn
  PROVE  LastN(seen, SeenCap) = seen
<1> DEFINE Turned == Sessions \X Turns
<1>1. DOMAIN seen = 1..Len(seen) /\ Len(seen) \in Nat
      /\ \A i \in DOMAIN seen : seen[i] \in Keys
  BY LenProperties, ElementOfSeq
<1>2. \A i \in DOMAIN seen : seen[i] \in Turned
  BY <1>1 DEF Keys
<1>3. seen \in Seq(Turned)
  <2>1. seen \in [1..Len(seen) -> Turned]
    <3>1. seen = [i \in 1..Len(seen) |-> seen[i]]
      BY <1>1
    <3> HIDE DEF Turned
    <3> QED  BY <1>1, <1>2, <3>1
  <2> HIDE DEF Turned
  <2> QED  BY <1>1, <2>1, ListsAreSequences, Zenon
<1>4. Len(seen) <= Cardinality(Turned) /\ Cardinality(Turned) \in Nat
  <2> HIDE DEF Turned
  <2>1. IsFiniteSet(Turned)
    BY DEF Turned
  <2> QED  BY <1>3, <2>1, InjectiveIsShort, FS_CardinalityType, Zenon
<1>5. Len(seen) <= SeenCap /\ SeenCap \in Nat \ {0}
  BY <1>1, <1>4, BoundsAreNaturals
<1> QED  BY <1>5, WindowOfList

\* The steps of the only process that change nothing but its job, and the tasks.
LEMMA JobKnowsTurns ==
  ASSUME \A p, q \in Processes : p = q, Typed, TurnsKnown,
         NEW p \in Processes,
         Quiet(p) \/ ReadState(p) \/ LookAtWire(p) \/ ReadDigests(p) \/ ScanWire(p)
  PROVE  TurnsKnown'
<1> DEFINE j == job[p]
           h == job'[p]
<1>1. OnlyJob(j, tasks, state) /\ tasks \in Nat /\ tasks <= 1
  BY DEF TurnsKnown, Typed
<1>2. UNCHANGED <<rows, state>>
  BY QuietLeads, ReadStateLeads, LookAtWireLeads, ReadDigestsLeads, ScanWireLeads
<1>3. tasks' <= 1 /\ OnlyJob(h, tasks', state)
  <2>1. CASE Quiet(p)
    <3>1. /\ ~Informed(h)
          /\ \/ tasks' = tasks /\ (h.at = "create" => tasks = 0)
             \/ j.at = "create" /\ tasks' = tasks + 1 /\ h.at = "read"
      BY <2>1, QuietLeads
    <3> HIDE DEF j, h
    <3> QED  BY <1>1, <3>1 DEF OnlyJob
  <2>2. CASE ReadState(p)
    <3>1. /\ tasks' = tasks /\ h.at \in {"turn", "look"}
          /\ h.task = j.task /\ h.state = state[j.task]
      BY <2>2, ReadStateLeads
    <3> HIDE DEF j, h
    <3> QED  BY <1>1, <3>1 DEF OnlyJob
  <2>3. CASE LookAtWire(p) \/ ReadDigests(p) \/ ScanWire(p)
    <3>1. /\ tasks' = tasks /\ Informed(j)
          /\ h.at = "next" \/ (CarriesOn(j, h) /\ h.at \in {"digests", "scan", "store"})
      <4>1. CASE LookAtWire(p)
        BY <4>1, LookAtWireLeads DEF LooksFrom, Informed
      <4>2. CASE ReadDigests(p)
        BY <4>2, ReadDigestsLeads DEF SamePass, Informed
      <4>3. CASE ScanWire(p)
        BY <4>3, ScanWireLeads DEF SamePass, Informed
      <4> QED  BY <2>3, <4>1, <4>2, <4>3
    <3> HIDE DEF j, h
    <3> QED  BY <1>1, <3>1 DEF OnlyJob, CarriesOn, Informed
  <2> QED  BY <2>1, <2>2, <2>3
<1>4. \A q \in Processes : OnlyJob(job'[q], tasks', state')
  BY <1>2, <1>3
<1>5. TurnSavedOnce' /\ SeenRows(rows', state') /\ \A t \in 1..MaxTasks : TurnsSeen(state'[t])
  BY <1>2 DEF TurnsKnown, TurnSavedOnce
<1> QED  BY <1>3, <1>4, <1>5 DEF TurnsKnown

\* A turn that is stored was not seen before, so no message is of it.
LEMMA StoreTurnKnows ==
  ASSUME IsFiniteSet(Sessions \X Turns), Cardinality(Sessions \X Turns) <= SeenCap,
         \A p, q \in Processes : p = q, Typed, TurnsKnown,
         NEW p \in Processes, StoreTurn(p)
  PROVE  TurnsKnown'
<1> DEFINE j == job[p]
           t == j.task
           seen == state[t].seen
           more == Append(seen, j.key)
           last == Len(rows) + 1
<1>1. /\ j.at = "turn" /\ t \in 1..tasks /\ t \in 1..MaxTasks
      /\ j.key \in Keys /\ TurnIsNew(j) /\ UNCHANGED tasks /\ Kept(rows, rows')
      /\ job'[p].at = "next"
      /\ \A u \in 1..MaxTasks : u # t => state'[u] = state[u]
      /\ state'[t] = TurnState(j)
      /\ DOMAIN rows' = DOMAIN rows \cup {last} /\ last \notin DOMAIN rows
      /\ rows'[last].task = t /\ rows'[last].kind = "prompt" /\ rows'[last].from = j.key
  BY StoreTurnLeads
<1>2. /\ j \in Job /\ JobFits(j, tasks) /\ OnlyJob(j, tasks, state)
      /\ tasks \in Nat /\ tasks <= 1
  BY DEF Typed, JobsTyped, TurnsKnown
<1>3. seen \in Seq(Keys) /\ TurnsSeen(state[t])
  <2> HIDE DEF t
  <2> QED  BY <1>1 DEF Typed, StateTyped, State, TurnsKnown
<1> HIDE DEF j
<1>4. j.state = state[t]
  BY <1>1, <1>2 DEF OnlyJob, Informed
<1>5. j.key \notin Range(seen) /\ j.key[2] # NoTurn
  BY <1>1, <1>4 DEF TurnIsNew, Seen
<1> HIDE DEF t, seen, last
<1>6. more \in Seq(Keys) /\ IsInjective(more) /\ \A i \in DOMAIN more : more[i][2] # NoTurn
  <2>1. /\ more \in Seq(Keys) /\ DOMAIN more = 1..Len(seen) + 1
        /\ \A i \in 1..Len(seen) : more[i] = seen[i]
        /\ more[Len(seen) + 1] = j.key
        /\ Len(seen) \in Nat /\ DOMAIN seen = 1..Len(seen)
    BY <1>1, <1>3, AppendProperties, LenProperties
  <2>2. /\ \A i, k \in DOMAIN seen : seen[i] = seen[k] => i = k
        /\ \A i \in DOMAIN seen : seen[i][2] # NoTurn
    BY <1>3, Zenon DEF TurnsSeen, IsInjective, seen
  <2>3. \A i \in DOMAIN seen : seen[i] # j.key
    BY <1>5, Zenon DEF Range
  <2> HIDE DEF more
  <2>4. \A i, k \in DOMAIN more : more[i] = more[k] => i = k
    BY <2>1, <2>2, <2>3
  <2>5. \A i \in DOMAIN more : more[i][2] # NoTurn
    BY <1>5, <2>1, <2>2
  <2> QED  BY <2>1, <2>4, <2>5, Zenon DEF IsInjective
<1>7. state'[t].seen = more
  <2>1. TurnState(j).seen = LastN(more, SeenCap)
    BY <1>1, <1>2, <1>4, TurnStateIsTyped DEF seen
  <2>2. LastN(more, SeenCap) = more
    <3> HIDE DEF more
    <3> QED  BY <1>6, SeenKeepsAll
  <2> HIDE DEF more
  <2> QED  BY <1>1, <2>1, <2>2
<1>8. Range(more) = Range(seen) \cup {j.key}
  BY <1>1, <1>3, RangeOfAppend
<1> HIDE DEF more
<1>9. \A u \in 1..MaxTasks : TurnsSeen(state'[u])
  <2>1. TurnsSeen(state'[t])
    BY <1>6, <1>7 DEF TurnsSeen
  <2>2. \A u \in 1..MaxTasks : u # t => TurnsSeen(state'[u])
    BY <1>1 DEF TurnsKnown
  <2> QED  BY <2>1, <2>2
<1>10. \A i \in DOMAIN rows : rows[i].task = t
  <2>1. \A i \in DOMAIN rows : rows[i].task \in 1..MaxTasks /\ rows[i].task <= tasks
    <3>1. \A i \in DOMAIN rows : rows[i] \in Row
      BY ElementOfSeq, LenProperties DEF Typed, RowsTyped
    <3> QED  BY <3>1 DEF Row, Typed, RowsTyped
  <2> QED  BY <1>1, <1>2, <2>1
<1>11. \A i \in DOMAIN rows : rows[i].kind = "prompt" => rows[i].from \in Range(seen)
  BY <1>10 DEF TurnsKnown, SeenRows, seen
<1>12. \A i \in DOMAIN rows : rows'[i] = rows[i]
  BY <1>1 DEF Kept
<1>13. SeenRows(rows', state')
  <2>1. ASSUME NEW i \in DOMAIN rows', rows'[i].kind = "prompt"
        PROVE  rows'[i].task = t /\ rows'[i].from \in Range(more)
    <3>1. CASE i \in DOMAIN rows
      BY <1>8, <1>10, <1>11, <1>12, <2>1, <3>1
    <3>2. CASE i = last
      BY <1>1, <1>8, <3>2
    <3> QED  BY <1>1, <3>1, <3>2
  <2> QED  BY <1>7, <2>1 DEF SeenRows
<1>14. TurnSavedOnce'
  <2>1. ASSUME NEW i \in DOMAIN rows', NEW k \in DOMAIN rows', i # k,
               rows'[i].kind = "prompt", rows'[k].kind = "prompt"
        PROVE  rows'[i].from # rows'[k].from
    <3>1. CASE i \in DOMAIN rows /\ k \in DOMAIN rows
      BY <1>12, <2>1, <3>1 DEF TurnsKnown, TurnSavedOnce
    <3>2. CASE i \in DOMAIN rows /\ k = last
      BY <1>1, <1>5, <1>11, <1>12, <2>1, <3>2
    <3>3. CASE i = last /\ k \in DOMAIN rows
      BY <1>1, <1>5, <1>11, <1>12, <2>1, <3>3
    <3> QED  BY <1>1, <2>1, <3>1, <3>2, <3>3
  <2> QED  BY <2>1 DEF TurnSavedOnce
<1>15. \A q \in Processes : OnlyJob(job'[q], tasks', state')
  <2>1. OnlyJob(job'[p], tasks', state')
    BY <1>1 DEF OnlyJob, Informed
  <2> QED  BY <2>1
<1> QED  BY <1>1, <1>2, <1>9, <1>13, <1>14, <1>15 DEF TurnsKnown

LEMMA StorePassKnows ==
  ASSUME \A p, q \in Processes : p = q, Typed, TurnsKnown,
         NEW p \in Processes, StorePass(p)
  PROVE  TurnsKnown'
<1> DEFINE j == job[p]
           t == j.task
<1>1. /\ j.at = "store" /\ t \in 1..MaxTasks /\ UNCHANGED tasks /\ Kept(rows, rows')
      /\ job'[p].at = "next"
      /\ \A u \in 1..MaxTasks : u # t => state'[u] = state[u]
      /\ state'[t] \in {state[t], PassState(j)}
      /\ \A i \in DOMAIN rows' : i \in DOMAIN rows \/ rows'[i].kind = "wire"
  BY StorePassLeads
<1>2. /\ j \in Job /\ JobFits(j, tasks) /\ OnlyJob(j, tasks, state)
  BY DEF Typed, JobsTyped, TurnsKnown
<1>3. state[t].seen \in Seq(Keys) /\ Len(state[t].seen) <= SeenCap
  <2> HIDE DEF t
  <2> QED  BY <1>1 DEF Typed, StateTyped, State
<1> HIDE DEF j
<1>4. j.state = state[t]
  BY <1>1, <1>2 DEF OnlyJob, Informed
<1>5. state'[t].seen = state[t].seen
  <2>1. PassState(j).seen = LastN(state[t].seen, SeenCap)
    BY <1>1, <1>2, <1>4, PassStateIsTyped
  <2>2. LastN(state[t].seen, SeenCap) = state[t].seen
    <3> DEFINE seen == state[t].seen
    <3>1. seen \in Seq(Keys) /\ Len(seen) <= SeenCap
      BY <1>3
    <3> HIDE DEF seen
    <3>2. LastN(seen, SeenCap) = seen
      BY <3>1, BoundsAreNaturals, WindowOfList
    <3> QED  BY <3>2 DEF seen
  <2> QED  BY <1>1, <2>1, <2>2
<1> HIDE DEF t
<1>6. \A u \in 1..MaxTasks : state'[u].seen = state[u].seen
  BY <1>1, <1>5
<1>7. \A u \in 1..MaxTasks : TurnsSeen(state'[u])
  BY <1>6 DEF TurnsKnown, TurnsSeen
<1>8. \A i \in DOMAIN rows' : rows'[i].kind = "prompt" =>
        i \in DOMAIN rows /\ rows'[i] = rows[i] /\ rows[i].task \in 1..MaxTasks
  <2>1. \A i \in DOMAIN rows : rows[i].task \in 1..MaxTasks
    <3>1. \A i \in DOMAIN rows : rows[i] \in Row
      BY ElementOfSeq, LenProperties DEF Typed, RowsTyped
    <3> QED  BY <3>1 DEF Row
  <2> QED  BY <1>1, <2>1 DEF Kept
<1>9. SeenRows(rows', state')
  <2>1. SeenRows(rows, state)
    BY DEF TurnsKnown
  <2> QED  BY <1>6, <1>8, <2>1 DEF SeenRows
<1>10. TurnSavedOnce'
  <2>1. TurnSavedOnce
    BY DEF TurnsKnown
  <2> QED  BY <1>8, <2>1 DEF TurnSavedOnce
<1>11. \A q \in Processes : OnlyJob(job'[q], tasks', state')
  <2>1. OnlyJob(job'[p], tasks', state')
    BY <1>1 DEF OnlyJob, Informed
  <2> QED  BY <2>1
<1>12. tasks' <= 1
  BY <1>1 DEF TurnsKnown
<1> QED  BY <1>7, <1>9, <1>10, <1>11, <1>12 DEF TurnsKnown

LEMMA NextKnowsTurns ==
  ASSUME IsFiniteSet(Sessions \X Turns), Cardinality(Sessions \X Turns) <= SeenCap,
         \A p, q \in Processes : p = q, Typed, TurnsKnown, [Next]_vars
  PROVE  TurnsKnown'
<1>1. CASE World \/ UNCHANGED vars
  <2>1. UNCHANGED <<tasks, rows, state, job>>
    BY <1>1, WorldLeads
  <2> QED  BY <2>1 DEF TurnsKnown, TurnSavedOnce
<1>2. CASE Next /\ ~World
  BY <1>2, StepsAre, JobKnowsTurns, StoreTurnKnows, StorePassKnows, Zenon
<1> QED  BY <1>1, <1>2

\* With one process, each turn is saved once, however many of its events fire,
\* as long as the window of seen turns has room for all of them: older turns
\* leave it, and an event of one of those saves it again.
THEOREM TurnIsSavedOnce ==
  ASSUME \A p, q \in Processes : p = q,
         IsFiniteSet(Sessions \X Turns), Cardinality(Sessions \X Turns) <= SeenCap
  PROVE  Spec => []TurnSavedOnce
<1>1. Init => TurnsKnown
  <2>1. SUFFICES ASSUME Init
                 PROVE  TurnsKnown
    OBVIOUS
  <2>2. TurnsSeen(EmptyState)
    BY DEF TurnsSeen, EmptyState, IsInjective
  <2>3. \A n, st : OnlyJob(NoJob, n, st)
    BY DEF OnlyJob, NoJob, Informed
  <2> QED  BY <2>1, <2>2, <2>3 DEF Init, TurnsKnown, SeenRows, TurnSavedOnce
<1>2. Typed /\ TurnsKnown /\ [Next]_vars => TurnsKnown'
  BY NextKnowsTurns
<1>3. TurnsKnown => TurnSavedOnce
  BY DEF TurnsKnown
<1> QED  BY <1>1, <1>2, <1>3, AutosaveTyped, PTL DEF Spec

=============================================================================
