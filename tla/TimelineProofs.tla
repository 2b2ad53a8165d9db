--------------------------- MODULE TimelineProofs ---------------------------
(***************************************************************************)
(* Theorems about Timeline for every number of missions, readers and       *)
(* events, and every order of polls, reads, lost connections and           *)
(* reconnections.                                                          *)
(***************************************************************************)
EXTENDS Timeline, OperatorLemmas, SequenceTheorems

-----------------------------------------------------------------------------
(* Sequences in ascending order                                            *)

(* A sequence of events and blank lines carries the events of S in their   *)
(* order.                                                                  *)
Carries(w, S) ==
  /\ \A i, j \in 1..Len(w) : i < j /\ w[i] # Blank /\ w[j] # Blank => w[i] < w[j]
  /\ \A i \in 1..Len(w) : w[i] # Blank => w[i] \in S
  /\ \A k \in S : k # Blank /\ \E i \in 1..Len(w) : w[i] = k

(* How it fares with the operations of a stream. *)
LEMMA CarriesNone == Carries(<<>>, {}) /\ Carries(<<Blank>>, {})
  BY DEF Carries

LEMMA CarriesConcat ==
  ASSUME NEW v \in Seq(Nat), NEW w \in Seq(Nat), NEW S, NEW T, Carries(v, S), Carries(w, T),
         \A k \in S, l \in T : k < l
  PROVE  v \o w \in Seq(Nat) /\ Carries(v \o w, S \cup T)
<1> DEFINE u == v \o w
<1>1. /\ u \in Seq(Nat) /\ Len(u) = Len(v) + Len(w) /\ Len(v) \in Nat /\ Len(w) \in Nat
      /\ \A i \in 1..Len(v) : u[i] = v[i]
      /\ \A i \in 1..Len(w) : u[Len(v) + i] = w[i]
      /\ \A i \in 1..Len(u) : i \in 1..Len(v) \/ \E k \in 1..Len(w) : i = Len(v) + k
  <2>1. /\ u \in Seq(Nat) /\ Len(u) = Len(v) + Len(w) /\ Len(v) \in Nat /\ Len(w) \in Nat
        /\ \A i \in 1 .. Len(v) + Len(w) : u[i] = IF i <= Len(v) THEN v[i] ELSE w[i - Len(v)]
    BY ConcatProperties, LenProperties
  <2> HIDE DEF u
  <2>2. ASSUME NEW i \in 1..Len(w) PROVE u[Len(v) + i] = w[i]
    <3>1. Len(v) + i \in 1 .. Len(v) + Len(w) /\ ~(Len(v) + i <= Len(v)) /\ (Len(v) + i) - Len(v) = i
      BY <2>1
    <3> QED BY <2>1, <3>1
  <2>3. ASSUME NEW i \in 1..Len(u), i \notin 1..Len(v)
        PROVE  i - Len(v) \in 1..Len(w) /\ i = Len(v) + (i - Len(v))
    BY <2>1, <2>3
  <2>4. \A i \in 1..Len(v) : u[i] = v[i]
    BY <2>1
  <2> QED BY <2>1, <2>2, <2>3, <2>4
<1> HIDE DEF u
<1>2. \A i \in 1..Len(v) : v[i] \in Nat
  BY ElementOfSeq
<1>3. ASSUME NEW i \in 1..Len(u), NEW j \in 1..Len(u), i < j, u[i] # Blank, u[j] # Blank
      PROVE  u[i] < u[j]
  <2>1. CASE i \in 1..Len(v) /\ j \in 1..Len(v)
    BY <1>1, <1>3, <2>1 DEF Carries
  <2>2. CASE i \in 1..Len(v) /\ j \notin 1..Len(v)
    <3>1. PICK l \in 1..Len(w) : j = Len(v) + l
      BY <1>1, <2>2
    <3>2. u[i] = v[i] /\ u[j] = w[l]
      BY <1>1, <2>2, <3>1
    <3>3. u[i] \in S /\ u[j] \in T
      BY <1>3, <2>2, <3>2 DEF Carries
    <3> QED BY <3>3
  <2>3. CASE i \notin 1..Len(v)
    <3>1. PICK k \in 1..Len(w) : i = Len(v) + k
      BY <1>1, <2>3
    <3>2. j \notin 1..Len(v)
      BY <1>1, <1>3, <3>1
    <3>3. PICK l \in 1..Len(w) : j = Len(v) + l
      BY <1>1, <3>2
    <3>4. u[i] = w[k] /\ u[j] = w[l]
      BY <1>1, <3>1, <3>3
    <3>5. k < l
      BY <1>1, <1>3, <3>1, <3>3
    <3> QED BY <1>3, <3>4, <3>5 DEF Carries
  <2> QED BY <2>1, <2>2, <2>3
<1>4. ASSUME NEW i \in 1..Len(u), u[i] # Blank PROVE u[i] \in S \cup T
  <2>1. CASE i \in 1..Len(v)
    BY <1>1, <1>4, <2>1 DEF Carries
  <2>2. CASE \E k \in 1..Len(w) : i = Len(v) + k
    BY <1>1, <1>4, <2>2 DEF Carries
  <2> QED BY <1>1, <2>1, <2>2
<1>5. ASSUME NEW k \in S \cup T PROVE k # Blank /\ \E i \in 1..Len(u) : u[i] = k
  <2>1. CASE k \in S
    <3>1. PICK i \in 1..Len(v) : v[i] = k
      BY <2>1 DEF Carries
    <3>2. i \in 1..Len(u) /\ u[i] = k
      BY <1>1, <3>1
    <3> QED BY <2>1, <3>2 DEF Carries
  <2>2. CASE k \in T
    <3>1. PICK i \in 1..Len(w) : w[i] = k
      BY <2>2 DEF Carries
    <3>2. Len(v) + i \in 1..Len(u) /\ u[Len(v) + i] = k
      BY <1>1, <3>1
    <3> QED BY <2>2, <3>2 DEF Carries
  <2> QED BY <2>1, <2>2
<1>6. u \in Seq(Nat) /\ Carries(u, S \cup T)
  BY <1>1, <1>3, <1>4, <1>5 DEF Carries
<1> QED BY <1>6 DEF u

LEMMA CarriesAppend ==
  ASSUME NEW w \in Seq(Nat), NEW S, Carries(w, S), NEW k \in Nat \ {Blank}, \A l \in S : l < k
  PROVE  Append(w, k) \in Seq(Nat) /\ Carries(Append(w, k), S \cup {k})
<1>1. <<k>> \in Seq(Nat) /\ Carries(<<k>>, {k})
  BY DEF Carries
<1>2. Append(w, k) = w \o <<k>>
  BY AppendIsConcat
<1>3. \A a \in S, b \in {k} : a < b
  OBVIOUS
<1>4. w \o <<k>> \in Seq(Nat) /\ Carries(w \o <<k>>, S \cup {k})
  <2> HIDE DEF Carries
  <2> QED BY <1>1, <1>3, CarriesConcat, Zenon
<1> QED BY <1>2, <1>4

LEMMA CarriesBlank ==
  ASSUME NEW w \in Seq(Nat), NEW S, Carries(w, S)
  PROVE  Append(w, Blank) \in Seq(Nat) /\ Carries(Append(w, Blank), S)
<1>1. <<Blank>> \in Seq(Nat) /\ Blank \in Nat
  BY DEF Blank
<1>2. Append(w, Blank) = w \o <<Blank>>
  BY <1>1, AppendIsConcat
<1> QED BY <1>1, <1>2, CarriesConcat, CarriesNone

LEMMA CarriesTail ==
  ASSUME NEW w \in Seq(Nat), NEW S, Carries(w, S), w # <<>>
  PROVE  /\ Tail(w) \in Seq(Nat)
         /\ Head(w) = Blank => Carries(Tail(w), S)
         /\ Head(w) # Blank =>
              Head(w) \in S /\ (\A k \in S : Head(w) <= k) /\ Carries(Tail(w), S \ {Head(w)})
<1> DEFINE t == Tail(w)
<1>1. /\ t \in Seq(Nat) /\ Len(w) \in Nat \ {0} /\ Len(t) = Len(w) - 1 /\ Head(w) = w[1]
      /\ \A i \in 1..Len(t) : i + 1 \in 1..Len(w) /\ t[i] = w[i + 1]
      /\ \A i \in 1..Len(w) : i # 1 => i - 1 \in 1..Len(t) /\ t[i - 1] = w[i]
  <2>1. t \in Seq(Nat) /\ Len(t) = Len(w) - 1 /\ Len(w) \in Nat \ {0}
    BY HeadTailProperties, EmptySeq
  <2>2. \A i \in 1..Len(t) : t[i] = w[i + 1]
    BY <2>1
  <2>3. Head(w) = w[1]
    BY <2>1
  <2> HIDE DEF t
  <2>4. ASSUME NEW i \in 1..Len(w), i # 1 PROVE i - 1 \in 1..Len(t) /\ t[i - 1] = w[i]
    <3>1. i - 1 \in 1..Len(t) /\ (i - 1) + 1 = i
      BY <2>1, <2>4
    <3> QED BY <2>2, <3>1
  <2> QED BY <2>1, <2>2, <2>3, <2>4
<1> HIDE DEF t
<1>2. ASSUME NEW i \in 1..Len(t), NEW j \in 1..Len(t), i < j, t[i] # Blank, t[j] # Blank
      PROVE  t[i] < t[j]
  <2>1. i + 1 \in 1..Len(w) /\ j + 1 \in 1..Len(w) /\ i + 1 < j + 1
    BY <1>1, <1>2
  <2> QED BY <1>1, <1>2, <2>1 DEF Carries
<1>3. 1 \in 1..Len(w) /\ w[1] \in Nat
  BY <1>1, ElementOfSeq
<1>4. ASSUME Head(w) # Blank, NEW i \in 1..Len(t), t[i] # Blank PROVE Head(w) < t[i]
  <2>1. i + 1 \in 1..Len(w) /\ 1 < i + 1
    BY <1>1
  <2> QED BY <1>1, <1>3, <1>4, <2>1 DEF Carries
<1>5. ASSUME NEW i \in 1..Len(t), t[i] # Blank PROVE t[i] \in S
  BY <1>1, <1>5 DEF Carries
<1>6. ASSUME NEW k \in S, k # Head(w) PROVE \E i \in 1..Len(t) : t[i] = k
  <2>1. PICK i \in 1..Len(w) : w[i] = k
    BY DEF Carries
  <2>2. i # 1
    BY <1>1, <1>6, <2>1
  <2>3. i - 1 \in 1..Len(t) /\ t[i - 1] = k
    BY <1>1, <2>1, <2>2
  <2> QED BY <2>3
<1>7. \A k \in S : k # Blank
  BY DEF Carries
<1>8. CASE Head(w) = Blank
  <2>1. \A k \in S : k # Head(w)
    BY <1>7, <1>8
  <2>2. Carries(t, S)
    BY <1>2, <1>5, <1>6, <1>7, <2>1 DEF Carries
  <2> QED BY <1>1, <1>8, <2>2 DEF t
<1>9. CASE Head(w) # Blank
  <2>1. Head(w) \in S
    BY <1>1, <1>3, <1>9 DEF Carries
  <2>2. \A i \in 1..Len(t) : t[i] # Blank => t[i] \in S \ {Head(w)}
    <3> SUFFICES ASSUME NEW i \in 1..Len(t), t[i] # Blank, t[i] = Head(w) PROVE FALSE
      BY <1>5
    <3>1. Head(w) < Head(w) /\ Head(w) \in Nat
      BY <1>1, <1>3, <1>4, <1>9
    <3> QED BY <3>1
  <2>3. Carries(t, S \ {Head(w)})
    BY <1>2, <2>2, <1>6, <1>7 DEF Carries
  <2>4. ASSUME NEW k \in S PROVE Head(w) <= k
    <3>1. CASE k = Head(w)
      BY <1>1, <1>3, <3>1
    <3>2. CASE k # Head(w)
      <4>1. PICK i \in 1..Len(t) : t[i] = k
        BY <1>6, <3>2
      <4>2. Head(w) < k
        BY <1>4, <1>7, <1>9, <4>1
      <4>3. Head(w) \in Nat /\ k \in Nat
        BY <1>1, <1>3, <4>1, ElementOfSeq
      <4> QED BY <4>2, <4>3
    <3> QED BY <3>1, <3>2
  <2> QED BY <1>1, <1>9, <2>1, <2>3, <2>4 DEF t
<1> QED BY <1>8, <1>9

(* Its last event, if it holds no blank line, is the latest. *)
LEMMA LastIsMost ==
  ASSUME NEW w \in Seq(Nat \ {Blank}), NEW S, Carries(w, S)
  PROVE  /\ w = <<>> <=> S = {}
         /\ w # <<>> => Last(w) \in S /\ \A k \in S : k <= Last(w)
<1>1. /\ Len(w) \in Nat /\ (w # <<>> => Len(w) \in Nat \ {0})
      /\ \A i \in 1..Len(w) : w[i] \in Nat \ {Blank}
      /\ \A i \in 1..Len(w) : w[i] \in S
      /\ \A k \in S : \E i \in 1..Len(w) : w[i] = k
  <2>1. Len(w) \in Nat /\ (w # <<>> => Len(w) \in Nat \ {0})
    BY EmptySeq, LenProperties
  <2>2. \A i \in 1..Len(w) : w[i] \in Nat \ {Blank}
    BY ElementOfSeq
  <2> QED BY <2>1, <2>2 DEF Carries
<1>2. ASSUME w # <<>> PROVE Last(w) \in S /\ \A k \in S : k <= Last(w)
  <2>1. Len(w) \in 1..Len(w)
    BY <1>1, <1>2
  <2>2. ASSUME NEW i \in 1..Len(w) PROVE w[i] <= w[Len(w)]
    <3>1. i = Len(w) \/ i < Len(w)
      BY <1>1
    <3> QED BY <1>1, <2>1, <3>1 DEF Carries
  <2> QED BY <1>1, <2>1, <2>2 DEF Last
<1>3. w = <<>> => S = {}
  BY <1>1
<1> QED BY <1>2, <1>3

(* Any finite set of numbers has its members in ascending order.           *)
LEMMA AscendingExists ==
  ASSUME NEW n \in Nat, NEW S \in SUBSET (1..n)
  PROVE  \E s \in [1..Cardinality(S) -> S] : \A i, j \in DOMAIN s : i < j => s[i] < s[j]
<1> DEFINE Sorted(T, s) == s \in [1..Cardinality(T) -> T]
                           /\ \A i, j \in 1..Cardinality(T) : i < j => s[i] < s[j]
           P == {k \in Nat : \A T \in SUBSET (1..k) : \E s : Sorted(T, s)}
<1>1. 0 \in P
  <2> SUFFICES ASSUME NEW T \in SUBSET (1..0) PROVE \E s : Sorted(T, s)
    OBVIOUS
  <2>1. T = {} /\ Cardinality(T) = 0
    <3>1. T = {}
      OBVIOUS
    <3> QED BY <3>1, FS_EmptySet
  <2>2. Sorted(T, [i \in {} |-> i])
    BY <2>1
  <2> QED BY <2>2
<1>2. ASSUME NEW k \in Nat, k \in P PROVE k + 1 \in P
  <2> SUFFICES ASSUME NEW T \in SUBSET (1 .. k + 1) PROVE \E s : Sorted(T, s)
    OBVIOUS
  <2>1. CASE k + 1 \notin T
    <3>1. T \in SUBSET (1..k)
      <4>1. \A x \in T : x \in 1..k
        BY <2>1
      <4> QED BY <4>1
    <3> QED BY <1>2, <3>1
  <2>2. CASE k + 1 \in T
    <3> DEFINE U == T \ {k + 1}
               c == Cardinality(U)
    <3>1. U \in SUBSET (1..k)
      <4>1. \A x \in U : x \in 1..k
        OBVIOUS
      <4> QED BY <4>1
    <3>2. IsFiniteSet(U) /\ c \in Nat
      <4>1. IsFiniteSet(1..k)
        BY FS_Interval
      <4> QED BY <3>1, <4>1, FS_Subset, FS_CardinalityType
    <3>3. T = U \cup {k + 1} /\ k + 1 \notin U
      BY <2>2
    <3>4. Cardinality(T) = c + 1
      <4> HIDE DEF U
      <4> QED BY <3>2, <3>3, FS_AddElement
    <3>5. PICK s : Sorted(U, s)
      BY <1>2, <3>1
    <3> DEFINE t == [i \in 1 .. c + 1 |-> IF i = c + 1 THEN k + 1 ELSE s[i]]
    <3>6. s \in [1..c -> U] /\ \A i, j \in 1..c : i < j => s[i] < s[j]
      BY <3>5
    <3> HIDE DEF U, c
    <3>7. \A i \in 1 .. c + 1 : i # c + 1 => i \in 1..c
      BY <3>2
    <3>8. t \in [1 .. c + 1 -> T]
      BY <3>2, <3>3, <3>6, <3>7
    <3>9. ASSUME NEW i \in 1 .. c + 1, NEW j \in 1 .. c + 1, i < j PROVE t[i] < t[j]
      <4>1. i # c + 1 /\ i \in 1..c
        BY <3>2, <3>9
      <4>2. s[i] \in U /\ t[i] = s[i]
        BY <3>6, <4>1
      <4>3. CASE j = c + 1
        <5>1. s[i] \in 1..k /\ t[j] = k + 1
          BY <3>1, <4>2, <4>3
        <5> QED BY <4>2, <5>1
      <4>4. CASE j # c + 1
        BY <3>6, <3>7, <3>9, <4>1, <4>2, <4>4
      <4> QED BY <4>3, <4>4
    <3>10. Sorted(T, t)
      BY <3>4, <3>8, <3>9
    <3> QED BY <3>10
  <2> QED BY <2>1, <2>2
<1>3. \A k \in Nat : k \in P
  <2> HIDE DEF P
  <2> QED BY <1>1, <1>2, NatSetInduction
<1>4. PICK s : Sorted(S, s)
  BY <1>3
<1>5. DOMAIN s = 1..Cardinality(S)
  BY <1>4
<1> QED BY <1>4, <1>5

(* How many numbers there are up to one. *)
LEMMA UpTo ==
  ASSUME NEW c \in Nat
  PROVE  IsFiniteSet(1..c) /\ Cardinality(1..c) = c
<1>1. 1 \in Int /\ c \in Int
  OBVIOUS
<1>2. IsFiniteSet(1..c) /\ Cardinality(1..c) = IF 1 > c THEN 0 ELSE c - 1 + 1
  BY <1>1, FS_Interval, Zenon
<1>3. (IF 1 > c THEN 0 ELSE c - 1 + 1) = c
  OBVIOUS
<1> QED BY <1>2, <1>3

(* A CHOOSE of such an order has every member of the set.                 *)
LEMMA AscendingCarries ==
  ASSUME NEW n \in Nat, NEW S \in SUBSET (1..n)
  PROVE  Ascending(S) \in Seq(S) /\ Carries(Ascending(S), S)
<1> DEFINE s == Ascending(S)
           c == Cardinality(S)
<1>1. s \in [1..c -> S] /\ \A i, j \in DOMAIN s : i < j => s[i] < s[j]
  BY AscendingExists DEF Ascending
<1> HIDE DEF s
<1>2. IsFiniteSet(S) /\ c \in Nat
  <2>1. IsFiniteSet(1..n)
    BY FS_Interval
  <2> QED BY <2>1, FS_Subset, FS_CardinalityType
<1>3. s \in Seq(S) /\ Len(s) = c /\ DOMAIN s = 1..c
  BY <1>1, <1>2
<1>4. \A i \in 1..c : s[i] \in S
  BY <1>1
<1>5. ASSUME NEW k \in S PROVE \E i \in 1..c : s[i] = k
  <2> SUFFICES ASSUME \A i \in 1..c : s[i] # k PROVE FALSE
    OBVIOUS
  <2>1. IsFiniteSet(S \ {k}) /\ Cardinality(S \ {k}) = c - 1
    BY <1>2, FS_RemoveElement
  <2>2. s \in [1..c -> S \ {k}]
    BY <1>1
  <2>3. IsFiniteSet(1..c) /\ Cardinality(1..c) = c
    <3> HIDE DEF c
    <3> QED BY <1>2, UpTo, Zenon
  <2>4. \E x, y \in 1..c : x # y /\ s[x] = s[y]
    <3> DEFINE D == 1..c
               R == S \ {k}
    <3>1. Cardinality(R) < Cardinality(D)
      BY <1>2, <2>1, <2>3
    <3>2. IsFiniteSet(D) /\ IsFiniteSet(R) /\ s \in [D -> R]
      BY <2>1, <2>2, <2>3
    <3>3. \E x, y \in D : x # y /\ s[x] = s[y]
      <4> HIDE DEF D, R
      <4> QED BY <3>1, <3>2, FS_PigeonHole
    <3> QED BY <3>3
  <2>5. PICK i \in 1..c, j \in 1..c : i # j /\ s[i] = s[j]
    BY <2>4
  <2>6. i < j \/ j < i
    BY <1>2, <2>5
  <2>7. s[i] \in Nat /\ s[j] \in Nat
    <3>1. \A x \in S : x \in Nat
      OBVIOUS
    <3>2. s[i] \in S /\ s[j] \in S
      BY <1>4, <2>5
    <3> QED BY <3>1, <3>2
  <2> QED BY <1>1, <1>3, <2>5, <2>6, <2>7
<1>6. \A k \in S : k # Blank
  BY DEF Blank
<1> QED BY <1>1, <1>3, <1>4, <1>5, <1>6 DEF Carries, s

(* Of two sequences that ascend, one whose events are the first ones of    *)
(* the other is the beginning of it.                                       *)
LEMMA CarriesPrefix ==
  ASSUME NEW s \in Seq(Nat \ {Blank}), NEW t \in Seq(Nat \ {Blank}), NEW S, NEW T,
         Carries(s, S), Carries(t, T), S \subseteq T,
         \A k \in T, l \in S : k <= l => k \in S
  PROVE  IsPrefix(s, t)
<1>1. /\ Len(s) \in Nat /\ Len(t) \in Nat
      /\ \A i \in 1..Len(s) : s[i] \in Nat \ {Blank}
      /\ \A i \in 1..Len(t) : t[i] \in Nat \ {Blank}
  BY LenProperties, ElementOfSeq
<1>2. /\ \A i, j \in 1..Len(s) : i < j => s[i] < s[j]
      /\ \A i, j \in 1..Len(t) : i < j => t[i] < t[j]
      /\ \A i \in 1..Len(s) : s[i] \in S /\ s[i] \in T
      /\ \A k \in S : \E i \in 1..Len(s) : s[i] = k
      /\ \A i \in 1..Len(t) : t[i] \in T
      /\ \A k \in T : \E i \in 1..Len(t) : t[i] = k
  BY <1>1 DEF Carries
<1> DEFINE Bad == {i \in 1..Len(s) : ~(i <= Len(t) /\ s[i] = t[i])}
<1>3. ASSUME Bad # {} PROVE FALSE
  <2>1. PICK i \in Bad : \A j \in Bad : i <= j
    <3>1. Bad \in SUBSET Nat
      OBVIOUS
    <3> HIDE DEF Bad
    <3> QED BY <1>3, <3>1, LeastOf
  <2>2. /\ i \in 1..Len(s)
        /\ \A j \in 1..Len(s) : j < i => j \in 1..Len(t) /\ s[j] = t[j]
    BY <1>1, <2>1
  <2> HIDE DEF Bad
  <2>3. PICK j \in 1..Len(t) : t[j] = s[i]
    BY <1>2, <2>2
  <2>4. ~(j < i)
    <3> SUFFICES ASSUME j < i PROVE FALSE
      OBVIOUS
    <3>1. j \in 1..Len(s) /\ s[j] = t[j]
      BY <1>1, <2>2
    <3>2. s[j] < s[i] /\ s[i] \in Nat
      BY <1>1, <1>2, <2>2, <3>1
    <3> QED BY <2>3, <3>1, <3>2
  <2>5. i \in 1..Len(t)
    BY <1>1, <2>2, <2>4
  <2>6. t[i] <= s[i]
    <3>1. i = j \/ i < j
      BY <1>1, <2>4, <2>5
    <3>2. t[i] = t[j] \/ t[i] < t[j]
      BY <1>2, <2>5, <3>1, Zenon
    <3>3. t[i] \in Nat /\ t[j] \in Nat
      BY <1>1, <2>5, Zenon
    <3> QED BY <2>3, <3>2, <3>3
  <2>7. PICK l \in 1..Len(s) : s[l] = t[i]
    BY <1>2, <2>2, <2>5, <2>6
  <2>8. ~(l < i)
    <3> SUFFICES ASSUME l < i PROVE FALSE
      OBVIOUS
    <3>1. l \in 1..Len(t) /\ s[l] = t[l]
      BY <2>2
    <3>2. t[l] < t[i] /\ t[i] \in Nat
      BY <1>1, <1>2, <2>5, <3>1
    <3> QED BY <2>7, <3>1, <3>2
  <2>9. s[i] <= t[i]
    <3>1. i = l \/ i < l
      BY <1>1, <2>2, <2>8
    <3>2. s[i] = s[l] \/ s[i] < s[l]
      BY <1>2, <2>2, <3>1, Zenon
    <3>3. s[i] \in Nat /\ s[l] \in Nat
      BY <1>1, <2>2, Zenon
    <3> QED BY <2>7, <3>2, <3>3
  <2>10. s[i] = t[i]
    BY <1>1, <2>2, <2>5, <2>6, <2>9
  <2>11. i \notin Bad
    BY <1>1, <2>5, <2>10 DEF Bad
  <2> QED BY <2>1, <2>11
<1>4. \A i \in 1..Len(s) : i <= Len(t) /\ s[i] = t[i]
  BY <1>3
<1>5. Len(s) <= Len(t)
  BY <1>1, <1>4
<1> DEFINE u == SubSeq(s, 1, Len(s))
           v == SubSeq(t, 1, Len(s))
<1>6. /\ u \in Seq(Nat) /\ Len(u) = Len(s) /\ \A i \in 1..Len(s) : u[i] = s[i]
      /\ v \in Seq(Nat) /\ Len(v) = Len(s) /\ \A i \in 1..Len(s) : v[i] = t[i]
  <2>1. \A i \in 1..Len(s) : s[i] \in Nat /\ t[i] \in Nat
    BY <1>1, <1>4
  <2> QED BY <1>1, <2>1, SubSeqProperties
<1>7. u = v
  <2> HIDE DEF u, v
  <2> QED BY <1>4, <1>6, SeqEqual
<1> QED BY <1>5, <1>7 DEF IsPrefix

-----------------------------------------------------------------------------
(* Where each event is                                                     *)

(* The events of the mission a page streams, and those of them past one    *)
(* place of the log and up to another.                                     *)
Own(p) == {k \in 1..Len(log) : log[k] = MissionOf[p]}
Between(p, a, b) == {k \in Own(p) : a < k /\ k <= b}

(* The last event the page's EventSource has read.                         *)
Mark(p) == IF gathered[p] = <<>> THEN lastId[p] ELSE Last(gathered[p])

(* Its mission's events up to the id it reconnects with were dispatched,   *)
(* those after it and up to its last one read are in the message it        *)
(* gathers, and those after that and up to the server's cursor are on the  *)
(* wire, each part in order and complete; a lost connection leaves only    *)
(* the first part.                                                         *)
InPlace(p) ==
  /\ {lastId[p], cursor[p]} \subseteq Own(p) \cup {None}
  /\ lastId[p] <= Mark(p)
  /\ Carries(read[p], Between(p, None, lastId[p]))
  /\ Carries(gathered[p], Between(p, lastId[p], Mark(p)))
  /\ p \in open => Mark(p) <= cursor[p] /\ Carries(wire[p], Between(p, Mark(p), cursor[p]))
  /\ p \notin open => gathered[p] = <<>> /\ wire[p] = <<>>

IInv == TypeOK /\ \A p \in Readers : InPlace(p)

-----------------------------------------------------------------------------
(* What a sequence ends in. *)
LEMMA Appended ==
  ASSUME NEW S, NEW s \in Seq(S), NEW e \in S
  PROVE  /\ Append(s, e) \in Seq(S) /\ Append(s, e) # <<>>
         /\ Last(Append(s, e)) = e
<1>1. /\ Append(s, e) \in Seq(S) /\ Append(s, e) # <<>>
      /\ Len(Append(s, e)) = Len(s) + 1
      /\ Append(s, e)[Len(s) + 1] = e
  BY AppendProperties
<1> QED BY <1>1 DEF Last

LEMMA LastOf ==
  ASSUME NEW S, NEW s \in Seq(S), s # <<>>
  PROVE  Last(s) \in S
<1>1. Len(s) \in Nat \ {0}
  BY EmptySeq
<1>2. Len(s) \in 1..Len(s)
  BY <1>1
<1> QED BY <1>2, ElementOfSeq DEF Last

(* What a poll or a connection finds in the log. *)
LEMMA Found ==
  ASSUME TypeOK, NEW m \in Missions, NEW id \in 0..Len(log)
  PROVE  /\ Len(log) \in Nat
         /\ EventsAfter(m, id) \in Seq(1..Len(log))
         /\ Carries(EventsAfter(m, id), {k \in 1..Len(log) : log[k] = m /\ k > Resolve(m, id)})
<1> DEFINE S == {k \in 1..Len(log) : log[k] = m /\ k > Resolve(m, id)}
<1>1. Len(log) \in Nat
  BY LenProperties DEF TypeOK
<1>2. S \in SUBSET (1..Len(log))
  OBVIOUS
<1>3. Ascending(S) \in Seq(S) /\ Carries(Ascending(S), S)
  <2> HIDE DEF S
  <2> QED BY <1>1, <1>2, AscendingCarries
<1>4. Ascending(S) \in Seq(1..Len(log))
  <2> HIDE DEF S
  <2> QED BY <1>2, <1>3, SeqMonotonic
<1> QED BY <1>1, <1>3, <1>4 DEF EventsAfter

-----------------------------------------------------------------------------
(* The types                                                               *)

LEMMA TypeOKInit == Init => TypeOK
<1> SUFFICES ASSUME Init PROVE TypeOK
  OBVIOUS
<1>1. Len(log) = 0 /\ log \in Seq(Missions)
  BY EmptySeq DEF Init
<1>2. 0 \in 0..MaxDrops /\ 0 \in 0 .. HeartbeatTicks - 1
  BY TimelineAssumption
<1>3. \A S : <<>> \in Seq(S)
  BY EmptySeq
<1> QED BY <1>1, <1>2, <1>3 DEF Init, TypeOK, None

LEMMA TypeOKStep == TypeOK /\ [Next]_vars => TypeOK'
<1> SUFFICES ASSUME TypeOK, [Next]_vars PROVE TypeOK'
  OBVIOUS
<1>1. /\ Len(log) \in Nat /\ 0..Len(log) \subseteq Nat
      /\ 1..Len(log) \subseteq 0..Len(log)
  BY LenProperties DEF TypeOK
<1>2. ASSUME NEW m \in Missions, Record(m) PROVE TypeOK'
  <2>1. log' \in Seq(Missions) /\ Len(log') = Len(log) + 1
    BY <1>2, AppendProperties DEF Record, TypeOK
  <2>2. 0..Len(log) \subseteq 0..Len(log') /\ 1..Len(log) \subseteq 1..Len(log')
    BY <1>1, <2>1
  <2>3. UNCHANGED <<open, cursor, quiet, wire, gathered, lastId, read, shown, drops>>
    BY <1>2 DEF Record, server, reader
  <2>4. /\ Seq(0..Len(log)) \subseteq Seq(0..Len(log'))
        /\ Seq(1..Len(log)) \subseteq Seq(1..Len(log'))
    BY <2>2, SeqMonotonic
  <2>5. cursor' \in [Readers -> 0..Len(log')] /\ lastId' \in [Readers -> 0..Len(log')]
    BY <2>2, <2>3 DEF TypeOK
  <2>6. wire' \in [Readers -> Seq(0..Len(log'))]
    BY <2>3, <2>4 DEF TypeOK
  <2>7. gathered' \in [Readers -> Seq(1..Len(log'))] /\ read' \in [Readers -> Seq(1..Len(log'))]
    BY <2>3, <2>4 DEF TypeOK
  <2>8. shown' \in [Readers -> SUBSET (1..Len(log'))]
    BY <2>2, <2>3 DEF TypeOK
  <2> QED BY <2>1, <2>3, <2>5, <2>6, <2>7, <2>8 DEF TypeOK
<1>3. ASSUME NEW p \in Readers, NEW from \in 0..Len(log), NEW before \in Seq(0..Len(log)),
             Deliver(p, from, before)
      PROVE  wire' \in [Readers -> Seq(0..Len(log))] /\ cursor' \in [Readers -> 0..Len(log)]
  <2> DEFINE E == EventsAfter(MissionOf[p], from)
  <2>1. MissionOf[p] \in Missions
    BY TimelineAssumption
  <2>2. E \in Seq(1..Len(log))
    BY <2>1, Found
  <2>3. E \in Seq(0..Len(log)) /\ (E # <<>> => Last(E) \in 0..Len(log))
    BY <1>1, <2>2, SeqMonotonic, LastOf
  <2>4. before \o E \in Seq(0..Len(log))
    BY <2>3, ConcatProperties
  <2>5. /\ wire' = [wire EXCEPT ![p] = before \o E]
        /\ cursor' = [cursor EXCEPT ![p] = IF E = <<>> THEN from ELSE Last(E)]
    BY <1>3 DEF Deliver
  <2> HIDE DEF E
  <2> QED BY <2>3, <2>4, <2>5 DEF TypeOK
<1>4. ASSUME NEW p \in Readers, Connect(p) PROVE TypeOK'
  <2>1. lastId[p] \in 0..Len(log) /\ <<Blank>> \in Seq(0..Len(log))
    BY <1>1, <1>4 DEF TypeOK, Blank
  <2>2. wire' \in [Readers -> Seq(0..Len(log))] /\ cursor' \in [Readers -> 0..Len(log)]
    BY <1>3, <1>4, <2>1 DEF Connect
  <2>3. 0 \in 0 .. HeartbeatTicks - 1
    BY TimelineAssumption
  <2> QED BY <1>4, <2>2, <2>3 DEF Connect, TypeOK, reader
<1>5. ASSUME NEW p \in Readers, Tick(p) PROVE TypeOK'
  <2>1. cursor[p] \in 0..Len(log) /\ wire[p] \in Seq(0..Len(log)) /\ 0 \in 0..Len(log)
        /\ quiet[p] \in 0 .. HeartbeatTicks - 1 /\ HeartbeatTicks \in Nat \ {0}
    BY <1>1, TimelineAssumption DEF TypeOK
  <2>2. CASE Deliver(p, cursor[p], wire[p]) /\ quiet' = [quiet EXCEPT ![p] = 0]
    <3>1. wire' \in [Readers -> Seq(0..Len(log))] /\ cursor' \in [Readers -> 0..Len(log)]
      BY <1>3, <2>1, <2>2
    <3>2. quiet' \in [Readers -> 0 .. HeartbeatTicks - 1]
      BY <2>1, <2>2 DEF TypeOK
    <3> QED BY <1>5, <3>1, <3>2 DEF Tick, TypeOK, reader
  <2>3. CASE /\ UNCHANGED cursor
             /\ wire' = [wire EXCEPT ![p] = Append(@, Blank)]
             /\ quiet' = [quiet EXCEPT ![p] = 0]
    <3>1. Append(wire[p], Blank) \in Seq(0..Len(log))
      BY <2>1, AppendProperties DEF Blank
    <3>2. wire' \in [Readers -> Seq(0..Len(log))]
      BY <2>3, <3>1 DEF TypeOK
    <3>3. quiet' \in [Readers -> 0 .. HeartbeatTicks - 1]
      BY <2>1, <2>3 DEF TypeOK
    <3> QED BY <1>5, <2>3, <3>2, <3>3 DEF Tick, TypeOK, reader
  <2>4. CASE /\ UNCHANGED <<cursor, wire>>
             /\ ~(quiet[p] + 1 >= HeartbeatTicks)
             /\ quiet' = [quiet EXCEPT ![p] = @ + 1]
    <3>1. quiet[p] + 1 \in 0 .. HeartbeatTicks - 1
      BY <2>1, <2>4
    <3>2. quiet' \in [Readers -> 0 .. HeartbeatTicks - 1]
      BY <2>4, <3>1 DEF TypeOK
    <3> QED BY <1>5, <2>4, <3>2 DEF Tick, TypeOK, reader
  <2> QED BY <1>5, <2>2, <2>3, <2>4 DEF Tick
<1>6. ASSUME NEW p \in Readers, wire[p] # <<>>, wire' = [wire EXCEPT ![p] = Tail(@)]
      PROVE  wire' \in [Readers -> Seq(0..Len(log))] /\ Head(wire[p]) \in 0..Len(log)
  <2>1. wire[p] \in Seq(0..Len(log))
    BY DEF TypeOK
  <2>2. Tail(wire[p]) \in Seq(0..Len(log)) /\ Head(wire[p]) \in 0..Len(log)
    BY <1>6, <2>1, HeadTailProperties
  <2> QED BY <1>6, <2>2 DEF TypeOK
<1>7. ASSUME NEW p \in Readers, ReadEvent(p) PROVE TypeOK'
  <2>1. wire' \in [Readers -> Seq(0..Len(log))] /\ Head(wire[p]) \in 1..Len(log)
    <3>1. wire' \in [Readers -> Seq(0..Len(log))] /\ Head(wire[p]) \in 0..Len(log)
      BY <1>6, <1>7 DEF ReadEvent
    <3>2. Head(wire[p]) # 0
      BY <1>7 DEF ReadEvent, Blank
    <3> QED BY <1>1, <3>1, <3>2
  <2>2. Append(gathered[p], Head(wire[p])) \in Seq(1..Len(log))
    BY <2>1, AppendProperties DEF TypeOK
  <2>3. gathered' \in [Readers -> Seq(1..Len(log))]
    BY <1>7, <2>2 DEF ReadEvent, TypeOK
  <2> QED BY <1>7, <2>1, <2>3 DEF ReadEvent, TypeOK, server
<1>8. ASSUME NEW p \in Readers, ReadBlank(p) PROVE TypeOK'
  <2>1. wire' \in [Readers -> Seq(0..Len(log))]
    BY <1>6, <1>8 DEF ReadBlank
  <2>2. gathered[p] \in Seq(1..Len(log)) /\ read[p] \in Seq(1..Len(log))
    BY DEF TypeOK
  <2>3. /\ read[p] \o gathered[p] \in Seq(1..Len(log))
        /\ <<>> \in Seq(1..Len(log))
        /\ gathered[p] # <<>> => Last(gathered[p]) \in 0..Len(log)
    BY <1>1, <2>2, ConcatProperties, EmptySeq, LastOf
  <2>4. gathered' \in [Readers -> Seq(1..Len(log))] /\ read' \in [Readers -> Seq(1..Len(log))]
    BY <1>8, <2>3 DEF ReadBlank, TypeOK
  <2>5. lastId' \in [Readers -> 0..Len(log)]
    BY <1>8, <2>3 DEF ReadBlank, TypeOK
  <2>6. Len(gathered[p]) = 1 => gathered[p][1] \in 1..Len(log)
    BY <2>2, ElementOfSeq
  <2>7. shown' \in [Readers -> SUBSET (1..Len(log))]
    BY <1>8, <2>6 DEF ReadBlank, TypeOK
  <2> QED BY <1>8, <2>1, <2>4, <2>5, <2>7 DEF ReadBlank, TypeOK, server
<1>9. ASSUME NEW p \in Readers, Drop(p) PROVE TypeOK'
  <2>1. <<>> \in Seq(0..Len(log)) /\ <<>> \in Seq(1..Len(log))
    BY EmptySeq
  <2>2. drops' \in 0..MaxDrops
    BY <1>9, TimelineAssumption DEF Drop, TypeOK
  <2>3. wire' \in [Readers -> Seq(0..Len(log))] /\ gathered' \in [Readers -> Seq(1..Len(log))]
    BY <1>9, <2>1 DEF Drop, TypeOK
  <2> QED BY <1>9, <2>2, <2>3 DEF Drop, TypeOK
<1>10. CASE UNCHANGED vars
  BY <1>10 DEF vars, server, reader, TypeOK
<1> QED BY <1>2, <1>4, <1>5, <1>7, <1>8, <1>9, <1>10 DEF Next

(* Cursors, reconnection ids and events on their way always name rows of   *)
(* the log, and the heartbeat counter stays under its bound.               *)
THEOREM TimelineTyped == Spec => []TypeOK
  BY TypeOKInit, TypeOKStep, PTL DEF Spec

-----------------------------------------------------------------------------
(* The order                                                               *)

(* One delivery takes the cursor to the last event it wrote, past which    *)
(* the log has none of the mission.                                        *)
LEMMA DeliverCarries ==
  ASSUME TypeOK, NEW p \in Readers, NEW from \in Own(p) \cup {None}, NEW before \in Seq(Nat),
         NEW a \in Nat, a <= from, Carries(before, Between(p, a, from)),
         Deliver(p, from, before)
  PROVE  /\ cursor'[p] \in Own(p) \cup {None} /\ a <= cursor'[p]
         /\ Carries(wire'[p], Between(p, a, cursor'[p]))
         /\ \A q \in Readers \ {p} : wire'[q] = wire[q] /\ cursor'[q] = cursor[q]
<1> DEFINE m == MissionOf[p]
           E == EventsAfter(m, from)
           N == Len(log)
<1>1. /\ m \in Missions /\ N \in Nat /\ from \in 0..N /\ from \in Nat
      /\ wire \in [Readers -> Seq(0..N)] /\ cursor \in [Readers -> 0..N]
  <2>1. m \in Missions /\ N \in Nat
    BY TimelineAssumption, LenProperties DEF TypeOK
  <2>2. from \in 0..N
    BY <2>1 DEF Own, None
  <2> QED BY <2>1, <2>2 DEF TypeOK
<1>2. {k \in 1..N : log[k] = m /\ k > Resolve(m, from)} = Between(p, from, N)
  <2>1. Resolve(m, from) = from
    BY DEF Resolve, Own, None
  <2>2. ASSUME NEW k \in 1..N PROVE k > from <=> from < k /\ k <= N
    BY <1>1
  <2> QED BY <2>1, <2>2 DEF Between, Own
<1>3. E \in Seq(1..N) /\ Carries(E, Between(p, from, N))
  BY <1>1, <1>2, Found
<1>4. E \in Seq(Nat \ {Blank}) /\ E \in Seq(Nat)
  <2>1. 1..N \subseteq Nat \ {Blank} /\ 1..N \subseteq Nat
    BY DEF Blank
  <2> QED BY <1>3, <2>1, SeqMonotonic
<1>5. wire'[p] = before \o E /\ cursor'[p] = (IF E = <<>> THEN from ELSE Last(E))
      /\ \A q \in Readers \ {p} : wire'[q] = wire[q] /\ cursor'[q] = cursor[q]
  BY <1>1 DEF Deliver
<1>6. /\ E = <<>> <=> Between(p, from, N) = {}
      /\ E # <<>> => /\ Last(E) \in Between(p, from, N)
                     /\ \A k \in Between(p, from, N) : k <= Last(E)
  <2> HIDE DEF E, N
  <2> QED BY <1>3, <1>4, LastIsMost
<1> HIDE DEF E
<1>7. /\ cursor'[p] \in Own(p) \cup {None} /\ from <= cursor'[p] /\ cursor'[p] \in Nat
      /\ Between(p, from, N) = Between(p, from, cursor'[p])
  <2>1. CASE E = <<>>
    <3>1. cursor'[p] = from /\ Between(p, from, N) = {}
      BY <1>5, <1>6, <2>1
    <3>2. Between(p, from, from) = {}
      <4>1. ASSUME NEW k \in Between(p, from, from) PROVE FALSE
        <5>1. k \in Nat /\ from < k /\ k <= from
          BY DEF Between, Own
        <5> QED BY <1>1, <5>1
      <4> QED BY <4>1
    <3> QED BY <1>1, <3>1, <3>2
  <2>2. CASE E # <<>>
    <3>1. /\ cursor'[p] = Last(E) /\ Last(E) \in Between(p, from, N)
          /\ \A k \in Between(p, from, N) : k <= cursor'[p]
      BY <1>5, <1>6, <2>2
    <3>2. cursor'[p] \in Own(p) /\ from < cursor'[p] /\ cursor'[p] \in 1..N
      BY <3>1 DEF Between, Own
    <3>3. ASSUME NEW k \in Own(p)
          PROVE  from < k /\ k <= N <=> from < k /\ k <= cursor'[p]
      <4>1. k \in 1..N
        BY DEF Own
      <4> QED BY <1>1, <3>1, <3>2, <4>1 DEF Between
    <3>4. Between(p, from, N) = Between(p, from, cursor'[p])
      BY <3>3 DEF Between
    <3> QED BY <1>1, <3>2, <3>4
  <2> QED BY <2>1, <2>2
<1>8. Carries(wire'[p], Between(p, a, from) \cup Between(p, from, N))
  <2>1. \A k \in Between(p, a, from), l \in Between(p, from, N) : k < l
    <3> SUFFICES ASSUME NEW k \in Between(p, a, from), NEW l \in Between(p, from, N)
                 PROVE  k < l
      OBVIOUS
    <3>1. k \in Nat /\ l \in Nat /\ k <= from /\ from < l
      BY DEF Between, Own
    <3> QED BY <1>1, <3>1
  <2>2. Carries(before \o E, Between(p, a, from) \cup Between(p, from, N))
    <3> HIDE DEF N
    <3> QED BY <1>3, <1>4, <2>1, CarriesConcat
  <2> QED BY <1>5, <2>2
<1>9. Between(p, a, from) \cup Between(p, from, cursor'[p]) = Between(p, a, cursor'[p])
  <2>1. ASSUME NEW k \in Own(p)
        PROVE  (a < k /\ k <= from) \/ (from < k /\ k <= cursor'[p])
               <=> a < k /\ k <= cursor'[p]
    <3>1. k \in Nat
      BY DEF Own
    <3> QED BY <1>1, <1>7, <3>1
  <2> QED BY <2>1 DEF Between
<1>10. a <= cursor'[p]
  BY <1>1, <1>7
<1> QED BY <1>5, <1>7, <1>8, <1>9, <1>10

LEMMA BetweenNone ==
  ASSUME NEW p, NEW a \in Nat
  PROVE  Between(p, a, a) = {}
<1>1. ASSUME NEW k \in Between(p, a, a) PROVE FALSE
  <2>1. k \in Nat /\ a < k /\ k <= a
    BY DEF Between, Own
  <2> QED BY <2>1
<1> QED BY <1>1

(* In every state of the stream, connected or not, each event of a page's  *)
(* mission that the server took from the log is in exactly the place its   *)
(* id and cursor say.                                                      *)
THEOREM AlwaysInPlace == Spec => []IInv
<1>1. Init => IInv
  <2> SUFFICES ASSUME Init, NEW p \in Readers PROVE InPlace(p)
    BY TypeOKInit DEF IInv
  <2>1. Len(log) = 0 /\ Mark(p) = 0 /\ lastId[p] = 0 /\ cursor[p] = 0 /\ read[p] = <<>>
        /\ gathered[p] = <<>> /\ wire[p] = <<>> /\ p \notin open
    BY EmptySeq DEF Init, Mark, None
  <2>2. Between(p, 0, 0) = {}
    BY BetweenNone
  <2> QED BY <2>1, <2>2, CarriesNone DEF InPlace, None
<1>2. IInv /\ [Next]_vars => IInv'
  <2> SUFFICES ASSUME IInv, [Next]_vars PROVE \A p \in Readers : InPlace(p)'
    BY TypeOKStep DEF IInv
  <2>1. /\ TypeOK /\ \A p \in Readers : InPlace(p)
        /\ Len(log) \in Nat /\ 0..Len(log) \subseteq Nat /\ 1..Len(log) \subseteq Nat \ {Blank}
    BY LenProperties DEF IInv, TypeOK, Blank
  <2>2. ASSUME NEW q \in Readers, UNCHANGED log,
               UNCHANGED <<cursor[q], wire[q], gathered[q], lastId[q], read[q]>>,
               q \in open' <=> q \in open
        PROVE  InPlace(q)'
    BY <2>1, <2>2 DEF InPlace, Between, Own, Mark
  <2>3. ASSUME NEW p \in Readers
        PROVE  /\ lastId[p] \in Nat /\ cursor[p] \in Nat /\ Mark(p) \in Nat
               /\ Mark(p) \in Own(p) \cup {None}
               /\ wire[p] \in Seq(Nat) /\ read[p] \in Seq(Nat) /\ gathered[p] \in Seq(Nat \ {Blank})
               /\ gathered[p] \in Seq(Nat)
    <3>1. lastId[p] \in Nat /\ cursor[p] \in Nat
      BY <2>1 DEF TypeOK
    <3>2. wire[p] \in Seq(0..Len(log)) /\ read[p] \in Seq(1..Len(log)) /\ gathered[p] \in Seq(1..Len(log))
      BY <2>1 DEF TypeOK
    <3>3. wire[p] \in Seq(Nat) /\ read[p] \in Seq(Nat) /\ gathered[p] \in Seq(Nat \ {Blank})
          /\ gathered[p] \in Seq(Nat)
      BY <2>1, <3>2, SeqMonotonic
    <3>4. CASE gathered[p] = <<>>
      BY <2>1, <3>1, <3>3, <3>4 DEF Mark, InPlace
    <3>5. CASE gathered[p] # <<>>
      <4>1. Carries(gathered[p], Between(p, lastId[p], Mark(p))) /\ Mark(p) = Last(gathered[p])
        BY <2>1, <3>5 DEF InPlace, Mark
      <4>2. Mark(p) \in Between(p, lastId[p], Mark(p))
        BY <3>3, <3>5, <4>1, LastIsMost
      <4>3. Mark(p) \in Own(p) /\ Mark(p) \in Nat
        BY <4>2 DEF Between, Own
      <4> QED BY <3>1, <3>3, <4>3
    <3> QED BY <3>4, <3>5
  <2>4. ASSUME NEW m \in Missions, Record(m), NEW p \in Readers PROVE InPlace(p)'
    <3>1. Len(log') = Len(log) + 1 /\ \A k \in 1..Len(log) : log'[k] = log[k]
      BY <2>1, <2>4, AppendProperties DEF Record, TypeOK
    <3>2. UNCHANGED <<open, cursor, wire, gathered, lastId, read>>
      BY <2>4 DEF Record, server, reader
    <3>3. Own(p) \subseteq Own(p)'
      BY <2>1, <3>1 DEF Own
    <3>4. ASSUME NEW a \in Nat, NEW b \in Own(p) \cup {None}
          PROVE  Between(p, a, b)' = Between(p, a, b)
      <4>1. b \in 0..Len(log)
        BY <2>1 DEF Own, None
      <4>2. ASSUME NEW k \in Nat, k <= b PROVE k \in Own(p)' <=> k \in Own(p)
        <5>1. k \in 1..Len(log') <=> k \in 1..Len(log)
          BY <2>1, <3>1, <4>1, <4>2
        <5> QED BY <3>1, <5>1 DEF Own
      <4>3. \A k \in Own(p) : k \in Nat
        BY DEF Own
      <4>4. \A k \in Own(p)' : k \in Nat
        BY DEF Own
      <4> QED BY <4>2, <4>3, <4>4 DEF Between
    <3>5. Mark(p)' = Mark(p)
      BY <3>2 DEF Mark
    <3>6. InPlace(p) /\ lastId[p] \in Own(p) \cup {None} /\ cursor[p] \in Own(p) \cup {None}
      BY <2>1 DEF InPlace
    <3>7. /\ Between(p, None, lastId[p])' = Between(p, None, lastId[p])
          /\ Between(p, lastId[p], Mark(p))' = Between(p, lastId[p], Mark(p))
          /\ Between(p, Mark(p), cursor[p])' = Between(p, Mark(p), cursor[p])
      BY <2>3, <3>2, <3>4, <3>5, <3>6 DEF None
    <3> QED BY <3>2, <3>3, <3>5, <3>6, <3>7 DEF InPlace
  <2>5. ASSUME NEW p \in Readers, Connect(p) PROVE \A q \in Readers : InPlace(q)'
    <3>1. /\ p \notin open /\ open' = open \cup {p} /\ Deliver(p, lastId[p], <<Blank>>)
          /\ UNCHANGED <<log, gathered, lastId, read>>
      BY <2>5 DEF Connect, reader
    <3>2. /\ gathered[p] = <<>> /\ Mark(p) = lastId[p] /\ InPlace(p)
          /\ lastId[p] \in Own(p) \cup {None}
      BY <2>1, <3>1 DEF InPlace, Mark
    <3>3. <<Blank>> \in Seq(Nat) /\ Carries(<<Blank>>, Between(p, lastId[p], lastId[p]))
      <4>1. Between(p, lastId[p], lastId[p]) = {}
        BY <2>3, BetweenNone
      <4>2. <<Blank>> \in Seq(Nat)
        BY DEF Blank
      <4> QED BY <4>1, <4>2, CarriesNone
    <3>4. /\ cursor'[p] \in Own(p) \cup {None} /\ lastId[p] <= cursor'[p]
          /\ Carries(wire'[p], Between(p, lastId[p], cursor'[p]))
          /\ \A q \in Readers \ {p} : wire'[q] = wire[q] /\ cursor'[q] = cursor[q]
      <4>1. lastId[p] <= lastId[p]
        BY <2>3
      <4> QED BY <2>1, <2>3, <3>1, <3>2, <3>3, <4>1, DeliverCarries
    <3>5. InPlace(p)'
      BY <3>1, <3>2, <3>4 DEF InPlace, Mark, Between, Own
    <3>6. ASSUME NEW q \in Readers \ {p} PROVE InPlace(q)'
      BY <2>2, <3>1, <3>4
    <3> QED BY <3>5, <3>6
  <2>6. ASSUME NEW p \in Readers, Tick(p) PROVE \A q \in Readers : InPlace(q)'
    <3>1. p \in open /\ UNCHANGED <<log, open, gathered, lastId, read>>
      BY <2>6 DEF Tick, reader
    <3>2. /\ InPlace(p) /\ Mark(p) <= cursor[p] /\ cursor[p] \in Own(p) \cup {None}
          /\ Carries(wire[p], Between(p, Mark(p), cursor[p]))
      BY <2>1, <3>1 DEF InPlace
    <3>3. CASE Deliver(p, cursor[p], wire[p])
      <4>1. /\ cursor'[p] \in Own(p) \cup {None} /\ Mark(p) <= cursor'[p]
            /\ Carries(wire'[p], Between(p, Mark(p), cursor'[p]))
            /\ \A q \in Readers \ {p} : wire'[q] = wire[q] /\ cursor'[q] = cursor[q]
        BY <2>1, <2>3, <3>2, <3>3, DeliverCarries
      <4>2. InPlace(p)'
        BY <3>1, <3>2, <4>1 DEF InPlace, Mark, Between, Own
      <4>3. ASSUME NEW q \in Readers \ {p} PROVE InPlace(q)'
        BY <2>2, <3>1, <4>1
      <4> QED BY <4>2, <4>3
    <3>4. CASE UNCHANGED cursor /\ wire' = [wire EXCEPT ![p] = Append(@, Blank)]
      <4>1. wire'[p] = Append(wire[p], Blank) /\ \A q \in Readers \ {p} : wire'[q] = wire[q]
        BY <2>1, <3>4 DEF TypeOK
      <4>2. Carries(wire'[p], Between(p, Mark(p), cursor[p]))
        BY <2>3, <3>2, <4>1, CarriesBlank
      <4>3. InPlace(p)'
        BY <3>1, <3>2, <3>4, <4>2 DEF InPlace, Mark, Between, Own
      <4>4. ASSUME NEW q \in Readers \ {p} PROVE InPlace(q)'
        BY <2>2, <3>1, <3>4, <4>1
      <4> QED BY <4>3, <4>4
    <3>5. CASE UNCHANGED <<cursor, wire>>
      BY <2>2, <3>1, <3>5
    <3> QED BY <2>6, <3>3, <3>4, <3>5 DEF Tick
  <2>7. ASSUME NEW p \in Readers, ReadEvent(p) PROVE \A q \in Readers : InPlace(q)'
    <3> DEFINE h == Head(wire[p])
               a == lastId[p]
    <3>1. /\ wire[p] # <<>> /\ h # Blank
          /\ wire' = [wire EXCEPT ![p] = Tail(@)]
          /\ gathered' = [gathered EXCEPT ![p] = Append(@, h)]
          /\ UNCHANGED <<log, open, cursor, lastId, read>>
      BY <2>7 DEF ReadEvent, server
    <3>2. /\ wire'[p] = Tail(wire[p]) /\ gathered'[p] = Append(gathered[p], h)
          /\ \A q \in Readers \ {p} : wire'[q] = wire[q] /\ gathered'[q] = gathered[q]
      BY <2>1, <3>1 DEF TypeOK
    <3>3. /\ InPlace(p) /\ p \in open /\ Mark(p) <= cursor[p] /\ a <= Mark(p)
          /\ Carries(wire[p], Between(p, Mark(p), cursor[p]))
          /\ Carries(gathered[p], Between(p, a, Mark(p)))
      BY <2>1, <3>1 DEF InPlace
    <3>4. /\ h \in Between(p, Mark(p), cursor[p])
          /\ \A k \in Between(p, Mark(p), cursor[p]) : h <= k
          /\ Carries(wire'[p], Between(p, Mark(p), cursor[p]) \ {h})
      <4> DEFINE w == wire[p]
                 S == Between(p, Mark(p), cursor[p])
      <4>1. w \in Seq(Nat) /\ Carries(w, S) /\ w # <<>> /\ Head(w) # Blank
        BY <2>3, <3>1, <3>3
      <4>2. Head(w) \in S /\ (\A k \in S : Head(w) <= k) /\ Carries(Tail(w), S \ {Head(w)})
        <5> HIDE DEF w, S
        <5> QED BY <4>1, CarriesTail
      <4> QED BY <3>2, <4>2
    <3>5. h \in Own(p) /\ h \in Nat \ {Blank} /\ Mark(p) < h /\ h <= cursor[p]
      BY <2>1, <3>1, <3>4 DEF Between, Own
    <3>6. Carries(gathered'[p], Between(p, a, Mark(p)) \cup {h})
      <4>1. \A k \in Between(p, a, Mark(p)) : k < h
        <5> SUFFICES ASSUME NEW k \in Between(p, a, Mark(p)) PROVE k < h
          OBVIOUS
        <5>1. k \in Nat /\ k <= Mark(p)
          BY DEF Between, Own
        <5> QED BY <2>3, <3>5, <5>1
      <4> DEFINE g == gathered[p]
                 S == Between(p, a, Mark(p))
      <4>2. g \in Seq(Nat) /\ Carries(g, S) /\ h \in Nat \ {Blank} /\ \A k \in S : k < h
        BY <2>3, <3>3, <3>5, <4>1
      <4>3. Carries(Append(g, h), S \cup {h})
        <5> HIDE DEF g, h, S
        <5> QED BY <4>2, CarriesAppend
      <4> QED BY <3>2, <4>3
    <3>7. Mark(p)' = h
      <4> DEFINE g == gathered[p]
      <4>1. g \in Seq(Nat) /\ h \in Nat
        BY <2>3, <3>5
      <4>2. Append(g, h) # <<>> /\ Last(Append(g, h)) = h
        <5> HIDE DEF g, h
        <5> QED BY <4>1, Appended
      <4> QED BY <3>2, <4>2 DEF Mark
    <3> HIDE DEF h
    <3>8. /\ Between(p, a, Mark(p)) \cup {h} = Between(p, a, h)
          /\ Between(p, Mark(p), cursor[p]) \ {h} = Between(p, h, cursor[p])
      <4>1. ASSUME NEW k \in Own(p)
            PROVE  /\ (a < k /\ k <= Mark(p)) \/ k = h <=> a < k /\ k <= h
                   /\ (Mark(p) < k /\ k <= cursor[p]) /\ k # h <=> h < k /\ k <= cursor[p]
        <5>1. k \in Nat /\ (Mark(p) < k /\ k <= cursor[p] => h <= k)
          BY <3>4 DEF Between, Own
        <5> QED BY <2>3, <3>3, <3>5, <5>1
      <4> QED BY <3>5, <4>1 DEF Between
    <3>9. InPlace(p)'
      <4>1. a <= h
        BY <2>3, <3>3, <3>5
      <4> QED BY <3>1, <3>3, <3>4, <3>5, <3>6, <3>7, <3>8, <4>1 DEF InPlace, Between, Own
    <3>10. ASSUME NEW q \in Readers \ {p} PROVE InPlace(q)'
      BY <2>2, <3>1, <3>2
    <3> QED BY <3>9, <3>10
  <2>8. ASSUME NEW p \in Readers, ReadBlank(p) PROVE \A q \in Readers : InPlace(q)'
    <3> DEFINE a == lastId[p]
    <3>1. /\ wire[p] # <<>> /\ Head(wire[p]) = Blank
          /\ wire' = [wire EXCEPT ![p] = Tail(@)]
          /\ gathered' = [gathered EXCEPT ![p] = <<>>]
          /\ lastId' = [lastId EXCEPT ![p] = IF gathered[p] = <<>> THEN @ ELSE Last(gathered[p])]
          /\ read' = [read EXCEPT ![p] = @ \o gathered[p]]
          /\ UNCHANGED <<log, open, cursor>>
      BY <2>8 DEF ReadBlank, server
    <3>2. /\ wire'[p] = Tail(wire[p]) /\ gathered'[p] = <<>> /\ lastId'[p] = Mark(p)
          /\ read'[p] = read[p] \o gathered[p]
          /\ \A q \in Readers \ {p} :
               UNCHANGED <<wire[q], gathered[q], lastId[q], read[q]>>
      BY <2>1, <3>1 DEF TypeOK, Mark
    <3>3. /\ InPlace(p) /\ p \in open /\ Mark(p) <= cursor[p] /\ a <= Mark(p)
          /\ Carries(wire[p], Between(p, Mark(p), cursor[p]))
          /\ Carries(gathered[p], Between(p, a, Mark(p)))
          /\ Carries(read[p], Between(p, None, a))
      BY <2>1, <3>1 DEF InPlace
    <3>4. Carries(wire'[p], Between(p, Mark(p), cursor[p]))
      <4> DEFINE w == wire[p]
                 S == Between(p, Mark(p), cursor[p])
      <4>1. w \in Seq(Nat) /\ Carries(w, S) /\ w # <<>> /\ Head(w) = Blank
        BY <2>3, <3>1, <3>3
      <4>2. Carries(Tail(w), S)
        <5> HIDE DEF w, S
        <5> QED BY <4>1, CarriesTail
      <4> QED BY <3>2, <4>2
    <3>5. Carries(read'[p], Between(p, None, a) \cup Between(p, a, Mark(p)))
      <4>1. \A k \in Between(p, None, a), l \in Between(p, a, Mark(p)) : k < l
        <5> SUFFICES ASSUME NEW k \in Between(p, None, a), NEW l \in Between(p, a, Mark(p))
                     PROVE  k < l
          OBVIOUS
        <5>1. k \in Nat /\ l \in Nat /\ k <= a /\ a < l
          BY DEF Between, Own
        <5> QED BY <2>3, <5>1
      <4> HIDE DEF a
      <4> QED BY <2>3, <3>2, <3>3, <4>1, CarriesConcat
    <3>6. Between(p, None, a) \cup Between(p, a, Mark(p)) = Between(p, None, Mark(p))
      <4>1. ASSUME NEW k \in Own(p)
            PROVE  (None < k /\ k <= a) \/ (a < k /\ k <= Mark(p)) <=> None < k /\ k <= Mark(p)
        <5>1. k \in Nat
          BY DEF Own
        <5> QED BY <2>3, <3>3, <5>1 DEF None
      <4> QED BY <4>1 DEF Between
    <3>7. Mark(p)' = Mark(p) /\ Mark(p) <= Mark(p)
      BY <2>3, <3>2 DEF Mark
    <3>8. Carries(<<>>, Between(p, Mark(p), Mark(p)))
      BY <2>3, BetweenNone, CarriesNone
    <3>9. InPlace(p)'
      <4>1. /\ Own(p)' = Own(p) /\ p \in open' /\ cursor'[p] = cursor[p]
            /\ \A x, y : Between(p, x, y)' = Between(p, x, y)
        BY <3>1, <3>3 DEF Between, Own
      <4>2. {lastId'[p], cursor'[p]} \subseteq Own(p) \cup {None}
        BY <2>3, <3>2, <3>3, <4>1 DEF InPlace
      <4>3. /\ Between(p, None, lastId[p])' = Between(p, None, Mark(p))
            /\ Between(p, lastId[p], Mark(p))' = Between(p, Mark(p), Mark(p))
            /\ Between(p, Mark(p), cursor[p])' = Between(p, Mark(p), cursor[p])
        BY <3>2, <3>7, <4>1 DEF Between
      <4> QED BY <3>2, <3>3, <3>4, <3>5, <3>6, <3>7, <3>8, <4>1, <4>2, <4>3 DEF InPlace
    <3>10. ASSUME NEW q \in Readers \ {p} PROVE InPlace(q)'
      BY <2>2, <3>1, <3>2
    <3> QED BY <3>9, <3>10
  <2>9. ASSUME NEW p \in Readers, Drop(p) PROVE \A q \in Readers : InPlace(q)'
    <3>1. /\ open' = open \ {p} /\ wire' = [wire EXCEPT ![p] = <<>>]
          /\ gathered' = [gathered EXCEPT ![p] = <<>>]
          /\ UNCHANGED <<log, cursor, lastId, read>>
      BY <2>9 DEF Drop
    <3>2. /\ wire'[p] = <<>> /\ gathered'[p] = <<>>
          /\ \A q \in Readers \ {p} : wire'[q] = wire[q] /\ gathered'[q] = gathered[q]
      BY <2>1, <3>1 DEF TypeOK
    <3>3. Mark(p)' = lastId[p] /\ lastId[p] <= lastId[p]
      BY <2>3, <3>1, <3>2 DEF Mark
    <3>4. Carries(<<>>, Between(p, lastId[p], lastId[p]))
      BY <2>3, BetweenNone, CarriesNone
    <3>5. InPlace(p)'
      <4>1. /\ Own(p)' = Own(p) /\ p \notin open' /\ lastId'[p] = lastId[p]
            /\ cursor'[p] = cursor[p] /\ read'[p] = read[p]
            /\ \A x, y : Between(p, x, y)' = Between(p, x, y)
        BY <3>1 DEF Between, Own
      <4>2. /\ {lastId[p], cursor[p]} \subseteq Own(p) \cup {None}
            /\ Carries(read[p], Between(p, None, lastId[p]))
        BY <2>1 DEF InPlace
      <4>3. Between(p, lastId[p], Mark(p))' = Between(p, lastId[p], lastId[p])
            /\ Between(p, None, lastId[p])' = Between(p, None, lastId[p])
        BY <3>3, <4>1 DEF Between
      <4> QED BY <3>2, <3>3, <3>4, <4>1, <4>2, <4>3 DEF InPlace
    <3>6. ASSUME NEW q \in Readers \ {p} PROVE InPlace(q)'
      BY <2>2, <3>1, <3>2
    <3> QED BY <3>5, <3>6
  <2>10. CASE UNCHANGED vars
    BY <2>2, <2>10 DEF vars, server, reader
  <2> QED BY <2>4, <2>5, <2>6, <2>7, <2>8, <2>9, <2>10 DEF Next
<1> QED BY <1>1, <1>2, PTL DEF Spec

(* What a page has been sent is the beginning of its mission's history,    *)
(* however often the connection was lost with events on the wire or a      *)
(* message half gathered.                                                  *)
THEOREM AlwaysReadInOrder == Spec => []ReadInOrder
<1>1. IInv => ReadInOrder
  <2> SUFFICES ASSUME IInv, NEW p \in Readers
               PROVE  IsPrefix(read[p], EventsAfter(MissionOf[p], None))
    BY DEF ReadInOrder
  <2> DEFINE E == EventsAfter(MissionOf[p], None)
  <2>1. TypeOK /\ InPlace(p) /\ MissionOf[p] \in Missions /\ Len(log) \in Nat
        /\ None \in 0..Len(log)
    BY TimelineAssumption, LenProperties DEF IInv, TypeOK, None
  <2>2. /\ E \in Seq(1..Len(log))
        /\ Carries(E, {k \in 1..Len(log) : log[k] = MissionOf[p] /\ k > Resolve(MissionOf[p], None)})
    BY <2>1, Found
  <2>3. {k \in 1..Len(log) : log[k] = MissionOf[p] /\ k > Resolve(MissionOf[p], None)} = Own(p)
    BY DEF Resolve, Own, None
  <2> HIDE DEF E
  <2>4. read[p] \in Seq(1..Len(log)) /\ 1..Len(log) \subseteq Nat \ {Blank}
    BY <2>1 DEF TypeOK, Blank
  <2>5. read[p] \in Seq(Nat \ {Blank}) /\ E \in Seq(Nat \ {Blank})
    BY <2>2, <2>4, SeqMonotonic
  <2>6. /\ Carries(read[p], Between(p, None, lastId[p]))
        /\ Between(p, None, lastId[p]) \subseteq Own(p)
        /\ \A k \in Own(p), l \in Between(p, None, lastId[p]) :
             k <= l => k \in Between(p, None, lastId[p])
    <3>1. lastId[p] \in Nat /\ Carries(read[p], Between(p, None, lastId[p]))
      BY <2>1 DEF TypeOK, InPlace
    <3>2. ASSUME NEW k \in Own(p), NEW l \in Between(p, None, lastId[p]), k <= l
          PROVE  k \in Between(p, None, lastId[p])
      <4>1. k \in Nat \ {0} /\ l \in Nat /\ l <= lastId[p]
        BY DEF Between, Own
      <4> QED BY <3>1, <3>2, <4>1 DEF Between, None
    <3>3. Between(p, None, lastId[p]) \subseteq Own(p)
      BY DEF Between
    <3> QED BY <3>1, <3>2, <3>3
  <2>7. IsPrefix(read[p], E)
    BY <2>2, <2>3, <2>5, <2>6, CarriesPrefix
  <2> QED BY <2>7 DEF E
<1> QED BY <1>1, AlwaysInPlace, PTL
=============================================================================
