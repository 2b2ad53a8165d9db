--------------------------- MODULE OperatorLemmas ---------------------------
(***************************************************************************)
(* Facts about the operators the models are built from, for every          *)
(* argument: the sums of amounts of QuoteLock and ServiceEscrow, and what  *)
(* the operators of Receipts compute.                                      *)
(***************************************************************************)
EXTENDS Receipts, Functions, FiniteSetTheorems, WellFoundedInduction, TLAPS

-----------------------------------------------------------------------------
(* Induction                                                               *)

(* A set that has each subset of a finite set as soon as it has all the    *)
(* proper subsets of it has every one of them.                             *)
LEMMA SubsetInduction ==
  ASSUME NEW S, IsFiniteSet(S), NEW P,
         \A s \in SUBSET S : (\A t \in SUBSET s : t # s => t \in P) => s \in P
  PROVE  \A s \in SUBSET S : s \in P
<1> DEFINE Bad == {s \in SUBSET S : s \notin P}
           Below == StrictSubsetOrdering(S)
<1>1. SUFFICES ASSUME Bad # {} PROVE FALSE
  OBVIOUS
<1>2. IsWellFoundedOn(Below, FiniteSubsetsOf(S))
  BY FS_StrictSubsetOrderingWellFounded
<1>3. Bad \subseteq FiniteSubsetsOf(S)
  BY FS_Subset DEF FiniteSubsetsOf
<1>4. PICK s \in Bad : \A t \in Bad : ~(<<t, s>> \in Below)
  <2> HIDE DEF Bad, Below
  <2>1. Bad \in SUBSET FiniteSubsetsOf(S)
    BY <1>3
  <2> QED BY <1>1, <1>2, <1>3, WFMin
<1>5. ASSUME NEW t \in SUBSET s, t # s PROVE t \in P
  <2>1. <<t, s>> \in Below
    BY <1>5 DEF StrictSubsetOrdering
  <2> QED BY <1>4, <2>1, <1>5
<1> QED BY <1>4, <1>5

(* A set of numbers with a member has a least one.                        *)
LEMMA LeastOf ==
  ASSUME NEW T \in SUBSET Nat, T # {}
  PROVE  \E i \in T : \A j \in T : i <= j
<1> DEFINE Below == {ss \in Nat \X Nat : ss[1] < ss[2]}
<1>1. IsWellFoundedOn(Below, Nat)
  BY NatLessThanWellFounded DEF OpToRel
<1>2. PICK i \in T : \A j \in T : ~(<<j, i>> \in Below)
  BY <1>1, WFMin, Zenon
<1>3. ASSUME NEW j \in T PROVE ~(j < i)
  <2> SUFFICES ASSUME j < i PROVE FALSE
    OBVIOUS
  <2>1. <<j, i>> \in Nat \X Nat /\ <<j, i>>[1] < <<j, i>>[2]
    OBVIOUS
  <2> QED BY <1>2, <2>1
<1> QED BY <1>3

(* A set of numbers up to n with a member has a greatest one. *)
LEMMA GreatestOf ==
  ASSUME NEW n \in Nat, NEW T \in SUBSET (1..n), T # {}
  PROVE  \E i \in T : \A j \in T : i >= j
<1> DEFINE U == {k \in Nat : n - k \in T}
<1>1. U \in SUBSET Nat
  OBVIOUS
<1>2. PICK t \in T : TRUE
  OBVIOUS
<1>3. n - t \in U
  OBVIOUS
<1>4. PICK k \in U : \A j \in U : k <= j
  <2> HIDE DEF U
  <2> QED BY <1>1, <1>3, LeastOf
<1>5. n - k \in T
  OBVIOUS
<1>6. \A j \in T : n - j \in U
  OBVIOUS
<1>7. \A j \in T : k <= n - j
  BY <1>4, <1>6
<1> QED BY <1>5, <1>7

(* Induction on the numbers, over a set. *)
LEMMA NatSetInduction ==
  ASSUME NEW P, 0 \in P, \A n \in Nat : n \in P => n + 1 \in P
  PROVE  \A n \in Nat : n \in P
<1> DEFINE Bad == {n \in Nat : n \notin P}
<1> SUFFICES ASSUME Bad # {} PROVE FALSE
  OBVIOUS
<1>1. Bad \in SUBSET Nat
  OBVIOUS
<1>2. PICK n \in Bad : \A k \in Bad : n <= k
  <2> HIDE DEF Bad
  <2> QED BY <1>1, LeastOf
<1>3. n \in Nat /\ n # 0 /\ n - 1 \in Nat /\ n - 1 \notin Bad
  BY <1>2
<1>4. (n - 1) + 1 \in P
  BY <1>3
<1> QED BY <1>3, <1>4, <1>2

-----------------------------------------------------------------------------
(* The function that the library's sum over a set iterates. *)
Pick(s) == CHOOSE x \in s : TRUE
IsIter(F, f, S) ==
  F = [s \in SUBSET S |-> IF s = {} THEN 0 ELSE f[Pick(s)] + F[s \ {Pick(s)}]]

LEMMA SumIter ==
  ASSUME NEW f, NEW S
  PROVE  SumFunctionOnSet(f, S) = (CHOOSE F : IsIter(F, f, S))[S]
  BY DEF SumFunctionOnSet, FoldFunctionOnSet, MapThenFoldSet, IsIter, Pick

(* Two such functions agree where both are defined and sum the same.       *)
LEMMA IterUnique ==
  ASSUME NEW f, NEW g, NEW F, NEW G, NEW S, NEW T, IsIter(F, f, S), IsIter(G, g, T),
         NEW U, IsFiniteSet(U), U \subseteq S, U \subseteq T, \A x \in U : f[x] = g[x]
  PROVE  F[U] = G[U]
<1> DEFINE P == {s \in SUBSET U : F[s] = G[s]}
<1>1. ASSUME NEW s \in SUBSET U, \A t \in SUBSET s : t # s => t \in P
      PROVE  s \in P
  <2>1. s \in SUBSET S /\ s \in SUBSET T
    OBVIOUS
  <2>2. /\ F[s] = IF s = {} THEN 0 ELSE f[Pick(s)] + F[s \ {Pick(s)}]
        /\ G[s] = IF s = {} THEN 0 ELSE g[Pick(s)] + G[s \ {Pick(s)}]
    BY <2>1 DEF IsIter
  <2>3. CASE s # {}
    <3>1. Pick(s) \in s
      BY <2>3 DEF Pick
    <3>2. s \ {Pick(s)} \in P
      BY <1>1, <3>1
    <3> QED BY <2>2, <2>3, <3>1, <3>2
  <2> QED BY <2>2, <2>3
<1>2. \A s \in SUBSET U : s \in P
  <2> HIDE DEF P
  <2> QED BY <1>1, SubsetInduction
<1> QED BY <1>2

LEMMA IterExists ==
  ASSUME NEW f, NEW S, IsFiniteSet(S)
  PROVE  \E F : IsIter(F, f, S)
<1> DEFINE P == {s \in SUBSET S : \E F : IsIter(F, f, s)}
           At(s) == CHOOSE F : IsIter(F, f, s)
<1>1. ASSUME NEW s \in SUBSET S, \A t \in SUBSET s : t # s => t \in P
      PROVE  s \in P
  <2> DEFINE H == [t \in SUBSET s |->
                     IF t = {} THEN 0 ELSE f[Pick(t)] + At(t \ {Pick(t)})[t \ {Pick(t)}]]
  <2>1. ASSUME NEW u \in SUBSET s, u # s PROVE IsIter(At(u), f, u)
    BY <1>1, <2>1
  <2>2. ASSUME NEW u \in SUBSET s, u # s PROVE H[u] = At(u)[u]
    <3>1. At(u)[u] = IF u = {} THEN 0 ELSE f[Pick(u)] + At(u)[u \ {Pick(u)}]
      <4> HIDE DEF At
      <4> QED BY <2>1, <2>2 DEF IsIter
    <3>2. CASE u # {}
      <4> DEFINE v == u \ {Pick(u)}
      <4>1. Pick(u) \in u
        BY <3>2 DEF Pick
      <4>2. v \in SUBSET s /\ v # s /\ v \subseteq u /\ IsFiniteSet(v)
        BY <4>1, <2>2, FS_Subset
      <4>3. IsIter(At(v), f, v) /\ IsIter(At(u), f, u)
        BY <2>1, <2>2, <4>2
      <4>4. At(v)[v] = At(u)[v]
        <5> HIDE DEF At, v
        <5> QED BY <4>2, <4>3, IterUnique
      <4> QED BY <3>1, <3>2, <4>4
    <3> QED BY <3>1, <3>2
  <2>3. ASSUME NEW t \in SUBSET s
        PROVE  H[t] = IF t = {} THEN 0 ELSE f[Pick(t)] + H[t \ {Pick(t)}]
    <3>1. CASE t # {}
      <4>1. Pick(t) \in t
        BY <3>1 DEF Pick
      <4>2. t \ {Pick(t)} \in SUBSET s /\ t \ {Pick(t)} # s
        BY <4>1
      <4>3. H[t \ {Pick(t)}] = At(t \ {Pick(t)})[t \ {Pick(t)}]
        BY <2>2, <4>2
      <4>4. H[t] = f[Pick(t)] + At(t \ {Pick(t)})[t \ {Pick(t)}]
        BY <3>1
      <4> QED BY <3>1, <4>3, <4>4
    <3> QED BY <3>1
  <2>4. IsIter(H, f, s)
    <3>1. H = [t \in SUBSET s |-> H[t]]
      OBVIOUS
    <3> HIDE DEF H
    <3> QED BY <2>3, <3>1 DEF IsIter
  <2> QED BY <2>4
<1>2. \A s \in SUBSET S : s \in P
  <2> HIDE DEF P
  <2> QED BY <1>1, SubsetInduction
<1> QED BY <1>2

-----------------------------------------------------------------------------
(* Sums over finite sets                                                   *)

LEMMA SumIsIter ==
  ASSUME NEW f, NEW S, IsFiniteSet(S)
  PROVE  \E F : IsIter(F, f, S) /\ SumFunctionOnSet(f, S) = F[S]
  BY SumIter, IterExists

LEMMA SumAgrees ==
  ASSUME NEW f, NEW g, NEW S, IsFiniteSet(S), \A x \in S : f[x] = g[x]
  PROVE  SumFunctionOnSet(f, S) = SumFunctionOnSet(g, S)
<1>1. PICK F : IsIter(F, f, S) /\ SumFunctionOnSet(f, S) = F[S]
  BY SumIsIter
<1>2. PICK G : IsIter(G, g, S) /\ SumFunctionOnSet(g, S) = G[S]
  BY SumIsIter
<1> QED BY <1>1, <1>2, IterUnique

LEMMA SumEmpty == ASSUME NEW f PROVE SumFunctionOnSet(f, {}) = 0
<1>1. IsFiniteSet({})
  BY FS_EmptySet
<1>2. PICK F : IsIter(F, f, {}) /\ SumFunctionOnSet(f, {}) = F[{}]
  BY <1>1, SumIsIter
<1> QED BY <1>2 DEF IsIter

LEMMA SumPicked ==
  ASSUME NEW f, NEW S, IsFiniteSet(S), S # {}
  PROVE  /\ Pick(S) \in S
         /\ SumFunctionOnSet(f, S) = f[Pick(S)] + SumFunctionOnSet(f, S \ {Pick(S)})
<1> DEFINE R == S \ {Pick(S)}
<1>1. Pick(S) \in S
  BY DEF Pick
<1>2. IsFiniteSet(R) /\ R \subseteq S
  BY FS_Subset
<1>3. PICK F : IsIter(F, f, S) /\ SumFunctionOnSet(f, S) = F[S]
  BY SumIsIter
<1>4. PICK G : IsIter(G, f, R) /\ SumFunctionOnSet(f, R) = G[R]
  BY <1>2, SumIsIter
<1>5. F[R] = G[R]
  <2> HIDE DEF R
  <2> QED BY <1>2, <1>3, <1>4, IterUnique
<1>6. F[S] = f[Pick(S)] + F[R]
  BY <1>3 DEF IsIter
<1> QED BY <1>1, <1>3, <1>4, <1>5, <1>6

LEMMA SumNat ==
  ASSUME NEW f, NEW S, IsFiniteSet(S), \A x \in S : f[x] \in Nat
  PROVE  SumFunctionOnSet(f, S) \in Nat
<1> DEFINE P == {s \in SUBSET S : SumFunctionOnSet(f, s) \in Nat}
<1>1. ASSUME NEW s \in SUBSET S, \A t \in SUBSET s : t # s => t \in P
      PROVE  s \in P
  <2>1. CASE s = {}
    BY <2>1, SumEmpty
  <2>2. CASE s # {}
    <3>1. IsFiniteSet(s)
      BY FS_Subset
    <3>2. Pick(s) \in s /\ SumFunctionOnSet(f, s) = f[Pick(s)] + SumFunctionOnSet(f, s \ {Pick(s)})
      BY <2>2, <3>1, SumPicked
    <3>3. s \ {Pick(s)} \in P
      BY <1>1, <3>2
    <3> QED BY <3>2, <3>3
  <2> QED BY <2>1, <2>2
<1>2. \A s \in SUBSET S : s \in P
  <2> HIDE DEF P
  <2> QED BY <1>1, SubsetInduction
<1> QED BY <1>2

(* A sum may be taken apart at any of its elements. *)
LEMMA SumRemove ==
  ASSUME NEW f, NEW S, IsFiniteSet(S), \A x \in S : f[x] \in Nat, NEW e \in S
  PROVE  SumFunctionOnSet(f, S) = f[e] + SumFunctionOnSet(f, S \ {e})
<1> DEFINE Sum(s) == SumFunctionOnSet(f, s)
           P == {s \in SUBSET S : \A x \in s : Sum(s) = f[x] + Sum(s \ {x})}
<1>0. ASSUME NEW s \in SUBSET S PROVE IsFiniteSet(s) /\ Sum(s) \in Nat
  BY FS_Subset, SumNat
<1>1. ASSUME NEW s \in SUBSET S, \A t \in SUBSET s : t # s => t \in P
      PROVE  s \in P
  <2>1. ASSUME NEW x \in s PROVE Sum(s) = f[x] + Sum(s \ {x})
    <3> DEFINE c == Pick(s)
    <3>1. c \in s /\ Sum(s) = f[c] + Sum(s \ {c})
      BY <1>0, <2>1, SumPicked
    <3>2. CASE x # c
      <4>1. Sum(s \ {c}) = f[x] + Sum((s \ {c}) \ {x})
        BY <1>1, <2>1, <3>1, <3>2
      <4>2. Sum(s \ {x}) = f[c] + Sum((s \ {x}) \ {c})
        BY <1>1, <2>1, <3>1, <3>2
      <4>3. (s \ {c}) \ {x} = (s \ {x}) \ {c}
        OBVIOUS
      <4>4. f[x] \in Nat /\ f[c] \in Nat /\ Sum((s \ {x}) \ {c}) \in Nat
        BY <1>0, <2>1, <3>1
      <4> HIDE DEF Sum, c
      <4> QED BY <3>1, <4>1, <4>2, <4>3, <4>4
    <3> QED BY <3>1, <3>2
  <2> QED BY <2>1
<1>2. \A s \in SUBSET S : s \in P
  <2> HIDE DEF P
  <2> QED BY <1>1, SubsetInduction
<1> QED BY <1>2

(* More elements, or larger ones, have a larger sum. *)
LEMMA SumMonotone ==
  ASSUME NEW f, NEW g, NEW T, IsFiniteSet(T), NEW S \in SUBSET T,
         \A x \in T : g[x] \in Nat, \A x \in S : f[x] \in Nat /\ f[x] <= g[x]
  PROVE  SumFunctionOnSet(f, S) <= SumFunctionOnSet(g, T)
<1> DEFINE F(s) == SumFunctionOnSet(f, s \cap S)
           G(s) == SumFunctionOnSet(g, s)
           P == {s \in SUBSET T : F(s) <= G(s)}
<1>0. ASSUME NEW s \in SUBSET T
      PROVE  /\ IsFiniteSet(s) /\ IsFiniteSet(s \cap S) /\ F(s) \in Nat /\ G(s) \in Nat
  <2>1. IsFiniteSet(s) /\ IsFiniteSet(s \cap S)
    BY FS_Subset
  <2> QED BY <2>1, SumNat
<1>1. ASSUME NEW s \in SUBSET T, \A t \in SUBSET s : t # s => t \in P
      PROVE  s \in P
  <2>1. CASE s = {}
    <3>1. s \cap S = {}
      BY <2>1
    <3>2. F(s) = 0 /\ G(s) = 0
      BY <2>1, <3>1, SumEmpty
    <3> QED BY <3>2
  <2>2. CASE s # {}
    <3> PICK x \in s : TRUE
      BY <2>2
    <3> DEFINE r == s \ {x}
    <3>1. F(r) <= G(r) /\ F(r) \in Nat /\ G(r) \in Nat
      BY <1>0, <1>1
    <3>2. G(s) = g[x] + G(r) /\ g[x] \in Nat
      BY <1>0, SumRemove
    <3>3. CASE x \in S
      <4>1. (s \cap S) \ {x} = r \cap S
        OBVIOUS
      <4>2. F(s) = f[x] + F(r)
        <5>1. SumFunctionOnSet(f, s \cap S) = f[x] + SumFunctionOnSet(f, (s \cap S) \ {x})
          BY <1>0, <3>3, SumRemove
        <5> QED BY <4>1, <5>1
      <4>3. f[x] \in Nat /\ f[x] <= g[x]
        BY <3>3
      <4> HIDE DEF F, G, r
      <4>4. F(s) <= G(s)
        BY <3>1, <3>2, <4>2, <4>3
      <4> QED BY <4>4
    <3>4. CASE x \notin S
      <4>1. s \cap S = r \cap S
        BY <3>4
      <4>2. F(s) = F(r)
        BY <4>1
      <4> HIDE DEF F, G, r
      <4>3. F(s) <= G(s)
        BY <3>1, <3>2, <4>2
      <4> QED BY <4>3
    <3> QED BY <3>3, <3>4
  <2> QED BY <2>1, <2>2
<1>2. \A s \in SUBSET T : s \in P
  <2> HIDE DEF P
  <2> QED BY <1>1, SubsetInduction
<1>3. F(T) <= G(T)
  BY <1>2
<1>4. T \cap S = S
  OBVIOUS
<1> QED BY <1>3, <1>4

-----------------------------------------------------------------------------
(* Receipts                                                                *)

(* A receipt as it was signed by a key over a status, whatever its status  *)
(* is now.                                                                 *)
SignedOver(r, key, over) ==
  /\ r.result = ServiceResult(r, over)
  /\ r.signature = Signature(key, r, r.result, over)

(* Signing a receipt signs it over the status it carries.                  *)
LEMMA SigningSigns ==
  ASSUME NEW key, NEW r
  PROVE  /\ SignedOver(Signed(key, r), key, r.status)
         /\ Signed(key, r).status = r.status /\ Signed(key, r).terms = r.terms
         /\ Signed(key, r).resource = r.resource /\ Signed(key, r).context = r.context
  BY DEF SignedOver, Signed, ServiceResult, Signature

(* The delivery half says all: two receipts of one delivery half have one  *)
(* dual receipt.                                                           *)
LEMMA DeliveryDetermines ==
  ASSUME NEW r, NEW s, NEW key, Delivery(r) = Delivery(s)
  PROVE  Dual(r, key) = Dual(s, key)
<1>1. /\ r.context = s.context /\ r.response = s.response /\ r.resource = s.resource
      /\ r.at = s.at /\ r.signature = s.signature
      /\ ServiceResult(r, r.status) = ServiceResult(s, s.status)
      /\ Payment(r) = Payment(s)
  BY DEF Delivery
<1>2. r.status = s.status
  BY <1>1 DEF ServiceResult
<1>3. Signature(key, r, ServiceResult(r, r.status), r.status)
        = Signature(key, s, ServiceResult(s, s.status), s.status)
  BY <1>1, <1>2 DEF Signature
<1> QED BY <1>1, <1>3 DEF Dual

(* Records of dual receipts that one key made.                             *)
RecordsOf(records, key) == \A old \in records : \E s : old = ReplayRecord(Dual(s, key))

LEMMA NoConflict ==
  ASSUME NEW r, NEW key, NEW records, RecordsOf(records, key)
  PROVE  ~Conflicts(Dual(r, key), records)
<1>1. SUFFICES ASSUME NEW old \in Replays(Dual(r, key), records) PROVE old.dual = Dual(r, key)
  BY DEF Conflicts
<1>2. PICK s : old = ReplayRecord(Dual(s, key))
  BY DEF Replays, RecordsOf
<1>3. Delivery(s) = Delivery(r)
  BY <1>2 DEF Replays, ReplayRecord, Dual
<1>4. Dual(s, key) = Dual(r, key)
  BY <1>3, DeliveryDetermines
<1> QED BY <1>2, <1>4 DEF ReplayRecord

(* One delivery of one payment has one record.                             *)
LEMMA OneRecord ==
  ASSUME NEW records, NEW key, RecordsOf(records, key),
         NEW a \in records, NEW b \in records, a.delivery = b.delivery
  PROVE  a.dual = b.dual
<1>1. PICK r : a = ReplayRecord(Dual(r, key))
  BY DEF RecordsOf
<1>2. PICK s : b = ReplayRecord(Dual(s, key))
  BY DEF RecordsOf
<1>3. Delivery(r) = Delivery(s)
  BY <1>1, <1>2 DEF ReplayRecord, Dual
<1> QED BY <1>1, <1>2, <1>3, DeliveryDetermines DEF ReplayRecord

-----------------------------------------------------------------------------
(* The statuses that a delivery half can say. *)
Sayable == {"delivered", "paid_but_not_delivered", "failed"}

LEMMA SaidAsIs == ASSUME NEW status PROVE DeliveryStatus(status) = status <=> status \in Sayable
  BY DEF DeliveryStatus, Sayable

(* The check of a dual receipt against its own receipt's context and       *)
(* resource accepts what the expected key signed over the status the       *)
(* receipt carries, on the expected terms, and nothing else.               *)
LEMMA AcceptedIff ==
  ASSUME NEW r, NEW key, NEW over, NEW expected, NEW records,
         SignedOver(r, key, over), RecordsOf(records, expected.key),
         expected.context = r.context, expected.resource = r.resource
  PROVE  DualHolds(Dual(r, expected.key), expected, records)
           <=> /\ key = expected.key /\ over = r.status /\ r.terms = expected.terms
               /\ r.status \in Sayable
<1> DEFINE d == Delivery(r)
           dual == Dual(r, expected.key)
<1>1. /\ dual.payment.context = expected.context /\ dual.delivery.context = expected.context
      /\ dual.payment.terms = r.terms /\ dual.delivery.resource = expected.resource
      /\ dual.key = expected.key /\ dual.final = FinalStatus(dual.payment, dual.delivery)
      /\ dual.delivery = d
  BY DEF Dual, Delivery, Payment
<1>2. ~Conflicts(dual, records)
  BY NoConflict
<1>3. ResultHolds(d) <=> r.status \in Sayable
  <2>1. ResultHolds(d) <=> ServiceResult(r, r.status) = ServiceResult(r, DeliveryStatus(r.status))
    BY DEF ResultHolds, Delivery, ServiceResult
  <2>2. ResultHolds(d) <=> r.status = DeliveryStatus(r.status)
    BY <2>1 DEF ServiceResult
  <2> QED BY <2>2, SaidAsIs
<1>4. ASSUME r.status \in Sayable
      PROVE  /\ SignatureHolds(dual, expected.key) <=> key = expected.key /\ over = r.status
             /\ dual.verified = SignatureHolds(dual, expected.key)
  <2>1. DeliveryStatus(r.status) = r.status
    BY <1>4, SaidAsIs
  <2>2. Signature(expected.key, d, d.result, d.status)
          = Signature(expected.key, r, ServiceResult(r, r.status), r.status)
    BY <2>1 DEF Signature, Delivery
  <2>3. SignatureHolds(dual, expected.key)
          <=> r.signature = Signature(expected.key, r, ServiceResult(r, r.status), r.status)
    <3>1. dual.delivery = d /\ d.signature = r.signature
      BY DEF Dual, Delivery
    <3> QED BY <2>2, <3>1 DEF SignatureHolds
  <2>4. r.signature = Signature(expected.key, r, ServiceResult(r, r.status), r.status)
          <=> key = expected.key /\ over = r.status
    BY DEF SignedOver, Signature, ServiceResult
  <2>5. dual.verified = (r.signature = Signature(expected.key, r, ServiceResult(r, r.status), r.status))
    BY DEF Dual
  <2>6. SignatureHolds(dual, expected.key) \in BOOLEAN
    BY DEF SignatureHolds
  <2> QED BY <2>3, <2>4, <2>5, <2>6
<1>5. DualHolds(dual, expected, records)
        <=> /\ r.terms = expected.terms
            /\ ResultHolds(d)
            /\ SignatureHolds(dual, expected.key)
            /\ dual.verified = SignatureHolds(dual, expected.key)
  BY <1>1, <1>2 DEF DualHolds
<1> QED BY <1>3, <1>4, <1>5

(* What an accepted dual receipt says is what the receipt said.            *)
LEMMA AllIsTold ==
  ASSUME NEW r, NEW key, r.status \in Sayable
  PROVE  /\ Dual(r, key).final = r.status
         /\ Dual(r, key).payment.status = "failed" <=> r.status = "failed"
<1>1. CASE r.status = "delivered"
  BY <1>1 DEF Dual, Payment, Delivery, PaymentStatus, DeliveryStatus, FinalStatus
<1>2. CASE r.status = "paid_but_not_delivered"
  BY <1>2 DEF Dual, Payment, Delivery, PaymentStatus, DeliveryStatus, FinalStatus
<1>3. CASE r.status = "failed"
  BY <1>3 DEF Dual, Payment, Delivery, PaymentStatus, DeliveryStatus, FinalStatus
<1> QED BY <1>1, <1>2, <1>3 DEF Sayable

-----------------------------------------------------------------------------
(* A receipt that is right but for a denial of delivery, and for what the  *)
(* checks after the denial find, is paid and not delivered.                *)
LEMMA DenialFound ==
  ASSUME NEW r, NEW body, NEW expected, body.denies,
         r.context = expected.context, r.terms = expected.terms, r.resource = expected.resource,
         r.response = body.hash, SignedOver(r, expected.key, r.status), expected.schema = r.schema
  PROVE  ServiceOutcome(r, body, expected) = "paid_but_not_delivered"
<1> DEFINE checks == ServiceChecks(r, body, expected)
           failed == {i \in 1..9 : ~checks[i][2]}
           first == CHOOSE i \in failed : \A j \in failed : i <= j
<1>1. checks[1][2] /\ checks[2][2] /\ checks[3][2] /\ checks[4][2] /\ checks[5][2] /\ ~checks[7][2]
  BY DEF ServiceChecks, SignedOver
<1>2. \E i \in failed : \A j \in failed : i <= j
  <2>1. 7 \in failed /\ \A j \in failed : j >= 6
    BY <1>1
  <2>2. CASE 6 \in failed
    BY <2>1, <2>2
  <2>3. CASE 6 \notin failed
    BY <2>1, <2>3
  <2> QED BY <2>2, <2>3
<1>3. first \in failed /\ \A j \in failed : first <= j
  BY <1>2
<1>4. first \in {6, 7}
  BY <1>1, <1>3
<1>5. checks[6][1] = "responseBodyShape" /\ checks[7][1] = "deliveryNotDenied"
  BY DEF ServiceChecks
<1>6. failed # {}
  BY <1>3
<1> QED BY <1>4, <1>5, <1>6 DEF ServiceOutcome

(* A receipt with other terms, or that another key signed, fails whatever  *)
(* its body says.                                                          *)
LEMMA DenialHidden ==
  ASSUME NEW r, NEW body, NEW expected,
         r.terms # expected.terms
           \/ r.signature # Signature(expected.key, r, r.result, r.status)
  PROVE  ServiceOutcome(r, body, expected) = "failed"
<1> DEFINE checks == ServiceChecks(r, body, expected)
           failed == {i \in 1..9 : ~checks[i][2]}
           first == CHOOSE i \in failed : \A j \in failed : i <= j
<1>1. ~checks[1][2] \/ ~checks[4][2]
  BY DEF ServiceChecks
<1>2. failed \in SUBSET Nat /\ failed # {} /\ \E i \in failed : i <= 4
  BY <1>1
<1>3. \E i \in failed : \A j \in failed : i <= j
  BY <1>2, LeastOf
<1>4. first \in failed /\ \A j \in failed : first <= j
  BY <1>3
<1>5. first \in {1, 2, 3, 4}
  BY <1>2, <1>4
<1>6. checks[first][1] \in {"terms", "resource", "responseHash", "providerSignature"}
  <2>1. /\ checks[1][1] = "terms" /\ checks[2][1] = "resource"
        /\ checks[3][1] = "responseHash" /\ checks[4][1] = "providerSignature"
    BY DEF ServiceChecks
  <2> QED BY <1>5, <2>1
<1> HIDE DEF checks
<1> QED BY <1>2, <1>6 DEF ServiceOutcome, checks
=============================================================================
