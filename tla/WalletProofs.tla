---------------------------- MODULE WalletProofs ----------------------------
(***************************************************************************)
(* What the proofs about money rest on: what one wallet call leaves        *)
(* behind, for every record and amount, and what a sum over users or       *)
(* auctions does when one of its summands changes.                         *)
(***************************************************************************)
EXTENDS Wallet, Functions, FiniteSetTheorems, WellFoundedInduction, TLAPS

\* The amounts the callers of wallet.c pass: only a credit may be negative
\* (the dispute refund takes the money back from the seller that way).
CallAmount(op, amount) ==
  op \in Ops /\ amount \in Int /\ (amount < 0 => op = "credit")

\* A call, accepted or refused, leaves two non-negative fields.
LEMMA OutcomeType ==
  ASSUME NEW w \in WalletRecord, NEW op, NEW amount, CallAmount(op, amount)
  PROVE  Outcome(op, w, amount) \in WalletRecord
BY DEF CallAmount, Ops, WalletRecord, Outcome, Accepted, ApplyDelta,
       DeltaAccepted, NewHold, BalanceDelta, HoldDelta

\* A call never leaves more on hold than there is: what the guards of
\* apply_wallet_delta are for.
THEOREM OutcomeSound ==
  ASSUME NEW w \in WalletRecord, NEW op, NEW amount, CallAmount(op, amount),
         Sound(w)
  PROVE  Sound(Outcome(op, w, amount))
BY DEF CallAmount, Ops, WalletRecord, Outcome, Accepted, ApplyDelta, Sound,
       DeltaAccepted, NewHold, BalanceDelta, HoldDelta

\* What each call leaves behind when it is accepted, and when that is sure.
LEMMA HoldOutcome ==
  ASSUME NEW w \in WalletRecord, NEW n \in Nat, n <= Available(w)
  PROVE  Outcome("hold", w, n) = [balance |-> w.balance, hold |-> w.hold + n]
BY DEF WalletRecord, Outcome, Accepted, FundsCover, ApplyDelta, Available,
       DeltaAccepted, NewHold, BalanceDelta, HoldDelta

LEMMA ReleaseOutcome ==
  ASSUME NEW w \in WalletRecord, NEW n \in Nat, Sound(w)
  PROVE  Outcome("release", w, n) =
           [balance |-> w.balance, hold |-> IF w.hold < n THEN 0 ELSE w.hold - n]
BY DEF WalletRecord, Outcome, Accepted, FundsCover, ApplyDelta, Sound,
       DeltaAccepted, NewHold, BalanceDelta, HoldDelta

LEMMA SettleOutcome ==
  ASSUME NEW w \in WalletRecord, NEW n \in Nat, Sound(w), n <= w.hold
  PROVE  Outcome("settle", w, n) =
           [balance |-> w.balance - n, hold |-> w.hold - n]
BY DEF WalletRecord, Outcome, Accepted, FundsCover, ApplyDelta, Sound,
       DeltaAccepted, NewHold, BalanceDelta, HoldDelta

LEMMA CreditOutcome ==
  ASSUME NEW w \in WalletRecord, NEW n \in Nat, Sound(w)
  PROVE  Outcome("credit", w, n) =
           [balance |-> w.balance + n, hold |-> w.hold]
BY DEF WalletRecord, Outcome, Accepted, FundsCover, ApplyDelta, Sound,
       DeltaAccepted, NewHold, BalanceDelta, HoldDelta

\* Freezing and unfreezing move no money, and a payment takes the price at
\* most.
LEMMA OutcomeBalance ==
  ASSUME NEW w \in WalletRecord, NEW n \in Nat
  PROVE  /\ Outcome("hold", w, n).balance = w.balance
         /\ Outcome("release", w, n).balance = w.balance
         /\ Outcome("settle", w, n).balance >= w.balance - n
<1>1. Outcome("hold", w, n).balance = w.balance
  BY DEF WalletRecord, Outcome, ApplyDelta, BalanceDelta
<1>2. Outcome("release", w, n).balance = w.balance
  BY DEF WalletRecord, Outcome, ApplyDelta, BalanceDelta
<1>3. Outcome("settle", w, n).balance >= w.balance - n
  BY DEF WalletRecord, Outcome, ApplyDelta, BalanceDelta
<1> QED
  BY <1>1, <1>2, <1>3

-----------------------------------------------------------------------------
(* Sums *)

\* Every non-empty set of numbers has a least element: the induction
\* principle of the lemmas below, in a form without predicates.
LEMMA LeastNumber ==
  ASSUME NEW T, T \subseteq Nat, T # {}
  PROVE  \E n \in T : \A m \in T : n <= m
<1> DEFINE R == OpToRel(<, Nat)
<1>1. IsWellFoundedOn(R, Nat)
  BY NatLessThanWellFounded
<1>2. R = {ss \in Nat \X Nat : ss[1] < ss[2]}
  BY DEF OpToRel
<1> HIDE DEF R
<1>3. PICK n \in T : \A m \in T : <<m, n>> \notin R
  BY <1>1, WFMin
<1>4. ASSUME NEW m \in T PROVE n <= m
  <2>1. <<m, n>> \notin R
    BY <1>3
  <2>2. ~(m < n)
    BY <1>2, <2>1
  <2> QED
    BY <2>2
<1> QED
  BY <1>4

\* Among some subsets of a finite set one is smallest: taking an element
\* out of it leaves a set that is not among them.
LEMMA SmallestSubset ==
  ASSUME NEW S, IsFiniteSet(S), NEW T, T \subseteq SUBSET S, T # {}
  PROVE  \E s \in T : \A x \in s : s \ {x} \notin T
<1> DEFINE sizes == {Cardinality(s) : s \in T}
<1>1. \A s \in SUBSET S : IsFiniteSet(s) /\ Cardinality(s) \in Nat
  BY FS_Subset, FS_CardinalityType
<1>2. PICK n \in sizes : \A m \in sizes : n <= m
  <2> sizes \subseteq Nat /\ sizes # {}
    BY <1>1
  <2> HIDE DEF sizes
  <2> QED
    BY LeastNumber
<1>3. PICK s \in T : Cardinality(s) = n
  OBVIOUS
<1>4. ASSUME NEW x \in s, s \ {x} \in T PROVE FALSE
  <2>1. IsFiniteSet(s) /\ Cardinality(s) \in Nat
    BY <1>1
  <2>2. Cardinality(s \ {x}) = Cardinality(s) - 1
    BY <1>4, <2>1, FS_RemoveElement
  <2>3. Cardinality(s) <= Cardinality(s \ {x})
    BY <1>2, <1>3, <1>4
  <2> QED
    BY <2>1, <2>2, <2>3
<1> QED
  BY <1>4

\* The partial sums that SumFunction defines by recursion.
Pick(s) == CHOOSE x \in s : TRUE
PartialSums(F, f, D) ==
  /\ F \in [D -> Int]
  /\ \A s \in D : F[s] = IF s = {} THEN 0 ELSE f[Pick(s)] + F[s \ {Pick(s)}]

LEMMA PickIn == \A s : s # {} => Pick(s) \in s
BY DEF Pick

\* They exist.
LEMMA PartialSumsExist ==
  ASSUME NEW S, IsFiniteSet(S), NEW f \in [S -> Int]
  PROVE  \E F : PartialSums(F, f, SUBSET S)
<1> DEFINE UpTo(k) == {s \in SUBSET S : Cardinality(s) <= k}
           Missing == {k \in Nat : ~ \E F : PartialSums(F, f, UpTo(k))}
<1>0. \A s \in SUBSET S : IsFiniteSet(s) /\ Cardinality(s) \in Nat
  BY FS_Subset, FS_CardinalityType
<1>1. \A n \in Nat : \A s \in UpTo(n) :
        s # {} => s \ {Pick(s)} \in UpTo(n) /\ (n > 0 => s \ {Pick(s)} \in UpTo(n - 1))
  <2> SUFFICES ASSUME NEW n \in Nat, NEW s \in UpTo(n), s # {}
               PROVE  /\ s \ {Pick(s)} \in SUBSET S
                      /\ Cardinality(s \ {Pick(s)}) <= n - 1
    BY <1>0
  <2>1. Cardinality(s \ {Pick(s)}) = Cardinality(s) - 1
    BY <1>0, PickIn, FS_RemoveElement
  <2> QED
    BY <1>0, <2>1
<1>2. Missing = {}
  <2> SUFFICES ASSUME Missing # {} PROVE FALSE
    OBVIOUS
  <2>1. PICK n \in Missing : \A m \in Missing : n <= m
    <3> Missing \subseteq Nat
      OBVIOUS
    <3> HIDE DEF Missing
    <3> QED
      BY LeastNumber
  <2>2. CASE n = 0
    <3> DEFINE F == [s \in UpTo(n) |-> 0]
    <3>1. \A s \in UpTo(n) : s = {}
      BY <1>0, <2>2, FS_EmptySet
    <3>2. PartialSums(F, f, UpTo(n))
      BY <3>1 DEF PartialSums
    <3> QED
      BY <3>2
  <2>3. CASE n > 0
    <3>1. n - 1 \in Nat /\ n - 1 \notin Missing
      <4>1. n \in Nat
        OBVIOUS
      <4> HIDE DEF Missing
      <4> QED
        BY <2>1, <2>3, <4>1
    <3>2. PICK G : PartialSums(G, f, UpTo(n - 1))
      BY <3>1
    <3> DEFINE F == [s \in UpTo(n) |->
                       IF s = {} THEN 0 ELSE f[Pick(s)] + G[s \ {Pick(s)}]]
    <3>3. F \in [UpTo(n) -> Int]
      <4>1. \A s \in UpTo(n) :
              s # {} => Pick(s) \in S /\ s \ {Pick(s)} \in UpTo(n - 1)
        BY <1>1, <2>3, PickIn
      <4> HIDE DEF UpTo
      <4>2. \A s \in UpTo(n) : s # {} => f[Pick(s)] + G[s \ {Pick(s)}] \in Int
        BY <3>2, <4>1 DEF PartialSums
      <4> QED
        BY <4>2
    <3>4. \A s \in UpTo(n - 1) : s \in UpTo(n) /\ F[s] = G[s]
      <4>1. \A s \in UpTo(n - 1) : s \in UpTo(n)
        BY <1>0
      <4> HIDE DEF UpTo
      <4> QED
        BY <3>2, <4>1 DEF PartialSums
    <3>5. PartialSums(F, f, UpTo(n))
      <4> SUFFICES ASSUME NEW s \in UpTo(n), s # {}
                   PROVE  F[s] = f[Pick(s)] + F[s \ {Pick(s)}]
        BY <3>3 DEF PartialSums
      <4>1. s \ {Pick(s)} \in UpTo(n - 1)
        BY <1>1, <2>3
      <4> HIDE DEF UpTo
      <4> QED
        BY <3>4, <4>1
    <3> QED
      BY <3>5
  <2> QED
    BY <2>2, <2>3
<1>3. UpTo(Cardinality(S)) = SUBSET S
  <2>1. \A s \in SUBSET S : Cardinality(s) <= Cardinality(S)
    BY FS_Subset
  <2> QED
    BY <2>1
<1> QED
  BY <1>0, <1>2, <1>3

\* SumFunction is the last of them.
LEMMA SumIsPartialSum ==
  ASSUME NEW S, IsFiniteSet(S), NEW f \in [S -> Int]
  PROVE  \E F : PartialSums(F, f, SUBSET S) /\ SumFunction(f) = F[S]
<1> DEFINE IsIter(iter) ==
             iter = [s \in SUBSET S |->
                       IF s = {} THEN 0
                       ELSE f[CHOOSE x \in s : TRUE]
                            + iter[s \ {CHOOSE x \in s : TRUE}]]
           F == CHOOSE iter : IsIter(iter)
<1>1. SumFunction(f) = F[S]
  <2>1. DOMAIN f = S
    OBVIOUS
  <2> QED
    BY <2>1, Zenon DEF SumFunction, SumFunctionOnSet, FoldFunctionOnSet, MapThenFoldSet
<1>2. PICK G : PartialSums(G, f, SUBSET S)
  BY PartialSumsExist
<1>3. IsIter(G)
  BY <1>2 DEF PartialSums, Pick
<1>4. IsIter(F)
  BY <1>3
<1>5. \A s \in SUBSET S : F[s] = IF s = {} THEN 0 ELSE f[Pick(s)] + F[s \ {Pick(s)}]
  BY <1>4 DEF Pick
<1> HIDE DEF F
<1>6. \A s \in SUBSET S : F[s] = G[s]
  <2> DEFINE T == {s \in SUBSET S : F[s] # G[s]}
  <2> SUFFICES ASSUME T # {} PROVE FALSE
    OBVIOUS
  <2>1. PICK s \in T : \A x \in s : s \ {x} \notin T
    BY SmallestSubset
  <2>2. s # {}
    BY <1>2, <1>5 DEF PartialSums
  <2>3. s \ {Pick(s)} \in SUBSET S /\ F[s \ {Pick(s)}] = G[s \ {Pick(s)}]
    BY <2>1, <2>2, PickIn
  <2> QED
    BY <1>2, <1>5, <2>2, <2>3 DEF PartialSums
<1> QED
  BY <1>1, <1>2, <1>6

\* What can be said of every partial sum can be said of the whole: a set of
\* subsets that would contradict it has a smallest member.
LEMMA SumIsInt ==
  ASSUME NEW S, IsFiniteSet(S), NEW f \in [S -> Int]
  PROVE  SumFunction(f) \in Int
<1>1. PICK F : PartialSums(F, f, SUBSET S) /\ SumFunction(f) = F[S]
  BY SumIsPartialSum
<1> QED
  BY <1>1 DEF PartialSums

LEMMA SumIsNat ==
  ASSUME NEW S, IsFiniteSet(S), NEW f \in [S -> Nat]
  PROVE  SumFunction(f) \in Nat
<1>0. f \in [S -> Int]
  OBVIOUS
<1>1. PICK F : PartialSums(F, f, SUBSET S) /\ SumFunction(f) = F[S]
  BY <1>0, SumIsPartialSum
<1> DEFINE T == {s \in SUBSET S : F[s] \notin Nat}
<1>2. T = {}
  <2> SUFFICES ASSUME T # {} PROVE FALSE
    OBVIOUS
  <2>1. PICK s \in T : \A x \in s : s \ {x} \notin T
    BY SmallestSubset
  <2>2. s # {}
    <3>1. s \in SUBSET S /\ F[s] # 0
      OBVIOUS
    <3> QED
      BY <1>1, <3>1 DEF PartialSums
  <2>3. s \ {Pick(s)} \in SUBSET S /\ F[s \ {Pick(s)}] \in Nat /\ Pick(s) \in S
    BY <2>1, <2>2, PickIn
  <2> QED
    BY <1>1, <2>2, <2>3 DEF PartialSums
<1> QED
  BY <1>1, <1>2

\* A sum changes by what its one changed summand changes.
LEMMA SumUpdate ==
  ASSUME NEW S, IsFiniteSet(S), NEW f \in [S -> Int], NEW g \in [S -> Int],
         NEW x \in S, \A y \in S \ {x} : g[y] = f[y]
  PROVE  SumFunction(g) = SumFunction(f) + g[x] - f[x]
<1>1. PICK F : PartialSums(F, f, SUBSET S) /\ SumFunction(f) = F[S]
  BY SumIsPartialSum
<1>2. PICK G : PartialSums(G, g, SUBSET S) /\ SumFunction(g) = G[S]
  BY SumIsPartialSum
<1> DEFINE T == {s \in SUBSET S :
                   G[s] # IF x \in s THEN F[s] + g[x] - f[x] ELSE F[s]}
<1>3. T = {}
  <2> SUFFICES ASSUME T # {} PROVE FALSE
    OBVIOUS
  <2>1. PICK s \in T : \A y \in s : s \ {y} \notin T
    BY SmallestSubset
  <2>2. s # {}
    BY <1>1, <1>2 DEF PartialSums
  <2> DEFINE p == Pick(s)
             r == s \ {p}
  <2>3. p \in s /\ p \in S /\ r \in SUBSET S
    BY <2>2, PickIn
  <2>4. G[r] = IF x \in r THEN F[r] + g[x] - f[x] ELSE F[r]
    BY <2>1, <2>3
  <2>5. F[s] = f[p] + F[r] /\ G[s] = g[p] + G[r] /\ F[r] \in Int
    BY <1>1, <1>2, <2>2, <2>3 DEF PartialSums
  <2>6. G[s] # IF x \in s THEN F[s] + g[x] - f[x] ELSE F[s]
    BY <2>1
  <2>7. x \in r <=> x \in s /\ x # p
    OBVIOUS
  <2> HIDE DEF p, r
  <2>8. f[p] \in Int /\ g[p] \in Int /\ f[x] \in Int /\ g[x] \in Int
    BY <2>3
  <2>9. p # x => g[p] = f[p]
    BY <2>3
  <2> QED
    BY <2>3, <2>4, <2>5, <2>6, <2>7, <2>8, <2>9
<1> QED
  BY <1>1, <1>2, <1>3

\* Sums of zeros.
LEMMA SumOfZeros ==
  ASSUME NEW S, IsFiniteSet(S), NEW f \in [S -> Int], \A x \in S : f[x] = 0
  PROVE  SumFunction(f) = 0
<1>1. PICK F : PartialSums(F, f, SUBSET S) /\ SumFunction(f) = F[S]
  BY SumIsPartialSum
<1> DEFINE T == {s \in SUBSET S : F[s] # 0}
<1>2. T = {}
  <2> SUFFICES ASSUME T # {} PROVE FALSE
    OBVIOUS
  <2>1. PICK s \in T : \A x \in s : s \ {x} \notin T
    BY SmallestSubset
  <2>2. s # {}
    BY <1>1 DEF PartialSums
  <2>3. s \ {Pick(s)} \in SUBSET S /\ F[s \ {Pick(s)}] = 0 /\ Pick(s) \in S
    BY <2>1, <2>2, PickIn
  <2> QED
    BY <1>1, <2>2, <2>3 DEF PartialSums
<1> QED
  BY <1>1, <1>2

\* One summand, or two, is at most a sum of natural numbers.
LEMMA SumBounds ==
  ASSUME NEW S, IsFiniteSet(S), NEW f \in [S -> Nat], NEW x \in S
  PROVE  /\ f[x] <= SumFunction(f)
         /\ \A y \in S \ {x} : f[x] + f[y] <= SumFunction(f)
<1> DEFINE g == [f EXCEPT ![x] = 0]
<1>1. g \in [S -> Nat] /\ g[x] = 0 /\ \A y \in S \ {x} : g[y] = f[y]
  OBVIOUS
<1>2. SumFunction(g) = SumFunction(f) + g[x] - f[x]
  <2> HIDE DEF g
  <2>1. f \in [S -> Int] /\ g \in [S -> Int]
    BY <1>1
  <2> QED
    BY <1>1, <2>1, SumUpdate
<1>3. SumFunction(g) \in Nat /\ SumFunction(f) \in Nat
  BY <1>1, SumIsNat
<1>4. ASSUME NEW y \in S \ {x} PROVE g[y] <= SumFunction(g)
  <2> DEFINE h == [g EXCEPT ![y] = 0]
  <2>1. h \in [S -> Nat] /\ h[y] = 0 /\ \A z \in S \ {y} : h[z] = g[z]
    BY <1>1
  <2>2. SumFunction(h) = SumFunction(g) + h[y] - g[y]
    <3> HIDE DEF g, h
    <3>1. h \in [S -> Int] /\ g \in [S -> Int] /\ y \in S
      BY <1>1, <2>1
    <3> QED
      BY <2>1, <3>1, SumUpdate
  <2>3. SumFunction(h) \in Nat
    BY <2>1, SumIsNat
  <2> HIDE DEF g, h
  <2> QED
    BY <1>1, <1>3, <2>1, <2>2, <2>3
<1> HIDE DEF g
<1> QED
  BY <1>1, <1>2, <1>3, <1>4

\* A sum with larger summands is not smaller.
LEMMA SumMonotone ==
  ASSUME NEW S, IsFiniteSet(S), NEW f \in [S -> Int], NEW g \in [S -> Int],
         \A x \in S : f[x] <= g[x]
  PROVE  SumFunction(f) <= SumFunction(g)
<1>1. PICK F : PartialSums(F, f, SUBSET S) /\ SumFunction(f) = F[S]
  BY SumIsPartialSum
<1>2. PICK G : PartialSums(G, g, SUBSET S) /\ SumFunction(g) = G[S]
  BY SumIsPartialSum
<1> DEFINE T == {s \in SUBSET S : ~(F[s] <= G[s])}
<1>3. T = {}
  <2> SUFFICES ASSUME T # {} PROVE FALSE
    OBVIOUS
  <2>1. PICK s \in T : \A x \in s : s \ {x} \notin T
    BY SmallestSubset
  <2>2. s # {}
    <3>1. s \in SUBSET S /\ ~(F[s] <= G[s])
      OBVIOUS
    <3>2. s = {} => F[s] = 0 /\ G[s] = 0
      BY <1>1, <1>2, <3>1 DEF PartialSums
    <3> QED
      BY <3>1, <3>2
  <2>3. s \ {Pick(s)} \in SUBSET S /\ Pick(s) \in S
        /\ F[s \ {Pick(s)}] <= G[s \ {Pick(s)}]
    BY <2>1, <2>2, PickIn
  <2>4. /\ F[s] = f[Pick(s)] + F[s \ {Pick(s)}] /\ F[s \ {Pick(s)}] \in Int
        /\ G[s] = g[Pick(s)] + G[s \ {Pick(s)}] /\ G[s \ {Pick(s)}] \in Int
    BY <1>1, <1>2, <2>2, <2>3 DEF PartialSums
  <2>5. /\ f[Pick(s)] \in Int /\ g[Pick(s)] \in Int
        /\ f[Pick(s)] <= g[Pick(s)] /\ ~(F[s] <= G[s])
    BY <2>3
  <2> QED
    BY <2>3, <2>4, <2>5
<1> QED
  BY <1>1, <1>2, <1>3
=============================================================================
