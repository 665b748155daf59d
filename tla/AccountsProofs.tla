----------------------- MODULE AccountsProofs -----------------------
(*****************************************************************************)
(* Theorems about what holds money and names: the escrow contract, the       *)
(* preflight of its stakes, the ledger that stands in for the chain, the     *)
(* profiles and sessions of the players, the assistant that acts for an      *)
(* operator and the bots of the players. Accounts, wallets, stakes,          *)
(* requests, messages and bots are any number; the parts share no state and  *)
(* no step.                                                                  *)
(*****************************************************************************)
EXTENDS BettingEscrow, EscrowPreflight, RuntimeLedger, PlayerAccess, OperationsChief,
        BotFleet, FiniteSetTheorems, SequenceTheorems, WellFoundedInduction, TLAPS

------------------------------------------------------------------------------
(* Folds over finite sets.                                                   *)

(* A set of natural numbers has a least member.                              *)
LEMMA LeastOfNaturals ==
    ASSUME NEW S, S \subseteq Nat, S # {}
    PROVE  \E x \in S : \A y \in S : x <= y
<1>1. \E x \in S : \A y \in S : ~(<<y, x>> \in OpToRel(<, Nat))
  BY NatLessThanWellFounded, WFMin
<1>2. PICK x \in S : \A y \in S : ~(<<y, x>> \in OpToRel(<, Nat))
  BY <1>1
<1>3. \A y \in S : ~(y < x)
  BY <1>2 DEF OpToRel
<1>4. \A y \in S : x <= y
  BY <1>3
<1> QED
  BY <1>4

(* Induction over the natural numbers, for what can be written as a set.     *)
LEMMA SetOfNaturals ==
    ASSUME NEW Good, 0 \in Good, \A n \in Nat : n \in Good => n + 1 \in Good
    PROVE  Nat \subseteq Good
<1> DEFINE Bad == Nat \ Good
<1> SUFFICES ASSUME Bad # {} PROVE FALSE
  OBVIOUS
<1>1. PICK n \in Bad : \A m \in Bad : n <= m
  <2>1. Bad \subseteq Nat
    OBVIOUS
  <2> HIDE DEF Bad
  <2> QED
    BY <2>1, LeastOfNaturals
<1>2. n \in Nat /\ n # 0 /\ n \notin Good
  BY <1>1
<1>3. n - 1 \in Nat /\ ~(n <= n - 1) /\ (n - 1) + 1 = n
  BY <1>2
<1>4. n - 1 \in Good
  BY <1>1, <1>3
<1>5. (n - 1) + 1 \in Good
  BY <1>3, <1>4
<1> QED
  BY <1>2, <1>3, <1>5

(* Induction over the subsets of a finite set, for what can be written as a  *)
(* set of subsets.                                                           *)
LEMMA SetOfSubsets ==
    ASSUME NEW D, IsFiniteSet(D), NEW Good,
           \A s \in SUBSET D : (\A x \in s : s \ {x} \in Good) => s \in Good
    PROVE  SUBSET D \subseteq Good
<1> DEFINE Done == {n \in Nat : \A s \in SUBSET D : Cardinality(s) <= n => s \in Good}
<1>1. \A s \in SUBSET D : IsFiniteSet(s) /\ Cardinality(s) \in Nat
  BY FS_Subset, FS_CardinalityType
<1>2. \A s \in SUBSET D : \A x \in s :
         s \ {x} \in SUBSET D /\ Cardinality(s) # 0 /\ Cardinality(s \ {x}) = Cardinality(s) - 1
  BY <1>1, FS_RemoveElement, FS_EmptySet
<1>3. 0 \in Done
  <2> SUFFICES ASSUME NEW s \in SUBSET D, Cardinality(s) <= 0 PROVE s \in Good
    OBVIOUS
  <2>1. ASSUME NEW x \in s PROVE FALSE
    <3>1. Cardinality(s) # 0 /\ Cardinality(s) \in Nat
      BY <1>1, <1>2
    <3> QED
      BY <3>1
  <2> QED
    BY <2>1
<1>4. ASSUME NEW n \in Nat, n \in Done PROVE n + 1 \in Done
  <2> SUFFICES ASSUME NEW s \in SUBSET D, Cardinality(s) <= n + 1 PROVE s \in Good
    OBVIOUS
  <2>1. ASSUME NEW x \in s PROVE s \ {x} \in Good
    <3>1. /\ s \ {x} \in SUBSET D
          /\ Cardinality(s \ {x}) = Cardinality(s) - 1
          /\ Cardinality(s) \in Nat
      BY <1>1, <1>2
    <3>2. Cardinality(s \ {x}) <= n
      BY <3>1
    <3> QED
      BY <3>1, <3>2, <1>4
  <2> QED
    BY <2>1
<1>5. Nat \subseteq Done
  <2> HIDE DEF Done
  <2> QED
    BY <1>3, <1>4, SetOfNaturals
<1> QED
  BY <1>1, <1>5

(* f folds the members of D into base, one at a time in the order of pick:   *)
(* what MapThenFoldSet computes.                                             *)
FoldsTo(f, D, base, step, pick, s) ==
    f[s] = IF s = {} THEN base ELSE step[pick[s]][f[s \ {pick[s]}]]
IsFold(f, D, X, base, step, pick) ==
    /\ f \in [SUBSET D -> X]
    /\ \A s \in SUBSET D : FoldsTo(f, D, base, step, pick, s)
FoldData(D, X, base, step, pick) ==
    /\ IsFiniteSet(D)
    /\ base \in X
    /\ step \in [D -> [X -> X]]
    /\ \A s \in SUBSET D : s # {} => pick[s] \in s

(* The fold over the sets of up to n members.                                *)
FoldsUpTo(n, D, X, base, step, pick) ==
    \E f \in [SUBSET D -> X] :
        \A s \in SUBSET D : Cardinality(s) <= n => FoldsTo(f, D, base, step, pick, s)

(* There is such a fold, over any finite set. *)
LEMMA FoldExists ==
    ASSUME NEW D, NEW X, NEW base, NEW step, NEW pick, FoldData(D, X, base, step, pick)
    PROVE  \E f : IsFold(f, D, X, base, step, pick)
<1> DEFINE Ok(n) == FoldsUpTo(n, D, X, base, step, pick)
<1>1. \A s \in SUBSET D : IsFiniteSet(s) /\ Cardinality(s) \in Nat
                          /\ Cardinality(s) <= Cardinality(D)
  BY FS_Subset, FS_CardinalityType DEF FoldData
<1>2. \A s \in SUBSET D : s # {} =>
         /\ pick[s] \in s /\ s \ {pick[s]} \in SUBSET D
         /\ Cardinality(s) # 0
         /\ Cardinality(s \ {pick[s]}) = Cardinality(s) - 1
  BY <1>1, FS_RemoveElement, FS_EmptySet DEF FoldData
<1>3. Ok(0)
  <2>1. \A s \in SUBSET D : Cardinality(s) <= 0 => s = {}
    <3> SUFFICES ASSUME NEW s \in SUBSET D, Cardinality(s) <= 0, s # {} PROVE FALSE
      OBVIOUS
    <3>1. Cardinality(s) \in Nat /\ Cardinality(s) # 0
      BY <1>1, <1>2
    <3> QED
      BY <3>1
  <2>2. [s \in SUBSET D |-> base] \in [SUBSET D -> X]
    BY DEF FoldData
  <2> QED
    BY <2>1, <2>2 DEF FoldsUpTo, FoldsTo
<1>4. ASSUME NEW n \in Nat, Ok(n) PROVE Ok(n + 1)
  <2>1. PICK f \in [SUBSET D -> X] :
           \A s \in SUBSET D : Cardinality(s) <= n => FoldsTo(f, D, base, step, pick, s)
    BY <1>4 DEF FoldsUpTo
  <2> DEFINE g == [s \in SUBSET D |-> IF Cardinality(s) = n + 1
                                      THEN step[pick[s]][f[s \ {pick[s]}]] ELSE f[s]]
  <2>2. g \in [SUBSET D -> X]
    <3> SUFFICES ASSUME NEW s \in SUBSET D PROVE g[s] \in X
      OBVIOUS
    <3>1. CASE Cardinality(s) = n + 1
      <4>1. s # {}
        BY <3>1, FS_EmptySet
      <4>2. pick[s] \in D /\ s \ {pick[s]} \in SUBSET D
        BY <4>1, <1>2
      <4>3. step[pick[s]] \in [X -> X] /\ f[s \ {pick[s]}] \in X
        BY <4>2, <2>1 DEF FoldData
      <4> QED
        BY <3>1, <4>3
    <3> QED
      BY <3>1, <2>1
  <2>3. ASSUME NEW s \in SUBSET D, Cardinality(s) <= n + 1
        PROVE  FoldsTo(g, D, base, step, pick, s)
    <3>1. CASE s = {}
      <4>1. Cardinality(s) = 0
        BY <3>1, FS_EmptySet
      <4>2. g[s] = f[s]
        BY <4>1
      <4>3. FoldsTo(f, D, base, step, pick, s)
        BY <2>1, <4>1
      <4> QED
        BY <4>2, <4>3, <3>1 DEF FoldsTo
    <3>2. CASE s # {}
      <4>1. /\ s \ {pick[s]} \in SUBSET D
            /\ Cardinality(s \ {pick[s]}) = Cardinality(s) - 1
            /\ Cardinality(s) \in Nat
        BY <3>2, <1>1, <1>2
      <4>2. g[s \ {pick[s]}] = f[s \ {pick[s]}]
        BY <4>1, <2>3
      <4>3. g[s] = step[pick[s]][f[s \ {pick[s]}]]
        <5>1. CASE Cardinality(s) = n + 1
          BY <5>1
        <5>2. CASE Cardinality(s) <= n
          <6>1. g[s] = f[s]
            BY <5>2, <4>1
          <6>2. FoldsTo(f, D, base, step, pick, s)
            BY <5>2, <2>1
          <6> QED
            BY <6>1, <6>2, <3>2 DEF FoldsTo
        <5> QED
          BY <5>1, <5>2, <4>1, <2>3
      <4> HIDE DEF g
      <4> QED
        BY <4>2, <4>3, <3>2 DEF FoldsTo
    <3> QED
      BY <3>1, <3>2
  <2> HIDE DEF g
  <2> QED
    BY <2>2, <2>3 DEF FoldsUpTo
<1>5. \A n \in Nat : Ok(n)
  <2> DEFINE Good == {n \in Nat : Ok(n)}
  <2> HIDE DEF Ok
  <2>1. 0 \in Good /\ \A n \in Nat : n \in Good => n + 1 \in Good
    BY <1>3, <1>4
  <2>2. Nat \subseteq Good
    <3> HIDE DEF Good
    <3> QED
      BY <2>1, SetOfNaturals
  <2> QED
    BY <2>2
<1>6. Cardinality(D) \in Nat
  BY FS_CardinalityType DEF FoldData
<1>7. PICK f \in [SUBSET D -> X] :
         \A s \in SUBSET D : Cardinality(s) <= Cardinality(D) => FoldsTo(f, D, base, step, pick, s)
  BY <1>5, <1>6 DEF FoldsUpTo
<1>8. IsFold(f, D, X, base, step, pick)
  BY <1>1, <1>7 DEF IsFold
<1> QED
  BY <1>8

Pick(s) == CHOOSE x \in s : TRUE

(* Adding up v over the members of a set.                                    *)
SumsUp(F, v, S) ==
    /\ F \in [SUBSET S -> Int]
    /\ F[{}] = 0
    /\ \A s \in SUBSET S : s # {} => F[s] = v[Pick(s)] + F[s \ {Pick(s)}]
SumOf(v, S) == MapThenSumSet(LAMBDA x : v[x], S)

(* MapThenSumSet adds up, whenever the set is finite.                        *)
LEMMA SumExists ==
    ASSUME NEW S, IsFiniteSet(S), NEW v, \A x \in S : v[x] \in Int
    PROVE  \E F : SumsUp(F, v, S) /\ SumOf(v, S) = F[S]
<1> DEFINE step == [d \in S |-> [y \in Int |-> v[d] + y]]
           pick == [s \in SUBSET S |-> Pick(s)]
           iter == CHOOSE iter : iter = [s \in SUBSET S |->
                      IF s = {} THEN 0 ELSE v[Pick(s)] + iter[s \ {Pick(s)}]]
<1>1. SumOf(v, S) = iter[S]
  BY DEF SumOf, MapThenSumSet, MapThenFoldSet, Pick
<1> HIDE DEF iter
<1>2. \A s \in SUBSET S : s # {} => pick[s] \in s /\ pick[s] = Pick(s)
  BY DEF Pick
<1>3. FoldData(S, Int, 0, step, pick)
  <2>1. step \in [S -> [Int -> Int]]
    OBVIOUS
  <2>2. \A s \in SUBSET S : s # {} => pick[s] \in s
    BY <1>2
  <2> HIDE DEF step, pick
  <2> QED
    BY <2>1, <2>2 DEF FoldData
<1>4. PICK f : IsFold(f, S, Int, 0, step, pick)
  <2> HIDE DEF step, pick
  <2> QED
    BY <1>3, FoldExists
<1>5. f \in [SUBSET S -> Int]
  BY <1>4 DEF IsFold
<1>6. ASSUME NEW s \in SUBSET S
      PROVE  f[s] = IF s = {} THEN 0 ELSE v[Pick(s)] + f[s \ {Pick(s)}]
  <2>1. FoldsTo(f, S, 0, step, pick, s)
    BY <1>4 DEF IsFold
  <2>2. CASE s = {}
    BY <2>1, <2>2 DEF FoldsTo
  <2>3. CASE s # {}
    <3>1. pick[s] = Pick(s) /\ Pick(s) \in S /\ s \ {Pick(s)} \in SUBSET S
      BY <2>3, <1>2
    <3>2. f[s \ {Pick(s)}] \in Int
      BY <3>1, <1>5
    <3>3. f[s] = step[Pick(s)][f[s \ {Pick(s)}]]
      BY <2>1, <2>3, <3>1 DEF FoldsTo
    <3> HIDE DEF pick
    <3> QED
      BY <2>3, <3>1, <3>2, <3>3
  <2> QED
    BY <2>2, <2>3
<1> HIDE DEF step, pick
<1>7. f = [s \in SUBSET S |-> IF s = {} THEN 0 ELSE v[Pick(s)] + f[s \ {Pick(s)}]]
  BY <1>5, <1>6
<1>8. iter = [s \in SUBSET S |-> IF s = {} THEN 0 ELSE v[Pick(s)] + iter[s \ {Pick(s)}]]
  BY <1>7 DEF iter
<1>9. SumsUp(f, v, S)
  <2>1. {} \in SUBSET S
    OBVIOUS
  <2>2. f[{}] = 0
    BY <1>6, <2>1
  <2>3. \A s \in SUBSET S : s # {} => f[s] = v[Pick(s)] + f[s \ {Pick(s)}]
    BY <1>6
  <2> QED
    BY <1>5, <2>2, <2>3 DEF SumsUp
<1>10. SUBSET S \subseteq {s \in SUBSET S : f[s] = iter[s]}
  <2> DEFINE Same == {s \in SUBSET S : f[s] = iter[s]}
  <2>1. ASSUME NEW s \in SUBSET S, \A x \in s : s \ {x} \in Same
        PROVE  s \in Same
    <3>1. CASE s = {}
      BY <3>1, <1>6, <1>8
    <3>2. CASE s # {}
      <4>1. Pick(s) \in s
        BY <3>2 DEF Pick
      <4>2. s \ {Pick(s)} \in Same
        BY <4>1, <2>1
      <4>3. f[s \ {Pick(s)}] = iter[s \ {Pick(s)}]
        BY <4>2
      <4>4. iter[s] = v[Pick(s)] + iter[s \ {Pick(s)}]
        BY <1>8, <3>2
      <4>5. f[s] = v[Pick(s)] + f[s \ {Pick(s)}]
        BY <1>6, <3>2
      <4> QED
        BY <4>3, <4>4, <4>5
    <3> QED
      BY <3>1, <3>2
  <2> HIDE DEF Same
  <2>2. SUBSET S \subseteq Same
    BY <2>1, SetOfSubsets
  <2> QED
    BY <2>2 DEF Same
<1>11. f[S] = iter[S]
  BY <1>10
<1> QED
  BY <1>1, <1>9, <1>11

(* The order of the summands does not matter.                                *)
LEMMA SumAnyOrder ==
    ASSUME NEW S, IsFiniteSet(S), NEW v, \A x \in S : v[x] \in Int, NEW F, SumsUp(F, v, S)
    PROVE  \A s \in SUBSET S : \A x \in s : F[s] = v[x] + F[s \ {x}]
<1> DEFINE Good == {s \in SUBSET S : \A x \in s : F[s] = v[x] + F[s \ {x}]}
<1>1. ASSUME NEW s \in SUBSET S, \A x \in s : s \ {x} \in Good
      PROVE  s \in Good
  <2> SUFFICES ASSUME NEW x \in s PROVE F[s] = v[x] + F[s \ {x}]
    OBVIOUS
  <2> DEFINE p == Pick(s)
             r == (s \ {x}) \ {p}
  <2>1. p \in s /\ F[s] = v[p] + F[s \ {p}]
    BY DEF SumsUp, Pick
  <2>2. CASE p = x
    BY <2>1, <2>2
  <2>3. CASE p # x
    <3>1. F[s \ {p}] = v[x] + F[(s \ {p}) \ {x}]
      BY <1>1, <2>1, <2>3
    <3>2. F[s \ {x}] = v[p] + F[r]
      BY <1>1, <2>1, <2>3
    <3>3. (s \ {p}) \ {x} = r
      OBVIOUS
    <3>4. v[p] \in Int /\ v[x] \in Int /\ F[r] \in Int
      BY <2>1 DEF SumsUp
    <3>5. F[s \ {p}] = v[x] + F[r]
      BY <3>1, <3>3
    <3> HIDE DEF p, r
    <3>6. F[s] = v[p] + (v[x] + F[r])
      BY <2>1, <3>5
    <3>7. F[s] = v[x] + (v[p] + F[r])
      BY <3>6, <3>4
    <3> QED
      BY <3>2, <3>7
  <2> QED
    BY <2>2, <2>3
<1> HIDE DEF Good
<1>2. SUBSET S \subseteq Good
  BY <1>1, SetOfSubsets
<1> QED
  BY <1>2 DEF Good

(* Two additions of the same summands agree, whatever else one of them adds. *)
LEMMA SumUnique ==
    ASSUME NEW S, IsFiniteSet(S), NEW T, T \subseteq S, NEW v, NEW w,
           NEW F, SumsUp(F, v, S), NEW G, SumsUp(G, w, T), \A x \in T : w[x] = v[x]
    PROVE  F[T] = G[T]
<1> DEFINE Good == {s \in SUBSET T : F[s] = G[s]}
<1>1. IsFiniteSet(T)
  BY FS_Subset
<1>2. ASSUME NEW s \in SUBSET T, \A x \in s : s \ {x} \in Good
      PROVE  s \in Good
  <2>1. CASE s = {}
    BY <2>1 DEF SumsUp
  <2>2. CASE s # {}
    <3>1. Pick(s) \in s
      BY <2>2 DEF Pick
    <3>2. F[s \ {Pick(s)}] = G[s \ {Pick(s)}]
      BY <3>1, <1>2
    <3>3. s \in SUBSET S
      OBVIOUS
    <3>4. F[s] = v[Pick(s)] + F[s \ {Pick(s)}]
      BY <3>3, <2>2 DEF SumsUp
    <3>5. G[s] = w[Pick(s)] + G[s \ {Pick(s)}]
      BY <2>2 DEF SumsUp
    <3>6. w[Pick(s)] = v[Pick(s)]
      BY <3>1
    <3> QED
      BY <3>2, <3>4, <3>5, <3>6
  <2> QED
    BY <2>1, <2>2
<1> HIDE DEF Good
<1>3. SUBSET T \subseteq Good
  BY <1>1, <1>2, SetOfSubsets
<1> QED
  BY <1>3 DEF Good

(* Equal summands, equal sums. *)
LEMMA SumSame ==
    ASSUME NEW S, IsFiniteSet(S), NEW v, NEW w, \A x \in S : v[x] \in Int /\ w[x] = v[x]
    PROVE  SumOf(w, S) = SumOf(v, S)
<1>1. PICK F : SumsUp(F, v, S) /\ SumOf(v, S) = F[S]
  BY SumExists
<1>2. \A x \in S : w[x] \in Int
  OBVIOUS
<1>3. PICK G : SumsUp(G, w, S) /\ SumOf(w, S) = G[S]
  BY <1>2, SumExists
<1>4. S \subseteq S /\ \A x \in S : w[x] = v[x]
  OBVIOUS
<1>5. F[S] = G[S]
  BY <1>1, <1>3, <1>4, SumUnique
<1> QED
  BY <1>1, <1>3, <1>5

(* One summand more.                                                         *)
LEMMA SumSplit ==
    ASSUME NEW S, IsFiniteSet(S), NEW v, \A x \in S : v[x] \in Int, NEW x \in S
    PROVE  /\ SumOf(v, S) = v[x] + SumOf(v, S \ {x})
           /\ SumOf(v, S \ {x}) \in Int
<1> DEFINE T == S \ {x}
<1>1. IsFiniteSet(T) /\ T \subseteq S /\ \A y \in T : v[y] \in Int
  BY FS_RemoveElement
<1>2. PICK F : SumsUp(F, v, S) /\ SumOf(v, S) = F[S]
  BY SumExists
<1> HIDE DEF T
<1>3. PICK G : SumsUp(G, v, T) /\ SumOf(v, T) = G[T]
  BY <1>1, SumExists
<1>4. \A y \in T : v[y] = v[y]
  OBVIOUS
<1>5. F[T] = G[T]
  BY <1>1, <1>2, <1>3, <1>4, SumUnique
<1>6. G[T] \in Int
  BY <1>3 DEF SumsUp
<1>7. F[S] = v[x] + F[T]
  BY <1>2, SumAnyOrder DEF T
<1>8. SumOf(v, S) = v[x] + SumOf(v, T) /\ SumOf(v, T) \in Int
  BY <1>2, <1>3, <1>5, <1>6, <1>7
<1> QED
  BY <1>8 DEF T

(* Nothing adds up to zero.                                                  *)
LEMMA SumNone == ASSUME NEW v PROVE SumOf(v, {}) = 0
<1>1. IsFiniteSet({}) /\ \A x \in {} : v[x] \in Int
  BY FS_EmptySet
<1>2. PICK F : SumsUp(F, v, {}) /\ SumOf(v, {}) = F[{}]
  BY <1>1, SumExists
<1> QED
  BY <1>2 DEF SumsUp

(* A sum of integers is one.                                                 *)
LEMMA SumInt ==
    ASSUME NEW S, IsFiniteSet(S), NEW v, \A x \in S : v[x] \in Int
    PROVE  SumOf(v, S) \in Int
<1>1. PICK F : SumsUp(F, v, S) /\ SumOf(v, S) = F[S]
  BY SumExists
<1> QED
  BY <1>1 DEF SumsUp

(* A sum of natural numbers is one. *)
LEMMA SumNat ==
    ASSUME NEW S, IsFiniteSet(S), NEW v, \A x \in S : v[x] \in Nat
    PROVE  SumOf(v, S) \in Nat
<1> DEFINE Good == {s \in SUBSET S : SumOf(v, s) \in Nat}
<1>1. ASSUME NEW s \in SUBSET S, \A x \in s : s \ {x} \in Good
      PROVE  s \in Good
  <2>1. CASE s = {}
    BY <2>1, SumNone
  <2>2. CASE s # {}
    <3>1. PICK x \in s : TRUE
      BY <2>2
    <3>2. IsFiniteSet(s) /\ \A y \in s : v[y] \in Int
      BY FS_Subset
    <3>3. SumOf(v, s) = v[x] + SumOf(v, s \ {x})
      BY <3>1, <3>2, SumSplit
    <3>4. v[x] \in Nat /\ SumOf(v, s \ {x}) \in Nat
      BY <3>1, <1>1
    <3> QED
      BY <3>3, <3>4
  <2> QED
    BY <2>1, <2>2
<1> HIDE DEF Good
<1>2. SUBSET S \subseteq Good
  BY <1>1, SetOfSubsets
<1> QED
  BY <1>2 DEF Good

(* A sum in which one summand changes.                                       *)
LEMMA SumChanged ==
    ASSUME NEW S, IsFiniteSet(S), NEW v, NEW w, NEW x \in S,
           \A y \in S : v[y] \in Int /\ w[y] \in Int,
           \A y \in S \ {x} : w[y] = v[y]
    PROVE  SumOf(w, S) = SumOf(v, S) + w[x] - v[x]
<1>1. IsFiniteSet(S \ {x})
  BY FS_RemoveElement
<1>2. \A y \in S : v[y] \in Int
  OBVIOUS
<1>3. \A y \in S : w[y] \in Int
  OBVIOUS
<1>4. SumOf(v, S) = v[x] + SumOf(v, S \ {x}) /\ SumOf(v, S \ {x}) \in Int
  BY <1>2, SumSplit
<1>5. SumOf(w, S) = w[x] + SumOf(w, S \ {x})
  BY <1>3, SumSplit
<1>6. \A y \in S \ {x} : v[y] \in Int /\ w[y] = v[y]
  OBVIOUS
<1>7. SumOf(w, S \ {x}) = SumOf(v, S \ {x})
  BY <1>1, <1>6, SumSame
<1> QED
  BY <1>4, <1>5, <1>7

(* Adding up nothing but zeros.                                              *)
LEMMA SumZero ==
    ASSUME NEW S, IsFiniteSet(S), NEW v, \A x \in S : v[x] = 0
    PROVE  SumOf(v, S) = 0
<1> DEFINE Good == {s \in SUBSET S : SumOf(v, s) = 0}
<1>1. ASSUME NEW s \in SUBSET S, \A x \in s : s \ {x} \in Good
      PROVE  s \in Good
  <2>1. CASE s = {}
    BY <2>1, SumNone
  <2>2. CASE s # {}
    <3>1. PICK x \in s : TRUE
      BY <2>2
    <3>2. IsFiniteSet(s) /\ \A y \in s : v[y] \in Int
      BY FS_Subset
    <3>3. SumOf(v, s) = v[x] + SumOf(v, s \ {x})
      BY <3>1, <3>2, SumSplit
    <3>4. v[x] = 0 /\ SumOf(v, s \ {x}) = 0
      BY <3>1, <1>1
    <3> QED
      BY <3>3, <3>4
  <2> QED
    BY <2>1, <2>2
<1> HIDE DEF Good
<1>2. SUBSET S \subseteq Good
  BY <1>1, SetOfSubsets
<1> QED
  BY <1>2 DEF Good

(* A finite set of numbers that is not empty has a greatest member.          *)
LEMMA GreatestOfFinite ==
    ASSUME NEW D, IsFiniteSet(D), D \subseteq Int
    PROVE  \A s \in SUBSET D : s # {} => Max(s) \in s
<1> DEFINE Good == {s \in SUBSET D : s # {} => \E x \in s : \A y \in s : x >= y}
<1>1. ASSUME NEW s \in SUBSET D, \A x \in s : s \ {x} \in Good
      PROVE  s \in Good
  <2> SUFFICES ASSUME NEW x \in s PROVE \E m \in s : \A y \in s : m >= y
    OBVIOUS
  <2>1. CASE s \ {x} = {}
    BY <2>1
  <2>2. CASE s \ {x} # {}
    <3>1. PICK m \in s \ {x} : \A y \in s \ {x} : m >= y
      BY <2>2, <1>1
    <3>2. m \in Int /\ x \in Int
      BY <3>1
    <3> QED
      BY <3>1, <3>2
  <2> QED
    BY <2>1, <2>2
<1> HIDE DEF Good
<1>2. SUBSET D \subseteq Good
  BY <1>1, SetOfSubsets
<1>3. ASSUME NEW s \in SUBSET D, s # {} PROVE \E x \in s : \A y \in s : x >= y
  BY <1>2, <1>3 DEF Good
<1> QED
  BY <1>3 DEF Max

------------------------------------------------------------------------------
(* The escrow contract. *)

(* The fee the integer division of resolveBet yields is at most the pot, so *)
(* the payout never underflows.                                            *)
LEMMA FeeBound ==
    ASSUME NEW pot \in Nat, NEW bps \in 0 .. MaxBps
    PROVE  FeeOf(pot, bps) \in 0 .. pot
<1>1. pot * bps \in Nat /\ pot * bps <= pot * MaxBps
  <2>1. PICK rest \in Nat : MaxBps = bps + rest
    <3>1. MaxBps - bps \in Nat /\ MaxBps = bps + (MaxBps - bps)
      BY DEF MaxBps
    <3> QED
      BY <3>1
  <2>2. pot * bps \in Nat /\ pot * rest \in Nat
    OBVIOUS
  <2>3. pot * MaxBps = pot * bps + pot * rest
    BY <2>1
  <2> QED
    BY <2>2, <2>3
<1>2. \A x \in Nat : x <= pot * 10000 => x \div 10000 \in 0 .. pot
  OBVIOUS
<1>3. FeeOf(pot, bps) = (pot * bps) \div 10000
  BY DEF FeeOf, MaxBps
<1>4. pot * bps <= pot * 10000
  BY <1>1 DEF MaxBps
<1>5. (pot * bps) \div 10000 \in 0 .. pot
  <2> DEFINE x == pot * bps
  <2>1. x \in Nat /\ x <= pot * 10000
    BY <1>1, <1>4
  <2> HIDE DEF x
  <2>2. x \div 10000 \in 0 .. pot
    BY <1>2, <2>1
  <2> QED
    BY <2>2 DEF x
<1> QED
  BY <1>3, <1>5

(* A transfer the sender can pay keeps every balance a natural number. *)
LEMMA TransferType ==
    ASSUME NEW bal \in [Account -> Nat], NEW from \in Account, NEW to \in Account,
           NEW amount \in Nat, CanTransfer(bal, from, amount)
    PROVE  Transfer(bal, from, to, amount) \in [Account -> Nat]
BY DEF Transfer, CanTransfer

(* Spending an allowance leaves one. *)
LEMMA SpendType ==
    ASSUME NEW allow \in [Account -> Nat], NEW from \in Account,
           NEW amount \in Nat, allow[from] >= amount
    PROVE  Spend(allow, from, amount) \in [Account -> Nat]
BY DEF Spend

-----------------------------------------------------------------------------
(* Types hold of a contract that was just deployed. *)
LEMMA EscrowInitType == EscrowInit => EscrowTypeOK
<1> SUFFICES ASSUME EscrowInit PROVE EscrowTypeOK
  OBVIOUS
<1>1. NoBet \in Bet
  BY DEF NoBet, Bet, BetStatus
<1>2. InitialBps \in 0 .. MaxBps
  BY BpsAssumption
<1> QED
  BY <1>1, <1>2, AccountAssumption, FundsAssumption DEF EscrowInit, EscrowTypeOK

(* createBet keeps the types. *)
LEMMA CreateBetType ==
    ASSUME EscrowTypeOK, NEW b \in BetId, NEW p \in Account, NEW q \in Account,
           NEW s \in Stake, CreateBet(b, p, q, s)
    PROVE  EscrowTypeOK'
<1>1. s \in Nat
  BY StakeAssumption
<1> DEFINE afterFirst == Transfer(balance, p, Escrow, s)
           spentFirst == Spend(allowance, p, s)
<1>2. afterFirst \in [Account -> Nat] /\ spentFirst \in [Account -> Nat]
  BY <1>1, AccountAssumption, TransferType, SpendType DEF EscrowTypeOK, CreateBet
<1>3. balance' \in [Account -> Nat] /\ allowance' \in [Account -> Nat]
  BY <1>1, <1>2, AccountAssumption, TransferType, SpendType DEF CreateBet
<1>4. bets' \in [BetId -> Bet]
  <2>1. [challenger |-> p, opponent |-> q, amount |-> s, status |-> "Locked"] \in Bet
    BY <1>1 DEF Bet, BetStatus
  <2> QED
    BY <2>1 DEF CreateBet, EscrowTypeOK
<1> QED
  BY <1>3, <1>4 DEF EscrowTypeOK, CreateBet

(* resolveBet keeps the types. *)
LEMMA ResolveBetType ==
    ASSUME EscrowTypeOK, NEW a \in Account, NEW b \in BetId, NEW w \in Account,
           ResolveBet(a, b, w)
    PROVE  EscrowTypeOK'
<1> DEFINE fee == FeeOf(Pot(b), feeBps)
           afterFee == Transfer(balance, Escrow, feeRecipient, fee)
<1>1. Pot(b) \in Nat /\ fee \in Nat /\ Pot(b) - fee \in Nat
  <2>1. Pot(b) \in Nat /\ feeBps \in 0 .. MaxBps
    BY DEF EscrowTypeOK, Bet, Pot
  <2>2. fee \in 0 .. Pot(b)
    BY <2>1, FeeBound
  <2> QED
    BY <2>1, <2>2
<1>2. afterFee \in [Account -> Nat]
  BY <1>1, AccountAssumption, TransferType DEF EscrowTypeOK, ResolveBet
<1>3. balance' \in [Account -> Nat]
  BY <1>1, <1>2, AccountAssumption, TransferType DEF ResolveBet
<1>4. bets' \in [BetId -> Bet]
  BY DEF ResolveBet, EscrowTypeOK, Bet, BetStatus
<1> QED
  BY <1>3, <1>4 DEF EscrowTypeOK, ResolveBet

(* The contract approves nobody, so that it is never a party of a bet, and  *)
(* the parties of a bet are accounts, not address(0).                      *)
LockedKnown ==
    /\ allowance[Escrow] = 0
    /\ \A b \in BetId : bets[b].status # "None" =>
          {bets[b].challenger, bets[b].opponent} \subseteq Account \ {Escrow}

(* refundBet keeps the types. *)
LEMMA RefundBetType ==
    ASSUME EscrowTypeOK, LockedKnown, NEW a \in Account, NEW b \in BetId, RefundBet(a, b)
    PROVE  EscrowTypeOK'
<1> DEFINE bet == bets[b]
           afterFirst == Transfer(balance, Escrow, bet.challenger, bet.amount)
<1>1. bet.challenger \in Account /\ bet.opponent \in Account /\ bet.amount \in Nat
  BY DEF EscrowTypeOK, LockedKnown, RefundBet, Bet
<1>2. afterFirst \in [Account -> Nat]
  BY <1>1, AccountAssumption, TransferType DEF EscrowTypeOK, RefundBet
<1>3. balance' \in [Account -> Nat]
  BY <1>1, <1>2, AccountAssumption, TransferType DEF RefundBet
<1>4. bets' \in [BetId -> Bet]
  BY DEF RefundBet, EscrowTypeOK, Bet, BetStatus
<1> QED
  BY <1>3, <1>4 DEF EscrowTypeOK, RefundBet

EscrowInv == EscrowTypeOK /\ LockedKnown

(* The invariant holds of a contract that was just deployed. *)
LEMMA EscrowInvInit == EscrowInit => EscrowInv
BY EscrowInitType, AccountAssumption DEF EscrowInit, EscrowInv, LockedKnown, NoBet

(* Every call of the contract keeps the invariant. *)
LEMMA EscrowInvStep == EscrowInv /\ [EscrowNext]_escrowVars => EscrowInv'
<1> SUFFICES ASSUME EscrowInv, [EscrowNext]_escrowVars PROVE EscrowInv'
  OBVIOUS
<1>1. ASSUME NEW a \in Account, NEW r \in Account, NEW bps \in Bps,
             SetFeeConfig(a, r, bps)
      PROVE  EscrowInv'
  BY <1>1, BpsAssumption DEF SetFeeConfig, EscrowInv, EscrowTypeOK, LockedKnown
<1>2. ASSUME NEW b \in BetId, NEW p \in Account, NEW q \in Account, NEW s \in Stake,
             CreateBet(b, p, q, s)
      PROVE  EscrowInv'
  <2>1. EscrowTypeOK'
    BY <1>2, CreateBetType DEF EscrowInv
  <2>2. s \in Nat /\ s # 0
    BY <1>2, StakeAssumption DEF CreateBet
  <2>3. p # Escrow /\ q # Escrow
    BY <1>2, <2>2, AccountAssumption
    DEF CreateBet, EscrowInv, EscrowTypeOK, LockedKnown, Spend
  <2>4. allowance'[Escrow] = 0
    BY <1>2, <2>3, AccountAssumption
    DEF CreateBet, EscrowInv, EscrowTypeOK, LockedKnown, Spend
  <2>5. LockedKnown'
    BY <1>2, <2>3, <2>4 DEF CreateBet, EscrowInv, EscrowTypeOK, LockedKnown
  <2> QED
    BY <2>1, <2>5 DEF EscrowInv
<1>3. ASSUME NEW a \in Account, NEW w \in Account, NEW b \in BetId, ResolveBet(a, b, w)
      PROVE  EscrowInv'
  <2>1. EscrowTypeOK'
    BY <1>3, ResolveBetType DEF EscrowInv
  <2>2. LockedKnown'
    BY <1>3 DEF ResolveBet, EscrowInv, EscrowTypeOK, LockedKnown, Bet
  <2> QED
    BY <2>1, <2>2 DEF EscrowInv
<1>4. ASSUME NEW a \in Account, NEW b \in BetId, RefundBet(a, b)
      PROVE  EscrowInv'
  <2>1. EscrowTypeOK'
    BY <1>4, RefundBetType DEF EscrowInv
  <2>2. LockedKnown'
    BY <1>4 DEF RefundBet, EscrowInv, EscrowTypeOK, LockedKnown, Bet
  <2> QED
    BY <2>1, <2>2 DEF EscrowInv
<1>5. CASE UNCHANGED escrowVars
  BY <1>5 DEF escrowVars, EscrowInv, EscrowTypeOK, LockedKnown
<1> QED
  BY <1>1, <1>2, <1>3, <1>4, <1>5 DEF EscrowNext

(* The invariant holds throughout. *)
THEOREM EscrowInvHolds == EscrowSpec => []EscrowInv
BY EscrowInvInit, EscrowInvStep, PTL DEF EscrowSpec

(* No balance, allowance or payout of the contract is ever negative and the *)
(* fee rate stays a fraction: its unsigned arithmetic cannot underflow.     *)
THEOREM EscrowTypeCorrect == EscrowSpec => []EscrowTypeOK
<1>1. EscrowInv => EscrowTypeOK
  BY DEF EscrowInv
<1> QED
  BY <1>1, EscrowInvHolds, PTL

-----------------------------------------------------------------------------
(* What a transaction may never do. *)

TermsFixed(b) ==
    bets[b].status # "None" =>
       /\ bets'[b].challenger = bets[b].challenger
       /\ bets'[b].opponent = bets[b].opponent
       /\ bets'[b].amount = bets[b].amount
       /\ bets'[b].status \in IF bets[b].status = "Locked"
                              THEN {"Locked", "Resolved", "Refunded"}
                              ELSE {bets[b].status}

(* No call changes the terms of a bet that was created. *)
LEMMA TermsStep == EscrowInv /\ [EscrowNext]_escrowVars => \A b \in BetId : TermsFixed(b)
<1> SUFFICES ASSUME EscrowInv, [EscrowNext]_escrowVars, NEW c \in BetId
             PROVE  TermsFixed(c)
  OBVIOUS
<1>1. bets[c] \in Bet /\ bets \in [BetId -> Bet]
  BY DEF EscrowInv, EscrowTypeOK
<1>2. CASE UNCHANGED bets
  BY <1>1, <1>2 DEF TermsFixed
<1>3. ASSUME NEW b \in BetId, NEW p \in Account, NEW q \in Account, NEW s \in Stake,
             CreateBet(b, p, q, s)
      PROVE  TermsFixed(c)
  BY <1>1, <1>3 DEF CreateBet, TermsFixed
<1>4. ASSUME NEW b \in BetId, bets[b].status = "Locked",
             NEW s \in {"Resolved", "Refunded"}, bets' = [bets EXCEPT ![b].status = s]
      PROVE  TermsFixed(c)
  BY <1>1, <1>4 DEF TermsFixed, Bet
<1> QED
  BY <1>2, <1>3, <1>4 DEF EscrowNext, SetFeeConfig, ResolveBet, RefundBet, escrowVars

(* The terms of a bet never change and it is settled at most once, however  *)
(* the calls of players, resolver and administrator are interleaved.       *)
THEOREM BetTermsStayFixed == EscrowSpec => BetTermsFixed
<1>1. EscrowInv /\ [EscrowNext]_escrowVars => [\A b \in BetId : TermsFixed(b)]_escrowVars
  BY TermsStep
<1> QED
  BY <1>1, EscrowInvHolds, PTL DEF EscrowSpec, BetTermsFixed, TermsFixed

(* The balances after two transfers out of the contract: m to r, n to w. *)
MovedOut(bal, after, r, m, w, n) ==
    \A a \in Account :
        after[a] = IF a = Escrow
                   THEN (IF r = Escrow THEN bal[a] - n ELSE bal[a] - m - n)
                   ELSE bal[a] + (IF a = r THEN m ELSE 0) + (IF a = w THEN n ELSE 0)

(* What two transfers out of the contract leave, account by account. *)
LEMMA TwoTransfers ==
    ASSUME NEW bal \in [Account -> Nat],
           NEW r \in Account, NEW w \in Account, w # Escrow,
           NEW m \in Nat, NEW n \in Nat
    PROVE  MovedOut(bal, Transfer(Transfer(bal, Escrow, r, m), Escrow, w, n), r, m, w, n)
<1> DEFINE mid == Transfer(bal, Escrow, r, m)
<1> SUFFICES ASSUME NEW a \in Account
             PROVE  Transfer(mid, Escrow, w, n)[a] =
                IF a = Escrow THEN (IF r = Escrow THEN bal[a] - n ELSE bal[a] - m - n)
                ELSE bal[a] + (IF a = r THEN m ELSE 0) + (IF a = w THEN n ELSE 0)
  BY DEF MovedOut
<1>1. Escrow \in Account
  BY AccountAssumption
<1>2. /\ mid \in [Account -> Int]
      /\ mid[a] = IF a = Escrow THEN (IF r = Escrow THEN bal[a] ELSE bal[a] - m)
                 ELSE bal[a] + (IF a = r THEN m ELSE 0)
  BY <1>1 DEF Transfer
<1> HIDE DEF mid
<1>3. Transfer(mid, Escrow, w, n)[a] =
         IF a = Escrow THEN mid[a] - n ELSE mid[a] + (IF a = w THEN n ELSE 0)
  BY <1>1, <1>2 DEF Transfer
<1>4. bal[a] \in Nat
  OBVIOUS
<1> QED
  BY <1>2, <1>3, <1>4 DEF mid

(* A call that resolves or refunds a bet pays its whole pot. *)
LEMMA PaidStep ==
    EscrowInv /\ [EscrowNext]_escrowVars =>
       \A b \in BetId : bets[b].status = "Locked" /\ bets'[b].status # "Locked" => PaidOut(b)
<1> SUFFICES ASSUME EscrowInv, [EscrowNext]_escrowVars, NEW b \in BetId,
                    bets[b].status = "Locked", bets'[b].status # "Locked"
             PROVE  PaidOut(b)
  OBVIOUS
<1> DEFINE bet == bets[b]
<1>1. /\ bets \in [BetId -> Bet] /\ balance \in [Account -> Nat]
      /\ feeRecipient \in Account /\ feeBps \in 0 .. MaxBps
  BY DEF EscrowInv, EscrowTypeOK
<1>2. /\ bet.challenger \in Account \ {Escrow} /\ bet.opponent \in Account \ {Escrow}
      /\ bet.amount \in Nat
  BY <1>1 DEF EscrowInv, LockedKnown, Bet
<1>3. ASSUME NEW a \in Account, NEW w \in Account, ResolveBet(a, b, w)
      PROVE  PaidOut(b)
  <2> DEFINE fee == FeeOf(Pot(b), feeBps)
  <2>1. Pot(b) \in Nat /\ fee \in 0 .. Pot(b)
    BY <1>1, <1>2, FeeBound DEF Pot
  <2>2. w \in {bet.challenger, bet.opponent} /\ w \in Account \ {Escrow}
    BY <1>2, <1>3 DEF ResolveBet
  <2>3. balance' = Transfer(Transfer(balance, Escrow, feeRecipient, fee),
                            Escrow, w, Pot(b) - fee)
    BY <1>3 DEF ResolveBet
  <2> DEFINE rest == Pot(b) - fee
  <2>4. fee \in Nat /\ rest \in Nat /\ fee + rest = Pot(b)
    BY <2>1
  <2>5. bets'[b].status = "Resolved"
    BY <1>1, <1>3 DEF ResolveBet, Bet
  <2> HIDE DEF fee, rest
  <2>6. MovedOut(balance, balance', feeRecipient, fee, w, rest)
    <3>1. balance' = Transfer(Transfer(balance, Escrow, feeRecipient, fee), Escrow, w, rest)
      BY <2>3 DEF fee, rest
    <3> QED
      BY <1>1, <2>2, <2>4, <3>1, TwoTransfers
  <2>7. \A x \in Account : balance[x] \in Nat
    BY <1>1
  <2> DEFINE gain(x) == balance'[x] - balance[x]
  <2>8. feeRecipient # Escrow => gain(Escrow) = -Pot(b)
    BY <2>1, <2>4, <2>6, <2>7, AccountAssumption DEF MovedOut
  <2>9. ASSUME NEW x \in Account \ {Escrow}
        PROVE  /\ gain(x) >= 0
               /\ gain(x) > 0 => x \in {bet.challenger, bet.opponent, feeRecipient}
    <3>1. gain(x) = (IF x = feeRecipient THEN fee ELSE 0) + (IF x = w THEN rest ELSE 0)
      BY <2>4, <2>6, <2>7 DEF MovedOut
    <3> QED
      BY <2>2, <2>4, <3>1
  <2> QED
    BY <2>5, <2>8, <2>9 DEF PaidOut
<1>4. ASSUME NEW a \in Account, RefundBet(a, b)
      PROVE  PaidOut(b)
  <2>1. balance' = Transfer(Transfer(balance, Escrow, bet.challenger, bet.amount),
                            Escrow, bet.opponent, bet.amount)
    BY <1>4 DEF RefundBet
  <2>2. MovedOut(balance, balance', bet.challenger, bet.amount, bet.opponent, bet.amount)
    BY <1>1, <1>2, <2>1, TwoTransfers
  <2>3. \A x \in Account : balance[x] \in Nat
    BY <1>1
  <2> DEFINE gain(x) == balance'[x] - balance[x]
             stakeOf(x) == (IF x = bet.challenger THEN bet.amount ELSE 0)
                              + (IF x = bet.opponent THEN bet.amount ELSE 0)
  <2>4. gain(Escrow) = -Pot(b)
    <3>1. gain(Escrow) = -(2 * bet.amount)
      BY <1>2, <2>2, <2>3, AccountAssumption DEF MovedOut
    <3> QED
      BY <3>1 DEF Pot
  <2>5. ASSUME NEW x \in Account \ {Escrow} PROVE gain(x) = stakeOf(x)
    BY <1>2, <2>2, <2>3 DEF MovedOut
  <2>6. ASSUME NEW x \in Account \ {Escrow}
        PROVE  /\ gain(x) >= 0
               /\ gain(x) > 0 => x \in {bet.challenger, bet.opponent, feeRecipient}
    <3> HIDE DEF gain
    <3>1. gain(x) = stakeOf(x)
      BY <2>5
    <3> QED
      BY <1>2, <3>1
  <2> QED
    BY <2>4, <2>5, <2>6 DEF PaidOut
<1>5. ASSUME NEW c \in BetId, NEW s, c # b, bets' = [bets EXCEPT ![c].status = s]
      PROVE  FALSE
  BY <1>1, <1>5
<1>6. ASSUME NEW c \in BetId, NEW p, NEW q, NEW s, CreateBet(c, p, q, s)
      PROVE  FALSE
  BY <1>1, <1>6 DEF CreateBet
<1>7. ~(UNCHANGED bets)
  OBVIOUS
<1>8. CASE \E a, w \in Account, c \in BetId : ResolveBet(a, c, w)
  BY <1>3, <1>5, <1>8 DEF ResolveBet
<1>9. CASE \E a \in Account, c \in BetId : RefundBet(a, c)
  BY <1>4, <1>5, <1>9 DEF RefundBet
<1> QED
  BY <1>6, <1>7, <1>8, <1>9 DEF EscrowNext, SetFeeConfig, escrowVars

(* A settlement pays out the whole pot of its bet and nothing else, at      *)
(* whatever fee rate the administrator has set by then.                    *)
THEOREM PotIsPaidOut == EscrowSpec => PotPaidOut
<1>1. EscrowInv /\ [EscrowNext]_escrowVars =>
         [\A b \in BetId :
             bets[b].status = "Locked" /\ bets'[b].status # "Locked" => PaidOut(b)]_escrowVars
  BY PaidStep
<1> QED
  BY <1>1, EscrowInvHolds, PTL DEF EscrowSpec, PotPaidOut

-----------------------------------------------------------------------------
(* The contract can pay what it owes. *)

PotOf(bs) == [b \in BetId |-> 2 * bs[b].amount]
LockedIn(bs) == {b \in BetId : bs[b].status = "Locked"}
Pots(bs, S) == MapThenSumSet(LAMBDA b : 2 * bs[b].amount, S)

(* The pots of some bets are a sum as above. *)
LEMMA PotsAreSum ==
    ASSUME NEW bs, NEW S \in SUBSET BetId
    PROVE  Pots(bs, S) = SumOf(PotOf(bs), S)
BY DEF Pots, SumOf, PotOf, MapThenSumSet, MapThenFoldSet, Pick

(* Locking one bet adds its pot; read from right to left, settling one takes *)
(* it away. *)
LEMMA OneBetMore ==
    ASSUME NEW bs \in [BetId -> Bet], NEW cs \in [BetId -> Bet], NEW b \in BetId,
           IsFiniteSet(LockedIn(bs)),
           bs[b].status # "Locked", LockedIn(cs) = LockedIn(bs) \cup {b},
           \A c \in LockedIn(bs) : cs[c].amount = bs[c].amount
    PROVE  /\ IsFiniteSet(LockedIn(cs))
           /\ Pots(bs, LockedIn(bs)) \in Nat
           /\ Pots(cs, LockedIn(cs)) = Pots(bs, LockedIn(bs)) + 2 * cs[b].amount
<1> DEFINE S == LockedIn(bs)
           T == LockedIn(cs)
<1>1. S \in SUBSET BetId /\ T \in SUBSET BetId /\ b \in T /\ b \notin S /\ T \ {b} = S
  BY DEF LockedIn
<1>2. IsFiniteSet(T)
  BY FS_AddElement
<1>3. \A c \in BetId : PotOf(bs)[c] = 2 * bs[c].amount /\ PotOf(cs)[c] = 2 * cs[c].amount
  BY DEF PotOf
<1>4. \A c \in BetId : bs[c].amount \in Nat /\ cs[c].amount \in Nat
  BY DEF Bet
<1>5. \A c \in S : PotOf(bs)[c] \in Nat /\ PotOf(cs)[c] = PotOf(bs)[c]
  BY <1>1, <1>3, <1>4
<1>6. \A c \in T : PotOf(cs)[c] \in Int
  BY <1>1, <1>3, <1>4
<1> HIDE DEF S, T
<1>7. SumOf(PotOf(cs), T) = PotOf(cs)[b] + SumOf(PotOf(cs), T \ {b})
  BY <1>1, <1>2, <1>6, SumSplit
<1>8. SumOf(PotOf(cs), S) = SumOf(PotOf(bs), S)
  <2>1. \A c \in S : PotOf(bs)[c] \in Int /\ PotOf(cs)[c] = PotOf(bs)[c]
    BY <1>5
  <2>2. IsFiniteSet(S)
    BY DEF S
  <2> QED
    BY <2>1, <2>2, SumSame
<1>9. SumOf(PotOf(bs), S) \in Nat
  <2>1. \A c \in S : PotOf(bs)[c] \in Nat
    BY <1>5
  <2>2. IsFiniteSet(S)
    BY DEF S
  <2> QED
    BY <2>1, <2>2, SumNat
<1>10. Pots(bs, S) = SumOf(PotOf(bs), S) /\ Pots(cs, T) = SumOf(PotOf(cs), T)
  BY <1>1, PotsAreSum
<1>11. /\ Pots(bs, S) \in Nat
       /\ Pots(cs, T) = Pots(bs, S) + 2 * cs[b].amount
  <2>1. SumOf(PotOf(cs), T) = 2 * cs[b].amount + SumOf(PotOf(bs), S)
    BY <1>1, <1>3, <1>7, <1>8
  <2>2. 2 * cs[b].amount \in Nat
    BY <1>4
  <2> QED
    BY <1>9, <1>10, <2>1, <2>2
<1> QED
  BY <1>2, <1>11 DEF S, T

(* The locked bets are finitely many, and the contract holds their stakes. *)
StakesHeld(bs, bal) ==
    IsFiniteSet(LockedIn(bs)) /\ bal[Escrow] >= Pots(bs, LockedIn(bs))

SolventInv == EscrowInv /\ StakesHeld(bets, balance)

(* A contract that was just deployed owes nothing. *)
LEMMA SolventInitially == EscrowInit => SolventInv
<1> SUFFICES ASSUME EscrowInit PROVE SolventInv
  OBVIOUS
<1>1. EscrowInv
  BY EscrowInvInit
<1>2. LockedIn(bets) = {}
  BY DEF EscrowInit, NoBet, LockedIn
<1>3. IsFiniteSet(LockedIn(bets))
  BY <1>2, FS_EmptySet
<1>4. Pots(bets, LockedIn(bets)) = 0
  <2>1. {} \in SUBSET BetId
    OBVIOUS
  <2>2. Pots(bets, {}) = SumOf(PotOf(bets), {})
    BY <2>1, PotsAreSum
  <2> QED
    BY <1>2, <2>2, SumNone
<1>5. balance[Escrow] = 0
  BY AccountAssumption DEF EscrowInit
<1> QED
  BY <1>1, <1>3, <1>4, <1>5 DEF SolventInv, StakesHeld

(* createBet brings in both stakes of the bet it locks. *)
LEMMA CreateCovered ==
    ASSUME SolventInv, NEW b \in BetId, NEW p \in Account, NEW q \in Account,
           NEW s \in Stake, CreateBet(b, p, q, s), EscrowInv'
    PROVE  StakesHeld(bets', balance')
<1>1. s \in Nat /\ s # 0
  BY StakeAssumption DEF CreateBet
<1>2. /\ bets \in [BetId -> Bet] /\ bets' \in [BetId -> Bet]
      /\ balance \in [Account -> Nat] /\ allowance \in [Account -> Nat]
  BY DEF SolventInv, EscrowInv, EscrowTypeOK
<1>3. p # Escrow /\ q # Escrow
  BY <1>1, <1>2, AccountAssumption DEF CreateBet, SolventInv, EscrowInv, LockedKnown, Spend
<1>4. balance'[Escrow] = balance[Escrow] + s + s
  <2> DEFINE first == Transfer(balance, p, Escrow, s)
  <2>1. first \in [Account -> Int] /\ first[Escrow] = balance[Escrow] + s
    BY <1>1, <1>2, <1>3, AccountAssumption DEF Transfer
  <2>2. balance' = Transfer(first, q, Escrow, s)
    BY DEF CreateBet
  <2> HIDE DEF first
  <2>3. balance'[Escrow] = first[Escrow] + s
    BY <1>1, <1>3, <2>1, <2>2, AccountAssumption DEF Transfer
  <2> QED
    BY <2>1, <2>3
<1>5. /\ bets[b].status # "Locked"
      /\ LockedIn(bets') = LockedIn(bets) \cup {b}
      /\ \A c \in LockedIn(bets) : bets'[c].amount = bets[c].amount
      /\ bets'[b].amount = s
  BY <1>2 DEF CreateBet, LockedIn
<1>6. /\ IsFiniteSet(LockedIn(bets')) /\ Pots(bets, LockedIn(bets)) \in Nat
      /\ Pots(bets', LockedIn(bets')) = Pots(bets, LockedIn(bets)) + 2 * bets'[b].amount
  BY <1>2, <1>5, OneBetMore DEF SolventInv, StakesHeld
<1>7. balance[Escrow] \in Nat /\ balance[Escrow] >= Pots(bets, LockedIn(bets))
  BY <1>2, AccountAssumption DEF SolventInv, StakesHeld
<1>8. balance'[Escrow] >= Pots(bets', LockedIn(bets'))
  BY <1>1, <1>4, <1>5, <1>6, <1>7
<1> QED
  BY <1>6, <1>8 DEF StakesHeld

(* A settlement takes out of the contract no more than the pot of the bet it *)
(* closes. *)
LEMMA SettleCovered ==
    ASSUME SolventInv, NEW b \in BetId, bets[b].status = "Locked", EscrowInv',
           NEW s \in {"Resolved", "Refunded"}, bets' = [bets EXCEPT ![b].status = s],
           balance'[Escrow] \in Nat, balance'[Escrow] >= balance[Escrow] - Pot(b)
    PROVE  StakesHeld(bets', balance')
<1>1. /\ bets \in [BetId -> Bet] /\ bets' \in [BetId -> Bet]
      /\ balance \in [Account -> Nat]
  BY DEF SolventInv, EscrowInv, EscrowTypeOK
<1>2. /\ bets'[b].status # "Locked"
      /\ LockedIn(bets) = LockedIn(bets') \cup {b}
      /\ LockedIn(bets') \subseteq LockedIn(bets)
      /\ \A c \in LockedIn(bets') : bets[c].amount = bets'[c].amount
  BY <1>1 DEF LockedIn
<1>3. IsFiniteSet(LockedIn(bets'))
  BY <1>2, FS_Subset DEF SolventInv, StakesHeld
<1>4. /\ Pots(bets', LockedIn(bets')) \in Nat
      /\ Pots(bets, LockedIn(bets)) = Pots(bets', LockedIn(bets')) + 2 * bets[b].amount
  <2>1. ASSUME NEW bs \in [BetId -> Bet], bs = bets'
        PROVE  /\ Pots(bs, LockedIn(bs)) \in Nat
               /\ Pots(bets, LockedIn(bets)) = Pots(bs, LockedIn(bs)) + 2 * bets[b].amount
    <3>1. bs[b].status # "Locked"
      BY <1>2, <2>1
    <3>2. LockedIn(bets) = LockedIn(bs) \cup {b}
      BY <1>2, <2>1
    <3>3. \A c \in LockedIn(bs) : bets[c].amount = bs[c].amount
      BY <1>2, <2>1
    <3>4. IsFiniteSet(LockedIn(bs))
      BY <1>3, <2>1
    <3> QED
      BY <1>1, <3>1, <3>2, <3>3, <3>4, OneBetMore
  <2> QED
    BY <1>1, <2>1
<1>5. balance[Escrow] \in Nat /\ balance[Escrow] >= Pots(bets, LockedIn(bets))
  BY <1>1, AccountAssumption DEF SolventInv, StakesHeld
<1>6. bets[b].amount \in Nat
  BY <1>1 DEF Bet
<1>7. balance'[Escrow] >= Pots(bets', LockedIn(bets'))
  BY <1>4, <1>5, <1>6 DEF Pot
<1> QED
  BY <1>3, <1>7 DEF StakesHeld

(* Every call leaves the contract able to pay what it owes. *)
LEMMA SolventStep == SolventInv /\ [EscrowNext]_escrowVars => SolventInv'
<1> SUFFICES ASSUME SolventInv, [EscrowNext]_escrowVars PROVE SolventInv'
  OBVIOUS
<1>1. EscrowInv'
  BY EscrowInvStep DEF SolventInv
<1>2. /\ bets \in [BetId -> Bet] /\ balance \in [Account -> Nat]
      /\ balance' \in [Account -> Nat]
      /\ feeRecipient \in Account /\ feeBps \in 0 .. MaxBps /\ Escrow \in Account
  BY <1>1, AccountAssumption DEF SolventInv, EscrowInv, EscrowTypeOK
<1>3. \A b \in BetId : bets[b].status = "Locked" =>
         /\ bets[b].challenger \in Account \ {Escrow}
         /\ bets[b].opponent \in Account \ {Escrow}
         /\ bets[b].amount \in Nat
  BY <1>2 DEF SolventInv, EscrowInv, LockedKnown, Bet
<1>4. CASE UNCHANGED <<bets, balance>>
  <2>1. StakesHeld(bets', balance')
    BY <1>4 DEF SolventInv
  <2> QED
    BY <1>1, <2>1 DEF SolventInv, StakesHeld
<1>5. ASSUME NEW b \in BetId, NEW p \in Account, NEW q \in Account, NEW s \in Stake,
             CreateBet(b, p, q, s)
      PROVE  StakesHeld(bets', balance')
  BY <1>1, <1>5, CreateCovered
<1>6. ASSUME NEW a \in Account, NEW w \in Account, NEW b \in BetId, ResolveBet(a, b, w)
      PROVE  StakesHeld(bets', balance')
  <2> DEFINE fee == FeeOf(Pot(b), feeBps)
  <2>1. bets[b].status = "Locked" /\ w # Escrow
    BY <1>3, <1>6 DEF ResolveBet
  <2>2. Pot(b) \in Nat /\ fee \in 0 .. Pot(b)
    BY <1>2, <1>3, <2>1, FeeBound DEF Pot
  <2>3. fee \in Nat /\ Pot(b) - fee \in Nat
    BY <2>2
  <2>4. balance' = Transfer(Transfer(balance, Escrow, feeRecipient, fee), Escrow, w, Pot(b) - fee)
    BY <1>6 DEF ResolveBet
  <2> HIDE DEF fee
  <2>5. MovedOut(balance, balance', feeRecipient, fee, w, Pot(b) - fee)
    BY <1>2, <2>1, <2>3, <2>4, TwoTransfers
  <2>6. balance'[Escrow] = IF feeRecipient = Escrow
                           THEN balance[Escrow] - (Pot(b) - fee)
                           ELSE balance[Escrow] - fee - (Pot(b) - fee)
    BY <1>2, <2>5 DEF MovedOut
  <2>7. balance'[Escrow] >= balance[Escrow] - Pot(b) /\ balance'[Escrow] \in Nat
    BY <1>2, <2>2, <2>3, <2>6
  <2>8. bets' = [bets EXCEPT ![b].status = "Resolved"]
    BY <1>6 DEF ResolveBet
  <2> QED
    BY <1>1, <2>1, <2>7, <2>8, SettleCovered
<1>7. ASSUME NEW a \in Account, NEW b \in BetId, RefundBet(a, b)
      PROVE  StakesHeld(bets', balance')
  <2> DEFINE bet == bets[b]
  <2>1. bet.status = "Locked"
    BY <1>7 DEF RefundBet
  <2>2. bet.challenger \in Account \ {Escrow} /\ bet.opponent \in Account \ {Escrow}
        /\ bet.amount \in Nat
    BY <1>3, <2>1
  <2>3. balance' = Transfer(Transfer(balance, Escrow, bet.challenger, bet.amount),
                            Escrow, bet.opponent, bet.amount)
    BY <1>7 DEF RefundBet
  <2>4. MovedOut(balance, balance', bet.challenger, bet.amount, bet.opponent, bet.amount)
    BY <1>2, <2>2, <2>3, TwoTransfers
  <2>5. balance'[Escrow] = balance[Escrow] - bet.amount - bet.amount
    BY <1>2, <2>2, <2>4 DEF MovedOut
  <2>6. balance'[Escrow] >= balance[Escrow] - Pot(b) /\ balance'[Escrow] \in Nat
    BY <1>2, <2>2, <2>5 DEF Pot
  <2>7. bets' = [bets EXCEPT ![b].status = "Refunded"]
    BY <1>7 DEF RefundBet
  <2> QED
    BY <1>1, <2>1, <2>6, <2>7, SettleCovered
<1>8. StakesHeld(bets', balance') => SolventInv'
  BY <1>1 DEF SolventInv, StakesHeld
<1> QED
  BY <1>4, <1>5, <1>6, <1>7, <1>8 DEF EscrowNext, SetFeeConfig, escrowVars

(* The contract always holds the stakes of every locked bet. *)
THEOREM ContractStaysSolvent == EscrowSpec => []Solvent
<1>1. SolventInv => Solvent
  BY DEF SolventInv, StakesHeld, Solvent, Pots, LockedIn, LockedBets, MapThenSumSet, MapThenFoldSet
<1> QED
  BY <1>1, SolventInitially, SolventStep, PTL DEF EscrowSpec

(* The contract can pay the fee and the payout of resolveBet, and both      *)
(* transfers of refundBet, for every locked bet.                           *)
SettlementsCovered ==
    \A b \in BetId : bets[b].status = "Locked" =>
       LET bet == bets[b]
           fee == FeeOf(Pot(b), feeBps)
       IN  /\ CanTransfer(balance, Escrow, fee)
           /\ CanTransfer(Transfer(balance, Escrow, feeRecipient, fee), Escrow, Pot(b) - fee)
           /\ CanTransfer(balance, Escrow, bet.amount)
           /\ CanTransfer(Transfer(balance, Escrow, bet.challenger, bet.amount),
                          Escrow, bet.amount)

(* No settlement fails for lack of tokens, whatever the calls before it. *)
THEOREM SettlementsNeverFail == EscrowSpec => []SettlementsCovered
<1>1. SolventInv => SettlementsCovered
  <2> SUFFICES ASSUME SolventInv, NEW b \in BetId, bets[b].status = "Locked"
               PROVE  LET bet == bets[b]
                          fee == FeeOf(Pot(b), feeBps)
                      IN  /\ CanTransfer(balance, Escrow, fee)
                          /\ CanTransfer(Transfer(balance, Escrow, feeRecipient, fee), Escrow, Pot(b) - fee)
                          /\ CanTransfer(balance, Escrow, bet.amount)
                          /\ CanTransfer(Transfer(balance, Escrow, bet.challenger, bet.amount), Escrow, bet.amount)
    BY DEF SettlementsCovered
  <2>1. /\ bets \in [BetId -> Bet] /\ balance \in [Account -> Nat]
        /\ feeRecipient \in Account /\ feeBps \in 0 .. MaxBps /\ Escrow \in Account
    BY AccountAssumption DEF SolventInv, EscrowInv, EscrowTypeOK
  <2>2. bets[b].challenger \in Account /\ bets[b].amount \in Nat
    BY <2>1 DEF SolventInv, EscrowInv, LockedKnown, Bet
  <2> DEFINE others == [bets EXCEPT ![b].status = "Resolved"]
  <2>3. Pots(bets, LockedIn(bets)) >= Pot(b) /\ Pots(bets, LockedIn(bets)) \in Nat
    <3>1. others \in [BetId -> Bet]
      BY <2>1 DEF Bet, BetStatus
    <3>2. /\ others[b].status # "Locked"
          /\ LockedIn(bets) = LockedIn(others) \cup {b}
          /\ LockedIn(others) \subseteq LockedIn(bets)
          /\ \A c \in LockedIn(others) : bets[c].amount = others[c].amount
      BY <2>1 DEF LockedIn
    <3>3. IsFiniteSet(LockedIn(others))
      BY <3>2, FS_Subset DEF SolventInv, StakesHeld
    <3> HIDE DEF others
    <3>4. /\ Pots(others, LockedIn(others)) \in Nat
          /\ Pots(bets, LockedIn(bets)) = Pots(others, LockedIn(others)) + 2 * bets[b].amount
      BY <2>1, <3>1, <3>2, <3>3, OneBetMore
    <3> QED
      BY <2>2, <3>4 DEF Pot
  <2>4. Pot(b) = 2 * bets[b].amount /\ FeeOf(Pot(b), feeBps) \in 0 .. Pot(b)
    BY <2>1, <2>2, FeeBound DEF Pot
  <2>5. balance[Escrow] \in Nat /\ balance[Escrow] >= Pot(b)
    BY <2>1, <2>2, <2>3, <2>4 DEF SolventInv, StakesHeld
  <2>6. ASSUME NEW r \in Account, NEW m \in Nat
        PROVE  Transfer(balance, Escrow, r, m)[Escrow] >= balance[Escrow] - m
    BY <2>1, <2>5 DEF Transfer
  <2> HIDE DEF others
  <2>7. \A fee \in 0 .. Pot(b) :
           /\ CanTransfer(balance, Escrow, fee)
           /\ CanTransfer(Transfer(balance, Escrow, feeRecipient, fee), Escrow, Pot(b) - fee)
    <3> SUFFICES ASSUME NEW fee \in 0 .. Pot(b)
                 PROVE  /\ balance[Escrow] >= fee
                        /\ Transfer(balance, Escrow, feeRecipient, fee)[Escrow] >= Pot(b) - fee
      BY DEF CanTransfer
    <3> DEFINE after == Transfer(balance, Escrow, feeRecipient, fee)[Escrow]
    <3>1. Pot(b) \in Nat
      BY <2>2, <2>4
    <3>2. after \in Int /\ after >= balance[Escrow] - fee
      BY <2>1, <2>5, <2>6, <3>1 DEF Transfer
    <3> HIDE DEF after
    <3>3. after >= Pot(b) - fee
      BY <2>5, <3>1, <3>2
    <3> QED
      BY <2>5, <3>1, <3>3 DEF after
  <2>8. /\ CanTransfer(balance, Escrow, bets[b].amount)
        /\ CanTransfer(Transfer(balance, Escrow, bets[b].challenger, bets[b].amount),
                       Escrow, bets[b].amount)
    <3> DEFINE after == Transfer(balance, Escrow, bets[b].challenger, bets[b].amount)[Escrow]
    <3>1. after \in Int /\ after >= balance[Escrow] - bets[b].amount
      BY <2>1, <2>2, <2>5, <2>6 DEF Transfer
    <3> HIDE DEF after
    <3>2. after >= bets[b].amount /\ balance[Escrow] >= bets[b].amount
      BY <2>2, <2>4, <2>5, <3>1
    <3> QED
      BY <3>2 DEF after, CanTransfer
  <2> QED
    BY <2>4, <2>7, <2>8
<1> QED
  BY <1>1, SolventInitially, SolventStep, PTL DEF EscrowSpec

------------------------------------------------------------------------------
(* The ledger of the agent runtime. *)

(* What the balance of w may be: only the bank may have been overdrawn. *)
Amount(w) == {x \in Int : x >= IF w = Bank THEN -overdraft ELSE 0}

(* Arithmetic on balances. *)
LEMMA AmountFacts ==
    ASSUME overdraft \in Nat, NEW w
    PROVE  /\ Amount(w) \subseteq Int /\ Nat \subseteq Amount(w)
           /\ \A x \in Amount(w) : \A n \in Nat : x + n \in Amount(w)
           /\ \A x \in Amount(w) : \A n \in Int : x >= n => x - n \in Amount(w)
BY DEF Amount

Balances == {f \in [Wallet -> Int] : \A w \in Wallet : f[w] \in Amount(w)}

(* The bank, the players and the bots have different wallets. *)
LEMMA WalletFacts ==
    /\ Bank \in Wallet /\ User \subseteq Wallet /\ Npc \subseteq Wallet
    /\ Bank \notin Npc /\ Bank \notin User /\ User \cap Npc = {}
BY LedgerAssumption DEF Wallet

(* Adding to one balance adds to the total. *)
Plus(f, w, n) == [f EXCEPT ![w] = @ + n]

(* What is added to a balance leaves it a balance. *)
LEMMA PlusType ==
    ASSUME overdraft \in Nat, NEW f \in Balances, NEW w \in Wallet, NEW n \in Nat
    PROVE  Plus(f, w, n) \in Balances
<1> DEFINE g == Plus(f, w, n)
<1>1. /\ g \in [Wallet -> Int] /\ g[w] = f[w] + n
      /\ \A y \in Wallet \ {w} : g[y] = f[y]
  BY DEF Plus, Balances
<1>2. f[w] + n \in Amount(w) /\ \A y \in Wallet : f[y] \in Amount(y)
  BY AmountFacts DEF Balances
<1>3. \A y \in Wallet : g[y] \in Amount(y)
  BY <1>1, <1>2
<1> HIDE DEF g
<1> QED
  BY <1>1, <1>3 DEF Balances, g

(* The total of the wallets is a sum as above. *)
LEMMA TotalIsSum == ASSUME NEW f PROVE Total(f) = SumOf(f, Wallet)
BY DEF Total, SumOf, MapThenSumSet, MapThenFoldSet

(* The total of integer balances is an integer. *)
LEMMA TotalInt == ASSUME NEW f \in [Wallet -> Int] PROVE Total(f) \in Int
BY TotalIsSum, SumInt, LedgerAssumption

(* Adding to one balance adds to the total. *)
LEMMA PlusTotal ==
    ASSUME NEW f \in [Wallet -> Int], NEW w \in Wallet, NEW n \in Int
    PROVE  Plus(f, w, n) \in [Wallet -> Int] /\ Total(Plus(f, w, n)) = Total(f) + n
<1> DEFINE g == Plus(f, w, n)
<1>1. g \in [Wallet -> Int] /\ g[w] = f[w] + n /\ \A y \in Wallet \ {w} : g[y] = f[y]
  BY DEF Plus
<1> HIDE DEF g
<1>2. IsFiniteSet(Wallet)
  BY LedgerAssumption
<1>3. \A y \in Wallet : f[y] \in Int /\ g[y] \in Int
  BY <1>1
<1>4. SumOf(g, Wallet) = SumOf(f, Wallet) + g[w] - f[w]
  BY <1>1, <1>2, <1>3, SumChanged
<1>5. SumOf(f, Wallet) \in Int /\ f[w] \in Int
  BY TotalIsSum, TotalInt
<1>6. SumOf(g, Wallet) = SumOf(f, Wallet) + n
  BY <1>1, <1>4, <1>5
<1>7. Total(g) = Total(f) + n
  BY <1>6, TotalIsSum
<1> QED
  BY <1>1, <1>7 DEF g

(* What lies in escrow. *)
LockShape == [by : Wallet, against : Wallet, amount : Nat]
Lock == {lock \in LockShape : lock = NoLock \/ lock.by # lock.against}
Twice(locks) == [c \in Stakeable |-> 2 * locks[c].amount]

(* What lies in escrow is a sum as above. *)
LEMMA EscrowedIsSum == ASSUME NEW locks PROVE Escrowed(locks) = SumOf(Twice(locks), Stakeable)
BY DEF Escrowed, SumOf, Twice, MapThenSumSet, MapThenFoldSet, Pick

(* What lies in escrow is an integer. *)
LEMMA EscrowedInt == ASSUME NEW locks \in [Stakeable -> Lock] PROVE Escrowed(locks) \in Int
<1>1. \A c \in Stakeable : Twice(locks)[c] \in Int
  BY DEF Twice, Lock, LockShape
<1> QED
  BY <1>1, EscrowedIsSum, SumInt, LedgerAssumption

(* Replacing one lock by another changes what lies in escrow by their pots. *)
LEMMA EscrowedChanged ==
    ASSUME NEW locks \in [Stakeable -> Lock], NEW c \in Stakeable, NEW lock \in Lock
    PROVE  Escrowed([locks EXCEPT ![c] = lock]) =
              Escrowed(locks) + 2 * lock.amount - 2 * locks[c].amount
<1> DEFINE new == [locks EXCEPT ![c] = lock]
           v == Twice(locks)
           w == Twice(new)
<1>1. IsFiniteSet(Stakeable)
  BY LedgerAssumption
<1>2. new \in [Stakeable -> Lock] /\ new[c] = lock /\ \A d \in Stakeable \ {c} : new[d] = locks[d]
  OBVIOUS
<1>3. \A d \in Stakeable : locks[d].amount \in Nat /\ new[d].amount \in Nat
  BY <1>2 DEF Lock, LockShape
<1> HIDE DEF new
<1>4. /\ \A d \in Stakeable : v[d] \in Int /\ w[d] \in Int
      /\ \A d \in Stakeable \ {c} : w[d] = v[d]
      /\ w[c] = 2 * lock.amount /\ v[c] = 2 * locks[c].amount
  BY <1>2, <1>3 DEF Twice
<1> HIDE DEF v, w
<1>5. SumOf(w, Stakeable) = SumOf(v, Stakeable) + w[c] - v[c]
  BY <1>1, <1>4, SumChanged
<1>6. Escrowed(new) = Escrowed(locks) + w[c] - v[c]
  BY <1>5, EscrowedIsSum DEF v, w
<1> QED
  BY <1>4, <1>6 DEF new

(* Without locks nothing lies in escrow. *)
LEMMA NothingEscrowed == Escrowed([c \in Stakeable |-> NoLock]) = 0
<1>1. \A c \in Stakeable : Twice([d \in Stakeable |-> NoLock])[c] = 0
  BY DEF Twice, NoLock
<1> QED
  BY <1>1, EscrowedIsSum, SumZero, LedgerAssumption

(* Seeding keeps balances. *)
LEMMA FlooredType ==
    ASSUME overdraft \in Nat,
           NEW bal \in Balances, NEW w \in User \cup Npc, NEW floor \in Nat
    PROVE  Floored(bal, w, floor) \in Balances
<1>1. w \in Wallet /\ Bank \in Wallet /\ w # Bank /\ UserSeed \in Nat /\ TopupAmount \in Nat
  BY WalletFacts, LedgerAssumption
<1>2. CASE w \in User
  <2>1. UserSeed \in Amount(w)
    BY <1>1, AmountFacts
  <2> QED
    BY <1>1, <1>2, <2>1 DEF Floored, Balances
<1>3. ASSUME w \notin User, bal[w] < floor,
             NEW n \in Int, CanTransferFromHouse(bal, n)
      PROVE  FromHouse(bal, w, n) \in Balances
  <2>1. n \in Nat /\ bal[Bank] >= n
    BY <1>3 DEF CanTransferFromHouse
  <2>2. bal[Bank] - n \in Amount(Bank) /\ bal[w] + n \in Amount(w)
    BY <1>1, <2>1, AmountFacts DEF Balances
  <2> QED
    BY <1>1, <2>2 DEF FromHouse, Balances
<1>4. CASE w \notin User
  <2>1. bal[w] \in Int /\ floor - bal[w] \in Int
    BY <1>1 DEF Balances
  <2> DEFINE n == IF TopupAmount # 0 /\ TopupAmount < floor - bal[w]
                  THEN TopupAmount ELSE floor - bal[w]
  <2>2. n \in Int
    BY <1>1, <2>1
  <2>3. Floored(bal, w, floor) =
           IF bal[w] >= floor THEN bal ELSE TransferredFromHouse(bal, w, n)
    BY <1>4 DEF Floored
  <2> HIDE DEF n
  <2>4. ~(bal[w] >= floor) => bal[w] < floor
    BY <2>1
  <2> QED
    BY <1>3, <1>4, <2>2, <2>3, <2>4 DEF TransferredFromHouse
<1> QED
  BY <1>2, <1>4

(* Seeding the bots one after the other keeps all balances. *)
LEMMA SeededType ==
    ASSUME overdraft \in Nat, NEW bal \in Balances, NEW floor \in Nat
    PROVE  Seeded(bal, floor) \in Balances
<1> DEFINE D == DOMAIN BotOrder
           step == [i \in D |-> [b \in Balances |-> Floored(b, BotOrder[i], floor)]]
           pick == [s \in SUBSET D |-> Max(s)]
           iter == CHOOSE iter : iter = [s \in SUBSET D |->
                      IF s = {} THEN bal
                      ELSE Floored(iter[s \ {Max(s)}], BotOrder[Max(s)], floor)]
<1>1. Seeded(bal, floor) = iter[D]
  BY DEF Seeded, FoldLeft, MapThenFoldSet
<1> HIDE DEF iter
<1>2. D = 1 .. Len(BotOrder) /\ Len(BotOrder) \in Nat
      /\ \A i \in D : BotOrder[i] \in User \cup Npc
  BY LedgerAssumption
<1>3. IsFiniteSet(D) /\ D \subseteq Int
  BY <1>2, FS_Interval
<1> HIDE DEF D
<1>4. \A s \in SUBSET D : s # {} => Max(s) \in s
  BY <1>3, GreatestOfFinite
<1>5. FoldData(D, Balances, bal, step, pick)
  <2>1. step \in [D -> [Balances -> Balances]]
    <3>1. \A i \in D : \A b \in Balances : Floored(b, BotOrder[i], floor) \in Balances
      BY <1>2, FlooredType
    <3> QED
      BY <3>1
  <2>2. \A s \in SUBSET D : s # {} => pick[s] \in s
    BY <1>4
  <2> HIDE DEF step, pick
  <2> QED
    BY <1>3, <2>1, <2>2 DEF FoldData
<1>6. PICK f : IsFold(f, D, Balances, bal, step, pick)
  <2> HIDE DEF step, pick
  <2> QED
    BY <1>5, FoldExists
<1>7. f \in [SUBSET D -> Balances]
  BY <1>6 DEF IsFold
<1>8. ASSUME NEW s \in SUBSET D
      PROVE  f[s] = IF s = {} THEN bal
                    ELSE Floored(f[s \ {Max(s)}], BotOrder[Max(s)], floor)
  <2>1. FoldsTo(f, D, bal, step, pick, s)
    BY <1>6 DEF IsFold
  <2>2. CASE s = {}
    BY <2>1, <2>2 DEF FoldsTo
  <2>3. CASE s # {}
    <3>1. pick[s] = Max(s) /\ Max(s) \in D /\ s \ {Max(s)} \in SUBSET D
      BY <2>3, <1>4
    <3>2. f[s \ {Max(s)}] \in Balances
      BY <3>1, <1>7
    <3>3. f[s] = step[Max(s)][f[s \ {Max(s)}]]
      BY <2>1, <2>3, <3>1 DEF FoldsTo
    <3> HIDE DEF pick
    <3> QED
      BY <2>3, <3>1, <3>2, <3>3
  <2> QED
    BY <2>2, <2>3
<1> HIDE DEF step, pick
<1>9. f = [s \in SUBSET D |-> IF s = {} THEN bal
                              ELSE Floored(f[s \ {Max(s)}], BotOrder[Max(s)], floor)]
  BY <1>7, <1>8
<1>10. iter = [s \in SUBSET D |-> IF s = {} THEN bal
                              ELSE Floored(iter[s \ {Max(s)}], BotOrder[Max(s)], floor)]
  BY <1>9 DEF iter
<1> DEFINE Same == {s \in SUBSET D : f[s] = iter[s]}
<1>11. ASSUME NEW s \in SUBSET D, \A x \in s : s \ {x} \in Same
       PROVE  s \in Same
  <2>1. CASE s = {}
    BY <2>1, <1>8, <1>10
  <2>2. CASE s # {}
    <3>1. f[s \ {Max(s)}] = iter[s \ {Max(s)}]
      BY <2>2, <1>4, <1>11
    <3> QED
      BY <2>2, <3>1, <1>8, <1>10
  <2> QED
    BY <2>1, <2>2
<1> HIDE DEF Same
<1>12. SUBSET D \subseteq Same
  BY <1>3, <1>11, SetOfSubsets
<1>13. f[D] = iter[D] /\ f[D] \in Balances
  BY <1>7, <1>12 DEF Same
<1> QED
  BY <1>1, <1>13

(* The types of the ledger. *)
SavedRows == {rows \in [Wallet -> [funds : Int, dailyTx : 0 .. MaxDaily]] :
                 \A w \in Wallet : rows[w].funds \in Amount(w)}

LedgerTypes ==
    /\ overdraft \in Nat /\ (MaxBetPercent <= 50 => overdraft = 0)
    /\ funds \in Balances
    /\ dailyTx \in [Wallet -> 0 .. MaxDaily]
    /\ escrowLocks \in [Stakeable -> Lock]
    /\ npcFloor \in Nat /\ policyEnabled \in BOOLEAN
    /\ saving \in {NotSaving} \cup [left : Seq(Wallet), rows : SavedRows]
    /\ saved \in {Unreadable} \cup [rows : SavedRows, policyEnabled : BOOLEAN]

(* What the wallets hold and what lies in escrow is what came in. *)
Balanced == Total(funds) + Escrowed(escrowLocks) = supply

LedgerInv == LedgerTypes /\ Balanced

(* Balances are integers. *)
LEMMA BalancesInt ==
    /\ Balances \subseteq [Wallet -> Int]
    /\ \A f \in Balances : \A w \in Wallet : f[w] \in Int /\ f[w] \in Amount(w)
BY DEF Balances

(* A count of transactions stays within its limit. *)
LEMMA CountedType ==
    ASSUME NEW f \in [Wallet -> 0 .. MaxDaily], NEW ws
    PROVE  Counted(f, ws) \in [Wallet -> 0 .. MaxDaily]
BY LedgerAssumption DEF Counted

(* Balances saved are balances read back. *)
LEMMA RowsType ==
    ASSUME funds \in Balances, dailyTx \in [Wallet -> 0 .. MaxDaily]
    PROVE  Rows \in SavedRows
BY DEF Rows, SavedRows, Balances

(* What a runtime without a saved state starts with has the types saved. *)
LEMMA FreshType == overdraft \in Nat => Fresh \in SavedRows
<1> SUFFICES ASSUME overdraft \in Nat PROVE Fresh \in SavedRows
  OBVIOUS
<1>1. \A w \in Wallet : SeedOf(w) \in Int /\ SeedOf(w) \in Amount(w)
  BY LedgerAssumption, AmountFacts DEF SeedOf
<1>2. 0 \in 0 .. MaxDaily
  BY LedgerAssumption
<1> QED
  BY <1>1, <1>2 DEF Fresh, SavedRows

(* The invariant holds of a runtime that was just started. *)
LEMMA LedgerInitially == LedgerInit => LedgerInv
<1> SUFFICES ASSUME LedgerInit PROVE LedgerInv
  OBVIOUS
<1>1. overdraft = 0 /\ funds \in Balances
  <2>1. overdraft = 0 /\ funds = [w \in Wallet |-> SeedOf(w)]
    BY DEF LedgerInit
  <2>2. \A w \in Wallet : SeedOf(w) \in Int /\ SeedOf(w) \in Amount(w)
    BY <2>1, LedgerAssumption, AmountFacts DEF SeedOf
  <2> QED
    BY <2>1, <2>2 DEF Balances
<1>2. dailyTx \in [Wallet -> 0 .. MaxDaily]
  BY LedgerAssumption DEF LedgerInit
<1>3. NoLock \in Lock
  BY WalletFacts DEF NoLock, Lock, LockShape
<1>4. LedgerTypes
  BY <1>1, <1>2, <1>3, FreshType, LedgerAssumption DEF LedgerInit, LedgerTypes
<1>5. Total(funds) \in Int
  BY <1>1, BalancesInt, TotalInt
<1>6. Escrowed(escrowLocks) = 0
  BY NothingEscrowed DEF LedgerInit
<1>7. supply = Total(funds)
  BY DEF LedgerInit
<1>8. Balanced
  BY <1>5, <1>6, <1>7 DEF Balanced
<1> QED
  BY <1>4, <1>8 DEF LedgerInv

(* What of the ledger a step may change besides the money. *)
Deeper == /\ overdraft' \in Nat /\ overdraft' >= overdraft
          /\ MaxBetPercent <= 50 => overdraft' = 0

Minor ==
    /\ Deeper
    /\ dailyTx' \in [Wallet -> 0 .. MaxDaily]
    /\ npcFloor' \in Nat /\ policyEnabled' \in BOOLEAN
    /\ saving' \in {NotSaving} \cup [left : Seq(Wallet), rows : SavedRows]
    /\ saved' \in {Unreadable} \cup [rows : SavedRows, policyEnabled : BOOLEAN]

(* What a balance may be, it may be after every step.                        *)
LEMMA BalancesKept ==
    ASSUME LedgerInv, Deeper
    PROVE  Balances \subseteq Balances' /\ SavedRows \subseteq SavedRows'
<1>1. overdraft \in Nat /\ overdraft' \in Nat /\ overdraft' >= overdraft
  BY DEF LedgerInv, LedgerTypes, Deeper
<1>2. \A w \in Wallet : Amount(w) \subseteq Amount(w)'
  BY <1>1 DEF Amount
<1> QED
  BY <1>2 DEF Balances, SavedRows

(* A step that brings m into the wallets and e into escrow, from outside     *)
(* unless it comes from the other.                                           *)
LEMMA MoneyMoved ==
    ASSUME LedgerInv, Minor, funds' \in Balances', escrowLocks' \in [Stakeable -> Lock],
           NEW m \in Int, NEW e \in Int,
           Total(funds') = Total(funds) + m,
           Escrowed(escrowLocks') = Escrowed(escrowLocks) + e,
           supply' = supply + m + e
    PROVE  LedgerInv'
<1>1. Total(funds) \in Int /\ Escrowed(escrowLocks) \in Int
  BY BalancesInt, TotalInt, EscrowedInt DEF LedgerInv, LedgerTypes
<1>2. Total(funds) + Escrowed(escrowLocks) = supply
  BY DEF LedgerInv, Balanced
<1>3. Total(funds') + Escrowed(escrowLocks') = supply'
  BY <1>1, <1>2
<1>4. Balanced'
  BY <1>3 DEF Balanced
<1>5. SavedRows \subseteq SavedRows'
  BY BalancesKept DEF Minor
<1>6. LedgerTypes'
  BY <1>5 DEF Minor, Deeper, LedgerTypes
<1> QED
  BY <1>4, <1>6 DEF LedgerInv

(* A step that leaves the stakes in escrow alone.                            *)
LEMMA WalletsMoved ==
    ASSUME LedgerInv, Minor, UNCHANGED escrowLocks, funds' \in Balances,
           NEW m \in Int, Total(funds') = Total(funds) + m, supply' = supply + m
    PROVE  LedgerInv'
<1>1. escrowLocks' \in [Stakeable -> Lock] /\ Escrowed(escrowLocks) \in Int
  BY EscrowedInt DEF LedgerInv, LedgerTypes
<1>2. Escrowed(escrowLocks') = Escrowed(escrowLocks) + 0
  BY <1>1
<1>3. Total(funds) \in Int
  BY BalancesInt, TotalInt DEF LedgerInv, LedgerTypes
<1>4. supply \in Int
  BY <1>1, <1>3 DEF LedgerInv, Balanced
<1>5. supply' = supply + m + 0
  BY <1>4
<1>6. funds' \in Balances'
  BY BalancesKept DEF Minor
<1> QED
  BY <1>1, <1>2, <1>5, <1>6, MoneyMoved

(* Nothing but the money changes, except for the count of transactions.      *)
LEMMA MinorKept ==
    ASSUME LedgerInv, UNCHANGED <<policyEnabled, npcFloor, saving, saved>>,
           UNCHANGED overdraft \/ Deeper,
           \/ UNCHANGED dailyTx
           \/ \E ws : dailyTx' = Counted(dailyTx, ws)
    PROVE  Minor
BY CountedType DEF LedgerInv, LedgerTypes, Minor, Deeper

-----------------------------------------------------------------------------
(* One lemma per route. *)

(* POST /wallets/:id/fund. *)
LEMMA FundKeeps ==
    ASSUME LedgerInv, NEW w \in Wallet, NEW n \in Sum, Fund(w, n)
    PROVE  LedgerInv'
<1>1. n \in Nat /\ funds \in Balances /\ overdraft \in Nat
  BY LedgerAssumption DEF LedgerInv, LedgerTypes
<1>2. Minor
  BY MinorKept DEF Fund, persistVars
<1>3. funds' = Plus(funds, w, n)
  BY DEF Fund, Plus
<1>4. funds' \in Balances
  BY <1>1, <1>3, PlusType
<1>5. Total(funds') = Total(funds) + n
  BY <1>1, <1>3, PlusTotal, BalancesInt
<1>6. UNCHANGED escrowLocks /\ supply' = supply + n /\ n \in Int
  BY <1>1 DEF Fund
<1> QED
  BY <1>2, <1>4, <1>5, <1>6, WalletsMoved

(* POST /wallets/:id/withdraw. *)
LEMMA WithdrawKeeps ==
    ASSUME LedgerInv, NEW w \in Wallet, NEW n \in Sum, Withdraw(w, n)
    PROVE  LedgerInv'
<1>1. /\ n \in Nat /\ -n \in Int /\ funds \in Balances /\ funds[w] >= n
      /\ overdraft \in Nat
  BY LedgerAssumption DEF LedgerInv, LedgerTypes, Withdraw
<1>2. Minor
  BY MinorKept DEF Withdraw, persistVars
<1>3. funds' = [funds EXCEPT ![w] = @ - n] /\ supply' = supply - n
  BY DEF Withdraw
<1>4. funds' \in Balances
  <2>1. funds[w] - n \in Amount(w)
    BY <1>1, AmountFacts DEF Balances
  <2> QED
    BY <1>1, <1>3, <2>1 DEF Balances
<1>5. funds' = Plus(funds, w, -n)
  BY <1>1, <1>3, BalancesInt DEF Plus
<1>6. Total(funds') = Total(funds) + (-n)
  BY <1>1, <1>5, PlusTotal, BalancesInt
<1>7. Total(funds) \in Int /\ Escrowed(escrowLocks) \in Int
  BY <1>1, BalancesInt, TotalInt, EscrowedInt DEF LedgerInv, LedgerTypes
<1>8. supply \in Int
  BY <1>7 DEF LedgerInv, Balanced
<1>9. supply' = supply + (-n)
  BY <1>1, <1>3, <1>8
<1> QED
  BY <1>1, <1>2, <1>4, <1>6, <1>9, WalletsMoved DEF Withdraw

(* Money that goes from one wallet to another stays.                         *)
LEMMA FromTo ==
    ASSUME overdraft \in Nat, NEW f \in Balances, NEW s \in Wallet, NEW t \in Wallet,
           NEW n \in Nat, f[s] >= n, NEW g, g = Plus(Plus(f, s, -n), t, n)
    PROVE  g \in Balances /\ Total(g) = Total(f)
<1>1. f \in [Wallet -> Int] /\ -n \in Int
  BY BalancesInt
<1> DEFINE h == Plus(f, s, -n)
<1>2. h \in [Wallet -> Int] /\ Total(h) = Total(f) + (-n)
  BY <1>1, PlusTotal
<1>3. h \in Balances
  <2>1. f[s] - n \in Amount(s) /\ f[s] + (-n) = f[s] - n
    BY <1>1, AmountFacts DEF Balances
  <2> QED
    BY <2>1 DEF Plus, Balances
<1> HIDE DEF h
<1>4. g = Plus(h, t, n)
  BY DEF h
<1>5. g \in Balances
  BY <1>3, <1>4, PlusType
<1>6. Total(g) = Total(h) + n
  BY <1>2, <1>4, PlusTotal
<1>7. Total(f) \in Int
  BY <1>1, TotalInt
<1> QED
  BY <1>2, <1>5, <1>6, <1>7

(* POST /wallets/:id/transfer. *)
LEMMA TransferToKeeps ==
    ASSUME LedgerInv, NEW s \in Wallet, NEW t \in Wallet, NEW n \in Sum, TransferTo(s, t, n)
    PROVE  LedgerInv'
<1>1. n \in Nat /\ funds \in Balances /\ funds[s] >= n /\ s # t /\ overdraft \in Nat
  BY LedgerAssumption DEF LedgerInv, LedgerTypes, TransferTo
<1>2. Minor
  BY MinorKept DEF TransferTo, persistVars
<1>3. funds' = [funds EXCEPT ![s] = @ - n, ![t] = @ + n]
  BY DEF TransferTo
<1>4. funds' = Plus(Plus(funds, s, -n), t, n)
  BY <1>1, <1>3, BalancesInt DEF Plus
<1>5. funds' \in Balances /\ Total(funds') = Total(funds)
  BY <1>1, <1>4, FromTo
<1>6. Total(funds) \in Int /\ Escrowed(escrowLocks) \in Int
  BY <1>1, BalancesInt, TotalInt, EscrowedInt DEF LedgerInv, LedgerTypes
<1>7. supply \in Int
  BY <1>6 DEF LedgerInv, Balanced
<1>8. supply' = supply + 0 /\ Total(funds') = Total(funds) + 0
  BY <1>5, <1>6, <1>7 DEF TransferTo
<1>9. UNCHANGED escrowLocks
  BY DEF TransferTo
<1> QED
  BY <1>2, <1>5, <1>8, <1>9, WalletsMoved

(* A transfer from the house, made or refused.                               *)
LEMMA FromHouseKeeps ==
    ASSUME overdraft \in Nat, NEW f \in Balances, NEW w \in Wallet, NEW n \in Int,
           CanTransferFromHouse(f, n)
    PROVE  FromHouse(f, w, n) \in Balances /\ Total(FromHouse(f, w, n)) = Total(f)
<1>1. Bank \in Wallet /\ n \in Nat /\ f[Bank] >= n
  BY WalletFacts DEF CanTransferFromHouse
<1>2. FromHouse(f, w, n) = Plus(Plus(f, Bank, -n), w, n)
  BY <1>1, BalancesInt DEF FromHouse, Plus
<1> QED
  BY <1>1, <1>2, FromTo

(* POST /house/transfer. *)
LEMMA HouseTransferKeeps ==
    ASSUME LedgerInv, NEW w \in Wallet, NEW n \in Sum, HouseTransfer(w, n)
    PROVE  LedgerInv'
<1>1. n \in Int /\ funds \in Balances /\ overdraft \in Nat
  BY LedgerAssumption DEF LedgerInv, LedgerTypes
<1>2. Minor
  BY MinorKept DEF HouseTransfer, persistVars
<1>3. funds' \in Balances /\ Total(funds') = Total(funds)
  BY <1>1, FromHouseKeeps DEF HouseTransfer
<1>4. Total(funds) \in Int /\ Escrowed(escrowLocks) \in Int
  BY <1>1, BalancesInt, TotalInt, EscrowedInt DEF LedgerInv, LedgerTypes
<1>5. supply \in Int
  BY <1>4 DEF LedgerInv, Balanced
<1>6. supply' = supply + 0 /\ Total(funds') = Total(funds) + 0
  BY <1>3, <1>4, <1>5 DEF HouseTransfer
<1> QED
  BY <1>2, <1>3, <1>6, WalletsMoved DEF HouseTransfer

(* POST /house/refill. *)
LEMMA HouseRefillKeeps ==
    ASSUME LedgerInv, NEW n \in Sum, HouseRefill(n)
    PROVE  LedgerInv'
<1>1. n \in Nat /\ funds \in Balances /\ Bank \in Wallet /\ overdraft \in Nat
  BY LedgerAssumption, WalletFacts DEF LedgerInv, LedgerTypes
<1>2. Minor
  BY MinorKept DEF HouseRefill, persistVars
<1>3. funds' = Plus(funds, Bank, n)
  BY DEF HouseRefill, Refilled, Plus
<1>4. funds' \in Balances
  BY <1>1, <1>3, PlusType
<1>5. Total(funds') = Total(funds) + n
  BY <1>1, <1>3, PlusTotal, BalancesInt
<1> QED
  BY <1>1, <1>2, <1>4, <1>5, WalletsMoved DEF HouseRefill

(* The timer and the operator's floor seed the wallets.                      *)
LEMMA SeedingKeeps ==
    ASSUME LedgerInv, Minor, UNCHANGED escrowLocks, NEW floor \in Nat, ensureSeedBalances(floor)
    PROVE  LedgerInv'
<1>1. funds \in Balances /\ overdraft \in Nat
  BY DEF LedgerInv, LedgerTypes
<1>2. funds' \in Balances
  BY <1>1, SeededType DEF ensureSeedBalances
<1>3. Total(funds) \in Int /\ Escrowed(escrowLocks) \in Int /\ Total(funds') \in Int
  BY <1>1, <1>2, BalancesInt, TotalInt, EscrowedInt DEF LedgerInv, LedgerTypes
<1>4. supply \in Int
  BY <1>3 DEF LedgerInv, Balanced
<1>5. supply' = supply + Total(funds') - Total(funds)
  BY DEF ensureSeedBalances
<1> DEFINE m == Total(funds') - Total(funds)
<1>6. m \in Int /\ Total(funds') = Total(funds) + m /\ supply' = supply + m
  BY <1>3, <1>4, <1>5
<1> HIDE DEF m
<1> QED
  BY <1>2, <1>6, WalletsMoved

(* The timer that seeds the bots. *)
LEMMA BudgetTickKeeps == ASSUME LedgerInv, BudgetTick PROVE LedgerInv'
<1>1. Minor
  BY MinorKept DEF BudgetTick, persistVars
<1>2. npcFloor \in Nat
  BY DEF LedgerInv, LedgerTypes
<1> QED
  BY <1>1, <1>2, SeedingKeeps DEF BudgetTick

(* POST /house/config. *)
LEMMA SetHouseConfigKeeps ==
    ASSUME LedgerInv, NEW n \in Sum, SetHouseConfig(n) PROVE LedgerInv'
<1>1. n \in Nat
  BY LedgerAssumption
<1>2. Minor
  BY <1>1 DEF SetHouseConfig, persistVars, LedgerInv, LedgerTypes, Minor, Deeper
<1> QED
  BY <1>1, <1>2, SeedingKeeps DEF SetHouseConfig

(* Steps that move no money.                                                 *)
LEMMA NoMoneyMoved ==
    ASSUME LedgerInv, Minor, UNCHANGED <<funds, escrowLocks, supply>>
    PROVE  LedgerInv'
<1>1. Balances \subseteq Balances' /\ SavedRows \subseteq SavedRows'
  BY BalancesKept DEF Minor
<1> QED
  BY <1>1 DEF LedgerInv, LedgerTypes, Balanced, Minor, Deeper

(* The policy, a new day and the steps of a save move no money. *)
LEMMA SavingKeeps ==
    ASSUME LedgerInv,
           \/ \E enabled \in BOOLEAN : SetWalletPolicy(enabled)
           \/ NewDay \/ BeginSave \/ InsertRow \/ Commit
    PROVE  LedgerInv'
<1>0. overdraft \in Nat /\ (MaxBetPercent <= 50 => overdraft = 0)
  BY DEF LedgerInv, LedgerTypes
<1>1. /\ funds \in Balances /\ dailyTx \in [Wallet -> 0 .. MaxDaily] /\ npcFloor \in Nat
      /\ policyEnabled \in BOOLEAN
      /\ saving \in {NotSaving} \cup [left : Seq(Wallet), rows : SavedRows]
      /\ saved \in {Unreadable} \cup [rows : SavedRows, policyEnabled : BOOLEAN]
  BY DEF LedgerInv, LedgerTypes
<1>2. CASE \E enabled \in BOOLEAN : SetWalletPolicy(enabled)
  BY <1>0, <1>1, <1>2, NoMoneyMoved DEF SetWalletPolicy, persistVars, Minor, Deeper
<1>3. CASE NewDay
  <2>1. dailyTx' \in [Wallet -> 0 .. MaxDaily]
    BY <1>3, LedgerAssumption DEF NewDay
  <2> QED
    BY <1>0, <1>1, <1>3, <2>1, NoMoneyMoved DEF NewDay, persistVars, Minor, Deeper
<1>4. CASE BeginSave
  <2>1. Rows \in SavedRows
    BY <1>1, RowsType
  <2>2. WalletOrder \in Seq(Wallet) /\ <<>> \in Seq(Wallet)
    BY LedgerAssumption
  <2>3. saving' \in [left : Seq(Wallet), rows : SavedRows]
    BY <1>4, <2>1, <2>2 DEF BeginSave
  <2> QED
    BY <1>0, <1>1, <1>4, <2>3, NoMoneyMoved DEF BeginSave, Minor, Deeper
<1>5. CASE InsertRow
  <2>1. Rows \in SavedRows
    BY <1>1, RowsType
  <2>2. saving \in [left : Seq(Wallet), rows : SavedRows] /\ saving.left # <<>>
    BY <1>1, <1>5 DEF InsertRow, NotSaving
  <2>3. Head(saving.left) \in Wallet /\ Tail(saving.left) \in Seq(Wallet)
    BY <2>2
  <2>4. saving' \in [left : Seq(Wallet), rows : SavedRows]
    BY <1>5, <2>1, <2>2, <2>3 DEF InsertRow, SavedRows
  <2> QED
    BY <1>0, <1>1, <1>5, <2>4, NoMoneyMoved DEF InsertRow, Minor, Deeper
<1>6. CASE Commit
  <2>1. saving \in [left : Seq(Wallet), rows : SavedRows]
    BY <1>1, <1>6 DEF Commit
  <2>2. policyEnabled \in BOOLEAN
    BY DEF LedgerInv, LedgerTypes
  <2>3. saved' \in [rows : SavedRows, policyEnabled : BOOLEAN]
    BY <1>6, <2>1, <2>2 DEF Commit
  <2> QED
    BY <1>0, <1>1, <1>6, <2>3, NoMoneyMoved DEF Commit, Minor, Deeper
<1> QED
  BY <1>2, <1>3, <1>4, <1>5, <1>6

(* The winner is paid the pot but for the fee, which leaves the ledger.      *)
LEMMA EscrowResolveKeeps ==
    ASSUME LedgerInv, NEW c \in Stakeable, NEW w \in Wallet, NEW bps \in FeeBps,
           EscrowResolve(c, w, bps)
    PROVE  LedgerInv'
<1> DEFINE lock == escrowLocks[c]
           fee == FeeOn(lock, bps)
<1>1. /\ funds \in Balances /\ escrowLocks \in [Stakeable -> Lock]
      /\ lock \in Lock /\ lock.amount \in Nat /\ overdraft \in Nat
  BY DEF LedgerInv, LedgerTypes, Lock, LockShape
<1>2. fee \in 0 .. 2 * lock.amount
  <2>1. bps \in 0 .. MaxBps /\ 2 * lock.amount \in Nat
    BY <1>1, LedgerAssumption DEF MaxBps
  <2>2. FeeOf(2 * lock.amount, bps) \in 0 .. 2 * lock.amount
    BY <2>1, FeeBound
  <2> QED
    BY <2>2 DEF FeeOn, FeeOf, MaxBps
<1>3. Minor
  BY MinorKept DEF EscrowResolve, persistVars
<1>4. /\ funds' = [funds EXCEPT ![w] = @ + 2 * lock.amount - fee]
      /\ supply' = supply - fee
      /\ escrowLocks' = [escrowLocks EXCEPT ![c] = NoLock]
  BY DEF EscrowResolve
<1> DEFINE pot == 2 * lock.amount
           paid == pot - fee
<1>5. pot \in Nat /\ fee \in Nat /\ paid \in Nat /\ paid = pot - fee
  BY <1>1, <1>2
<1> HIDE DEF fee, pot, paid
<1>6. funds' = Plus(funds, w, paid)
  <2>1. funds \in [Wallet -> Int]
    BY <1>1, BalancesInt
  <2>2. funds[w] + pot - fee = funds[w] + paid
    BY <2>1, <1>5
  <2> QED
    BY <2>2, <1>4 DEF Plus, pot
<1>7. funds' \in Balances /\ Total(funds') = Total(funds) + paid
  <2>1. funds' \in Balances
    BY <1>1, <1>5, <1>6, PlusType
  <2>2. funds \in [Wallet -> Int] /\ paid \in Int
    BY <1>1, <1>5, BalancesInt
  <2> QED
    BY <1>6, <2>1, <2>2, PlusTotal
<1>8. NoLock \in Lock /\ NoLock.amount = 0
  BY WalletFacts DEF NoLock, Lock, LockShape
<1>9. escrowLocks' \in [Stakeable -> Lock]
  BY <1>1, <1>4, <1>8
<1>10. Escrowed(escrowLocks') = Escrowed(escrowLocks) + 0 - pot
  <2>1. Escrowed([escrowLocks EXCEPT ![c] = NoLock]) =
           Escrowed(escrowLocks) + 2 * NoLock.amount - 2 * escrowLocks[c].amount
    BY <1>1, <1>8, EscrowedChanged
  <2>2. 2 * NoLock.amount = 0
    BY <1>8
  <2> QED
    BY <1>4, <2>1, <2>2 DEF pot
<1>11. Total(funds) \in Int /\ Escrowed(escrowLocks) \in Int
  BY <1>1, BalancesInt, TotalInt, EscrowedInt
<1>12. supply \in Int
  BY <1>11 DEF LedgerInv, Balanced
<1>13. /\ -pot \in Int /\ paid \in Int
       /\ Escrowed(escrowLocks') = Escrowed(escrowLocks) + (-pot)
       /\ supply' = supply + paid + (-pot)
  BY <1>4, <1>5, <1>10, <1>11, <1>12
<1>14. funds' \in Balances'
  BY <1>3, <1>7, BalancesKept DEF Minor
<1> QED
  BY <1>3, <1>7, <1>9, <1>13, <1>14, MoneyMoved

(* Each party is given its stake back.                                       *)
LEMMA EscrowRefundKeeps ==
    ASSUME LedgerInv, NEW c \in Stakeable, EscrowRefund(c)
    PROVE  LedgerInv'
<1> DEFINE lock == escrowLocks[c]
           n == lock.amount
           first == Plus(funds, lock.by, n)
<1>1. /\ funds \in Balances /\ escrowLocks \in [Stakeable -> Lock]
      /\ lock.by \in Wallet /\ lock.against \in Wallet /\ n \in Nat
      /\ lock.by # lock.against /\ overdraft \in Nat
  BY DEF LedgerInv, LedgerTypes, Lock, LockShape, EscrowRefund
<1>2. Minor
  BY MinorKept DEF EscrowRefund, persistVars
<1>3. /\ funds' = [funds EXCEPT ![lock.by] = @ + n, ![lock.against] = @ + n]
      /\ supply' = supply
      /\ escrowLocks' = [escrowLocks EXCEPT ![c] = NoLock]
  BY DEF EscrowRefund
<1>4. funds' = Plus(first, lock.against, n)
  <2>1. ASSUME NEW a \in Wallet, NEW b \in Wallet, a # b, NEW k \in Nat
        PROVE  [funds EXCEPT ![a] = @ + k, ![b] = @ + k] = Plus(Plus(funds, a, k), b, k)
    BY <1>1, <2>1, BalancesInt DEF Plus
  <2> HIDE DEF n
  <2> QED
    BY <1>1, <1>3, <2>1
<1>5. funds \in [Wallet -> Int] /\ n \in Int
  BY <1>1, BalancesInt
<1>6. first \in [Wallet -> Int] /\ Total(first) = Total(funds) + n
  BY <1>1, <1>5, PlusTotal
<1>7. first \in Balances
  BY <1>1, PlusType
<1> HIDE DEF first
<1>8. funds' \in Balances
  BY <1>1, <1>4, <1>7, PlusType
<1>9. Total(funds') = Total(first) + n
  BY <1>1, <1>4, <1>5, <1>6, PlusTotal
<1>10. NoLock \in Lock /\ NoLock.amount = 0
  BY WalletFacts DEF NoLock, Lock, LockShape
<1>11. escrowLocks' \in [Stakeable -> Lock]
  BY <1>1, <1>3, <1>10
<1>12. Escrowed(escrowLocks') = Escrowed(escrowLocks) + 0 - 2 * n
  <2>1. Escrowed([escrowLocks EXCEPT ![c] = NoLock]) =
           Escrowed(escrowLocks) + 2 * NoLock.amount - 2 * escrowLocks[c].amount
    BY <1>1, <1>10, EscrowedChanged
  <2>2. 2 * NoLock.amount = 0
    BY <1>10
  <2> QED
    BY <1>3, <2>1, <2>2
<1>13. Total(funds) \in Int /\ Escrowed(escrowLocks) \in Int
  BY <1>1, BalancesInt, TotalInt, EscrowedInt
<1>14. supply \in Int
  BY <1>13 DEF LedgerInv, Balanced
<1> HIDE DEF n
<1>15. /\ 2 * n \in Int /\ -(2 * n) \in Int
       /\ Total(funds') = Total(funds) + 2 * n
       /\ Escrowed(escrowLocks') = Escrowed(escrowLocks) + (-(2 * n))
       /\ supply' = supply + 2 * n + (-(2 * n))
  BY <1>3, <1>5, <1>6, <1>9, <1>12, <1>13, <1>14
<1>16. funds' \in Balances'
  BY <1>2, <1>8, BalancesKept DEF Minor
<1> QED
  BY <1>2, <1>11, <1>15, <1>16, MoneyMoved

(* A restart begins with what was saved and with nothing in escrow.          *)
LEMMA RuntimeRestartKeeps == ASSUME LedgerInv, RuntimeRestart PROVE LedgerInv'
<1> DEFINE rows == IF saved = Unreadable THEN Fresh ELSE saved.rows
           read == [w \in Wallet |-> rows[w].funds]
<1>1. /\ saved \in {Unreadable} \cup [rows : SavedRows, policyEnabled : BOOLEAN]
      /\ NpcSeed \in Nat /\ overdraft \in Nat /\ (MaxBetPercent <= 50 => overdraft = 0)
  BY LedgerAssumption DEF LedgerInv, LedgerTypes
<1>2. rows \in SavedRows
  BY <1>1, FreshType
<1>3. /\ dailyTx' = [w \in Wallet |-> rows[w].dailyTx]
      /\ funds' = Seeded(read, NpcSeed)
      /\ supply' = Total(funds')
      /\ escrowLocks' = [c \in Stakeable |-> NoLock]
      /\ overdraft' = overdraft
  BY DEF RuntimeRestart
<1> HIDE DEF rows
<1>4. read \in Balances /\ [w \in Wallet |-> rows[w].dailyTx] \in [Wallet -> 0 .. MaxDaily]
  BY <1>2 DEF SavedRows, Balances
<1> HIDE DEF read
<1>5. funds' \in Balances
  BY <1>1, <1>3, <1>4, SeededType
<1>6. NoLock \in Lock
  BY WalletFacts DEF NoLock, Lock, LockShape
<1>7. escrowLocks' \in [Stakeable -> Lock]
  BY <1>3, <1>6
<1>8. npcFloor' \in Nat /\ saving' = NotSaving /\ saved' = saved
  BY <1>1 DEF RuntimeRestart
<1>9. policyEnabled' \in BOOLEAN
  BY <1>1 DEF RuntimeRestart
<1>10. LedgerTypes'
  <2>1. Balances \subseteq Balances' /\ SavedRows \subseteq SavedRows'
    BY <1>1, <1>3, BalancesKept DEF Deeper
  <2> QED
    BY <1>1, <1>3, <1>4, <1>5, <1>7, <1>8, <1>9, <2>1 DEF LedgerTypes
<1>11. Total(funds') \in Int
  BY <1>5, BalancesInt, TotalInt
<1>12. Escrowed(escrowLocks') = 0
  BY <1>3, NothingEscrowed
<1>13. Total(funds') + Escrowed(escrowLocks') = supply'
  BY <1>3, <1>11, <1>12
<1>14. Balanced'
  BY <1>13 DEF Balanced
<1> QED
  BY <1>10, <1>14 DEF LedgerInv

-----------------------------------------------------------------------------
(* Locking the stakes. *)

(* A challenger whom the policy lets bet n has at least n, and twice that if *)
(* no more than half a bankroll may be bet.                                  *)
LEMMA StakeCovered ==
    ASSUME NEW f \in Balances, NEW w \in Wallet, NEW n \in Nat, canLockStake(f, w, n) = "ok"
    PROVE  f[w] >= n /\ (MaxBetPercent <= 50 => f[w] >= n + n)
<1> DEFINE x == f[w]
           m == MaxBetPercent
<1>1. x \in Int /\ m \in Nat
  BY BalancesInt, LedgerAssumption
<1>2. ~(f[w] < n) /\ ~(n * 100 > f[w] * MaxBetPercent)
  BY DEF canLockStake, canUseWallet
<1>3. ~(x < n) /\ ~(n * 100 > x * m)
  BY <1>2
<1> HIDE DEF x, m
<1>4. x >= n
  BY <1>1, <1>3
<1>5. ASSUME m <= 50 PROVE x >= n + n
  <2>1. x \in Nat
    BY <1>1, <1>4
  <2>2. PICK rest \in Nat : 50 = m + rest
    <3>1. 50 - m \in Nat /\ 50 = m + (50 - m)
      BY <1>1, <1>5
    <3> QED
      BY <3>1
  <2>3. x * m \in Nat /\ x * rest \in Nat
    BY <1>1, <2>1
  <2>4. x * 50 = x * m + x * rest
    BY <1>1, <2>1, <2>2
  <2>5. n * 100 <= x * m
    BY <1>3, <2>3
  <2>6. n * 100 <= x * 50
    BY <2>3, <2>4, <2>5
  <2> QED
    BY <2>1, <2>6
<1> QED
  BY <1>4, <1>5 DEF x, m

(* What the top-up before a lock does, and what the lock then takes.         *)
LEMMA ToppedUp ==
    ASSUME NEW by \in Wallet, NEW against \in Wallet, by # against, NEW n \in Nat,
           overdraft \in Nat, MaxBetPercent <= 50 => overdraft = 0, funds \in Balances, canLockStake(funds, by, n) = "ok",
           NEW top, top = Topup(against, n)
    PROVE  /\ top.funds \in Balances /\ top.refill \in Nat
           /\ Total(top.funds) = Total(funds) + top.refill
           /\ Accepted(top, against, n) =>
                 /\ top.funds[by] - n \in Int /\ top.funds[against] - n \in Nat
                 /\ top.funds[by] >= n \/ (by = Bank /\ top.funds[by] \in Nat)
                 /\ MaxBetPercent <= 50 => top.funds[by] >= n
<1> DEFINE dry == canLockStake(funds, against, n) = "insufficient_balance"
           needed == n - funds[against]
<1>1. /\ funds \in [Wallet -> Int] /\ Total(funds) \in Int /\ Bank \in Wallet
      /\ funds[by] \in Int /\ funds[against] \in Int
  BY BalancesInt, TotalInt, WalletFacts
<1>2. needed \in Int
  BY <1>1
<1>3. funds[by] >= n /\ (MaxBetPercent <= 50 => funds[by] >= n + n)
  BY StakeCovered
<1>4. Accepted(top, against, n) => top.ok /\ ~(top.funds[against] < n)
  BY DEF Accepted, canLockStake, canUseWallet
<1>5. ASSUME top.funds \in Balances, Accepted(top, against, n)
      PROVE  top.funds[by] - n \in Int /\ top.funds[against] - n \in Nat
  <2>1. top.funds[by] \in Int /\ top.funds[against] \in Int
    BY <1>5, BalancesInt
  <2>2. top.funds[against] >= n
    BY <1>4, <1>5, <2>1
  <2> QED
    BY <2>1, <2>2
<1>6. top.funds[by] = funds[by] => top.funds[by] >= n
  BY <1>3
<1>7. CASE ~(dry /\ against \in Npc) /\ ~(dry /\ against = Bank)
  <2>1. top = [ok |-> TRUE, refill |-> 0, funds |-> funds]
    BY <1>7 DEF Topup
  <2>2. top.funds = funds /\ top.refill = 0
    BY <2>1
  <2> QED
    BY <1>1, <1>5, <1>6, <2>2
<1>8. CASE dry /\ against = Bank
  <2>1. funds[against] < n
    BY <1>8 DEF canLockStake, canUseWallet
  <2>2. against \notin Npc
    BY <1>8, WalletFacts
  <2>3. top = [ok |-> TRUE, refill |-> needed, funds |-> Refilled(funds, needed)]
    BY <1>8, <2>2 DEF Topup
  <2>4. top.refill = needed /\ top.funds = Plus(funds, Bank, needed)
    BY <2>3 DEF Refilled, Plus
  <2>5. needed \in Nat
    BY <1>1, <2>1
  <2> HIDE DEF needed
  <2>6. top.funds \in Balances
    BY <1>1, <2>4, <2>5, PlusType
  <2>7. Total(top.funds) = Total(funds) + top.refill
    BY <1>1, <1>2, <2>4, PlusTotal
  <2>8. top.funds[by] = funds[by]
    BY <1>1, <1>8, <2>4 DEF Plus
  <2> QED
    BY <1>5, <1>6, <2>4, <2>5, <2>6, <2>7, <2>8
<1>9. CASE dry /\ against \in Npc
  <2>1. /\ top.ok = CanTransferFromHouse(funds, needed) /\ top.refill = 0
        /\ top.funds = TransferredFromHouse(funds, against, needed)
    BY <1>9 DEF Topup
  <2>2. CASE ~CanTransferFromHouse(funds, needed)
    <3>1. top.funds = funds /\ ~top.ok
      BY <2>1, <2>2 DEF TransferredFromHouse
    <3> QED
      BY <1>1, <1>4, <2>1, <3>1
  <2>3. CASE CanTransferFromHouse(funds, needed)
    <3>1. top.funds = FromHouse(funds, against, needed)
      BY <2>1, <2>3 DEF TransferredFromHouse
    <3>2. top.funds \in Balances /\ Total(top.funds) = Total(funds)
      BY <1>2, <2>3, <3>1, FromHouseKeeps
    <3>3. against # Bank
      BY <1>9, WalletFacts
    <3>4. by # Bank => top.funds[by] = funds[by]
      BY <1>1, <3>1, <3>3 DEF FromHouse
    <3>5. CASE by # Bank
      BY <1>1, <1>5, <1>6, <2>1, <3>2, <3>4, <3>5
    (* The challenger is the bank itself, which has just topped the bot up:  *)
    (* it has twice the stake, and the bot needed no more than the stake.     *)
    <3>6. CASE by = Bank
      <4>1. top.funds[by] = funds[by] - needed
        BY <1>1, <1>2, <3>1, <3>3, <3>6 DEF FromHouse
      <4>2. funds[Bank] >= needed
        BY <2>3 DEF CanTransferFromHouse
      <4>3. top.funds[by] \in Nat
        BY <1>1, <1>2, <3>6, <4>1, <4>2
      <4>4. ASSUME MaxBetPercent <= 50 PROVE top.funds[by] >= n
        <5>1. funds[against] >= 0
          BY <1>1, <3>3 DEF Balances, Amount
        <5>2. needed <= n
          BY <1>1, <5>1
        <5> HIDE DEF needed
        <5> QED
          BY <1>1, <1>2, <1>3, <4>1, <4>4, <5>2
      <4> QED
        BY <1>1, <1>5, <2>1, <3>2, <3>6, <4>3, <4>4
    <3> QED
      BY <3>5, <3>6
  <2> QED
    BY <2>2, <2>3
<1> QED
  BY <1>7, <1>8, <1>9

(* POST /wallets/escrow/lock: the stakes go from the two wallets into escrow, *)
(* after what the bank or a refill has added to the opponent's. *)
LEMMA EscrowLockKeeps ==
    ASSUME LedgerInv, NEW c \in Stakeable, NEW by \in Wallet, NEW against \in Wallet,
           NEW n \in Sum, EscrowLock(c, by, against, n)
    PROVE  LedgerInv'
<1>1. /\ funds \in Balances /\ escrowLocks \in [Stakeable -> Lock] /\ n \in Nat
      /\ by # against /\ canLockStake(funds, by, n) = "ok" /\ escrowLocks[c] = NoLock
      /\ overdraft \in Nat /\ (MaxBetPercent <= 50 => overdraft = 0)
  BY LedgerAssumption DEF LedgerInv, LedgerTypes, EscrowLock
<1>2. PICK top : top = Topup(against, n)
  OBVIOUS
<1>3. /\ top.funds \in Balances /\ top.refill \in Nat
      /\ Total(top.funds) = Total(funds) + top.refill
      /\ Accepted(top, against, n) =>
            /\ top.funds[by] - n \in Int /\ top.funds[against] - n \in Nat
            /\ top.funds[by] >= n \/ (by = Bank /\ top.funds[by] \in Nat)
            /\ MaxBetPercent <= 50 => top.funds[by] >= n
  BY <1>1, <1>2, ToppedUp
<1>4. supply' = supply + top.refill
  BY <1>2 DEF EscrowLock
<1>5. Total(funds) \in Int /\ Escrowed(escrowLocks) \in Int
  BY <1>1, BalancesInt, TotalInt, EscrowedInt
<1>6. supply \in Int
  BY <1>5 DEF LedgerInv, Balanced
<1>7. CASE ~Accepted(top, against, n)
  <2>1. /\ funds' = top.funds /\ UNCHANGED <<dailyTx, escrowLocks, overdraft>>
      /\ UNCHANGED <<policyEnabled, npcFloor, saving, saved>>
    BY <1>2, <1>7 DEF EscrowLock, persistVars
  <2>2. Minor
    BY <2>1, MinorKept
  <2>3. top.refill \in Int
    BY <1>3
  <2> QED
    BY <1>3, <1>4, <2>1, <2>2, <2>3, WalletsMoved
<1>8. CASE Accepted(top, against, n)
  <2> DEFINE lock == [by |-> by, against |-> against, amount |-> n]
             h == Plus(top.funds, by, -n)
  <2>1. /\ funds' = StakesTaken(top.funds, by, against, n)
        /\ dailyTx' = Counted(dailyTx, {by, against})
        /\ escrowLocks' = [escrowLocks EXCEPT ![c] = lock]
        /\ overdraft' = overdraft + Uncovered(top.funds, by, n)
        /\ UNCHANGED <<policyEnabled, npcFloor, saving, saved>>
    BY <1>2, <1>8 DEF EscrowLock, persistVars
  <2> DEFINE bare == Uncovered(top.funds, by, n)
  <2>0. /\ bare \in Nat /\ overdraft' = overdraft + bare
        /\ MaxBetPercent <= 50 => bare = 0
        /\ top.funds[by] - n >= IF by = Bank THEN -bare ELSE 0
    <3>1. top.funds[by] \in Int /\ n \in Nat
      BY <1>1, <1>3, BalancesInt
    <3>2. /\ top.funds[by] >= n \/ (by = Bank /\ top.funds[by] \in Nat)
          /\ MaxBetPercent <= 50 => top.funds[by] >= n
      BY <1>3, <1>8
    <3> DEFINE x == top.funds[by]
    <3>3. bare = IF x < n THEN n - x ELSE 0
      BY DEF Uncovered
    <3> HIDE DEF x, bare
    <3>4. x \in Int /\ (x >= n \/ by = Bank) /\ (MaxBetPercent <= 50 => x >= n)
      BY <3>1, <3>2 DEF x
    <3>5. bare \in Nat /\ (MaxBetPercent <= 50 => bare = 0)
      BY <3>1, <3>3, <3>4
    <3>6. x - n >= IF by = Bank THEN -bare ELSE 0
      BY <3>1, <3>3, <3>4, <3>5
    <3> QED
      BY <2>1, <3>5, <3>6 DEF x, bare
  <2> HIDE DEF bare
  <2>15. Deeper
    BY <1>1, <2>0 DEF Deeper
  <2>2. Minor
    BY <2>1, <2>15, MinorKept
  <2>3. lock \in Lock /\ lock.amount = n
    BY <1>1 DEF Lock, LockShape
  <2> HIDE DEF lock
  <2>4. escrowLocks' \in [Stakeable -> Lock]
    BY <1>1, <2>1, <2>3
  <2>5. Escrowed(escrowLocks') = Escrowed(escrowLocks) + 2 * n
    <3>1. Escrowed([escrowLocks EXCEPT ![c] = lock]) =
             Escrowed(escrowLocks) + 2 * lock.amount - 2 * escrowLocks[c].amount
      BY <1>1, <2>3, EscrowedChanged
    <3>2. 2 * escrowLocks[c].amount = 0
      BY <1>1 DEF NoLock
    <3>3. 2 * n \in Int
      BY <1>1
    <3> QED
      BY <1>5, <2>1, <2>3, <3>1, <3>2, <3>3
  <2>6. top.funds \in [Wallet -> Int] /\ -n \in Int
    BY <1>1, <1>3, BalancesInt
  <2>7. h \in [Wallet -> Int] /\ Total(h) = Total(top.funds) + (-n)
    BY <2>6, PlusTotal
  <2>8. Plus(h, against, -n) \in [Wallet -> Int] /\ Total(Plus(h, against, -n)) = Total(h) + (-n)
    <3> HIDE DEF h
    <3> QED
      BY <2>6, <2>7, PlusTotal
  <2>9. funds' = Plus(h, against, -n)
    BY <1>1, <2>1, <2>6 DEF StakesTaken, Plus
  <2> HIDE DEF h
  <2>10. funds' \in Balances'
    <3>1. funds' = [w \in Wallet |-> IF w = by THEN top.funds[by] - n
                                     ELSE IF w = against THEN top.funds[against] - n
                                     ELSE top.funds[w]]
      BY <1>1, <2>1, <2>6 DEF StakesTaken
    <3>2. top.funds[by] - n \in Int /\ top.funds[against] - n \in Nat
      BY <1>3, <1>8
    <3>3. top.funds[by] - n \in Amount(by)'
      BY <1>1, <2>0, <3>2 DEF Amount
    <3>4. top.funds[against] - n \in Amount(against)'
      BY <1>1, <2>0, <3>2 DEF Amount
    <3>5. top.funds \in Balances'
      BY <1>3, <2>15, BalancesKept
    <3> QED
      BY <3>1, <3>2, <3>3, <3>4, <3>5 DEF Balances
  <2> DEFINE m == top.refill - 2 * n
             e == 2 * n
  <2>11. m \in Int /\ e \in Int
    BY <1>1, <1>3
  <2>12. Total(funds') = Total(funds) + m
    BY <1>1, <1>3, <1>5, <2>7, <2>8, <2>9
  <2>13. supply' = supply + m + e
    BY <1>1, <1>3, <1>4, <1>6
  <2>14. Escrowed(escrowLocks') = Escrowed(escrowLocks) + e
    BY <2>5
  <2> HIDE DEF m, e
  <2> QED
    BY <2>2, <2>4, <2>10, <2>11, <2>12, <2>13, <2>14, MoneyMoved
<1> QED
  BY <1>7, <1>8

-----------------------------------------------------------------------------

(* Every route, timer and restart keeps the invariant. *)
LEMMA LedgerStep == LedgerInv /\ [LedgerNext]_ledgerVars => LedgerInv'
<1> SUFFICES ASSUME LedgerInv, [LedgerNext]_ledgerVars PROVE LedgerInv'
  OBVIOUS
<1>1. CASE UNCHANGED ledgerVars
  <2>1. Minor
    BY <1>1 DEF ledgerVars, LedgerInv, LedgerTypes, Minor, Deeper
  <2> QED
    BY <1>1, <2>1, NoMoneyMoved DEF ledgerVars
<1>2. CASE \E w \in Wallet, n \in Sum : Fund(w, n) \/ Withdraw(w, n) \/ HouseTransfer(w, n)
  BY <1>2, FundKeeps, WithdrawKeeps, HouseTransferKeeps
<1>3. CASE \E s, t \in Wallet, n \in Sum : TransferTo(s, t, n)
  BY <1>3, TransferToKeeps
<1>4. CASE \E c \in Stakeable :
              \/ \E by, against \in Wallet, n \in Sum : EscrowLock(c, by, against, n)
              \/ \E w \in Wallet, bps \in FeeBps : EscrowResolve(c, w, bps)
              \/ EscrowRefund(c)
  BY <1>4, EscrowLockKeeps, EscrowResolveKeeps, EscrowRefundKeeps
<1>5. CASE \E n \in Sum : HouseRefill(n) \/ SetHouseConfig(n)
  BY <1>5, HouseRefillKeeps, SetHouseConfigKeeps
<1>6. CASE \/ \E enabled \in BOOLEAN : SetWalletPolicy(enabled)
           \/ NewDay \/ BeginSave \/ InsertRow \/ Commit
  BY <1>6, SavingKeeps
<1>7. CASE BudgetTick
  BY <1>7, BudgetTickKeeps
<1>8. CASE RuntimeRestart
  BY <1>8, RuntimeRestartKeeps
<1> QED
  BY <1>1, <1>2, <1>3, <1>4, <1>5, <1>6, <1>7, <1>8 DEF LedgerNext

(* However locks, top-ups, refills, payouts and restarts follow each other,  *)
(* the balances and the stakes in escrow add up to what came into the        *)
(* ledger.                                                                   *)
THEOREM LedgerBalances == LedgerSpec => []Balanced
<1>1. LedgerInv => Balanced
  BY DEF LedgerInv
<1> QED
  BY <1>1, LedgerInitially, LedgerStep, PTL DEF LedgerSpec

(* And no wallet is overdrawn, but for the bank by what it had not got left  *)
(* when it staked against a bot it had just topped up, which it never does   *)
(* if at most half of a bankroll may be bet (5% by default, SuperAgent.ts).  *)
THEOREM MoneyIsConserved == LedgerSpec => []MoneyConserved
<1>1. ASSUME LedgerInv PROVE MoneyConserved
  <2>1. overdraft \in Nat /\ (MaxBetPercent <= 50 => overdraft = 0)
    BY <1>1 DEF LedgerInv, LedgerTypes
  <2>2. \A w \in Wallet : funds[w] \in Int /\ funds[w] \in Amount(w)
    BY <1>1, BalancesInt DEF LedgerInv, LedgerTypes
  <2>3. \A w \in Wallet \ {Bank} : funds[w] \in Nat
    BY <2>2 DEF Amount
  <2>4. funds[Bank] \in Int /\ funds[Bank] + overdraft >= 0
    BY <2>1, <2>2, WalletFacts DEF Amount
  <2>5. /\ \A w \in Wallet : dailyTx[w] \in 0 .. MaxDaily
        /\ \A c \in Stakeable : escrowLocks[c].amount \in Nat
    BY <1>1 DEF LedgerInv, LedgerTypes, Lock, LockShape
  <2> QED
    BY <1>1, <2>1, <2>3, <2>4, <2>5 DEF LedgerInv, Balanced, MoneyConserved
<1> QED
  BY <1>1, LedgerInitially, LedgerStep, PTL DEF LedgerSpec

------------------------------------------------------------------------------
(* The preflight of a stake. *)

PrepSteps == {"none", "balance", "allowance", "approve", "recheck"}
PrepRecord ==
    [left : Seq(Holder), step : PrepSteps, short : BOOLEAN, failed : BOOLEAN, clean : BOOLEAN]
ResultRecord == [ok : BOOLEAN, clean : BOOLEAN, valid : BOOLEAN]
CallRecord ==
    [stage : {"idle", "asking", "creating", "over"}, by : Holder, against : Holder, amount : Nat,
     lock : BOOLEAN, clean : BOOLEAN]

(* What the parts of the preflight are made of.                              *)
WalletsOK == token \in [Holder -> Nat] /\ approved \in [Holder -> Nat]
PrepsOK == prep \in [Key -> [Attempt -> PrepRecord]] /\ run \in [Key -> 0 .. MaxAttempts]
ResultsOK == cache \in [Key -> ResultRecord]
CallsOK == call \in [Caller -> CallRecord]
PreflightTypeOK == WalletsOK /\ PrepsOK /\ ResultsOK /\ CallsOK

Backs(w, n) == token[w] >= n /\ approved[w] >= n
Backed(q) == \A w \in q.pair : Backs(w, q.amount)

(* A request that has gone well so far and whose wallets nobody else has     *)
(* touched: the wallets it is through with cover the stake, and from the     *)
(* balance on the one it is at has the tokens.                               *)
AtWallet(p) == p.step \in {"allowance", "approve", "recheck"}
AwaitsOrBacks(q, p) == \A w \in q.pair : (\E i \in 1 .. Len(p.left) : p.left[i] = w) \/ Backs(w, q.amount)
HasTokens(q, p) == AtWallet(p) /\ ~p.short => token[Head(p.left)] >= q.amount
PrepOK(q, p) ==
    /\ p.left \in Seq(q.pair)
    /\ AtWallet(p) => p.left # <<>>
    /\ p.clean /\ ~p.failed => AwaitsOrBacks(q, p) /\ HasTokens(q, p)
PrepSound(q, a) == PrepOK(q, prep[q][a])

(* An answer that may be relied on.                                          *)
ResultSound(q) == cache[q].ok /\ cache[q].clean => Backed(q)
CallSound(k) ==
    /\ call[k].stage \in {"asking", "creating"} => KeyOf(k) \in Key
    /\ call[k].stage = "creating" /\ call[k].clean => Backed(KeyOf(k))

PrepsSound == \A q \in Key, a \in Attempt : PrepSound(q, a)
ResultsSound == \A q \in Key : ResultSound(q)
CallsSound == \A k \in Caller : CallSound(k)

PreflightInv == PreflightTypeOK /\ PrepsSound /\ ResultsSound /\ CallsSound

(* What covers a stake of this key covers it after the step as well.         *)
KeepsFunds(q) ==
    \A w \in q.pair : /\ token[w] >= q.amount => token'[w] >= q.amount
                      /\ approved[w] >= q.amount => approved'[w] >= q.amount

(* A key of the cache names wallets and an amount. *)
LEMMA KeysOfHolders ==
    ASSUME NEW q \in Key
    PROVE  q.pair \subseteq Holder /\ q.amount \in Nat
BY PreflightAssumption DEF Key, Want

(* The key of an offer, or of a share of it, is one. *)
LEMMA KeysOfOffers ==
    ASSUME NEW p \in Offer, NEW m \in Want, NEW q, q = [pair |-> {p.by, p.against}, amount |-> m]
    PROVE  q \in Key
<1>1. \E o \in Offer, n \in Want : q = [pair |-> {o.by, o.against}, amount |-> n]
  OBVIOUS
<1>2. \A y : y \in Key <=> \E o \in Offer, n \in Want : y = [pair |-> {o.by, o.against}, amount |-> n]
  BY DEF Key
<1> QED
  BY <1>1, <1>2

(* A member of a sequence is its head or one of the rest. *)
LEMMA HeadOrTail ==
    ASSUME NEW S, NEW s \in Seq(S), s # <<>>, NEW i \in 1 .. Len(s)
    PROVE  s[i] = Head(s) \/ \E j \in 1 .. Len(Tail(s)) : Tail(s)[j] = s[i]
<1>1. CASE i = 1
  BY <1>1
<1>2. CASE i # 1
  <2>1. i - 1 \in 1 .. Len(Tail(s)) /\ Tail(s)[i - 1] = s[i]
    BY <1>2
  <2> QED
    BY <2>1
<1> QED
  BY <1>1, <1>2

(* The head of a sequence is one of its members, the rest are too. *)
LEMMA HeadOfSeq ==
    ASSUME NEW S, NEW s \in Seq(S), s # <<>>
    PROVE  Head(s) \in S /\ Tail(s) \in Seq(S)
OBVIOUS

(* A request that stands still stays sound while the wallets keep what they  *)
(* have.                                                                     *)
LEMMA PrepKept ==
    ASSUME NEW q \in Key, NEW a, PrepSound(q, a), KeepsFunds(q), prep'[q][a] = prep[q][a]
    PROVE  PrepSound(q, a)'
<1>1. /\ prep[q][a].left \in Seq(q.pair)
      /\ AtWallet(prep[q][a]) => prep[q][a].left # <<>>
      /\ prep[q][a].clean /\ ~prep[q][a].failed => AwaitsOrBacks(q, prep[q][a]) /\ HasTokens(q, prep[q][a])
  BY DEF PrepSound, PrepOK
<1>2. AtWallet(prep[q][a]) => Head(prep[q][a].left) \in q.pair
  BY <1>1, HeadOfSeq
<1>3. AtWallet(prep[q][a]) <=> AtWallet(prep[q][a])'
  BY DEF AtWallet
<1>4. AwaitsOrBacks(q, prep[q][a]) => AwaitsOrBacks(q, prep[q][a])'
  BY DEF AwaitsOrBacks, Backs, KeepsFunds
<1>5. HasTokens(q, prep[q][a]) => HasTokens(q, prep[q][a])'
  BY <1>2, <1>3 DEF HasTokens, KeepsFunds
<1> QED
  BY <1>1, <1>3, <1>4, <1>5 DEF PrepSound, PrepOK

(* A request that other movements have touched promises nothing.             *)
LEMMA PrepTouched ==
    ASSUME NEW q \in Key, NEW a, prep[q][a] \in PrepRecord, PrepSound(q, a),
           prep'[q][a] = [prep[q][a] EXCEPT !.clean = FALSE]
    PROVE  PrepSound(q, a)'
<1>1. /\ prep'[q][a].left = prep[q][a].left /\ prep'[q][a].step = prep[q][a].step
      /\ prep'[q][a].clean = FALSE
  BY DEF PrepRecord
<1> QED
  BY <1>1 DEF PrepSound, PrepOK, AtWallet

(* A new request, and none.                                                  *)
LEMMA PrepBegins ==
    ASSUME NEW by \in Holder, NEW against \in Holder
    PROVE  /\ PrepareRequest(by, against) \in PrepRecord
           /\ NoPrep \in PrepRecord
           /\ \A q \in Key : \A a : q.pair = {by, against} /\ prep'[q][a] = PrepareRequest(by, against) => PrepSound(q, a)'
<1>1. PrepareRequest(by, against) \in PrepRecord
  BY DEF PrepareRequest, PrepRecord, PrepSteps
<1>2. NoPrep \in PrepRecord
  BY DEF NoPrep, PrepRecord, PrepSteps
<1>3. ASSUME NEW q \in Key, NEW a, q.pair = {by, against}, prep'[q][a] = PrepareRequest(by, against)
      PROVE  PrepSound(q, a)'
  <2>1. prep'[q][a].left = <<by, against>> /\ prep'[q][a].step = "balance"
    BY <1>3 DEF PrepareRequest
  <2>2. <<by, against>> \in Seq(q.pair) /\ Len(<<by, against>>) = 2 /\ 1 \in 1 .. 2 /\ 2 \in 1 .. 2
        /\ <<by, against>>[1] = by /\ <<by, against>>[2] = against
    BY <1>3
  <2>3. AwaitsOrBacks(q, prep[q][a])'
    BY <1>3, <2>1, <2>2 DEF AwaitsOrBacks
  <2>4. ~AtWallet(prep[q][a])'
    BY <2>1 DEF AtWallet
  <2> QED
    BY <2>1, <2>2, <2>3, <2>4 DEF PrepSound, PrepOK, HasTokens
<1> QED
  BY <1>1, <1>2, <1>3

(* No request is sound. *)
LEMMA NothingPrepared ==
    ASSUME NEW q \in Key, NEW a, prep'[q][a] = NoPrep
    PROVE  PrepSound(q, a)'
BY DEF PrepSound, PrepOK, NoPrep, AtWallet

(* On to the next wallet: the one left behind has been seen to, or the       *)
(* request has failed.                                                       *)
LEMMA PrepMovesOn ==
    ASSUME NEW q \in Key, NEW a, NEW failed \in BOOLEAN, prep[q][a] \in PrepRecord, PrepSound(q, a),
           prep[q][a].left # <<>>, UNCHANGED <<token, approved>>,
           failed \/ ~prep[q][a].clean \/ prep[q][a].failed \/ Backs(Head(prep[q][a].left), q.amount),
           prep'[q][a] = NextWallet(q, a, failed)
    PROVE  PrepSound(q, a)' /\ prep'[q][a] \in PrepRecord
<1> DEFINE p == prep[q][a]
<1>0. /\ p \in PrepRecord /\ p.left \in Seq(q.pair) /\ p.left \in Seq(Holder)
      /\ p.clean /\ ~p.failed => AwaitsOrBacks(q, p)
  BY DEF PrepSound, PrepOK, PrepRecord
<1>1. CASE prep'[q][a] = NoPrep
  BY <1>1, NothingPrepared, PrepBegins DEF NoPrep, PrepRecord, PrepSteps
<1>2. CASE prep'[q][a] = [p EXCEPT !.left = Tail(@), !.step = "balance", !.short = FALSE, !.failed = @ \/ failed]
  <2>1. Tail(p.left) \in Seq(q.pair) /\ Tail(p.left) \in Seq(Holder)
    BY <1>0, HeadOfSeq
  <2>2. /\ prep'[q][a].left = Tail(p.left) /\ prep'[q][a].step = "balance"
        /\ prep'[q][a].clean = p.clean /\ prep'[q][a].failed = (p.failed \/ failed)
        /\ prep'[q][a] \in PrepRecord
    BY <1>0, <1>2, <2>1 DEF PrepRecord, PrepSteps
  <2>3. ASSUME p.clean, ~p.failed, ~failed PROVE AwaitsOrBacks(q, prep[q][a])'
    <3>1. ASSUME NEW w \in q.pair
          PROVE  (\E i \in 1 .. Len(prep'[q][a].left) : prep'[q][a].left[i] = w) \/ Backs(w, q.amount)
      <4>1. CASE Backs(w, q.amount)
        BY <4>1
      <4>2. CASE \E i \in 1 .. Len(p.left) : p.left[i] = w
        <5>1. PICK i \in 1 .. Len(p.left) : p.left[i] = w
          BY <4>2
        <5>2. w = Head(p.left) \/ \E j \in 1 .. Len(Tail(p.left)) : Tail(p.left)[j] = w
          BY <1>0, <5>1, HeadOrTail
        <5> QED
          BY <2>2, <2>3, <5>2
      <4> QED
        BY <1>0, <2>3, <4>1, <4>2 DEF AwaitsOrBacks
    <3> QED
      BY <3>1 DEF AwaitsOrBacks, Backs
  <2>4. ~AtWallet(prep[q][a])'
    BY <2>2 DEF AtWallet
  <2>5. PrepSound(q, a)'
    BY <2>1, <2>2, <2>3, <2>4 DEF PrepSound, PrepOK, HasTokens
  <2> QED
    BY <2>2, <2>5
<1> QED
  BY <1>1, <1>2 DEF NextWallet

PrepTable == [Key -> [Attempt -> PrepRecord]]

(* A change of wallets marks the requests it touches and no other. *)
LEMMA PrepsAfter ==
    ASSUME NEW P \in PrepTable, NEW ws, NEW except
    PROVE  /\ PrepAfter(P, ws, except) \in PrepTable
           /\ \A q \in Key, a \in Attempt :
                /\ Touched(q, ws, except) => PrepAfter(P, ws, except)[q][a] = [P[q][a] EXCEPT !.clean = FALSE]
                /\ ~Touched(q, ws, except) => PrepAfter(P, ws, except)[q][a] = P[q][a]
<1>1. ASSUME NEW q \in Key, NEW a \in Attempt
      PROVE  [P[q][a] EXCEPT !.clean = FALSE] \in PrepRecord /\ P[q][a] \in PrepRecord
  <2>1. P[q][a] \in PrepRecord
    BY DEF PrepTable
  <2>2. \A p \in PrepRecord : [p EXCEPT !.clean = FALSE] \in PrepRecord
    BY DEF PrepRecord
  <2> QED
    BY <2>1, <2>2
<1>2. ASSUME NEW q \in Key, NEW a \in Attempt
      PROVE  (IF Touched(q, ws, except) THEN [P[q][a] EXCEPT !.clean = FALSE] ELSE P[q][a]) \in PrepRecord
  BY <1>1
<1>3. PrepAfter(P, ws, except) \in PrepTable
  BY <1>2 DEF PrepAfter, PrepTable
<1> QED
  BY <1>3 DEF PrepAfter

(* What is left of the answers and of the calls when wallets are moved.      *)
LEMMA ResultsMove ==
    ASSUME ResultsOK, ResultsSound, NEW ws, NEW except,
           cache' = CacheAfter(ws, except),
           \A q \in Key : Touched(q, ws, except) \/ KeepsFunds(q)
    PROVE  ResultsOK' /\ ResultsSound'
<1>1. ASSUME NEW q \in Key
      PROVE  /\ [cache[q] EXCEPT !.clean = FALSE] \in ResultRecord /\ cache[q] \in ResultRecord
             /\ [cache[q] EXCEPT !.clean = FALSE].clean = FALSE
  BY DEF ResultsOK, ResultRecord
<1>2. ResultsOK'
  BY <1>1 DEF ResultsOK, CacheAfter
<1>3. ASSUME NEW q \in Key PROVE ResultSound(q)'
  <2>1. CASE Touched(q, ws, except)
    <3>1. cache'[q].clean = FALSE
      BY <1>1, <2>1 DEF CacheAfter
    <3> QED
      BY <3>1 DEF ResultSound
  <2>2. CASE ~Touched(q, ws, except)
    <3>1. cache'[q] = cache[q] /\ KeepsFunds(q)
      BY <2>2 DEF CacheAfter
    <3>2. ResultSound(q)
      BY DEF ResultsSound
    <3> QED
      BY <3>1, <3>2 DEF ResultSound, Backed, Backs, KeepsFunds
  <2> QED
    BY <2>1, <2>2
<1> QED
  BY <1>2, <1>3 DEF ResultsSound

(* A call that was not made, and one that is over. *)
LEMMA NoCallOver == NoCall \in CallRecord /\ CallOver \in CallRecord /\ NoCall.stage = "idle" /\ CallOver.stage = "over"
BY PreflightAssumption DEF NoCall, CallOver, CallRecord

(* When wallets change, the calls that are touched are marked, and the       *)
(* others still find what they were told.                                    *)
LEMMA CallsMove ==
    ASSUME CallsOK, CallsSound, NEW ws, NEW except, NEW cs \in [Caller -> CallRecord],
           \A k \in Caller : cs[k] \in {call[k], CallOver},
           call' = CallsAfter(cs, ws, except),
           \A q \in Key : Touched(q, ws, except) \/ KeepsFunds(q)
    PROVE  CallsOK' /\ CallsSound'
<1>1. ASSUME NEW k \in Caller
      PROVE  LET c == [cs[k] EXCEPT !.clean = FALSE]
             IN  /\ c \in CallRecord /\ cs[k] \in CallRecord
                 /\ c.stage = cs[k].stage /\ c.by = cs[k].by /\ c.against = cs[k].against
                 /\ c.amount = cs[k].amount /\ c.clean = FALSE
  BY DEF CallRecord
<1>2. CallsOK'
  BY <1>1 DEF CallsOK, CallsAfter
<1>3. ASSUME NEW k \in Caller PROVE CallSound(k)'
  <2>0. call'[k] = IF Touched(KeyOf(k), ws, except) THEN [cs[k] EXCEPT !.clean = FALSE] ELSE cs[k]
    BY DEF CallsAfter
  <2>1. CASE cs[k] = CallOver
    BY <1>1, <2>0, <2>1, NoCallOver DEF CallSound
  <2>2. CASE cs[k] = call[k]
    <3>1. /\ call'[k].stage = call[k].stage /\ call'[k].by = call[k].by /\ call'[k].against = call[k].against
          /\ call'[k].amount = call[k].amount
          /\ Touched(KeyOf(k), ws, except) => ~call'[k].clean
          /\ ~Touched(KeyOf(k), ws, except) => call'[k].clean = call[k].clean
      BY <1>1, <2>0, <2>2
    <3>2. KeyOf(k)' = KeyOf(k)
      BY <3>1 DEF KeyOf, preflightKey
    <3>3. CallSound(k)
      BY DEF CallsSound
    <3>4. call[k].stage \in {"asking", "creating"} => KeyOf(k) \in Key
      BY <3>3 DEF CallSound
    <3>5. KeyOf(k) \in Key /\ KeepsFunds(KeyOf(k)) /\ Backed(KeyOf(k)) => Backed(KeyOf(k))'
      BY <3>2 DEF Backed, Backs, KeepsFunds
    <3> QED
      BY <3>1, <3>2, <3>3, <3>4, <3>5 DEF CallSound
  <2> QED
    BY <2>1, <2>2
<1> QED
  BY <1>2, <1>3 DEF CallsSound

(* A call that goes on as it is, over a step that spares the wallets.        *)
LEMMA CallKept ==
    ASSUME NEW k \in Caller, CallSound(k), call'[k] = call[k], \A q \in Key : KeepsFunds(q)
    PROVE  CallSound(k)'
<1>1. KeyOf(k)' = KeyOf(k)
  BY DEF KeyOf, preflightKey
<1>2. KeyOf(k) \in Key /\ Backed(KeyOf(k)) => Backed(KeyOf(k))'
  BY <1>1 DEF Backed, Backs, KeepsFunds
<1> QED
  BY <1>1, <1>2 DEF CallSound

(* A cached result stays sound while the wallets keep what they have. *)
LEMMA ResultKept ==
    ASSUME NEW q \in Key, ResultSound(q), cache'[q] = cache[q], KeepsFunds(q)
    PROVE  ResultSound(q)'
BY DEF ResultSound, Backed, Backs, KeepsFunds

(* A call that has its answer.                                               *)
LEMMA CallAnswered ==
    ASSUME NEW k \in Caller, NEW c \in CallRecord, NEW ok \in BOOLEAN, NEW clean \in BOOLEAN,
           call'[k] = Answered(c, ok, clean), UNCHANGED <<token, approved>>,
           preflightKey(c.by, c.against, c.amount) \in Key,
           ok /\ clean => Backed(preflightKey(c.by, c.against, c.amount))
    PROVE  CallSound(k)' /\ call'[k] \in CallRecord
<1>1. CASE ok /\ c.lock
  <2>1. call'[k] = [c EXCEPT !.stage = "creating", !.clean = clean]
    BY <1>1 DEF Answered
  <2>2. /\ call'[k].by = c.by /\ call'[k].against = c.against /\ call'[k].amount = c.amount
        /\ call'[k].clean = clean /\ call'[k] \in CallRecord
    BY <2>1 DEF CallRecord
  <2>3. KeyOf(k)' = preflightKey(c.by, c.against, c.amount)
    BY <2>2 DEF KeyOf, preflightKey
  <2>4. clean => Backed(KeyOf(k))'
    BY <1>1, <2>3 DEF Backed, Backs
  <2> QED
    BY <2>2, <2>3, <2>4 DEF CallSound
<1>2. CASE ~(ok /\ c.lock)
  <2>1. call'[k] = CallOver
    BY <1>2 DEF Answered
  <2> QED
    BY <2>1, NoCallOver DEF CallSound
<1> QED
  BY <1>1, <1>2

(* One request of the runtime that changes, and the rest as they were.       *)
LEMMA OnePrep ==
    ASSUME PrepsOK, PrepsSound, NEW q \in Key, NEW a \in Attempt, NEW p \in PrepRecord,
           prep' = [prep EXCEPT ![q][a] = p], PrepSound(q, a)',
           \A r \in Key : KeepsFunds(r)
    PROVE  prep' \in PrepTable /\ PrepsSound'
<1>1. prep \in PrepTable
  BY DEF PrepsOK, PrepTable
<1>2. prep' \in PrepTable
  BY <1>1 DEF PrepTable
<1>3. ASSUME NEW r \in Key, NEW b \in Attempt PROVE PrepSound(r, b)'
  <2>1. CASE r = q /\ b = a
    BY <2>1
  <2>2. CASE ~(r = q /\ b = a)
    <3>1. prep'[r][b] = prep[r][b]
      BY <1>1, <2>2 DEF PrepTable
    <3>2. PrepSound(r, b) /\ KeepsFunds(r)
      BY DEF PrepsSound
    <3> QED
      BY <3>1, <3>2, PrepKept
  <2> QED
    BY <2>1, <2>2
<1> QED
  BY <1>2, <1>3 DEF PrepsSound

(* Wallets nobody touches keep what they have. *)
LEMMA AllKept ==
    ASSUME UNCHANGED <<token, approved>>
    PROVE  \A r \in Key : KeepsFunds(r)
BY DEF KeepsFunds

(* So the requests stay sound, *)
LEMMA PrepsStay ==
    ASSUME PrepsOK, PrepsSound, UNCHANGED <<prep, run>>, \A r \in Key : KeepsFunds(r)
    PROVE  PrepsOK' /\ PrepsSound'
<1>1. PrepsOK'
  BY DEF PrepsOK
<1>2. ASSUME NEW r \in Key, NEW b \in Attempt PROVE PrepSound(r, b)'
  BY PrepKept DEF PrepsSound
<1> QED
  BY <1>1, <1>2 DEF PrepsSound

(* and the cached results, *)
LEMMA ResultsStay ==
    ASSUME ResultsOK, ResultsSound, UNCHANGED cache, \A r \in Key : KeepsFunds(r)
    PROVE  ResultsOK' /\ ResultsSound'
<1>1. ResultsOK'
  BY DEF ResultsOK
<1>2. ASSUME NEW r \in Key PROVE ResultSound(r)'
  BY ResultKept DEF ResultsSound
<1> QED
  BY <1>1, <1>2 DEF ResultsSound

(* and the calls. *)
LEMMA CallsStay ==
    ASSUME CallsOK, CallsSound, UNCHANGED call, \A r \in Key : KeepsFunds(r)
    PROVE  CallsOK' /\ CallsSound'
<1>1. CallsOK'
  BY DEF CallsOK
<1>2. ASSUME NEW k \in Caller PROVE CallSound(k)'
  BY CallKept DEF CallsSound
<1> QED
  BY <1>1, <1>2 DEF CallsSound

(* One call that changes.                                                    *)
LEMMA OneCall ==
    ASSUME CallsOK, CallsSound, NEW k \in Caller, NEW c \in CallRecord, call' = [call EXCEPT ![k] = c],
           CallSound(k)', \A r \in Key : KeepsFunds(r)
    PROVE  CallsOK' /\ CallsSound'
<1>1. CallsOK'
  BY DEF CallsOK
<1>2. ASSUME NEW j \in Caller, j # k PROVE CallSound(j)'
  <2>1. call'[j] = call[j] /\ CallSound(j)
    BY <1>2 DEF CallsOK, CallsSound
  <2> QED
    BY <2>1, CallKept
<1> QED
  BY <1>1, <1>2 DEF CallsSound

(* The next attempt.                                                         *)
LEMMA RetryKeeps ==
    ASSUME PreflightInv, NEW q \in Key, Retries(q), run[q] # 0, UNCHANGED <<token, approved>>
    PROVE  PreflightInv'
<1>0. WalletsOK /\ PrepsOK /\ ResultsOK /\ CallsOK /\ PrepsSound /\ ResultsSound /\ CallsSound
  BY DEF PreflightInv, PreflightTypeOK
<1>1. PICK k \in Waiting(q) :
         prep' = [prep EXCEPT ![q][run[q] + 1] = PrepareRequest(call[k].by, call[k].against)]
  BY DEF Retries
<1>2. k \in Caller /\ q.pair = {call[k].by, call[k].against} /\ call[k].by \in Holder /\ call[k].against \in Holder
  BY <1>0, <1>1 DEF Waiting, KeyOf, preflightKey, CallsOK, CallRecord
<1> SUFFICES ASSUME NEW a, a = run[q] + 1, NEW p, p = PrepareRequest(call[k].by, call[k].against)
             PROVE  PreflightInv'
  OBVIOUS
<1>3. a \in Attempt /\ run' = [run EXCEPT ![q] = a] /\ a \in 0 .. MaxAttempts
  BY <1>0, PreflightAssumption DEF Retries, PrepsOK, Attempt
<1>4. prep' = [prep EXCEPT ![q][a] = p]
  BY <1>1
<1>5. prep'[q][a] = p
  BY <1>0, <1>3, <1>4 DEF PrepsOK
<1>6. p \in PrepRecord /\ PrepSound(q, a)'
  BY <1>2, <1>5, PrepBegins
<1>b. \A r \in Key : KeepsFunds(r)
  BY AllKept
<1>7. prep' \in PrepTable /\ PrepsSound'
  BY <1>0, <1>3, <1>4, <1>6, <1>b, OnePrep
<1>8. PrepsOK'
  BY <1>0, <1>3, <1>7 DEF PrepsOK, PrepTable
<1>9. ResultsOK' /\ ResultsSound' /\ CallsOK' /\ CallsSound'
  BY <1>0, AllKept, ResultsStay, CallsStay DEF Retries
<1>10. WalletsOK'
  BY <1>0 DEF WalletsOK
<1> QED
  BY <1>7, <1>8, <1>9, <1>10 DEF PreflightInv, PreflightTypeOK

(* The answer to all who wait.                                               *)
LEMMA EndsKeeps ==
    ASSUME PreflightInv, NEW q \in Key, NEW ok \in BOOLEAN, NEW clean \in BOOLEAN,
           Ends(q, ok, clean), ok /\ clean => Backed(q), UNCHANGED <<token, approved>>
    PROVE  run' \in [Key -> 0 .. MaxAttempts] /\ ResultsOK' /\ ResultsSound' /\ CallsOK' /\ CallsSound'
<1>0. PrepsOK /\ ResultsOK /\ CallsOK /\ ResultsSound /\ CallsSound
  BY DEF PreflightInv, PreflightTypeOK
<1>1. run' \in [Key -> 0 .. MaxAttempts]
  BY <1>0, PreflightAssumption DEF Ends, PrepsOK
<1>2. cache' = [cache EXCEPT ![q] = [ok |-> ok, clean |-> clean, valid |-> TRUE]]
  BY DEF Ends
<1>3. ResultsOK'
  BY <1>0, <1>2 DEF ResultsOK, ResultRecord
<1>4. ResultSound(q)'
  BY <1>0, <1>2 DEF ResultSound, ResultsOK, Backed, Backs
<1>5. ASSUME NEW r \in Key PROVE ResultSound(r)'
  <2>1. CASE r = q
    BY <1>4, <2>1
  <2>2. CASE r # q
    <3>1. cache'[r] = cache[r] /\ ResultSound(r)
      BY <1>0, <1>2, <2>2 DEF ResultsOK, ResultsSound
    <3> QED
      BY <3>1, AllKept, ResultKept
  <2> QED
    BY <2>1, <2>2
<1>6. ASSUME NEW k \in Caller PROVE CallSound(k)' /\ call'[k] \in CallRecord
  <2>0. call[k] \in CallRecord /\ CallSound(k)
    BY <1>0 DEF CallsOK, CallsSound
  <2>1. CASE k \in Waiting(q)
    <3>1. call'[k] = Answered(call[k], ok, clean)
      BY <2>1 DEF Ends
    <3>2. preflightKey(call[k].by, call[k].against, call[k].amount) = q
      BY <2>1 DEF Waiting, KeyOf
    <3> QED
      BY <2>0, <3>1, <3>2, CallAnswered
  <2>2. CASE k \notin Waiting(q)
    <3>1. call'[k] = call[k]
      BY <2>2 DEF Ends
    <3> QED
      BY <2>0, <3>1, AllKept, CallKept
  <2> QED
    BY <2>1, <2>2
<1>7. CallsOK'
  <2>1. call' = [k \in Caller |-> IF k \in Waiting(q) THEN Answered(call[k], ok, clean) ELSE call[k]]
    BY DEF Ends
  <2> QED
    BY <1>6, <2>1 DEF CallsOK
<1> QED
  BY <1>1, <1>3, <1>5, <1>6, <1>7 DEF ResultsSound, CallsSound

(* One request of the runtime goes on, and no wallet is moved.               *)
LEMMA PrepGoesOn ==
    ASSUME PreflightInv, NEW q \in Key, NEW a \in Attempt, NEW p \in PrepRecord,
           prep' = [prep EXCEPT ![q][a] = p], PrepSound(q, a)',
           UNCHANGED <<call, run, cache>>, WalletsOK', \A r \in Key : KeepsFunds(r)
    PROVE  PreflightInv'
<1>0. PrepsOK /\ ResultsOK /\ CallsOK /\ PrepsSound /\ ResultsSound /\ CallsSound
  BY DEF PreflightInv, PreflightTypeOK
<1>1. prep' \in PrepTable /\ PrepsSound'
  BY <1>0, OnePrep
<1>2. PrepsOK'
  BY <1>0, <1>1 DEF PrepsOK, PrepTable
<1>3. ResultsOK' /\ ResultsSound' /\ CallsOK' /\ CallsSound'
  BY <1>0, ResultsStay, CallsStay
<1> QED
  BY <1>1, <1>2, <1>3 DEF PreflightInv, PreflightTypeOK

(* A preparation reads a balance or an allowance, or fails. *)
LEMMA PrepareStep ==
    ASSUME PreflightInv, NEW q \in Key, NEW a \in Attempt,
           \/ PrepareBalance(q, a) \/ PrepareAllowance(q, a) \/ PrepareRecheck(q, a) \/ PrepareFails(q, a)
    PROVE  PreflightInv'
<1> DEFINE w == Head(prep[q][a].left)
<1>0. /\ WalletsOK /\ PrepsOK /\ prep[q][a] \in PrepRecord /\ PrepSound(q, a) /\ PrepOK(q, prep[q][a])
      /\ q.pair \subseteq Holder /\ q.amount \in Nat /\ prep \in [Key -> [Attempt -> PrepRecord]]
  BY KeysOfHolders DEF PreflightInv, PreflightTypeOK, PrepsOK, PrepsSound, PrepSound
<1>1. /\ prep[q][a].left # <<>> => w \in q.pair /\ w \in Holder /\ token[w] \in Nat /\ approved[w] \in Nat
      /\ prep[q][a].short \in BOOLEAN /\ prep[q][a].clean \in BOOLEAN /\ prep[q][a].failed \in BOOLEAN
  BY <1>0, HeadOfSeq DEF PrepOK, PrepRecord, WalletsOK
<1>2. AtWallet(prep[q][a]) => prep[q][a].left # <<>>
  BY <1>0 DEF PrepOK
<1>a. ASSUME NEW failed \in BOOLEAN, prep' = [prep EXCEPT ![q][a] = NextWallet(q, a, failed)],
             prep[q][a].left # <<>>, UNCHANGED <<token, approved, call, run, cache>>,
             failed \/ ~prep[q][a].clean \/ prep[q][a].failed \/ Backs(w, q.amount)
      PROVE  PreflightInv'
  <2>1. prep'[q][a] = NextWallet(q, a, failed)
    BY <1>0, <1>a
  <2>2. PrepSound(q, a)' /\ prep'[q][a] \in PrepRecord
    BY <1>0, <1>a, <2>1, PrepMovesOn
  <2>3. WalletsOK' /\ \A r \in Key : KeepsFunds(r)
    BY <1>0, <1>a, AllKept DEF WalletsOK
  <2> QED
    BY <1>a, <2>1, <2>2, <2>3, PrepGoesOn
<1>3. ASSUME PrepareFails(q, a) PROVE PreflightInv'
  BY <1>3, <1>a DEF PrepareFails
<1>4. ASSUME PrepareRecheck(q, a) PROVE PreflightInv'
  <2>1. prep[q][a].step = "recheck" /\ AtWallet(prep[q][a]) /\ UNCHANGED <<token, approved, call, run, cache>>
    BY <1>4 DEF PrepareRecheck, AtWallet
  <2>2. prep' = [prep EXCEPT ![q][a] = NextWallet(q, a, prep[q][a].short \/ approved[w] < q.amount)]
    BY <1>4 DEF PrepareRecheck
  <2>3. CASE prep[q][a].short
    <3>1. (prep[q][a].short \/ approved[w] < q.amount) = TRUE
      BY <2>3
    <3> QED
      BY <1>2, <1>a, <2>1, <2>2, <3>1
  <2>4. CASE ~prep[q][a].short /\ approved[w] < q.amount
    <3>1. (prep[q][a].short \/ approved[w] < q.amount) = TRUE
      BY <2>4
    <3> QED
      BY <1>2, <1>a, <2>1, <2>2, <3>1
  <2>5. CASE ~prep[q][a].short /\ ~(approved[w] < q.amount)
    <3>1. (prep[q][a].short \/ approved[w] < q.amount) = FALSE
      BY <2>5
    <3>2. ~prep[q][a].clean \/ prep[q][a].failed \/ token[w] >= q.amount
      BY <1>0, <2>1, <2>5 DEF PrepOK, HasTokens
    <3>3. approved[w] >= q.amount
      BY <1>0, <1>1, <1>2, <2>1, <2>5
    <3> QED
      BY <1>2, <1>a, <2>1, <2>2, <3>1, <3>2, <3>3 DEF Backs
  <2> QED
    BY <2>3, <2>4, <2>5
<1>5. ASSUME PrepareAllowance(q, a) PROVE PreflightInv'
  <2>1. prep[q][a].step = "allowance" /\ AtWallet(prep[q][a]) /\ UNCHANGED <<token, approved, call, run, cache>>
    BY <1>5 DEF PrepareAllowance, AtWallet
  <2>2. CASE approved[w] >= q.amount
    <3>1. prep' = [prep EXCEPT ![q][a] = NextWallet(q, a, prep[q][a].short)]
      BY <1>5, <2>2 DEF PrepareAllowance
    <3>2. prep[q][a].short \/ ~prep[q][a].clean \/ prep[q][a].failed \/ Backs(w, q.amount)
      BY <1>0, <2>1, <2>2 DEF PrepOK, HasTokens, Backs
    <3> QED
      BY <1>1, <1>2, <1>a, <2>1, <3>1, <3>2
  <2>3. CASE ~(approved[w] >= q.amount)
    <3> DEFINE p == [prep[q][a] EXCEPT !.step = "approve"]
    <3>1. prep' = [prep EXCEPT ![q][a] = p] /\ prep'[q][a] = p
      BY <1>0, <1>5, <2>3 DEF PrepareAllowance
    <3>2. /\ p \in PrepRecord /\ p.left = prep[q][a].left /\ p.step = "approve" /\ p.short = prep[q][a].short
          /\ p.clean = prep[q][a].clean /\ p.failed = prep[q][a].failed
      BY <1>0 DEF PrepRecord, PrepSteps
    <3> HIDE DEF p
    <3>3. PrepSound(q, a)'
      BY <1>0, <2>1, <3>1, <3>2 DEF PrepSound, PrepOK, AwaitsOrBacks, HasTokens, AtWallet, Backs
    <3>4. WalletsOK' /\ \A r \in Key : KeepsFunds(r)
      BY <1>0, <2>1, AllKept DEF WalletsOK
    <3> QED
      BY <2>1, <3>1, <3>2, <3>3, <3>4, PrepGoesOn
  <2> QED
    BY <2>2, <2>3
<1>6. ASSUME PrepareBalance(q, a) PROVE PreflightInv'
  <2>0. prep[q][a].step = "balance" /\ prep[q][a].left # <<>> /\ UNCHANGED <<approved, call, run, cache>>
    BY <1>6 DEF PrepareBalance
  <2>a. ASSUME NEW p \in PrepRecord, prep' = [prep EXCEPT ![q][a] = p], p.left = prep[q][a].left,
               p.clean = prep[q][a].clean, p.failed = prep[q][a].failed, p.step = "allowance",
               p.short \/ token'[w] >= q.amount,
               token' \in [Holder -> Nat], \A h \in Holder : token'[h] >= token[h]
        PROVE  PreflightInv'
    <3>1. prep'[q][a] = p
      BY <1>0, <2>a
    <3>2. ASSUME NEW r \in Key PROVE KeepsFunds(r)
      <4>1. r.pair \subseteq Holder /\ r.amount \in Nat
        BY KeysOfHolders
      <4>2. \A h \in Holder : token[h] \in Nat /\ token'[h] \in Nat /\ token'[h] >= token[h]
        BY <1>0, <2>a DEF WalletsOK
      <4> QED
        BY <2>0, <4>1, <4>2 DEF KeepsFunds
    <3>3. AwaitsOrBacks(q, prep[q][a]) => AwaitsOrBacks(q, prep[q][a])'
      BY <2>a, <3>1, <3>2 DEF AwaitsOrBacks, Backs, KeepsFunds
    <3>4. PrepSound(q, a)'
      BY <1>0, <2>0, <2>a, <3>1, <3>3 DEF PrepSound, PrepOK, HasTokens, AtWallet
    <3>5. WalletsOK'
      BY <1>0, <2>0, <2>a DEF WalletsOK
    <3> QED
      BY <2>0, <2>a, <3>2, <3>4, <3>5, PrepGoesOn
  <2>b. ASSUME NEW short \in BOOLEAN, prep' = [prep EXCEPT ![q][a].step = "allowance", ![q][a].short = short],
               UNCHANGED token, short \/ token[w] >= q.amount
        PROVE  PreflightInv'
    <3> DEFINE p == [prep[q][a] EXCEPT !.step = "allowance", !.short = short]
    <3>1. prep' = [prep EXCEPT ![q][a] = p]
      <4>1. [prep EXCEPT ![q][a].step = "allowance"] \in [Key -> [Attempt -> PrepRecord]]
        BY <1>0 DEF PrepRecord, PrepSteps
      <4> QED
        BY <1>0, <2>b, <4>1
    <3>2. /\ p \in PrepRecord /\ p.left = prep[q][a].left /\ p.step = "allowance" /\ p.short = short
          /\ p.clean = prep[q][a].clean /\ p.failed = prep[q][a].failed
      BY <1>0 DEF PrepRecord, PrepSteps
    <3> HIDE DEF p
    <3>3. token' \in [Holder -> Nat] /\ \A h \in Holder : token'[h] >= token[h]
      BY <1>0, <2>b DEF WalletsOK
    <3> QED
      BY <2>a, <2>b, <3>1, <3>2, <3>3
  <2>1. CASE token[w] >= q.amount
    BY <1>6, <2>1, <2>b DEF PrepareBalance
  <2>2. CASE ~(token[w] >= q.amount)
    <3>1. CASE prep' = [prep EXCEPT ![q][a].step = "allowance", ![q][a].short = TRUE] /\ UNCHANGED token
      BY <2>b, <3>1
    <3>2. CASE token' = [token EXCEPT ![w] = q.amount] /\ prep' = [prep EXCEPT ![q][a].step = "allowance"]
      <4> DEFINE p == [prep[q][a] EXCEPT !.step = "allowance"]
      <4>1. prep' = [prep EXCEPT ![q][a] = p]
        BY <1>0, <3>2
      <4>2. /\ p \in PrepRecord /\ p.left = prep[q][a].left /\ p.step = "allowance" /\ p.short = prep[q][a].short
            /\ p.clean = prep[q][a].clean /\ p.failed = prep[q][a].failed
        BY <1>0 DEF PrepRecord, PrepSteps
      <4> HIDE DEF p
      <4>3. token \in [Holder -> Nat] /\ w \in Holder /\ q.amount \in Nat /\ token[w] \in Nat /\ token[w] < q.amount
        BY <1>0, <1>1, <2>0, <2>2 DEF WalletsOK
      <4>4. token' \in [Holder -> Nat] /\ token'[w] = q.amount /\ \A h \in Holder : token'[h] >= token[h]
        BY <3>2, <4>3
      <4>5. p.short \/ token'[w] >= q.amount
        BY <4>3, <4>4
      <4>6. /\ p \in PrepRecord /\ token' \in [Holder -> Nat] /\ \A h \in Holder : token'[h] >= token[h]
            /\ p.left = prep[q][a].left /\ p.clean = prep[q][a].clean /\ p.failed = prep[q][a].failed
            /\ p.step = "allowance"
        BY <4>2, <4>4
      <4> QED
        BY <2>a, <4>1, <4>5, <4>6
    <3> QED
      BY <1>6, <2>2, <3>1, <3>2 DEF PrepareBalance
  <2> QED
    BY <2>1, <2>2
<1> QED
  BY <1>3, <1>4, <1>5, <1>6

(* An approval goes to the chain, and overwrites what was approved before. *)
LEMMA ApproveStep ==
    ASSUME PreflightInv, NEW q \in Key, NEW a \in Attempt, PrepareApprove(q, a)
    PROVE  PreflightInv'
<1> DEFINE w == Head(prep[q][a].left)
           P == [prep EXCEPT ![q][a].step = "recheck"]
           p == [prep[q][a] EXCEPT !.step = "recheck"]
<1>0. /\ WalletsOK /\ PrepsOK /\ ResultsOK /\ CallsOK /\ PrepsSound /\ ResultsSound /\ CallsSound
      /\ prep[q][a] \in PrepRecord /\ PrepOK(q, prep[q][a])
      /\ q.pair \subseteq Holder /\ q.amount \in Nat /\ prep \in [Key -> [Attempt -> PrepRecord]]
  BY KeysOfHolders DEF PreflightInv, PreflightTypeOK, PrepsOK, PrepsSound, PrepSound
<1>1. /\ prep[q][a].step = "approve"
      /\ approved' = [approved EXCEPT ![w] = q.amount] /\ UNCHANGED <<token, run>>
      /\ prep' = PrepAfter(P, {w}, {q}) /\ cache' = CacheAfter({w}, {q}) /\ call' = CallsAfter(call, {w}, {q})
  BY DEF PrepareApprove, Approved
<1>2. prep[q][a].left # <<>> /\ w \in q.pair /\ w \in Holder
  <2>1. prep[q][a].left # <<>> /\ prep[q][a].left \in Seq(q.pair)
    BY <1>0, <1>1 DEF PrepOK, AtWallet
  <2> QED
    BY <1>0, <2>1, HeadOfSeq
<1>3. /\ p \in PrepRecord /\ p.left = prep[q][a].left /\ p.step = "recheck" /\ p.short = prep[q][a].short
      /\ p.clean = prep[q][a].clean /\ p.failed = prep[q][a].failed
  BY <1>0 DEF PrepRecord, PrepSteps
<1>4. P \in PrepTable /\ P[q][a] = p /\ \A r \in Key, b \in Attempt : r # q \/ b # a => P[r][b] = prep[r][b]
  <2>1. P = [prep EXCEPT ![q][a] = p]
    BY <1>0
  <2> HIDE DEF P, p
  <2> QED
    BY <1>0, <1>3, <2>1 DEF PrepTable
<1> HIDE DEF P, p
<1>5. WalletsOK' /\ approved'[w] = q.amount /\ \A h \in Holder \ {w} : approved'[h] = approved[h]
  BY <1>0, <1>1, <1>2 DEF WalletsOK
<1>6. KeepsFunds(q)
  BY <1>0, <1>1, <1>5 DEF KeepsFunds
<1>7. ASSUME NEW r \in Key, ~Touched(r, {w}, {q}) PROVE KeepsFunds(r)
  <2>1. CASE r = q
    BY <1>6, <2>1
  <2>2. CASE r # q
    <3>1. w \notin r.pair /\ r.pair \subseteq Holder
      BY <1>7, <2>2, KeysOfHolders DEF Touched
    <3> QED
      BY <1>1, <1>5, <3>1 DEF KeepsFunds
  <2> QED
    BY <2>1, <2>2
<1>8. ResultsOK' /\ ResultsSound'
  BY <1>0, <1>1, <1>7, ResultsMove
<1>9. CallsOK' /\ CallsSound'
  <2>1. call \in [Caller -> CallRecord]
    BY <1>0 DEF CallsOK
  <2> QED
    BY <1>0, <1>1, <1>7, <2>1, CallsMove
<1>10. /\ prep' \in PrepTable
       /\ \A r \in Key, b \in Attempt :
            /\ Touched(r, {w}, {q}) => prep'[r][b] = [P[r][b] EXCEPT !.clean = FALSE]
            /\ ~Touched(r, {w}, {q}) => prep'[r][b] = P[r][b]
  BY <1>1, <1>4, PrepsAfter
<1>11. ASSUME NEW r \in Key, NEW b \in Attempt PROVE PrepSound(r, b)'
  <2>0. prep[r][b] \in PrepRecord /\ PrepSound(r, b)
    BY <1>0 DEF PrepsSound
  <2>1. CASE r = q /\ b = a
    <3>1. prep'[q][a] = p
      BY <1>4, <1>10 DEF Touched
    <3>2. AwaitsOrBacks(q, prep[q][a]) => AwaitsOrBacks(q, prep[q][a])'
      BY <1>3, <1>6, <3>1 DEF AwaitsOrBacks, Backs, KeepsFunds
    <3>3. HasTokens(q, prep[q][a]) => HasTokens(q, prep[q][a])'
      BY <1>1, <1>3, <3>1 DEF HasTokens, AtWallet
    <3>4. PrepSound(q, a)'
      BY <1>0, <1>2, <1>3, <3>1, <3>2, <3>3 DEF PrepSound, PrepOK
    <3> QED
      BY <2>1, <3>4
  <2>2. CASE (r # q \/ b # a) /\ Touched(r, {w}, {q})
    <3>1. prep'[r][b] = [prep[r][b] EXCEPT !.clean = FALSE]
      BY <1>4, <1>10, <2>2
    <3> QED
      BY <2>0, <3>1, PrepTouched
  <2>3. CASE (r # q \/ b # a) /\ ~Touched(r, {w}, {q})
    <3>1. prep'[r][b] = P[r][b]
      BY <1>10, <2>3
    <3>2. P[r][b] = prep[r][b]
      BY <1>4, <2>3
    <3>3. KeepsFunds(r)
      BY <1>7, <2>3
    <3> QED
      BY <2>0, <3>1, <3>2, <3>3, PrepKept
  <2> QED
    BY <2>1, <2>2, <2>3
<1>12. PrepsOK'
  BY <1>0, <1>1, <1>10 DEF PrepsOK, PrepTable
<1> QED
  BY <1>5, <1>8, <1>9, <1>11, <1>12 DEF PreflightInv, PreflightTypeOK, PrepsSound

(* Wallets are moved, by a stake that is mined or by their owners.           *)
LEMMA MoveKeeps ==
    ASSUME PreflightInv, NEW ws, NEW cs \in [Caller -> CallRecord],
           \A k \in Caller : cs[k] \in {call[k], CallOver},
           call' = CallsAfter(cs, ws, {}), Moves(ws), UNCHANGED run,
           WalletsOK', \A w \in Holder \ ws : token'[w] = token[w] /\ approved'[w] = approved[w]
    PROVE  PreflightInv'
<1>0. /\ PrepsOK /\ ResultsOK /\ CallsOK /\ PrepsSound /\ ResultsSound /\ CallsSound /\ prep \in PrepTable
      /\ cache' = CacheAfter(ws, {}) /\ prep' = PrepAfter(prep, ws, {})
  BY DEF PreflightInv, PreflightTypeOK, PrepsOK, PrepTable, Moves
<1>1. ASSUME NEW q \in Key, ~Touched(q, ws, {}) PROVE KeepsFunds(q)
  <2>1. q.pair \cap ws = {} /\ q.pair \subseteq Holder
    BY <1>1, KeysOfHolders DEF Touched
  <2> QED
    BY <2>1 DEF KeepsFunds
<1>2. ResultsOK' /\ ResultsSound' /\ CallsOK' /\ CallsSound'
  BY <1>0, <1>1, ResultsMove, CallsMove
<1>3. /\ prep' \in PrepTable
      /\ \A r \in Key, b \in Attempt :
            /\ Touched(r, ws, {}) => prep'[r][b] = [prep[r][b] EXCEPT !.clean = FALSE]
            /\ ~Touched(r, ws, {}) => prep'[r][b] = prep[r][b]
  BY <1>0, PrepsAfter
<1>4. ASSUME NEW r \in Key, NEW b \in Attempt PROVE PrepSound(r, b)'
  <2>0. prep[r][b] \in PrepRecord /\ PrepSound(r, b)
    BY <1>0 DEF PrepsSound, PrepTable
  <2>1. CASE Touched(r, ws, {})
    BY <1>3, <2>0, <2>1, PrepTouched
  <2>2. CASE ~Touched(r, ws, {})
    BY <1>1, <1>3, <2>0, <2>2, PrepKept
  <2> QED
    BY <2>1, <2>2
<1>5. PrepsOK'
  BY <1>0, <1>3 DEF PrepsOK, PrepTable
<1> QED
  BY <1>2, <1>4, <1>5 DEF PreflightInv, PreflightTypeOK, PrepsSound

(* createBet is mined: the stakes leave the two wallets. *)
LEMMA MinedStep ==
    ASSUME PreflightInv, NEW k \in Caller, StakesMined(k)
    PROVE  PreflightInv'
<1>0. /\ WalletsOK /\ PrepsOK /\ ResultsOK /\ CallsOK /\ PrepsSound /\ ResultsSound /\ CallsSound
      /\ call \in [Caller -> CallRecord] /\ CallOver \in CallRecord
  BY NoCallOver DEF PreflightInv, PreflightTypeOK, CallsOK
<1> DEFINE ws == {call[k].by, call[k].against}
           n == call[k].amount
           cs == [call EXCEPT ![k] = CallOver]
<1>1. cs \in [Caller -> CallRecord] /\ \A j \in Caller : cs[j] \in {call[j], CallOver}
  BY <1>0
<1>2. n \in Nat /\ ws \subseteq Holder
  BY <1>0 DEF CallRecord
<1>3. CASE Covered(k)
  <2>1. /\ token' = [w \in Holder |-> IF w \in ws THEN token[w] - n ELSE token[w]]
        /\ approved' = [w \in Holder |-> IF w \in ws THEN approved[w] - n ELSE approved[w]]
        /\ call' = CallsAfter(cs, ws, {}) /\ Moves(ws) /\ UNCHANGED run
    BY <1>3 DEF StakesMined
  <2>2. \A w \in ws : token[w] >= n /\ approved[w] >= n
    BY <1>3 DEF Covered
  <2> HIDE DEF ws, n, cs
  <2>3. ASSUME NEW w \in Holder
        PROVE  /\ (IF w \in ws THEN token[w] - n ELSE token[w]) \in Nat
               /\ (IF w \in ws THEN approved[w] - n ELSE approved[w]) \in Nat
    <3>1. token[w] \in Nat /\ approved[w] \in Nat
      BY <1>0 DEF WalletsOK
    <3> QED
      BY <1>2, <2>2, <3>1
  <2>4. WalletsOK'
    BY <2>1, <2>3 DEF WalletsOK
  <2>5. \A w \in Holder \ ws : token'[w] = token[w] /\ approved'[w] = approved[w]
    BY <2>1
  <2> QED
    BY <1>1, <2>1, <2>4, <2>5, MoveKeeps
<1>4. CASE ~Covered(k)
  <2>1. call' = [call EXCEPT ![k] = CallOver] /\ UNCHANGED <<token, approved, prep, cache, run>>
    BY <1>4 DEF StakesMined
  <2>2. \A r \in Key : KeepsFunds(r)
    BY <2>1, AllKept
  <2>3. CallSound(k)'
    BY <1>0, <2>1, NoCallOver DEF CallSound
  <2>4. CallsOK' /\ CallsSound'
    BY <1>0, <2>1, <2>2, <2>3, OneCall
  <2>5. PrepsOK' /\ PrepsSound' /\ ResultsOK' /\ ResultsSound' /\ WalletsOK'
    BY <1>0, <2>1, <2>2, PrepsStay, ResultsStay DEF WalletsOK
  <2> QED
    BY <2>4, <2>5 DEF PreflightInv, PreflightTypeOK
<1> QED
  BY <1>3, <1>4

(* The other movements of the wallets, by their owners.                      *)
LEMMA OwnersStep ==
    ASSUME PreflightInv, NEW v \in Holder, NEW w \in Holder, NEW n \in Want,
           TransferOnchain(v, w, n) \/ WithdrawOnchain(w, n) \/ FundOnchain(w, n)
    PROVE  PreflightInv'
<1>0. /\ WalletsOK /\ PrepsOK /\ ResultsOK /\ CallsOK /\ PrepsSound /\ ResultsSound /\ CallsSound
      /\ call \in [Caller -> CallRecord] /\ \A k \in Caller : call[k] \in {call[k], CallOver}
      /\ token \in [Holder -> Nat] /\ approved \in [Holder -> Nat]
      /\ \A h \in Holder : token[h] \in Nat
  BY DEF PreflightInv, PreflightTypeOK, CallsOK, WalletsOK
<1>1. n \in Nat
  BY PreflightAssumption DEF Want
<1>2. CASE TransferOnchain(v, w, n)
  <2>1. /\ v # w /\ token[v] >= n /\ token' = [token EXCEPT ![v] = @ - n, ![w] = @ + n]
        /\ call' = CallsAfter(call, {v, w}, {}) /\ Moves({v, w}) /\ UNCHANGED <<approved, run>>
    BY <1>2 DEF TransferOnchain
  <2>2. token[v] - n \in Nat /\ token[w] + n \in Nat
    BY <1>0, <1>1, <2>1
  <2>3. token' \in [Holder -> Nat]
    BY <1>0, <2>1, <2>2
  <2>4. WalletsOK'
    BY <1>0, <2>1, <2>3 DEF WalletsOK
  <2>5. \A h \in Holder \ {v, w} : token'[h] = token[h] /\ approved'[h] = approved[h]
    BY <1>0, <2>1
  <2> QED
    BY <1>0, <2>1, <2>4, <2>5, MoveKeeps
<1>3. CASE WithdrawOnchain(w, n)
  <2>1. /\ token[w] >= n /\ token' = [token EXCEPT ![w] = @ - n]
        /\ call' = CallsAfter(call, {w}, {}) /\ Moves({w}) /\ UNCHANGED <<approved, run>>
    BY <1>3 DEF WithdrawOnchain
  <2>2. token[w] - n \in Nat
    BY <1>0, <1>1, <2>1
  <2>3. token' \in [Holder -> Nat]
    BY <1>0, <2>1, <2>2
  <2>4. WalletsOK'
    BY <1>0, <2>1, <2>3 DEF WalletsOK
  <2>5. \A h \in Holder \ {w} : token'[h] = token[h] /\ approved'[h] = approved[h]
    BY <1>0, <2>1
  <2> QED
    BY <1>0, <2>1, <2>4, <2>5, MoveKeeps
<1>4. CASE FundOnchain(w, n)
  <2>1. token' = [token EXCEPT ![w] = @ + n] /\ UNCHANGED <<approved, call, run, prep, cache>>
    BY <1>4 DEF FundOnchain
  <2>2. token[w] + n \in Nat /\ token[w] + n >= token[w]
    BY <1>0, <1>1
  <2>3. token' \in [Holder -> Nat] /\ \A h \in Holder : token'[h] = token[h] \/ (h = w /\ token'[h] = token[h] + n)
    BY <1>0, <2>1, <2>2
  <2>4. WalletsOK'
    BY <1>0, <2>1, <2>3 DEF WalletsOK
  <2>5. ASSUME NEW q \in Key PROVE KeepsFunds(q)
    <3>1. q.pair \subseteq Holder /\ q.amount \in Nat
      BY KeysOfHolders
    <3> QED
      BY <1>0, <1>1, <2>1, <2>3, <3>1 DEF KeepsFunds
  <2>6. PrepsOK' /\ PrepsSound' /\ ResultsOK' /\ ResultsSound' /\ CallsOK' /\ CallsSound'
    BY <1>0, <2>1, <2>5, PrepsStay, ResultsStay, CallsStay
  <2> QED
    BY <2>4, <2>6 DEF PreflightInv, PreflightTypeOK
<1> QED
  BY <1>2, <1>3, <1>4

(* A call, answered from the cache, by the request under way or by a new one. *)
LEMMA CallStep ==
    ASSUME PreflightInv, NEW k \in Caller, NEW o \in Offer, NEW lock \in BOOLEAN, Preflight(k, o, lock)
    PROVE  PreflightInv'
<1> DEFINE q == preflightKey(o.by, o.against, o.amount)
           asked == [stage |-> "asking", by |-> o.by, against |-> o.against, amount |-> o.amount,
                     lock |-> lock, clean |-> FALSE]
<1>0. /\ WalletsOK /\ PrepsOK /\ ResultsOK /\ CallsOK /\ PrepsSound /\ ResultsSound /\ CallsSound
      /\ call \in [Caller -> CallRecord]
  BY DEF PreflightInv, PreflightTypeOK, CallsOK
<1>1. o.by \in Holder /\ o.against \in Holder /\ o.amount \in Nat /\ o.amount \in Want
  BY PreflightAssumption DEF Want
<1>2. q \in Key /\ q.pair = {o.by, o.against}
  BY <1>1, KeysOfOffers DEF preflightKey
<1>3. /\ asked \in CallRecord /\ asked.stage = "asking" /\ asked.by = o.by /\ asked.against = o.against
      /\ asked.amount = o.amount
  BY <1>1 DEF CallRecord
<1>4. /\ UNCHANGED <<token, approved, cache>>
      /\ \/ call' = [call EXCEPT ![k] = Answered(asked, cache[q].ok, cache[q].clean)] /\ UNCHANGED <<run, prep>>
         \/ /\ call' = [call EXCEPT ![k] = asked]
            /\ \/ UNCHANGED <<run, prep>>
               \/ run' = [run EXCEPT ![q] = 1] /\ prep' = [prep EXCEPT ![q][1] = PrepareRequest(o.by, o.against)]
  BY DEF Preflight
<1>5. preflightKey(asked.by, asked.against, asked.amount) = q
  BY <1>3
<1> SUFFICES ASSUME NEW key, key = q, NEW c, c = asked PROVE PreflightInv'
  OBVIOUS
<1> HIDE DEF q, asked
<1>6. key \in Key /\ key.pair = {o.by, o.against} /\ c \in CallRecord /\ preflightKey(c.by, c.against, c.amount) = key
  BY <1>2, <1>3, <1>5
<1>7. \A r \in Key : KeepsFunds(r)
  BY <1>4, AllKept
<1>8. CallsOK' /\ CallsSound'
  <2>1. CASE call' = [call EXCEPT ![k] = Answered(c, cache[key].ok, cache[key].clean)]
    <3>1. cache[key].ok \in BOOLEAN /\ cache[key].clean \in BOOLEAN /\ (cache[key].ok /\ cache[key].clean => Backed(key))
      BY <1>0, <1>6 DEF ResultsOK, ResultRecord, ResultsSound, ResultSound
    <3>2. call'[k] = Answered(c, cache[key].ok, cache[key].clean)
      BY <1>0, <2>1
    <3>3. CallSound(k)' /\ call'[k] \in CallRecord
      BY <1>4, <1>6, <3>1, <3>2, CallAnswered
    <3>4. \E d \in CallRecord : call' = [call EXCEPT ![k] = d]
      BY <2>1, <3>2, <3>3
    <3> QED
      BY <1>0, <1>7, <3>3, <3>4, OneCall
  <2>2. CASE call' = [call EXCEPT ![k] = c]
    <3>1. call'[k] = c
      BY <1>0, <2>2
    <3>2. KeyOf(k)' = key
      BY <1>6, <3>1 DEF KeyOf, preflightKey
    <3>3. c.stage = "asking"
      BY <1>3
    <3>4. CallSound(k)'
      BY <1>6, <3>1, <3>2, <3>3 DEF CallSound
    <3> QED
      BY <1>0, <1>6, <1>7, <2>2, <3>4, OneCall
  <2> QED
    BY <1>4, <2>1, <2>2
<1>9. PrepsOK' /\ PrepsSound'
  <2>1. CASE UNCHANGED <<run, prep>>
    BY <1>0, <1>7, <2>1, PrepsStay
  <2>2. CASE run' = [run EXCEPT ![key] = 1] /\ prep' = [prep EXCEPT ![key][1] = PrepareRequest(o.by, o.against)]
    <3>1. 1 \in Attempt /\ 1 \in 0 .. MaxAttempts
      BY PreflightAssumption DEF Attempt
    <3>2. prep'[key][1] = PrepareRequest(o.by, o.against)
      BY <1>0, <1>6, <2>2, <3>1 DEF PrepsOK
    <3>3. PrepareRequest(o.by, o.against) \in PrepRecord /\ PrepSound(key, 1)'
      BY <1>1, <1>6, <3>2, PrepBegins
    <3>4. prep' \in PrepTable /\ PrepsSound'
      BY <1>0, <1>6, <1>7, <2>2, <3>1, <3>3, OnePrep
    <3> QED
      BY <1>0, <2>2, <3>1, <3>4 DEF PrepsOK, PrepTable
  <2> QED
    BY <1>4, <2>1, <2>2
<1> QED
  BY <1>0, <1>4, <1>7, <1>8, <1>9, ResultsStay DEF PreflightInv, PreflightTypeOK, WalletsOK

(* A request in flight fails, is answered, or its result leaves the cache. *)
LEMMA AttemptStep ==
    ASSUME PreflightInv, NEW q \in Key, AttemptFails(q) \/ AttemptAnswered(q) \/ CacheExpires(q)
    PROVE  PreflightInv'
<1>0. /\ WalletsOK /\ PrepsOK /\ ResultsOK /\ CallsOK /\ PrepsSound /\ ResultsSound /\ CallsSound
  BY DEF PreflightInv, PreflightTypeOK
<1>1. UNCHANGED <<token, approved>> /\ WalletsOK' /\ \A r \in Key : KeepsFunds(r)
  BY <1>0, AllKept DEF AttemptFails, AttemptAnswered, CacheExpires, WalletsOK
<1>a. ASSUME Ends(q, FALSE, FALSE), UNCHANGED prep PROVE PreflightInv'
  <2>1. run' \in [Key -> 0 .. MaxAttempts] /\ ResultsOK' /\ ResultsSound' /\ CallsOK' /\ CallsSound'
    BY <1>1, <1>a, EndsKeeps
  <2>2. PrepsOK'
    BY <1>0, <1>a, <2>1 DEF PrepsOK
  <2>3. PrepsSound'
    BY <1>0, <1>1, <1>a, PrepKept DEF PrepsSound
  <2> QED
    BY <1>1, <2>1, <2>2, <2>3 DEF PreflightInv, PreflightTypeOK
<1>2. CASE AttemptFails(q)
  BY <1>1, <1>2, <1>a, RetryKeeps DEF AttemptFails
<1>3. CASE AttemptAnswered(q)
  <2> SUFFICES ASSUME NEW a, a = run[q] PROVE PreflightInv'
    OBVIOUS
  <2>1. a # 0 /\ a \in Attempt
    BY <1>0, <1>3, PreflightAssumption DEF AttemptAnswered, PrepsOK, Attempt
  <2>2. /\ prep[q][a].left = <<>>
        /\ \/ ~prep[q][a].failed /\ Ends(q, TRUE, prep[q][a].clean) /\ prep' = [prep EXCEPT ![q][a] = NoPrep]
           \/ Ends(q, FALSE, FALSE) /\ prep' = [prep EXCEPT ![q][a] = NoPrep]
           \/ Retries(q)
    BY <1>3 DEF AttemptAnswered
  <2>3. prep[q][a].clean \in BOOLEAN /\ prep[q][a].failed \in BOOLEAN /\ PrepOK(q, prep[q][a])
    BY <1>0, <2>1 DEF PrepsOK, PrepRecord, PrepsSound, PrepSound
  <2>4. prep[q][a].clean /\ ~prep[q][a].failed => Backed(q)
    BY <2>2, <2>3 DEF PrepOK, AwaitsOrBacks, Backed
  <2>5. CASE Retries(q)
    BY <1>1, <2>1, <2>5, RetryKeeps
  <2>6. CASE prep' = [prep EXCEPT ![q][a] = NoPrep] /\ \E ok, clean \in BOOLEAN : Ends(q, ok, clean) /\ (ok /\ clean => Backed(q))
    <3>1. run' \in [Key -> 0 .. MaxAttempts] /\ ResultsOK' /\ ResultsSound' /\ CallsOK' /\ CallsSound'
      BY <1>1, <2>6, EndsKeeps
    <3>2. prep'[q][a] = NoPrep
      BY <1>0, <2>1, <2>6 DEF PrepsOK
    <3>3. NoPrep \in PrepRecord
      BY DEF NoPrep, PrepRecord, PrepSteps
    <3>4. prep' \in PrepTable /\ PrepsSound'
      BY <1>0, <1>1, <2>1, <2>6, <3>2, <3>3, NothingPrepared, OnePrep
    <3>5. PrepsOK'
      BY <3>1, <3>4 DEF PrepsOK, PrepTable
    <3> QED
      BY <1>1, <3>1, <3>4, <3>5 DEF PreflightInv, PreflightTypeOK
  <2> QED
    BY <2>2, <2>3, <2>4, <2>5, <2>6
<1>4. CASE CacheExpires(q)
  <2>1. cache' = [cache EXCEPT ![q] = NoResult] /\ UNCHANGED <<call, run, prep>>
    BY <1>4 DEF CacheExpires
  <2>2. ResultsOK'
    BY <1>0, <2>1 DEF ResultsOK, NoResult, ResultRecord
  <2>3. ASSUME NEW r \in Key PROVE ResultSound(r)'
    <3>1. CASE r = q
      BY <1>0, <2>1, <3>1 DEF ResultsOK, ResultSound, NoResult
    <3>2. CASE r # q
      <4>1. cache'[r] = cache[r] /\ ResultSound(r) /\ KeepsFunds(r)
        BY <1>0, <1>1, <2>1, <3>2 DEF ResultsOK, ResultsSound
      <4> QED
        BY <4>1, ResultKept
    <3> QED
      BY <3>1, <3>2
  <2>4. PrepsOK' /\ PrepsSound' /\ CallsOK' /\ CallsSound'
    BY <1>0, <1>1, <2>1, PrepsStay, CallsStay
  <2> QED
    BY <1>1, <2>2, <2>3, <2>4 DEF PreflightInv, PreflightTypeOK, ResultsSound
<1> QED
  BY <1>2, <1>3, <1>4

(* A wallet without an address ends the call. *)
LEMMA MissingStep ==
    ASSUME PreflightInv, NEW k \in Caller, AddressMissing(k)
    PROVE  PreflightInv'
<1>0. /\ WalletsOK /\ PrepsOK /\ ResultsOK /\ CallsOK /\ PrepsSound /\ ResultsSound /\ CallsSound
  BY DEF PreflightInv, PreflightTypeOK
<1>1. call' = [call EXCEPT ![k] = CallOver] /\ UNCHANGED <<token, approved, run, prep, cache>>
  BY DEF AddressMissing
<1>2. \A r \in Key : KeepsFunds(r)
  BY <1>1, AllKept
<1>3. CallSound(k)' /\ CallOver \in CallRecord
  BY <1>0, <1>1, NoCallOver DEF CallSound, CallsOK
<1>4. CallsOK' /\ CallsSound'
  BY <1>0, <1>1, <1>2, <1>3, OneCall
<1>5. PrepsOK' /\ PrepsSound' /\ ResultsOK' /\ ResultsSound' /\ WalletsOK'
  BY <1>0, <1>1, <1>2, PrepsStay, ResultsStay DEF WalletsOK
<1> QED
  BY <1>4, <1>5 DEF PreflightInv, PreflightTypeOK

(* Every step of the preflight keeps the invariant. *)
LEMMA PreflightStep == PreflightInv /\ [PreflightNext]_prepVars => PreflightInv'
<1> SUFFICES ASSUME PreflightInv, [PreflightNext]_prepVars PROVE PreflightInv'
  OBVIOUS
<1>1. CASE UNCHANGED prepVars
  <2>0. /\ WalletsOK /\ PrepsOK /\ ResultsOK /\ CallsOK /\ PrepsSound /\ ResultsSound /\ CallsSound
    BY DEF PreflightInv, PreflightTypeOK
  <2>1. UNCHANGED <<token, approved, call, run, prep, cache>>
    BY <1>1 DEF prepVars
  <2>2. \A r \in Key : KeepsFunds(r)
    BY <2>1, AllKept
  <2>3. PrepsOK' /\ PrepsSound' /\ ResultsOK' /\ ResultsSound' /\ CallsOK' /\ CallsSound' /\ WalletsOK'
    BY <2>0, <2>1, <2>2, PrepsStay, ResultsStay, CallsStay DEF WalletsOK
  <2> QED
    BY <2>3 DEF PreflightInv, PreflightTypeOK
<1>2. CASE \E q \in Key, a \in Attempt :
             \/ PrepareBalance(q, a) \/ PrepareAllowance(q, a) \/ PrepareApprove(q, a)
             \/ PrepareRecheck(q, a) \/ PrepareFails(q, a)
  BY <1>2, PrepareStep, ApproveStep
<1>3. CASE \E k \in Caller :
             \/ \E o \in Offer, lock \in BOOLEAN : Preflight(k, o, lock)
             \/ AddressMissing(k)
             \/ StakesMined(k)
  BY <1>3, CallStep, MissingStep, MinedStep
<1>4. CASE \E q \in Key : AttemptFails(q) \/ AttemptAnswered(q) \/ CacheExpires(q)
  BY <1>4, AttemptStep
<1>5. CASE \/ \E v, w \in Holder, n \in Want : TransferOnchain(v, w, n)
           \/ \E w \in Holder, n \in Want : WithdrawOnchain(w, n) \/ FundOnchain(w, n)
  BY <1>5, OwnersStep
<1> QED
  BY <1>1, <1>2, <1>3, <1>4, <1>5 DEF PreflightNext

(* The invariant holds before the first call. *)
LEMMA PreflightInitially == PreflightInit => PreflightInv
<1> SUFFICES ASSUME PreflightInit PROVE PreflightInv
  OBVIOUS
<1>1. WalletsOK
  BY PreflightAssumption DEF PreflightInit, WalletsOK
<1>2. PrepsOK /\ ResultsOK /\ CallsOK
  <2>1. NoPrep \in PrepRecord /\ NoResult \in ResultRecord
    BY DEF NoPrep, PrepRecord, PrepSteps, NoResult, ResultRecord
  <2> QED
    BY <2>1, NoCallOver, PreflightAssumption DEF PreflightInit, PrepsOK, ResultsOK, CallsOK
<1>3. PrepsSound
  <2>1. ASSUME NEW q \in Key, NEW a \in Attempt PROVE PrepSound(q, a)
    <3>1. prep[q][a] = NoPrep
      BY DEF PreflightInit
    <3> QED
      BY <3>1 DEF PrepSound, PrepOK, NoPrep, AtWallet
  <2> QED
    BY <2>1 DEF PrepsSound
<1>4. ResultsSound
  BY DEF PreflightInit, ResultsSound, ResultSound, NoResult
<1>5. CallsSound
  BY NoCallOver DEF PreflightInit, CallsSound, CallSound
<1> QED
  BY <1>1, <1>2, <1>3, <1>4, <1>5 DEF PreflightInv, PreflightTypeOK

(* A stake that was found good is backed by both wallets, unless one of them *)
(* was touched since.                                                        *)
LEMMA SoundWhenBacked == PreflightInv => PreflightSound
<1> SUFFICES ASSUME PreflightInv PROVE PreflightSound
  OBVIOUS
<1>1. \A w \in Holder : token[w] \in Nat /\ approved[w] \in Nat
  BY DEF PreflightInv, PreflightTypeOK, WalletsOK
<1>2. ASSUME NEW k \in Caller, call[k].stage = "creating", call[k].clean PROVE Covered(k)
  <2>1. Backed(KeyOf(k))
    BY <1>2 DEF PreflightInv, CallsSound, CallSound
  <2> QED
    BY <2>1 DEF Backed, Backs, KeyOf, preflightKey, Covered
<1> QED
  BY <1>1, <1>2 DEF PreflightSound

(* A preflight that says yes can be relied on: unless another stake, another *)
(* preparation or the owner has moved one of the two wallets since, both     *)
(* cover the stake when createBet is mined (prepareWalletsForOnchainEscrow   *)
(* and its retries, its cache and the requests in flight that calls share).  *)
THEOREM PreflightCanBeReliedOn == PreflightSpec => []PreflightSound
<1> QED
  BY PreflightInitially, PreflightStep, SoundWhenBacked, PTL DEF PreflightSpec

------------------------------------------------------------------------------
(* Profiles and sessions. *)

Stages == {"idle", "session", "index", "link", "provision", "store", "reconcile", "authorised", "answer"}
Kinds == {"none", "local", "remote", "cookie", "player", "bootstrap", "wallet", "profile"}
RequestRecord ==
    [pc : Stages, kind : Kinds, sub : Subject \cup {"nobody"}, profile : Int, sid : Nat]

(* Every request under way is of somebody, and every session is.             *)
RequestsOK ==
    /\ request \in [Request -> RequestRecord]
    /\ \A v \in Request : request[v].pc # "idle" => request[v].sub \in Subject
SessionsOK ==
    /\ sessionOf \in Seq(Subject)
    /\ sessions \subseteq 1 .. Len(sessionOf)
    /\ sessionsBySub \in [Subject -> SUBSET Nat]
ProfilesOK ==
    /\ profileCounter \in Nat
    /\ subjectLinks \in [Subject -> Nat]
    /\ runtimeDisk \in [profileCounter : Nat, subjectLinks : [Subject -> Nat]]
    /\ identities \in [Subject -> Int]

AccessTypeOK == RequestsOK /\ SessionsOK /\ ProfilesOK

(* A profile is linked to one subject at most, and those that will be made   *)
(* to none.                                                                  *)
LinksDistinct ==
    /\ profileCounter # NoProfile
    /\ \A s \in Subject : subjectLinks[s] < profileCounter
    /\ \A s, t \in Subject : s # t /\ subjectLinks[s] = subjectLinks[t] => subjectLinks[s] = NoProfile

(* A subject is taken for the profile of its link, or for nobody yet.        *)
IdentitiesLinked == \A s \in Subject : identities[s] \in {NoIdentity, NoProfile, subjectLinks[s]}
RequestsLinked ==
    \A v \in Request, s \in Subject : request[v].sub = s => request[v].profile \in {NoProfile, subjectLinks[s]}

Linking == LinksDistinct /\ IdentitiesLinked /\ RequestsLinked

AccessInv == AccessTypeOK /\ (lost \/ Linking)

(* The requests under way after one of them has gone on.                     *)
Others(v) == \A u \in Request \ {v} : request'[u] = request[u]
GoesOn(v, pc, kind, sub, profile, sid) ==
    /\ request' \in [Request -> RequestRecord]
    /\ Others(v)
    /\ request'[v].pc = pc /\ request'[v].kind = kind /\ request'[v].sub = sub
    /\ request'[v].profile = profile /\ request'[v].sid = sid

(* What the steps of a request make of it, field by field. *)
LEMMA RequestGoes ==
    ASSUME RequestsOK, NEW v \in Request
    PROVE  /\ \A pc \in Stages : Goto(v, pc) =>
                 GoesOn(v, pc, request[v].kind, request[v].sub, request[v].profile, request[v].sid)
           /\ \A pc \in Stages, p \in Int : Known(v, p, pc) =>
                 GoesOn(v, pc, request[v].kind, request[v].sub, p, request[v].sid)
           /\ Finish(v) => GoesOn(v, "idle", "none", "nobody", NoProfile, 0)
           /\ \A rec \in RequestRecord : request' = [request EXCEPT ![v] = rec] =>
                 GoesOn(v, rec.pc, rec.kind, rec.sub, rec.profile, rec.sid)
           /\ \A pc \in Stages, kind \in Kinds : request' = [request EXCEPT ![v].kind = kind, ![v].pc = pc] =>
                 GoesOn(v, pc, kind, request[v].sub, request[v].profile, request[v].sid)
           /\ \A pc \in Stages, sid \in Nat : request' = [request EXCEPT ![v].pc = pc, ![v].sid = sid] =>
                 GoesOn(v, pc, request[v].kind, request[v].sub, request[v].profile, sid)
<1>0. request \in [Request -> RequestRecord] /\ request[v] \in RequestRecord
  BY DEF RequestsOK
<1>1. \A pc \in Stages : Goto(v, pc) =>
          GoesOn(v, pc, request[v].kind, request[v].sub, request[v].profile, request[v].sid)
  BY <1>0 DEF Goto, GoesOn, Others, RequestRecord
<1>2. ASSUME NEW pc \in Stages, NEW p \in Int, Known(v, p, pc)
      PROVE  GoesOn(v, pc, request[v].kind, request[v].sub, p, request[v].sid)
  <2>1. [request EXCEPT ![v].pc = pc] \in [Request -> RequestRecord]
    BY <1>0 DEF RequestRecord
  <2> QED
    BY <1>0, <1>2, <2>1 DEF Known, GoesOn, Others, RequestRecord
<1>3. Idle \in RequestRecord
  BY DEF Idle, RequestRecord, Stages, Kinds, NoProfile
<1>4. Finish(v) => GoesOn(v, "idle", "none", "nobody", NoProfile, 0)
  BY <1>0, <1>3 DEF Finish, GoesOn, Others, Idle
<1>5. \A rec \in RequestRecord : request' = [request EXCEPT ![v] = rec] =>
          GoesOn(v, rec.pc, rec.kind, rec.sub, rec.profile, rec.sid)
  BY <1>0 DEF GoesOn, Others
<1>6. ASSUME NEW pc \in Stages, NEW kind \in Kinds, request' = [request EXCEPT ![v].kind = kind, ![v].pc = pc]
      PROVE  GoesOn(v, pc, kind, request[v].sub, request[v].profile, request[v].sid)
  <2>1. [request EXCEPT ![v].kind = kind] \in [Request -> RequestRecord]
    BY <1>0 DEF RequestRecord
  <2> QED
    BY <1>0, <1>6, <2>1 DEF GoesOn, Others, RequestRecord
<1>7. ASSUME NEW pc \in Stages, NEW sid \in Nat, request' = [request EXCEPT ![v].pc = pc, ![v].sid = sid]
      PROVE  GoesOn(v, pc, request[v].kind, request[v].sub, request[v].profile, sid)
  <2>1. [request EXCEPT ![v].pc = pc] \in [Request -> RequestRecord]
    BY <1>0 DEF RequestRecord
  <2> QED
    BY <1>0, <1>7, <2>1 DEF GoesOn, Others, RequestRecord
<1> QED
  BY <1>1, <1>2, <1>4, <1>5, <1>6, <1>7

(* The routes that are passed on, or refused, end their request and change   *)
(* nothing else here; the ways to sign in by a provider are one.             *)
Passes(v) == Finish(v) /\ UNCHANGED <<runtimeVars, identities, sessionVars, subsByProfile, purge, lost>>
RemoteSignIn(v, s) == SignIn(v, s, "link", "remote") /\ UNCHANGED <<identities, subsByProfile>>

StepOf(v) ==
    \/ \E s \in Subject : LocalSignIn(v, s) \/ RemoteSignIn(v, s)
    \/ \E sid \in Sid : Enter(v, sid)
    \/ \E up \in BOOLEAN :
         Reconcile(v, up) \/ LookUp(v, up) \/ Provision(v, up) \/ AnswerPlayer(v, up) \/ AnswerBootstrap(v, up)
    \/ Passes(v)
    \/ \E kind \in {"player", "bootstrap", "wallet"} : Ask(v, kind)
    \/ UpdateProfile(v) \/ ProxyCreateProfile(v) \/ Store(v) \/ OpenSession(v) \/ IndexSession(v)
    \/ \E p \in Profile : PurgeStart(v, p)
StepOfNone ==
    \/ \E sid \in Sid : LogOut(sid) \/ SessionExpires(sid) \/ PurgeSession(sid)
    \/ \E s \in Subject : IdentityExpires(s) \/ PurgeSub(s)
    \/ PurgeEnd \/ SaveRuntime \/ RestartRuntime

(* A step is that of one request or of none. *)
LEMMA AccessCases ==
    ASSUME AccessNext
    PROVE  (\E v \in Request : StepOf(v)) \/ StepOfNone
<1>1. ASSUME NEW v \in Request, NEW s \in Subject, LocalSignIn(v, s) \/ EmailSignIn(v, s)
      PROVE  StepOf(v)
  BY <1>1 DEF EmailSignIn, StepOf, RemoteSignIn
<1>2. ASSUME NEW v \in Request, NEW s \in Subject, NEW verified \in BOOLEAN,
             FirebaseSignIn(v, s, verified) \/ GoogleSignIn(v, s, verified)
      PROVE  StepOf(v)
  BY <1>2 DEF FirebaseSignIn, GoogleSignIn, StepOf, RemoteSignIn
<1>3. ASSUME NEW v \in Request, NEW up, ForOwn(v, up) \/ (Administers(v) /\ PassOn(v, up)) PROVE StepOf(v)
  BY <1>3 DEF ForOwn, PassOn, StepOf, Passes
<1>4. ASSUME NEW v \in Request, NEW up,
             \/ FundOwn(v, up) \/ WithdrawOwn(v, up) \/ TransferOwn(v, up) \/ EscrowHistory(v, up)
             \/ Activity(v, up) \/ WalletSummary(v, up) \/ OwnPresence(v, up) \/ ExportKey(v, up)
             \/ ConfigureOwnBot(v, up)
             \/ AdminUsers(v, up) \/ Teleport(v, up) \/ RecentChallenges(v, up) \/ RuntimeProxy(v, up)
      PROVE  StepOf(v)
  BY <1>3, <1>4 DEF FundOwn, WithdrawOwn, TransferOwn, EscrowHistory, Activity, WalletSummary, OwnPresence,
     ExportKey, ConfigureOwnBot, AdminUsers, Teleport, RecentChallenges, RuntimeProxy
<1>5. ASSUME NEW v \in Request, NEW up, NEW auto, PrepareOwn(v, up, auto) PROVE StepOf(v)
  BY <1>3, <1>5 DEF PrepareOwn
<1>6. ASSUME NEW v \in Request, NEW p, NEW up, AdjustsWallet(v, p, up) PROVE StepOf(v)
  BY <1>3, <1>6 DEF AdjustsWallet
<1>7. ASSUME NEW v \in Request, Refuse(v) \/ ProvisionFails(v) PROVE StepOf(v)
  BY <1>7 DEF Refuse, ProvisionFails, StepOf, Passes
<1>8. ASSUME NEW v \in Request, PlayerMe(v) \/ Bootstrap(v) \/ IdentityWallet(v) PROVE StepOf(v)
  BY <1>8 DEF PlayerMe, Bootstrap, IdentityWallet, StepOf
<1>9. ASSUME NEW v \in Request, NEW up \in BOOLEAN,
             Reconcile(v, up) \/ LookUp(v, up) \/ Provision(v, up) \/ AnswerPlayer(v, up) \/ AnswerBootstrap(v, up)
      PROVE  StepOf(v)
  BY <1>9 DEF StepOf
<1>10. ASSUME NEW v \in Request,
              \/ UpdateProfile(v) \/ ProxyCreateProfile(v) \/ Store(v) \/ OpenSession(v) \/ IndexSession(v)
              \/ \E p \in Profile : PurgeStart(v, p)
              \/ \E sid \in Sid : Enter(v, sid)
       PROVE  StepOf(v)
  BY <1>10 DEF StepOf
<1> QED
  BY <1>1, <1>2, <1>4, <1>5, <1>6, <1>7, <1>8, <1>9, <1>10 DEF AccessNext, StepOfNone

(* A request that goes on is one. *)
LEMMA GoesOnOK ==
    ASSUME RequestsOK, NEW v \in Request, NEW pc, NEW kind, NEW sub, NEW profile, NEW sid,
           GoesOn(v, pc, kind, sub, profile, sid), pc = "idle" \/ sub \in Subject
    PROVE  RequestsOK'
BY DEF RequestsOK, GoesOn, Others

(* What becomes of the requests: most routes pass one on, or end it.         *)
LEMMA RequestsStep == AccessTypeOK /\ [AccessNext]_accessVars => RequestsOK'
<1> SUFFICES ASSUME AccessTypeOK, [AccessNext]_accessVars PROVE RequestsOK'
  OBVIOUS
<1>0. RequestsOK /\ SessionsOK /\ ProfilesOK
  BY DEF AccessTypeOK
<1>t. \A v \in Request : request[v].pc \in Stages /\ request[v].kind \in Kinds /\ request[v].sid \in Nat
                         /\ request[v].profile \in Int /\ (request[v].pc # "idle" => request[v].sub \in Subject)
  BY <1>0 DEF RequestsOK, RequestRecord
<1>u. "idle" \in Stages /\ "session" \in Stages /\ "index" \in Stages /\ "link" \in Stages /\ "provision" \in Stages
      /\ "store" \in Stages /\ "reconcile" \in Stages /\ "authorised" \in Stages /\ "answer" \in Stages
  BY DEF Stages
<1>a. ASSUME NEW v \in Request, NEW pc \in Stages, Goto(v, pc), request[v].pc # "idle" PROVE RequestsOK'
  BY <1>0, <1>a, <1>t, RequestGoes, GoesOnOK
<1>b. ASSUME NEW v \in Request, NEW pc \in Stages, NEW p \in Int, Known(v, p, pc), request[v].pc # "idle"
      PROVE  RequestsOK'
  BY <1>0, <1>b, <1>t, RequestGoes, GoesOnOK
<1>c. ASSUME NEW v \in Request, Finish(v) PROVE RequestsOK'
  BY <1>0, <1>c, RequestGoes, GoesOnOK
<1>d. ASSUME NEW v \in Request, NEW pc \in Stages, NEW kind \in Kinds, request[v].pc # "idle",
             request' = [request EXCEPT ![v].kind = kind, ![v].pc = pc]
      PROVE  RequestsOK'
  BY <1>0, <1>d, <1>t, RequestGoes, GoesOnOK
<1>e. ASSUME UNCHANGED request PROVE RequestsOK'
  BY <1>0, <1>e DEF RequestsOK
<1>1. ASSUME NEW v \in Request, NEW s \in Subject, NEW pc \in {"session", "link"}, NEW kind \in {"local", "remote"},
             SignIn(v, s, pc, kind)
      PROVE  RequestsOK'
  <2> DEFINE p == IF identities[s] = NoIdentity THEN NoProfile ELSE identities[s]
  <2>1. p \in Int
    BY <1>0 DEF ProfilesOK, NoProfile
  <2>2. [pc |-> pc, kind |-> kind, sub |-> s, profile |-> p, sid |-> 0] \in RequestRecord
    BY <2>1 DEF RequestRecord, Stages, Kinds
  <2>3. request' = [request EXCEPT ![v] = [pc |-> pc, kind |-> kind, sub |-> s, profile |-> p, sid |-> 0]]
    BY <1>1 DEF SignIn
  <2> QED
    BY <1>0, <2>2, <2>3, RequestGoes, GoesOnOK
<1>2. ASSUME NEW v \in Request, NEW sid \in Sid, Enter(v, sid) PROVE RequestsOK'
  <2>1. sid \in 1 .. Len(sessionOf) /\ sessionOf[sid] \in Subject /\ sid \in Nat
    BY <1>0, <1>2 DEF Enter, SessionsOK
  <2>2. identities[sessionOf[sid]] \in Int
    BY <1>0, <2>1 DEF ProfilesOK
  <2> DEFINE rec == [pc |-> "reconcile", kind |-> "cookie", sub |-> sessionOf[sid],
                     profile |-> identities[sessionOf[sid]], sid |-> sid]
  <2>3. rec \in RequestRecord
    BY <2>1, <2>2 DEF RequestRecord, Stages, Kinds
  <2>4. request' = [request EXCEPT ![v] = rec]
    BY <1>2 DEF Enter
  <2> QED
    BY <1>0, <2>1, <2>3, <2>4, RequestGoes, GoesOnOK
<1>3. ASSUME NEW v \in Request, NEW up \in BOOLEAN, Reconcile(v, up) PROVE RequestsOK'
  <2>1. request[v].pc = "reconcile" /\ request[v].sub \in Subject
    BY <1>3, <1>t DEF Reconcile
  <2>2. subjectLinks[request[v].sub] \in Int
    BY <1>0, <2>1 DEF ProfilesOK
  <2>3. \E p \in Int : Known(v, p, "authorised")
    BY <1>3, <1>t, <2>2 DEF Reconcile
  <2> QED
    BY <1>b, <1>u, <2>1, <2>3
<1>4. ASSUME NEW v \in Request, NEW up \in BOOLEAN, LookUp(v, up) PROVE RequestsOK'
  <2>1. request[v].pc = "link" /\ request[v].sub \in Subject /\ Provisioned(v) \in {"answer", "store"}
    BY <1>4, <1>t DEF LookUp, Provisioned
  <2>2. subjectLinks[request[v].sub] \in Int
    BY <1>0, <2>1 DEF ProfilesOK
  <2>3. \/ Known(v, subjectLinks[request[v].sub], Provisioned(v))
        \/ Goto(v, "provision")
    BY <1>4 DEF LookUp
  <2> QED
    BY <1>a, <1>b, <1>u, <2>1, <2>2, <2>3
<1>5. ASSUME NEW v \in Request, NEW answered \in BOOLEAN, Provision(v, answered) PROVE RequestsOK'
  <2>1. request[v].pc = "provision" /\ request[v].sub \in Subject /\ Provisioned(v) \in {"answer", "store"}
    BY <1>5, <1>t DEF Provision, Provisioned
  <2>2. ProvisionedProfile(request[v].sub) \in Int
    BY <1>0, <2>1 DEF ProfilesOK, ProvisionedProfile
  <2>3. \/ Known(v, ProvisionedProfile(request[v].sub), Provisioned(v))
        \/ Finish(v)
    BY <1>5 DEF Provision
  <2> QED
    BY <1>b, <1>c, <1>u, <2>1, <2>2, <2>3
<1>6. ASSUME NEW v \in Request, Store(v) PROVE RequestsOK'
  <2>1. request[v].pc = "store" /\ (Finish(v) \/ Goto(v, "answer") \/ Goto(v, "session"))
    BY <1>6 DEF Store
  <2> QED
    BY <1>a, <1>c, <1>u, <2>1
<1>7. ASSUME NEW v \in Request, OpenSession(v) PROVE RequestsOK'
  <2>1. Len(sessionOf) + 1 \in Nat
    BY <1>0 DEF SessionsOK
  <2>2. request[v].pc = "session" /\ request' = [request EXCEPT ![v].pc = "index", ![v].sid = Len(sessionOf) + 1]
    BY <1>7 DEF OpenSession
  <2> QED
    BY <1>0, <1>t, <1>u, <2>1, <2>2, RequestGoes, GoesOnOK
<1>8. ASSUME NEW v \in Request, IndexSession(v) PROVE RequestsOK'
  <2>1. request[v].pc = "index" /\ (Goto(v, "link") \/ Finish(v))
    BY <1>8 DEF IndexSession
  <2> QED
    BY <1>a, <1>c, <1>u, <2>1
<1>9. ASSUME NEW v \in Request, NEW kind \in {"player", "bootstrap", "wallet"}, Ask(v, kind) PROVE RequestsOK'
  <2>1. kind \in Kinds
    BY DEF Kinds
  <2>2. /\ request[v].pc # "idle"
        /\ \E pc \in {"link", "answer"} : request' = [request EXCEPT ![v].kind = kind, ![v].pc = pc]
    BY <1>9 DEF Ask
  <2> QED
    BY <1>d, <1>u, <2>1, <2>2
<1>10. ASSUME NEW v \in Request, UpdateProfile(v) PROVE RequestsOK'
  <2>1. "profile" \in Kinds /\ request[v].pc # "idle" /\ request' = [request EXCEPT ![v].kind = "profile", ![v].pc = "store"]
    BY <1>10 DEF UpdateProfile, Kinds
  <2> QED
    BY <1>d, <1>u, <2>1
<1>11. CASE \E v \in Request : Finish(v)
  BY <1>11, <1>c
<1>12. ASSUME NEW v \in Request, NEW s \in Subject, LocalSignIn(v, s) \/ RemoteSignIn(v, s) PROVE RequestsOK'
  BY <1>1, <1>12 DEF LocalSignIn, RemoteSignIn
<1>13. ASSUME NEW v \in Request,
              \/ \E up \in BOOLEAN : AnswerPlayer(v, up) \/ AnswerBootstrap(v, up)
              \/ \E p \in Profile : PurgeStart(v, p)
              \/ Passes(v) \/ ProxyCreateProfile(v)
       PROVE  RequestsOK'
  BY <1>11, <1>13 DEF AnswerPlayer, AnswerBootstrap, PurgeStart, Passes, ProxyCreateProfile
<1>14. CASE StepOfNone
  BY <1>14, <1>e DEF StepOfNone, LogOut, SessionExpires, PurgeSession, IdentityExpires, PurgeSub, PurgeEnd,
     SaveRuntime, RestartRuntime
<1>15. CASE UNCHANGED accessVars
  BY <1>15, <1>e DEF accessVars
<1>16. ASSUME NEW v \in Request, StepOf(v) PROVE RequestsOK'
  BY <1>2, <1>3, <1>4, <1>5, <1>6, <1>7, <1>8, <1>9, <1>10, <1>12, <1>13, <1>16 DEF StepOf
<1> QED
  BY <1>14, <1>15, <1>16, AccessCases

(* What becomes of the sessions and their indexes. *)
LEMMA SessionsStep == AccessTypeOK /\ [AccessNext]_accessVars => SessionsOK'
<1> SUFFICES ASSUME AccessTypeOK, [AccessNext]_accessVars PROVE SessionsOK'
  OBVIOUS
<1>0. RequestsOK /\ SessionsOK
  BY DEF AccessTypeOK
<1>e. ASSUME UNCHANGED sessionVars PROVE SessionsOK'
  BY <1>0, <1>e DEF SessionsOK, sessionVars
<1>f. ASSUME sessionOf' = sessionOf, sessions' \subseteq sessions,
             sessionsBySub' \in [Subject -> SUBSET Nat]
      PROVE  SessionsOK'
  BY <1>0, <1>f DEF SessionsOK
<1>1. ASSUME NEW v \in Request, OpenSession(v) PROVE SessionsOK'
  <2>1. request[v].sub \in Subject
    BY <1>0, <1>1 DEF OpenSession, RequestsOK
  <2>2. /\ sessionOf' = Append(sessionOf, request[v].sub) /\ sessions' = sessions \cup {Len(sessionOf) + 1}
        /\ sessionsBySub' = sessionsBySub
    BY <1>1 DEF OpenSession
  <2>3. sessionOf' \in Seq(Subject) /\ Len(sessionOf') = Len(sessionOf) + 1 /\ Len(sessionOf) \in Nat
    BY <1>0, <2>1, <2>2 DEF SessionsOK
  <2>4. sessions \subseteq 1 .. Len(sessionOf)
    BY <1>0 DEF SessionsOK
  <2>5. ASSUME NEW x \in sessions' PROVE x \in 1 .. Len(sessionOf')
    <3>1. x \in 1 .. Len(sessionOf) \/ x = Len(sessionOf) + 1
      BY <2>2, <2>4, <2>5
    <3> QED
      BY <2>3, <3>1
  <2>8. sessions' \subseteq 1 .. Len(sessionOf')
    BY <2>5
  <2>6. sessionsBySub' \in [Subject -> SUBSET Nat]
    BY <1>0, <2>2 DEF SessionsOK
  <2> QED
    BY <2>3, <2>6, <2>8 DEF SessionsOK
<1>2. ASSUME NEW v \in Request, IndexSession(v) PROVE SessionsOK'
  <2>1. request[v].sub \in Subject /\ request[v].sid \in Nat
    BY <1>0, <1>2 DEF IndexSession, RequestsOK, RequestRecord
  <2> QED
    BY <1>0, <1>2, <1>f, <2>1 DEF IndexSession, SessionsOK
<1>3. ASSUME NEW sid \in Sid, LogOut(sid) \/ SessionExpires(sid) \/ PurgeSession(sid) PROVE SessionsOK'
  BY <1>0, <1>3, <1>f DEF LogOut, SessionExpires, PurgeSession, SessionsOK
<1>4. ASSUME NEW v \in Request, StepOf(v) PROVE SessionsOK'
  BY <1>1, <1>2, <1>4, <1>e DEF StepOf, LocalSignIn, RemoteSignIn, SignIn, Enter, Reconcile, LookUp, Provision,
     AnswerPlayer, AnswerBootstrap, Passes, Ask, UpdateProfile, ProxyCreateProfile, Store, PurgeStart
<1>5. CASE StepOfNone
  BY <1>3, <1>5, <1>e DEF StepOfNone, IdentityExpires, PurgeSub, PurgeEnd, SaveRuntime, RestartRuntime
<1>6. CASE UNCHANGED accessVars
  BY <1>6, <1>e DEF accessVars
<1> QED
  BY <1>4, <1>5, <1>6, AccessCases

(* What becomes of the profiles and the links to them. *)
LEMMA ProfilesStep == AccessTypeOK /\ [AccessNext]_accessVars => ProfilesOK'
<1> SUFFICES ASSUME AccessTypeOK, [AccessNext]_accessVars PROVE ProfilesOK'
  OBVIOUS
<1>0. RequestsOK /\ SessionsOK /\ ProfilesOK
  BY DEF AccessTypeOK
<1>a. ASSUME UNCHANGED runtimeVars, identities' \in [Subject -> Int] PROVE ProfilesOK'
  BY <1>0, <1>a DEF ProfilesOK, runtimeVars
<1>b. ASSUME NEW s, NEW p \in Int, StoreIdentity(s, p) PROVE identities' \in [Subject -> Int]
  BY <1>0, <1>b DEF StoreIdentity, ProfilesOK
<1>t. \A v \in Request : request[v].profile \in Int /\ (request[v].pc # "idle" => request[v].sub \in Subject)
  BY <1>0 DEF RequestsOK, RequestRecord
<1>u. \A s \in Subject : identities[s] \in Int /\ subjectLinks[s] \in Nat /\ subjectLinks[s] \in Int
  BY <1>0 DEF ProfilesOK
<1>v. identities \in [Subject -> Int] /\ NoProfile \in Int
  BY <1>0 DEF ProfilesOK, NoProfile
<1>1. ASSUME NEW v \in Request, NEW s \in Subject, LocalSignIn(v, s) PROVE ProfilesOK'
  <2>1. SignIn(v, s, "session", "local") /\ StoreIdentity(s, request'[v].profile)
    BY <1>1 DEF LocalSignIn
  <2>2. request'[v].profile \in Int
    BY <1>0, <2>1, <1>u, <1>v DEF SignIn, RequestsOK
  <2> QED
    BY <1>a, <1>b, <2>1, <2>2 DEF SignIn
<1>2. ASSUME NEW v \in Request, NEW up \in BOOLEAN, Reconcile(v, up) PROVE ProfilesOK'
  <2>1. request[v].sub \in Subject /\ UNCHANGED runtimeVars
    BY <1>2, <1>t DEF Reconcile
  <2>2. (\E p \in Int : StoreIdentity(request[v].sub, p)) \/ UNCHANGED identities
    BY <1>2, <2>1, <1>t, <1>u DEF Reconcile
  <2> QED
    BY <1>a, <1>b, <1>v, <2>1, <2>2
<1>3. ASSUME NEW v \in Request, NEW answered \in BOOLEAN, Provision(v, answered) PROVE ProfilesOK'
  <2> DEFINE s == request[v].sub
             p == ProvisionedProfile(s)
  <2>1. s \in Subject
    BY <1>3, <1>t DEF Provision
  <2>2. /\ p \in Nat
        /\ profileCounter' = IF p = profileCounter THEN p + 1 ELSE profileCounter
        /\ subjectLinks' = [subjectLinks EXCEPT ![s] = p]
        /\ UNCHANGED <<runtimeDisk, identities>>
    BY <1>0, <1>3, <2>1 DEF Provision, ProvisionedProfile, ProfilesOK
  <2> HIDE DEF s, p
  <2> QED
    BY <1>0, <2>1, <2>2 DEF ProfilesOK
<1>4. ASSUME NEW v \in Request, NEW up \in BOOLEAN, AnswerPlayer(v, up) \/ AnswerBootstrap(v, up)
      PROVE  ProfilesOK'
  <2>1. request[v].sub \in Subject /\ UNCHANGED runtimeVars
    BY <1>4, <1>t DEF AnswerPlayer, AnswerBootstrap
  <2>2. AnsweredProfile(request[v].sub, request[v].profile, up) \in Int
    BY <2>1, <1>t, <1>u, <1>v DEF AnsweredProfile
  <2>3. StoreIdentity(request[v].sub, AnsweredProfile(request[v].sub, request[v].profile, up)) \/ UNCHANGED identities
    BY <1>4 DEF AnswerPlayer, AnswerBootstrap
  <2> QED
    BY <1>a, <1>b, <1>v, <2>1, <2>2, <2>3
<1>5. ASSUME NEW v \in Request, Store(v) PROVE ProfilesOK'
  <2>1. /\ UNCHANGED runtimeVars
        /\ \/ identities' = [identities EXCEPT ![request[v].sub] = request[v].profile]
           \/ StoreIdentity(request[v].sub, request[v].profile)
    BY <1>5 DEF Store
  <2> QED
    BY <1>a, <1>b, <1>t, <1>v, <2>1
<1>6. ASSUME NEW v \in Request, ProxyCreateProfile(v) PROVE ProfilesOK'
  BY <1>0, <1>6 DEF ProxyCreateProfile, ProfilesOK
<1>7. ASSUME NEW s \in Subject, IdentityExpires(s) PROVE ProfilesOK'
  BY <1>7, <1>a, <1>v DEF IdentityExpires, NoIdentity
<1>8. CASE SaveRuntime
  BY <1>0, <1>8 DEF SaveRuntime, RuntimeState, ProfilesOK
<1>9. CASE RestartRuntime
  BY <1>0, <1>9 DEF RestartRuntime, Restart, ProfilesOK
<1>10. CASE UNCHANGED <<runtimeVars, identities>>
  BY <1>10, <1>a, <1>v
<1>11. ASSUME NEW v \in Request, StepOf(v) PROVE ProfilesOK'
  BY <1>1, <1>2, <1>3, <1>4, <1>5, <1>6, <1>10, <1>11 DEF StepOf, RemoteSignIn, SignIn, Enter, LookUp, Passes, Ask,
     UpdateProfile, OpenSession, IndexSession, PurgeStart
<1>12. CASE StepOfNone
  BY <1>7, <1>8, <1>9, <1>10, <1>12 DEF StepOfNone, LogOut, SessionExpires, PurgeSession, PurgeSub, PurgeEnd
<1>13. CASE UNCHANGED accessVars
  BY <1>13, <1>10 DEF accessVars
<1> QED
  BY <1>11, <1>12, <1>13, AccessCases

(* A request that goes on with the profile of its subject, or with none, is  *)
(* linked as long as the links stay.                                         *)
LEMMA GoesOnLinked ==
    ASSUME RequestsLinked, UNCHANGED subjectLinks,
           NEW v \in Request, NEW pc, NEW kind, NEW sub, NEW profile, NEW sid,
           GoesOn(v, pc, kind, sub, profile, sid),
           \A s \in Subject : sub = s => profile \in {NoProfile, subjectLinks[s]}
    PROVE  RequestsLinked'
<1>1. ASSUME NEW u \in Request, NEW s \in Subject, request'[u].sub = s
      PROVE  request'[u].profile \in {NoProfile, subjectLinks'[s]}
  <2>1. CASE u = v
    BY <1>1, <2>1 DEF GoesOn
  <2>2. CASE u # v
    BY <1>1, <2>2 DEF GoesOn, Others, RequestsLinked
  <2> QED
    BY <2>1, <2>2
<1> QED
  BY <1>1 DEF RequestsLinked

(* The profiles, the links and the identities after a step: the links stay,  *)
(* or one subject that had none is given the next profile.                   *)
LEMMA LinkingStep == AccessTypeOK /\ Linking /\ [AccessNext]_accessVars => lost' \/ Linking'
<1> SUFFICES ASSUME AccessTypeOK, Linking, [AccessNext]_accessVars, ~lost' PROVE Linking'
  OBVIOUS
<1>0. RequestsOK /\ SessionsOK /\ ProfilesOK /\ LinksDistinct /\ IdentitiesLinked /\ RequestsLinked
  BY DEF AccessTypeOK, Linking
<1>t. \A v \in Request : /\ request[v].kind \in Kinds /\ request[v].sid \in Nat /\ request[v].profile \in Int
                         /\ request[v].pc # "idle" =>
                              request[v].sub \in Subject /\ request[v].profile \in {NoProfile, subjectLinks[request[v].sub]}
  BY <1>0 DEF RequestsOK, RequestsLinked, RequestRecord
<1>s. \A v \in Request, s \in Subject : request[v].sub = s => request[v].profile \in {NoProfile, subjectLinks[s]}
  BY <1>0 DEF RequestsLinked
<1>i. \A s \in Subject : /\ identities[s] \in {NoIdentity, NoProfile, subjectLinks[s]} /\ subjectLinks[s] \in Int
                         /\ identities[s] \in Int
  BY <1>0 DEF IdentitiesLinked, ProfilesOK
<1>u. /\ "idle" \in Stages /\ "session" \in Stages /\ "index" \in Stages /\ "link" \in Stages
      /\ "provision" \in Stages /\ "store" \in Stages /\ "authorised" \in Stages /\ "answer" \in Stages
      /\ NoProfile \in Int
  BY DEF Stages, NoProfile
<1>a. ASSUME NEW v \in Request, NEW pc \in Stages, Goto(v, pc), UNCHANGED subjectLinks PROVE RequestsLinked'
  BY <1>0, <1>a, <1>s, RequestGoes, GoesOnLinked
<1>b. ASSUME NEW v \in Request, NEW pc \in Stages, NEW p \in Int, Known(v, p, pc), UNCHANGED subjectLinks,
             \A s \in Subject : request[v].sub = s => p \in {NoProfile, subjectLinks[s]}
      PROVE  RequestsLinked'
  BY <1>0, <1>b, RequestGoes, GoesOnLinked
<1>c. ASSUME NEW v \in Request, Finish(v), UNCHANGED subjectLinks PROVE RequestsLinked'
  BY <1>0, <1>c, RequestGoes, GoesOnLinked
<1>d. ASSUME NEW v \in Request, NEW pc \in Stages, NEW kind \in Kinds, UNCHANGED subjectLinks,
             request' = [request EXCEPT ![v].kind = kind, ![v].pc = pc]
      PROVE  RequestsLinked'
  <2>1. GoesOn(v, pc, kind, request[v].sub, request[v].profile, request[v].sid)
    BY <1>0, <1>d, RequestGoes
  <2> QED
    BY <1>0, <1>d, <1>s, <2>1, GoesOnLinked
<1>e. ASSUME UNCHANGED <<request, subjectLinks>> PROVE RequestsLinked'
  BY <1>0, <1>e DEF RequestsLinked
<1>f. ASSUME UNCHANGED subjectLinks, profileCounter' \in {profileCounter, profileCounter + 1} PROVE LinksDistinct'
  <2>1. profileCounter \in Nat /\ profileCounter # 0 /\ \A s \in Subject : subjectLinks[s] \in Nat /\ subjectLinks[s] < profileCounter
    BY <1>0 DEF LinksDistinct, ProfilesOK, NoProfile
  <2>2. profileCounter' # NoProfile /\ \A s \in Subject : subjectLinks'[s] < profileCounter'
    BY <1>f, <2>1 DEF NoProfile
  <2> QED
    BY <1>0, <1>f, <2>2 DEF LinksDistinct
<1>g. ASSUME UNCHANGED <<identities, subjectLinks>> PROVE IdentitiesLinked'
  BY <1>0, <1>g DEF IdentitiesLinked
<1>h. ASSUME UNCHANGED subjectLinks, NEW s, NEW p, identities' = [identities EXCEPT ![s] = p],
             s \in Subject => p \in {NoIdentity, NoProfile, subjectLinks[s]}
      PROVE  IdentitiesLinked'
  BY <1>0, <1>h DEF IdentitiesLinked, ProfilesOK
<1>1. ASSUME NEW v \in Request, NEW s \in Subject, NEW pc \in {"session", "link"}, NEW kind \in {"local", "remote"},
             SignIn(v, s, pc, kind)
      PROVE  RequestsLinked' /\ request'[v].profile \in {NoProfile, subjectLinks[s]}
  <2> DEFINE p == IF identities[s] = NoIdentity THEN NoProfile ELSE identities[s]
             rec == [pc |-> pc, kind |-> kind, sub |-> s, profile |-> p, sid |-> 0]
  <2>1. p \in Int /\ p \in {NoProfile, subjectLinks[s]}
    BY <1>i, <1>u
  <2>2. rec \in RequestRecord
    BY <2>1 DEF RequestRecord, Stages, Kinds
  <2>3. request' = [request EXCEPT ![v] = rec] /\ UNCHANGED subjectLinks
    BY <1>1 DEF SignIn, runtimeVars
  <2>4. GoesOn(v, pc, kind, s, p, 0)
    BY <1>0, <2>2, <2>3, RequestGoes
  <2>5. RequestsLinked'
    BY <1>0, <2>1, <2>3, <2>4, GoesOnLinked
  <2> QED
    BY <2>1, <2>4, <2>5 DEF GoesOn
<1>2. ASSUME NEW v \in Request, NEW s \in Subject, LocalSignIn(v, s) PROVE Linking'
  <2>1. SignIn(v, s, "session", "local") /\ StoreIdentity(s, request'[v].profile) /\ UNCHANGED runtimeVars
    BY <1>2 DEF LocalSignIn, SignIn
  <2>2. RequestsLinked' /\ IdentitiesLinked'
    BY <1>1, <1>h, <2>1 DEF StoreIdentity, runtimeVars
  <2> QED
    BY <1>f, <2>1, <2>2 DEF Linking, runtimeVars
<1>3. ASSUME NEW v \in Request, NEW s \in Subject, RemoteSignIn(v, s) PROVE Linking'
  <2>1. SignIn(v, s, "link", "remote") /\ UNCHANGED <<identities, runtimeVars>>
    BY <1>3 DEF RemoteSignIn, SignIn
  <2> QED
    BY <1>1, <1>f, <1>g, <2>1 DEF Linking, runtimeVars
<1>4. ASSUME NEW v \in Request, NEW sid \in Sid, Enter(v, sid) PROVE Linking'
  <2>1. sid \in 1 .. Len(sessionOf) /\ sessionOf[sid] \in Subject /\ sid \in Nat
    BY <1>0, <1>4 DEF Enter, SessionsOK
  <2> DEFINE s == sessionOf[sid]
             rec == [pc |-> "reconcile", kind |-> "cookie", sub |-> s, profile |-> identities[s], sid |-> sid]
  <2>2. identities[s] \in Int /\ identities[s] \in {NoProfile, subjectLinks[s]}
    BY <1>4, <1>i, <2>1 DEF Enter
  <2>3. rec \in RequestRecord
    BY <2>1, <2>2 DEF RequestRecord, Stages, Kinds
  <2>4. request' = [request EXCEPT ![v] = rec] /\ UNCHANGED <<runtimeVars, identities>>
    BY <1>4 DEF Enter
  <2>5. GoesOn(v, "reconcile", "cookie", s, identities[s], sid)
    BY <1>0, <2>3, <2>4, RequestGoes
  <2>6. RequestsLinked'
    BY <1>0, <2>2, <2>4, <2>5, GoesOnLinked DEF runtimeVars
  <2> QED
    BY <1>f, <1>g, <2>4, <2>6 DEF Linking, runtimeVars
<1>5. ASSUME NEW v \in Request, NEW up \in BOOLEAN, Reconcile(v, up) PROVE Linking'
  <2> DEFINE s == request[v].sub
             p == IF up /\ Linked(s) THEN subjectLinks[s] ELSE request[v].profile
  <2>1. s \in Subject /\ UNCHANGED runtimeVars
    BY <1>5, <1>t DEF Reconcile
  <2>2. p \in Int /\ p \in {NoProfile, subjectLinks[s]}
    BY <1>5, <1>i, <1>t, <2>1 DEF Reconcile
  <2>3. Known(v, p, "authorised") /\ (StoreIdentity(s, p) \/ UNCHANGED identities)
    BY <1>5 DEF Reconcile
  <2> HIDE DEF p
  <2>4. RequestsLinked'
    BY <1>b, <1>u, <2>1, <2>2, <2>3 DEF runtimeVars
  <2>5. IdentitiesLinked'
    BY <1>g, <1>h, <2>1, <2>2, <2>3 DEF StoreIdentity, runtimeVars
  <2> QED
    BY <1>f, <2>1, <2>4, <2>5 DEF Linking, runtimeVars
<1>6. ASSUME NEW v \in Request, NEW up \in BOOLEAN, LookUp(v, up) PROVE Linking'
  <2>1. request[v].sub \in Subject /\ Provisioned(v) \in {"answer", "store"} /\ UNCHANGED <<runtimeVars, identities>>
    BY <1>6, <1>t DEF LookUp, Provisioned
  <2>2. Known(v, subjectLinks[request[v].sub], Provisioned(v)) \/ Goto(v, "provision")
    BY <1>6 DEF LookUp
  <2>3. RequestsLinked'
    BY <1>a, <1>b, <1>i, <1>u, <2>1, <2>2 DEF runtimeVars
  <2> QED
    BY <1>f, <1>g, <2>1, <2>3 DEF Linking, runtimeVars
<1>7. ASSUME NEW v \in Request, NEW answered \in BOOLEAN, Provision(v, answered) PROVE Linking'
  <2> DEFINE s == request[v].sub
             p == ProvisionedProfile(s)
  <2>1. s \in Subject /\ Provisioned(v) \in {"answer", "store"} /\ UNCHANGED identities
    BY <1>7, <1>t DEF Provision, Provisioned
  <2>2. /\ p \in Int /\ p = IF subjectLinks[s] = NoProfile THEN profileCounter ELSE subjectLinks[s]
        /\ profileCounter' = IF p = profileCounter THEN p + 1 ELSE profileCounter
        /\ subjectLinks' = [subjectLinks EXCEPT ![s] = p]
        /\ Known(v, p, Provisioned(v)) \/ Finish(v)
    BY <1>0, <1>7, <2>1 DEF Provision, ProvisionedProfile, Linked, ProfilesOK
  <2>3. /\ Others(v)
        /\ request'[v].profile = NoProfile \/ (request'[v].profile = p /\ request'[v].sub = s)
    <3> HIDE DEF p
    <3>1. CASE Known(v, p, Provisioned(v))
      <4>1. GoesOn(v, Provisioned(v), request[v].kind, s, p, request[v].sid)
        BY <1>0, <1>u, <2>1, <2>2, <3>1, RequestGoes
      <4> QED
        BY <4>1 DEF GoesOn
    <3>2. CASE Finish(v)
      <4>1. GoesOn(v, "idle", "none", "nobody", NoProfile, 0)
        BY <1>0, <3>2, RequestGoes
      <4> QED
        BY <4>1 DEF GoesOn
    <3> QED
      BY <2>2, <3>1, <3>2
  <2> HIDE DEF p
  <2>4. subjectLinks'[s] = p /\ \A t \in Subject \ {s} : subjectLinks'[t] = subjectLinks[t]
    BY <1>0, <2>1, <2>2 DEF ProfilesOK
  <2>5. RequestsLinked'
    <3>1. ASSUME NEW u \in Request, NEW t \in Subject, request'[u].sub = t
          PROVE  request'[u].profile \in {NoProfile, subjectLinks'[t]}
      <4>1. CASE u = v
        BY <2>3, <2>4, <3>1, <4>1
      <4>2. CASE u # v
        <5>1. request'[u] = request[u]
          BY <2>3, <4>2 DEF Others
        <5>2. request[u].profile \in {NoProfile, subjectLinks[t]}
          BY <1>0, <3>1, <5>1 DEF RequestsLinked
        <5> QED
          BY <2>1, <2>2, <2>4, <5>1, <5>2
      <4> QED
        BY <4>1, <4>2
    <3> QED
      BY <3>1 DEF RequestsLinked
  <2>6. IdentitiesLinked'
    BY <1>0, <2>1, <2>2, <2>4 DEF IdentitiesLinked
  <2>7. LinksDistinct'
    <3>1. /\ profileCounter \in Nat /\ profileCounter # 0 /\ \A t \in Subject : subjectLinks[t] \in Nat /\ subjectLinks[t] < profileCounter
      BY <1>0 DEF LinksDistinct, ProfilesOK, NoProfile
    <3>2. profileCounter' # NoProfile /\ \A t \in Subject : subjectLinks'[t] < profileCounter'
      BY <2>1, <2>2, <2>4, <3>1 DEF NoProfile
    <3>3. ASSUME NEW t \in Subject, NEW o \in Subject, t # o, subjectLinks'[t] = subjectLinks'[o]
          PROVE  subjectLinks'[t] = NoProfile
      <4>1. CASE p = subjectLinks[s]
        BY <1>0, <2>4, <3>3, <4>1 DEF LinksDistinct
      <4>2. CASE p = profileCounter
        BY <1>0, <2>4, <3>1, <3>3, <4>2 DEF LinksDistinct
      <4> QED
        BY <2>2, <4>1, <4>2
    <3> QED
      BY <3>2, <3>3 DEF LinksDistinct
  <2> QED
    BY <2>5, <2>6, <2>7 DEF Linking
<1>8. ASSUME NEW v \in Request, NEW up \in BOOLEAN, AnswerPlayer(v, up) \/ AnswerBootstrap(v, up)
      PROVE  Linking'
  <2> DEFINE p == AnsweredProfile(request[v].sub, request[v].profile, up)
  <2>1. request[v].sub \in Subject /\ UNCHANGED runtimeVars /\ Finish(v)
    BY <1>8, <1>t DEF AnswerPlayer, AnswerBootstrap
  <2>2. p \in {NoProfile, subjectLinks[request[v].sub]}
    BY <1>8, <1>t, <2>1 DEF AnsweredProfile, AnswerPlayer, AnswerBootstrap
  <2>3. StoreIdentity(request[v].sub, p) \/ UNCHANGED identities
    BY <1>8 DEF AnswerPlayer, AnswerBootstrap
  <2> HIDE DEF p
  <2> QED
    BY <1>c, <1>f, <1>g, <1>h, <2>1, <2>2, <2>3 DEF Linking, StoreIdentity, runtimeVars
<1>9. ASSUME NEW v \in Request, Store(v) PROVE Linking'
  <2>1. /\ request[v].sub \in Subject /\ UNCHANGED runtimeVars
        /\ request[v].profile \in {NoProfile, subjectLinks[request[v].sub]}
    BY <1>9, <1>t DEF Store
  <2>2. /\ identities' = [identities EXCEPT ![request[v].sub] = request[v].profile]
        /\ Finish(v) \/ Goto(v, "answer") \/ Goto(v, "session")
    BY <1>9 DEF Store, StoreIdentity
  <2> QED
    BY <1>a, <1>c, <1>f, <1>h, <1>u, <2>1, <2>2 DEF Linking, runtimeVars
<1>10. ASSUME NEW v \in Request, OpenSession(v) PROVE Linking'
  <2>1. Len(sessionOf) + 1 \in Nat /\ UNCHANGED <<runtimeVars, identities>>
    BY <1>0, <1>10 DEF OpenSession, SessionsOK
  <2>2. request' = [request EXCEPT ![v].pc = "index", ![v].sid = Len(sessionOf) + 1]
    BY <1>10 DEF OpenSession
  <2>3. GoesOn(v, "index", request[v].kind, request[v].sub, request[v].profile, Len(sessionOf) + 1)
    BY <1>0, <1>u, <2>1, <2>2, RequestGoes
  <2>4. RequestsLinked'
    BY <1>0, <1>s, <2>1, <2>3, GoesOnLinked DEF runtimeVars
  <2> QED
    BY <1>f, <1>g, <2>1, <2>4 DEF Linking, runtimeVars
<1>11. ASSUME NEW v \in Request, IndexSession(v) PROVE Linking'
  <2>1. (Goto(v, "link") \/ Finish(v)) /\ UNCHANGED <<runtimeVars, identities>>
    BY <1>11 DEF IndexSession
  <2> QED
    BY <1>a, <1>c, <1>f, <1>g, <1>u, <2>1 DEF Linking, runtimeVars
<1>12. ASSUME NEW v \in Request, NEW kind \in {"player", "bootstrap", "wallet"}, Ask(v, kind) PROVE Linking'
  <2>1. kind \in Kinds /\ UNCHANGED <<runtimeVars, identities>>
    BY <1>12 DEF Kinds, Ask
  <2>2. \E pc \in {"link", "answer"} : request' = [request EXCEPT ![v].kind = kind, ![v].pc = pc]
    BY <1>12 DEF Ask
  <2> QED
    BY <1>d, <1>f, <1>g, <1>u, <2>1, <2>2 DEF Linking, runtimeVars
<1>13. ASSUME NEW v \in Request, UpdateProfile(v) PROVE Linking'
  <2>1. /\ "profile" \in Kinds /\ UNCHANGED <<runtimeVars, identities>>
        /\ request' = [request EXCEPT ![v].kind = "profile", ![v].pc = "store"]
    BY <1>13 DEF UpdateProfile, Kinds
  <2> QED
    BY <1>d, <1>f, <1>g, <1>u, <2>1 DEF Linking, runtimeVars
<1>14. ASSUME NEW v \in Request, Passes(v) \/ ProxyCreateProfile(v) \/ \E p \in Profile : PurgeStart(v, p)
       PROVE  Linking'
  <2>1. /\ Finish(v) /\ UNCHANGED <<identities, subjectLinks>>
        /\ profileCounter' \in {profileCounter, profileCounter + 1}
    BY <1>14 DEF Passes, ProxyCreateProfile, PurgeStart, runtimeVars
  <2> QED
    BY <1>c, <1>f, <1>g, <2>1 DEF Linking
<1>15. ASSUME NEW s \in Subject, IdentityExpires(s) PROVE Linking'
  <2>1. UNCHANGED <<runtimeVars, request>> /\ identities' = [identities EXCEPT ![s] = NoIdentity]
    BY <1>15 DEF IdentityExpires
  <2> QED
    BY <1>e, <1>f, <1>h, <2>1 DEF Linking, runtimeVars
<1>16. ASSUME UNCHANGED <<profileCounter, subjectLinks, identities, request>> PROVE Linking'
  BY <1>e, <1>f, <1>g, <1>16 DEF Linking
<1>17. CASE RestartRuntime
  <2>1. runtimeDisk = RuntimeState /\ UNCHANGED <<identities, request>>
    BY <1>17 DEF RestartRuntime
  <2>2. RuntimeState.profileCounter = profileCounter /\ RuntimeState.subjectLinks = subjectLinks
    BY DEF RuntimeState
  <2>3. profileCounter' = runtimeDisk.profileCounter /\ subjectLinks' = runtimeDisk.subjectLinks
    BY <1>17 DEF RestartRuntime, Restart
  <2> QED
    BY <1>16, <2>1, <2>2, <2>3
<1>18. CASE StepOfNone
  BY <1>15, <1>16, <1>17, <1>18 DEF StepOfNone, LogOut, SessionExpires, PurgeSession, PurgeSub, PurgeEnd, SaveRuntime,
     runtimeVars
<1>19. CASE UNCHANGED accessVars
  BY <1>16, <1>19 DEF accessVars, runtimeVars
<1>20. ASSUME NEW v \in Request, StepOf(v) PROVE Linking'
  BY <1>2, <1>3, <1>4, <1>5, <1>6, <1>7, <1>8, <1>9, <1>10, <1>11, <1>12, <1>13, <1>14, <1>20 DEF StepOf
<1> QED
  BY <1>18, <1>19, <1>20, AccessCases

(* A profile that is lost stays lost.                                        *)
LEMMA LostForGood == [AccessNext]_accessVars => (lost => lost')
<1> SUFFICES ASSUME [AccessNext]_accessVars, lost PROVE lost'
  OBVIOUS
<1>1. ASSUME NEW v \in Request, StepOf(v) PROVE lost'
  BY <1>1 DEF StepOf, LocalSignIn, RemoteSignIn, SignIn, Enter, Reconcile, LookUp, Provision, AnswerPlayer,
     AnswerBootstrap, Passes, Ask, UpdateProfile, ProxyCreateProfile, Store, OpenSession, IndexSession, PurgeStart
<1>2. CASE StepOfNone
  BY <1>2 DEF StepOfNone, LogOut, SessionExpires, PurgeSession, IdentityExpires, PurgeSub, PurgeEnd, SaveRuntime,
     RestartRuntime
<1>3. CASE UNCHANGED accessVars
  BY <1>3 DEF accessVars
<1> QED
  BY <1>1, <1>2, <1>3, AccessCases

(* The invariant holds before anybody signs in. *)
LEMMA AccessInitially == AccessInit => AccessInv
<1> SUFFICES ASSUME AccessInit PROVE AccessInv
  OBVIOUS
<1>1. Idle \in RequestRecord /\ Idle.pc = "idle" /\ Idle.profile = NoProfile
  BY DEF Idle, RequestRecord, Stages, Kinds, NoProfile
<1>2. RequestsOK /\ RequestsLinked
  BY <1>1 DEF AccessInit, RequestsOK, RequestsLinked
<1>3. SessionsOK
  BY DEF AccessInit, SessionsOK
<1>4. ProfilesOK
  BY DEF AccessInit, ProfilesOK, RuntimeState, NoProfile, NoIdentity
<1>5. LinksDistinct /\ IdentitiesLinked
  BY DEF AccessInit, LinksDistinct, IdentitiesLinked, NoProfile
<1> QED
  BY <1>2, <1>3, <1>4, <1>5 DEF AccessInv, AccessTypeOK, Linking

(* Every step keeps the invariant. *)
LEMMA AccessStep == AccessInv /\ [AccessNext]_accessVars => AccessInv'
<1> SUFFICES ASSUME AccessInv, [AccessNext]_accessVars PROVE AccessInv'
  OBVIOUS
<1>1. AccessTypeOK'
  BY RequestsStep, SessionsStep, ProfilesStep DEF AccessInv, AccessTypeOK
<1>2. CASE lost
  BY <1>1, <1>2, LostForGood DEF AccessInv
<1>3. CASE Linking
  BY <1>1, <1>3, LinkingStep DEF AccessInv
<1> QED
  BY <1>2, <1>3 DEF AccessInv

(* The links of the runtime being distinct, those of the identities are. *)
LEMMA OneProfile == AccessInv => OneProfileEach
<1> SUFFICES ASSUME AccessInv, ~lost PROVE NoSharedProfile /\ \A s \in Subject : TakenFor(s) \subseteq {subjectLinks[s]}
  BY DEF OneProfileEach
<1>0. LinksDistinct /\ IdentitiesLinked /\ RequestsLinked
  BY DEF AccessInv, Linking
<1>1. ASSUME NEW s \in Subject, NEW p \in TakenFor(s) PROVE p = subjectLinks[s] /\ p # NoProfile
  BY <1>0, <1>1 DEF TakenFor, IdentitiesLinked, RequestsLinked
<1>2. NoSharedProfile
  BY <1>0, <1>1 DEF NoSharedProfile, LinksDistinct
<1> QED
  BY <1>1, <1>2

(* No profile is that of two people, and nobody has an identity with one     *)
(* profile and a link with another, unless a crash of the runtime has lost a *)
(* profile it had answered with (sign-in of the web server and the profiles  *)
(* of the runtime).                                                          *)
THEOREM EverybodyHasOneProfile == AccessSpec => []OneProfileEach
<1>1. AccessInv /\ [AccessNext]_accessVars => AccessInv'
  BY AccessStep
<1> QED
  BY <1>1, AccessInitially, OneProfile, PTL DEF AccessSpec

(* The subjects of a profile, as the index of the web servers has them.      *)
SubsOK == subsByProfile \in [Profile -> SUBSET Subject]

(* The sessions a purge found when it began and that are open still are      *)
(* among those it has read, or in the index of a subject it has yet to read. *)
PurgeRecord == [subs : SUBSET Subject, sids : SUBSET Nat, before : SUBSET Nat]
BeforeNow == \A sid \in purge.before : sid \in 1 .. Len(sessionOf)
ToBePurged ==
    \A sid \in purge.before \cap sessions :
        sid \in purge.sids \/ \E s \in purge.subs : sid \in sessionsBySub[s]
Purging == purge \in PurgeRecord /\ BeforeNow /\ ToBePurged

PurgeInv == AccessTypeOK /\ SubsOK /\ Purging

(* The index of subjects by profile is one. *)
LEMMA SubsStep == AccessTypeOK /\ SubsOK /\ [AccessNext]_accessVars => SubsOK'
<1> SUFFICES ASSUME AccessTypeOK, SubsOK, [AccessNext]_accessVars PROVE SubsOK'
  OBVIOUS
<1>0. RequestsOK
  BY DEF AccessTypeOK
<1>t. \A v \in Request : request[v].pc # "idle" => request[v].sub \in Subject
  BY <1>0 DEF RequestsOK
<1>a. ASSUME UNCHANGED subsByProfile PROVE SubsOK'
  BY <1>a DEF SubsOK
<1>b. ASSUME NEW s \in Subject, NEW p, StoreIdentity(s, p) PROVE SubsOK'
  BY <1>b DEF StoreIdentity, SubsOK
<1>1. ASSUME NEW v \in Request, NEW s \in Subject, LocalSignIn(v, s) PROVE SubsOK'
  BY <1>1, <1>b DEF LocalSignIn
<1>2. ASSUME NEW v \in Request, NEW up \in BOOLEAN,
             Reconcile(v, up) \/ AnswerPlayer(v, up) \/ AnswerBootstrap(v, up)
      PROVE  SubsOK'
  BY <1>2, <1>a, <1>b, <1>t DEF Reconcile, AnswerPlayer, AnswerBootstrap
<1>3. ASSUME NEW v \in Request, Store(v) PROVE SubsOK'
  BY <1>3, <1>a, <1>b, <1>t DEF Store
<1>4. ASSUME NEW v \in Request, StepOf(v) PROVE SubsOK'
  BY <1>1, <1>2, <1>3, <1>4, <1>a DEF StepOf, RemoteSignIn, Enter, LookUp, Provision, Passes, Ask, UpdateProfile,
     ProxyCreateProfile, OpenSession, IndexSession, PurgeStart
<1>5. CASE StepOfNone
  BY <1>5, <1>a DEF StepOfNone, LogOut, SessionExpires, PurgeSession, IdentityExpires, PurgeSub, PurgeEnd, SaveRuntime,
     RestartRuntime
<1>6. CASE UNCHANGED accessVars
  BY <1>6, <1>a DEF accessVars
<1> QED
  BY <1>4, <1>5, <1>6, AccessCases

(* Sessions that are opened, indexed or closed while a purge goes on.        *)
LEMMA PurgeGoesOn ==
    ASSUME Purging, UNCHANGED purge, BeforeNow',
           \A sid \in purge.before : sid \in sessions' => sid \in sessions,
           \A sid \in purge.before, s \in Subject :
                sid \in sessions' /\ sid \in sessionsBySub[s] => sid \in sessionsBySub'[s]
    PROVE  Purging'
<1>1. purge' \in PurgeRecord /\ purge.subs \subseteq Subject
  BY DEF Purging, PurgeRecord
<1>2. ASSUME NEW sid \in purge.before, sid \in sessions'
      PROVE  sid \in purge.sids \/ \E s \in purge.subs : sid \in sessionsBySub'[s]
  <2>1. sid \in purge.sids \/ \E s \in purge.subs : sid \in sessionsBySub[s]
    BY <1>2 DEF Purging, ToBePurged
  <2> QED
    BY <1>1, <1>2, <2>1
<1>3. ToBePurged'
  BY <1>2 DEF ToBePurged
<1> QED
  BY <1>1, <1>3 DEF Purging

(* A purge has closed, or has yet to look at, every session that was open    *)
(* when it began.                                                            *)
LEMMA PurgeStep == PurgeInv /\ [AccessNext]_accessVars => Purging'
<1> SUFFICES ASSUME PurgeInv, [AccessNext]_accessVars PROVE Purging'
  OBVIOUS
<1>0. /\ RequestsOK /\ SessionsOK /\ SubsOK /\ Purging
      /\ purge \in PurgeRecord /\ BeforeNow /\ ToBePurged /\ sessionsBySub \in [Subject -> SUBSET Nat]
  BY DEF PurgeInv, AccessTypeOK, Purging, SessionsOK
<1>a. ASSUME UNCHANGED <<sessionOf, purge>> PROVE BeforeNow'
  BY <1>0, <1>a DEF BeforeNow
<1>b. ASSUME UNCHANGED <<sessionVars, purge>> PROVE Purging'
  BY <1>0, <1>a, <1>b, PurgeGoesOn DEF sessionVars
<1>1. ASSUME NEW v \in Request, OpenSession(v) PROVE Purging'
  <2>1. request[v].sub \in Subject /\ sessionOf \in Seq(Subject)
    BY <1>0, <1>1 DEF OpenSession, RequestsOK, SessionsOK
  <2>2. /\ sessionOf' = Append(sessionOf, request[v].sub) /\ sessions' = sessions \cup {Len(sessionOf) + 1}
        /\ UNCHANGED <<sessionsBySub, purge>>
    BY <1>1 DEF OpenSession
  <2>3. Len(sessionOf') = Len(sessionOf) + 1 /\ Len(sessionOf) \in Nat
    BY <2>1, <2>2
  <2>4. ASSUME NEW sid \in purge.before
        PROVE  sid \in 1 .. Len(sessionOf') /\ sid # Len(sessionOf) + 1
    <3>1. sid \in 1 .. Len(sessionOf)
      BY <1>0, <2>4 DEF BeforeNow
    <3> QED
      BY <2>3, <3>1
  <2>5. BeforeNow'
    BY <2>2, <2>4 DEF BeforeNow
  <2> QED
    BY <1>0, <2>2, <2>4, <2>5, PurgeGoesOn
<1>2. ASSUME NEW v \in Request, IndexSession(v) PROVE Purging'
  <2>1. /\ sessionsBySub' = [sessionsBySub EXCEPT ![request[v].sub] = @ \cup {request[v].sid}]
        /\ UNCHANGED <<sessions, sessionOf, purge>>
    BY <1>2 DEF IndexSession
  <2>2. \A s \in Subject : sessionsBySub[s] \subseteq sessionsBySub'[s]
    BY <1>0, <2>1
  <2> QED
    BY <1>0, <1>a, <2>1, <2>2, PurgeGoesOn
<1>3. ASSUME NEW sid \in Sid, LogOut(sid) \/ SessionExpires(sid) PROVE Purging'
  <2>1. /\ sessions' = sessions \ {sid} /\ UNCHANGED <<sessionOf, purge>>
        /\ \/ sessionsBySub' = [sessionsBySub EXCEPT ![sessionOf[sid]] = @ \ {sid}]
           \/ UNCHANGED sessionsBySub
    BY <1>3 DEF LogOut, SessionExpires
  <2>2. \A s \in Subject : \A b : b \in sessionsBySub[s] /\ b # sid => b \in sessionsBySub'[s]
    BY <1>0, <2>1
  <2> QED
    BY <1>0, <1>a, <2>1, <2>2, PurgeGoesOn
<1>4. ASSUME NEW v \in Request, NEW p \in Profile, PurgeStart(v, p) PROVE Purging'
  <2>1. /\ purge' = [subs |-> subsByProfile[p], sids |-> {}, before |-> SessionsOfSubs(subsByProfile[p])]
        /\ UNCHANGED sessionVars
    BY <1>4 DEF PurgeStart
  <2>2. subsByProfile[p] \subseteq Subject
    BY <1>0 DEF SubsOK
  <2>3. \A sid \in SessionsOfSubs(subsByProfile[p]) :
            sid \in sessions /\ \E s \in subsByProfile[p] : sid \in sessionsBySub[s]
    BY DEF SessionsOfSubs
  <2>4. SessionsOfSubs(subsByProfile[p]) \subseteq 1 .. Len(sessionOf)
    BY <1>0, <2>3 DEF SessionsOK
  <2>5. 1 .. Len(sessionOf) \subseteq Nat
    BY <1>0 DEF SessionsOK
  <2>6. /\ purge'.subs = subsByProfile[p] /\ purge'.sids = {}
        /\ purge'.before = SessionsOfSubs(subsByProfile[p]) /\ purge' \in PurgeRecord
    BY <2>1, <2>2, <2>4, <2>5 DEF PurgeRecord
  <2>7. BeforeNow'
    BY <2>1, <2>4, <2>6 DEF BeforeNow, sessionVars
  <2>8. ToBePurged'
    BY <2>1, <2>3, <2>6 DEF ToBePurged, sessionVars
  <2> QED
    BY <2>6, <2>7, <2>8 DEF Purging
<1>5. ASSUME NEW s \in Subject, PurgeSub(s) PROVE Purging'
  <2>1. /\ purge' = [purge EXCEPT !.subs = @ \ {s}, !.sids = sessionsBySub[s]] /\ purge.sids = {}
        /\ UNCHANGED sessionVars
    BY <1>5 DEF PurgeSub
  <2>2. sessionsBySub[s] \subseteq Nat
    BY <1>0
  <2>3. /\ purge'.subs = purge.subs \ {s} /\ purge'.sids = sessionsBySub[s] /\ purge'.before = purge.before
        /\ purge' \in PurgeRecord
    BY <1>0, <2>1, <2>2 DEF PurgeRecord
  <2>4. BeforeNow'
    BY <1>0, <2>1, <2>3 DEF BeforeNow, sessionVars
  <2>5. ToBePurged'
    BY <1>0, <2>1, <2>3 DEF ToBePurged, sessionVars
  <2> QED
    BY <2>3, <2>4, <2>5 DEF Purging
<1>6. ASSUME NEW sid \in Sid, PurgeSession(sid) PROVE Purging'
  <2>1. /\ purge' = [purge EXCEPT !.sids = @ \ {sid}] /\ sessions' = sessions \ {sid} /\ UNCHANGED sessionOf
        /\ sessionsBySub' = [sessionsBySub EXCEPT ![sessionOf[sid]] = @ \ {sid}]
    BY <1>6 DEF PurgeSession
  <2>2. /\ purge'.subs = purge.subs /\ purge'.sids = purge.sids \ {sid} /\ purge'.before = purge.before
        /\ purge' \in PurgeRecord /\ purge.subs \subseteq Subject
    BY <1>0, <2>1 DEF PurgeRecord
  <2>3. \A s \in Subject : \A b : b \in sessionsBySub[s] /\ b # sid => b \in sessionsBySub'[s]
    BY <1>0, <2>1
  <2>4. BeforeNow'
    BY <1>0, <2>1, <2>2 DEF BeforeNow
  <2>5. ToBePurged'
    BY <1>0, <2>1, <2>2, <2>3 DEF ToBePurged
  <2> QED
    BY <2>2, <2>4, <2>5 DEF Purging
<1>7. CASE PurgeEnd
  <2>1. purge'.subs = {} /\ purge'.sids = {} /\ purge'.before = {}
    BY <1>7 DEF PurgeEnd, NoPurge
  <2>2. purge' \in PurgeRecord
    BY <1>7 DEF PurgeEnd, NoPurge, PurgeRecord
  <2> QED
    BY <2>1, <2>2 DEF Purging, BeforeNow, ToBePurged
<1>8. ASSUME NEW v \in Request, StepOf(v) PROVE Purging'
  BY <1>1, <1>2, <1>4, <1>8, <1>b DEF StepOf, LocalSignIn, RemoteSignIn, SignIn, Enter, Reconcile, LookUp, Provision,
     AnswerPlayer, AnswerBootstrap, Passes, Ask, UpdateProfile, ProxyCreateProfile, Store
<1>9. CASE StepOfNone
  BY <1>3, <1>5, <1>6, <1>7, <1>9, <1>b DEF StepOfNone, IdentityExpires, SaveRuntime, RestartRuntime
<1>10. CASE UNCHANGED accessVars
  BY <1>10, <1>b DEF accessVars
<1> QED
  BY <1>8, <1>9, <1>10, AccessCases

(* A purge that ends has logged out every session of the profile's subjects  *)
(* that was open when it began, whatever sign-ins and sign-outs come between *)
(* its steps (the profile purge of the web server).                          *)
THEOREM PurgesAreComplete == AccessSpec => PurgeLogsOut
<1>1. AccessInit => PurgeInv
  <2> SUFFICES ASSUME AccessInit PROVE PurgeInv
    OBVIOUS
  <2>1. AccessTypeOK
    BY AccessInitially DEF AccessInv
  <2>2. SubsOK
    BY DEF AccessInit, SubsOK
  <2>3. purge.before = {} /\ purge \in PurgeRecord
    BY DEF AccessInit, NoPurge, PurgeRecord
  <2> QED
    BY <2>1, <2>2, <2>3 DEF PurgeInv, Purging, BeforeNow, ToBePurged
<1>2. PurgeInv /\ [AccessNext]_accessVars => PurgeInv'
  BY RequestsStep, SessionsStep, ProfilesStep, SubsStep, PurgeStep DEF PurgeInv, AccessTypeOK
<1>3. PurgeInv => (PurgeEnd => purge.before \cap sessions = {})
  BY DEF PurgeInv, Purging, ToBePurged, PurgeEnd
<1> QED
  BY <1>1, <1>2, <1>3, PTL DEF AccessSpec, PurgeLogsOut

------------------------------------------------------------------------------
(* The assistant of the operators. *)

PlanRecord == [sensitive : BOOLEAN, calls : Nat, attempts : {1, 2}]
MessageRecord == [desk : {"chief", "chief2"}, owner : Operator, plans : Seq(PlanRecord)]
RunRecord == [token : Nat, step : Nat, attempt : Nat, call : Nat]

(* Every once of every plan has a count of its effects.                      *)
TokensCounted ==
    /\ effects \in Seq(Seq(Seq(Nat)))
    /\ Len(effects) = Len(planned)
    /\ \A msg \in DOMAIN planned :
          /\ Len(effects[msg]) = Len(planned[msg].plans)
          /\ \A i \in DOMAIN planned[msg].plans :
                Len(effects[msg][i]) = planned[msg].plans[i].calls

(* A job is of a message, and tries the plan it is at as often as it may.    *)
RunOK(job) ==
    /\ job.token \in DOMAIN planned /\ job.step >= 1 /\ job.call >= 1 /\ job.attempt >= 1
    /\ job.step \in DOMAIN planned[job.token].plans =>
          job.attempt <= planned[job.token].plans[job.step].attempts

ChiefTypeOK ==
    /\ planned \in Seq(MessageRecord)
    /\ pendingConfirmations \subseteq DOMAIN planned
    /\ runs \in Seq(RunRecord)
    /\ \A r \in DOMAIN runs : RunOK(runs[r])
    /\ TokensCounted

(* How often once c of plan i may have taken effect by now: a plan that was  *)
(* left as often as it may be tried, the calls of the present one before the *)
(* one that is next once per attempt.                                        *)
MayHaveActed(job, i, c) ==
    IF i < job.step THEN planned[job.token].plans[i].attempts
    ELSE IF i > job.step THEN 0
    ELSE IF c < job.call THEN job.attempt
    ELSE job.attempt - 1

NotRun(msg) == \A r \in DOMAIN runs : runs[r].token # msg
Untouched(msg) == \A i \in DOMAIN effects[msg] : \A c \in DOMAIN effects[msg][i] : effects[msg][i][c] = 0

(* A message is executed once, one that waits for its confirmation not yet,  *)
(* and only by that job.                                                     *)
OneRunEach == \A r, s \in DOMAIN runs : runs[r].token = runs[s].token => r = s
PendingNotRun == \A msg \in pendingConfirmations : NotRun(msg)
ActedInRuns == \A msg \in DOMAIN planned : NotRun(msg) => Untouched(msg)
ActsWithin(job) ==
    \A i \in DOMAIN planned[job.token].plans : \A c \in DOMAIN effects[job.token][i] :
        effects[job.token][i][c] <= MayHaveActed(job, i, c)
RunsWithin == \A r \in DOMAIN runs : ActsWithin(runs[r])

ChiefInv == ChiefTypeOK /\ OneRunEach /\ PendingNotRun /\ ActedInRuns /\ RunsWithin

(* The plans of a message are plans.                                         *)
LEMMA CommandsPlan ==
    ASSUME NEW tools \in Seq(PlanRecord)
    PROVE  Commands(tools) \subseteq Seq(PlanRecord)
<1>1. \A i \in DOMAIN tools : tools[i] \in PlanRecord
  OBVIOUS
<1>2. \A p, q \in PlanRecord : <<p>> \in Seq(PlanRecord) /\ <<p, q>> \in Seq(PlanRecord)
  OBVIOUS
<1>3. \A i \in DOMAIN tools : \A j \in (i + 1) .. Len(tools) : tools[j] \in PlanRecord
  OBVIOUS
<1>4. <<>> \in Seq(PlanRecord)
  OBVIOUS
<1>5. ASSUME NEW list \in Commands(tools) PROVE list \in Seq(PlanRecord)
  <2>1. CASE list = <<>>
    BY <1>4, <2>1
  <2>2. CASE \E i \in DOMAIN tools : list = <<tools[i]>>
    BY <1>1, <1>2, <2>2
  <2>3. CASE \E i \in DOMAIN tools : \E j \in (i + 1) .. Len(tools) : list = <<tools[i], tools[j]>>
    BY <1>1, <1>2, <1>3, <2>3
  <2> QED
    BY <1>5, <2>1, <2>2, <2>3 DEF Commands
<1> QED
  BY <1>5

(* The plans of a message, of whichever desk, are plans. *)
LEMMA PlansPlan ==
    ASSUME NEW operator \in Operator, NEW desk \in {"chief", "chief2"}, NEW plans \in Plans(desk, operator)
    PROVE  plans \in Seq(PlanRecord)
<1> DEFINE S == Seq(PlanRecord)
<1>0. \A sensitive \in BOOLEAN, steps \in Nat :
          Plan(sensitive, steps) \in PlanRecord /\ Chief2Plan(sensitive, steps) \in PlanRecord
  BY DEF Plan, Chief2Plan, PlanRecord, maxAttempts
<1>s. \A p, q, r, s \in PlanRecord :
          <<p>> \in S /\ <<p, q>> \in S /\ <<p, q, r>> \in S /\ <<p, q, r, s>> \in S
  OBVIOUS
<1>1. WalletPlans \subseteq S
  BY <1>0, <1>s, CommandsPlan DEF WalletPlans, PrepareGas, FundWallet, WithdrawFunds, TransferFunds
<1>2. BotPlans(operator) \subseteq S
  <2>1. (operator \in Administrator) \in BOOLEAN
    OBVIOUS
  <2>2. UpdateOwnerBot(operator) \in PlanRecord
    BY <1>0, <2>1 DEF UpdateOwnerBot
  <2> QED
    BY <1>s, <2>2, CommandsPlan DEF BotPlans
<1>3. RuntimePlans \subseteq S
  BY <1>0, <1>s, CommandsPlan DEF RuntimePlans, ReconcileBots, ApplyDelegation, SyncSkills, HouseConfig
<1>4. UserPlans \subseteq S
  BY <1>0, <1>s, CommandsPlan DEF UserPlans, InspectPlayer, LogoutPlayer, AdjustWallet
<1>5. buildPlans(operator) \subseteq S
  BY <1>0, <1>1, <1>2, <1>3, <1>4, <1>s DEF buildPlans, InspectState
<1>6. buildRunbookSelection(operator) \subseteq S
  BY <1>0, <1>s DEF buildRunbookSelection, SnapshotRunbook, EconomyRunbook, ChallengeRunbook, InspectRunbook,
     LogoutRunbook, AdjustRunbook, IntegrityRunbook
<1>7. fallbackReply(operator)[1] \in PlanRecord
  BY DEF fallbackReply, PlanRecord
<1>8. \A lists \in SUBSET S, plan \in PlanRecord : OrElse(lists, plan) \subseteq S
  BY <1>s DEF OrElse
<1>9. StatusPlan \in PlanRecord
  BY <1>0 DEF StatusPlan
<1>10. RuntimeOps \subseteq S
  BY <1>0, <1>s, <1>8, <1>9, CommandsPlan DEF RuntimeOps
<1>11. UserAdmin \subseteq S
  BY <1>0, <1>s, <1>8, <1>9, CommandsPlan DEF UserAdmin
<1>12. MarketOps \subseteq S
  BY <1>0, <1>s, <1>8, <1>9, CommandsPlan DEF MarketOps
<1>13. buildChief2Plans \subseteq S
  BY <1>9, <1>10, <1>11, <1>12, <1>s DEF buildChief2Plans
<1> QED
  BY <1>5, <1>6, <1>7, <1>8, <1>13 DEF Plans

(* Nothing has taken effect of plans that were not run. *)
LEMMA NothingDone ==
    ASSUME NEW plans \in Seq(PlanRecord)
    PROVE  /\ NoEffect(plans) \in Seq(Seq(Nat))
           /\ Len(NoEffect(plans)) = Len(plans)
           /\ \A i \in DOMAIN plans :
                 /\ Len(NoEffect(plans)[i]) = plans[i].calls
                 /\ \A c \in DOMAIN NoEffect(plans)[i] : NoEffect(plans)[i][c] = 0
<1>1. \A i \in DOMAIN plans : plans[i] \in PlanRecord
  OBVIOUS
<1>2. \A i \in DOMAIN plans : plans[i].calls \in Nat
  BY <1>1 DEF PlanRecord
<1> DEFINE none(i) == [c \in 1 .. plans[i].calls |-> 0]
<1>3. \A i \in DOMAIN plans : none(i) \in Seq(Nat) /\ Len(none(i)) = plans[i].calls
  BY <1>2
<1>4. NoEffect(plans) = [i \in 1 .. Len(plans) |-> none(i)]
  BY DEF NoEffect
<1> HIDE DEF none
<1>5. NoEffect(plans) \in Seq(Seq(Nat)) /\ Len(NoEffect(plans)) = Len(plans)
  BY <1>3, <1>4
<1> QED
  BY <1>2, <1>3, <1>4, <1>5 DEF none

(* What becomes of a job, field by field.                                    *)
IsRun(job, msg, step, attempt, once) ==
    job \in RunRecord /\ job.token = msg /\ job.step = step /\ job.attempt = attempt /\ job.call = once

(* What a run goes on to, field by field. *)
LEMMA RunFields ==
    ASSUME NEW job \in RunRecord
    PROVE  /\ IsRun(NextStep(job), job.token, job.step + 1, 1, 1)
           /\ IsRun([job EXCEPT !.call = @ + 1], job.token, job.step, job.attempt, job.call + 1)
           /\ IsRun([job EXCEPT !.attempt = @ + 1, !.call = 1], job.token, job.step, job.attempt + 1, 1)
<1>1. job.step + 1 \in Nat /\ job.attempt + 1 \in Nat /\ job.call + 1 \in Nat
  BY DEF RunRecord
<1>2. \A n \in Nat : IsRun([job EXCEPT !.step = n, !.attempt = 1, !.call = 1], job.token, n, 1, 1)
  BY DEF RunRecord, IsRun
<1>3. \A n \in Nat : IsRun([job EXCEPT !.call = n], job.token, job.step, job.attempt, n)
  BY DEF RunRecord, IsRun
<1>4. \A n \in Nat : IsRun([job EXCEPT !.attempt = n, !.call = 1], job.token, job.step, n, 1)
  BY DEF RunRecord, IsRun
<1> QED
  BY <1>1, <1>2, <1>3, <1>4 DEF NextStep

(* After a once, or when the plan has failed, the job may have acted at     *)
(* least as often as before, and once more in the once it has made.          *)
LEMMA RunGoesOn ==
    ASSUME planned \in Seq(MessageRecord), NEW job \in RunRecord, RunOK(job),
           job.step <= Len(planned[job.token].plans),
           NEW next \in {AfterCall(job), AfterFailure(job)}
    PROVE  /\ next \in RunRecord /\ next.token = job.token /\ RunOK(next)
           /\ \A i \in DOMAIN planned[job.token].plans, c \in Nat :
                 MayHaveActed(next, i, c) >=
                     MayHaveActed(job, i, c) + (IF i = job.step /\ c = job.call /\ Calling(job) THEN 1 ELSE 0)
<1> DEFINE plans == planned[job.token].plans
<1>0. planned[job.token] \in MessageRecord /\ job.step \in Nat \ {0}
  BY DEF RunOK, RunRecord
<1>1. plans \in Seq(PlanRecord) /\ job.step \in DOMAIN plans
  BY <1>0 DEF MessageRecord
<1>2. \A i \in DOMAIN plans : plans[i].attempts \in {1, 2} /\ plans[i].calls \in Nat
  <2>1. \A i \in DOMAIN plans : plans[i] \in PlanRecord
    BY <1>1
  <2> QED
    BY <2>1 DEF PlanRecord
<1>3. PlanOf(job) = plans[job.step]
  BY DEF PlanOf
<1>4. /\ job.attempt \in 1 .. plans[job.step].attempts
      /\ job.call \in Nat \ {0} /\ job.step \in Nat \ {0} /\ job.token \in DOMAIN planned
  BY <1>1, <1>2 DEF RunOK, RunRecord
<1> HIDE DEF plans
<1> DEFINE Goal(n) ==
        /\ n \in RunRecord /\ n.token = job.token /\ RunOK(n)
        /\ \A i \in DOMAIN plans, c \in Nat :
              MayHaveActed(n, i, c) >=
                  MayHaveActed(job, i, c) + (IF i = job.step /\ c = job.call /\ Calling(job) THEN 1 ELSE 0)
<1> DEFINE May(n, i, c) ==
        IF i < n.step THEN plans[i].attempts
        ELSE IF i > n.step THEN 0
        ELSE IF c < n.call THEN n.attempt
        ELSE n.attempt - 1
<1> DEFINE Ok(n) == n.step \in DOMAIN plans => n.attempt <= plans[n.step].attempts
<1>a. ASSUME NEW n \in RunRecord, n.token = job.token, n.step >= 1, n.attempt >= 1, n.call >= 1, Ok(n),
             \A i \in DOMAIN plans, c \in Nat :
                 May(n, i, c) >= May(job, i, c) + (IF i = job.step /\ c = job.call /\ Calling(job) THEN 1 ELSE 0)
      PROVE  Goal(n)
  BY <1>a, <1>4 DEF plans, RunOK, MayHaveActed
<1>b. job.step \in 1 .. Len(plans) /\ DOMAIN plans = 1 .. Len(plans) /\ Len(plans) \in Nat
  BY <1>1
<1>5. ASSUME NEW n, IsRun(n, job.token, job.step, job.attempt, job.call + 1) PROVE Goal(n)
  <2>1. n \in RunRecord /\ n.token = job.token /\ n.step = job.step /\ n.attempt = job.attempt /\ n.call = job.call + 1
    BY <1>5 DEF IsRun
  <2>2. \A i \in DOMAIN plans, c \in Nat :
           May(n, i, c) >= May(job, i, c) + (IF i = job.step /\ c = job.call /\ Calling(job) THEN 1 ELSE 0)
    BY <1>2, <1>4, <1>b, <2>1
  <2> QED
    BY <1>4, <1>a, <2>1, <2>2
<1>6. ASSUME NEW n, IsRun(n, job.token, job.step + 1, 1, 1),
             ~Calling(job) \/ job.attempt = plans[job.step].attempts
      PROVE  Goal(n)
  <2>1. n \in RunRecord /\ n.token = job.token /\ n.step = job.step + 1 /\ n.attempt = 1 /\ n.call = 1
    BY <1>6 DEF IsRun
  <2>2. Ok(n)
    BY <1>2, <2>1
  <2>3. \A i \in DOMAIN plans, c \in Nat :
           May(n, i, c) >= May(job, i, c) + (IF i = job.step /\ c = job.call /\ Calling(job) THEN 1 ELSE 0)
    BY <1>2, <1>4, <1>6, <1>b, <2>1
  <2> QED
    BY <1>4, <1>a, <2>1, <2>2, <2>3
<1>7. ASSUME NEW n, IsRun(n, job.token, job.step, job.attempt + 1, 1), job.attempt < plans[job.step].attempts
      PROVE  Goal(n)
  <2>1. n \in RunRecord /\ n.token = job.token /\ n.step = job.step /\ n.attempt = job.attempt + 1 /\ n.call = 1
    BY <1>7 DEF IsRun
  <2>2. Ok(n)
    BY <1>2, <1>4, <1>7, <2>1
  <2>3. ASSUME NEW i \in DOMAIN plans, NEW c \in Nat
        PROVE  May(n, i, c) >= May(job, i, c) + (IF i = job.step /\ c = job.call /\ Calling(job) THEN 1 ELSE 0)
    <3>1. job.attempt \in Nat /\ job.call \in Nat /\ job.step \in Nat /\ i \in Nat /\ plans[i].attempts \in Nat
      BY <1>2, <1>4, <1>b
    <3>2. CASE i # job.step
      BY <1>2, <1>4, <1>b, <2>1, <3>1, <3>2
    <3>3. CASE i = job.step /\ c < job.call
      BY <2>1, <3>1, <3>3
    <3>4. CASE i = job.step /\ c >= job.call
      BY <1>4, <2>1, <3>1, <3>4
    <3> QED
      BY <3>1, <3>2, <3>3, <3>4
  <2> QED
    BY <1>4, <1>a, <2>1, <2>2, <2>3
<1>8. Goal(next)
  <2> HIDE DEF Goal
  <2>1. CASE next = AfterCall(job)
    BY <1>5, <1>6, <2>1, RunFields DEF AfterCall
  <2>2. CASE next = AfterFailure(job)
    <3>1. CASE job.attempt < plans[job.step].attempts
      <4>1. next = [job EXCEPT !.attempt = @ + 1, !.call = 1]
        BY <1>3, <2>2, <3>1 DEF AfterFailure
      <4> QED
        BY <1>7, <3>1, <4>1, RunFields
    <3>2. CASE ~(job.attempt < plans[job.step].attempts)
      <4>1. next = NextStep(job) /\ job.attempt = plans[job.step].attempts
        BY <1>2, <1>3, <1>4, <1>b, <2>2, <3>2 DEF AfterFailure
      <4> QED
        BY <1>6, <4>1, RunFields
    <3> QED
      BY <3>1, <3>2
  <2> QED
    BY <2>1, <2>2
<1> QED
  BY <1>8 DEF plans

(* A job about whose message nothing has changed.                            *)
SameMessage(msg) == planned'[msg] = planned[msg] /\ effects'[msg] = effects[msg]

(* A run whose message is left alone may have acted as before. *)
LEMMA RunKept ==
    ASSUME NEW r \in DOMAIN runs, RunOK(runs[r]), ActsWithin(runs[r]), runs'[r] = runs[r],
           SameMessage(runs[r].token), DOMAIN planned \subseteq DOMAIN planned'
    PROVE  RunOK(runs[r])' /\ ActsWithin(runs[r])'
BY DEF RunOK, ActsWithin, MayHaveActed, SameMessage

(* A job that begins has done nothing.                                       *)
LEMMA RunBegins ==
    ASSUME NEW msg \in Nat, NEW r, runs'[r] = [token |-> msg, step |-> 1, attempt |-> 1, call |-> 1],
           planned' \in Seq(MessageRecord), msg \in DOMAIN planned', TokensCounted', Untouched(msg)'
    PROVE  RunOK(runs[r])' /\ ActsWithin(runs[r])'
<1> DEFINE plans == planned'[msg].plans
<1>1. plans \in Seq(PlanRecord)
  <2>1. planned'[msg] \in MessageRecord
    OBVIOUS
  <2> QED
    BY <2>1 DEF MessageRecord
<1>2. \A i \in DOMAIN plans : i \in Nat /\ plans[i].attempts \in {1, 2} /\ plans[i].calls \in Nat
  <2>1. \A i \in DOMAIN plans : plans[i] \in PlanRecord /\ i \in Nat
    BY <1>1
  <2> QED
    BY <2>1 DEF PlanRecord
<1>3. RunOK(runs[r])'
  BY <1>2 DEF RunOK
<1>4. ASSUME NEW i \in DOMAIN plans, NEW c \in DOMAIN effects'[msg][i]
      PROVE  effects'[msg][i][c] <= MayHaveActed(runs[r], i, c)'
  <2>0. effects'[msg] \in Seq(Seq(Nat)) /\ Len(effects'[msg]) = Len(plans)
    <3>1. msg \in 1 .. Len(effects')
      BY DEF TokensCounted
    <3>2. effects'[msg] \in Seq(Seq(Nat))
      BY <3>1, ElementOfSeq DEF TokensCounted
    <3> QED
      BY <3>2 DEF TokensCounted
  <2>1. DOMAIN effects'[msg] = DOMAIN plans /\ effects'[msg] \in Seq(Seq(Nat))
    BY <1>1, <2>0
  <2>2. effects'[msg][i][c] = 0
    BY <2>1 DEF Untouched
  <2>3. c \in Nat /\ c >= 1
    BY <2>1
  <2>4. MayHaveActed(runs[r], i, c)' = 0
    <3>1. i >= 1
      BY <1>1
    <3> QED
      BY <1>2, <2>3, <3>1 DEF MayHaveActed
  <2> QED
    BY <2>2, <2>4
<1> QED
  BY <1>3, <1>4 DEF ActsWithin

(* Messages and their counts, after one more message.                        *)
LEMMA MessageCounted ==
    ASSUME ChiefTypeOK, NEW m \in MessageRecord, planned' = Append(planned, m),
           effects' = Append(effects, NoEffect(m.plans)), NEW new, new = Len(planned) + 1
    PROVE  /\ planned' \in Seq(MessageRecord) /\ TokensCounted'
           /\ DOMAIN planned' = DOMAIN planned \cup {new} /\ new \notin DOMAIN planned /\ new \in Nat
           /\ Untouched(new)'
           /\ \A msg \in DOMAIN planned : SameMessage(msg)
<1>0. m.plans \in Seq(PlanRecord)
  BY DEF MessageRecord
<1>1. /\ NoEffect(m.plans) \in Seq(Seq(Nat))
      /\ Len(NoEffect(m.plans)) = Len(m.plans)
      /\ \A i \in DOMAIN m.plans :
            /\ Len(NoEffect(m.plans)[i]) = m.plans[i].calls
            /\ \A c \in DOMAIN NoEffect(m.plans)[i] : NoEffect(m.plans)[i][c] = 0
  BY <1>0, NothingDone
<1>2. /\ planned \in Seq(MessageRecord) /\ effects \in Seq(Seq(Seq(Nat))) /\ Len(effects) = Len(planned)
  BY DEF ChiefTypeOK, TokensCounted
<1>3. /\ planned' \in Seq(MessageRecord) /\ Len(planned') = new
      /\ planned'[new] = m /\ \A msg \in 1 .. Len(planned) : planned'[msg] = planned[msg]
  BY <1>2
<1>4. /\ effects' \in Seq(Seq(Seq(Nat))) /\ Len(effects') = new
      /\ effects'[new] = NoEffect(m.plans) /\ \A msg \in 1 .. Len(planned) : effects'[msg] = effects[msg]
  BY <1>1, <1>2
<1>5. /\ DOMAIN planned = 1 .. Len(planned) /\ DOMAIN planned' = 1 .. new /\ Len(planned) \in Nat
      /\ DOMAIN planned' = DOMAIN planned \cup {new} /\ new \notin DOMAIN planned /\ new \in Nat
  BY <1>2, <1>3
<1>6. \A msg \in DOMAIN planned : SameMessage(msg)
  BY <1>3, <1>4, <1>5 DEF SameMessage
<1>7. Untouched(new)'
  <2>1. DOMAIN NoEffect(m.plans) = DOMAIN m.plans
    BY <1>0, <1>1
  <2> QED
    BY <1>1, <1>4, <2>1 DEF Untouched
<1>8. TokensCounted'
  <2>1. ASSUME NEW msg \in DOMAIN planned'
        PROVE  /\ Len(effects'[msg]) = Len(planned'[msg].plans)
               /\ \A i \in DOMAIN planned'[msg].plans : Len(effects'[msg][i]) = planned'[msg].plans[i].calls
    <3>1. CASE msg = new
      BY <1>1, <1>3, <1>4, <3>1
    <3>2. CASE msg \in DOMAIN planned
      BY <1>6, <3>2 DEF SameMessage, ChiefTypeOK, TokensCounted
    <3> QED
      BY <1>5, <2>1, <3>1, <3>2
  <2> QED
    BY <1>3, <1>4, <2>1 DEF TokensCounted
<1> QED
  BY <1>3, <1>5, <1>6, <1>7, <1>8

(* The runs after one more of them, of a message that was not job.           *)
LEMMA RunAdded ==
    ASSUME NEW msg \in Nat, runs \in Seq(RunRecord), executePlans(msg)
    PROVE  /\ DOMAIN runs' = DOMAIN runs \cup {Len(runs) + 1} /\ Len(runs) + 1 \notin DOMAIN runs
           /\ runs'[Len(runs) + 1] = [token |-> msg, step |-> 1, attempt |-> 1, call |-> 1]
           /\ \A r \in DOMAIN runs : runs'[r] = runs[r]
           /\ runs' \in Seq(RunRecord)
<1>1. [token |-> msg, step |-> 1, attempt |-> 1, call |-> 1] \in RunRecord
  BY DEF RunRecord
<1> QED
  BY <1>1 DEF executePlans

(* The invariant after a step that runs one more message or none.            *)
LEMMA OneMoreRun ==
    ASSUME ChiefInv, planned' \in Seq(MessageRecord), TokensCounted',
           DOMAIN planned \subseteq DOMAIN planned', \A msg \in DOMAIN planned : SameMessage(msg),
           NEW new \in DOMAIN planned', Untouched(new)', NotRun(new), DOMAIN planned' \subseteq DOMAIN planned \cup {new},
           \A msg \in pendingConfirmations' : msg \in DOMAIN planned' /\ NotRun(msg),
           \/ UNCHANGED runs
           \/ executePlans(new) /\ new \notin pendingConfirmations'
    PROVE  ChiefInv'
<1>0. new \in Nat /\ runs \in Seq(RunRecord)
  BY DEF ChiefInv, ChiefTypeOK
<1>1. \A r \in DOMAIN runs : runs[r].token \in DOMAIN planned
  BY DEF ChiefInv, ChiefTypeOK, RunOK
<1>2. /\ DOMAIN runs \subseteq DOMAIN runs' /\ runs' \in Seq(RunRecord)
      /\ \A r \in DOMAIN runs : runs'[r] = runs[r]
      /\ \A r \in DOMAIN runs' \ DOMAIN runs :
            /\ r = Len(runs) + 1 /\ executePlans(new)
            /\ runs'[r] = [token |-> new, step |-> 1, attempt |-> 1, call |-> 1]
  BY <1>0, RunAdded
<1>3. ASSUME NEW r \in DOMAIN runs' PROVE RunOK(runs[r])' /\ ActsWithin(runs[r])'
  <2>1. CASE r \in DOMAIN runs
    <3>1. RunOK(runs[r]) /\ ActsWithin(runs[r])
      BY <2>1 DEF ChiefInv, ChiefTypeOK, RunsWithin
    <3> QED
      BY <1>1, <1>2, <2>1, <3>1, RunKept
  <2>2. CASE r \notin DOMAIN runs
    <3>1. runs'[r] = [token |-> new, step |-> 1, attempt |-> 1, call |-> 1]
      BY <1>2, <2>2
    <3> QED
      BY <1>0, <3>1, RunBegins
  <2> QED
    BY <2>1, <2>2
<1>4. \A msg \in DOMAIN planned' : NotRun(msg)' => NotRun(msg)
  BY <1>2 DEF NotRun
<1>5. PendingNotRun'
  <2>1. ASSUME NEW msg \in pendingConfirmations', NEW r \in DOMAIN runs' PROVE runs'[r].token # msg
    BY <1>2 DEF NotRun
  <2> QED
    BY <2>1 DEF PendingNotRun, NotRun
<1>6. ActedInRuns'
  <2>1. ASSUME NEW msg \in DOMAIN planned', NotRun(msg)' PROVE Untouched(msg)'
    <3>1. CASE msg \in DOMAIN planned
      <4>1. Untouched(msg)
        BY <1>4, <2>1, <3>1 DEF ChiefInv, ActedInRuns
      <4> QED
        BY <3>1, <4>1 DEF Untouched, SameMessage
    <3>2. CASE msg = new
      BY <3>2
    <3> QED
      BY <3>1, <3>2
  <2> QED
    BY <2>1 DEF ActedInRuns
<1>7. OneRunEach'
  <2>1. \A r, s \in DOMAIN runs : runs[r].token = runs[s].token => r = s
    BY DEF ChiefInv, OneRunEach
  <2>2. \A r \in DOMAIN runs : runs[r].token # new
    BY DEF NotRun
  <2> QED
    BY <1>2, <2>1, <2>2 DEF OneRunEach
<1>8. ChiefTypeOK'
  BY <1>2, <1>3 DEF ChiefTypeOK
<1>9. RunsWithin'
  BY <1>3 DEF RunsWithin
<1> QED
  BY <1>5, <1>6, <1>7, <1>8, <1>9 DEF ChiefInv

(* A plan of a message that runs, and the counts of its calls.               *)
LEMMA PlanCounts ==
    ASSUME planned \in Seq(MessageRecord), TokensCounted, NEW msg \in DOMAIN planned,
           NEW i \in DOMAIN planned[msg].plans
    PROVE  /\ effects[msg] \in Seq(Seq(Nat)) /\ effects[msg][i] \in Seq(Nat)
           /\ DOMAIN effects[msg] = DOMAIN planned[msg].plans /\ i \in Nat /\ i >= 1
           /\ DOMAIN effects[msg][i] = 1 .. planned[msg].plans[i].calls
           /\ planned[msg].plans[i].calls \in Nat /\ planned[msg].plans[i].attempts \in {1, 2}
           /\ planned[msg].plans \in Seq(PlanRecord)
<1>1. planned[msg].plans \in Seq(PlanRecord)
  <2>1. planned[msg] \in MessageRecord
    OBVIOUS
  <2> QED
    BY <2>1 DEF MessageRecord
<1>2. planned[msg].plans[i] \in PlanRecord /\ i \in Nat /\ i >= 1
  BY <1>1
<1>3. effects[msg] \in Seq(Seq(Nat)) /\ Len(effects[msg]) = Len(planned[msg].plans)
  <2>1. msg \in 1 .. Len(effects)
    BY DEF TokensCounted
  <2>2. effects[msg] \in Seq(Seq(Nat))
    BY <2>1, ElementOfSeq DEF TokensCounted
  <2> QED
    BY <2>2 DEF TokensCounted
<1>4. effects[msg][i] \in Seq(Nat) /\ Len(effects[msg][i]) = planned[msg].plans[i].calls
  <2>1. i \in 1 .. Len(effects[msg])
    BY <1>1, <1>3
  <2> QED
    BY <1>3, <2>1, ElementOfSeq DEF TokensCounted
<1> QED
  BY <1>1, <1>2, <1>3, <1>4 DEF PlanRecord

(* A call may have acted as often as its plan is tried at most. *)
LEMMA AtMostAttempts ==
    ASSUME NEW job \in RunRecord, RunOK(job), planned \in Seq(MessageRecord), TokensCounted,
           NEW i \in DOMAIN planned[job.token].plans, NEW c \in Nat
    PROVE  /\ MayHaveActed(job, i, c) <= planned[job.token].plans[i].attempts
           /\ MayHaveActed(job, i, c) \in Int
<1>1. planned[job.token].plans[i].attempts \in {1, 2} /\ i \in Nat /\ job.token \in DOMAIN planned
  BY PlanCounts DEF RunOK
<1>2. job.attempt \in Nat /\ job.step \in Nat
  BY DEF RunRecord
<1>3. i = job.step => job.attempt <= planned[job.token].plans[i].attempts
  BY DEF RunOK
<1> QED
  BY <1>1, <1>2, <1>3 DEF MayHaveActed

(* A sequence with one element replaced.                                     *)
LEMMA OneReplaced ==
    ASSUME NEW S, NEW s \in Seq(S), NEW k \in DOMAIN s, NEW e \in S
    PROVE  /\ [s EXCEPT ![k] = e] \in Seq(S) /\ DOMAIN [s EXCEPT ![k] = e] = DOMAIN s
           /\ Len([s EXCEPT ![k] = e]) = Len(s) /\ [s EXCEPT ![k] = e][k] = e
           /\ \A j \in DOMAIN s \ {k} : [s EXCEPT ![k] = e][j] = s[j]
BY ExceptSeq

(* One count of a table of counts goes up by one.                            *)
OneMore(table, t, i, c) == [table EXCEPT ![t][i][c] = @ + 1]
CountedOnce(table, next, t, i, c) ==
    /\ next \in Seq(Seq(Seq(Nat))) /\ Len(next) = Len(table)
    /\ \A u \in DOMAIN table : Len(next[u]) = Len(table[u])
    /\ \A u \in DOMAIN table : \A j \in DOMAIN table[u] : Len(next[u][j]) = Len(table[u][j])
    /\ \A u \in DOMAIN table \ {t} : next[u] = table[u]
    /\ \A j \in DOMAIN table[t], d \in Nat :
          d \in DOMAIN table[t][j] =>
             next[t][j][d] = table[t][j][d] + (IF j = i /\ d = c THEN 1 ELSE 0)

(* Counting one effect more leaves the other counts. *)
LEMMA OneCounted ==
    ASSUME NEW table \in Seq(Seq(Seq(Nat))), NEW t \in DOMAIN table, NEW i \in DOMAIN table[t],
           NEW c \in DOMAIN table[t][i],
           NEW next, next = OneMore(table, t, i, c)
    PROVE  CountedOnce(table, next, t, i, c)
<1> DEFINE row == table[t]
           cell == row[i]
           cellNext == [cell EXCEPT ![c] = cell[c] + 1]
           rowNext == [row EXCEPT ![i] = cellNext]
<1>1. row \in Seq(Seq(Nat))
  BY ElementOfSeq
<1>2. \A j \in DOMAIN row : row[j] \in Seq(Nat)
  BY <1>1
<1>3. \A j \in DOMAIN row : \A d \in DOMAIN row[j] : row[j][d] \in Nat
  BY <1>2
<1>4. cell[c] + 1 \in Nat
  BY <1>3
<1>5. next = [table EXCEPT ![t] = rowNext]
  BY DEF OneMore
<1>6. /\ cellNext \in Seq(Nat) /\ DOMAIN cellNext = DOMAIN cell /\ Len(cellNext) = Len(cell)
      /\ cellNext[c] = cell[c] + 1 /\ \A d \in DOMAIN cell \ {c} : cellNext[d] = cell[d]
  BY <1>2, <1>4, OneReplaced
<1>7. /\ rowNext \in Seq(Seq(Nat)) /\ Len(rowNext) = Len(row)
      /\ rowNext[i] = cellNext /\ \A j \in DOMAIN row \ {i} : rowNext[j] = row[j]
  <2> HIDE DEF cellNext
  <2> QED
    BY <1>1, <1>6, OneReplaced
<1> HIDE DEF rowNext
<1>8. /\ next \in Seq(Seq(Seq(Nat))) /\ Len(next) = Len(table)
      /\ next[t] = rowNext /\ \A u \in DOMAIN table \ {t} : next[u] = table[u]
  BY <1>5, <1>7, OneReplaced
<1> HIDE DEF cellNext
<1>9. \A u \in DOMAIN table : Len(next[u]) = Len(table[u])
  BY <1>7, <1>8
<1>10. \A u \in DOMAIN table : \A j \in DOMAIN table[u] : Len(next[u][j]) = Len(table[u][j])
  BY <1>6, <1>7, <1>8
<1>11. ASSUME NEW j \in DOMAIN table[t], NEW d \in DOMAIN table[t][j]
       PROVE  next[t][j][d] = table[t][j][d] + (IF j = i /\ d = c THEN 1 ELSE 0)
  <2>1. table[t][j][d] \in Nat
    BY <1>3, <1>11
  <2>2. CASE j # i
    <3>1. next[t][j] = table[t][j]
      BY <1>7, <1>8, <2>2
    <3> QED
      BY <2>1, <2>2, <3>1
  <2>3. CASE j = i
    <3>1. next[t][j] = cellNext /\ table[t][j] = cell /\ d \in DOMAIN cell
      BY <1>7, <1>8, <1>11, <2>3
    <3>2. cellNext[d] = cell[d] + (IF d = c THEN 1 ELSE 0)
      <4>1. cell[d] \in Nat
        BY <2>1, <3>1
      <4> QED
        BY <1>6, <3>1, <4>1
    <3> HIDE DEF cell
    <3> QED
      BY <2>3, <3>1, <3>2
  <2> QED
    BY <2>2, <2>3
<1> QED
  BY <1>8, <1>9, <1>10, <1>11 DEF CountedOnce

(* The once a job makes takes effect once more, or not.                      *)
LEMMA CallActs ==
    ASSUME ChiefInv, NEW r \in DOMAIN runs, Running(r), TakesEffect(runs[r]), planned' = planned
    PROVE  /\ TokensCounted'
           /\ \A msg \in DOMAIN planned \ {runs[r].token} : effects'[msg] = effects[msg]
           /\ \A i \in DOMAIN planned[runs[r].token].plans : \A c \in DOMAIN effects'[runs[r].token][i] :
                 /\ c \in DOMAIN effects[runs[r].token][i]
                 /\ effects'[runs[r].token][i][c] = effects[runs[r].token][i][c] +
                       (IF i = runs[r].step /\ c = runs[r].call /\ Calling(runs[r]) THEN 1 ELSE 0)
<1> DEFINE msg == runs[r].token
           i == runs[r].step
           c == runs[r].call
           plans == planned[msg].plans
<1>1. /\ planned \in Seq(MessageRecord) /\ TokensCounted /\ msg \in DOMAIN planned
      /\ i \in DOMAIN plans /\ i \in Nat /\ c \in Nat /\ c >= 1
  <2>1. runs[r] \in RunRecord /\ RunOK(runs[r]) /\ planned \in Seq(MessageRecord) /\ TokensCounted
    BY DEF ChiefInv, ChiefTypeOK
  <2>2. msg \in DOMAIN planned /\ i \in Nat /\ i >= 1 /\ c \in Nat /\ c >= 1 /\ i <= Len(plans)
    BY <2>1 DEF RunOK, RunRecord, Running
  <2>3. planned[msg] \in MessageRecord
    BY <2>1, <2>2
  <2>4. plans \in Seq(PlanRecord)
    BY <2>3 DEF MessageRecord
  <2> QED
    BY <2>1, <2>2, <2>4
<1>2. CASE ~Calling(runs[r])
  <2>1. effects' = effects
    BY <1>2 DEF TakesEffect
  <2>2. TokensCounted'
    BY <1>1, <2>1 DEF TokensCounted
  <2>3. \A j \in DOMAIN plans : effects[msg][j] \in Seq(Nat)
    BY <1>1, PlanCounts
  <2> QED
    BY <1>2, <2>1, <2>2, <2>3
<1>3. CASE Calling(runs[r])
  <2>1. /\ effects[msg] \in Seq(Seq(Nat)) /\ effects[msg][i] \in Seq(Nat)
        /\ i \in DOMAIN effects[msg] /\ DOMAIN effects[msg][i] = 1 .. plans[i].calls
        /\ plans[i].calls \in Nat
    BY <1>1, PlanCounts
  <2>2. c \in DOMAIN effects[msg][i]
    BY <1>1, <1>3, <2>1 DEF Calling, PlanOf
  <2>3. effects \in Seq(Seq(Seq(Nat))) /\ msg \in DOMAIN effects /\ Len(effects) = Len(planned)
    BY <1>1 DEF TokensCounted
  <2>4. /\ effects' \in Seq(Seq(Seq(Nat))) /\ Len(effects') = Len(effects)
        /\ \A u \in DOMAIN effects : Len(effects'[u]) = Len(effects[u])
        /\ \A u \in DOMAIN effects : \A j \in DOMAIN effects[u] : Len(effects'[u][j]) = Len(effects[u][j])
        /\ \A u \in DOMAIN effects \ {msg} : effects'[u] = effects[u]
        /\ \A j \in DOMAIN effects[msg], d \in Nat :
                 d \in DOMAIN effects[msg][j] =>
                    effects'[msg][j][d] = effects[msg][j][d] + (IF j = i /\ d = c THEN 1 ELSE 0)
    <3>1. effects' = OneMore(effects, msg, i, c)
      BY <1>3 DEF TakesEffect, OneMore
    <3>2. CountedOnce(effects, effects', msg, i, c)
      <4> HIDE DEF msg, i, c
      <4> QED
        BY <2>1, <2>2, <2>3, <3>1, OneCounted
    <3> HIDE DEF msg, i, c
    <3> QED
      BY <3>2 DEF CountedOnce
  <2>5. \A u \in DOMAIN planned : DOMAIN effects[u] = DOMAIN planned[u].plans /\ u \in DOMAIN effects
    <3>1. ASSUME NEW u \in DOMAIN planned PROVE DOMAIN effects[u] = DOMAIN planned[u].plans
      <4>1. planned[u] \in MessageRecord
        BY <1>1
      <4>2. planned[u].plans \in Seq(PlanRecord)
        BY <4>1 DEF MessageRecord
      <4>3. effects[u] \in Seq(Seq(Nat))
        BY <1>1, <2>3, ElementOfSeq
      <4>4. Len(effects[u]) = Len(planned[u].plans)
        BY <1>1 DEF TokensCounted
      <4> QED
        BY <4>2, <4>3, <4>4
    <3> QED
      BY <1>1, <2>3, <3>1
  <2>6. TokensCounted'
    BY <1>1, <2>3, <2>4, <2>5 DEF TokensCounted
  <2>7. ASSUME NEW j \in DOMAIN plans, NEW d \in DOMAIN effects'[msg][j]
        PROVE  /\ d \in DOMAIN effects[msg][j]
               /\ effects'[msg][j][d] = effects[msg][j][d] + (IF j = i /\ d = c THEN 1 ELSE 0)
    <3>1. effects[msg][j] \in Seq(Nat) /\ j \in DOMAIN effects[msg]
      BY <1>1, <2>5, PlanCounts
    <3>2. effects'[msg][j] \in Seq(Nat)
      <4>1. effects'[msg] \in Seq(Seq(Nat)) /\ j \in 1 .. Len(effects'[msg])
        <5> HIDE DEF msg
        <5>1. msg \in 1 .. Len(effects) /\ msg \in 1 .. Len(effects')
          BY <2>3, <2>4
        <5>2. effects'[msg] \in Seq(Seq(Nat))
          BY <2>4, <5>1, ElementOfSeq
        <5>3. effects[msg] \in Seq(Seq(Nat))
          BY <2>3, <5>1, ElementOfSeq
        <5>4. Len(effects'[msg]) = Len(effects[msg])
          BY <2>3, <2>4
        <5> QED
          BY <3>1, <5>2, <5>3, <5>4
      <4> QED
        BY <4>1, ElementOfSeq
    <3>3. d \in DOMAIN effects[msg][j] /\ d \in Nat
      <4> HIDE DEF msg
      <4>1. Len(effects'[msg][j]) = Len(effects[msg][j])
        BY <2>3, <2>4, <3>1
      <4> QED
        BY <2>7, <3>1, <3>2, <4>1
    <3> QED
      BY <2>4, <3>1, <3>3
  <2>8. \A t \in DOMAIN planned \ {msg} : effects'[t] = effects[t]
    BY <2>4, <2>5
  <2> QED
    BY <1>3, <2>6, <2>7, <2>8
<1> QED
  BY <1>2, <1>3

(* A job goes on, its once having taken effect or not.                       *)
LEMMA RunStep ==
    ASSUME ChiefInv, NEW r \in DOMAIN runs, Running(r),
           UNCHANGED effects \/ TakesEffect(runs[r]),
           \/ runs' = [runs EXCEPT ![r] = AfterCall(@)]
           \/ runs' = [runs EXCEPT ![r] = AfterFailure(@)],
           UNCHANGED <<planned, pendingConfirmations>>
    PROVE  ChiefInv'
<1> DEFINE job == runs[r]
           next == runs'[r]
<1>1. /\ planned \in Seq(MessageRecord) /\ TokensCounted /\ runs \in Seq(RunRecord)
      /\ job \in RunRecord /\ RunOK(job) /\ ActsWithin(job) /\ job.token \in DOMAIN planned
  BY DEF ChiefInv, ChiefTypeOK, RunsWithin, RunOK
<1>2. next \in {AfterCall(job), AfterFailure(job)} /\ DOMAIN runs' = DOMAIN runs
      /\ \A s \in DOMAIN runs \ {r} : runs'[s] = runs[s]
  BY <1>1
<1>3. /\ next \in RunRecord /\ next.token = job.token /\ RunOK(next)
      /\ \A i \in DOMAIN planned[job.token].plans, c \in Nat :
           MayHaveActed(next, i, c) >=
               MayHaveActed(job, i, c) + (IF i = job.step /\ c = job.call /\ Calling(job) THEN 1 ELSE 0)
  <2> HIDE DEF job, next
  <2>1. job.step <= Len(planned[job.token].plans)
    BY DEF Running, job
  <2> QED
    BY <1>1, <1>2, <2>1, RunGoesOn
<1>4. runs' \in Seq(RunRecord)
  <2>1. runs' = [runs EXCEPT ![r] = next]
    BY <1>1
  <2> QED
    BY <1>1, <1>3, <2>1, OneReplaced
<1>5. TokensCounted' /\ \A msg \in DOMAIN planned \ {job.token} : effects'[msg] = effects[msg]
  <2>1. CASE UNCHANGED effects
    BY <1>1, <2>1 DEF TokensCounted
  <2>2. CASE TakesEffect(runs[r])
    BY <2>2, CallActs
  <2> QED
    BY <2>1, <2>2
<1>6. ASSUME NEW i \in DOMAIN planned[job.token].plans, NEW c \in DOMAIN effects'[job.token][i]
      PROVE  /\ c \in DOMAIN effects[job.token][i]
             /\ effects'[job.token][i][c] <= effects[job.token][i][c] +
                   (IF i = job.step /\ c = job.call /\ Calling(job) THEN 1 ELSE 0)
             /\ effects[job.token][i][c] \in Nat /\ effects'[job.token][i][c] \in Nat /\ c \in Nat
  <2> DEFINE more == IF i = job.step /\ c = job.call /\ Calling(job) THEN 1 ELSE 0
  <2>1. effects[job.token][i] \in Seq(Nat)
    BY <1>1, PlanCounts
  <2>2. CASE UNCHANGED effects
    BY <1>6, <2>1, <2>2
  <2>3. CASE TakesEffect(runs[r])
    <3>1. c \in DOMAIN effects[job.token][i] /\ effects'[job.token][i][c] = effects[job.token][i][c] + more
      BY <1>6, <2>3, CallActs
    <3>2. more \in {0, 1}
      OBVIOUS
    <3>3. effects[job.token][i][c] \in Nat /\ c \in Nat
      BY <2>1, <3>1
    <3> HIDE DEF job
    <3> QED
      BY <3>1, <3>2, <3>3
  <2> QED
    BY <2>2, <2>3
<1>7. ActsWithin(runs[r])'
  <2>1. ASSUME NEW i \in DOMAIN planned[job.token].plans, NEW c \in DOMAIN effects'[job.token][i]
        PROVE  effects'[job.token][i][c] <= MayHaveActed(next, i, c)
    <3>1. c \in Nat /\ c \in DOMAIN effects[job.token][i]
      BY <1>6, <2>1
    <3>2. effects[job.token][i][c] <= MayHaveActed(job, i, c)
      BY <1>1, <3>1 DEF ActsWithin
    <3>3. MayHaveActed(job, i, c) \in Int /\ MayHaveActed(next, i, c) \in Int
      <4> HIDE DEF job, next
      <4> QED
        BY <1>1, <1>3, <2>1, <3>1, AtMostAttempts
    <3> DEFINE more == IF i = job.step /\ c = job.call /\ Calling(job) THEN 1 ELSE 0
    <3>4. MayHaveActed(next, i, c) >= MayHaveActed(job, i, c) + more
      BY <1>3, <2>1, <3>1
    <3>5. effects'[job.token][i][c] <= effects[job.token][i][c] + more
      BY <1>6, <2>1
    <3>6. more \in Nat
      OBVIOUS
    <3> HIDE DEF more, job, next
    <3> QED
      BY <1>6, <2>1, <3>2, <3>3, <3>4, <3>5, <3>6
  <2>2. \A i, c : MayHaveActed(runs[r], i, c)' = MayHaveActed(next, i, c)
    BY DEF MayHaveActed
  <2>3. runs'[r].token = job.token
    BY <1>3
  <2> QED
    BY <2>1, <2>2, <2>3 DEF ActsWithin
<1>8. ASSUME NEW s \in DOMAIN runs' PROVE RunOK(runs[s])' /\ ActsWithin(runs[s])'
  <2>1. CASE s = r
    BY <1>3, <1>7, <2>1 DEF RunOK
  <2>2. CASE s # r
    <3>1. /\ runs'[s] = runs[s] /\ s \in DOMAIN runs /\ RunOK(runs[s]) /\ ActsWithin(runs[s])
          /\ runs[s].token \in DOMAIN planned /\ runs[s].token # job.token
      BY <1>2, <2>2 DEF ChiefInv, ChiefTypeOK, RunsWithin, OneRunEach, RunOK
    <3>2. SameMessage(runs[s].token)
      BY <1>5, <3>1 DEF SameMessage
    <3> QED
      BY <3>1, <3>2, RunKept
  <2> QED
    BY <2>1, <2>2
<1>9. \A s \in DOMAIN runs : runs'[s].token = runs[s].token
  BY <1>2, <1>3
<1>10. OneRunEach' /\ PendingNotRun'
  BY <1>2, <1>9 DEF ChiefInv, OneRunEach, PendingNotRun, NotRun
<1>11. ActedInRuns'
  <2>1. ASSUME NEW msg \in DOMAIN planned, NotRun(msg)' PROVE Untouched(msg)'
    <3>1. NotRun(msg) /\ msg # job.token
      BY <1>2, <1>9, <2>1 DEF NotRun
    <3>2. Untouched(msg) /\ effects'[msg] = effects[msg]
      BY <1>5, <3>1 DEF ChiefInv, ActedInRuns
    <3> QED
      BY <3>2 DEF Untouched
  <2> QED
    BY <2>1 DEF ActedInRuns
<1> QED
  BY <1>1, <1>4, <1>5, <1>8, <1>10, <1>11 DEF ChiefInv, ChiefTypeOK, RunsWithin

(* A message that waits, one that is executed at once, and a confirmation.   *)
LEMMA MessageKeeps ==
    ASSUME ChiefInv, NEW operator \in Operator, NEW desk \in DeskOf(operator),
           NEW plans \in Plans(desk, operator), Message(operator, desk, plans)
    PROVE  ChiefInv'
<1> DEFINE m == [desk |-> desk, owner |-> operator, plans |-> plans]
<1>1. PICK new : new = Len(planned) + 1
  OBVIOUS
<1>2. desk \in {"chief", "chief2"}
  BY DEF DeskOf
<1>3. m \in MessageRecord /\ m.plans = plans
  BY <1>2, PlansPlan DEF MessageRecord
<1>4. planned' = Append(planned, m) /\ effects' = Append(effects, NoEffect(m.plans))
  BY <1>3 DEF Message
<1> HIDE DEF m
<1>5. /\ planned' \in Seq(MessageRecord) /\ TokensCounted'
      /\ DOMAIN planned' = DOMAIN planned \cup {new} /\ new \notin DOMAIN planned /\ new \in Nat
      /\ Untouched(new)'
      /\ \A msg \in DOMAIN planned : SameMessage(msg)
  BY <1>1, <1>3, <1>4, MessageCounted DEF ChiefInv
<1>6. NotRun(new) /\ new \notin pendingConfirmations
  BY <1>5 DEF ChiefInv, ChiefTypeOK, RunOK, NotRun
<1>7. /\ \A msg \in pendingConfirmations' : msg \in DOMAIN planned' /\ NotRun(msg)
      /\ UNCHANGED runs \/ (executePlans(new) /\ new \notin pendingConfirmations')
  <2>1. \/ pendingConfirmations' = pendingConfirmations \cup {new} /\ UNCHANGED runs
        \/ pendingConfirmations' = pendingConfirmations /\ executePlans(new)
    BY <1>1 DEF Message
  <2>2. \A msg \in pendingConfirmations : msg \in DOMAIN planned /\ NotRun(msg)
    BY DEF ChiefInv, ChiefTypeOK, PendingNotRun
  <2> QED
    BY <1>5, <1>6, <2>1, <2>2
<1> QED
  BY <1>5, <1>6, <1>7, OneMoreRun

(* A confirmation removes the token and starts the one run of it. *)
LEMMA ConfirmKeeps ==
    ASSUME ChiefInv, NEW operator, NEW msg, Confirm(operator, msg)
    PROVE  ChiefInv'
<1>1. /\ msg \in pendingConfirmations /\ msg \in DOMAIN planned
      /\ pendingConfirmations' = pendingConfirmations \ {msg}
      /\ executePlans(msg) /\ planned' = planned /\ effects' = effects
  BY DEF Confirm, UseToken, ChiefInv, ChiefTypeOK
<1>2. NotRun(msg) /\ Untouched(msg)
  BY <1>1 DEF ChiefInv, PendingNotRun, ActedInRuns
<1>3. Untouched(msg)'
  BY <1>1, <1>2 DEF Untouched
<1>4. planned' \in Seq(MessageRecord) /\ TokensCounted'
  BY <1>1 DEF ChiefInv, ChiefTypeOK, TokensCounted
<1>5. \A t \in DOMAIN planned : SameMessage(t)
  BY <1>1 DEF SameMessage
<1>6. \A t \in pendingConfirmations' : t \in DOMAIN planned' /\ NotRun(t)
  BY <1>1 DEF ChiefInv, ChiefTypeOK, PendingNotRun
<1> QED
  BY <1>1, <1>2, <1>3, <1>4, <1>5, <1>6, OneMoreRun

(* Messages and runs stay; tokens may go.                                    *)
LEMMA TokensGo ==
    ASSUME ChiefInv, UNCHANGED <<planned, runs, effects>>, pendingConfirmations' \subseteq pendingConfirmations
    PROVE  ChiefInv'
BY DEF ChiefInv, ChiefTypeOK, TokensCounted, RunOK, OneRunEach, PendingNotRun, ActedInRuns, RunsWithin, NotRun,
       Untouched, ActsWithin, MayHaveActed

(* A restart of the web server forgets the tokens and ends the runs. *)
LEMMA RestartKeeps ==
    ASSUME ChiefInv, WebRestart
    PROVE  ChiefInv'
<1>1. /\ UNCHANGED <<planned, effects>> /\ pendingConfirmations' = {}
      /\ runs' = [r \in DOMAIN runs |-> RunOver(runs[r])] /\ runs \in Seq(RunRecord)
      /\ planned \in Seq(MessageRecord) /\ TokensCounted
  BY DEF WebRestart, ChiefInv, ChiefTypeOK
<1>2. ASSUME NEW r \in DOMAIN runs
      PROVE  /\ runs[r] \in RunRecord /\ RunOK(runs[r]) /\ ActsWithin(runs[r])
             /\ planned[runs[r].token].plans \in Seq(PlanRecord) /\ runs[r].token \in DOMAIN planned
             /\ runs'[r] \in RunRecord /\ runs'[r].token = runs[r].token
             /\ runs'[r].call = runs[r].call /\ runs'[r].attempt = runs[r].attempt
             /\ runs'[r].step = Len(planned[runs[r].token].plans) + 1
  <2>1. runs[r] \in RunRecord /\ RunOK(runs[r]) /\ ActsWithin(runs[r]) /\ runs[r].token \in DOMAIN planned
    <3>1. RunOK(runs[r]) /\ ActsWithin(runs[r])
      BY DEF ChiefInv, ChiefTypeOK, RunsWithin
    <3> QED
      BY <1>1, <3>1 DEF RunOK
  <2>2. planned[runs[r].token] \in MessageRecord
    BY <1>1, <2>1
  <2>3. planned[runs[r].token].plans \in Seq(PlanRecord)
    BY <2>2 DEF MessageRecord
  <2>4. Len(planned[runs[r].token].plans) + 1 \in Nat
    BY <2>3
  <2>5. runs'[r] = [runs[r] EXCEPT !.step = Len(planned[runs[r].token].plans) + 1]
    BY <1>1 DEF RunOver
  <2>6. /\ runs'[r] \in RunRecord /\ runs'[r].token = runs[r].token
        /\ runs'[r].call = runs[r].call /\ runs'[r].attempt = runs[r].attempt
        /\ runs'[r].step = Len(planned[runs[r].token].plans) + 1
    BY <2>1, <2>4, <2>5 DEF RunRecord
  <2> QED
    BY <2>1, <2>3, <2>6
<1>3. DOMAIN runs' = DOMAIN runs /\ runs' \in Seq(RunRecord)
  <2>1. DOMAIN runs = 1 .. Len(runs) /\ Len(runs) \in Nat
    BY <1>1
  <2>2. runs' = [r \in 1 .. Len(runs) |-> runs'[r]]
    BY <1>1, <2>1
  <2> QED
    BY <1>2, <2>1, <2>2
<1>4. ASSUME NEW r \in DOMAIN runs PROVE RunOK(runs[r])' /\ ActsWithin(runs[r])'
  <2> DEFINE plans == planned[runs[r].token].plans
  <2>1. DOMAIN plans = 1 .. Len(plans) /\ Len(plans) \in Nat
    BY <1>2
  <2>2. RunOK(runs[r])'
    <3>1. /\ runs'[r].token \in DOMAIN planned /\ runs'[r].call >= 1 /\ runs'[r].attempt >= 1
          /\ planned'[runs'[r].token].plans = plans
      BY <1>1, <1>2 DEF RunOK
    <3>2. runs'[r].step >= 1 /\ runs'[r].step \notin DOMAIN plans
      BY <1>2, <2>1
    <3> HIDE DEF plans
    <3> QED
      BY <1>1, <3>1, <3>2 DEF RunOK
  <2>3. ASSUME NEW i \in DOMAIN plans, NEW c \in DOMAIN effects[runs[r].token][i]
        PROVE  effects[runs[r].token][i][c] <= MayHaveActed(runs[r], i, c)'
    <3>1. /\ effects[runs[r].token][i][c] \in Nat /\ c \in Nat /\ plans[i].attempts \in {1, 2}
      <4>1. effects[runs[r].token][i] \in Seq(Nat) /\ plans[i].attempts \in {1, 2}
        BY <1>1, <1>2, PlanCounts
      <4> QED
        BY <2>3, <4>1
    <3>2. effects[runs[r].token][i][c] <= MayHaveActed(runs[r], i, c)
      BY <1>2, <2>3 DEF ActsWithin
    <3>3. MayHaveActed(runs[r], i, c) <= plans[i].attempts /\ MayHaveActed(runs[r], i, c) \in Int
      BY <1>1, <1>2, <3>1, AtMostAttempts
    <3>4. MayHaveActed(runs[r], i, c)' = plans[i].attempts
      BY <1>1, <1>2, <2>1 DEF MayHaveActed
    <3> HIDE DEF plans
    <3> QED
      BY <3>1, <3>2, <3>3, <3>4
  <2>4. ActsWithin(runs[r])'
    BY <1>1, <1>2, <2>3 DEF ActsWithin
  <2> QED
    BY <2>2, <2>4
<1>5. TokensCounted' /\ planned' \in Seq(MessageRecord)
  BY <1>1 DEF TokensCounted
<1>6. OneRunEach' /\ PendingNotRun'
  BY <1>1, <1>2, <1>3 DEF ChiefInv, OneRunEach, PendingNotRun
<1>7. ActedInRuns'
  BY <1>1, <1>2, <1>3 DEF ChiefInv, ActedInRuns, NotRun, Untouched
<1> QED
  BY <1>1, <1>3, <1>4, <1>5, <1>6, <1>7 DEF ChiefInv, ChiefTypeOK, RunsWithin

(* Every step of the assistant keeps the invariant. *)
LEMMA ChiefStep == ChiefInv /\ [ChiefNext]_chiefVars => ChiefInv'
<1> SUFFICES ASSUME ChiefInv, [ChiefNext]_chiefVars PROVE ChiefInv'
  OBVIOUS
<1>1. ASSUME NEW operator \in Operator, NEW desk \in DeskOf(operator), NEW plans \in Plans(desk, operator),
             Message(operator, desk, plans)
      PROVE  ChiefInv'
  BY <1>1, MessageKeeps
<1>2. ASSUME NEW operator, NEW msg, Confirm(operator, msg) PROVE ChiefInv'
  BY <1>2, ConfirmKeeps
<1>3. ASSUME NEW msg \in pendingConfirmations, Expire(msg) PROVE ChiefInv'
  BY <1>3, TokensGo DEF Expire
<1>4. ASSUME NEW r \in DOMAIN runs, Executed(r) PROVE ChiefInv'
  BY <1>4, RunStep DEF Executed
<1>5. ASSUME NEW r \in DOMAIN runs, CallFails(r) PROVE ChiefInv'
  BY <1>5, RunStep DEF CallFails
<1>6. CASE WebRestart
  BY <1>6, RestartKeeps
<1>7. ASSUME NEW answer \in answers, PageAnswered(answer) \/ PageFails(answer) PROVE ChiefInv'
  BY <1>7, TokensGo DEF PageAnswered, PageFails
<1>8. CASE UNCHANGED chiefVars
  BY <1>8, TokensGo DEF chiefVars
<1> QED
  BY <1>1, <1>2, <1>3, <1>4, <1>5, <1>6, <1>7, <1>8 DEF ChiefNext, confirmPending, ConfirmChat

(* The invariant holds before the first message. *)
LEMMA ChiefInitially == ChiefInit => ChiefInv
<1> SUFFICES ASSUME ChiefInit PROVE ChiefInv
  OBVIOUS
<1>1. /\ planned = <<>> /\ runs = <<>> /\ effects = <<>> /\ pendingConfirmations = {}
  BY DEF ChiefInit
<1>2. /\ planned \in Seq(MessageRecord) /\ runs \in Seq(RunRecord) /\ effects \in Seq(Seq(Seq(Nat)))
      /\ DOMAIN planned = {} /\ DOMAIN runs = {} /\ Len(effects) = Len(planned)
  BY <1>1
<1> QED
  BY <1>1, <1>2 DEF ChiefInv, ChiefTypeOK, TokensCounted, OneRunEach, PendingNotRun, ActedInRuns, RunsWithin

(* No call of a plan takes effect more often than its plan may be tried, and *)
(* none of a sensitive message before its token is gone, however messages,   *)
(* confirmations, failures and restarts interleave (the operations           *)
(* assistants of the web server).                                            *)
THEOREM AssistantsActOnce == ChiefSpec => []ActsOnce
<1>1. ChiefInv => ActsOnce
  <2> SUFFICES ASSUME ChiefInv, NEW msg \in DOMAIN planned, NEW i \in DOMAIN planned[msg].plans,
                      NEW c \in DOMAIN effects[msg][i]
               PROVE  /\ effects[msg][i][c] <= planned[msg].plans[i].attempts
                      /\ effects[msg][i][c] > 0 => msg \notin pendingConfirmations
    BY DEF ActsOnce
  <2>1. planned \in Seq(MessageRecord) /\ TokensCounted
    BY DEF ChiefInv, ChiefTypeOK
  <2>2. /\ effects[msg][i] \in Seq(Nat) /\ i \in DOMAIN effects[msg]
        /\ planned[msg].plans[i].attempts \in {1, 2}
    BY <2>1, PlanCounts
  <2>3. effects[msg][i][c] \in Nat /\ c \in Nat
    BY <2>2
  <2>4. NotRun(msg) => effects[msg][i][c] = 0
    BY <2>2 DEF ChiefInv, ActedInRuns, Untouched
  <2>5. msg \in pendingConfirmations => NotRun(msg)
    BY DEF ChiefInv, PendingNotRun
  <2>6. ASSUME NEW r \in DOMAIN runs, runs[r].token = msg
        PROVE  effects[msg][i][c] <= planned[msg].plans[i].attempts
    <3>1. runs[r] \in RunRecord /\ RunOK(runs[r]) /\ ActsWithin(runs[r])
      BY DEF ChiefInv, ChiefTypeOK, RunsWithin
    <3>2. effects[msg][i][c] <= MayHaveActed(runs[r], i, c)
      BY <2>6, <3>1 DEF ActsWithin
    <3>3. /\ MayHaveActed(runs[r], i, c) <= planned[msg].plans[i].attempts
          /\ MayHaveActed(runs[r], i, c) \in Int
      BY <2>1, <2>3, <2>6, <3>1, AtMostAttempts
    <3> QED
      BY <2>2, <2>3, <3>2, <3>3
  <2> QED
    BY <2>2, <2>3, <2>4, <2>5, <2>6 DEF NotRun
<1> QED
  BY ChiefInitially, ChiefStep, <1>1, PTL DEF ChiefSpec

(* What is on its way to a page says what its button confirms.               *)
AnswersMatch == \A answer \in answers : answer.token \in {NoToken, answer.shows}
PageInv == AnswersMatch /\ ConfirmsWhatIsShown

(* What the page shows and the token its button sends change together. *)
LEMMA PageStep == PageInv /\ [ChiefNext]_chiefVars => PageInv'
<1> SUFFICES ASSUME PageInv, [ChiefNext]_chiefVars PROVE PageInv'
  OBVIOUS
<1> USE DEF PageInv, AnswersMatch, ConfirmsWhatIsShown
<1>1. ASSUME NEW operator \in Operator, NEW desk \in DeskOf(operator), NEW plans \in Plans(desk, operator),
             Message(operator, desk, plans)
      PROVE  PageInv'
  BY <1>1 DEF Message, Answer
<1>2. ASSUME NEW operator, NEW msg, Confirm(operator, msg) PROVE PageInv'
  BY <1>2 DEF Confirm, Answer
<1>3. ASSUME NEW answer \in answers, PageAnswered(answer) PROVE PageInv'
  BY <1>3 DEF PageAnswered, Shown
<1>4. ASSUME NEW answer \in answers, PageFails(answer) PROVE PageInv'
  BY <1>4 DEF PageFails
<1>5. CASE WebRestart
  BY <1>5 DEF WebRestart
<1>6. CASE UNCHANGED <<answers, page>>
  BY <1>6
<1> QED
  BY <1>1, <1>2, <1>3, <1>4, <1>5, <1>6
  DEF ChiefNext, confirmPending, ConfirmChat, Expire, Executed, CallFails, chiefVars

(* The button of the page confirms the plan the page shows, whatever order   *)
(* the answers come back in (the assistant's page of the administrator).     *)
THEOREM ButtonsConfirmWhatIsShown == ChiefSpec => []ConfirmsWhatIsShown
<1>1. ChiefInit => PageInv
  BY DEF ChiefInit, PageInv, AnswersMatch, ConfirmsWhatIsShown
<1>2. PageInv => ConfirmsWhatIsShown
  BY DEF PageInv
<1> QED
  BY <1>1, <1>2, PageStep, PTL DEF ChiefSpec

------------------------------------------------------------------------------
(* The bots of the players. *)

(* A bot on record is an NPC, or that of the player it is named for; a list  *)
(* of bots is empty or names the one of its player.                          *)
IsNpc(id) == id = BackgroundBot(id[2])
IsOwnersBot(id) == id = OwnerBot(id[2])
RegistryOK(r) ==
    \A id \in DOMAIN r : (IsNpc(id) /\ r[id] = NpcRecord) \/ (IsOwnersBot(id) /\ r[id] = OwnerRecord(id[2]))
OwnedOK(owned) == \A p \in DOMAIN owned : owned[p] \in {<<>>, <<OwnerBot(p)>>}

(* What is saved: of the bots on record those of the players only.           *)
OwnersOnly(r) == \A id \in DOMAIN r : IsOwnersBot(id) /\ r[id] = OwnerRecord(id[2])
SavedOK(t) ==
    /\ t = [owned |-> t.owned, registry |-> t.registry, counters |-> t.counters]
    /\ OwnedOK(t.owned) /\ OwnersOnly(t.registry)

NpcIds(ids) == {id \in ids : IsNpc(id)}
BackgroundOK(background) ==
    /\ Len(background) \in 0 .. MaxBots /\ DOMAIN background = 1 .. Len(background)
    /\ \A i \in DOMAIN background : IsNpc(background[i])

EveryPlayerHasHis ==
    \A p \in DOMAIN ownedBotIds : ownedBotIds[p] = <<OwnerBot(p)>> /\ OwnerBot(p) \in bots
FleetRuns ==
    /\ DOMAIN botRegistry = bots /\ RegistryOK(botRegistry)
    /\ EveryPlayerHasHis
FleetInv ==
    /\ FleetRuns
    /\ BackgroundOK(backgroundBotIds) /\ NpcIds(bots) = ToSet(backgroundBotIds)
    /\ SavedOK(fleetTables) /\ SavedOK(fleetFile)

(* The id of a bot tells what it is. *)
LEMMA NamesDiffer ==
    ASSUME NEW p, NEW i
    PROVE  /\ ~IsNpc(OwnerBot(p)) /\ IsOwnersBot(OwnerBot(p)) /\ IsNpc(BackgroundBot(i)) /\ OwnerBot(p)[2] = p
           /\ OwnerRecord(p) # NpcRecord /\ OwnerRecord(p).owner = p /\ OwnerRecord(p).duty # "npc"
           /\ NpcRecord.duty = "npc" /\ NpcRecord.owner = NoOwner
BY DEF IsNpc, IsOwnersBot, OwnerBot, BackgroundBot, OwnerRecord, NpcRecord

(* The bot of a player is no NPC. *)
LEMMA KindsDiffer ==
    ASSUME NEW id, IsOwnersBot(id)
    PROVE  ~IsNpc(id)
BY DEF IsNpc, IsOwnersBot, OwnerBot, BackgroundBot

(* Every profile has its primary bot listed. *)
LEMMA PrimariesNamed ==
    ASSUME NEW owned, OwnedOK(owned)
    PROVE  /\ DOMAIN WithPrimary(owned) = DOMAIN owned
           /\ \A p \in DOMAIN owned : WithPrimary(owned)[p] = <<OwnerBot(p)>> /\ OwnerBot(p) \in Primaries(owned)
           /\ \A id \in Primaries(owned) : IsOwnersBot(id)
<1>1. DOMAIN WithPrimary(owned) = DOMAIN owned
  BY DEF WithPrimary
<1>2. ASSUME NEW p \in DOMAIN owned
      PROVE  WithPrimary(owned)[p] = <<OwnerBot(p)>>
  BY DEF WithPrimary, OwnedOK
<1>3. ASSUME NEW p \in DOMAIN owned
      PROVE  Head(WithPrimary(owned)[p]) = OwnerBot(p)
  BY <1>2
<1> QED
  BY <1>1, <1>2, <1>3, NamesDiffer DEF Primaries

(* A delegation registers the bot of every player, and starts it.            *)
LEMMA DelegationKeeps ==
    ASSUME NEW owned, NEW running, NEW registry, OwnedOK(owned), RegistryOK(registry), DOMAIN registry = running,
           Delegation(owned, running, registry)
    PROVE  FleetRuns' /\ NpcIds(bots') = NpcIds(running)
<1>1. /\ ownedBotIds' = WithPrimary(owned) /\ bots' = running \cup Primaries(owned)
      /\ botRegistry' = [id \in DOMAIN registry \cup Primaries(owned) |->
                            IF id \in DOMAIN registry THEN registry[id] ELSE OwnerRecord(id[2])]
  BY DEF Delegation
<1>2. DOMAIN botRegistry' = bots'
  BY <1>1
<1>3. ASSUME NEW id \in DOMAIN botRegistry'
      PROVE  \/ IsNpc(id) /\ botRegistry'[id] = NpcRecord
             \/ IsOwnersBot(id) /\ botRegistry'[id] = OwnerRecord(id[2])
  <2>1. CASE id \in DOMAIN registry
    BY <1>1, <2>1 DEF RegistryOK
  <2>2. CASE id \notin DOMAIN registry
    BY <1>1, <1>3, <2>2, PrimariesNamed
  <2> QED
    BY <2>1, <2>2
<1>4. RegistryOK(botRegistry')
  BY <1>3 DEF RegistryOK
<1>5. EveryPlayerHasHis'
  BY <1>1, PrimariesNamed DEF EveryPlayerHasHis
<1>6. NpcIds(bots') = NpcIds(running)
  BY <1>1, PrimariesNamed, KindsDiffer DEF NpcIds
<1> QED
  BY <1>2, <1>4, <1>5, <1>6 DEF FleetRuns

(* The length of a sequence that is written as a function. *)
LEMMA FunctionLen ==
    ASSUME NEW n \in Nat, NEW f, f = [i \in 1 .. n |-> f[i]]
    PROVE  Len(f) = n /\ DOMAIN f = 1 .. n
<1>1. f \in Seq({f[i] : i \in 1 .. n})
  OBVIOUS
<1> QED
  BY <1>1

(* The list of the NPCs stays one when it is cut or filled up. *)
LEMMA NpcsNamed ==
    ASSUME NEW count \in Nat, NEW background, BackgroundOK(background), NEW next
    PROVE  BackgroundOK(NpcsFor(count, background, next))
<1> DEFINE n == IF count > MaxBots THEN MaxBots ELSE count
           npcs == NpcsFor(count, background, next)
<1>1. n \in Nat /\ n <= MaxBots
  BY FleetAssumption
<1>2. npcs = [i \in 1 .. n |->
                 IF i <= Len(background) THEN background[i] ELSE BackgroundBot(next + i - 1 - Len(background))]
  BY DEF NpcsFor
<1> HIDE DEF n, npcs
<1>3. Len(npcs) = n /\ DOMAIN npcs = 1 .. n
  BY <1>1, <1>2, FunctionLen
<1>4. ASSUME NEW i \in 1 .. n PROVE IsNpc(npcs[i])
  <2>1. CASE i <= Len(background)
    <3>1. npcs[i] = background[i] /\ i \in DOMAIN background
      BY <1>1, <1>2, <2>1 DEF BackgroundOK
    <3> QED
      BY <3>1 DEF BackgroundOK
  <2>2. CASE ~(i <= Len(background))
    BY <1>2, <2>2, NamesDiffer
  <2> QED
    BY <2>1, <2>2
<1> QED
  BY <1>1, <1>3, <1>4, FleetAssumption DEF BackgroundOK, npcs

(* Who is on that list is an NPC. *)
LEMMA NpcsOfSeq ==
    ASSUME NEW background, BackgroundOK(background)
    PROVE  \A id \in ToSet(background) : IsNpc(id)
BY DEF ToSet, BackgroundOK

(* A reconciliation leaves the bots of the players and as many NPCs as are   *)
(* asked for, each with a record.                                            *)
LEMMA ReconcileKeeps ==
    ASSUME NEW count \in Nat, NEW owned, NEW running, NEW registry, NEW background, NEW counted,
           OwnedOK(owned), RegistryOK(registry), DOMAIN registry = running,
           BackgroundOK(background), NpcIds(running) = ToSet(background),
           ReconcileTo(count, owned, running, registry, background, counted)
    PROVE  FleetRuns' /\ BackgroundOK(backgroundBotIds') /\ NpcIds(bots') = ToSet(backgroundBotIds')
<1> DEFINE npcs == NpcsFor(count, background, counted.background)
           stopped == ToSet(background) \ ToSet(npcs)
           made == ToSet(npcs) \ ToSet(background)
           registered == [id \in (DOMAIN registry \ stopped) \cup made |->
                             IF id \in made THEN NpcRecord ELSE registry[id]]
<1>1. /\ backgroundBotIds' = npcs
      /\ Delegation(owned, (running \ stopped) \cup made, registered)
  BY DEF ReconcileTo
<1>2. BackgroundOK(npcs) /\ (\A id \in ToSet(npcs) : IsNpc(id)) /\ \A id \in ToSet(background) : IsNpc(id)
  BY NpcsNamed, NpcsOfSeq
<1>3. DOMAIN registered = (running \ stopped) \cup made
  OBVIOUS
<1>4. RegistryOK(registered)
  BY <1>2 DEF RegistryOK
<1>5. NpcIds((running \ stopped) \cup made) = ToSet(npcs)
  <2> HIDE DEF npcs
  <2> QED
    BY <1>2 DEF NpcIds
<1> HIDE DEF npcs, stopped, made, registered
<1>6. FleetRuns' /\ NpcIds(bots') = NpcIds((running \ stopped) \cup made)
  BY <1>1, <1>3, <1>4, DelegationKeeps
<1> QED
  BY <1>1, <1>2, <1>5, <1>6

(* A set of one bot at most makes a list of one at most. *)
LEMMA OneBotListed ==
    ASSUME NEW x, NEW S, S \subseteq {x}
    PROVE  SetToSeq(S) \in {<<>>, <<x>>}
<1>1. CASE S = {}
  <2>1. Cardinality(S) = 0
    BY <1>1, FS_EmptySet
  <2>2. <<>> \in [1 .. 0 -> S] /\ IsInjective(<<>>)
    BY DEF IsInjective
  <2>3. SetToSeq(S) \in [1 .. 0 -> S]
    BY <2>1, <2>2 DEF SetToSeq
  <2>4. SetToSeq(S) = <<>>
    BY <2>3
  <2> QED
    BY <2>4
<1>2. CASE S = {x}
  <2>1. Cardinality(S) = 1
    BY <1>2, FS_Singleton
  <2>2. <<x>> \in [1 .. 1 -> S] /\ IsInjective(<<x>>)
    BY <1>2 DEF IsInjective
  <2>3. SetToSeq(S) \in [1 .. 1 -> S]
    BY <2>1, <2>2 DEF SetToSeq
  <2>4. SetToSeq(S) = <<x>>
    BY <1>2, <2>3
  <2> QED
    BY <2>4
<1> QED
  BY <1>1, <1>2

(* What the tables hold after a list, or a list and the records, were        *)
(* written.                                                                  *)
LEMMA RecordsWritten ==
    ASSUME NEW t, SavedOK(t), NEW o, NEW r
    PROVE  /\ [t EXCEPT !.owned = o] = [owned |-> o, registry |-> t.registry, counters |-> t.counters]
           /\ [t EXCEPT !.owned = o, !.registry = r] = [owned |-> o, registry |-> r, counters |-> t.counters]
<1>1. [t EXCEPT !.owned = o] = [owned |-> o, registry |-> t.registry, counters |-> t.counters]
  BY DEF SavedOK
<1>2. [t EXCEPT !.owned = o, !.registry = r] = [[t EXCEPT !.owned = o] EXCEPT !.registry = r]
  OBVIOUS
<1>3. \A a, b, c, d : [[owned |-> a, registry |-> b, counters |-> c] EXCEPT !.registry = d]
                        = [owned |-> a, registry |-> d, counters |-> c]
  OBVIOUS
<1>4. ASSUME NEW u, u = [owned |-> o, registry |-> t.registry, counters |-> t.counters]
      PROVE  [u EXCEPT !.registry = r] = [owned |-> o, registry |-> r, counters |-> t.counters]
  BY <1>3, <1>4
<1>5. [[t EXCEPT !.owned = o] EXCEPT !.registry = r] = [owned |-> o, registry |-> r, counters |-> t.counters]
  BY <1>1, <1>4
<1> QED
  BY <1>1, <1>2, <1>5

(* What a save writes, the whole of it or a part.                            *)
LEMMA SavedOwners ==
    ASSUME FleetRuns, NEW owners \in SUBSET DOMAIN OwnersBots(botRegistry)
    PROVE  OwnersOnly(Restrict(botRegistry, owners)) /\ OwnersOnly(OwnersBots(botRegistry))
<1>1. DOMAIN OwnersBots(botRegistry) = {id \in DOMAIN botRegistry : botRegistry[id].owner # NoOwner}
  BY DEF OwnersBots, Restrict
<1>2. ASSUME NEW id \in DOMAIN botRegistry, botRegistry[id].owner # NoOwner
      PROVE  IsOwnersBot(id) /\ botRegistry[id] = OwnerRecord(id[2])
  BY <1>2, NamesDiffer DEF FleetRuns, RegistryOK
<1> QED
  BY <1>1, <1>2 DEF OwnersOnly, Restrict, OwnersBots

(* The lists that run can be saved, whole or in part. *)
LEMMA SavedLists ==
    ASSUME FleetRuns, NEW profiles \in SUBSET DOMAIN ownedBotIds
    PROVE  OwnedOK(Restrict(ownedBotIds, profiles)) /\ OwnedOK(ownedBotIds)
BY DEF FleetRuns, EveryPlayerHasHis, OwnedOK, Restrict

(* Nothing saved is in order. *)
LEMMA NoListsSaved == OwnedOK(NoProfiles) /\ OwnersOnly(NoBots)
BY DEF OwnedOK, NoProfiles, OwnersOnly, NoBots

(* What a start finds is in order again, whatever part of a save it finds.   *)
LEMMA LoadedOK ==
    ASSUME NEW t, SavedOK(t)
    PROVE  OwnedOK(Loaded(t).owned) /\ OwnersOnly(Loaded(t).registry)
<1> DEFINE lists == [p \in DOMAIN t.owned |-> SetToSeq({id \in DOMAIN t.registry : t.registry[id].owner = p})]
<1>1. Loaded(t) = [t EXCEPT !.owned = lists]
  BY DEF Loaded
<1>2. ASSUME NEW p \in DOMAIN t.owned
      PROVE  lists[p] \in {<<>>, <<OwnerBot(p)>>}
  <2>1. {id \in DOMAIN t.registry : t.registry[id].owner = p} \subseteq {OwnerBot(p)}
    BY NamesDiffer DEF SavedOK, OwnersOnly, IsOwnersBot
  <2> QED
    BY <2>1, OneBotListed
<1>3. OwnedOK(lists)
  BY <1>2 DEF OwnedOK
<1> HIDE DEF lists
<1>4. Loaded(t) = [owned |-> lists, registry |-> t.registry, counters |-> t.counters]
  BY <1>1, RecordsWritten
<1> QED
  BY <1>3, <1>4 DEF SavedOK

(* What is on record is not an NPC's. *)
LEMMA NoNpcsSaved ==
    ASSUME NEW r, OwnersOnly(r)
    PROVE  RegistryOK(r) /\ NpcIds(DOMAIN r) = {}
BY KindsDiffer DEF OwnersOnly, RegistryOK, NpcIds

(* No NPCs make an empty list. *)
LEMMA NoBackground == BackgroundOK(<<>>) /\ ToSet(<<>>) = {}
BY FleetAssumption DEF BackgroundOK, ToSet

(* Every step of the runtime keeps the invariant. *)
LEMMA FleetStep == FleetInv /\ [FleetNext]_fleetVars => FleetInv'
<1> SUFFICES ASSUME FleetInv, [FleetNext]_fleetVars PROVE FleetInv'
  OBVIOUS
<1>0. /\ FleetRuns /\ BackgroundOK(backgroundBotIds) /\ NpcIds(bots) = ToSet(backgroundBotIds)
      /\ SavedOK(fleetTables) /\ SavedOK(fleetFile)
      /\ OwnedOK(ownedBotIds) /\ RegistryOK(botRegistry) /\ DOMAIN botRegistry = bots
  BY SavedLists DEF FleetInv, FleetRuns
<1>a. ASSUME UNCHANGED <<ownedBotIds, bots, botRegistry, backgroundBotIds>>
      PROVE  FleetRuns' /\ BackgroundOK(backgroundBotIds') /\ NpcIds(bots') = ToSet(backgroundBotIds')
  BY <1>0, <1>a DEF FleetRuns, EveryPlayerHasHis
<1>b. ASSUME UNCHANGED <<fleetTables, fleetFile>> PROVE SavedOK(fleetTables') /\ SavedOK(fleetFile')
  BY <1>0, <1>b
<1>1. CASE CreateProfileWithBot
  <2> DEFINE p == counters.profile
             owned == [q \in DOMAIN ownedBotIds \cup {p} |-> IF q = p THEN <<OwnerBot(p)>> ELSE ownedBotIds[q]]
             registered == [id \in DOMAIN botRegistry \cup {OwnerBot(p)} |->
                               IF id = OwnerBot(p) THEN OwnerRecord(p) ELSE botRegistry[id]]
  <2>1. /\ Delegation(owned, bots \cup {OwnerBot(p)}, registered)
        /\ UNCHANGED <<backgroundBotIds, fleetTables, fleetFile>>
    BY <1>1 DEF CreateProfileWithBot
  <2>2. OwnedOK(owned)
    BY <1>0 DEF OwnedOK
  <2>3. RegistryOK(registered) /\ DOMAIN registered = bots \cup {OwnerBot(p)}
    BY <1>0, NamesDiffer DEF RegistryOK
  <2>4. NpcIds(bots \cup {OwnerBot(p)}) = NpcIds(bots)
    BY NamesDiffer DEF NpcIds
  <2> HIDE DEF owned, registered, p
  <2>5. FleetRuns' /\ NpcIds(bots') = NpcIds(bots)
    BY <2>1, <2>2, <2>3, <2>4, DelegationKeeps
  <2> QED
    BY <1>0, <1>b, <2>1, <2>5 DEF FleetInv
<1>2. ASSUME NEW count \in 0 .. MaxBots + 1, AgentsReconcile(count) PROVE FleetInv'
  <2>1. count \in Nat
    BY FleetAssumption
  <2>2. /\ ReconcileTo(count, ownedBotIds, bots, botRegistry, backgroundBotIds, counters)
        /\ UNCHANGED <<fleetTables, fleetFile>>
    BY <1>2 DEF AgentsReconcile
  <2>3. FleetRuns' /\ BackgroundOK(backgroundBotIds') /\ NpcIds(bots') = ToSet(backgroundBotIds')
    BY <1>0, <2>1, <2>2, ReconcileKeeps
  <2> QED
    BY <1>b, <2>2, <2>3 DEF FleetInv
<1>3. CASE SaveFleet
  <2>1. fleetTables' = PersistedFleet /\ fleetFile' = PersistedFleet
    BY <1>3 DEF SaveFleet
  <2>2. SavedOK(PersistedFleet)
    BY <1>0, SavedOwners DEF SavedOK, PersistedFleet
  <2>3. UNCHANGED <<ownedBotIds, bots, botRegistry, backgroundBotIds>>
    BY <1>3 DEF SaveFleet
  <2> QED
    BY <1>a, <2>1, <2>2, <2>3 DEF FleetInv
<1>4. ASSUME NEW profiles \in SUBSET DOMAIN ownedBotIds, NEW owners \in SUBSET DOMAIN OwnersBots(botRegistry),
             SavePart(profiles, owners)
      PROVE  FleetInv'
  <2>1. /\ fleetTables' = [fleetTables EXCEPT !.owned = Restrict(ownedBotIds, profiles),
                                              !.registry = Restrict(botRegistry, owners)]
        /\ UNCHANGED <<ownedBotIds, bots, botRegistry, backgroundBotIds, fleetFile>>
    BY <1>4 DEF SavePart
  <2>2. fleetTables' = [owned |-> Restrict(ownedBotIds, profiles), registry |-> Restrict(botRegistry, owners),
                        counters |-> fleetTables.counters]
    BY <1>0, <2>1, RecordsWritten
  <2>3. OwnedOK(Restrict(ownedBotIds, profiles)) /\ OwnersOnly(Restrict(botRegistry, owners))
    BY <1>0, SavedLists, SavedOwners
  <2>4. SavedOK(fleetTables')
    BY <2>2, <2>3 DEF SavedOK
  <2> QED
    BY <1>0, <1>a, <2>1, <2>4 DEF FleetInv
<1>5. CASE SaveProfilesDeleted
  <2>1. /\ fleetTables' = [fleetTables EXCEPT !.owned = NoProfiles]
        /\ UNCHANGED <<ownedBotIds, bots, botRegistry, backgroundBotIds, fleetFile>>
    BY <1>5 DEF SaveProfilesDeleted
  <2>2. fleetTables' = [owned |-> NoProfiles, registry |-> fleetTables.registry, counters |-> fleetTables.counters]
    BY <1>0, <2>1, RecordsWritten
  <2>3. SavedOK(fleetTables')
    BY <1>0, <2>2, NoListsSaved DEF SavedOK
  <2> QED
    BY <1>0, <1>a, <2>1, <2>3 DEF FleetInv
<1>6. CASE RestartFleet
  <2>1. PICK data \in {fleetFile, Loaded(fleetTables)} :
            ReconcileTo(BotCount, data.owned, DOMAIN data.registry, data.registry, <<>>, data.counters)
    BY <1>6 DEF RestartFleet
  <2>2. OwnedOK(data.owned) /\ OwnersOnly(data.registry)
    <3>1. OwnedOK(fleetFile.owned) /\ OwnersOnly(fleetFile.registry)
      BY <1>0 DEF SavedOK
    <3>2. OwnedOK(Loaded(fleetTables).owned) /\ OwnersOnly(Loaded(fleetTables).registry)
      BY <1>0, LoadedOK
    <3> QED
      BY <2>1, <3>1, <3>2
  <2>3. RegistryOK(data.registry) /\ NpcIds(DOMAIN data.registry) = ToSet(<<>>)
    BY <2>2, NoNpcsSaved, NoBackground
  <2>4. BotCount \in Nat /\ UNCHANGED <<fleetTables, fleetFile>>
    BY <1>6, FleetAssumption DEF RestartFleet
  <2>5. FleetRuns' /\ BackgroundOK(backgroundBotIds') /\ NpcIds(bots') = ToSet(backgroundBotIds')
    BY <2>1, <2>2, <2>3, <2>4, NoBackground, ReconcileKeeps
  <2> QED
    BY <1>b, <2>4, <2>5 DEF FleetInv
<1>7. CASE UNCHANGED fleetVars
  BY <1>7, <1>a, <1>b DEF fleetVars, FleetInv
<1> QED
  BY <1>1, <1>2, <1>3, <1>4, <1>5, <1>6, <1>7 DEF FleetNext

(* The invariant holds of the first start. *)
LEMMA FleetInitially == FleetInit => FleetInv
<1> SUFFICES ASSUME FleetInit PROVE FleetInv
  OBVIOUS
<1>1. BackgroundOK(backgroundBotIds)
  BY NpcsNamed, NoBackground, FleetAssumption DEF FleetInit
<1>2. bots = ToSet(backgroundBotIds) /\ DOMAIN botRegistry = bots /\ ownedBotIds = NoProfiles
      /\ \A id \in bots : botRegistry[id] = NpcRecord
  BY DEF FleetInit
<1>3. \A id \in bots : IsNpc(id)
  BY <1>1, <1>2, NpcsOfSeq
<1>4. FleetRuns
  BY <1>2, <1>3 DEF FleetRuns, RegistryOK, EveryPlayerHasHis, NoProfiles
<1>5. NpcIds(bots) = ToSet(backgroundBotIds)
  BY <1>2, <1>3 DEF NpcIds
<1>6. SavedOK(fleetTables) /\ SavedOK(fleetFile)
  BY NoListsSaved DEF FleetInit, SavedOK
<1> QED
  BY <1>1, <1>4, <1>5, <1>6 DEF FleetInv

(* It says that every player has a bot that runs. *)
LEMMA CompleteWhenRuns == FleetInv => FleetComplete
<1> SUFFICES ASSUME FleetInv PROVE FleetComplete
  OBVIOUS
<1>0. /\ DOMAIN botRegistry = bots /\ RegistryOK(botRegistry) /\ EveryPlayerHasHis
      /\ BackgroundOK(backgroundBotIds) /\ NpcIds(bots) = ToSet(backgroundBotIds)
  BY DEF FleetInv, FleetRuns
<1>1. ASSUME NEW p \in DOMAIN ownedBotIds
      PROVE  /\ ownedBotIds[p] # <<>> /\ Head(ownedBotIds[p]) \in bots
             /\ botRegistry[Head(ownedBotIds[p])] = OwnerRecord(p)
  <2>1. ownedBotIds[p] = <<OwnerBot(p)>> /\ OwnerBot(p) \in bots
    BY <1>0 DEF EveryPlayerHasHis
  <2>2. ownedBotIds[p] # <<>> /\ Head(ownedBotIds[p]) = OwnerBot(p)
    BY <2>1
  <2>3. botRegistry[OwnerBot(p)] = OwnerRecord(p)
    BY <1>0, <2>1, NamesDiffer DEF RegistryOK
  <2> QED
    BY <2>1, <2>2, <2>3
<1>2. ASSUME NEW id \in bots PROVE botRegistry[id].duty = "npc" <=> IsNpc(id)
  BY <1>0, NamesDiffer, KindsDiffer DEF RegistryOK
<1>3. {id \in bots : botRegistry[id].duty = "npc"} = ToSet(backgroundBotIds)
  BY <1>0, <1>2 DEF NpcIds
<1>4. Len(backgroundBotIds) <= MaxBots
  BY <1>0, FleetAssumption DEF BackgroundOK
<1> QED
  BY <1>0, <1>1, <1>3, <1>4 DEF FleetComplete

(* Every player has a bot that runs under a record that names the player,    *)
(* what runs is what is on record, and the NPCs are those listed, MaxBots at *)
(* most, after any profiles made, calls of the operator, saves that end      *)
(* halfway and restarts (reconcileBots and the persistence of the agent      *)
(* runtime).                                                                 *)
THEOREM EveryPlayerHasABot == FleetSpec => []FleetComplete
<1> QED
  BY FleetInitially, FleetStep, CompleteWhenRuns, PTL DEF FleetSpec
==============================================================================
