----------------------------- MODULE Tables_proofs -----------------------------
(***************************************************************************)
(* Lemmas about tables that every component needs: induction over naturals  *)
(* and over finite sets, and what a sum over a table does when a row is     *)
(* added, changed or left out; divisions.                                   *)
(***************************************************************************)
EXTENDS Tables, WellFoundedInduction, FiniteSetTheorems, TLAPS

-----------------------------------------------------------------------------
(* Least elements and induction *)

\* A non-empty set of naturals has a least element.
LEMMA LeastNatural ==
  ASSUME NEW T, T \subseteq Nat, T # {}
  PROVE  \E x \in T : \A y \in T : x <= y
<1>1. \E x \in T : \A y \in T : ~(<<y, x>> \in OpToRel(<, Nat))
  BY WFMin, NatLessThanWellFounded
<1>2. \A x, y \in Nat : ~(<<y, x>> \in OpToRel(<, Nat)) => x <= y
  BY DEF OpToRel
<1> QED BY <1>1, <1>2

\* Induction on a set of naturals.
LEMMA SetInduction ==
  ASSUME NEW T, 0 \in T, \A n \in Nat : n \in T => n + 1 \in T
  PROVE  Nat \subseteq T
<1> SUFFICES ASSUME Nat \ T # {} PROVE FALSE
  OBVIOUS
<1>1. PICK x \in Nat \ T : \A y \in Nat \ T : x <= y
  BY LeastNatural
<1>2. x # 0 /\ x - 1 \in Nat
  BY <1>1
<1>3. x - 1 \in T
  BY <1>1, <1>2
<1>4. x - 1 + 1 = x
  BY <1>1
<1> QED BY <1>1, <1>2, <1>3, <1>4

\* The size of a part, and of one element less.
LEMMA PartSize ==
  ASSUME NEW S, IsFiniteSet(S), NEW T \in SUBSET S
  PROVE  /\ Cardinality(T) \in Nat
         /\ Cardinality(T) = 0 <=> T = {}
         /\ \A x \in T : Cardinality(T \ {x}) = Cardinality(T) - 1
<1>1. IsFiniteSet(T)  BY FS_Subset
<1>2. Cardinality(T) \in Nat  BY <1>1, FS_CardinalityType
<1>3. Cardinality(T) = 0 <=> T = {}  BY <1>1, FS_EmptySet
<1>4. \A x \in T : Cardinality(T \ {x}) = Cardinality(T) - 1  BY <1>1, FS_RemoveElement
<1> QED BY <1>2, <1>3, <1>4

\* Induction over the parts of a finite set.
LEMMA PartInduction ==
  ASSUME NEW S, IsFiniteSet(S), NEW P, {} \in P,
         \A T \in SUBSET S : T # {} /\ (\A x \in T : T \ {x} \in P) => T \in P
  PROVE  \A T \in SUBSET S : T \in P
<1> DEFINE N == {n \in Nat : \A T \in SUBSET S : Cardinality(T) = n => T \in P}
<1>1. 0 \in N
  BY PartSize
<1>2. ASSUME NEW n \in Nat, n \in N PROVE n + 1 \in N
  <2>1. ASSUME NEW T \in SUBSET S, Cardinality(T) = n + 1 PROVE T \in P
    <3>1. T # {}  BY <2>1, PartSize
    <3>2. \A x \in T : Cardinality(T \ {x}) = n  BY <2>1, PartSize
    <3>3. \A x \in T : T \ {x} \in P  BY <1>2, <3>2
    <3> QED BY <3>1, <3>3
  <2> QED BY <2>1
<1> HIDE DEF N
<1>3. Nat \subseteq N  BY <1>1, <1>2, SetInduction
<1> QED BY <1>3, PartSize DEF N

-----------------------------------------------------------------------------
(* Sums *)

\* The partial sums of w over the parts of a set.
Pick(T) == CHOOSE x \in T : TRUE
Sums(w, g, S) == g = [T \in SUBSET S |-> IF T = {} THEN 0 ELSE w[Pick(T)] + g[T \ {Pick(T)}]]
PartialSums(w, S) == CHOOSE g : Sums(w, g, S)

LEMMA PickInside == ASSUME NEW T, T # {} PROVE Pick(T) \in T
  BY DEF Pick

\* The sum of a table is one of its partial sums.
LEMMA SumIsPartial == ASSUME NEW w PROVE SumFunction(w) = PartialSums(w, DOMAIN w)[DOMAIN w]
  BY DEF SumFunction, SumFunctionOnSet, FoldFunctionOnSet, MapThenFoldSet, PartialSums, Sums, Pick

\* There are partial sums over the parts of any finite set.
LEMMA SumsExist == ASSUME NEW w, NEW S, IsFiniteSet(S) PROVE \E g : Sums(w, g, S)
<1> DEFINE Small(n) == {T \in SUBSET S : Cardinality(T) <= n}
           Def(g, T) == IF T = {} THEN 0 ELSE w[Pick(T)] + g[T \ {Pick(T)}]
           N == {n \in Nat : \E g : g = [T \in Small(n) |-> Def(g, T)]}
<1>1. 0 \in N
  <2> DEFINE h == [T \in Small(0) |-> 0]
  <2>1. \A T \in Small(0) : T = {}  BY PartSize
  <2>2. h = [T \in Small(0) |-> Def(h, T)]  BY <2>1
  <2> QED BY <2>2
<1>2. ASSUME NEW n \in Nat, n \in N PROVE n + 1 \in N
  <2>1. PICK g : g = [T \in Small(n) |-> Def(g, T)]  BY <1>2
  <2> DEFINE h == [T \in Small(n + 1) |-> Def(g, T)]
  <2>2. ASSUME NEW T \in Small(n + 1), T # {} PROVE h[T \ {Pick(T)}] = g[T \ {Pick(T)}]
    <3> DEFINE U == T \ {Pick(T)}
    <3>1. Pick(T) \in T  BY <2>2, PickInside
    <3>2. Cardinality(U) = Cardinality(T) - 1 /\ Cardinality(T) \in Nat  BY <3>1, PartSize
    <3>3. U \in Small(n) /\ U \in Small(n + 1)  BY <3>2
    <3> HIDE DEF U, Small
    <3>4. g[U] = Def(g, U)  BY <2>1, <3>3
    <3>5. h[U] = Def(g, U)  BY <3>3
    <3> QED BY <3>4, <3>5 DEF U
  <2>3. \A T \in Small(n + 1) : Def(g, T) = Def(h, T)
    <3> HIDE DEF h, Small
    <3> QED BY <2>2
  <2>4. h = [T \in Small(n + 1) |-> Def(h, T)]
    <3> HIDE DEF Def, Small
    <3> QED BY <2>3
  <2>5. \E k : k = [T \in Small(n + 1) |-> Def(k, T)]
    <3> HIDE DEF h
    <3> QED BY <2>4
  <2> HIDE DEF Small, Def
  <2> QED BY <2>5
<1> HIDE DEF N
<1>3. Nat \subseteq N  BY <1>1, <1>2, SetInduction
<1>4. Cardinality(S) \in Nat  BY FS_CardinalityType
<1>5. PICK g : g = [T \in Small(Cardinality(S)) |-> Def(g, T)]  BY <1>3, <1>4 DEF N
<1>6. Small(Cardinality(S)) = SUBSET S
  <2>1. \A T \in SUBSET S : Cardinality(T) <= Cardinality(S)  BY FS_Subset
  <2> QED BY <2>1
<1> HIDE DEF Small
<1> QED BY <1>5, <1>6 DEF Sums

\* What they are.
LEMMA PartialSumsValue ==
  ASSUME NEW w, NEW S, IsFiniteSet(S)
  PROVE  PartialSums(w, S)[{}] = 0
<1>1. \E g : Sums(w, g, S)  BY SumsExist
<1>2. Sums(w, PartialSums(w, S), S)
  <2> HIDE DEF Sums
  <2> QED BY <1>1 DEF PartialSums
<1>3. {} \in SUBSET S  OBVIOUS
<1> QED BY <1>2, <1>3 DEF Sums

LEMMA PartialSumsStep ==
  ASSUME NEW w, NEW S, IsFiniteSet(S), NEW T \in SUBSET S, T # {}
  PROVE  PartialSums(w, S)[T] = w[Pick(T)] + PartialSums(w, S)[T \ {Pick(T)}]
<1>1. \E g : Sums(w, g, S)  BY SumsExist
<1>2. Sums(w, PartialSums(w, S), S)
  <2> HIDE DEF Sums
  <2> QED BY <1>1 DEF PartialSums
<1> DEFINE g == PartialSums(w, S)
<1> HIDE DEF g
<1>3. g = [U \in SUBSET S |-> IF U = {} THEN 0 ELSE w[Pick(U)] + g[U \ {Pick(U)}]]
  BY <1>2 DEF Sums, g
<1>4. g[T] = w[Pick(T)] + g[T \ {Pick(T)}]
  BY <1>3
<1> QED BY <1>4 DEF g

\* Partial sums of tables that agree on a part.
LEMMA PartialSumsAgree ==
  ASSUME NEW v, NEW w, NEW S, NEW R, IsFiniteSet(S), R \subseteq S, \A x \in R : v[x] = w[x]
  PROVE  \A T \in SUBSET R : PartialSums(v, R)[T] = PartialSums(w, S)[T]
<1> DEFINE f == PartialSums(v, R)
           g == PartialSums(w, S)
<1>1. IsFiniteSet(R)  BY FS_Subset
<1>2. f[{}] = g[{}]
  BY <1>1, PartialSumsValue
<1>3. \A T \in SUBSET R : T # {} => f[T] = v[Pick(T)] + f[T \ {Pick(T)}]
  <2> SUFFICES ASSUME NEW T \in SUBSET R, T # {} PROVE f[T] = v[Pick(T)] + f[T \ {Pick(T)}]
    OBVIOUS
  <2>1. T \in SUBSET R /\ T # {}  OBVIOUS
  <2>2. PartialSums(v, R)[T] = v[Pick(T)] + PartialSums(v, R)[T \ {Pick(T)}]
    BY ONLY <1>1, <2>1, PartialSumsStep
  <2> QED BY <2>2
<1>4. \A T \in SUBSET S : T # {} => g[T] = w[Pick(T)] + g[T \ {Pick(T)}]
  <2> SUFFICES ASSUME NEW T \in SUBSET S, T # {} PROVE g[T] = w[Pick(T)] + g[T \ {Pick(T)}]
    OBVIOUS
  <2> QED BY PartialSumsStep
<1> HIDE DEF f, g
<1> DEFINE P == {T \in SUBSET R : f[T] = g[T]}
<1>5. ASSUME NEW T \in SUBSET R, T # {}, \A y \in T : T \ {y} \in P PROVE T \in P
  <2>1. Pick(T) \in T  BY <1>5, PickInside
  <2>2. f[T \ {Pick(T)}] = g[T \ {Pick(T)}] /\ v[Pick(T)] = w[Pick(T)]  BY <1>5, <2>1
  <2>3. f[T] = g[T]  BY <1>3, <1>4, <1>5, <2>2
  <2> QED BY <2>3
<1>6. {} \in P  BY <1>2
<1> HIDE DEF P
<1>7. \A T \in SUBSET R : T \in P  BY <1>1, <1>5, <1>6, PartInduction
<1> QED BY <1>7 DEF P, f, g

\* They are integers, and the order of the elements does not matter.
LEMMA PartialSumsType ==
  ASSUME NEW S, IsFiniteSet(S), NEW w, \A x \in S : w[x] \in Int
  PROVE  \A T \in SUBSET S : PartialSums(w, S)[T] \in Int
<1> DEFINE g == PartialSums(w, S)
           P == {T \in SUBSET S : g[T] \in Int}
<1>1. {} \in P
  BY PartialSumsValue
<1>2. \A T \in SUBSET S : T # {} => g[T] = w[Pick(T)] + g[T \ {Pick(T)}]
  BY PartialSumsStep
<1> HIDE DEF g
<1>3. ASSUME NEW T \in SUBSET S, T # {}, \A y \in T : T \ {y} \in P PROVE T \in P
  <2>1. Pick(T) \in T  BY <1>3, PickInside
  <2>2. w[Pick(T)] \in Int /\ g[T \ {Pick(T)}] \in Int  BY <1>3, <2>1
  <2>3. g[T] = w[Pick(T)] + g[T \ {Pick(T)}]  BY <1>2, <1>3
  <2>4. g[T] \in Int  BY <2>2, <2>3
  <2> QED BY <2>4
<1> HIDE DEF P
<1>4. \A T \in SUBSET S : T \in P  BY <1>1, <1>3, PartInduction
<1> QED BY <1>4 DEF P, g

LEMMA PartialSumsOrder ==
  ASSUME NEW S, IsFiniteSet(S), NEW w, \A x \in S : w[x] \in Int
  PROVE  \A T \in SUBSET S : \A x \in T : PartialSums(w, S)[T] = w[x] + PartialSums(w, S)[T \ {x}]
<1> DEFINE g == PartialSums(w, S)
           P == {T \in SUBSET S : \A x \in T : g[T] = w[x] + g[T \ {x}]}
<1>1. \A T \in SUBSET S : T # {} => g[T] = w[Pick(T)] + g[T \ {Pick(T)}]
  BY PartialSumsStep
<1>2. \A T \in SUBSET S : g[T] \in Int
  BY PartialSumsType
<1> HIDE DEF g
<1>3. {} \in P
  OBVIOUS
<1>4. ASSUME NEW T \in SUBSET S, T # {}, \A y \in T : T \ {y} \in P PROVE T \in P
  <2> DEFINE p == Pick(T)
  <2>1. p \in T  BY <1>4, PickInside
  <2>2. g[T] = w[p] + g[T \ {p}]  BY <1>1, <1>4
  <2> HIDE DEF p
  <2>3. ASSUME NEW x \in T, x # p PROVE g[T] = w[x] + g[T \ {x}]
    <3> DEFINE U == (T \ {p}) \ {x}
    <3>1. g[T \ {p}] = w[x] + g[U]  BY <1>4, <2>1, <2>3
    <3>2. g[T \ {x}] = w[p] + g[(T \ {x}) \ {p}]  BY <1>4, <2>1, <2>3
    <3>3. (T \ {x}) \ {p} = U  OBVIOUS
    <3>4. g[U] \in Int /\ w[x] \in Int /\ w[p] \in Int
      <4>1. U \in SUBSET S  OBVIOUS
      <4> HIDE DEF U
      <4> QED BY <4>1, <1>2, <2>1
    <3>5. g[T \ {x}] = w[p] + g[U]  BY <3>2, <3>3
    <3> HIDE DEF U
    <3> QED BY <3>1, <3>4, <3>5, <2>2
  <2> QED BY <2>2, <2>3
<1> HIDE DEF P
<1>5. \A T \in SUBSET S : T \in P  BY <1>3, <1>4, PartInduction
<1> QED BY <1>5 DEF P, g

\* The rows of a table but one.
Without(w, k) == [x \in DOMAIN w \ {k} |-> w[x]]

IsSummable(w) == IsFiniteSet(DOMAIN w) /\ \A k \in DOMAIN w : w[k] \in Int

\* A table whose rows are not changed is summed as before.
LEMMA SumOfEqual ==
  ASSUME NEW v, NEW w, IsFiniteSet(DOMAIN w), DOMAIN v = DOMAIN w, \A k \in DOMAIN w : v[k] = w[k]
  PROVE  SumFunction(v) = SumFunction(w)
<1>1. PartialSums(v, DOMAIN v)[DOMAIN v] = PartialSums(w, DOMAIN w)[DOMAIN w]
  BY PartialSumsAgree
<1> QED BY <1>1, SumIsPartial

LEMMA SumOfNone == ASSUME NEW w, DOMAIN w = {} PROVE SumFunction(w) = 0
<1>1. PartialSums(w, {})[{}] = 0  BY PartialSumsValue, FS_EmptySet
<1> QED BY <1>1, SumIsPartial

LEMMA SumType == ASSUME NEW w, IsSummable(w) PROVE SumFunction(w) \in Int
<1>1. PartialSums(w, DOMAIN w)[DOMAIN w] \in Int  BY PartialSumsType DEF IsSummable
<1> QED BY <1>1, SumIsPartial

\* Any row may be the first.
LEMMA SumSplit ==
  ASSUME NEW w, IsSummable(w), NEW k \in DOMAIN w
  PROVE  IsSummable(Without(w, k)) /\ SumFunction(w) = w[k] + SumFunction(Without(w, k))
<1> DEFINE S == DOMAIN w
           R == S \ {k}
           v == Without(w, k)
<1>1. IsFiniteSet(S) /\ IsFiniteSet(R)  BY FS_RemoveElement DEF IsSummable
<1>2. DOMAIN v = R /\ \A x \in R : v[x] = w[x]  BY DEF Without
<1>3. IsSummable(v)  BY <1>1, <1>2 DEF IsSummable
<1> HIDE DEF v
<1>4. PartialSums(v, R)[R] = PartialSums(w, S)[R]  BY <1>1, <1>2, PartialSumsAgree
<1>5. PartialSums(w, S)[S] = w[k] + PartialSums(w, S)[R]
  BY PartialSumsOrder DEF IsSummable
<1> QED BY <1>2, <1>3, <1>4, <1>5, SumIsPartial DEF v

\* A new row adds its amount.
LEMMA SumOfNew ==
  ASSUME NEW v, NEW w, IsSummable(w), NEW k, k \notin DOMAIN w, DOMAIN v = DOMAIN w \cup {k},
         v[k] \in Int, \A x \in DOMAIN w : v[x] = w[x]
  PROVE  IsSummable(v) /\ SumFunction(v) = SumFunction(w) + v[k]
<1>1. IsSummable(v)  BY FS_AddElement DEF IsSummable
<1>2. SumFunction(v) = v[k] + SumFunction(Without(v, k))  BY <1>1, SumSplit
<1>3. DOMAIN Without(v, k) = DOMAIN w /\ \A x \in DOMAIN w : Without(v, k)[x] = w[x]
  BY DEF Without
<1>4. SumFunction(Without(v, k)) = SumFunction(w)
  <2> HIDE DEF Without
  <2> QED BY <1>3, SumOfEqual DEF IsSummable
<1>5. SumFunction(w) \in Int  BY SumType
<1> QED BY <1>1, <1>2, <1>4, <1>5

\* A row that changes adds its change.
LEMMA SumOfChanged ==
  ASSUME NEW v, NEW w, IsSummable(w), NEW k \in DOMAIN w, DOMAIN v = DOMAIN w,
         v[k] \in Int, \A x \in DOMAIN w \ {k} : v[x] = w[x]
  PROVE  IsSummable(v) /\ SumFunction(v) = SumFunction(w) + (v[k] - w[k])
<1>1. IsSummable(v)  BY DEF IsSummable
<1>2. SumFunction(v) = v[k] + SumFunction(Without(v, k))  BY <1>1, SumSplit
<1>3. SumFunction(w) = w[k] + SumFunction(Without(w, k)) /\ IsSummable(Without(w, k))  BY SumSplit
<1>4. /\ DOMAIN Without(v, k) = DOMAIN Without(w, k)
      /\ \A x \in DOMAIN Without(w, k) : Without(v, k)[x] = Without(w, k)[x]
  BY DEF Without
<1>5. SumFunction(Without(v, k)) = SumFunction(Without(w, k))
  BY <1>3, <1>4, SumOfEqual DEF IsSummable
<1>6. SumFunction(Without(w, k)) \in Int  BY <1>3, SumType
<1>7. w[k] \in Int  BY DEF IsSummable
<1> QED BY <1>1, <1>2, <1>3, <1>5, <1>6, <1>7

\* The amount of a key, 0 without a row.
AmountAt(w, k) == IF k \in DOMAIN w THEN w[k] ELSE 0

\* Tables that agree on all keys but one.
AgreeBut(v, w, k) == /\ DOMAIN v \ {k} = DOMAIN w \ {k}
                     /\ \A x \in DOMAIN w \ {k} : v[x] = w[x]

LEMMA SumWithout ==
  ASSUME NEW w, IsSummable(w), NEW k
  PROVE  /\ IsSummable(Without(w, k)) /\ AmountAt(w, k) \in Int /\ SumFunction(Without(w, k)) \in Int
         /\ SumFunction(w) = AmountAt(w, k) + SumFunction(Without(w, k))
<1>1. CASE k \in DOMAIN w
  <2>1. IsSummable(Without(w, k)) /\ SumFunction(w) = w[k] + SumFunction(Without(w, k))  BY <1>1, SumSplit
  <2>2. AmountAt(w, k) = w[k] /\ w[k] \in Int  BY <1>1 DEF AmountAt, IsSummable
  <2> QED BY <2>1, <2>2, SumType
<1>2. CASE k \notin DOMAIN w
  <2>1. DOMAIN Without(w, k) = DOMAIN w /\ \A x \in DOMAIN w : Without(w, k)[x] = w[x]  BY <1>2 DEF Without
  <2>2. SumFunction(Without(w, k)) = SumFunction(w)
    <3> HIDE DEF Without
    <3> QED BY <2>1, SumOfEqual DEF IsSummable
  <2>3. IsSummable(Without(w, k))
    <3> HIDE DEF Without
    <3> QED BY <2>1 DEF IsSummable
  <2>4. AmountAt(w, k) = 0  BY <1>2 DEF AmountAt
  <2>5. SumFunction(w) \in Int  BY SumType
  <2> QED BY <2>2, <2>3, <2>4, <2>5
<1> QED BY <1>1, <1>2

\* A row that is added, changed or deleted adds the change of its amount.
LEMMA SumOfChange ==
  ASSUME NEW v, NEW w, IsSummable(v), IsSummable(w), NEW k, AgreeBut(v, w, k)
  PROVE  SumFunction(v) = SumFunction(w) + (AmountAt(v, k) - AmountAt(w, k))
<1>1. /\ SumFunction(v) = AmountAt(v, k) + SumFunction(Without(v, k))
      /\ AmountAt(v, k) \in Int
  BY SumWithout
<1>2. /\ SumFunction(w) = AmountAt(w, k) + SumFunction(Without(w, k)) /\ IsSummable(Without(w, k))
      /\ AmountAt(w, k) \in Int /\ SumFunction(Without(w, k)) \in Int
  BY SumWithout
<1>3. /\ DOMAIN Without(v, k) = DOMAIN Without(w, k)
      /\ \A x \in DOMAIN Without(w, k) : Without(v, k)[x] = Without(w, k)[x]
  BY DEF Without, AgreeBut
<1>4. SumFunction(Without(v, k)) = SumFunction(Without(w, k))  BY <1>2, <1>3, SumOfEqual DEF IsSummable
<1> HIDE DEF AmountAt
<1> QED BY <1>1, <1>2, <1>4

\* The amounts of some keys.
Piece(w, T) == [x \in T |-> w[x]]

LEMMA PieceSummable ==
  ASSUME NEW w, IsSummable(w), NEW T \in SUBSET DOMAIN w
  PROVE  IsSummable(Piece(w, T)) /\ DOMAIN Piece(w, T) = T /\ SumFunction(Piece(w, T)) \in Int
<1>1. DOMAIN Piece(w, T) = T /\ \A x \in T : Piece(w, T)[x] = w[x]  BY DEF Piece
<1>2. IsFiniteSet(T)  BY FS_Subset DEF IsSummable
<1>3. IsSummable(Piece(w, T))  BY <1>1, <1>2 DEF IsSummable
<1> QED BY <1>1, <1>3, SumType

LEMMA PieceStep ==
  ASSUME NEW w, IsSummable(w), NEW T \in SUBSET DOMAIN w, NEW k \in T
  PROVE  SumFunction(Piece(w, T)) = w[k] + SumFunction(Piece(w, T \ {k}))
<1>1. IsSummable(Piece(w, T)) /\ DOMAIN Piece(w, T) = T  BY PieceSummable
<1>2. IsFiniteSet(T \ {k})  BY FS_Subset, T \ {k} \subseteq DOMAIN w DEF IsSummable
<1>3. DOMAIN Piece(w, T \ {k}) = T \ {k} /\ k \notin DOMAIN Piece(w, T \ {k})  BY DEF Piece
<1>4. /\ DOMAIN Without(Piece(w, T), k) = T \ {k}
      /\ \A x \in T \ {k} : Without(Piece(w, T), k)[x] = Piece(w, T \ {k})[x]
  BY <1>1 DEF Without, Piece
<1>5. Piece(w, T)[k] = w[k]  BY DEF Piece
<1>6. SumFunction(Piece(w, T)) = Piece(w, T)[k] + SumFunction(Without(Piece(w, T), k))
  BY <1>1, SumSplit
<1>7. SumFunction(Without(Piece(w, T), k)) = SumFunction(Piece(w, T \ {k}))
  BY <1>2, <1>3, <1>4, SumOfEqual
<1> QED BY <1>5, <1>6, <1>7

LEMMA PieceAll == ASSUME NEW w, IsSummable(w) PROVE SumFunction(Piece(w, DOMAIN w)) = SumFunction(w)
<1>1. DOMAIN Piece(w, DOMAIN w) = DOMAIN w /\ \A x \in DOMAIN w : Piece(w, DOMAIN w)[x] = w[x]  BY DEF Piece
<1> QED BY <1>1, SumOfEqual DEF IsSummable

LEMMA PieceNone == ASSUME NEW w PROVE SumFunction(Piece(w, {})) = 0
<1>1. DOMAIN Piece(w, {}) = {}  BY DEF Piece
<1> QED BY <1>1, SumOfNone

\* Rows of 0 may be left out.
LEMMA SumOfRest ==
  ASSUME NEW w, IsSummable(w), NEW v, DOMAIN v \subseteq DOMAIN w,
         \A x \in DOMAIN v : v[x] = w[x], \A x \in DOMAIN w \ DOMAIN v : w[x] = 0
  PROVE  IsSummable(v) /\ SumFunction(v) = SumFunction(w)
<1> DEFINE S == DOMAIN w
           Out == S \ DOMAIN v
           P == {Z \in SUBSET Out : SumFunction(Piece(w, S \ Z)) = SumFunction(w)}
<1>1. IsFiniteSet(Out)  BY FS_Subset, Out \subseteq S DEF IsSummable
<1>2. {} \in P
  <2>1. S \ {} = S  OBVIOUS
  <2> QED BY <2>1, PieceAll
<1>3. ASSUME NEW T \in SUBSET Out, T # {}, \A x \in T : T \ {x} \in P PROVE T \in P
  <2>1. PICK x \in T : TRUE  BY <1>3
  <2>2. PICK Q : Q = S \ (T \ {x})  OBVIOUS
  <2>3. SumFunction(Piece(w, Q)) = SumFunction(w)  BY <1>3, <2>1, <2>2
  <2>4. x \in Q /\ Q \ {x} = S \ T /\ w[x] = 0 /\ Q \in SUBSET S  BY <2>1, <2>2
  <2>5. SumFunction(Piece(w, Q)) = w[x] + SumFunction(Piece(w, Q \ {x}))  BY <2>4, PieceStep
  <2>6. SumFunction(Piece(w, S \ T)) \in Int  BY PieceSummable, S \ T \in SUBSET S
  <2>7. SumFunction(Piece(w, S \ T)) = SumFunction(w)
    <3> HIDE DEF S, Out, P
    <3>1. SumFunction(Piece(w, Q \ {x})) = SumFunction(Piece(w, S \ T))  BY ONLY <2>4
    <3> QED BY ONLY <2>3, <2>4, <2>5, <2>6, <3>1
  <2> QED BY <2>7
<1> HIDE DEF P
<1>4. \A T \in SUBSET Out : T \in P  BY <1>1, <1>2, <1>3, PartInduction
<1>5. Out \in P  BY <1>4
<1>6. S \ Out = DOMAIN v  OBVIOUS
<1>7. SumFunction(Piece(w, DOMAIN v)) = SumFunction(w)  BY <1>5, <1>6 DEF P
<1>8. IsFiniteSet(DOMAIN v)  BY FS_Subset DEF IsSummable
<1>9. DOMAIN Piece(w, DOMAIN v) = DOMAIN v /\ \A x \in DOMAIN v : v[x] = Piece(w, DOMAIN v)[x]  BY DEF Piece
<1>10. SumFunction(v) = SumFunction(Piece(w, DOMAIN v))  BY <1>8, <1>9, SumOfEqual
<1>11. IsSummable(v)  BY <1>8 DEF IsSummable
<1> QED BY <1>7, <1>10, <1>11

\* Amounts that are in proportion row by row are so in sum.
LEMMA SumInProportion ==
  ASSUME NEW v, NEW w, IsSummable(v), IsSummable(w), DOMAIN v = DOMAIN w,
         NEW a, a \in Int, NEW b, b \in Int, \A x \in DOMAIN w : w[x] * b <= v[x] * a
  PROVE  SumFunction(w) * b <= SumFunction(v) * a
<1> DEFINE S == DOMAIN w
           P == {T \in SUBSET S : SumFunction(Piece(w, T)) * b <= SumFunction(Piece(v, T)) * a}
<1>1. IsFiniteSet(S)  BY DEF IsSummable
<1>2. {} \in P
  <2>1. SumFunction(Piece(w, {})) = 0 /\ SumFunction(Piece(v, {})) = 0  BY PieceNone
  <2>2. 0 * b <= 0 * a  OBVIOUS
  <2> QED BY <2>1, <2>2
<1>3. ASSUME NEW T \in SUBSET S, T # {}, \A x \in T : T \ {x} \in P PROVE T \in P
  <2>1. PICK x \in T : TRUE  BY <1>3
  <2>2. SumFunction(Piece(w, T \ {x})) * b <= SumFunction(Piece(v, T \ {x})) * a  BY <1>3, <2>1
  <2>3. SumFunction(Piece(w, T)) = w[x] + SumFunction(Piece(w, T \ {x}))  BY PieceStep
  <2>4. SumFunction(Piece(v, T)) = v[x] + SumFunction(Piece(v, T \ {x}))  BY PieceStep
  <2>5. SumFunction(Piece(w, T \ {x})) \in Int /\ SumFunction(Piece(v, T \ {x})) \in Int
    BY PieceSummable, T \ {x} \in SUBSET S
  <2>6. w[x] \in Int /\ v[x] \in Int /\ w[x] * b <= v[x] * a  BY DEF IsSummable
  <2>7. \A p, q, y, z \in Int : y * b <= z * a /\ p * b <= q * a => (y + p) * b <= (z + q) * a
    <3>1. \A p, y \in Int : (y + p) * b = y * b + p * b /\ y * b \in Int /\ p * b \in Int  OBVIOUS
    <3>2. \A q, z \in Int : (z + q) * a = z * a + q * a /\ z * a \in Int /\ q * a \in Int  OBVIOUS
    <3>3. ASSUME NEW p \in Int, NEW q \in Int, NEW y \in Int, NEW z \in Int, y * b <= z * a, p * b <= q * a
          PROVE (y + p) * b <= (z + q) * a
      <4>1. (y + p) * b = y * b + p * b /\ y * b \in Int /\ p * b \in Int  BY <3>1
      <4>2. (z + q) * a = z * a + q * a /\ z * a \in Int /\ q * a \in Int  BY <3>2
      <4> QED BY <3>3, <4>1, <4>2
    <3> QED BY <3>3
  <2>8. SumFunction(Piece(w, T)) * b <= SumFunction(Piece(v, T)) * a
    BY <2>2, <2>3, <2>4, <2>5, <2>6, <2>7
  <2> QED BY <2>8
<1> HIDE DEF P
<1>4. \A T \in SUBSET S : T \in P  BY <1>1, <1>2, <1>3, PartInduction
<1>5. S \in P  BY <1>4
<1> QED BY <1>5, PieceAll DEF P

\* In particular amounts that are smaller row by row.
LEMMA SumOfSmaller ==
  ASSUME NEW v, NEW w, IsSummable(v), IsSummable(w), DOMAIN v = DOMAIN w,
         \A x \in DOMAIN w : w[x] <= v[x]
  PROVE  SumFunction(w) <= SumFunction(v)
<1>1. \A x \in DOMAIN w : w[x] * 1 <= v[x] * 1  BY DEF IsSummable
<1>2. SumFunction(w) * 1 <= SumFunction(v) * 1  BY <1>1, SumInProportion
<1> QED BY <1>2, SumType

-----------------------------------------------------------------------------
(* Divisions *)

\* A quotient is the largest number whose product fits.
LEMMA QuotientIs ==
  ASSUME NEW a, a \in Nat, NEW b, b \in Nat \ {0}
  PROVE  /\ a \div b \in Nat /\ (a \div b) * b <= a
         /\ \A x \in Int : x * b <= a => x <= a \div b
<1>1. PICK q : q = a \div b  OBVIOUS
<1>2. q \in Nat /\ q * b <= a /\ a < q * b + b  BY <1>1
<1>3. ASSUME NEW x \in Int, x * b <= a PROVE x <= q
  <2>1. SUFFICES ASSUME x >= q + 1 PROVE FALSE  BY <1>2
  <2>2. x * b >= (q + 1) * b  BY <1>2, <2>1
  <2>3. (q + 1) * b = q * b + b  BY <1>2
  <2>4. x * b \in Int /\ q * b \in Int  BY <1>2
  <2> QED BY <1>2, <1>3, <2>2, <2>3, <2>4
<1> QED BY <1>1, <1>2, <1>3

=============================================================================
