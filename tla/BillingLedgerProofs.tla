------------------------ MODULE BillingLedgerProofs ------------------------
(***************************************************************************)
(* The rows of the user's accounts agree with what the requests hold, for  *)
(* any finite set of requests: facts about sums, then one lemma per kind   *)
(* of step.                                                                *)
(***************************************************************************)
EXTENDS BillingSessionProofs, FiniteSetTheorems, WellFoundedInduction

-----------------------------------------------------------------------------
(* Sums over a finite set                                                  *)

LEMMA LeastNumber ==
  ASSUME NEW T, T \subseteq Nat, T # {}
  PROVE  \E x \in T : \A y \in T : x <= y
<1>1. IsWellFoundedOn(OpToRel(<, Nat), Nat)
  BY NatLessThanWellFounded
<1>2. \E x \in T : \A y \in T : ~ (<<y, x>> \in OpToRel(<, Nat))
  BY <1>1, WFMin
<1>3. \A x, y \in Nat : ~ (<<y, x>> \in OpToRel(<, Nat)) => x <= y
  BY DEF OpToRel
<1> QED
  BY <1>2, <1>3

Pick(T) == CHOOSE x \in T : TRUE

(* g sums f over the sets of D, which is closed under taking Pick away.    *)
SumsOver(f, g, D) ==
  g = [T \in D |-> IF T = {} THEN 0 ELSE f[Pick(T)] + g[T \ {Pick(T)}]]

Small(S, n) == {T \in SUBSET S : Cardinality(T) <= n}

LEMMA PickSmaller ==
  ASSUME NEW S, IsFiniteSet(S), NEW T \in SUBSET S, T # {}
  PROVE  /\ Pick(T) \in T /\ T \ {Pick(T)} \in SUBSET S
         /\ Cardinality(T) \in Nat /\ Cardinality(T) # 0
         /\ Cardinality(T \ {Pick(T)}) = Cardinality(T) - 1
<1>1. Pick(T) \in T
  BY DEF Pick
<1>2. IsFiniteSet(T)
  BY FS_Subset
<1>3. Cardinality(T) \in Nat /\ Cardinality(T) # 0
  BY <1>2, FS_CardinalityType, FS_EmptySet
<1>4. Cardinality(T \ {Pick(T)}) = Cardinality(T) - 1
  BY <1>1, <1>2, FS_RemoveElement
<1> QED
  BY <1>1, <1>3, <1>4

LEMMA SumsExist ==
  ASSUME NEW S, IsFiniteSet(S), NEW f \in [S -> Int], NEW k \in Nat
  PROVE  \E g \in [Small(S, k) -> Int] : SumsOver(f, g, Small(S, k))
<1> DEFINE Bad == {n \in Nat : ~ \E g \in [Small(S, n) -> Int] : SumsOver(f, g, Small(S, n))}
<1>1. SUFFICES ASSUME Bad # {} PROVE FALSE
  OBVIOUS
<1>2. PICK n \in Bad : \A y \in Bad : n <= y
  <2> HIDE DEF Bad
  <2>1. Bad \subseteq Nat
    BY DEF Bad
  <2> QED
    BY <1>1, <2>1, LeastNumber
<1>3. n # 0
  <2>1. SUFFICES ASSUME n = 0 PROVE FALSE
    OBVIOUS
  <2>2. \A T \in Small(S, 0) : T = {}
    <3> SUFFICES ASSUME NEW T \in SUBSET S, Cardinality(T) <= 0, T # {} PROVE FALSE
      BY DEF Small
    <3>1. Cardinality(T) \in Nat /\ Cardinality(T) # 0
      BY PickSmaller
    <3> QED
      BY <3>1
  <2> DEFINE g == [T \in Small(S, 0) |-> 0]
  <2>3. g \in [Small(S, 0) -> Int] /\ SumsOver(f, g, Small(S, 0))
    BY <2>2 DEF SumsOver
  <2> QED
    BY <1>2, <2>1, <2>3
<1>4. n - 1 \in Nat /\ n - 1 \notin Bad
  BY <1>2, <1>3
<1>5. PICK g \in [Small(S, n - 1) -> Int] : SumsOver(f, g, Small(S, n - 1))
  BY <1>4
<1> DEFINE h == [T \in Small(S, n) |->
                   IF T = {} THEN 0 ELSE f[Pick(T)] + g[T \ {Pick(T)}]]
<1>6. \A T \in Small(S, n) : T # {} => /\ Pick(T) \in S /\ T \ {Pick(T)} \in Small(S, n - 1)
                                      /\ T \ {Pick(T)} \in Small(S, n)
  <2> SUFFICES ASSUME NEW T \in SUBSET S, Cardinality(T) <= n, T # {}
               PROVE  /\ Pick(T) \in S /\ T \ {Pick(T)} \in Small(S, n - 1)
                      /\ T \ {Pick(T)} \in Small(S, n)
    BY DEF Small
  <2> QED
    BY <1>2, PickSmaller DEF Small
<1>7. \A T \in Small(S, n - 1) : h[T] = g[T]
  <2> SUFFICES ASSUME NEW T \in Small(S, n - 1) PROVE h[T] = g[T]
    OBVIOUS
  <2>1. T \in Small(S, n)
    <3>1. T \in SUBSET S /\ Cardinality(T) <= n - 1 /\ Cardinality(T) \in Nat
      BY FS_Subset, FS_CardinalityType DEF Small
    <3> QED
      BY <1>2, <3>1 DEF Small
  <2> QED
    BY <1>5, <2>1 DEF SumsOver
<1>8. h \in [Small(S, n) -> Int]
  BY <1>5, <1>6
<1>9. SumsOver(f, h, Small(S, n))
  BY <1>6, <1>7 DEF SumsOver
<1> QED
  BY <1>2, <1>8, <1>9

(* The recursive function behind SumFunction                               *)
LEMMA SumForm ==
  ASSUME NEW S, IsFiniteSet(S), NEW f \in [S -> Int]
  PROVE  \E g \in [SUBSET S -> Int] : SumsOver(f, g, SUBSET S) /\ SumFunction(f) = g[S]
<1>1. Cardinality(S) \in Nat /\ Small(S, Cardinality(S)) = SUBSET S
  BY FS_Subset, FS_CardinalityType DEF Small
<1>2. PICK h \in [SUBSET S -> Int] : SumsOver(f, h, SUBSET S)
  <2>1. \A k \in Nat : \E g \in [Small(S, k) -> Int] : SumsOver(f, g, Small(S, k))
    BY SumsExist
  <2>2. \E g \in [Small(S, Cardinality(S)) -> Int] : SumsOver(f, g, Small(S, Cardinality(S)))
    BY <1>1, <2>1, Zenon
  <2> QED
    BY <1>1, <2>2, Zenon
<1> DEFINE g == CHOOSE g : SumsOver(f, g, SUBSET S)
<1>3. SumsOver(f, g, SUBSET S)
  BY <1>2
<1>4. SumFunction(f) = g[S]
  <2>1. DOMAIN f = S
    OBVIOUS
  <2> QED
    BY <2>1 DEF SumFunction, SumFunctionOnSet, FoldFunctionOnSet, MapThenFoldSet, SumsOver, Pick
<1> HIDE DEF g
<1>5. g = h
  <2>1. DOMAIN g = SUBSET S
    BY <1>3 DEF SumsOver
  <2> DEFINE Bad == {n \in Nat : \E T \in SUBSET S : Cardinality(T) = n /\ g[T] # h[T]}
  <2>2. Bad = {}
    <3> SUFFICES ASSUME Bad # {} PROVE FALSE
      OBVIOUS
    <3>1. PICK n \in Bad : \A y \in Bad : n <= y
      <4> HIDE DEF Bad
      <4>1. Bad \subseteq Nat
        BY DEF Bad
      <4> QED
        BY <4>1, LeastNumber
    <3>2. PICK T \in SUBSET S : Cardinality(T) = n /\ g[T] # h[T]
      BY <3>1
    <3>3. T # {}
      BY <1>2, <1>3, <3>2 DEF SumsOver
    <3>4. T \ {Pick(T)} \in SUBSET S /\ n - 1 \in Nat /\ Cardinality(T \ {Pick(T)}) = n - 1
      BY <3>2, <3>3, PickSmaller
    <3>5. g[T \ {Pick(T)}] = h[T \ {Pick(T)}]
      BY <3>1, <3>4
    <3>6. g[T] = f[Pick(T)] + g[T \ {Pick(T)}]
      BY <1>3, <3>3 DEF SumsOver
    <3>7. h[T] = f[Pick(T)] + h[T \ {Pick(T)}]
      BY <1>2, <3>3 DEF SumsOver
    <3> QED
      BY <3>2, <3>5, <3>6, <3>7, Zenon
  <2>3. \A T \in SUBSET S : g[T] = h[T]
    <3> SUFFICES ASSUME NEW T \in SUBSET S PROVE g[T] = h[T]
      OBVIOUS
    <3>1. Cardinality(T) \in Nat
      BY FS_Subset, FS_CardinalityType
    <3> QED
      BY <2>2, <3>1
  <2> QED
    BY <1>2, <1>3, <2>1, <2>3 DEF SumsOver
<1> QED
  BY <1>2, <1>3, <1>4, <1>5

-----------------------------------------------------------------------------
(* What a sum does when one summand changes                                *)

LEMMA SumChange ==
  ASSUME NEW S, IsFiniteSet(S), NEW f \in [S -> Int], NEW e \in [S -> Int], NEW x \in S,
         \A y \in S : y # x => e[y] = f[y]
  PROVE  SumFunction(e) = SumFunction(f) + (e[x] - f[x])
<1>1. PICK g \in [SUBSET S -> Int] : SumsOver(f, g, SUBSET S) /\ SumFunction(f) = g[S]
  BY SumForm
<1>2. PICK h \in [SUBSET S -> Int] : SumsOver(e, h, SUBSET S) /\ SumFunction(e) = h[S]
  BY SumForm
<1> DEFINE Moved(T) == h[T] = g[T] + IF x \in T THEN e[x] - f[x] ELSE 0
           Bad == {n \in Nat : \E T \in SUBSET S : Cardinality(T) = n /\ ~Moved(T)}
<1>3. Bad = {}
  <2> SUFFICES ASSUME Bad # {} PROVE FALSE
    OBVIOUS
  <2>1. PICK n \in Bad : \A y \in Bad : n <= y
    <3> HIDE DEF Bad
    <3>1. Bad \subseteq Nat
      BY DEF Bad
    <3> QED
      BY <3>1, LeastNumber
  <2>2. PICK T \in SUBSET S : Cardinality(T) = n /\ ~Moved(T)
    BY <2>1
  <2>3. T # {}
    BY <1>1, <1>2, <2>2 DEF SumsOver
  <2> DEFINE y == Pick(T)
             R == T \ {y}
  <2>4. y \in T /\ y \in S /\ R \in SUBSET S /\ n - 1 \in Nat /\ Cardinality(R) = n - 1
    BY <2>2, <2>3, PickSmaller
  <2>5. Moved(R)
    BY <2>1, <2>4
  <2>6. g[T] = f[y] + g[R] /\ h[T] = e[y] + h[R]
    BY <1>1, <1>2, <2>3 DEF SumsOver
  <2>7. g[R] \in Int /\ h[R] \in Int /\ f[y] \in Int /\ e[y] \in Int /\ f[x] \in Int /\ e[x] \in Int
    BY <1>1, <1>2, <2>4
  <2> HIDE DEF y
  <2>8. CASE y = x
    BY <2>2, <2>4, <2>5, <2>6, <2>7, <2>8
  <2>9. CASE y # x
    BY <2>2, <2>4, <2>5, <2>6, <2>7, <2>9
  <2> QED
    BY <2>8, <2>9
<1>4. Cardinality(S) \in Nat
  BY FS_CardinalityType
<1>5. Moved(S)
  BY <1>3, <1>4
<1> QED
  BY <1>1, <1>2, <1>5

LEMMA SumBounds ==
  ASSUME NEW S, IsFiniteSet(S), NEW f \in [S -> Nat], NEW x \in S
  PROVE  f[x] <= SumFunction(f)
<1>0. f \in [S -> Int]
  OBVIOUS
<1>1. PICK g \in [SUBSET S -> Int] : SumsOver(f, g, SUBSET S) /\ SumFunction(f) = g[S]
  BY <1>0, SumForm
<1> DEFINE Above(T) == g[T] >= 0 /\ (x \in T => g[T] >= f[x])
           Bad == {n \in Nat : \E T \in SUBSET S : Cardinality(T) = n /\ ~Above(T)}
<1>3. Bad = {}
  <2> SUFFICES ASSUME Bad # {} PROVE FALSE
    OBVIOUS
  <2>1. PICK n \in Bad : \A y \in Bad : n <= y
    <3> HIDE DEF Bad
    <3>1. Bad \subseteq Nat
      BY DEF Bad
    <3> QED
      BY <3>1, LeastNumber
  <2>2. PICK T \in SUBSET S : Cardinality(T) = n /\ ~Above(T)
    BY <2>1
  <2>3. T # {}
    BY <1>1, <2>2 DEF SumsOver
  <2> DEFINE y == Pick(T)
             R == T \ {y}
  <2>4. y \in T /\ y \in S /\ R \in SUBSET S /\ n - 1 \in Nat /\ Cardinality(R) = n - 1
    BY <2>2, <2>3, PickSmaller
  <2>5. Above(R)
    BY <2>1, <2>4
  <2>6. g[T] = f[y] + g[R]
    BY <1>1, <2>3 DEF SumsOver
  <2>7. g[R] \in Int /\ f[y] \in Nat /\ f[x] \in Nat
    BY <1>1, <2>4
  <2> HIDE DEF y
  <2>8. CASE y = x
    BY <2>2, <2>4, <2>5, <2>6, <2>7, <2>8
  <2>9. CASE y # x
    BY <2>2, <2>4, <2>5, <2>6, <2>7, <2>9
  <2> QED
    BY <2>8, <2>9
<1>4. Cardinality(S) \in Nat
  BY FS_CardinalityType
<1> QED
  BY <1>1, <1>3, <1>4

LEMMA SumType ==
  ASSUME NEW S, IsFiniteSet(S), NEW f \in [S -> Int]
  PROVE  SumFunction(f) \in Int
<1>1. PICK g \in [SUBSET S -> Int] : SumsOver(f, g, SUBSET S) /\ SumFunction(f) = g[S]
  BY SumForm
<1> QED
  BY <1>1

LEMMA SumZero ==
  ASSUME NEW S, IsFiniteSet(S)
  PROVE  SumFunction([x \in S |-> 0]) = 0
<1> DEFINE f == [x \in S |-> 0]
<1>0. f \in [S -> Int]
  OBVIOUS
<1>1. PICK g \in [SUBSET S -> Int] : SumsOver(f, g, SUBSET S) /\ SumFunction(f) = g[S]
  BY <1>0, SumForm
<1> DEFINE Bad == {n \in Nat : \E T \in SUBSET S : Cardinality(T) = n /\ g[T] # 0}
<1>3. Bad = {}
  <2> SUFFICES ASSUME Bad # {} PROVE FALSE
    OBVIOUS
  <2>1. PICK n \in Bad : \A y \in Bad : n <= y
    <3> HIDE DEF Bad
    <3>1. Bad \subseteq Nat
      BY DEF Bad
    <3> QED
      BY <3>1, LeastNumber
  <2>2. PICK T \in SUBSET S : Cardinality(T) = n /\ g[T] # 0
    BY <2>1
  <2>3. T # {}
    BY <1>1, <2>2 DEF SumsOver
  <2> DEFINE y == Pick(T)
             R == T \ {y}
  <2>4. y \in T /\ y \in S /\ R \in SUBSET S /\ n - 1 \in Nat /\ Cardinality(R) = n - 1
    BY <2>2, <2>3, PickSmaller
  <2>5. g[R] = 0
    BY <2>1, <2>4
  <2>6. g[T] = f[y] + g[R]
    BY <1>1, <2>3 DEF SumsOver
  <2> HIDE DEF y
  <2> QED
    BY <2>2, <2>4, <2>5, <2>6
<1>4. Cardinality(S) \in Nat
  BY FS_CardinalityType
<1> QED
  BY <1>1, <1>3, <1>4

-----------------------------------------------------------------------------
(* The invariant of the rows                                               *)

(* A fee is charged at its own control points; a session that holds quota  *)
(* of a subscription knows which.                                          *)
FeeShape(r) ==
    /\ pc[r] \notin {"feeToken", "failed"} => fee[r].fund = 0
    /\ pc[r] # "failed" => fee[r].tok = 0

SubShape(r) == sess[r].source = "subscription" /\ pc[r] \notin BeforeFunding => sess[r].sub \in Subs

Shapes == \A r \in Requests : FeeShape(r) /\ SubShape(r)

RowsInv == IInv /\ Shapes /\ WalletAgrees /\ TokenAgrees /\ (MarkReliable => SubsAgree)

(* The row of a subscription that is never reset covers what r holds of    *)
(* it, so max(.., 0) does not cut a return of r short.                     *)
Covered(r) == MarkReliable /\ \A s \in Subs \ Periodic : OfSub(s, r) <= used[s]

(* The row of s moves by d: exactly where it covers r, otherwise it ends   *)
(* no higher than max(.., 0) leaves it.                                    *)
RowMoves(r, s, d) ==
    /\ used'[s] <= Larger(used[s] + d, 0)
    /\ s \notin Periodic /\ Covered(r) => used'[s] = used[s] + d

(* A step of r moves every row by what it changes in r's holdings.         *)
Moves(r) ==
    /\ wallet' = wallet - (OfWallet(r)' - OfWallet(r))
    /\ \A s \in Subs : RowMoves(r, s, OfSub(s, r)' - OfSub(s, r))
    /\ token' = token - (OfToken(r)' - OfToken(r))

LEMMA HoldingsType ==
  ASSUME TypeOK, NEW r \in Requests
  PROVE  /\ OfWallet(r) \in Int /\ OfToken(r) \in Int /\ \A s : OfSub(s, r) \in Int
         /\ fee[r].fund \in Nat /\ fee[r].tok \in Nat
<1>1. fundTaken[r] \in Int /\ tokTaken[r] \in Int /\ fee[r] \in [fund: Nat, tok: Nat]
  BY DEF TypeOK
<1>2. fee[r].fund \in Nat /\ fee[r].tok \in Nat
  BY <1>1
<1> QED
  BY <1>1, <1>2 DEF OfWallet, OfToken, OfSub

(* The other requests hold what they held.                                 *)
LEMMA FrameFee ==
  ASSUME TypeOK, NEW r \in Requests, Handler(r) \/ RefundGoroutine(r), NEW q \in Requests, q # r
  PROVE  fee'[q] = fee[q]
<1>1. fee \in [Requests -> [fund: Nat, tok: Nat]]
  BY DEF TypeOK
<1>2. CASE ChargeFee(r)
  BY <1>1, <1>2 DEF ChargeFee
<1>3. CASE ChargeFeeToken(r)
  BY <1>1, <1>3 DEF ChargeFeeToken
<1>4. CASE ~ChargeFee(r) /\ ~ChargeFeeToken(r)
  <2>1. fee' = fee
    BY <1>4 DEF Handler, RefundGoroutine, PrepareRequestBilling, TryWallet, PreConsumeToken,
       PreConsumeFunding, RollbackToken, PrepareAttempt, AttemptAborted, ReserveToken,
       RollbackFundingReserve, Upstream, SettleFunding, SettleToken, Refund, RefundFunding,
       MarkRefunded, RefundExtra, RefundToken, history
  <2> QED
    BY <2>1
<1> QED
  BY <1>2, <1>3, <1>4

LEMMA MovesAgree ==
  ASSUME IsFiniteSet(Requests), TypeOK, TypeOK', NEW r \in Requests,
         Handler(r) \/ RefundGoroutine(r), Moves(r)
  PROVE  /\ WalletAgrees => WalletAgrees'
         /\ TokenAgrees => TokenAgrees'
         /\ SubsAgree /\ Covered(r) /\ NeverOverRefunded' => SubsAgree'
<1>1. \A q \in Requests : q # r => Same(q) /\ fee'[q] = fee[q]
  BY Frame, FrameFee
<1>2. \A q \in Requests : q # r =>
        /\ OfWallet(q)' = OfWallet(q) /\ OfToken(q)' = OfToken(q)
        /\ \A s : OfSub(s, q)' = OfSub(s, q)
  BY <1>1 DEF Same, OfWallet, OfToken, OfSub
<1>3. \A q \in Requests :
        /\ OfWallet(q) \in Int /\ OfToken(q) \in Int /\ \A s : OfSub(s, q) \in Int
        /\ OfWallet(q)' \in Int /\ OfToken(q)' \in Int /\ \A s : OfSub(s, q)' \in Int
  <2> SUFFICES ASSUME NEW q \in Requests
               PROVE  /\ OfWallet(q) \in Int /\ OfToken(q) \in Int /\ \A s : OfSub(s, q) \in Int
                      /\ OfWallet(q)' \in Int /\ OfToken(q)' \in Int /\ \A s : OfSub(s, q)' \in Int
    OBVIOUS
  <2>1. fundTaken'[q] \in Int /\ tokTaken'[q] \in Int /\ fee'[q] \in [fund: Nat, tok: Nat]
    BY DEF TypeOK
  <2>2. fee'[q].fund \in Nat /\ fee'[q].tok \in Nat
    BY <2>1
  <2>3. OfWallet(q)' \in Int /\ OfToken(q)' \in Int /\ \A s : OfSub(s, q)' \in Int
    BY <2>1, <2>2 DEF OfWallet, OfToken, OfSub
  <2> QED
    BY <2>3, HoldingsType
<1>i. InitWallet \in Int /\ InitToken \in Int
  BY ConstantsAssumption
<1>4. ASSUME WalletAgrees
      PROVE  wallet' = InitWallet - SumFunction([q \in Requests |-> OfWallet(q)'])
  <2> DEFINE f == [q \in Requests |-> OfWallet(q)]
             e == [q \in Requests |-> OfWallet(q)']
  <2>1. /\ f \in [Requests -> Int] /\ e \in [Requests -> Int]
        /\ \A q \in Requests : q # r => e[q] = f[q]
        /\ e[r] = OfWallet(r)' /\ f[r] = OfWallet(r)
    BY <1>2, <1>3
  <2>2. wallet = InitWallet - SumFunction(f) /\ wallet' = wallet - (e[r] - f[r])
    BY <1>4, <2>1 DEF WalletAgrees, Moves
  <2> HIDE DEF f, e
  <2>3. SumFunction(e) = SumFunction(f) + (e[r] - f[r]) /\ SumFunction(f) \in Int
    BY <2>1, SumChange, SumType
  <2>4. e[r] \in Int /\ f[r] \in Int
    BY <2>1
  <2>5. wallet' = InitWallet - SumFunction(e)
    BY <1>i, <2>2, <2>3, <2>4
  <2> QED
    BY <2>5 DEF e
<1>5. ASSUME SubsAgree, Covered(r), NeverOverRefunded', NEW s \in Subs
      PROVE  LET held == SumFunction([q \in Requests |-> OfSub(s, q)'])
             IN  used'[s] <= held /\ (s \notin Periodic => used'[s] = held)
  <2> DEFINE f == [q \in Requests |-> OfSub(s, q)]
             e == [q \in Requests |-> OfSub(s, q)']
  <2>1. /\ f \in [Requests -> Int] /\ e \in [Requests -> Int]
        /\ \A q \in Requests : q # r => e[q] = f[q]
        /\ e[r] = OfSub(s, r)' /\ f[r] = OfSub(s, r)
    BY <1>2, <1>3
  <2>2. /\ used[s] <= SumFunction(f) /\ (s \notin Periodic => used[s] = SumFunction(f))
        /\ RowMoves(r, s, e[r] - f[r])
    BY <1>5, <2>1 DEF SubsAgree, Moves
  <2>n. e \in [Requests -> Nat]
    <3>1. \A q \in Requests : OfSub(s, q)' \in Nat
      <4> SUFFICES ASSUME NEW q \in Requests PROVE OfSub(s, q)' \in Nat
        OBVIOUS
      <4>1. fundTaken'[q] \in Int /\ fundTaken'[q] >= 0 /\ fee'[q] \in [fund: Nat, tok: Nat]
        BY <1>5 DEF TypeOK, NeverOverRefunded
      <4>2. fee'[q].fund \in Nat
        BY <4>1
      <4> QED
        BY <4>1, <4>2 DEF OfSub
    <3> QED
      BY <3>1
  <2>u. used[s] \in Nat /\ used'[s] \in Nat
    BY DEF TypeOK
  <2> HIDE DEF f, e
  <2>3. /\ SumFunction(e) = SumFunction(f) + (e[r] - f[r]) /\ SumFunction(f) \in Int
        /\ e[r] \in Int /\ f[r] \in Int
    BY <2>1, SumChange, SumType
  <2>4. e[r] <= SumFunction(e) /\ e[r] \in Nat
    BY <2>n, SumBounds
  <2>5. used'[s] <= SumFunction(e) /\ (s \notin Periodic => used'[s] = SumFunction(e))
    BY <1>5, <2>u, <2>2, <2>3, <2>4 DEF RowMoves, Larger
  <2> QED
    BY <2>5 DEF e
<1>6. ASSUME TokenAgrees
      PROVE  token' = InitToken - SumFunction([q \in Requests |-> OfToken(q)'])
  <2> DEFINE f == [q \in Requests |-> OfToken(q)]
             e == [q \in Requests |-> OfToken(q)']
  <2>1. /\ f \in [Requests -> Int] /\ e \in [Requests -> Int]
        /\ \A q \in Requests : q # r => e[q] = f[q]
        /\ e[r] = OfToken(r)' /\ f[r] = OfToken(r)
    BY <1>2, <1>3
  <2>2. token = InitToken - SumFunction(f) /\ token' = token - (e[r] - f[r])
    BY <1>6, <2>1 DEF TokenAgrees, Moves
  <2> HIDE DEF f, e
  <2>3. SumFunction(e) = SumFunction(f) + (e[r] - f[r]) /\ SumFunction(f) \in Int
    BY <2>1, SumChange, SumType
  <2>4. e[r] \in Int /\ f[r] \in Int
    BY <2>1
  <2>5. token' = InitToken - SumFunction(e)
    BY <1>i, <2>2, <2>3, <2>4
  <2> QED
    BY <2>5 DEF e
<1> QED
  BY <1>4, <1>5, <1>6 DEF WalletAgrees, SubsAgree, TokenAgrees

(* So it is as long as the rows agree.                                     *)
LEMMA RowsCover ==
  ASSUME IsFiniteSet(Requests), MarkReliable, TypeOK, NeverOverRefunded, SubsAgree,
         NEW r \in Requests
  PROVE  Covered(r)
<1> SUFFICES ASSUME NEW s \in Subs \ Periodic PROVE OfSub(s, r) <= used[s]
  BY DEF Covered
<1> DEFINE f == [q \in Requests |-> OfSub(s, q)]
<1>1. \A q \in Requests : OfSub(s, q) \in Nat
  <2> SUFFICES ASSUME NEW q \in Requests PROVE OfSub(s, q) \in Nat
    OBVIOUS
  <2>1. fundTaken[q] \in Int /\ fundTaken[q] >= 0 /\ fee[q].fund \in Nat
    BY HoldingsType DEF TypeOK, NeverOverRefunded
  <2> QED
    BY <2>1 DEF OfSub
<1>2. f \in [Requests -> Nat] /\ f[r] = OfSub(s, r)
  BY <1>1
<1>3. used[s] = SumFunction(f)
  BY DEF SubsAgree
<1> HIDE DEF f
<1>4. f[r] <= SumFunction(f)
  BY <1>2, SumBounds
<1> QED
  BY <1>1, <1>2, <1>3, <1>4

-----------------------------------------------------------------------------
(* A step that takes d more from the funding source and t more from the    *)
(* token, and changes the source only while nothing is held of it.         *)

Takes(r, d, t) ==
    /\ fundTaken'[r] + fee'[r].fund = fundTaken[r] + fee[r].fund + d
    /\ tokTaken'[r] + fee'[r].tok = tokTaken[r] + fee[r].tok + t
    /\ token' = token - t
    /\ \/ fundTaken[r] + fee[r].fund = 0
       \/ sess'[r].source = sess[r].source /\ sess'[r].sub = sess[r].sub
    /\ IF sess'[r].source = "subscription"
       THEN /\ wallet' = wallet
            /\ \A s \in Subs : RowMoves(r, s, IF s = sess'[r].sub THEN d ELSE 0)
            /\ d # 0 => sess'[r].sub \in Subs
       ELSE wallet' = wallet - d /\ used' = used

LEMMA ExactMoves ==
  ASSUME NEW r \in Requests, NEW s \in Subs, NEW d \in Int, used[s] \in Int, used'[s] = used[s] + d
  PROVE  RowMoves(r, s, d)
  BY DEF RowMoves, Larger

LEMMA TakesMoves ==
  ASSUME TypeOK, NEW r \in Requests, NEW d \in Int, NEW t \in Int, Takes(r, d, t)
  PROVE  Moves(r)
<1>1. /\ fundTaken[r] \in Int /\ tokTaken[r] \in Int /\ fee[r].fund \in Nat /\ fee[r].tok \in Nat
      /\ wallet \in Int /\ token \in Int /\ \A s \in Subs : used[s] \in Nat
  BY HoldingsType DEF TypeOK
<1> DEFINE a == fundTaken[r] + fee[r].fund
           b == fundTaken'[r] + fee'[r].fund
<1>2. a \in Int /\ b = a + d /\ (a = 0 \/ (sess'[r].source = sess[r].source /\ sess'[r].sub = sess[r].sub))
  BY <1>1 DEF Takes
<1>3. /\ OfWallet(r) = IF sess[r].source = "subscription" THEN 0 ELSE a
      /\ OfWallet(r)' = IF sess'[r].source = "subscription" THEN 0 ELSE b
  BY DEF OfWallet
<1>4. \A s : /\ OfSub(s, r) = IF sess[r].source = "subscription" /\ sess[r].sub = s THEN a ELSE 0
             /\ OfSub(s, r)' = IF sess'[r].source = "subscription" /\ sess'[r].sub = s THEN b ELSE 0
  BY DEF OfSub
<1>5. IF sess'[r].source = "subscription"
      THEN /\ wallet' = wallet
           /\ \A s \in Subs : RowMoves(r, s, IF s = sess'[r].sub THEN d ELSE 0)
      ELSE wallet' = wallet - d /\ used' = used
  BY DEF Takes
<1>6. token' = token - (OfToken(r)' - OfToken(r))
  <2>1. tokTaken'[r] + fee'[r].tok = tokTaken[r] + fee[r].tok + t /\ token' = token - t
    BY DEF Takes
  <2>2. OfToken(r)' = OfToken(r) + t /\ OfToken(r) \in Int
    BY <1>1, <2>1 DEF OfToken
  <2> QED
    BY <1>1, <2>1, <2>2
<1> HIDE DEF a, b
<1>7. wallet' = wallet - (OfWallet(r)' - OfWallet(r))
  BY <1>1, <1>2, <1>3, <1>5
<1>8. \A s \in Subs : RowMoves(r, s, OfSub(s, r)' - OfSub(s, r))
  <2> SUFFICES ASSUME NEW s \in Subs PROVE RowMoves(r, s, OfSub(s, r)' - OfSub(s, r))
    OBVIOUS
  <2>1. used[s] \in Nat
    BY <1>1
  <2>2. CASE sess'[r].source = "subscription"
    <3>1. OfSub(s, r)' - OfSub(s, r) = IF s = sess'[r].sub THEN d ELSE 0
      BY <1>2, <1>4, <2>2
    <3> QED
      BY <1>5, <2>2, <3>1
  <2>3. CASE sess'[r].source # "subscription"
    <3>1. OfSub(s, r)' - OfSub(s, r) = 0 /\ used'[s] = used[s]
      BY <1>2, <1>4, <1>5, <2>3
    <3> QED
      BY <2>1, <3>1, ExactMoves
  <2> QED
    BY <2>2, <2>3
<1> QED
  BY <1>6, <1>7, <1>8 DEF Moves

(* What the rows need to know of the request that takes the step.          *)
Ready(r) == TypeOK /\ Ledger(r) /\ FeeShape(r) /\ SubShape(r)

Kept(r) == Moves(r) /\ FeeShape(r)' /\ SubShape(r)'

(* TakeToken                                                               *)
LEMMA TakeTokenRow ==
  ASSUME TypeOK, NEW r \in Requests, NEW q \in Int, TakeToken(r, q)
  PROVE  \E t \in Int : tokTaken'[r] = tokTaken[r] + t /\ token' = token - t
<1>0. tokTaken \in [Requests -> Int] /\ token \in Int /\ tokTaken[r] \in Int
  BY DEF TypeOK
<1>1. CASE prof[r].playground
  BY <1>0, <1>1 DEF TakeToken
<1>2. CASE ~prof[r].playground
  BY <1>0, <1>2 DEF TakeToken
<1> QED
  BY <1>1, <1>2

(* TakeSub, exact while the row covers the amount                          *)
LEMMA TakeSubRow ==
  ASSUME TypeOK, NEW r \in Requests, NEW s \in Subs, NEW q \in Int, TakeSub(r, s, q)
  PROVE  /\ fundTaken'[r] = fundTaken[r] + q /\ wallet' = wallet
         /\ \A u \in Subs : u # s \/ used[s] + q >= 0
                            => used'[u] = used[u] + (IF u = s THEN q ELSE 0)
         /\ used'[s] = Larger(used[s] + q, 0)
<1>0. fundTaken \in [Requests -> Int] /\ used \in [Subs -> Nat]
  BY DEF TypeOK
<1>1. fundTaken'[r] = fundTaken[r] + q /\ wallet' = wallet /\ used' = [used EXCEPT ![s] = NewUsed(s, q)]
  BY <1>0 DEF TakeSub
<1>2. /\ used[s] \in Nat /\ (used[s] + q >= 0 => NewUsed(s, q) = used[s] + q)
      /\ NewUsed(s, q) = Larger(used[s] + q, 0)
  BY <1>0 DEF NewUsed, Larger
<1>3. \A u \in Subs : used[u] \in Nat /\ used'[u] = IF u = s THEN NewUsed(s, q) ELSE used[u]
  BY <1>0, <1>1
<1> QED
  BY <1>1, <1>2, <1>3

(* TakeFunding of an amount the request still holds                        *)
LEMMA TakeFundingRow ==
  ASSUME NEW r \in Requests, Ready(r), NEW q \in Int, TakeFunding(r, q),
         pc[r] \notin BeforeFunding, MarkReliable => fundTaken[r] + q >= 0
  PROVE  /\ fundTaken'[r] = fundTaken[r] + q
         /\ IF sess[r].source = "subscription"
            THEN /\ wallet' = wallet /\ sess[r].sub \in Subs
                 /\ \A s \in Subs : RowMoves(r, s, IF s = sess[r].sub THEN q ELSE 0)
            ELSE wallet' = wallet - q /\ used' = used
<1>0. TypeOK /\ fundTaken \in [Requests -> Int] /\ fundTaken[r] \in Int /\ fee[r].fund \in Nat
  BY HoldingsType DEF Ready, TypeOK
<1>1. CASE sess[r].source = "subscription"
  <2>1. sess[r].sub \in Subs /\ used[sess[r].sub] \in Nat
    BY <1>1 DEF Ready, SubShape, TypeOK
  <2>2. OfSub(sess[r].sub, r) = fundTaken[r] + fee[r].fund
    BY <1>1 DEF OfSub
  <2>3. Covered(r) /\ sess[r].sub \notin Periodic => used[sess[r].sub] + q >= 0
    BY <1>0, <2>1, <2>2 DEF Covered
  <2>4. TakeSub(r, sess[r].sub, q)
    BY <1>1 DEF TakeFunding
  <2>5. ASSUME NEW s \in Subs
        PROVE  RowMoves(r, s, IF s = sess[r].sub THEN q ELSE 0)
    <3>1. used[s] \in Nat
      BY <1>0 DEF TypeOK
    <3>2. CASE s # sess[r].sub
      BY <1>0, <2>1, <2>4, <3>1, <3>2, TakeSubRow, ExactMoves
    <3>3. CASE s = sess[r].sub
      <4>1. /\ used'[s] = Larger(used[s] + q, 0)
            /\ used[s] + q >= 0 => used'[s] = used[s] + q
        BY <1>0, <2>1, <2>4, <3>3, TakeSubRow
      <4> QED
        BY <2>3, <3>1, <3>3, <4>1 DEF RowMoves, Larger
    <3> QED
      BY <3>2, <3>3
  <2> QED
    BY <1>0, <1>1, <2>1, <2>4, <2>5, TakeSubRow
<1>2. CASE sess[r].source # "subscription"
  BY <1>0, <1>2 DEF TakeFunding, TakeWallet
<1> QED
  BY <1>1, <1>2

-----------------------------------------------------------------------------
(* One lemma per action: the step moves the rows by what it takes.         *)

USE DEF Goto

LEMMA StepKept ==
  ASSUME NEW r \in Requests, Ready(r), NEW d \in Int, NEW t \in Int,
         fundTaken'[r] = fundTaken[r] + d, tokTaken'[r] = tokTaken[r] + t, token' = token - t,
         fee'[r] = fee[r], pc'[r] = pc[r] \/ pc[r] \notin {"feeToken", "failed"},
         fundTaken[r] + fee[r].fund = 0
           \/ (sess'[r].source = sess[r].source /\ sess'[r].sub = sess[r].sub),
         sess'[r].source = "subscription" /\ pc'[r] \notin BeforeFunding => sess'[r].sub \in Subs,
         IF sess'[r].source = "subscription"
         THEN /\ wallet' = wallet /\ (d # 0 => sess'[r].sub \in Subs)
              /\ \A s \in Subs : RowMoves(r, s, IF s = sess'[r].sub THEN d ELSE 0)
         ELSE wallet' = wallet - d /\ used' = used
  PROVE  Kept(r)
<1>0. TypeOK /\ fundTaken[r] \in Int /\ tokTaken[r] \in Int /\ fee[r].fund \in Nat /\ fee[r].tok \in Nat
  BY HoldingsType DEF Ready, TypeOK
<1>1. Takes(r, d, t)
  BY <1>0 DEF Takes
<1>2. Moves(r)
  BY <1>0, <1>1, TakesMoves
<1>3. FeeShape(r)'
  BY DEF Ready, FeeShape
<1>4. SubShape(r)'
  BY DEF SubShape
<1> QED
  BY <1>2, <1>3, <1>4 DEF Kept

(* A step of r that touches no account                                     *)
LEMMA QuietKept ==
  ASSUME NEW r \in Requests, Ready(r),
         wallet' = wallet, used' = used, token' = token, fundTaken'[r] = fundTaken[r],
         tokTaken'[r] = tokTaken[r], fee'[r] = fee[r],
         pc'[r] = pc[r] \/ pc[r] \notin {"feeToken", "failed"},
         fundTaken[r] + fee[r].fund = 0
           \/ (sess'[r].source = sess[r].source /\ sess'[r].sub = sess[r].sub),
         sess'[r].source = "subscription" /\ pc'[r] \notin BeforeFunding => sess'[r].sub \in Subs
  PROVE  Kept(r)
<1>0. /\ fundTaken[r] \in Int /\ tokTaken[r] \in Int /\ token \in Int /\ wallet \in Int
      /\ \A s \in Subs : used[s] \in Nat
  BY DEF Ready, TypeOK
<1>1. /\ fundTaken'[r] = fundTaken[r] + 0 /\ tokTaken'[r] = tokTaken[r] + 0 /\ token' = token - 0
      /\ wallet' = wallet - 0 /\ \A s \in Subs : used'[s] = used[s] + 0
  BY <1>0
<1>2. \A s \in Subs : used'[s] = used[s] + (IF s = sess'[r].sub THEN 0 ELSE 0)
  BY <1>1
<1>3. IF sess'[r].source = "subscription"
      THEN /\ wallet' = wallet /\ (0 # 0 => sess'[r].sub \in Subs)
           /\ \A s \in Subs : RowMoves(r, s, IF s = sess'[r].sub THEN 0 ELSE 0)
      ELSE wallet' = wallet - 0 /\ used' = used
  BY <1>0, <1>1, <1>2, ExactMoves
<1>4. 0 \in Int
  OBVIOUS
<1> QED
  BY <1>1, <1>3, <1>4, StepKept, Zenon

(* Nothing is held before the funding source has been asked.               *)
LEMMA NothingHeld ==
  ASSUME NEW r \in Requests, Ready(r), pc[r] \in BeforeFunding
  PROVE  fundTaken[r] = 0 /\ fee[r].fund = 0 /\ fundTaken[r] + fee[r].fund = 0
<1>1. fundTaken[r] = 0
  BY DEF Ready, Ledger, FundingLedger
<1>2. fee[r].fund = 0
  BY DEF Ready, FeeShape, BeforeFunding
<1> QED
  BY <1>1, <1>2

LEMMA RowsPrepareRequestBilling ==
  ASSUME NEW r \in Requests, Ready(r), PrepareRequestBilling(r)
  PROVE  Kept(r)
<1>t. Typed(r)
  BY TypedFields DEF Ready
<1>a. /\ wallet' = wallet /\ used' = used /\ token' = token /\ fundTaken'[r] = fundTaken[r]
      /\ tokTaken'[r] = tokTaken[r] /\ fee'[r] = fee[r] /\ pc[r] = "idle"
  BY DEF PrepareRequestBilling, accounts, history
<1>b. \/ pc'[r] = "preToken" /\ sess'[r] = FreshSession("subscription")
      \/ pc'[r] = "tryWallet" /\ sess'[r] = FreshSession("wallet")
      \/ pc'[r] \in {"ready", "rejected"} /\ sess'[r] = sess[r]
  BY <1>t DEF Typed, PrepareRequestBilling, NewBillingSession, StartSession, FirstSource
<1>c. sess[r].source = "none"
  BY <1>a DEF Ready, Ledger, SessionShape
<1>d. sess'[r].source = "subscription" => pc'[r] \in BeforeFunding
  BY <1>b, <1>c DEF FreshSession, BeforeFunding
<1> QED
  BY <1>a, <1>d, NothingHeld, QuietKept DEF BeforeFunding

LEMMA RowsTryWallet ==
  ASSUME NEW r \in Requests, Ready(r), TryWallet(r)
  PROVE  Kept(r)
<1>t. TypeOK /\ Typed(r)
  BY TypedFields DEF Ready
<1>a. /\ wallet' = wallet /\ used' = used /\ token' = token /\ fundTaken'[r] = fundTaken[r]
      /\ tokTaken'[r] = tokTaken[r] /\ fee'[r] = fee[r] /\ pc[r] = "tryWallet"
  BY DEF TryWallet, accounts, history
<1>c. sess[r].source = "wallet"
  BY <1>a DEF Ready, Ledger, SessionShape
<1>d. sess'[r].source = "subscription" => pc'[r] \in BeforeFunding
  <2>1. CASE Insufficient(r)
    BY <1>t, <2>1, InsufficientPost DEF FreshSession, BeforeFunding
  <2>2. CASE sess' = [sess EXCEPT ![r].trusted = ShouldTrust(r)]
    <3>1. sess'[r] = [sess[r] EXCEPT !.trusted = ShouldTrust(r)]
      BY <1>t, <2>2 DEF Typed
    <3>2. sess'[r].source = sess[r].source
      BY <1>t, <3>1 DEF Typed, SessionType
    <3> QED
      BY <1>c, <3>2
  <2> QED
    BY <2>1, <2>2 DEF TryWallet
<1> QED
  BY <1>a, <1>d, NothingHeld, QuietKept DEF BeforeFunding

LEMMA RowsPreConsumeToken ==
  ASSUME NEW r \in Requests, Ready(r), PreConsumeToken(r)
  PROVE  Kept(r)
<1>t. TypeOK /\ Typed(r) /\ token \in Int /\ wallet \in Int
  BY TypedFields DEF Ready, TypeOK
<1>a. /\ wallet' = wallet /\ used' = used /\ fundTaken'[r] = fundTaken[r]
      /\ fee'[r] = fee[r] /\ pc[r] = "preToken"
  BY DEF PreConsumeToken
<1>b. pc'[r] \in BeforeFunding
  BY <1>t DEF Typed, PreConsumeToken, NoBilling, BeforeFunding
<1>c. PICK t \in Int : tokTaken'[r] = tokTaken[r] + t /\ token' = token - t
  <2>1. CASE UNCHANGED <<token, tokTaken>>
    <3>1. tokTaken[r] \in Int
      BY <1>t DEF Typed
    <3> QED
      BY <1>t, <2>1, <3>1
  <2>2. CASE TakeToken(r, Effective(r))
    BY <1>t, <2>2, TakeTokenRow DEF Typed
  <2> QED
    BY <2>1, <2>2 DEF PreConsumeToken
<1>d. /\ fundTaken'[r] = fundTaken[r] + 0 /\ wallet' = wallet - 0
      /\ \A s \in Subs : RowMoves(r, s, IF s = sess'[r].sub THEN 0 ELSE 0)
  <2>1. \A s \in Subs : used[s] \in Int /\ used'[s] = used[s] + 0
    BY <1>t, <1>a DEF TypeOK
  <2> QED
    BY <1>t, <1>a, <2>1, ExactMoves DEF Typed
<1> QED
  BY <1>a, <1>b, <1>c, <1>d, NothingHeld, StepKept DEF BeforeFunding

LEMMA RowsRollbackToken ==
  ASSUME NEW r \in Requests, Ready(r), RollbackToken(r)
  PROVE  Kept(r)
<1>t. TypeOK /\ Typed(r) /\ token \in Int /\ wallet \in Int
  BY TypedFields DEF Ready, TypeOK
<1>a. /\ wallet' = wallet /\ used' = used /\ fundTaken'[r] = fundTaken[r]
      /\ fee'[r] = fee[r] /\ pc[r] \in {"rollbackNext", "rollbackReject"}
  BY DEF RollbackToken
<1>b. pc'[r] \in BeforeFunding
  <2>1. CASE Insufficient(r)
    BY <1>t, <2>1, InsufficientPost DEF BeforeFunding
  <2>2. CASE NoBilling(r)
    BY <1>t, <2>2 DEF NoBilling, Typed, BeforeFunding
  <2> QED
    BY <2>1, <2>2 DEF RollbackToken
<1>c. PICK t \in Int : tokTaken'[r] = tokTaken[r] + t /\ token' = token - t
  <2>1. CASE UNCHANGED <<token, tokTaken>>
    <3>1. tokTaken[r] \in Int
      BY <1>t DEF Typed
    <3> QED
      BY <1>t, <2>1, <3>1
  <2>2. CASE TakeToken(r, -sess[r].tokenConsumed)
    BY <1>t, <2>2, TakeTokenRow DEF Typed
  <2> QED
    BY <2>1, <2>2 DEF RollbackToken
<1>d. /\ fundTaken'[r] = fundTaken[r] + 0 /\ wallet' = wallet - 0
      /\ \A s \in Subs : RowMoves(r, s, IF s = sess'[r].sub THEN 0 ELSE 0)
  <2>1. \A s \in Subs : used[s] \in Int /\ used'[s] = used[s] + 0
    BY <1>t, <1>a DEF TypeOK
  <2> QED
    BY <1>t, <1>a, <2>1, ExactMoves DEF Typed
<1> QED
  BY <1>a, <1>b, <1>c, <1>d, NothingHeld, StepKept DEF BeforeFunding

LEMMA RowsPreConsumeFunding ==
  ASSUME NEW r \in Requests, Ready(r), PreConsumeFunding(r)
  PROVE  Kept(r)
<1>t. /\ TypeOK /\ Typed(r) /\ token \in Int /\ wallet \in Int /\ tokTaken[r] \in Int
      /\ fundTaken[r] \in Int
  BY TypedFields DEF Ready, TypeOK
<1>a. /\ tokTaken'[r] = tokTaken[r] + 0 /\ token' = token - 0
      /\ fee'[r] = fee[r] /\ pc[r] = "preFunding"
  BY <1>t DEF PreConsumeFunding
<1>h. fundTaken[r] + fee[r].fund = 0
  BY <1>a, NothingHeld DEF BeforeFunding
<1>b. CASE /\ sess[r].source = "wallet" /\ TakeWallet(r, Effective(r))
           /\ sess' = [sess EXCEPT ![r] = FundedByWallet(@, Effective(r))]
  <2>1. /\ fundTaken'[r] = fundTaken[r] + Effective(r) /\ wallet' = wallet - Effective(r)
        /\ used' = used /\ sess'[r] = FundedByWallet(sess[r], Effective(r))
    BY <1>t, <1>b DEF Typed, TakeWallet
  <2>2. sess'[r].source = "wallet"
    BY <1>t, <1>b, <2>1 DEF Typed, SessionType, FundedByWallet
  <2>3. Effective(r) \in Int
    BY <1>t DEF Typed
  <2> QED
    BY <1>a, <1>h, <2>1, <2>2, <2>3, StepKept
<1>c. CASE \E s \in Subs :
             /\ sess[r].source = "subscription" /\ PreConsumeSub(r, s, Effective(r))
             /\ sess' = [sess EXCEPT ![r] = FundedBySub(@, s, Effective(r))]
  <2>1. PICK s \in Subs :
          /\ sess[r].source = "subscription" /\ PreConsumeSub(r, s, Effective(r))
          /\ sess' = [sess EXCEPT ![r] = FundedBySub(@, s, Effective(r))]
    BY <1>c
  <2>2. sess'[r] = FundedBySub(sess[r], s, Effective(r)) /\ sess[r] \in SessionType
    BY <1>t, <2>1 DEF Typed
  <2>3. sess'[r].source = "subscription" /\ sess'[r].sub = s
    <3>1. sess'[r].source = sess[r].source
      BY <2>2 DEF SessionType, FundedBySub
    <3>2. sess'[r].sub = s
      BY <2>2 DEF SessionType, FundedBySub
    <3> QED
      BY <2>1, <3>1, <3>2
  <2>4. Effective(r) \in Nat /\ Effective(r) \in Int
    BY <1>t DEF Typed
  <2>5. /\ fundTaken'[r] = fundTaken[r] + Effective(r) /\ wallet' = wallet
        /\ \A u \in Subs : RowMoves(r, u, IF u = s THEN Effective(r) ELSE 0)
    <3>1. PICK due \in SUBSET Periodic : used' = [AfterReset(due) EXCEPT ![s] = @ + Effective(r)]
      BY <2>1 DEF PreConsumeSub
    <3>2. \A u \in Subs :
            /\ used[u] \in Nat /\ AfterReset(due)[u] = IF u \in due THEN 0 ELSE used[u]
            /\ used'[u] = AfterReset(due)[u] + (IF u = s THEN Effective(r) ELSE 0)
      BY <1>t, <2>4, <3>1 DEF AfterReset, TypeOK
    <3>3. \A u \in Subs : RowMoves(r, u, IF u = s THEN Effective(r) ELSE 0)
      BY <2>4, <3>1, <3>2 DEF RowMoves, Larger
    <3>4. fundTaken'[r] = fundTaken[r] + Effective(r) /\ wallet' = wallet
      BY <1>t, <2>1 DEF PreConsumeSub, Typed
    <3> QED
      BY <3>3, <3>4
  <2> QED
    BY <1>a, <1>h, <2>3, <2>4, <2>5, StepKept
<1>d. CASE /\ \E l \in {"rollbackNext", "rollbackReject"} : Goto(r, l)
           /\ UNCHANGED <<wallet, used, record, sess, fundTaken>>
  <2>1. pc'[r] \in BeforeFunding /\ token' = token /\ tokTaken'[r] = tokTaken[r]
    BY <1>t, <1>a, <1>d DEF Typed, BeforeFunding
  <2> QED
    BY <1>a, <1>d, <1>h, <2>1, QuietKept
<1> QED
  BY <1>b, <1>c, <1>d DEF PreConsumeFunding

LEMMA RowsPrepareAttempt ==
  ASSUME NEW r \in Requests, Ready(r), PrepareAttempt(r)
  PROVE  Kept(r)
<1>t. /\ TypeOK /\ Typed(r) /\ token \in Int /\ wallet \in Int /\ tokTaken[r] \in Int
      /\ fundTaken[r] \in Int
  BY TypedFields DEF Ready, TypeOK
<1>a. /\ tokTaken'[r] = tokTaken[r] /\ token' = token
      /\ tokTaken'[r] = tokTaken[r] + 0 /\ token' = token - 0
      /\ fee'[r] = fee[r] /\ pc[r] = "ready"
  BY <1>t DEF PrepareAttempt
<1>h. fundTaken[r] = sess[r].pre /\ fee[r].fund = 0
  BY <1>a DEF Ready, Ledger, FundingLedger, FeeShape, Holding
<1>s. sess[r].source = "subscription" => sess[r].sub \in Subs
  BY <1>a DEF Ready, SubShape, BeforeFunding
<1>1. PICK target \in Amounts :
        \/ /\ ~HasSession(r) /\ NewBillingSession(r, target)
           /\ UNCHANGED <<wallet, used, fundTaken>>
        \/ /\ HasSession(r) /\ ~ReserveSkips(r, target)
           /\ TakeFunding(r, target - sess[r].pre)
           /\ sess' = IF sess[r].source # "wallet" THEN sess
                      ELSE [sess EXCEPT ![r].consumed =
                                ConsumedAfterReserve(r, target - sess[r].pre)]
           /\ Goto(r, "reserveToken")
        \/ UNCHANGED <<wallet, used, fundTaken, sess>>
  BY DEF PrepareAttempt
<1>n. target \in Nat
  BY ConstantsAssumption
<1>b. CASE /\ ~HasSession(r) /\ NewBillingSession(r, target)
           /\ UNCHANGED <<wallet, used, fundTaken>>
  <2>1. sess[r].pre = 0
    BY <1>b DEF HasSession, Ready, Ledger, SessionShape
  <2>2. pc'[r] \in BeforeFunding
    BY <1>t, <1>b DEF Typed, NewBillingSession, StartSession, BeforeFunding
  <2>3. fundTaken[r] + fee[r].fund = 0
    BY <1>h, <2>1
  <2> QED
    BY <1>a, <1>b, <2>2, <2>3, QuietKept
<1>c. CASE UNCHANGED <<wallet, used, fundTaken, sess>>
  BY <1>a, <1>c, <1>s, QuietKept
<1>d. CASE /\ HasSession(r) /\ ~ReserveSkips(r, target)
           /\ TakeFunding(r, target - sess[r].pre)
           /\ sess' = IF sess[r].source # "wallet" THEN sess
                      ELSE [sess EXCEPT ![r].consumed =
                                ConsumedAfterReserve(r, target - sess[r].pre)]
           /\ Goto(r, "reserveToken")
  <2> DEFINE delta == target - sess[r].pre
  <2>0. delta \in Int /\ fundTaken[r] + delta >= 0
    BY <1>t, <1>n, <1>h DEF Typed
  <2>1. /\ fundTaken'[r] = fundTaken[r] + delta
        /\ IF sess[r].source = "subscription"
           THEN /\ wallet' = wallet /\ sess[r].sub \in Subs
                /\ \A s \in Subs : RowMoves(r, s, IF s = sess[r].sub THEN delta ELSE 0)
           ELSE wallet' = wallet - delta /\ used' = used
    BY <1>a, <1>d, <2>0, TakeFundingRow DEF BeforeFunding
  <2>2. sess'[r].source = sess[r].source /\ sess'[r].sub = sess[r].sub
    <3>1. sess[r] \in SessionType
      BY <1>t DEF Typed
    <3>2. \/ sess'[r] = sess[r]
          \/ sess'[r] = [sess[r] EXCEPT !.consumed = ConsumedAfterReserve(r, target - sess[r].pre)]
      BY <1>t, <1>d DEF Typed
    <3> QED
      BY <3>1, <3>2 DEF SessionType
  <2> HIDE DEF delta
  <2> QED
    BY <1>a, <1>s, <2>0, <2>1, <2>2, StepKept
<1> QED
  BY <1>1, <1>b, <1>c, <1>d

LEMMA RowsAttemptAborted ==
  ASSUME NEW r \in Requests, Ready(r), AttemptAborted(r) \/ Upstream(r) \/ Refund(r)
  PROVE  Kept(r)
<1>t. TypeOK /\ Typed(r)
  BY TypedFields DEF Ready
<1>a. /\ wallet' = wallet /\ used' = used /\ token' = token /\ fundTaken'[r] = fundTaken[r]
      /\ tokTaken'[r] = tokTaken[r] /\ fee'[r] = fee[r] /\ pc[r] \in {"ready", "upstream", "fail"}
  BY DEF AttemptAborted, Upstream, Refund, accounts, history
<1>b. sess'[r].source = sess[r].source /\ sess'[r].sub = sess[r].sub
  <2>1. sess[r] \in SessionType
    BY <1>t DEF Typed
  <2>2. sess'[r] = sess[r] \/ sess'[r] = [sess[r] EXCEPT !.refunded = TRUE]
    BY <1>t DEF Typed, AttemptAborted, Upstream, Refund
  <2> QED
    BY <2>1, <2>2 DEF SessionType
<1>s. sess[r].source = "subscription" => sess[r].sub \in Subs
  BY <1>a DEF Ready, SubShape, BeforeFunding
<1> QED
  BY <1>a, <1>b, <1>s, QuietKept

(* A step that only moves the token                                        *)
LEMMA TokenKept ==
  ASSUME NEW r \in Requests, Ready(r), NEW t \in Int,
         wallet' = wallet, used' = used, fundTaken'[r] = fundTaken[r], fee'[r] = fee[r],
         tokTaken'[r] = tokTaken[r] + t, token' = token - t,
         pc[r] \notin BeforeFunding, pc'[r] = pc[r] \/ pc[r] \notin {"feeToken", "failed"},
         sess'[r].source = sess[r].source, sess'[r].sub = sess[r].sub
  PROVE  Kept(r)
<1>0. fundTaken[r] \in Int /\ wallet \in Int /\ \A s \in Subs : used[s] \in Nat
  BY DEF Ready, TypeOK
<1>1. fundTaken'[r] = fundTaken[r] + 0 /\ wallet' = wallet - 0 /\ \A s \in Subs : used'[s] = used[s] + 0
  BY <1>0
<1>2. IF sess'[r].source = "subscription"
      THEN /\ wallet' = wallet /\ (0 # 0 => sess'[r].sub \in Subs)
           /\ \A s \in Subs : RowMoves(r, s, IF s = sess'[r].sub THEN 0 ELSE 0)
      ELSE wallet' = wallet - 0 /\ used' = used
  BY <1>0, <1>1, ExactMoves
<1>3. 0 \in Int
  OBVIOUS
<1>4. sess'[r].source = "subscription" => sess'[r].sub \in Subs
  BY DEF Ready, SubShape
<1> QED
  BY <1>1, <1>2, <1>3, <1>4, StepKept, Zenon

LEMMA RowsReserveToken ==
  ASSUME NEW r \in Requests, Ready(r), ReserveToken(r)
  PROVE  Kept(r)
<1>t. TypeOK /\ Typed(r) /\ token \in Int /\ tokTaken[r] \in Int /\ arg[r] \in Int
  BY TypedFields DEF Ready, TypeOK
<1>a. /\ wallet' = wallet /\ used' = used /\ fundTaken'[r] = fundTaken[r]
      /\ fee'[r] = fee[r] /\ pc[r] = "reserveToken"
  BY DEF ReserveToken
<1>b. sess'[r].source = sess[r].source /\ sess'[r].sub = sess[r].sub
  <2>1. sess[r] \in SessionType
    BY <1>t DEF Typed
  <2>2. sess'[r] = sess[r] \/ sess'[r] = Reserved(sess[r], arg[r], prof[r].image)
    BY <1>t DEF Typed, ReserveToken
  <2> QED
    BY <2>1, <2>2 DEF SessionType, Reserved
<1>c. PICK t \in Int : tokTaken'[r] = tokTaken[r] + t /\ token' = token - t
  <2>1. CASE UNCHANGED <<token, tokTaken>>
    BY <1>t, <2>1
  <2>2. CASE TakeToken(r, arg[r])
    BY <1>t, <2>2, TakeTokenRow
  <2> QED
    BY <2>1, <2>2 DEF ReserveToken
<1> QED
  BY <1>a, <1>b, <1>c, TokenKept DEF BeforeFunding

LEMMA RowsSettleToken ==
  ASSUME NEW r \in Requests, Ready(r), SettleToken(r)
  PROVE  Kept(r)
<1>t. TypeOK /\ Typed(r) /\ token \in Int /\ tokTaken[r] \in Int /\ SettleDelta(r) \in Int
  BY TypedFields DEF Ready, TypeOK, SettleDelta, Typed
<1>a. /\ wallet' = wallet /\ used' = used /\ fundTaken'[r] = fundTaken[r]
      /\ fee'[r] = fee[r] /\ pc[r] = "settleToken"
  BY DEF SettleToken
<1>b. sess'[r].source = sess[r].source /\ sess'[r].sub = sess[r].sub
  <2>1. sess[r] \in SessionType
    BY <1>t DEF Typed
  <2>2. sess'[r] = [sess[r] EXCEPT !.settled = HasSession(r)]
    BY <1>t DEF Typed, SettleToken
  <2> QED
    BY <2>1, <2>2 DEF SessionType
<1>c. PICK t \in Int : tokTaken'[r] = tokTaken[r] + t /\ token' = token - t
  <2>1. CASE UNCHANGED <<token, tokTaken>>
    BY <1>t, <2>1
  <2>2. CASE TakeToken(r, SettleDelta(r))
    BY <1>t, <2>2, TakeTokenRow
  <2> QED
    BY <2>1, <2>2 DEF SettleToken
<1> QED
  BY <1>a, <1>b, <1>c, TokenKept DEF BeforeFunding

LEMMA RowsRefundToken ==
  ASSUME NEW r \in Requests, Ready(r), RefundToken(r)
  PROVE  Kept(r)
<1>t. TypeOK /\ Typed(r) /\ token \in Int /\ tokTaken[r] \in Int /\ -sess[r].tokenConsumed \in Int
  BY TypedFields DEF Ready, TypeOK, Typed
<1>a. /\ wallet' = wallet /\ used' = used /\ fundTaken'[r] = fundTaken[r]
      /\ fee'[r] = fee[r] /\ pc'[r] = pc[r] /\ sess'[r] = sess[r] /\ rpc[r] = "token"
  BY DEF RefundToken, control
<1>b. pc[r] \notin BeforeFunding
  BY <1>a DEF Ready, Ledger, GoroutineShape, BeforeFunding, Failing
<1>c. PICK t \in Int : tokTaken'[r] = tokTaken[r] + t /\ token' = token - t
  <2>1. CASE UNCHANGED <<token, tokTaken>>
    BY <1>t, <2>1
  <2>2. CASE TakeToken(r, -sess[r].tokenConsumed)
    BY <1>t, <2>2, TakeTokenRow
  <2> QED
    BY <2>1, <2>2 DEF RefundToken
<1> QED
  BY <1>a, <1>b, <1>c, TokenKept

LEMMA RowsMarkRefunded ==
  ASSUME NEW r \in Requests, Ready(r), MarkRefunded(r)
  PROVE  Kept(r)
<1>a. /\ wallet' = wallet /\ used' = used /\ fundTaken'[r] = fundTaken[r] /\ token' = token
      /\ tokTaken'[r] = tokTaken[r]
      /\ fee'[r] = fee[r] /\ pc'[r] = pc[r] /\ sess'[r] = sess[r]
  BY DEF MarkRefunded, control, history
<1> QED
  BY <1>a, QuietKept DEF Ready, SubShape

(* A step that only moves the funding source, by an amount r still holds   *)
LEMMA FundingKept ==
  ASSUME NEW r \in Requests, Ready(r), NEW d \in Int, MarkReliable => fundTaken[r] + d >= 0,
         TakeFunding(r, d), token' = token, tokTaken'[r] = tokTaken[r], fee'[r] = fee[r],
         pc[r] \notin BeforeFunding, pc'[r] = pc[r] \/ pc[r] \notin {"feeToken", "failed"},
         sess'[r].source = sess[r].source, sess'[r].sub = sess[r].sub
  PROVE  Kept(r)
<1>0. tokTaken[r] \in Int /\ token \in Int
  BY DEF Ready, TypeOK
<1>1. tokTaken'[r] = tokTaken[r] + 0 /\ token' = token - 0 /\ 0 \in Int
  BY <1>0
<1>2. /\ fundTaken'[r] = fundTaken[r] + d
      /\ IF sess[r].source = "subscription"
         THEN /\ wallet' = wallet /\ sess[r].sub \in Subs
              /\ \A s \in Subs : RowMoves(r, s, IF s = sess[r].sub THEN d ELSE 0)
         ELSE wallet' = wallet - d /\ used' = used
  BY TakeFundingRow
<1> QED
  BY <1>1, <1>2, StepKept

LEMMA RowsRollbackFundingReserve ==
  ASSUME NEW r \in Requests, Ready(r), RollbackFundingReserve(r)
  PROVE  Kept(r)
<1>t. TypeOK /\ Typed(r) /\ arg[r] \in Nat /\ fundTaken[r] \in Int
  BY TypedFields DEF Ready, TypeOK
<1>a. /\ token' = token /\ tokTaken'[r] = tokTaken[r]
      /\ fee'[r] = fee[r] /\ pc[r] = "reserveRollback"
  BY DEF RollbackFundingReserve
<1>b. sess'[r].source = sess[r].source /\ sess'[r].sub = sess[r].sub
  <2>1. sess[r] \in SessionType
    BY <1>t DEF Typed
  <2>2. sess'[r] = sess[r] \/ sess'[r] = [sess[r] EXCEPT !.consumed = ConsumedAfterRollback(r)]
    BY <1>t DEF Typed, RollbackFundingReserve
  <2> QED
    BY <2>1, <2>2 DEF SessionType
<1>c. fundTaken[r] = sess[r].pre + arg[r]
  BY <1>a DEF Ready, Ledger, FundingLedger, Reserving
<1>d. CASE TakeFunding(r, -arg[r])
  <2>1. -arg[r] \in Int /\ fundTaken[r] + (-arg[r]) >= 0
    BY <1>t, <1>c DEF Typed
  <2> QED
    BY <1>a, <1>b, <1>d, <2>1, FundingKept DEF BeforeFunding
<1>e. CASE UNCHANGED <<wallet, used, fundTaken, sess>>
  <2>1. sess[r].source = "subscription" => sess[r].sub \in Subs
    BY <1>a DEF Ready, SubShape, BeforeFunding
  <2> QED
    BY <1>a, <1>e, <2>1, QuietKept
<1> QED
  BY <1>d, <1>e DEF RollbackFundingReserve

LEMMA RowsSettleFunding ==
  ASSUME NEW r \in Requests, Ready(r), SettleFunding(r)
  PROVE  Kept(r)
<1>t. TypeOK /\ Typed(r) /\ arg[r] \in Nat /\ fundTaken[r] \in Int
  BY TypedFields DEF Ready, TypeOK
<1>a. /\ token' = token /\ tokTaken'[r] = tokTaken[r]
      /\ fee'[r] = fee[r] /\ pc[r] = "settleFunding"
  BY DEF SettleFunding
<1>b. sess'[r].source = sess[r].source /\ sess'[r].sub = sess[r].sub
  <2>1. sess[r] \in SessionType
    BY <1>t DEF Typed
  <2>2. \/ sess'[r] = sess[r] \/ sess'[r] = [sess[r] EXCEPT !.settled = HasSession(r)]
        \/ sess'[r] = [sess[r] EXCEPT !.fundingSettled = HasSession(r)]
    BY <1>t DEF Typed, SettleFunding
  <2> QED
    BY <2>1, <2>2 DEF SessionType
<1>c. fundTaken[r] = sess[r].pre
  BY <1>a DEF Ready, Ledger, FundingLedger, Holding
<1>d. CASE TakeFunding(r, SettleDelta(r))
  <2>1. SettleDelta(r) \in Int /\ fundTaken[r] + SettleDelta(r) >= 0
    BY <1>t, <1>c DEF Typed, SettleDelta
  <2> QED
    BY <1>a, <1>b, <1>d, <2>1, FundingKept DEF BeforeFunding
<1>e. CASE UNCHANGED <<wallet, used, fundTaken>>
  <2>1. sess[r].source = "subscription" => sess[r].sub \in Subs
    BY <1>a DEF Ready, SubShape, BeforeFunding
  <2> QED
    BY <1>a, <1>b, <1>e, <2>1, QuietKept
<1> QED
  BY <1>d, <1>e DEF SettleFunding

LEMMA RowsRefundFunding ==
  ASSUME NEW r \in Requests, Ready(r), RefundFunding(r)
  PROVE  Kept(r)
<1>t. TypeOK /\ Typed(r) /\ fundTaken[r] \in Int
  BY TypedFields DEF Ready, TypeOK
<1>a. /\ token' = token /\ tokTaken'[r] = tokTaken[r] /\ fee'[r] = fee[r]
      /\ pc'[r] = pc[r] /\ sess'[r] = sess[r] /\ rpc[r] = "funding"
  BY DEF RefundFunding, control
<1>b. /\ pc[r] \in Failing /\ pc[r] \notin BeforeFunding
      /\ sess[r].source = "subscription" => sess[r].pre = sess[r].subPre + sess[r].extra
  BY <1>a DEF Ready, Ledger, GoroutineShape, SessionShape, BeforeFunding, Failing
<1>c. /\ MarkReliable => fundTaken[r] >= sess[r].pre /\ fundTaken[r] >= sess[r].consumed
      /\ sess[r].consumed >= 0
  BY <1>a, <1>b DEF Ready, Ledger, FundingLedger, ConsumedShape
<1>d. CASE sess[r].source = "wallet" /\ TakeWallet(r, -Larger(sess[r].consumed, 0))
  <2> DEFINE d == -Larger(sess[r].consumed, 0)
  <2>1. d \in Int /\ (MarkReliable => fundTaken[r] + d >= 0)
    BY <1>t, <1>c DEF Typed, Larger
  <2>2. TakeFunding(r, d)
    BY <1>d DEF TakeFunding
  <2> HIDE DEF d
  <2> QED
    BY <1>a, <1>b, <2>1, <2>2, FundingKept
<1>e. CASE sess[r].source = "subscription" /\ TakeSub(r, sess[r].sub, -sess[r].subPre)
  <2> DEFINE d == -sess[r].subPre
  <2>1. d \in Int /\ (MarkReliable => fundTaken[r] + d >= 0)
    BY <1>t, <1>b, <1>c, <1>e DEF Typed
  <2>2. TakeFunding(r, d)
    BY <1>e DEF TakeFunding
  <2> HIDE DEF d
  <2> QED
    BY <1>a, <1>b, <2>1, <2>2, FundingKept
<1>f. CASE UNCHANGED <<wallet, used, fundTaken>>
  BY <1>a, <1>f, QuietKept DEF Ready, SubShape
<1> QED
  BY <1>d, <1>e, <1>f DEF RefundFunding

LEMMA RowsRefundExtra ==
  ASSUME NEW r \in Requests, Ready(r), RefundExtra(r)
  PROVE  Kept(r)
<1>t. TypeOK /\ Typed(r) /\ fundTaken[r] \in Int
  BY TypedFields DEF Ready, TypeOK
<1>a. /\ token' = token /\ tokTaken'[r] = tokTaken[r] /\ fee'[r] = fee[r]
      /\ pc'[r] = pc[r] /\ sess'[r] = sess[r] /\ rpc[r] = "extra"
  BY DEF RefundExtra, control
<1>b. pc[r] \notin BeforeFunding /\ sess[r].source = "subscription"
  BY <1>a DEF Ready, Ledger, GoroutineShape, BeforeFunding, Failing
<1>c. MarkReliable => fundTaken[r] >= sess[r].extra
  BY <1>a DEF Ready, Ledger, FundingLedger
<1>d. CASE TakeSub(r, sess[r].sub, -ExtraReserved(r))
  <2> DEFINE d == -ExtraReserved(r)
  <2>1. d \in Int /\ (MarkReliable => fundTaken[r] + d >= 0)
    BY <1>t, <1>c DEF Typed, ExtraReserved
  <2>2. TakeFunding(r, d)
    BY <1>b, <1>d DEF TakeFunding
  <2> HIDE DEF d
  <2> QED
    BY <1>a, <1>b, <2>1, <2>2, FundingKept
<1>e. CASE UNCHANGED <<wallet, used, fundTaken>>
  BY <1>a, <1>e, QuietKept DEF Ready, SubShape
<1> QED
  BY <1>d, <1>e DEF RefundExtra

LEMMA RowsChargeFee ==
  ASSUME NEW r \in Requests, Ready(r), ChargeFee(r)
  PROVE  Kept(r)
<1>t. /\ TypeOK /\ Typed(r) /\ arg[r] \in Nat /\ fundTaken[r] \in Int /\ tokTaken[r] \in Int
      /\ token \in Int /\ fee \in [Requests -> [fund: Nat, tok: Nat]]
      /\ fee[r].fund \in Nat /\ fee[r].tok \in Nat
  BY TypedFields, HoldingsType DEF Ready, TypeOK
<1>a. /\ token' = token /\ tokTaken'[r] = tokTaken[r] /\ fundTaken'[r] = fundTaken[r]
      /\ sess'[r] = sess[r] /\ pc[r] = "fee"
  BY DEF ChargeFee
<1>b. fee[r].fund = 0 /\ fee[r].tok = 0
  BY <1>a DEF Ready, FeeShape
<1>s. sess[r].source = "subscription" => sess[r].sub \in Subs
  BY <1>a DEF Ready, SubShape, BeforeFunding
<1>c. CASE UNCHANGED <<wallet, used, fee>>
  BY <1>a, <1>c, <1>s, QuietKept
<1>d. CASE /\ IF sess[r].source = "subscription"
              THEN used' = [used EXCEPT ![sess[r].sub] = NewUsed(sess[r].sub, arg[r])] /\ UNCHANGED wallet
              ELSE wallet' = wallet - arg[r] /\ UNCHANGED used
           /\ fee' = [fee EXCEPT ![r].fund = arg[r]]
           /\ Goto(r, "feeToken")
  <2>1. fee'[r] = [fee[r] EXCEPT !.fund = arg[r]] /\ pc'[r] = "feeToken"
    BY <1>t, <1>d DEF Typed
  <2>2. fee'[r].fund = arg[r] /\ fee'[r].tok = 0
    BY <1>t, <1>b, <2>1
  <2>3. /\ fundTaken'[r] + fee'[r].fund = fundTaken[r] + fee[r].fund + arg[r]
        /\ tokTaken'[r] + fee'[r].tok = tokTaken[r] + fee[r].tok + 0
        /\ token' = token - 0
    BY <1>t, <1>a, <1>b, <2>2
  <2>6. Takes(r, arg[r], 0)
    <3>1. CASE sess[r].source = "subscription"
      <4>1. sess[r].sub \in Subs /\ used \in [Subs -> Nat]
        BY <1>t, <1>s, <3>1 DEF TypeOK
      <4>2. NewUsed(sess[r].sub, arg[r]) = used[sess[r].sub] + arg[r]
        BY <1>t, <4>1 DEF NewUsed, Larger
      <4>3. \A s \in Subs : RowMoves(r, s, IF s = sess[r].sub THEN arg[r] ELSE 0)
        <5>1. \A s \in Subs : /\ used'[s] = used[s] + (IF s = sess[r].sub THEN arg[r] ELSE 0)
                              /\ used[s] \in Int /\ (IF s = sess[r].sub THEN arg[r] ELSE 0) \in Int
          BY <1>t, <1>d, <3>1, <4>1, <4>2
        <5> QED
          BY <5>1, ExactMoves
      <4> QED
        BY <1>a, <1>d, <2>3, <3>1, <4>1, <4>3 DEF Takes
    <3>2. CASE sess[r].source # "subscription"
      BY <1>a, <1>d, <2>3, <3>2 DEF Takes
    <3> QED
      BY <3>1, <3>2
  <2>7. Moves(r)
    BY <1>t, <2>6, TakesMoves
  <2>8. FeeShape(r)' /\ SubShape(r)'
    BY <1>a, <1>s, <2>1, <2>2 DEF FeeShape, SubShape
  <2> QED
    BY <2>7, <2>8 DEF Kept
<1> QED
  BY <1>c, <1>d DEF ChargeFee

LEMMA RowsChargeFeeToken ==
  ASSUME NEW r \in Requests, Ready(r), ChargeFeeToken(r)
  PROVE  Kept(r)
<1>t. /\ TypeOK /\ Typed(r) /\ arg[r] \in Nat /\ fundTaken[r] \in Int /\ tokTaken[r] \in Int
      /\ token \in Int /\ wallet \in Int /\ fee \in [Requests -> [fund: Nat, tok: Nat]]
      /\ fee[r].fund \in Nat /\ fee[r].tok \in Nat /\ \A s \in Subs : used[s] \in Nat
  BY TypedFields, HoldingsType DEF Ready, TypeOK
<1>a. /\ wallet' = wallet /\ used' = used /\ tokTaken'[r] = tokTaken[r] /\ fundTaken'[r] = fundTaken[r]
      /\ sess'[r] = sess[r] /\ pc[r] = "feeToken" /\ pc'[r] = "failed"
  BY <1>t DEF ChargeFeeToken, Typed
<1>b. fee[r].tok = 0
  BY <1>a DEF Ready, FeeShape
<1>s. sess[r].source = "subscription" => sess[r].sub \in Subs
  BY <1>a DEF Ready, SubShape, BeforeFunding
<1>c. PICK t \in Int : token' = token - t /\ fee'[r].tok = t /\ fee'[r].fund = fee[r].fund
  <2>1. CASE UNCHANGED <<token, fee>>
    BY <1>t, <1>b, <2>1
  <2>2. CASE /\ token' = IF prof[r].playground THEN token ELSE token - arg[r]
             /\ fee' = [fee EXCEPT ![r].tok = IF prof[r].playground THEN 0 ELSE arg[r]]
    <3> DEFINE t == IF prof[r].playground THEN 0 ELSE arg[r]
    <3>1. fee'[r] = [fee[r] EXCEPT !.tok = t] /\ t \in Int /\ token' = token - t
      BY <1>t, <2>2
    <3>2. fee'[r].tok = t /\ fee'[r].fund = fee[r].fund
      BY <1>t, <3>1
    <3> QED
      BY <3>1, <3>2
  <2> QED
    BY <2>1, <2>2 DEF ChargeFeeToken
<1>d. /\ fundTaken'[r] + fee'[r].fund = fundTaken[r] + fee[r].fund + 0
      /\ tokTaken'[r] + fee'[r].tok = tokTaken[r] + fee[r].tok + t
      /\ wallet' = wallet - 0
      /\ \A s \in Subs : RowMoves(r, s, IF s = sess'[r].sub THEN 0 ELSE 0)
  BY <1>t, <1>a, <1>b, <1>c, ExactMoves
<1>e. Takes(r, 0, t)
  BY <1>a, <1>c, <1>d DEF Takes
<1>f. Moves(r)
  BY <1>t, <1>e, TakesMoves
<1>g. FeeShape(r)' /\ SubShape(r)'
  BY <1>a, <1>s DEF FeeShape, SubShape
<1> QED
  BY <1>f, <1>g DEF Kept

-----------------------------------------------------------------------------
(* The theorem                                                             *)

LEMMA StepRows ==
  ASSUME NEW r \in Requests, Ready(r), Handler(r) \/ RefundGoroutine(r)
  PROVE  Kept(r)
<1>1. CASE PrepareRequestBilling(r) \/ TryWallet(r) \/ PreConsumeToken(r)
             \/ PreConsumeFunding(r) \/ RollbackToken(r)
  BY <1>1, RowsPrepareRequestBilling, RowsTryWallet, RowsPreConsumeToken,
     RowsPreConsumeFunding, RowsRollbackToken
<1>2. CASE PrepareAttempt(r) \/ AttemptAborted(r) \/ ReserveToken(r)
             \/ RollbackFundingReserve(r) \/ Upstream(r)
  BY <1>2, RowsPrepareAttempt, RowsReserveToken, RowsRollbackFundingReserve, RowsAttemptAborted
<1>3. CASE SettleFunding(r) \/ SettleToken(r) \/ Refund(r) \/ ChargeFee(r) \/ ChargeFeeToken(r)
  BY <1>3, RowsSettleFunding, RowsSettleToken, RowsAttemptAborted, RowsChargeFee,
     RowsChargeFeeToken
<1>4. CASE RefundFunding(r) \/ MarkRefunded(r) \/ RefundExtra(r) \/ RefundToken(r)
  BY <1>4, RowsRefundFunding, RowsMarkRefunded, RowsRefundExtra, RowsRefundToken
<1> QED
  BY <1>1, <1>2, <1>3, <1>4 DEF Handler, RefundGoroutine

LEMMA RowsStutter == RowsInv /\ UNCHANGED vars => RowsInv'
<1> SUFFICES ASSUME RowsInv, UNCHANGED vars PROVE RowsInv'
  OBVIOUS
<1>1. IInv'
  BY Stutter DEF RowsInv
<1>2. Shapes'
  BY DEF RowsInv, Shapes, FeeShape, SubShape, vars
<1>3. WalletAgrees' /\ TokenAgrees' /\ (MarkReliable => SubsAgree')
  BY DEF RowsInv, WalletAgrees, TokenAgrees, SubsAgree, OfWallet, OfSub, OfToken, vars
<1> QED
  BY <1>1, <1>2, <1>3 DEF RowsInv

(* A reset moves the row of a subscription whose plan has a period only,   *)
(* and moves it down.                                                      *)
LEMMA RowsReset ==
  ASSUME IsFiniteSet(Requests), RowsInv, \E s \in Periodic : ResetDue(s)
  PROVE  RowsInv'
<1>1. IInv'
  BY ResetKeeps DEF RowsInv
<1>2. PICK s \in Periodic : used' = AfterReset({s})
  BY DEF ResetDue
<1>3. UNCHANGED <<wallet, token, record, control, refundVars, history>>
  BY DEF ResetDue
<1>4. Shapes'
  BY <1>3 DEF RowsInv, Shapes, FeeShape, SubShape, control, history
<1>5. WalletAgrees' /\ TokenAgrees'
  BY <1>3 DEF RowsInv, WalletAgrees, TokenAgrees, OfWallet, OfToken, control, history
<1>6. ASSUME MarkReliable PROVE SubsAgree'
  <2>1. \A u \in Subs : [r \in Requests |-> OfSub(u, r)'] = [r \in Requests |-> OfSub(u, r)]
    BY <1>3 DEF OfSub, control, history
  <2>2. \A u \in Subs : /\ used[u] \in Nat
                        /\ used'[u] = IF u = s THEN 0 ELSE used[u]
    BY <1>2 DEF AfterReset, RowsInv, IInv, TypeOK
  <2> DEFINE Held(u) == SumFunction([r \in Requests |-> OfSub(u, r)])
  <2>3. \A u \in Subs : used[u] <= Held(u) /\ (u \notin Periodic => used[u] = Held(u))
    BY <1>6 DEF RowsInv, SubsAgree
  <2>t. \A u \in Subs : Held(u) \in Int
    <3> SUFFICES ASSUME NEW u \in Subs PROVE Held(u) \in Int
      OBVIOUS
    <3>1. [r \in Requests |-> OfSub(u, r)] \in [Requests -> Int]
      BY HoldingsType DEF RowsInv, IInv
    <3> QED
      BY <3>1, SumType
  <2> HIDE DEF Held
  <2>4. \A u \in Subs : used'[u] <= Held(u) /\ (u \notin Periodic => used'[u] = Held(u))
    BY <2>2, <2>3, <2>t
  <2> QED
    BY <2>1, <2>4 DEF Held, SubsAgree
<1> QED
  BY <1>1, <1>4, <1>5, <1>6 DEF RowsInv

LEMMA RowsInductive ==
  ASSUME IsFiniteSet(Requests), RowsInv, [Next]_vars, MarkReliable => NeverOverRefunded'
  PROVE  RowsInv'
<1>1. CASE \E r \in Requests : Handler(r) \/ RefundGoroutine(r)
  <2>1. PICK r \in Requests : Handler(r) \/ RefundGoroutine(r)
    BY <1>1
  <2>2. IInv /\ IInv' /\ TypeOK /\ TypeOK' /\ Ledger(r)
    BY Inductive DEF RowsInv, IInv
  <2>3. Ready(r)
    BY <2>2 DEF RowsInv, Shapes, Ready
  <2>4. Kept(r)
    BY <2>1, <2>3, StepRows
  <2>c. MarkReliable => Covered(r)
    BY <2>2, NothingOverRefunded, RowsCover DEF RowsInv
  <2>5. WalletAgrees' /\ TokenAgrees' /\ (MarkReliable => SubsAgree')
    BY <2>1, <2>2, <2>4, <2>c, MovesAgree DEF RowsInv, Kept
  <2>6. ASSUME NEW q \in Requests PROVE FeeShape(q)' /\ SubShape(q)'
    <3>1. CASE q = r
      BY <2>4, <3>1 DEF Kept
    <3>2. CASE q # r
      <4>1. Same(q) /\ fee'[q] = fee[q]
        BY <2>1, <2>2, <3>2, Frame, FrameFee
      <4> QED
        BY <4>1 DEF RowsInv, Shapes, FeeShape, SubShape, Same
    <3> QED
      BY <3>1, <3>2
  <2> QED
    BY <2>2, <2>5, <2>6 DEF RowsInv, Shapes
<1>2. CASE UNCHANGED vars
  BY <1>2, RowsStutter
<1>3. CASE \E s \in Periodic : ResetDue(s)
  BY <1>3, RowsReset
<1> QED
  BY <1>1, <1>2, <1>3 DEF Next, AllDone

LEMMA InitRows ==
  ASSUME IsFiniteSet(Requests), Init
  PROVE  RowsInv
<1>1. IInv
  BY InitTypeOK, InitLedger DEF IInv
<1>2. \A r \in Requests : /\ pc[r] = "idle" /\ fundTaken[r] = 0 /\ tokTaken[r] = 0
                          /\ fee[r].fund = 0 /\ fee[r].tok = 0 /\ sess[r].source = "none"
  BY DEF Init, NoSession, FreshSession
<1>3. Shapes
  BY <1>2 DEF Shapes, FeeShape, SubShape
<1>4. \A r \in Requests : OfWallet(r) = 0 /\ OfToken(r) = 0 /\ \A s : OfSub(s, r) = 0
  BY <1>2 DEF OfWallet, OfToken, OfSub
<1>5. /\ [r \in Requests |-> OfWallet(r)] = [r \in Requests |-> 0]
      /\ [r \in Requests |-> OfToken(r)] = [r \in Requests |-> 0]
      /\ \A s : [r \in Requests |-> OfSub(s, r)] = [r \in Requests |-> 0]
  BY <1>4
<1>6. SumFunction([r \in Requests |-> 0]) = 0
  BY SumZero
<1>7. wallet = InitWallet - 0 /\ token = InitToken - 0 /\ \A s \in Subs : used[s] = 0
  BY ConstantsAssumption DEF Init
<1>8. WalletAgrees /\ TokenAgrees /\ SubsAgree
  BY <1>5, <1>6, <1>7 DEF WalletAgrees, TokenAgrees, SubsAgree
<1> QED
  BY <1>1, <1>3, <1>8 DEF RowsInv

(* The inductive invariant of the rows, for any finite set of requests.    *)
THEOREM RowsInvariance == ASSUME IsFiniteSet(Requests) PROVE Spec => []RowsInv
<1>1. Init => RowsInv
  BY InitRows
<1>2. RowsInv /\ [Next]_vars /\ (MarkReliable => NeverOverRefunded)' => RowsInv'
  BY RowsInductive
<1>3. IInv => (MarkReliable => NeverOverRefunded)
  BY NothingOverRefunded
<1> QED
  BY <1>1, <1>2, <1>3, LedgerInvariance, PTL DEF Spec

(* RowsAgree: at every moment the wallet and the token are what they were  *)
(* at the start less exactly what the requests hold, and amount_used of a  *)
(* subscription that never resets is exactly what its requests hold, so no *)
(* max(.., 0) of PostConsumeUserSubscriptionDelta forgives there what      *)
(* another request uses; with a reset period it is never more than they    *)
(* hold.  The set of requests is finite but arbitrary; saving a            *)
(* pre-consume record's status must not fail.                              *)
THEOREM RowsStayTrue == ASSUME IsFiniteSet(Requests), MarkReliable PROVE Spec => []RowsAgree
<1>1. RowsInv => RowsAgree
  BY DEF RowsInv, RowsAgree
<1> QED
  BY <1>1, RowsInvariance, PTL

(* If RefundSubscriptionPreConsume may fail to save the record's status    *)
(* and return a quota twice, the damage stays in the subscription's row:   *)
(* wallet and token are exact all the same.                                *)
THEOREM WalletAndTokenExact == ASSUME IsFiniteSet(Requests) PROVE Spec => [](WalletAgrees /\ TokenAgrees)
<1>1. RowsInv => WalletAgrees /\ TokenAgrees
  BY DEF RowsInv
<1> QED
  BY <1>1, RowsInvariance, PTL
=============================================================================
