---------------------------- MODULE AdapterProofs ----------------------------
(***************************************************************************)
(* What a vault may rely on in the strategy, for every pool, every margin  *)
(* and every sequence of calls.                                            *)
(***************************************************************************)
EXTENDS AdapterHistory, StrategyProofs

(* Every step keeps the strategy's invariant.                              *)
LEMMA AdapterStepInv ==
    ASSUME StrategyInv, [AdapterNext]_strategyVars
    PROVE  StrategyInv'
<1>1. CASE VaultCalls
  <2> PICK s \in Strategy, caller \in {Vault, OtherVault} :
        \/ \E amount \in CallAmounts : \/ StrategyDeposit(s, caller, amount)
                                       \/ StrategyWithdraw(s, caller, amount)
        \/ StrategyDrain(s, caller)
    BY <1>1 DEF VaultCalls
  <2>1. CASE StrategyDrain(s, caller)
    BY <2>1, StrategyDrainInv
  <2>2. ASSUME NEW amount \in CallAmounts,
               StrategyDeposit(s, caller, amount) \/ StrategyWithdraw(s, caller, amount)
        PROVE  StrategyInv'
    <3>1. amount \in Int
      BY AdapterAssumption
    <3> QED BY <2>2, <3>1, StrategyDepositInv, StrategyWithdrawInv
  <2> QED BY <2>1, <2>2
<1>2. CASE AdminDrains
  BY <1>2, StrategyDrainInv DEF AdminDrains
<1>3. CASE StrategySettings
  BY <1>3, StrategySettingsInv
<1>4. CASE PoolMoves
  <2>1. PoolInv'
    BY <1>4, PoolEnvironmentInv, StrategyInvParts DEF PoolMoves
  <2>2. stTracked' = stTracked /\ ConfigTypeOK'
    BY <1>4, ConfigKept, StrategyInvParts DEF PoolMoves
  <2> QED BY <2>1, <2>2, StrategyInvParts, StrategyInvPartsNext
<1>5. CASE UNCHANGED strategyVars
  BY <1>5, StrategyStutterInv
<1> QED BY <1>1, <1>2, <1>3, <1>4, <1>5 DEF AdapterNext

(* Types, and no strategy holds b_tokens that the pool does not have.      *)
THEOREM AdapterSafe == AdapterSpec => []StrategyInv
BY StrategyInitInv, AdapterStepInv, PTL DEF AdapterSpec

-----------------------------------------------------------------------------
(* The b_tokens an amount within the position burns are in the position.   *)
LEMMA PositionCovers ==
    ASSUME StrategyInv, NEW s \in Strategy, NEW a \in Nat, a <= Position(s)
    PROVE  Burnt(s, a) <= collateral[s]
<1> DEFINE c == collateral[s]
           r == reserve[s].b_rate
           p == Position(s)
           b == Burnt(s, a)
<1>1. c \in Nat /\ r \in Nat \ {0} /\ RateScalar \in Nat \ {0}
  BY StrategyInvParts, PoolAssumption DEF PoolInv, PoolTypeOK, Reserve
<1>2. p \in Nat /\ p * RateScalar <= c * r
  BY PositionIsNatural
<1>3. b \in Nat /\ b * r <= a * RateScalar + r - 1
  BY TokensAreNatural, StrategyInvParts
<1> HIDE DEF c, r, p, b
<1>4. a <= p
  BY DEF p
<1>5. /\ a * RateScalar <= p * RateScalar
      /\ a * RateScalar \in Nat /\ p * RateScalar \in Nat
      /\ c * r \in Nat /\ b * r \in Nat
  BY <1>1, <1>2, <1>3, <1>4, Products
<1>6. b * r < c * r + r
  BY <1>1, <1>2, <1>3, <1>5
<1>7. CASE b > c
  <2>1. c + 1 <= b /\ c + 1 \in Nat
    BY <1>7, <1>1, <1>3
  <2>2. (c + 1) * r <= b * r /\ (c + 1) * r = c * r + 1 * r
    BY <2>1, <1>1, <1>3, Products
  <2> QED BY <2>2, <1>1, <1>5, <1>6
<1>8. CASE b <= c
  BY <1>8 DEF b, c
<1> QED BY <1>1, <1>3, <1>7, <1>8

(* Burning b_tokens for an amount leaves at least the rest supplied, less  *)
(* the margin, if a b_token is worth no more than the margin.              *)
LEMMA SuppliedAfter ==
    ASSUME NEW b \in Nat, NEW r \in Nat \ {0}, NEW u \in Nat \ {0}, NEW m \in Nat,
           NEW a \in Nat, NEW x \in Nat, NEW d \in Nat,
           x <= b, r <= m * u, x * r <= a * u + r - 1, d + a + m <= (b * r) \div u
    PROVE  d <= ((b - x) * r) \div u
<1> DEFINE y == b - x
           q == (b * r) \div u
           z == (y * r) \div u
<1>1. y \in Nat /\ b = y + x
  OBVIOUS
<1>2. b * r \in Nat /\ q \in Nat /\ q * u <= b * r
  BY Products, Division
<1>3. y * r \in Nat /\ z \in Nat /\ y * r < z * u + u
  BY <1>1, Products, Division
<1>4. b * r = y * r + x * r /\ x * r \in Nat
  BY <1>1, Products
<1>5. /\ (d + a + m) * u <= q * u
      /\ (d + a + m) * u = (d + a) * u + m * u
      /\ (d + a) * u = d * u + a * u
      /\ d * u \in Nat /\ a * u \in Nat /\ m * u \in Nat /\ q * u \in Nat /\ z * u \in Nat
  <2>1. d + a + m <= q
    OBVIOUS
  <2> HIDE DEF q, z
  <2>2. d + a \in Nat /\ d + a + m \in Nat
    OBVIOUS
  <2> QED BY <1>2, <1>3, <2>1, <2>2, Products
<1> HIDE DEF q, z, y
<1>6. d * u < z * u + u
  <2>1. (d + a) * u + m * u <= y * r + x * r
    BY <1>2, <1>4, <1>5
  <2>2. d * u + m * u <= y * r + r - 1
    BY <2>1, <1>3, <1>4, <1>5
  <2>3. d * u <= y * r - 1
    BY <2>2, <1>3, <1>5
  <2> QED BY <2>3, <1>3, <1>5
<1>7. CASE d > z
  <2>1. z + 1 <= d /\ z + 1 \in Nat
    BY <1>7, <1>3
  <2>2. (z + 1) * u <= d * u /\ (z + 1) * u = z * u + 1 * u
    BY <2>1, <1>3, Products
  <2> QED BY <2>2, <1>5, <1>6
<1>8. CASE d <= z
  BY <1>8 DEF z, y
<1> QED BY <1>3, <1>7, <1>8

(* The quote is within what is tracked and what is free, margin included.  *)
LEMMA QuoteBounds ==
    ASSUME StrategyInv, NEW s \in Strategy, reachable[s], NEW a \in Nat \ {0},
           a <= AvailableLiquidity(s)
    PROVE  /\ a + RoundingMargin <= stTracked[s]
           /\ Borrowed(reserve[s]) + a + RoundingMargin <= Supplied(reserve[s])
<1>1. Supplied(reserve[s]) \in Nat /\ Borrowed(reserve[s]) \in Nat
  BY SuppliedIsNatural
<1>2. stTracked[s] \in Nat /\ RoundingMargin \in Nat
  BY StrategyInvParts, StrategyAssumption
<1>3. AvailableLiquidity(s)
        = Monus(Least(Supplied(reserve[s]) - Borrowed(reserve[s]), stTracked[s]), RoundingMargin)
  BY Zenon DEF AvailableLiquidity, Quote
<1> QED BY <1>1, <1>2, <1>3 DEF Monus, Least

(* A quoted amount can be pulled if the position has the b_tokens it burns *)
(* and a b_token is worth no more than the margin.                         *)
LEMMA QuotedIsPulled ==
    ASSUME StrategyInv, NEW s \in Strategy, reachable[s],
           reserve[s].b_rate <= RoundingMargin * RateScalar,
           NEW a \in Nat \ {0}, a <= AvailableLiquidity(s), Burnt(s, a) <= collateral[s]
    PROVE  CanPull(s, stVault[s], a)
<1> DEFINE x == Burnt(s, a)
           b == reserve[s].b_supply
           r == reserve[s].b_rate
           d == Borrowed(reserve[s])
           z == ((b - x) * r) \div RateScalar
<1>1. stTracked[s] \in Nat /\ RoundingMargin \in Nat
  BY StrategyInvParts, StrategyAssumption
<1>2. a + RoundingMargin <= stTracked[s] /\ d + a + RoundingMargin <= Supplied(reserve[s])
  BY QuoteBounds
<1>3. Withdrawn(s, a) = a
  BY <1>1, <1>2 DEF Withdrawn, Least
<1>4. /\ b \in Nat /\ r \in Nat \ {0} /\ RateScalar \in Nat \ {0}
      /\ x \in Nat /\ d \in Nat
      /\ x <= b
      /\ x * r <= a * RateScalar + r - 1
  <2>1. /\ b \in Nat /\ r \in Nat \ {0} /\ collateral[s] \in Nat
        /\ collateral[s] <= b
    BY StrategyInvParts DEF PoolInv, PoolTypeOK, Reserve
  <2>2. x \in Nat /\ x * r <= a * RateScalar + r - 1
    BY StrategyInvParts, TokensAreNatural
  <2>3. x <= b
    BY <2>1, <2>2
  <2> QED BY <2>1, <2>2, <2>3, SuppliedIsNatural, PoolAssumption
<1>5. d + a + RoundingMargin <= (b * r) \div RateScalar
  BY <1>2 DEF Supplied
<1>6. Supplied([reserve[s] EXCEPT !.b_supply = @ - x]) = z
  BY StrategyInvParts DEF Supplied, PoolInv, PoolTypeOK, Reserve
<1>7. z \in Int
  BY <1>4
<1> HIDE DEF x, d
<1>8. d <= z
  BY <1>1, <1>4, <1>5, SuppliedAfter
<1> HIDE DEF z
<1>9. z >= d
  BY <1>4, <1>7, <1>8
<1>10. CanWithdraw(s, a)
  BY <1>6, <1>9, Zenon DEF CanWithdraw, x, d
<1>11. a > 0
  OBVIOUS
<1> QED BY <1>3, <1>10, <1>11, Zenon DEF CanPull

(* A quote is an integer.                                                  *)
LEMMA QuoteIsInt ==
    ASSUME StrategyInv, NEW s \in Strategy
    PROVE  AvailableLiquidity(s) \in Int
<1>1. stTracked[s] \in Nat /\ RoundingMargin \in Nat
  BY StrategyInvParts, StrategyAssumption
<1> QED BY <1>1, SuppliedIsNatural DEF AvailableLiquidity, Quote, Monus, Least

(* What a strategy quotes, its vault can withdraw: with a pool that        *)
(* answers, a position no more than the margin short of the tracked        *)
(* balance and a b_token worth no more than the margin, whatever the       *)
(* reserve, the rates and the margin are.                                  *)
THEOREM QuotesAreDeliverable == AdapterSpec => []QuoteIsDeliverable
<1>1. StrategyInv => QuoteIsDeliverable
  <2> SUFFICES ASSUME StrategyInv, NEW s \in Strategy, reachable[s],
                      reserve[s].b_rate <= RoundingMargin * RateScalar,
                      Position(s) + RoundingMargin >= stTracked[s],
                      NEW a \in 1..AvailableLiquidity(s)
               PROVE  CanPull(s, stVault[s], a)
    BY Zenon DEF QuoteIsDeliverable
  <2>1. a \in Nat \ {0} /\ a <= AvailableLiquidity(s)
    BY QuoteIsInt
  <2>2. a <= Position(s)
    BY <2>1, QuoteBounds, StrategyInvParts, StrategyAssumption, PositionIsNatural
  <2> QED BY <2>1, <2>2, PositionCovers, QuotedIsPulled
<1> QED BY <1>1, AdapterSafe, PTL

-----------------------------------------------------------------------------
(* Burning the b_tokens of a whole position leaves less than one unit.     *)
LEMMA RestIsDust ==
    ASSUME NEW c \in Nat, NEW r \in Nat \ {0}, NEW u \in Nat \ {0}, NEW x \in Nat,
           NEW p \in Nat,
           x <= c, p * u <= x * r, c * r < p * u + u
    PROVE  ((c - x) * r) \div u = 0
<1> DEFINE y == c - x
           q == (y * r) \div u
<1>1. y \in Nat /\ c = y + x
  OBVIOUS
<1> HIDE DEF y
<1>2. y * r \in Nat /\ x * r \in Nat /\ c * r = y * r + x * r /\ p * u \in Nat
  BY <1>1, Products
<1>3. y * r < u
  BY <1>2
<1>4. q \in Nat /\ q * u <= y * r
  BY <1>2, Division
<1> HIDE DEF q
<1>5. CASE q >= 1
  <2>1. 1 * u <= q * u /\ q * u \in Nat
    BY <1>4, <1>5, Products
  <2> QED BY <2>1, <1>2, <1>3, <1>4
<1>6. CASE q = 0
  BY <1>6 DEF q, y
<1> QED BY <1>4, <1>5, <1>6

(* An emergency withdrawal of a pool that answers leaves a position that   *)
(* is worth nothing, whoever made it and whatever was tracked.             *)
THEOREM DrainsAreComplete == AdapterSpec => DrainLeavesNothing
<1> DEFINE Caller == {Vault, OtherVault} \cup StrategyOperator
           Complete == \A s \in Strategy :
              (\E caller \in Caller : StrategyDrain(s, caller)) /\ reachable[s]
                 => Position(s)' = 0
<1>1. StrategyInv /\ [AdapterNext]_strategyVars => [Complete]_strategyVars
  <2> SUFFICES ASSUME StrategyInv, NEW s \in Strategy, NEW caller, StrategyDrain(s, caller),
                      reachable[s]
               PROVE  Position(s)' = 0
    BY Zenon
  <2> DEFINE c == collateral[s]
             r == reserve[s].b_rate
             p == Position(s)
             x == Burnt(s, p)
  <2>1. PoolPosition(s) = p
    BY DEF PoolPosition
  <2>2. /\ p \in Nat /\ p * RateScalar <= c * r /\ c * r < p * RateScalar + RateScalar
        /\ c \in Nat /\ r \in Nat \ {0} /\ RateScalar \in Nat \ {0}
    BY PositionIsNatural, StrategyInvParts, PoolAssumption DEF PoolInv, PoolTypeOK, Reserve
  <2>3. CASE p > 0
    <3>1. PoolWithdraw(s, p)
      BY <2>1, <2>3 DEF StrategyDrain
    <3>2. x \in Nat /\ p * RateScalar <= x * r
      BY <2>2, TokensAreNatural, StrategyInvParts
    <3>3. x <= c
      BY <3>1 DEF PoolWithdraw, CanWithdraw
    <3> HIDE DEF x, p
    <3>4. ((c - x) * r) \div RateScalar = 0
      BY <2>2, <3>2, <3>3, RestIsDust
    <3>5. collateral'[s] = c - x /\ reserve'[s].b_rate = r
      BY <3>1, StrategyInvParts DEF PoolWithdraw, PoolInv, PoolTypeOK, Reserve, x
    <3> QED BY <3>4, <3>5 DEF Position
  <2>4. CASE p = 0
    BY <2>1, <2>4 DEF StrategyDrain, Position, poolVars
  <2> QED BY <2>2, <2>3, <2>4
<1> QED BY <1>1, AdapterSafe, PTL DEF AdapterSpec, DrainLeavesNothing

-----------------------------------------------------------------------------
(* Every step moves every strategy in one of the ways that keep the cover. *)
LEMMA HowTrackedMoves ==
    ASSUME StrategyInv, AdapterNext, NEW s \in Strategy
    PROVE  Moves(s)
<1>1. CASE VaultCalls
  <2> PICK z \in Strategy, caller \in {Vault, OtherVault} :
          \/ \E amount \in CallAmounts :
                StrategyDeposit(z, caller, amount) \/ StrategyWithdraw(z, caller, amount)
          \/ StrategyDrain(z, caller)
    BY <1>1, Zenon DEF VaultCalls
  <2>1. CASE StrategyDrain(z, caller)
    BY <2>1, DrainMoves
  <2>2. ASSUME NEW amount \in CallAmounts,
               StrategyDeposit(z, caller, amount) \/ StrategyWithdraw(z, caller, amount)
        PROVE  Moves(s)
    <3>1. amount \in Int
      BY AdapterAssumption
    <3> QED BY <2>2, <3>1, DepositMoves, WithdrawMoves
  <2> QED BY <2>1, <2>2
<1>2. CASE AdminDrains
  BY <1>2, DrainMoves DEF AdminDrains
<1>3. CASE StrategySettings
  BY <1>3, SettingsMove
<1>4. CASE PoolMoves
  BY <1>4, EnvironmentMoves DEF PoolMoves
<1> QED BY <1>1, <1>2, <1>3, <1>4 DEF AdapterNext

(* The inductive invariant behind TrackedIsCovered.                        *)
AdapterHistoryInv == StrategyInv /\ RoundingTypeOK /\ TrackedIsCovered

(* A step of the history is a step of the strategy.                        *)
LEMMA HistoryStepKeepsStrategy ==
    ASSUME StrategyInv, [AdapterHistoryNext]_historyVars
    PROVE  StrategyInv'
BY AdapterStepInv DEF AdapterHistoryNext, historyVars

(* No step leaves a strategy tracking more than is covered.                *)
LEMMA CoverIsKept ==
    ASSUME AdapterHistoryInv, AdapterHistoryNext, StrategyInv', NEW s \in Strategy
    PROVE  CoverOf(stTracked'[s], collateral'[s], reserve'[s].b_rate, roundings'[s], impaired'[s])
<1>1. Moves(s)
  BY HowTrackedMoves DEF AdapterHistoryInv, AdapterHistoryNext
<1>2. /\ roundings[s] \in Nat /\ impaired[s] \in BOOLEAN
      /\ CoverOf(stTracked[s], collateral[s], reserve[s].b_rate, roundings[s], impaired[s])
  BY DEF AdapterHistoryInv, RoundingTypeOK, TrackedIsCovered, CoverOf
<1>3. /\ roundings'[s] = IF stTracked'[s] = 0 THEN 0
                         ELSE roundings[s] + (IF collateral'[s] # collateral[s] THEN 1 ELSE 0)
      /\ impaired'[s] = (stTracked'[s] # 0 /\ (impaired[s] \/ reserve'[s].b_rate < reserve[s].b_rate))
  BY Zenon DEF AdapterHistoryNext, Record
<1> QED BY <1>1, <1>2, <1>3, CoverStep DEF AdapterHistoryInv

(* The inductive invariant of the strategy with its history.               *)
THEOREM AdapterHistorySafe == AdapterHistorySpec => []AdapterHistoryInv
<1>1. AdapterHistoryInit => AdapterHistoryInv
  <2> SUFFICES ASSUME AdapterHistoryInit PROVE RoundingTypeOK /\ TrackedIsCovered
    BY StrategyInitInv DEF AdapterHistoryInit, AdapterHistoryInv
  <2>1. RoundingTypeOK
    BY DEF AdapterHistoryInit, RoundingInit, RoundingTypeOK, StrategyInit
  <2>2. TrackedIsCovered
    BY PoolAssumption
       DEF AdapterHistoryInit, RoundingInit, TrackedIsCovered, StrategyInit, PoolInit, Reserve
  <2> QED BY <2>1, <2>2
<1>2. AdapterHistoryInv /\ [AdapterHistoryNext]_historyVars => AdapterHistoryInv'
  <2> SUFFICES ASSUME AdapterHistoryInv, [AdapterHistoryNext]_historyVars
               PROVE  AdapterHistoryInv'
    OBVIOUS
  <2>1. StrategyInv'
    BY HistoryStepKeepsStrategy DEF AdapterHistoryInv
  <2>2. CASE AdapterHistoryNext
    <3>1. roundings' \in [Strategy -> Nat] /\ impaired' \in [Strategy -> BOOLEAN]
      BY <2>2 DEF AdapterHistoryNext, AdapterHistoryInv, RoundingTypeOK, Record
    <3> QED BY <2>1, <2>2, <3>1, CoverIsKept
            DEF AdapterHistoryInv, RoundingTypeOK, TrackedIsCovered, CoverOf
  <2>3. CASE UNCHANGED historyVars
    BY <2>1, <2>3 DEF historyVars, roundingVars, strategyVars, poolVars, AdapterHistoryInv, RoundingTypeOK,
                      TrackedIsCovered
  <2> QED BY <2>2, <2>3
<1> QED BY <1>1, <1>2, PTL DEF AdapterHistorySpec

(* What is tracked is covered: without bad debt a strategy's pool holds    *)
(* b_tokens for all it says it holds, up to one for every time the pool    *)
(* rounded, under any sequence of deposits, withdrawals, drains, interest  *)
(* and moves of the others.                                                *)
THEOREM TheTrackedIsCovered == AdapterHistorySpec => []TrackedIsCovered
<1>1. AdapterHistoryInv => TrackedIsCovered
  BY DEF AdapterHistoryInv
<1> QED BY <1>1, AdapterHistorySafe, PTL

(* If the roundings cost no more than the margin, what is tracked less the *)
(* margin is in the position: a units are, and the b_tokens they burn.     *)
LEMMA MarginPaysForRoundings ==
    ASSUME NEW t \in Nat, NEW c \in Nat, NEW k \in Nat, NEW r \in Nat \ {0},
           NEW u \in Nat \ {0}, NEW m \in Nat, NEW a \in Nat, NEW x \in Nat,
           t * u <= (c + k) * r, k * r <= m * u, a + m <= t, x * r <= a * u + r - 1
    PROVE  x <= c
<1>1. /\ (c + k) * r = c * r + k * r
      /\ c * r \in Nat /\ k * r \in Nat /\ m * u \in Nat /\ a * u \in Nat /\ t * u \in Nat
      /\ x * r \in Nat
  BY Products
<1>2. (a + m) * u = a * u + m * u /\ a + m \in Nat /\ (a + m) * u <= t * u
  BY Products
<1>3. a * u <= c * r
  BY <1>1, <1>2
<1>4. x * r < c * r + r
  BY <1>1, <1>3
<1>5. CASE x > c
  <2>1. (c + 1) * r <= x * r /\ (c + 1) * r = c * r + 1 * r
    BY <1>5, Products
  <2> QED BY <2>1, <1>1, <1>4
<1> QED BY <1>5

(* Without bad debt a strategy's quotes are deliverable for as long as the *)
(* pool has rounded no more often than the margin pays for, whatever the   *)
(* sequence of calls, the rates and what the others do.                    *)
THEOREM FreshQuotesAreDeliverable == AdapterHistorySpec => []FewRoundingsAreDeliverable
<1>1. AdapterHistoryInv => FewRoundingsAreDeliverable
  <2> SUFFICES ASSUME AdapterHistoryInv, NEW s \in Strategy, reachable[s], ~impaired[s],
                      roundings[s] * reserve[s].b_rate <= RoundingMargin * RateScalar,
                      NEW a \in 1..AvailableLiquidity(s)
               PROVE  CanPull(s, stVault[s], a)
    BY Zenon DEF FewRoundingsAreDeliverable
  <2> DEFINE t == stTracked[s]
             c == collateral[s]
             k == roundings[s]
             r == reserve[s].b_rate
             x == Burnt(s, a)
  <2>1. StrategyInv
    BY DEF AdapterHistoryInv
  <2>2. a \in Nat \ {0} /\ a <= AvailableLiquidity(s)
    BY <2>1, QuoteIsInt
  <2>3. /\ t \in Nat /\ c \in Nat /\ k \in Nat /\ r \in Nat \ {0} /\ RateScalar \in Nat \ {0}
        /\ RoundingMargin \in Nat
    BY <2>1, StrategyInvParts, PoolAssumption, StrategyAssumption
       DEF AdapterHistoryInv, RoundingTypeOK, PoolInv, PoolTypeOK, Reserve
  <2>4. a + RoundingMargin <= t
    BY <2>1, <2>2, QuoteBounds
  <2>5. t # 0 => k # 0
    BY DEF AdapterHistoryInv, RoundingTypeOK
  <2>6. x \in Nat /\ x * r <= a * RateScalar + r - 1
    BY <2>1, <2>2, StrategyInvParts, TokensAreNatural
  <2>7. t * RateScalar <= (c + k) * r
    BY DEF AdapterHistoryInv, TrackedIsCovered
  <2> HIDE DEF t, c, k, r, x
  <2>8. k * r <= RoundingMargin * RateScalar
    BY DEF k, r
  <2>9. x <= c
    BY <2>2, <2>3, <2>4, <2>6, <2>7, <2>8, MarginPaysForRoundings
  <2>10. r <= RoundingMargin * RateScalar
    <3>1. 1 <= k
      BY <2>2, <2>3, <2>4, <2>5
    <3>2. 1 * r <= k * r /\ k * r \in Nat /\ RoundingMargin * RateScalar \in Nat
      BY <2>3, <3>1, Products
    <3> QED BY <2>3, <2>8, <3>2
  <2> QED BY <2>1, <2>2, <2>9, <2>10, QuotedIsPulled DEF c, r, x
<1> QED BY <1>1, AdapterHistorySafe, PTL
=============================================================================
