---------------------------- MODULE StrategyProofs ----------------------------
(***************************************************************************)
(* The strategy's invariant, operation by operation, and what the strategy *)
(* promises of its quotes, for every reserve and every margin.  The modules*)
(* that compose the strategy with its vault use these lemmas.              *)
(***************************************************************************)
EXTENDS BlendStrategy, VaultMathProofs

(* The pool's part of StrategyInv.                                         *)
PoolInv ==
    /\ PoolTypeOK
    /\ \A s \in Strategy : collateral[s] <= reserve[s].b_supply

(* The settings' part.                                                     *)
ConfigTypeOK ==
    /\ stVault \in [Strategy -> {Vault, OtherVault, NoVault}]
    /\ stAdmin \in [Strategy -> StrategyOperator \cup {NoStrategyAdmin}]
    /\ stPendingAdmin \in [Strategy -> StrategyOperator \cup {NoStrategyAdmin}]
    /\ stPaused \in [Strategy -> BOOLEAN]
    /\ maxUtilization \in [Strategy -> 0..MaxBps]
    /\ minBackstop \in [Strategy -> 0..MaxBps]
    /\ approvalBuffer \in [Strategy -> Nat]
    /\ claimed \in [Strategy -> Nat]

(* The three parts make the invariant.                                     *)
LEMMA StrategyInvParts ==
    StrategyInv <=> PoolInv /\ stTracked \in [Strategy -> Nat] /\ ConfigTypeOK
BY DEF StrategyInv, StrategyTypeOK, PoolInv, ConfigTypeOK

(* The same of the state after a step.                                     *)
LEMMA StrategyInvPartsNext ==
    StrategyInv' <=> PoolInv' /\ stTracked' \in [Strategy -> Nat] /\ ConfigTypeOK'
BY DEF StrategyInv, StrategyTypeOK, PoolInv, ConfigTypeOK, PoolTypeOK

(* The settings stay what they are when nothing sets them.                 *)
LEMMA ConfigKept ==
    ASSUME ConfigTypeOK, UNCHANGED stConfigVars
    PROVE  ConfigTypeOK'
BY DEF ConfigTypeOK, stConfigVars, stRoleVars, stLimitVars

(* As does the pool.                                                       *)
LEMMA PoolKept ==
    ASSUME PoolInv, UNCHANGED poolVars
    PROVE  PoolInv'
BY DEF PoolInv, PoolTypeOK, poolVars

(* A strategy that takes no step keeps its invariant.                      *)
LEMMA StrategyStutterInv ==
    ASSUME StrategyInv, UNCHANGED strategyVars
    PROVE  StrategyInv'
<1>1. UNCHANGED poolVars /\ UNCHANGED stConfigVars /\ stTracked' = stTracked
  BY DEF strategyVars
<1> QED BY <1>1, StrategyInvParts, StrategyInvPartsNext, ConfigKept, PoolKept

(* The state initialize leaves.                                            *)
LEMMA StrategyInitInv == StrategyInit => StrategyInv
<1> SUFFICES ASSUME StrategyInit PROVE StrategyInv
  OBVIOUS
<1>1. PoolInv
  BY PoolAssumption DEF StrategyInit, PoolInit, PoolInv, PoolTypeOK, Reserve
<1>2. ConfigTypeOK
  BY StrategyAssumption DEF StrategyInit, ConfigTypeOK
<1>3. stTracked \in [Strategy -> Nat]
  BY DEF StrategyInit
<1> QED BY <1>1, <1>2, <1>3, StrategyInvParts

-----------------------------------------------------------------------------
(* b_tokens minted and burnt are naturals.                                 *)
LEMMA TokensAreNatural ==
    ASSUME PoolInv, NEW s \in Strategy, NEW amount \in Nat
    PROVE  /\ Minted(s, amount) \in Nat
           /\ Burnt(s, amount) \in Nat
           /\ Burnt(s, amount) * reserve[s].b_rate
                <= amount * RateScalar + reserve[s].b_rate - 1
           /\ amount * RateScalar <= Burnt(s, amount) * reserve[s].b_rate
<1> DEFINE r == reserve[s].b_rate
           u == amount * RateScalar
<1>1. r \in Nat \ {0}
  BY DEF PoolInv, PoolTypeOK, Reserve
<1>2. RateScalar \in Nat \ {0}
  BY PoolAssumption
<1>3. u \in Nat
  BY <1>2, Products
<1> HIDE DEF r, u
<1>4. u \div r \in Nat
  BY <1>1, <1>3, Division
<1>5. u + r - 1 \in Nat
  BY <1>1, <1>3
<1>6. /\ (u + r - 1) \div r \in Nat
      /\ ((u + r - 1) \div r) * r <= u + r - 1
      /\ u + r - 1 < ((u + r - 1) \div r) * r + r
  BY <1>1, <1>5, Division
<1> DEFINE q == (u + r - 1) \div r
<1>7. q \in Nat /\ q * r \in Nat
  BY <1>1, <1>6, Products
<1> HIDE DEF q
<1>8. q * r <= u + r - 1 /\ u <= q * r
  BY <1>1, <1>3, <1>6, <1>7 DEF q
<1> QED BY <1>4, <1>7, <1>8 DEF Minted, Burnt, r, u, q

(* What the pool does for the strategy keeps the pool's invariant.         *)
LEMMA PoolSupplyInv ==
    ASSUME PoolInv, NEW s \in Strategy, NEW amount \in Nat, PoolSupply(s, amount)
    PROVE  PoolInv'
<1>1. Minted(s, amount) \in Nat
  BY TokensAreNatural
<1> DEFINE m == Minted(s, amount)
<1>2. /\ reserve' = [reserve EXCEPT ![s].b_supply = @ + m]
      /\ collateral' = [collateral EXCEPT ![s] = @ + m]
      /\ reachable' = reachable
  BY DEF PoolSupply
<1> HIDE DEF m
<1> QED BY <1>1, <1>2 DEF PoolInv, PoolTypeOK, Reserve, m

(* As above, for a withdrawal.                                             *)
LEMMA PoolWithdrawInv ==
    ASSUME PoolInv, NEW s \in Strategy, NEW amount \in Nat, PoolWithdraw(s, amount)
    PROVE  PoolInv'
<1>1. Burnt(s, amount) \in Nat
  BY TokensAreNatural
<1> DEFINE b == Burnt(s, amount)
<1>2. /\ b <= collateral[s]
      /\ reserve' = [reserve EXCEPT ![s].b_supply = @ - b]
      /\ collateral' = [collateral EXCEPT ![s] = @ - b]
      /\ reachable' = reachable
  BY DEF PoolWithdraw, CanWithdraw
<1> HIDE DEF b
<1>3. b \in Nat
  BY <1>1 DEF b
<1>4. collateral[s] - b \in Nat /\ reserve[s].b_supply - b \in Nat
  BY <1>2, <1>3 DEF PoolInv, PoolTypeOK, Reserve
<1>5. PoolTypeOK'
  BY <1>2, <1>3, <1>4 DEF PoolInv, PoolTypeOK, Reserve
<1>6. \A z \in Strategy : collateral'[z] <= reserve'[z].b_supply
  <2> SUFFICES ASSUME NEW z \in Strategy PROVE collateral'[z] <= reserve'[z].b_supply
    OBVIOUS
  <2>1. CASE z = s
    BY <2>1, <1>2, <1>3 DEF PoolInv, PoolTypeOK, Reserve
  <2>2. CASE z # s
    BY <2>2, <1>2 DEF PoolInv, PoolTypeOK
  <2> QED BY <2>1, <2>2
<1> QED BY <1>5, <1>6 DEF PoolInv

(* And what everyone else does to it: one move of the reserve, ...         *)
LEMMA ReserveMoveInv ==
    ASSUME PoolInv, NEW s \in Strategy, NEW new \in Reserve, ReserveMove(s, new),
           collateral[s] <= new.b_supply
    PROVE  PoolInv'
BY DEF PoolInv, PoolTypeOK, ReserveMove

(* ... and any step of theirs.                                             *)
LEMMA PoolEnvironmentInv ==
    ASSUME PoolInv, PoolEnvironment
    PROVE  PoolInv'
<1> PICK s \in Strategy :
        \/ BorrowOrRepay(s)
        \/ OthersSupplyOrWithdraw(s)
        \/ Accrue(s)
        \/ WriteOff(s)
        \/ BackstopMoves(s)
        \/ Outage(s)
  BY DEF PoolEnvironment
<1>1. reserve[s] \in Reserve /\ collateral[s] \in Nat /\ collateral[s] <= reserve[s].b_supply
  BY DEF PoolInv, PoolTypeOK
<1> USE PoolAssumption
<1>2. CASE BorrowOrRepay(s)
  <2> PICK d \in DebtChoices : ReserveMove(s, [reserve[s] EXCEPT !.d_supply = d])
    BY <1>2 DEF BorrowOrRepay
  <2> DEFINE new == [reserve[s] EXCEPT !.d_supply = d]
  <2>1. new \in Reserve /\ new.b_supply = reserve[s].b_supply
    BY <1>1 DEF Reserve
  <2> QED BY <1>1, <2>1, ReserveMoveInv
<1>3. CASE OthersSupplyOrWithdraw(s)
  <2> PICK b \in OthersChoices :
        ReserveMove(s, [reserve[s] EXCEPT !.b_supply = collateral[s] + b])
    BY <1>3 DEF OthersSupplyOrWithdraw
  <2> DEFINE new == [reserve[s] EXCEPT !.b_supply = collateral[s] + b]
  <2>1. new \in Reserve /\ collateral[s] <= new.b_supply
    BY <1>1 DEF Reserve
  <2> QED BY <2>1, ReserveMoveInv
<1>4. CASE Accrue(s)
  <2> PICK br \in RateChoices, dr \in RateChoices :
        ReserveMove(s, [reserve[s] EXCEPT !.b_rate = br, !.d_rate = dr])
    BY <1>4 DEF Accrue
  <2> DEFINE new == [reserve[s] EXCEPT !.b_rate = br, !.d_rate = dr]
  <2>1. new \in Reserve /\ new.b_supply = reserve[s].b_supply
    BY <1>1 DEF Reserve
  <2> QED BY <1>1, <2>1, ReserveMoveInv
<1>5. CASE WriteOff(s)
  <2> PICK br \in RateChoices, d \in DebtChoices :
        ReserveMove(s, [reserve[s] EXCEPT !.b_rate = br, !.d_supply = d])
    BY <1>5 DEF WriteOff
  <2> DEFINE new == [reserve[s] EXCEPT !.b_rate = br, !.d_supply = d]
  <2>1. new \in Reserve /\ new.b_supply = reserve[s].b_supply
    BY <1>1 DEF Reserve
  <2> QED BY <1>1, <2>1, ReserveMoveInv
<1>6. CASE BackstopMoves(s)
  <2> PICK c \in CreditChoices : ReserveMove(s, [reserve[s] EXCEPT !.backstop_credit = c])
    BY <1>6 DEF BackstopMoves
  <2> DEFINE new == [reserve[s] EXCEPT !.backstop_credit = c]
  <2>1. new \in Reserve /\ new.b_supply = reserve[s].b_supply
    BY <1>1 DEF Reserve
  <2> QED BY <1>1, <2>1, ReserveMoveInv
<1>7. CASE Outage(s)
  BY <1>7 DEF Outage, PoolInv, PoolTypeOK
<1> QED BY <1>2, <1>3, <1>4, <1>5, <1>6, <1>7

-----------------------------------------------------------------------------
(* What withdraw() gives is natural, and is tracked.                       *)
LEMMA WithdrawnIsTracked ==
    ASSUME StrategyInv, NEW s \in Strategy, NEW amount \in Nat
    PROVE  /\ Withdrawn(s, amount) \in Nat
           /\ Withdrawn(s, amount) <= amount
           /\ stTracked[s] - Withdrawn(s, amount) \in Nat
BY StrategyInvParts DEF Withdrawn, Least

(* What an emergency withdrawal asks of the pool is natural.               *)
LEMMA PositionIsNatural ==
    ASSUME StrategyInv, NEW s \in Strategy
    PROVE  /\ Position(s) \in Nat
           /\ Position(s) * RateScalar <= collateral[s] * reserve[s].b_rate
           /\ collateral[s] * reserve[s].b_rate < Position(s) * RateScalar + RateScalar
           /\ PoolPosition(s) \in Nat
<1>1. collateral[s] \in Nat /\ reserve[s].b_rate \in Nat /\ stTracked[s] \in Nat
  BY StrategyInvParts DEF PoolInv, PoolTypeOK, Reserve
<1>2. collateral[s] * reserve[s].b_rate \in Nat
  BY <1>1, Products
<1>3. RateScalar \in Nat \ {0}
  BY PoolAssumption
<1> DEFINE worth == collateral[s] * reserve[s].b_rate
<1> HIDE DEF worth
<1>4. /\ worth \div RateScalar \in Nat
      /\ (worth \div RateScalar) * RateScalar <= worth
      /\ worth < (worth \div RateScalar) * RateScalar + RateScalar
  BY <1>2, <1>3, Division DEF worth
<1> QED BY <1>1, <1>4 DEF Position, PoolPosition, worth

(* What the pool has supplied and lent out are naturals.                   *)
LEMMA SuppliedIsNatural ==
    ASSUME StrategyInv, NEW s \in Strategy
    PROVE  Supplied(reserve[s]) \in Nat /\ Borrowed(reserve[s]) \in Nat
<1>1. /\ reserve[s].b_supply \in Nat /\ reserve[s].b_rate \in Nat
      /\ reserve[s].d_supply \in Nat /\ reserve[s].d_rate \in Nat
      /\ RateScalar \in Nat \ {0}
  BY StrategyInvParts, PoolAssumption DEF PoolInv, PoolTypeOK, Reserve
<1>2. /\ reserve[s].b_supply * reserve[s].b_rate \in Nat
      /\ reserve[s].d_supply * reserve[s].d_rate \in Nat
  BY <1>1, Products
<1> QED BY <1>1, <1>2, Division DEF Supplied, Borrowed

(* The strategy's operations keep its invariant: deposit, ...              *)
LEMMA StrategyDepositInv ==
    ASSUME StrategyInv, NEW s \in Strategy, NEW caller, NEW amount \in Int,
           StrategyDeposit(s, caller, amount)
    PROVE  StrategyInv'
<1>1. amount \in Nat
  BY DEF StrategyDeposit, CanDeposit
<1>2. PoolInv'
  BY <1>1, PoolSupplyInv, StrategyInvParts DEF StrategyDeposit
<1>3. ConfigTypeOK'
  BY ConfigKept, StrategyInvParts DEF StrategyDeposit
<1>4. stTracked' \in [Strategy -> Nat]
  BY <1>1, StrategyInvParts DEF StrategyDeposit
<1> QED BY <1>2, <1>3, <1>4, StrategyInvPartsNext

(* ... withdraw, ...                                                       *)
LEMMA StrategyWithdrawInv ==
    ASSUME StrategyInv, NEW s \in Strategy, NEW caller, NEW amount \in Int,
           StrategyWithdraw(s, caller, amount)
    PROVE  StrategyInv'
<1>1. amount \in Nat
  BY DEF StrategyWithdraw, CanPull
<1>2. Withdrawn(s, amount) \in Nat /\ stTracked[s] - Withdrawn(s, amount) \in Nat
  BY <1>1, WithdrawnIsTracked
<1>3. PoolInv'
  BY <1>2, PoolWithdrawInv, StrategyInvParts DEF StrategyWithdraw
<1>4. ConfigTypeOK'
  BY ConfigKept, StrategyInvParts DEF StrategyWithdraw
<1>5. stTracked' \in [Strategy -> Nat]
  BY <1>2, StrategyInvParts DEF StrategyWithdraw
<1> QED BY <1>3, <1>4, <1>5, StrategyInvPartsNext

(* ... emergency_withdraw, ...                                             *)
LEMMA StrategyDrainInv ==
    ASSUME StrategyInv, NEW s \in Strategy, NEW caller, StrategyDrain(s, caller)
    PROVE  StrategyInv'
<1>1. PoolPosition(s) \in Nat
  BY PositionIsNatural
<1>2. PoolInv'
  <2>1. CASE PoolPosition(s) > 0
    BY <2>1, <1>1, PoolWithdrawInv, StrategyInvParts DEF StrategyDrain
  <2>2. CASE ~(PoolPosition(s) > 0)
    BY <2>2, PoolKept, StrategyInvParts DEF StrategyDrain
  <2> QED BY <2>1, <2>2
<1>3. ConfigTypeOK'
  BY ConfigKept, StrategyInvParts DEF StrategyDrain
<1>4. stTracked' \in [Strategy -> Nat]
  BY StrategyInvParts DEF StrategyDrain
<1> QED BY <1>2, <1>3, <1>4, StrategyInvPartsNext

(* ... and what its admin sets.                                            *)
LEMMA StrategySettingsInv ==
    ASSUME StrategyInv, StrategySettings
    PROVE  StrategyInv'
<1> PICK s \in Strategy, caller \in StrategyOperator :
        \/ \E vault \in {Vault, OtherVault} : StrategyInitialize(s, caller, vault)
        \/ Harvest(s, caller)
        \/ \E p \in StrategyPauseChoices : StrategySetPaused(s, caller, p)
        \/ \E new \in NewStrategyAdmin : StrategyProposeAdmin(s, caller, new)
        \/ StrategyAcceptAdmin(s, caller)
        \/ \E new \in NewVault : StrategySetVault(s, caller, new)
        \/ \E bps \in UtilizationChoices : SetMaxUtilization(s, caller, bps)
        \/ \E bps \in BackstopChoices : SetMinBackstopCoverage(s, caller, bps)
        \/ \E buffer \in ApprovalChoices : SetApprovalBuffer(s, caller, buffer)
  BY DEF StrategySettings
<1>1. UNCHANGED poolVars /\ stTracked' \in [Strategy -> Nat]
  BY StrategyInvParts
  DEF StrategyInitialize, Harvest, StrategySetPaused, StrategyProposeAdmin, StrategyAcceptAdmin,
      StrategySetVault, SetMaxUtilization, SetMinBackstopCoverage, SetApprovalBuffer
<1>2. ConfigTypeOK'
  <2> USE StrategyAssumption, StrategyInvParts DEF ConfigTypeOK, stRoleVars, stLimitVars
  <2>1. ASSUME NEW p \in StrategyPauseChoices, StrategySetPaused(s, caller, p)
        PROVE  ConfigTypeOK'
    <3>1. /\ stVault' = stVault /\ stAdmin' = stAdmin /\ stPendingAdmin' = stPendingAdmin
          /\ maxUtilization' = maxUtilization /\ minBackstop' = minBackstop
          /\ approvalBuffer' = approvalBuffer /\ claimed' = claimed
          /\ stPaused' = [stPaused EXCEPT ![s] = p]
      BY <2>1 DEF StrategySetPaused
    <3>2. p \in BOOLEAN
      BY Zenon
    <3> QED BY <3>1, <3>2, Zenon
  <2>2. ASSUME NEW new \in NewStrategyAdmin, StrategyProposeAdmin(s, caller, new)
        PROVE  ConfigTypeOK'
    BY <2>2 DEF StrategyProposeAdmin
  <2>3. ASSUME StrategyAcceptAdmin(s, caller)
        PROVE  ConfigTypeOK'
    BY <2>3 DEF StrategyAcceptAdmin
  <2>4. ASSUME NEW new \in NewVault, StrategySetVault(s, caller, new)
        PROVE  ConfigTypeOK'
    BY <2>4 DEF StrategySetVault
  <2>5. ASSUME NEW bps \in UtilizationChoices, SetMaxUtilization(s, caller, bps)
        PROVE  ConfigTypeOK'
    <3>1. bps \in 0..MaxBps
      BY <2>5, MathAssumption DEF SetMaxUtilization
    <3> QED BY <2>5, <3>1 DEF SetMaxUtilization
  <2>6. ASSUME NEW bps \in BackstopChoices, SetMinBackstopCoverage(s, caller, bps)
        PROVE  ConfigTypeOK'
    <3>1. bps \in 0..MaxBps
      BY <2>6, MathAssumption DEF SetMinBackstopCoverage
    <3> QED BY <2>6, <3>1 DEF SetMinBackstopCoverage
  <2>7. ASSUME NEW buffer \in ApprovalChoices, SetApprovalBuffer(s, caller, buffer)
        PROVE  ConfigTypeOK'
    BY <2>7 DEF SetApprovalBuffer
  <2>8. ASSUME Harvest(s, caller)
        PROVE  ConfigTypeOK'
    BY <2>8 DEF Harvest
  <2>9. ASSUME NEW vault \in {Vault, OtherVault}, StrategyInitialize(s, caller, vault)
        PROVE  ConfigTypeOK'
    <3>1. /\ stVault' \in [Strategy -> {Vault, OtherVault, NoVault}]
          /\ stAdmin' \in [Strategy -> StrategyOperator \cup {NoStrategyAdmin}]
          /\ stPendingAdmin' = stPendingAdmin /\ claimed' = claimed
      BY <2>9 DEF StrategyInitialize
    <3>2. stPaused' \in [Strategy -> BOOLEAN]
      BY <2>9, Zenon DEF StrategyInitialize
    <3>3. /\ maxUtilization' \in [Strategy -> 0..MaxBps]
          /\ minBackstop' \in [Strategy -> 0..MaxBps]
          /\ approvalBuffer' \in [Strategy -> Nat]
      BY <2>9 DEF StrategyInitialize
    <3> QED BY <3>1, <3>2, <3>3, Zenon
  <2> QED BY <2>1, <2>2, <2>3, <2>4, <2>5, <2>6, <2>7, <2>8, <2>9
<1> QED BY <1>1, <1>2, PoolKept, StrategyInvParts, StrategyInvPartsNext

-----------------------------------------------------------------------------
(* How far a supply, a withdrawal and interest can move what is tracked    *)
(* from what is held: t units tracked and c b_tokens, each worth r/u, with *)
(* k roundings in the past.                                                *)
LEMMA SupplyKeepsCover ==
    ASSUME NEW t \in Nat, NEW c \in Nat, NEW k \in Nat, NEW r \in Nat, NEW u \in Nat,
           NEW a \in Nat, NEW m \in Nat,
           t * u <= (c + k) * r, a * u < m * r + r
    PROVE  (t + a) * u <= ((c + m) + (k + 1)) * r
<1>1. /\ t * u \in Nat /\ a * u \in Nat /\ m * r \in Nat
      /\ (t + a) * u = t * u + a * u
  BY Products
<1>2. /\ c + k \in Nat /\ m + 1 \in Nat /\ (c + m) + (k + 1) = (c + k) + (m + 1)
      /\ (c + k) * r \in Nat /\ (m + 1) * r \in Nat
  BY Products
<1>3. /\ ((c + k) + (m + 1)) * r = (c + k) * r + (m + 1) * r
      /\ (m + 1) * r = m * r + 1 * r
  BY <1>2, Products
<1> QED BY <1>1, <1>2, <1>3

(* As above, for w units withdrawn by burning b b_tokens.                  *)
LEMMA WithdrawalKeepsCover ==
    ASSUME NEW t \in Nat, NEW c \in Nat, NEW k \in Nat, NEW r \in Nat, NEW u \in Nat,
           NEW w \in 0..t, NEW b \in 0..c,
           t * u <= (c + k) * r, b * r <= w * u + r - 1
    PROVE  (t - w) * u <= ((c - b) + (k + 1)) * r
<1> DEFINE x == t - w
           y == (c - b) + (k + 1)
<1>1. x \in Nat /\ t = x + w /\ w \in Nat /\ y \in Nat /\ b \in Nat /\ (c + k) + 1 = y + b
  OBVIOUS
<1> HIDE DEF x, y
<1>2. t * u = x * u + w * u /\ x * u \in Nat /\ w * u \in Nat
  BY <1>1, Products
<1>3. /\ (y + b) * r = y * r + b * r /\ y * r \in Nat /\ b * r \in Nat
      /\ ((c + k) + 1) * r = (c + k) * r + 1 * r /\ (c + k) * r \in Nat
  BY <1>1, Products
<1>4. x * u + w * u <= (c + k) * r
  BY <1>2
<1>5. y * r + b * r = (c + k) * r + r
  BY <1>1, <1>3
<1>6. x * u <= y * r
  BY <1>2, <1>3, <1>4, <1>5
<1> QED BY <1>6 DEF x, y

(* What a step does to a strategy's book, in one of four ways: it tracks   *)
(* nothing any more, it leaves what it tracks and holds, it supplies, or it*)
(* withdraws.                                                              *)
Moves(s) ==
    \/ stTracked'[s] = 0
    \/ stTracked'[s] = stTracked[s] /\ collateral'[s] = collateral[s]
    \/ /\ reserve'[s].b_rate = reserve[s].b_rate
       /\ \E a \in Nat :
            /\ Minted(s, a) > 0
            /\ stTracked'[s] = stTracked[s] + a
            /\ collateral'[s] = collateral[s] + Minted(s, a)
    \/ /\ reserve'[s].b_rate = reserve[s].b_rate
       /\ \E w \in 1..stTracked[s] :
            /\ Burnt(s, w) <= collateral[s]
            /\ stTracked'[s] = stTracked[s] - w
            /\ collateral'[s] = collateral[s] - Burnt(s, w)

(* Maps from strategies, as the lemmas below need them.                    *)
LEMMA BooksOfStrategies ==
    ASSUME StrategyInv
    PROVE  /\ stTracked \in [Strategy -> Nat] /\ collateral \in [Strategy -> Nat]
           /\ reserve \in [Strategy -> Reserve]
BY StrategyInvParts DEF PoolInv, PoolTypeOK

(* A drain moves every strategy so.                                        *)
LEMMA DrainMoves ==
    ASSUME StrategyInv, NEW s \in Strategy, NEW z \in Strategy, NEW caller,
           StrategyDrain(z, caller)
    PROVE  Moves(s)
<1>1. stTracked' = [stTracked EXCEPT ![z] = 0]
  BY DEF StrategyDrain
<1>2. CASE z = s
  BY <1>1, <1>2, BooksOfStrategies DEF Moves
<1>3. CASE z # s
  <2>1. stTracked'[s] = stTracked[s]
    BY <1>1, <1>3, BooksOfStrategies
  <2>2. collateral'[s] = collateral[s]
    <3>1. CASE PoolWithdraw(z, PoolPosition(z))
      BY <3>1, <1>3, BooksOfStrategies DEF PoolWithdraw
    <3>2. CASE UNCHANGED poolVars
      BY <3>2 DEF poolVars
    <3> QED BY <3>1, <3>2 DEF StrategyDrain
  <2> QED BY <2>1, <2>2 DEF Moves
<1> QED BY <1>2, <1>3

(* So does a deposit.                                                      *)
LEMMA DepositMoves ==
    ASSUME StrategyInv, NEW s \in Strategy, NEW z \in Strategy, NEW caller,
           NEW amount \in Int, StrategyDeposit(z, caller, amount)
    PROVE  Moves(s)
<1> DEFINE m == Minted(z, amount)
<1>1. /\ amount > 0 /\ m > 0
      /\ stTracked' = [stTracked EXCEPT ![z] = @ + amount]
      /\ collateral' = [collateral EXCEPT ![z] = @ + m]
      /\ reserve' = [reserve EXCEPT ![z].b_supply = @ + m]
  BY DEF StrategyDeposit, CanDeposit, PoolSupply, CanSupply
<1> HIDE DEF m
<1>2. CASE z = s
  <2>1. /\ stTracked'[s] = stTracked[s] + amount /\ collateral'[s] = collateral[s] + m
        /\ reserve'[s].b_rate = reserve[s].b_rate
    BY <1>1, <1>2, BooksOfStrategies DEF Reserve
  <2> QED BY <2>1, <1>1, <1>2 DEF m, Moves
<1>3. CASE z # s
  BY <1>1, <1>3, BooksOfStrategies DEF Moves
<1> QED BY <1>2, <1>3

(* And a withdrawal.                                                       *)
LEMMA WithdrawMoves ==
    ASSUME StrategyInv, NEW s \in Strategy, NEW z \in Strategy, NEW caller,
           NEW amount \in Int, StrategyWithdraw(z, caller, amount)
    PROVE  Moves(s)
<1> DEFINE w == Withdrawn(z, amount)
           b == Burnt(z, w)
<1>1. w \in 1..stTracked[z]
  BY BooksOfStrategies DEF StrategyWithdraw, CanPull, Withdrawn, Least
<1> HIDE DEF w
<1>2. /\ b <= collateral[z]
      /\ stTracked' = [stTracked EXCEPT ![z] = @ - w]
      /\ collateral' = [collateral EXCEPT ![z] = @ - b]
      /\ reserve' = [reserve EXCEPT ![z].b_supply = @ - b]
  BY DEF StrategyWithdraw, PoolWithdraw, CanWithdraw, w
<1> HIDE DEF b
<1>3. CASE z = s
  <2>1. /\ stTracked'[s] = stTracked[s] - w /\ collateral'[s] = collateral[s] - b
        /\ reserve'[s].b_rate = reserve[s].b_rate
    BY <1>2, <1>3, BooksOfStrategies DEF Reserve
  <2> QED BY <2>1, <1>1, <1>2, <1>3 DEF b, Moves
<1>4. CASE z # s
  BY <1>2, <1>4, BooksOfStrategies DEF Moves
<1> QED BY <1>3, <1>4

(* And the settings, of which only initialize touches the book.            *)
LEMMA SettingsMove ==
    ASSUME StrategyInv, NEW s \in Strategy, StrategySettings
    PROVE  Moves(s)
<1>1. CASE UNCHANGED <<stTracked, poolVars>>
  BY <1>1 DEF poolVars, Moves
<1>2. ASSUME NEW z \in Strategy, NEW caller, NEW vault, StrategyInitialize(z, caller, vault)
      PROVE  Moves(s)
  BY <1>2, BooksOfStrategies DEF StrategyInitialize, poolVars, Moves
<1> QED BY <1>1, <1>2
        DEF StrategySettings, Harvest, StrategySetPaused, StrategyProposeAdmin,
            StrategyAcceptAdmin, StrategySetVault, SetMaxUtilization,
            SetMinBackstopCoverage, SetApprovalBuffer

(* And whatever the others do to the pool.                                 *)
LEMMA EnvironmentMoves ==
    ASSUME NEW s \in Strategy, PoolEnvironment, UNCHANGED stTracked
    PROVE  Moves(s)
BY DEF PoolEnvironment, BorrowOrRepay, OthersSupplyOrWithdraw, Accrue, WriteOff,
       BackstopMoves, Outage, ReserveMove, Moves

(* t units tracked are covered by c b_tokens at rate r and k roundings.    *)
CoverOf(t, c, r, k, bad) ==
    /\ t # 0 => k # 0
    /\ ~bad => t * RateScalar <= (c + k) * r

(* Whatever way a strategy moves, what it tracks stays covered, if k counts*)
(* the times its b_tokens changed and bad whether their rate ever fell.    *)
LEMMA CoverStep ==
    ASSUME StrategyInv, StrategyInv', NEW s \in Strategy, Moves(s),
           NEW k \in Nat, NEW bad \in BOOLEAN, NEW k1, NEW bad1,
           CoverOf(stTracked[s], collateral[s], reserve[s].b_rate, k, bad),
           k1 = IF stTracked'[s] = 0 THEN 0 ELSE k + (IF collateral'[s] # collateral[s] THEN 1 ELSE 0),
           bad1 = (stTracked'[s] # 0 /\ (bad \/ reserve'[s].b_rate < reserve[s].b_rate))
    PROVE  CoverOf(stTracked'[s], collateral'[s], reserve'[s].b_rate, k1, bad1)
<1> DEFINE t == stTracked[s]       t1 == stTracked'[s]
           c == collateral[s]      c1 == collateral'[s]
           r == reserve[s].b_rate  r1 == reserve'[s].b_rate
           u == RateScalar
<1> SUFFICES /\ t1 # 0 => k1 # 0
             /\ ~bad1 => t1 * u <= (c1 + k1) * r1
  BY DEF CoverOf
<1>1. /\ t \in Nat /\ c \in Nat /\ k \in Nat /\ r \in Nat \ {0} /\ u \in Nat \ {0}
      /\ t1 \in Nat /\ c1 \in Nat /\ r1 \in Nat \ {0} /\ bad \in BOOLEAN
  BY StrategyInvParts, StrategyInvPartsNext, PoolAssumption
     DEF PoolInv, PoolTypeOK, Reserve
<1>2. /\ k1 = IF t1 = 0 THEN 0 ELSE k + (IF c1 # c THEN 1 ELSE 0)
      /\ bad1 = (t1 # 0 /\ (bad \/ r1 < r))
  OBVIOUS
<1>3. k1 \in Nat
  BY <1>1, <1>2
<1>4. /\ t # 0 => k # 0
      /\ ~bad => t * u <= (c + k) * r
  BY DEF CoverOf
<1>5. CASE t1 = 0
  <2>1. k1 = 0 /\ t1 * u = 0 /\ (c1 + k1) * r1 \in Nat
    BY <1>1, <1>2, <1>5, Products
  <2> QED BY <1>5, <2>1
<1>6. CASE t1 # 0 /\ t1 = t /\ c1 = c
  <2>1. k1 = k
    BY <1>1, <1>2, <1>6
  <2>2. ASSUME ~bad1 PROVE t * u <= (c + k) * r1
    <3>1. ~bad /\ ~(r1 < r)
      BY <1>2, <1>6, <2>2, Zenon
    <3>2. r <= r1 /\ c + k \in Nat /\ r \in Nat /\ r1 \in Nat
      BY <3>1, <1>1
    <3> HIDE DEF t, c, r, r1, u
    <3>3. r * (c + k) <= r1 * (c + k)
      BY <3>2, Products
    <3>4. (c + k) * r <= (c + k) * r1 /\ t * u <= (c + k) * r
      BY <1>4, <3>1, <3>2, <3>3
    <3>5. t * u \in Nat /\ (c + k) * r \in Nat /\ (c + k) * r1 \in Nat
      BY <1>1, <3>2, Products
    <3> QED BY <3>4, <3>5
  <2> QED BY <1>4, <1>6, <2>1, <2>2
<1>7. ASSUME t1 # 0, r1 = r, NEW a \in Nat, Minted(s, a) > 0, t1 = t + a,
             c1 = c + Minted(s, a)
      PROVE  /\ k1 # 0
             /\ ~bad1 => t1 * u <= (c1 + k1) * r1
  <2> DEFINE m == Minted(s, a)
  <2>1. m \in Nat /\ a * u < m * r + r
    <3>1. a * u \in Nat
      BY <1>1, Products
    <3> QED BY <3>1, <1>1, Division DEF Minted
  <2>2. m > 0 /\ c1 = c + m
    BY <1>7
  <2> HIDE DEF m
  <2>3. k1 = k + 1
    BY <1>1, <1>2, <1>7, <2>1, <2>2
  <2>4. ASSUME ~bad1 PROVE (t + a) * u <= ((c + m) + (k + 1)) * r
    <3>1. t * u <= (c + k) * r
      BY <1>2, <1>4, <1>7, <2>4, Zenon
    <3>2. r \in Nat /\ u \in Nat
      BY <1>1
    <3> HIDE DEF t, c, r, u
    <3> QED BY <1>1, <2>1, <3>1, <3>2, SupplyKeepsCover
  <2> QED BY <1>1, <1>7, <2>2, <2>3, <2>4
<1>8. ASSUME t1 # 0, r1 = r, NEW w \in 1..t, Burnt(s, w) <= c, t1 = t - w,
             c1 = c - Burnt(s, w)
      PROVE  /\ k1 # 0
             /\ ~bad1 => t1 * u <= (c1 + k1) * r1
  <2> DEFINE b == Burnt(s, w)
  <2>1. w \in Nat /\ w >= 1
    BY <1>1
  <2>2. b \in Nat /\ b * r <= w * u + r - 1 /\ w * u <= b * r
    BY <2>1, StrategyInvParts, TokensAreNatural
  <2>3. b <= c /\ c1 = c - b
    BY <1>8
  <2> HIDE DEF b
  <2>4. b # 0
    <3>1. 1 * u <= w * u /\ w * u \in Nat
      BY <1>1, <2>1, Products
    <3> QED BY <1>1, <2>2, <3>1
  <2>5. k1 = k + 1
    BY <1>1, <1>2, <1>8, <2>2, <2>3, <2>4
  <2>6. ASSUME ~bad1 PROVE (t - w) * u <= ((c - b) + (k + 1)) * r
    <3>1. t * u <= (c + k) * r
      BY <1>2, <1>4, <1>8, <2>6, Zenon
    <3>2. r \in Nat /\ u \in Nat /\ w \in 0..t /\ b \in 0..c
      BY <1>1, <2>1, <2>2, <2>3
    <3> HIDE DEF t, c, r, u
    <3> QED BY <1>1, <2>2, <3>1, <3>2, WithdrawalKeepsCover
  <2> QED BY <1>1, <1>8, <2>3, <2>5, <2>6
<1>9. \/ t1 = 0
      \/ t1 = t /\ c1 = c
      \/ r1 = r /\ \E a \in Nat : Minted(s, a) > 0 /\ t1 = t + a /\ c1 = c + Minted(s, a)
      \/ r1 = r /\ \E w \in 1..t : Burnt(s, w) <= c /\ t1 = t - w /\ c1 = c - Burnt(s, w)
  BY DEF Moves
<1> HIDE DEF t, t1, c, c1, r, r1, u
<1> QED BY <1>5, <1>6, <1>7, <1>8, <1>9, Zenon
=============================================================================
