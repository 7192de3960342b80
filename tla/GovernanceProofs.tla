--------------------------- MODULE GovernanceProofs ---------------------------
(***************************************************************************)
(* Proofs about the upgrade timelock and the vault's governance.           *)
(***************************************************************************)
EXTENDS VaultAdmin, TLAPS

(* The timelock's invariant, step by step: what the modules that put a     *)
(* signature in front of the timelock need of it.                          *)
LEMMA TimelockInitInv == TimelockInit => TimelockInv
BY TimelockAssumption DEF TimelockInit, TimelockInv, TimelockTypeOK

LEMMA TimelockStepInv ==
    ASSUME TimelockInv, TimelockStep
    PROVE  TimelockInv'
<1> USE TimelockAssumption DEF TimelockInv, TimelockTypeOK, Schedule, Notice
<1>1. CASE \E delay \in DelayChoices : SetUpgradeDelay(delay)
  BY <1>1 DEF SetUpgradeDelay
<1>2. CASE \E hash \in UpgradeChoices : ScheduleUpgrade(hash)
  BY <1>2 DEF ScheduleUpgrade
<1>3. CASE ExecuteUpgrade
  BY <1>3 DEF ExecuteUpgrade
<1>4. CASE CancelUpgrade
  BY <1>4 DEF CancelUpgrade
<1> QED BY <1>1, <1>2, <1>3, <1>4 DEF TimelockStep

LEMMA TickInv ==
    ASSUME TimelockInv, Tick
    PROVE  TimelockInv'
BY DEF TimelockInv, TimelockTypeOK, Tick, timelockVars

LEMMA TimelockStutterInv ==
    ASSUME TimelockInv, UNCHANGED <<now, timelockVars>>
    PROVE  TimelockInv'
BY DEF TimelockInv, TimelockTypeOK, timelockVars

(* A step of the timelock that changes the code gave the minimum notice.   *)
LEMMA TimelockStepNotice ==
    ASSUME TimelockInv, TimelockStep, wasm' # wasm
    PROVE  /\ notice # NoUpgrade
           /\ wasm' = notice.hash
           /\ now >= notice.at + MinUpgradeDelay
<1>1. ExecuteUpgrade
  BY DEF TimelockStep, SetUpgradeDelay, ScheduleUpgrade, CancelUpgrade
<1>2. /\ scheduled # NoUpgrade
      /\ now >= scheduled.at + upgradeDelay
      /\ wasm' = scheduled.hash
  BY <1>1 DEF ExecuteUpgrade
<1>3. /\ notice # NoUpgrade
      /\ notice.hash = scheduled.hash
      /\ notice.at = scheduled.at
      /\ upgradeDelay >= MinUpgradeDelay
  BY <1>2 DEF TimelockInv
<1>4. now \in Nat /\ upgradeDelay \in Nat /\ scheduled.at \in Nat /\ MinUpgradeDelay \in Nat
  BY <1>2, TimelockAssumption DEF TimelockInv, TimelockTypeOK, Schedule
<1> QED BY <1>2, <1>3, <1>4

(* The invariant of the timelock on its own, in either contract: what is   *)
(* scheduled is what was last announced, under a delay at or above the     *)
(* minimum.                                                                *)
THEOREM TimelockSafe == TimelockSpec => []TimelockInv
<1>1. TimelockInit => TimelockInv
  BY TimelockInitInv
<1>2. TimelockInv /\ [TimelockNext]_<<now, timelockVars>> => TimelockInv'
  BY TimelockStepInv, TickInv, TimelockStutterInv DEF TimelockNext
<1> QED BY <1>1, <1>2, PTL DEF TimelockSpec

(* New code is the code last announced, at least the minimal delay ago.    *)
THEOREM UpgradeGivesNotice == TimelockSpec => MinimumNotice
<1>1. TimelockInv /\ [TimelockNext]_<<now, timelockVars>> =>
        [wasm' # wasm => /\ notice # NoUpgrade
                         /\ wasm' = notice.hash
                         /\ now >= notice.at + MinUpgradeDelay]_<<now, timelockVars>>
  BY TimelockStepNotice DEF TimelockNext, Tick, timelockVars
<1> QED BY <1>1, TimelockSafe, PTL DEF TimelockSpec, MinimumNotice

-----------------------------------------------------------------------------
(* The vault's governance.                                                 *)

LEMMA AdminInitInv == AdminInit => AdminInv
<1> SUFFICES ASSUME AdminInit PROVE AdminInv
  OBVIOUS
<1> USE DEF AdminInit
<1>1. TimelockInv /\ scheduled = NoUpgrade
  BY TimelockInitInv DEF TimelockInit
<1>2. initialized \in BOOLEAN /\ paused \in BOOLEAN /\ ~initialized
  BY Zenon
<1>3. performanceFeeBps \in 0..MaxPerformanceFeeBps /\ idleBufferBps \in 0..MaxIdleBufferBps
  BY AdminAssumption
<1>4. AdminTypeOK
  BY <1>2, <1>3, AdminAssumption DEF AdminTypeOK
<1> QED BY <1>1, <1>2, <1>4 DEF AdminInv, ProposalIsCurrent, NothingBeforeInitialize

LEMMA AdminStepInv ==
    ASSUME AdminInv, AdminStep
    PROVE  AdminInv'
<1> USE AdminAssumption DEF AdminInv, AdminTypeOK, ProposalIsCurrent,
        NothingBeforeInitialize, roleVars, configVars, settingVars
<1> DEFINE SameTimelock == UNCHANGED <<now, timelockVars>>
<1>1. ASSUME SameTimelock PROVE TimelockInv' /\ scheduled' = scheduled
  BY <1>1, TimelockStutterInv DEF timelockVars
<1> HIDE DEF SameTimelock
<1>2. CASE \E a, k, g \in Operator, r \in Recipient, f \in FeeBpsChoices, b \in BufferBpsChoices :
              Initialize(a, k, g, r, f, b)
  <2>1. TimelockInv'
    BY <1>2, TimelockAssumption DEF Initialize, TimelockInv, TimelockTypeOK
  <2>2. PICK a, k, g \in Operator, r \in Recipient, f \in FeeBpsChoices, b \in BufferBpsChoices :
              Initialize(a, k, g, r, f, b)
    BY <1>2
  <2>3. initialized' \in BOOLEAN /\ paused' \in BOOLEAN /\ initialized'
    BY <2>2, Zenon DEF Initialize
  <2>4. /\ performanceFeeBps' \in 0..MaxPerformanceFeeBps
        /\ idleBufferBps' \in 0..MaxIdleBufferBps
    BY <2>2 DEF Initialize
  <2>5. ~initialized /\ pendingAdmin' = NoAddress /\ proposer' = proposer
    BY <2>2 DEF Initialize
  <2>6. AdminTypeOK' /\ admin' # NoAddress
    BY <2>2, <2>3, <2>4 DEF Initialize
  <2> QED BY <2>1, <2>3, <2>5, <2>6
<1>3. ASSUME NEW caller \in Operator, Pause(caller) \/ Unpause(caller) PROVE AdminInv'
  <2>1. paused' \in BOOLEAN
    BY <1>3, Zenon DEF Pause, Unpause
  <2>2. UNCHANGED <<roleVars, configVars, depositCap, bridgedMaxAge>> /\ SameTimelock
    BY <1>3 DEF Pause, Unpause, SameTimelock
  <2> QED BY <1>1, <2>1, <2>2
<1>4. ASSUME NEW caller \in Operator, AcceptAdmin(caller) PROVE AdminInv'
  BY <1>1, <1>4 DEF AcceptAdmin, SameTimelock
<1>5. ASSUME NEW caller \in Operator, GovernUpgrade(caller) PROVE AdminInv'
  BY <1>5, TimelockStepInv DEF GovernUpgrade
<1>6. ASSUME NEW caller \in Operator, NEW cap \in CapChoices, SetDepositCap(caller, cap)
      PROVE  AdminInv'
  BY <1>1, <1>6 DEF SetDepositCap, SameTimelock
<1>7. ASSUME NEW caller \in Operator, NEW age \in MaxAgeChoices, SetBridgedMaxAge(caller, age)
      PROVE  AdminInv'
  BY <1>1, <1>7 DEF SetBridgedMaxAge, SameTimelock
<1>8. ASSUME NEW caller \in Operator, NEW new \in Operator,
             SetKeeper(caller, new) \/ SetGuardian(caller, new) \/ ProposeAdmin(caller, new)
      PROVE  AdminInv'
  BY <1>1, <1>8 DEF SetKeeper, SetGuardian, ProposeAdmin, SameTimelock
<1>9. CASE CloseLedger
  <2>1. TimelockInv' /\ scheduled' = scheduled
    BY <1>9, TickInv DEF CloseLedger, Tick, timelockVars
  <2> QED BY <1>9, <2>1 DEF CloseLedger
<1> QED BY <1>2, <1>3, <1>4, <1>5, <1>6, <1>7, <1>8, <1>9 DEF AdminStep

LEMMA AdminStutterInv ==
    ASSUME AdminInv, UNCHANGED adminVars
    PROVE  AdminInv'
BY TimelockStutterInv
   DEF AdminInv, AdminTypeOK, ProposalIsCurrent, NothingBeforeInitialize, adminVars,
       roleVars, configVars, settingVars, timelockVars

(* The governance invariant: in particular, whoever may accept the admin   *)
(* role was proposed by the admin in office.                               *)
THEOREM GovernanceSafe == AdminSpec => []AdminInv
<1>1. AdminInit => AdminInv
  BY AdminInitInv
<1>2. AdminInv /\ [AdminStep]_adminVars => AdminInv'
  BY AdminStepInv, AdminStutterInv
<1> QED BY <1>1, <1>2, PTL DEF AdminSpec

(* The admin changes only when it is set at initialisation or when the     *)
(* address proposed by the admin in office accepts.                        *)
THEOREM Handover == AdminSpec => HandoverIsTwoStep
<1>1. AdminInv /\ [AdminStep]_adminVars =>
        [admin' # admin => \/ ~initialized
                           \/ admin' = pendingAdmin /\ proposer = admin]_adminVars
  <2>1. ASSUME AdminInv, AdminStep, admin' # admin, initialized
        PROVE  admin' = pendingAdmin /\ proposer = admin
    <3>1. PICK caller \in Operator : AcceptAdmin(caller)
      BY <2>1 DEF AdminStep, Initialize, Pause, Unpause, GovernUpgrade, SetDepositCap,
         SetBridgedMaxAge, SetKeeper, SetGuardian, ProposeAdmin, CloseLedger, roleVars
    <3> QED BY <2>1, <3>1, AdminAssumption DEF AcceptAdmin, AdminInv, ProposalIsCurrent
  <2> QED BY <2>1 DEF AdminInv, AdminTypeOK
<1> QED BY <1>1, GovernanceSafe, PTL DEF AdminSpec, HandoverIsTwoStep
=============================================================================
