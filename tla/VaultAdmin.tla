------------------------------ MODULE VaultAdmin ------------------------------
(***************************************************************************)
(* The governance of tezoro-vault: one-time initialisation, the roles      *)
(* (admin, keeper, guardian), the two-step change of admin, the pause      *)
(* switch, the settings only an admin may change, and the upgrade timelock *)
(* behind the admin's signature.                                           *)
(*                                                                         *)
(* An action's `caller` is the address that signed the transaction         *)
(* (caller.require_auth()).                                                *)
(***************************************************************************)
EXTENDS UpgradeTimelock

CONSTANTS
    Operator,               \* the addresses that sign for or receive a role
    NewAdmin, NewKeeper, NewGuardian,   \* the addresses an admin appoints
    Recipient,              \* the addresses fees may be sent to
    NoAddress,              \* a role that is not set
    FeeBpsChoices,          \* deployment: performance fees tried
    BufferBpsChoices,       \* deployment: idle buffers tried
    CapChoices,             \* the caps an admin sets; 0 is "no cap"
    MaxAgeChoices,          \* the bridged maximal ages an admin sets
    MaxPerformanceFeeBps,
    MaxIdleBufferBps,
    DefaultBridgedMaxAge

ASSUME AdminAssumption ==
    /\ NoAddress \notin Operator \cup Recipient
    /\ NewAdmin \cup NewKeeper \cup NewGuardian \subseteq Operator
    /\ FeeBpsChoices \subseteq Nat
    /\ BufferBpsChoices \subseteq Nat
    /\ CapChoices \subseteq Int
    /\ MaxAgeChoices \subseteq Nat
    /\ MaxPerformanceFeeBps \in Nat
    /\ MaxIdleBufferBps \in Nat
    /\ DefaultBridgedMaxAge \in Nat

VARIABLES
    initialized,
    admin,
    pendingAdmin,
    keeper,
    guardian,
    paused,
    depositCap,
    bridgedMaxAge,
    feeRecipient,
    performanceFeeBps,
    idleBufferBps,
    proposer                \* history: who made the pending proposal

roleVars   == <<admin, pendingAdmin, keeper, guardian, proposer>>
configVars == <<initialized, feeRecipient, performanceFeeBps, idleBufferBps>>
settingVars == <<paused, depositCap, bridgedMaxAge>>
adminVars  == <<roleVars, configVars, settingVars, now, timelockVars>>

AdminTypeOK ==
    /\ initialized \in BOOLEAN
    /\ admin \in Operator \cup {NoAddress}
    /\ pendingAdmin \in Operator \cup {NoAddress}
    /\ keeper \in Operator \cup {NoAddress}
    /\ guardian \in Operator \cup {NoAddress}
    /\ proposer \in Operator \cup {NoAddress}
    /\ paused \in BOOLEAN
    /\ depositCap \in Nat
    /\ bridgedMaxAge \in Nat
    /\ feeRecipient \in Recipient \cup {NoAddress}
    /\ performanceFeeBps \in 0..MaxPerformanceFeeBps
    /\ idleBufferBps \in 0..MaxIdleBufferBps

(* Storage before initialize: the getters' defaults; get_admin, get_keeper *)
(* and get_guardian trap, so every call that needs a role fails.           *)
AdminInit ==
    /\ initialized = FALSE
    /\ admin = NoAddress
    /\ pendingAdmin = NoAddress
    /\ keeper = NoAddress
    /\ guardian = NoAddress
    /\ proposer = NoAddress
    /\ paused = FALSE
    /\ depositCap = 0
    /\ bridgedMaxAge = DefaultBridgedMaxAge
    /\ feeRecipient = NoAddress
    /\ performanceFeeBps = 0
    /\ idleBufferBps = 0
    /\ TimelockInit

-----------------------------------------------------------------------------
(* Mutated: a vault can be initialised again.                              *)
InitializeAgain(a, k, g, recipient, feeBps, bufferBps) ==
    /\ initialized' = TRUE
    /\ admin' = a
    /\ keeper' = k
    /\ guardian' = g
    /\ feeRecipient' = recipient
    /\ performanceFeeBps' = feeBps
    /\ idleBufferBps' = bufferBps
    /\ paused' = FALSE
    /\ depositCap' = 0
    /\ bridgedMaxAge' = DefaultBridgedMaxAge
    /\ upgradeDelay' = DefaultUpgradeDelay
    /\ UNCHANGED <<pendingAdmin, proposer, now, scheduled, wasm, notice>>

(* The balances initialize zeroes are zero before it (the vault module's   *)
(* Init), and it leaves the delay and the maximal age at their defaults.   *)
Initialize(a, k, g, recipient, feeBps, bufferBps) ==
    /\ ~initialized
    /\ feeBps <= MaxPerformanceFeeBps
    /\ bufferBps <= MaxIdleBufferBps
    /\ initialized' = TRUE
    /\ admin' = a
    /\ keeper' = k
    /\ guardian' = g
    /\ feeRecipient' = recipient
    /\ performanceFeeBps' = feeBps
    /\ idleBufferBps' = bufferBps
    /\ paused' = FALSE
    /\ depositCap' = 0
    /\ bridgedMaxAge' = DefaultBridgedMaxAge
    /\ upgradeDelay' = DefaultUpgradeDelay
    /\ UNCHANGED <<pendingAdmin, proposer, now, scheduled, wasm, notice>>

Pause(caller) ==
    /\ caller \in {admin, guardian}
    /\ paused' = TRUE
    /\ UNCHANGED <<roleVars, configVars, depositCap, bridgedMaxAge, now, timelockVars>>

Unpause(caller) ==
    /\ caller = admin
    /\ paused' = FALSE
    /\ UNCHANGED <<roleVars, configVars, depositCap, bridgedMaxAge, now, timelockVars>>

SetDepositCap(caller, cap) ==
    /\ caller = admin
    /\ cap >= 0
    /\ depositCap' = cap
    /\ UNCHANGED <<roleVars, configVars, paused, bridgedMaxAge, now, timelockVars>>

SetBridgedMaxAge(caller, age) ==
    /\ caller = admin
    /\ bridgedMaxAge' = age
    /\ UNCHANGED <<roleVars, configVars, paused, depositCap, now, timelockVars>>

SetKeeper(caller, new) ==
    /\ caller = admin
    /\ keeper' = new
    /\ UNCHANGED <<admin, pendingAdmin, guardian, proposer>>
    /\ UNCHANGED <<configVars, settingVars, now, timelockVars>>

SetGuardian(caller, new) ==
    /\ caller = admin
    /\ guardian' = new
    /\ UNCHANGED <<admin, pendingAdmin, keeper, proposer>>
    /\ UNCHANGED <<configVars, settingVars, now, timelockVars>>

ProposeAdmin(caller, new) ==
    /\ caller = admin
    /\ pendingAdmin' = new
    /\ proposer' = caller
    /\ UNCHANGED <<admin, keeper, guardian>>
    /\ UNCHANGED <<configVars, settingVars, now, timelockVars>>

(* Mutated: the accepted proposal is not cleared.                          *)
AcceptAdminLeavingProposal(caller) ==
    /\ caller = pendingAdmin
    /\ admin' = caller
    /\ UNCHANGED <<pendingAdmin, proposer, keeper, guardian>>
    /\ UNCHANGED <<configVars, settingVars, now, timelockVars>>

AcceptAdmin(caller) ==
    /\ caller = pendingAdmin
    /\ admin' = caller
    /\ pendingAdmin' = NoAddress
    /\ proposer' = NoAddress
    /\ UNCHANGED <<keeper, guardian>>
    /\ UNCHANGED <<configVars, settingVars, now, timelockVars>>

(* set_upgrade_delay, schedule_upgrade, execute_upgrade, cancel_upgrade.   *)
GovernUpgrade(caller) ==
    /\ caller = admin
    /\ TimelockStep
    /\ UNCHANGED <<roleVars, configVars, settingVars>>

(* A ledger closes.                                                        *)
CloseLedger == Tick /\ UNCHANGED <<roleVars, configVars, settingVars>>

AdminStep ==
    \/ \E a, k, g \in Operator, r \in Recipient,
          f \in FeeBpsChoices, b \in BufferBpsChoices : Initialize(a, k, g, r, f, b)
    \/ \E caller \in Operator :
         \/ Pause(caller) \/ Unpause(caller) \/ AcceptAdmin(caller) \/ GovernUpgrade(caller)
         \/ \E cap \in CapChoices : SetDepositCap(caller, cap)
         \/ \E age \in MaxAgeChoices : SetBridgedMaxAge(caller, age)
         \/ \E new \in NewKeeper : SetKeeper(caller, new)
         \/ \E new \in NewGuardian : SetGuardian(caller, new)
         \/ \E new \in NewAdmin : ProposeAdmin(caller, new)
    \/ CloseLedger

AdminSpec == AdminInit /\ [][AdminStep]_adminVars

-----------------------------------------------------------------------------
(* Whoever can take the admin role was proposed by the admin of today: no  *)
(* proposal of an earlier admin outlives a handover (accept_admin clears   *)
(* the one pending slot, propose_admin overwrites it).                     *)
ProposalIsCurrent == pendingAdmin # NoAddress => proposer = admin

(* No role and no schedule exists before initialize.                       *)
NothingBeforeInitialize ==
    ~initialized => /\ admin = NoAddress
                    /\ pendingAdmin = NoAddress
                    /\ scheduled = NoUpgrade

(* The inductive invariant of the governance state.                        *)
AdminInv ==
    /\ AdminTypeOK
    /\ TimelockInv
    /\ ProposalIsCurrent
    /\ NothingBeforeInitialize
    /\ initialized => admin # NoAddress

(* The admin changes only at initialisation, or to the address the admin   *)
(* in office proposed.                                                     *)
HandoverIsTwoStep ==
    [][admin' # admin => \/ ~initialized
                         \/ admin' = pendingAdmin /\ proposer = admin]_adminVars
=============================================================================
