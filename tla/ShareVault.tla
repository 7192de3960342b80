------------------------------ MODULE ShareVault ------------------------------
(***************************************************************************)
(* What a share vault promises its holders, without strategies, roles or   *)
(* calls in progress: every operation takes effect in one step.  Shares    *)
(* are claims on a pot of assets; they are minted and redeemed at the      *)
(* price of the moment, rounded in the vault's favour; and nothing but a   *)
(* holder's own deposit, redemption, transfer or donation touches that     *)
(* holder's shares or wallet, save fee shares, which only add.             *)
(*                                                                         *)
(* TezoroVault implements this specification.                              *)
(***************************************************************************)
EXTENDS VaultMath

CONSTANTS Holder, InitialWallet, MaxPerformanceFeeBps

VARIABLES
    assets,                 \* what the vault's books say it holds
    supply,
    shares,
    wallet

svars == <<assets, supply, shares, wallet>>

Init ==
    /\ assets = 0
    /\ supply = 0
    /\ shares = [h \in Holder |-> 0]
    /\ wallet = [h \in Holder |-> InitialWallet]

Deposit(h) ==
    \E a \in 1..wallet[h] :
        LET minted == ToShares(a, supply, assets)
        IN  /\ minted > 0
            /\ assets' = assets + a
            /\ supply' = supply + minted
            /\ shares' = [shares EXCEPT ![h] = @ + minted]
            /\ wallet' = [wallet EXCEPT ![h] = @ - a]

(* The holder gets the price exactly.  The books lose no more than that;   *)
(* they may gain, when a strategy gave up more than was tracked for it.    *)
Redeem(h) ==
    \E n \in 1..shares[h] :
        LET paid == ToAssets(n, supply, assets)
        IN  /\ paid > 0
            /\ assets' >= assets - paid
            /\ supply' = supply - n
            /\ shares' = [shares EXCEPT ![h] = @ - n]
            /\ wallet' = [wallet EXCEPT ![h] = @ + paid]

Transfer(from, to) ==
    /\ \E n \in 1..shares[from] :
         shares' = [[shares EXCEPT ![from] = @ - n] EXCEPT ![to] = @ + n]
    /\ UNCHANGED <<assets, supply, wallet>>

Donate(h) ==
    \E a \in 1..wallet[h] :
        /\ wallet' = [wallet EXCEPT ![h] = @ - a]
        /\ assets' = assets + a
        /\ UNCHANGED <<supply, shares>>

(* A fee takes at most MaxPerformanceFeeBps of all there is.               *)
Fee(h) ==
    /\ supply' > supply
    /\ ToAssets(supply' - supply, supply', assets) * MaxBps <= assets * MaxPerformanceFeeBps
    /\ shares' = [shares EXCEPT ![h] = @ + (supply' - supply)]
    /\ UNCHANGED <<assets, wallet>>

(* Yield, loss, a report, an attestation and its expiry.                   *)
Revalue ==
    /\ assets' \in Nat
    /\ UNCHANGED <<supply, shares, wallet>>

Next ==
    \/ \E h \in Holder : Deposit(h) \/ Redeem(h) \/ Donate(h) \/ Fee(h)
    \/ \E from, to \in Holder : Transfer(from, to)
    \/ Revalue

Spec == Init /\ [][Next]_svars
=============================================================================
