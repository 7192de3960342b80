--------------------------- MODULE RoundingHistory ---------------------------
(***************************************************************************)
(* A history of what the pool's roundings and losses have done to each     *)
(* strategy since it last tracked nothing.  No step of the code reads it;  *)
(* the modules that count with it record it beside their own steps.        *)
(***************************************************************************)
EXTENDS BlendStrategy

CONSTANT MaxRoundings       \* bound on the roundings counted

ASSUME RoundingAssumption == MaxRoundings \in Nat

VARIABLES
    roundings,              \* supplies and withdrawals since nothing was tracked
    impaired                \* b_rate has fallen since then

roundingVars == <<roundings, impaired>>

RoundingInit ==
    /\ roundings = [s \in Strategy |-> 0]
    /\ impaired = [s \in Strategy |-> FALSE]

(* A supply mints, and a withdrawal burns, at least one b_token.           *)
Record ==
    /\ roundings' = [s \in Strategy |->
         IF stTracked'[s] = 0 THEN 0
         ELSE roundings[s] + (IF collateral'[s] # collateral[s] THEN 1 ELSE 0)]
    /\ impaired' = [s \in Strategy |->
         /\ stTracked'[s] # 0
         /\ impaired[s] \/ reserve'[s].b_rate < reserve[s].b_rate]

(* No more roundings than are counted.                                     *)
Bounded == \A s \in Strategy : roundings'[s] <= MaxRoundings \/ roundings'[s] <= roundings[s]

RoundingTypeOK ==
    /\ roundings \in [Strategy -> Nat]
    /\ impaired \in [Strategy -> BOOLEAN]
    /\ \A s \in Strategy : stTracked[s] # 0 => roundings[s] # 0

(* What the strategy says it holds is in the pool, up to one b_token for   *)
(* every time the pool rounded: without bad debt the tracked balance that  *)
(* total_assets() counts cannot drift from the position by more, whatever  *)
(* is deposited, withdrawn, drained and accrued in whatever order.         *)
TrackedIsCovered ==
    \A s \in Strategy : ~impaired[s] =>
        stTracked[s] * RateScalar <= (collateral[s] + roundings[s]) * reserve[s].b_rate
=============================================================================
