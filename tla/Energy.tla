-------------------------------- MODULE Energy --------------------------------
(***************************************************************************)
(* Energy arithmetic of package resource: what a transaction may spend,    *)
(* who pays for it, and how used staked energy comes back over time.       *)
(*                                                                         *)
(* Where the code goes through float64 (the stake's share of the network   *)
(* limit and the decay factor) the exact rational value is rounded the     *)
(* same way: the share down, the decayed average half up.                  *)
(***************************************************************************)
EXTENDS Integers, FiniteSetsExt

CONSTANTS
    SunPerEnergyFloor,   \* lowest price of an energy unit
    TrxPrecision,        \* sun per TRX
    UsagePrecision,      \* scale of the usage average
    WindowSizePrecision, \* scale of an optimized per-account window
    DefaultEnergyWindow  \* recovery window in slots

ASSUME EnergyAssumption ==
    {SunPerEnergyFloor, TrxPrecision, UsagePrecision, WindowSizePrecision,
     DefaultEnergyWindow} \subseteq Nat \ {0}

EnergyPrice(dynamicFee) ==
    IF dynamicFee > SunPerEnergyFloor THEN dynamicFee ELSE SunPerEnergyFloor

(* What the account's stake and its balance can pay for, within the fee    *)
(* limit of the transaction.                                               *)
AccountEnergyLimit(frozenEnergy, balance, callValue, feeLimit, dynamicFee) ==
    LET price     == EnergyPrice(dynamicFee)
        spendable == Max({balance - callValue, 0})
    IN  Min({frozenEnergy + spendable \div price, feeLimit \div price})

(* The origin's part of a bill: its percentage, out of its stake only.     *)
OriginUsage(bill) ==
    LET percent == Max({100 - bill.consumeUserPercent, 0})
    IN  IF bill.callerIsOrigin THEN 0
        ELSE Min({(bill.energyUsed * percent) \div 100,
                  bill.originEnergy, bill.originEnergyLimit})

NoBill == [energyUsage |-> 0, originEnergyUsage |-> 0, energyFee |-> 0, energyUsageTotal |-> 0]

(* The caller pays the rest from its stake, then by burning TRX.           *)
Compute(bill) ==
    LET origin == OriginUsage(bill)
        caller == bill.energyUsed - origin
        staked == Min({bill.callerEnergy, caller})
    IN  IF bill.energyUsed <= 0
        THEN NoBill
        ELSE [energyUsage       |-> staked,
              originEnergyUsage |-> origin,
              energyFee         |-> (caller - staked) * EnergyPrice(bill.energyPrice),
              energyUsageTotal  |-> bill.energyUsed]

-----------------------------------------------------------------------------
(* Staked energy.                                                          *)

(* The stake's share of the network's energy; whole TRX before Stake 2.0.  *)
(* (After it only a weight of 0 is caught: a negative one would give a     *)
(* negative share, of which AvailableStakedEnergy makes 0 all the same.)   *)
GlobalEnergyLimit(froze, totalLimit, totalWeight, supportUnfreezeDelay) ==
    IF totalWeight <= 0 THEN 0
    ELSE IF supportUnfreezeDelay
         THEN (froze * totalLimit) \div (TrxPrecision * totalWeight)
         ELSE ((froze \div TrxPrecision) * totalLimit) \div totalWeight

EnergyWindow(storedWindow, optimized) ==
    IF storedWindow = 0 \/ (optimized /\ storedWindow < WindowSizePrecision)
    THEN DefaultEnergyWindow
    ELSE IF optimized THEN storedWindow \div WindowSizePrecision ELSE storedWindow

MutDivideFloor(numerator, denominator) == numerator \div denominator

DivideCeil(numerator, denominator) ==
    (numerator \div denominator) + (IF numerator % denominator > 0 THEN 1 ELSE 0)

(* avg * (window - delta) / window, rounded half up.                       *)
Decayed(average, delta, window) ==
    IF delta = 0 THEN average
    ELSE IF delta >= window THEN 0
    ELSE (2 * average * (window - delta) + window) \div (2 * window)

IncreaseEnergyUsage(lastUsage, add, lastSlot, nowSlot, window) ==
    LET averageLast == DivideCeil(lastUsage * UsagePrecision, window)
        averageAdd  == DivideCeil(add * UsagePrecision, window)
    IN  ((Decayed(averageLast, nowSlot - lastSlot, window) + averageAdd) * window)
            \div UsagePrecision

RecoverEnergyUsage(lastUsage, lastSlot, nowSlot, window) ==
    IncreaseEnergyUsage(lastUsage, 0, lastSlot, nowSlot, window)

AvailableStakedEnergy(limit, usage, lastSlot, nowSlot, window) ==
    Max({limit - RecoverEnergyUsage(usage, lastSlot, nowSlot, window), 0})

=============================================================================
