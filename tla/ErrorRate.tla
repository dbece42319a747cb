------------------------------ MODULE ErrorRate ------------------------------
(***************************************************************************)
(* The health checks on success rates (testRevodErrorRate and              *)
(* testCharonErrorRate in server/health.go, which differ only in the       *)
(* statistics they read).                                                  *)
(***************************************************************************)
EXTENDS Analytics

CONSTANT HealthCheckPercent   \* --health-check-healthy-request-amount

ASSUME ErrorRateAssumption == HealthCheckPercent \in 0..100

\* The check fails. The percentage is divided by 100 as an int.
testErrorRate == RateBelow(HealthCheckPercent \div 100, 1)

\* The share of successful requests of a full window is below the minimum.
BelowMinimum == Counted = N /\ success * 100 < HealthCheckPercent * N

\* The check fails whenever the last N requests miss the minimum rate.
MinimumEnforced == BelowMinimum => testErrorRate
=============================================================================
