----------------------------- MODULE NucleoBench -----------------------------
(***************************************************************************)
(* The bench: a NUCLEO with one of its probes on the pins of a DWM3001-CDK *)
(* that brings up its DW3110.  DWM_RESET (PD0 to J10.12) resets the CDK:   *)
(* while it is low the CDK's program does not run, and afterwards it       *)
(* starts again.                                                           *)
(***************************************************************************)
EXTENDS NucleoProbes, Dw3000Bringup

benchVars == <<probeVars, bringupVars>>

BenchInit == ProbesInit /\ BringupInit

ResetReachesCdk ==
  IF reset # "low" /\ reset' = "low" THEN Restart ELSE UNCHANGED bringupVars

Probing  == ProbeStep /\ ResetReachesCdk
Flashing == Flash /\ ResetReachesCdk

Cdk == reset # "low" /\ BringupStep /\ UNCHANGED probeVars

BenchNext == Probing \/ Flashing \/ Cdk

BenchSpec == BenchInit /\ [][BenchNext]_benchVars

\* Either board has one thread that nothing delays; nobody has to flash.
BenchFairSpec == BenchSpec /\ WF_benchVars(Probing) /\ WF_benchVars(Cdk)

-----------------------------------------------------------------------------
\* Once RESET is left alone, or the register probe is running, the CDK's
\* bring-up ends, whatever the chip does and however often it was cut off
\* before (wait_for_idle_rc's limit, dwm_reset_low_then_release).
BringupEnds ==
  <>[](reset # "low") \/ RegisterRuns => <>[](pc \in {"ready", "parked"})
=============================================================================
