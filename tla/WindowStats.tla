----------------------------- MODULE WindowStats -----------------------------
(***************************************************************************)
(* The statistics that the gateway logs of a vibration window              *)
(* (firmware/common/thinpod_protocol/thinpod_protocol.c:                   *)
(* thinpod_window_stats and isqrt_u64), one action per turn of a loop.     *)
(*                                                                         *)
(* Integers are unbounded here.  The program's do not overflow: 32 squares *)
(* of an int16 need 35 of the accumulator's 64 bits, their sum 21 of 32.   *)
(* isqrt_u64 starts at 4^31; TopPower is that power's root.                *)
(* Name_Something is a wrong version of Name that the properties notice.   *)
(***************************************************************************)
EXTENDS Integers

CONSTANTS
  N,         \* THINPOD_VIB_SAMPLES, 32
  Samples,   \* the values of an int16 sample in mg
  Powers,    \* the powers of two that the square root goes through
  TopPower   \* the one it starts with, 2^31

ASSUME StatsAssumption ==
  /\ N \in Nat \ {0}
  /\ Powers \subseteq Nat \ {0}
  /\ \A p \in Powers : p = 1 \/ \E h \in Powers : p = 2 * h
  /\ TopPower \in Powers
  /\ Samples \subseteq Int
  /\ \A v \in Samples : -(2 * TopPower) < v /\ v < 2 * TopPower

VARIABLES
  pc,                      \* "sum", "shift", "root" or "done"
  accel,                   \* the window's samples
  i,                       \* the sample that is next
  min, max, sum, sumSq,    \* what thinpod_window_stats accumulates
  mean, rms,               \* its results
  op, res, one,            \* isqrt_u64's variables
  power, root              \* history: the root of one, and the root found so far

statsVars == <<pc, accel, i, min, max, sum, sumSq, mean, rms, op, res, one, power, root>>

StatsTypeOK ==
  /\ pc \in {"sum", "shift", "root", "done"}
  /\ accel \in [1 .. N -> Samples]
  /\ i \in 1 .. N + 1
  /\ min \in Samples /\ max \in Samples
  /\ sum \in Int /\ sumSq \in Nat
  /\ mean \in Int /\ rms \in Nat
  /\ op \in Nat /\ res \in Nat /\ one \in Nat
  /\ power \in Powers /\ root \in Nat

StatsInit ==
  /\ pc = "sum"
  /\ accel \in [1 .. N -> Samples]
  /\ i = 1
  /\ min = accel[1] /\ max = accel[1]
  /\ sum = 0 /\ sumSq = 0
  /\ mean = 0 /\ rms = 0
  /\ op = 0 /\ res = 0 /\ one = 0
  /\ power = TopPower /\ root = 0

-----------------------------------------------------------------------------
Least(a, b) == IF a < b THEN a ELSE b
Greatest(a, b) == IF a > b THEN a ELSE b

\* C's division of integers: towards zero
Quotient_Floored(a, n) == a \div n
Quotient(a, n) == IF a >= 0 THEN a \div n ELSE -((-a) \div n)

AddSample ==
  /\ pc = "sum" /\ i <= N
  /\ min' = Least(accel[i], min)
  /\ max' = Greatest(accel[i], max)
  /\ sum' = sum + accel[i]
  /\ sumSq' = sumSq + accel[i] * accel[i]
  /\ i' = i + 1
  /\ UNCHANGED <<pc, accel, mean, rms, op, res, one, power, root>>

\* The mean, and isqrt_u64 is called with the mean square.
Divide ==
  /\ pc = "sum" /\ i > N
  /\ mean' = Quotient(sum, N)
  /\ op' = sumSq \div N
  /\ res' = 0
  /\ one' = TopPower * TopPower
  /\ pc' = "shift"
  /\ UNCHANGED <<accel, i, min, max, sum, sumSq, rms, power, root>>

Halve == power' \in Powers /\ (IF power = 1 THEN power' = 1 ELSE power = 2 * power')

\* while (one > op) one >>= 2
Shift ==
  /\ pc = "shift"
  /\ \/ one > op /\ one' = one \div 4 /\ Halve /\ UNCHANGED pc
     \/ one <= op /\ pc' = "root" /\ UNCHANGED <<one, power>>
  /\ UNCHANGED <<accel, i, min, max, sum, sumSq, mean, rms, op, res, root>>

\* One turn of while (one != 0)
Root_ComparesRes ==
  /\ pc = "root" /\ one # 0
  /\ \/ op >= res /\ op' = op - (res + one) /\ res' = res \div 2 + one /\ root' = root + power
     \/ op < res /\ op' = op /\ res' = res \div 2 /\ root' = root
  /\ one' = one \div 4 /\ Halve
  /\ UNCHANGED <<pc, accel, i, min, max, sum, sumSq, mean, rms>>
Root_KeepsRemainder ==
  /\ pc = "root" /\ one # 0
  /\ \/ op >= res + one /\ res' = res \div 2 + one /\ root' = root + power
     \/ op < res + one /\ res' = res \div 2 /\ root' = root
  /\ one' = one \div 4 /\ Halve
  /\ UNCHANGED <<pc, accel, i, min, max, sum, sumSq, mean, rms, op>>
Root ==
  /\ pc = "root" /\ one # 0
  /\ \/ /\ op >= res + one
        /\ op' = op - (res + one)
        /\ res' = res \div 2 + one
        /\ root' = root + power
     \/ /\ op < res + one
        /\ res' = res \div 2
        /\ UNCHANGED <<op, root>>
  /\ one' = one \div 4 /\ Halve
  /\ UNCHANGED <<pc, accel, i, min, max, sum, sumSq, mean, rms>>

Finish ==
  /\ pc = "root" /\ one = 0
  /\ rms' = res
  /\ pc' = "done"
  /\ UNCHANGED <<accel, i, min, max, sum, sumSq, mean, op, res, one, power, root>>

StatsNext == AddSample \/ Divide \/ Shift \/ Root \/ Finish

StatsSpec == StatsInit /\ [][StatsNext]_statsVars

-----------------------------------------------------------------------------
(* Properties.                                                             *)

\* The digit-by-digit root is the integer square root of the mean square:
\* neither too small nor too large, at every boundary (isqrt_u64).
RootExact ==
  pc = "done" => rms * rms <= sumSq \div N /\ sumSq \div N < (rms + 1) * (rms + 1)

\* The four numbers of a TPGW_PKT line agree, although two are rounded: the
\* mean lies between the extremes and within the RMS on either side, and the
\* RMS does not exceed the largest magnitude (thinpod_window_stats).
StatsAgree ==
  pc = "done" =>
    /\ min <= mean /\ mean <= max
    /\ -rms <= mean /\ mean <= rms
    /\ rms <= Greatest(max, -min)
=============================================================================
