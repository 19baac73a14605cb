--------------------------- MODULE NucleoBenchProofs ---------------------------
(***************************************************************************)
(* Proofs about bring-up and about the bench.  Dw3000Bringup: its types,   *)
(* its genuine identity, its live chip and its summary, with the board     *)
(* reset at any stage.  NucleoProbes within NucleoBench: the types,        *)
(* transfers and verdicts of the probes; and that the bench implements the *)
(* CDK's bring-up, so that the bring-up's properties hold on it.           *)
(***************************************************************************)
EXTENDS NucleoBench, TLAPS

-----------------------------------------------------------------------------
(* Bring-up.                                                               *)

LEMMA Names ==
  StageNames = { "platform", "reset", "irq_before", "probe", "device_id",
                 "idle_rc", "initialise", "post_initialise_device_id",
                 "fast_spi", "irq_after" }
  BY DEF StageNames, Stages

\* A failed stage leaves a result behind, and the program parked.
LEMMA FailType ==
  ASSUME NEW r \in Results, NEW stage \in StageNames, Fail(r, stage)
  PROVE  result' \in Results /\ pc' = "parked"
  BY DEF Fail, Results, Codes

\* A read takes one of the identities and may use up a corruption.
LEMMA ReadType ==
  ASSUME BringupTypeOK, NEW id, Read(id)
  PROVE  id \in Identities /\ corrupted' \in 0 .. MaxCorrupted
  BY BringupAssumption DEF BringupTypeOK, Read

\* The outcomes, filled in.
LEMMA CodeType ==
  ASSUME result \in Results, NEW c \in {"ok", "failed"}
  PROVE  /\ [result EXCEPT !.platform = c] \in Results
         /\ [result EXCEPT !.reset = c] \in Results
         /\ [result EXCEPT !.irqBefore = c] \in Results
         /\ [result EXCEPT !.probe = c] \in Results
         /\ [result EXCEPT !.init = c] \in Results
         /\ [result EXCEPT !.irqAfter = c] \in Results
         /\ [result EXCEPT !.irqAfter = c, !.final = c] \in Results
  BY DEF Results, Codes

\* The identity fields, filled in.
LEMMA FilledType ==
  ASSUME NEW id \in Identities, result \in Results
  PROVE  /\ [result EXCEPT !.slow = id] \in Results
         /\ [result EXCEPT !.after = id] \in Results
         /\ FastRead(id) \in Results
         /\ [result EXCEPT !.idle = TRUE] \in Results
  BY DEF Results, FastRead, Stable

\* Nor has a program that starts anew any outcome of the wrong kind.
LEMMA NoResultType == NoResult \in Results
  <1>1. Zero \in Identities /\ "unset" \in Codes
    BY BringupAssumption DEF Codes
  <1> QED
    BY <1>1 DEF NoResult, Results

LEMMA TypeStep ==
  ASSUME BringupTypeOK, [BringupNext]_bringupVars
  PROVE  BringupTypeOK'
  <1> USE Names, BringupAssumption DEF BringupTypeOK
  <1>1. CASE PreparePlatform
    <2>1. result' \in Results
      BY <1>1, CodeType, FailType DEF PreparePlatform, Advance
    <2>2. pc' \in StageNames \cup {"release", "parked"}
      BY <1>1, CodeType, FailType DEF PreparePlatform, Advance
    <2> QED
      BY <1>1, <2>1, <2>2 DEF PreparePlatform
  <1>2. CASE AssertReset
    <2>1. result' \in Results
      BY <1>2, CodeType, FailType DEF AssertReset, Advance
    <2>2. pc' \in StageNames \cup {"release", "parked"}
      BY <1>2, CodeType, FailType DEF AssertReset, Advance
    <2> QED
      BY <1>2, <2>1, <2>2 DEF AssertReset
  <1>3. CASE ReleaseReset
    <2>1. result' \in Results
      BY <1>3, CodeType, FailType DEF ReleaseReset, Advance
    <2>2. pc' \in StageNames \cup {"release", "parked"}
      BY <1>3, CodeType, FailType DEF ReleaseReset, Advance
    <2> QED
      BY <1>3, <2>1, <2>2 DEF ReleaseReset
  <1>4. CASE ReadIrqBefore
    <2>1. result' \in Results
      BY <1>4, CodeType, FailType DEF ReadIrqBefore, Advance
    <2>2. pc' \in StageNames \cup {"release", "parked"}
      BY <1>4, CodeType, FailType DEF ReadIrqBefore, Advance
    <2> QED
      BY <1>4, <2>1, <2>2 DEF ReadIrqBefore
  <1>5. CASE Probe
    <2>1. result' \in Results
      BY <1>5, CodeType, FailType DEF Probe, Advance
    <2>2. pc' \in StageNames \cup {"release", "parked"}
      BY <1>5, CodeType, FailType DEF Probe, Advance
    <2> QED
      BY <1>5, <2>1, <2>2 DEF Probe
  <1>6. CASE ReadSlow
    <2>1. PICK id \in Identities :
            /\ Read(id)
            /\ \/ Advance([result EXCEPT !.slow = id], "idle_rc")
               \/ Fail([result EXCEPT !.slow = id], "device_id")
      BY <1>6 DEF ReadSlow
    <2>2. result' \in Results /\ pc' \in {"idle_rc", "parked"}
      BY <2>1, FilledType, FailType DEF Advance
    <2> QED
      BY <1>6, <2>1, <2>2, ReadType DEF ReadSlow
  <1>7. CASE AwaitIdle
    <2>1. result' \in Results /\ pc' \in {"initialise", "idle_rc", "parked"}
      BY <1>7, FilledType, FailType DEF AwaitIdle, Advance
    <2>2. attempts' \in 0 .. IdleAttempts
      BY <1>7 DEF AwaitIdle
    <2> QED
      BY <1>7, <2>1, <2>2 DEF AwaitIdle
  <1>8. CASE Initialise
    <2>1. result' \in Results
      BY <1>8, CodeType, FailType DEF Initialise, Advance
    <2>2. pc' \in StageNames \cup {"release", "parked"}
      BY <1>8, CodeType, FailType DEF Initialise, Advance
    <2> QED
      BY <1>8, <2>1, <2>2 DEF Initialise
  <1>9. CASE ReadAfterInitialise
    <2>1. PICK id \in Identities :
            /\ Read(id)
            /\ \/ /\ Advance([result EXCEPT !.after = id], "fast_spi")
                  /\ rate' = "fast"
               \/ /\ Fail([result EXCEPT !.after = id],
                          "post_initialise_device_id")
                  /\ UNCHANGED rate
      BY <1>9 DEF ReadAfterInitialise
    <2>2. result' \in Results /\ pc' \in {"fast_spi", "parked"}
      BY <2>1, FilledType, FailType DEF Advance
    <2> QED
      BY <1>9, <2>1, <2>2, ReadType DEF ReadAfterInitialise
  <1>10. CASE ReadFast
    <2>1. PICK id \in Identities :
            /\ Read(id)
            /\ \/ Advance(FastRead(id), "irq_after")
               \/ Fail(FastRead(id), "fast_spi")
      BY <1>10 DEF ReadFast
    <2>2. result' \in Results /\ pc' \in {"irq_after", "parked"}
      BY <2>1, FilledType, FailType DEF Advance
    <2> QED
      BY <1>10, <2>1, <2>2, ReadType DEF ReadFast
  <1>11. CASE ReadIrqAfter
    <2>1. result' \in Results
      BY <1>11, CodeType, FailType DEF ReadIrqAfter, Advance
    <2>2. pc' \in {"configure", "parked"}
      BY <1>11, CodeType, FailType DEF ReadIrqAfter, Advance
    <2> QED
      BY <1>11, <2>1, <2>2 DEF ReadIrqAfter
  <1>12. CASE Configure
    BY <1>12 DEF Configure
  <1>13. CASE UNCHANGED bringupVars
    BY <1>13 DEF bringupVars
  <1>14. CASE Restart
    <2>1. NoResult \in Results
      BY NoResultType
    <2> QED
      BY <1>14, <2>1 DEF Restart
  <1> QED
    BY <1>1, <1>2, <1>3, <1>4, <1>5, <1>6, <1>7, <1>8, <1>9, <1>10, <1>11,
       <1>12, <1>13, <1>14 DEF BringupNext, BringupStep

LEMMA TypeInit == BringupInit => BringupTypeOK
  <1> SUFFICES ASSUME BringupInit PROVE BringupTypeOK
    OBVIOUS
  <1>1. result \in Results
    BY NoResultType DEF BringupInit
  <1> QED
    BY <1>1, Names, BringupAssumption DEF BringupInit, BringupTypeOK

\* Every variable of the bring-up stays within its type (the fields of
\* thinpod_dw3000_identity_result, the attempt counter).
THEOREM BringupTypeCorrect == BringupSpec => []BringupTypeOK
  BY TypeInit, TypeStep, PTL DEF BringupSpec

-----------------------------------------------------------------------------
(* The identity: a wrong reading that goes on has used up a corruption, and *)
(* a pass takes three equal ones.                                           *)

Finished == result.final = "ok"

ReadingsPaidFor ==
  /\ Finished => pc \in {"configure", "ready", "parked"}
  /\ pc \in {"configure", "ready"} => Finished
  /\ pc \in {"idle_rc", "initialise", "post_initialise_device_id"} =>
       /\ result.slow \in Accepted
       /\ result.slow # chip => corrupted >= 1
  /\ pc = "fast_spi" =>
       /\ result.slow \in Accepted /\ result.after \in Accepted
       /\ result.slow # chip \/ result.after # chip => corrupted >= 1
       /\ result.slow # chip /\ result.after # chip => corrupted >= 2
  /\ pc = "irq_after" \/ Finished =>
       /\ result.slow \in Accepted
       /\ result.slow = result.after /\ result.after = result.fast
       /\ result.slow # chip => corrupted >= 3

LEMMA PaidInit == BringupInit => ReadingsPaidFor
  BY DEF BringupInit, NoResult, ReadingsPaidFor, Finished

LEMMA PaidStep ==
  ASSUME BringupTypeOK, ReadingsPaidFor, [BringupNext]_bringupVars
  PROVE  ReadingsPaidFor'
  <1>0. result \in Results /\ corrupted \in Nat
    BY BringupAssumption DEF BringupTypeOK
  <1> USE <1>0 DEF ReadingsPaidFor, Finished, Results, Codes
  <1>1. CASE PreparePlatform
    BY <1>1 DEF PreparePlatform, Advance, Fail
  <1>2. CASE AssertReset
    BY <1>2 DEF AssertReset, Fail
  <1>3. CASE ReleaseReset
    BY <1>3 DEF ReleaseReset, Advance, Fail
  <1>4. CASE ReadIrqBefore
    BY <1>4 DEF ReadIrqBefore, Advance, Fail
  <1>5. CASE Probe
    BY <1>5 DEF Probe, Advance, Fail
  <1>6. CASE ReadSlow
    <2>1. PICK id \in Identities :
            /\ Read(id)
            /\ \/ /\ id \in Accepted
                  /\ Advance([result EXCEPT !.slow = id], "idle_rc")
               \/ Fail([result EXCEPT !.slow = id], "device_id")
      BY <1>6 DEF ReadSlow
    <2>2. /\ id # chip => corrupted' >= 1
          /\ chip' = chip /\ ~Finished
      BY <1>6, <2>1 DEF ReadSlow, Read
    <2>3. CASE Fail([result EXCEPT !.slow = id], "device_id")
      <3>1. pc' = "parked" /\ result'.final = "failed"
        BY <2>3 DEF Fail
      <3> QED
        BY <3>1
    <2>4. CASE /\ id \in Accepted
               /\ Advance([result EXCEPT !.slow = id], "idle_rc")
      <3>1. pc' = "idle_rc" /\ result'.slow = id /\ result'.final = result.final
        BY <2>4 DEF Advance
      <3> QED
        BY <2>2, <2>4, <3>1
    <2> QED
      BY <2>1, <2>3, <2>4
  <1>7. CASE AwaitIdle
    BY <1>7 DEF AwaitIdle, Advance, Fail
  <1>8. CASE Initialise
    BY <1>8 DEF Initialise, Advance, Fail
  <1>9. CASE ReadAfterInitialise
    <2>1. PICK id \in Identities :
            /\ Read(id)
            /\ \/ /\ id \in Accepted
                  /\ Advance([result EXCEPT !.after = id], "fast_spi")
               \/ Fail([result EXCEPT !.after = id], "post_initialise_device_id")
      BY <1>9 DEF ReadAfterInitialise
    <2>2. /\ id # chip => corrupted' = corrupted + 1
          /\ id = chip => corrupted' = corrupted
          /\ chip' = chip /\ ~Finished
          /\ result.slow \in Accepted
          /\ result.slow # chip => corrupted >= 1
      BY <1>9, <2>1 DEF ReadAfterInitialise, Read
    <2>3. CASE Fail([result EXCEPT !.after = id], "post_initialise_device_id")
      <3>1. pc' = "parked" /\ result'.final = "failed"
        BY <2>3 DEF Fail
      <3> QED
        BY <3>1
    <2>4. CASE /\ id \in Accepted
               /\ Advance([result EXCEPT !.after = id], "fast_spi")
      <3>1. /\ pc' = "fast_spi" /\ result'.after = id
            /\ result'.slow = result.slow /\ result'.final = result.final
        BY <2>4 DEF Advance
      <3> QED
        BY <2>2, <2>4, <3>1
    <2> QED
      BY <2>1, <2>3, <2>4
  <1>10. CASE ReadFast
    <2>1. PICK id \in Identities :
            /\ Read(id)
            /\ \/ /\ FastRead(id).stable
                  /\ Advance(FastRead(id), "irq_after")
               \/ Fail(FastRead(id), "fast_spi")
      BY <1>10 DEF ReadFast
    <2>2. /\ id # chip => corrupted' = corrupted + 1
          /\ chip' = chip /\ ~Finished
          /\ result.slow \in Accepted
          /\ result.slow # chip /\ result.after # chip => corrupted >= 2
      BY <1>10, <2>1 DEF ReadFast, Read
    <2>3. CASE Fail(FastRead(id), "fast_spi")
      <3>1. pc' = "parked" /\ result'.final = "failed"
        BY <2>3 DEF Fail, FastRead
      <3> QED
        BY <3>1
    <2>4. CASE FastRead(id).stable /\ Advance(FastRead(id), "irq_after")
      <3>1. /\ pc' = "irq_after" /\ result'.fast = id
            /\ result'.slow = result.slow /\ result'.after = result.after
            /\ result'.final = result.final
        BY <2>4 DEF Advance, FastRead
      <3>2. result.slow = result.after /\ result.after = id
        BY <2>4 DEF FastRead, Stable
      <3> QED
        BY <2>2, <3>1, <3>2
    <2> QED
      BY <2>1, <2>3, <2>4
  <1>11. CASE ReadIrqAfter
    BY <1>11 DEF ReadIrqAfter, Advance, Fail
  <1>12. CASE Configure
    BY <1>12 DEF Configure
  <1>13. CASE UNCHANGED bringupVars
    BY <1>13 DEF bringupVars
  <1>14. CASE Restart
    BY <1>14 DEF Restart, NoResult
  <1> QED
    BY <1>1, <1>2, <1>3, <1>4, <1>5, <1>6, <1>7, <1>8, <1>9, <1>10, <1>11,
       <1>12, <1>13, <1>14 DEF BringupNext, BringupStep

\* A passed identity proof has read the chip on the board, unless three reads
\* were corrupted (thinpod_dw3000_identity_proof).
THEOREM BringupIdentityGenuine == BringupSpec => []IdentityGenuine
<1>1. BringupTypeOK /\ ReadingsPaidFor => IdentityGenuine
  <2> SUFFICES ASSUME BringupTypeOK, ReadingsPaidFor,
                      result.final = "ok", corrupted < 3
               PROVE  /\ chip \in Accepted
                      /\ result.slow = chip /\ result.after = chip
                      /\ result.fast = chip
    BY DEF IdentityGenuine
  <2>1. corrupted \in Nat
    BY BringupAssumption DEF BringupTypeOK
  <2>2. result.slow = chip
    BY <2>1 DEF ReadingsPaidFor, Finished
  <2> QED
    BY <2>2 DEF ReadingsPaidFor, Finished
<1> QED
  BY <1>1, TypeInit, TypeStep, PaidInit, PaidStep, PTL DEF BringupSpec

-----------------------------------------------------------------------------
(* The chip: as this power-on has made it, wherever a transfer is made.     *)

ResetBehind ==
  /\ TransfersMeetLiveChip
  /\ pc = "irq_before" => resetPin = "input" /\ radio = "reset"
  /\ pc = "irq_after" => resetPin = "input" /\ radio = "initialised"
  /\ pc \in {"fast_spi", "irq_after", "configure"} => rate = "fast"

LEMMA ResetStep ==
  ASSUME ResetBehind, [BringupNext]_bringupVars
  PROVE  ResetBehind'
  <1> USE DEF ResetBehind, TransfersMeetLiveChip
  <1>1. CASE PreparePlatform
    BY <1>1 DEF PreparePlatform, Advance, Fail
  <1>2. CASE AssertReset
    BY <1>2 DEF AssertReset, Fail
  <1>3. CASE ReleaseReset
    BY <1>3 DEF ReleaseReset, Advance, Fail
  <1>4. CASE ReadIrqBefore
    BY <1>4 DEF ReadIrqBefore, Advance, Fail
  <1>5. CASE Probe
    BY <1>5 DEF Probe, Advance, Fail
  <1>6. CASE ReadSlow
    BY <1>6 DEF ReadSlow, Advance, Fail
  <1>7. CASE AwaitIdle
    BY <1>7 DEF AwaitIdle, Advance, Fail
  <1>8. CASE Initialise
    BY <1>8 DEF Initialise, Advance, Fail
  <1>9. CASE ReadAfterInitialise
    BY <1>9 DEF ReadAfterInitialise, Advance, Fail
  <1>10. CASE ReadFast
    BY <1>10 DEF ReadFast, Advance, Fail
  <1>11. CASE ReadIrqAfter
    BY <1>11 DEF ReadIrqAfter, Advance, Fail
  <1>12. CASE Configure
    BY <1>12 DEF Configure
  <1>13. CASE UNCHANGED bringupVars
    BY <1>13 DEF bringupVars
  <1>14. CASE Restart
    BY <1>14 DEF Restart
  <1> QED
    BY <1>1, <1>2, <1>3, <1>4, <1>5, <1>6, <1>7, <1>8, <1>9, <1>10, <1>11,
       <1>12, <1>13, <1>14 DEF BringupNext, BringupStep

\* No transfer meets a chip in reset or as an earlier power-on left it, and a
\* radio handed over is configured and clocked fast (thinpod_dw3000_reset and
\* its callers' returns).
THEOREM BringupMeetsLiveChip == BringupSpec => []TransfersMeetLiveChip
<1>1. BringupInit => ResetBehind
  BY DEF BringupInit, ResetBehind, TransfersMeetLiveChip
<1>2. ResetBehind => TransfersMeetLiveChip
  BY DEF ResetBehind
<1> QED
  BY <1>1, <1>2, ResetStep, PTL DEF BringupSpec

-----------------------------------------------------------------------------
(* The summary: the stages before the one in progress have passed, in the   *)
(* result's own fields, and none behind it.                                 *)

PassedUpTo(r, i) ==
  /\ r.platform = "ok" <=> 1 < i
  /\ r.reset = "ok" <=> 2 < i
  /\ r.irqBefore = "ok" <=> 3 < i
  /\ r.probe = "ok" <=> 4 < i
  /\ r.slow \in Accepted <=> 5 < i
  /\ r.idle <=> 6 < i
  /\ r.init = "ok" <=> 7 < i
  /\ r.after \in Accepted <=> 8 < i
  /\ r.fast \in Accepted /\ r.stable <=> 9 < i
  /\ r.irqAfter = "ok" <=> 10 < i

LEMMA PassedMeaning ==
  ASSUME NEW r, NEW i \in 1 .. 11
  PROVE  PassedUpTo(r, i)
           <=> \A j \in 1 .. 10 : Passed(r, Stages[j]) <=> j < i
  <1>1. /\ Passed(r, Stages[1]) <=> r.platform = "ok"
        /\ Passed(r, Stages[2]) <=> r.reset = "ok"
        /\ Passed(r, Stages[3]) <=> r.irqBefore = "ok"
        /\ Passed(r, Stages[4]) <=> r.probe = "ok"
        /\ Passed(r, Stages[5]) <=> r.slow \in Accepted
    BY DEF Passed, Stages
  <1>2. /\ Passed(r, Stages[6]) <=> r.idle
        /\ Passed(r, Stages[7]) <=> r.init = "ok"
        /\ Passed(r, Stages[8]) <=> r.after \in Accepted
        /\ Passed(r, Stages[9]) <=> r.fast \in Accepted /\ r.stable
        /\ Passed(r, Stages[10]) <=> r.irqAfter = "ok"
    BY DEF Passed, Stages
  <1> QED
    BY <1>1, <1>2 DEF PassedUpTo

InProgress(stage, i) ==
  pc = stage => result.final = "unset" /\ result.stage = "none"
                /\ PassedUpTo(result, i)

FailedAt(stage, i) == result.stage = stage /\ PassedUpTo(result, i)

SummarySoFar ==
  /\ InProgress("platform", 1) /\ InProgress("reset", 2)
  /\ InProgress("release", 2) /\ InProgress("irq_before", 3)
  /\ InProgress("probe", 4) /\ InProgress("device_id", 5)
  /\ InProgress("idle_rc", 6) /\ InProgress("initialise", 7)
  /\ InProgress("post_initialise_device_id", 8)
  /\ InProgress("fast_spi", 9) /\ InProgress("irq_after", 10)
  /\ result.final = "ok" => result.stage = "none" /\ PassedUpTo(result, 11)
  /\ result.final = "failed" =>
       \/ FailedAt("platform", 1) \/ FailedAt("reset", 2)
       \/ FailedAt("irq_before", 3) \/ FailedAt("probe", 4)
       \/ FailedAt("device_id", 5) \/ FailedAt("idle_rc", 6)
       \/ FailedAt("initialise", 7)
       \/ FailedAt("post_initialise_device_id", 8)
       \/ FailedAt("fast_spi", 9) \/ FailedAt("irq_after", 10)
  /\ pc \in {"configure", "ready"} => result.final = "ok"

\* A code, filled in, is a stage passed or not.
LEMMA MarkedCode ==
  ASSUME result \in Results
  PROVE  /\ PassedUpTo(result, 1) =>
              /\ PassedUpTo([result EXCEPT !.platform = "failed"], 1)
              /\ PassedUpTo([result EXCEPT !.platform = "ok"], 2)
         /\ PassedUpTo(result, 2) =>
              /\ PassedUpTo([result EXCEPT !.reset = "failed"], 2)
              /\ PassedUpTo([result EXCEPT !.reset = "ok"], 3)
         /\ PassedUpTo(result, 3) =>
              /\ PassedUpTo([result EXCEPT !.irqBefore = "failed"], 3)
              /\ PassedUpTo([result EXCEPT !.irqBefore = "ok"], 4)
         /\ PassedUpTo(result, 4) =>
              /\ PassedUpTo([result EXCEPT !.probe = "failed"], 4)
              /\ PassedUpTo([result EXCEPT !.probe = "ok"], 5)
         /\ PassedUpTo(result, 7) =>
              /\ PassedUpTo([result EXCEPT !.init = "failed"], 7)
              /\ PassedUpTo([result EXCEPT !.init = "ok"], 8)
         /\ PassedUpTo(result, 10) =>
              /\ PassedUpTo([result EXCEPT !.irqAfter = "failed"], 10)
              /\ PassedUpTo([result EXCEPT !.irqAfter = "ok", !.final = "ok"], 11)
  BY DEF PassedUpTo, Results

\* So is an identity, and the idle flag.
LEMMA MarkedReading ==
  ASSUME result \in Results, NEW id \in Identities
  PROVE  /\ PassedUpTo(result, 5) =>
              /\ id \in Accepted => PassedUpTo([result EXCEPT !.slow = id], 6)
              /\ id \notin Accepted => PassedUpTo([result EXCEPT !.slow = id], 5)
         /\ PassedUpTo(result, 6) => PassedUpTo([result EXCEPT !.idle = TRUE], 7)
         /\ PassedUpTo(result, 8) =>
              /\ id \in Accepted => PassedUpTo([result EXCEPT !.after = id], 9)
              /\ id \notin Accepted => PassedUpTo([result EXCEPT !.after = id], 8)
         /\ PassedUpTo(result, 9) =>
              /\ id \in Accepted /\ FastRead(id).stable
                   => PassedUpTo(FastRead(id), 10)
              /\ ~(id \in Accepted /\ FastRead(id).stable)
                   => PassedUpTo(FastRead(id), 9)
  BY DEF PassedUpTo, Results, FastRead

\* record_failure keeps the summary in order ...
LEMMA FailKeeps ==
  ASSUME NEW r \in Results, NEW i \in 1 .. 10, PassedUpTo(r, i),
         Fail(r, Stages[i])
  PROVE  SummarySoFar'
  <1>1. /\ pc' = "parked" /\ result'.final = "failed"
        /\ result'.stage = Stages[i]
        /\ result' = [r EXCEPT !.final = "failed", !.stage = Stages[i]]
    BY DEF Fail, Results
  <1>2. PassedUpTo(result', i)
    BY <1>1 DEF PassedUpTo, Results
  <1>3. FailedAt(Stages[i], i)'
    BY <1>1, <1>2 DEF FailedAt
  <1>4. \/ FailedAt("platform", 1)' \/ FailedAt("reset", 2)'
        \/ FailedAt("irq_before", 3)' \/ FailedAt("probe", 4)'
        \/ FailedAt("device_id", 5)' \/ FailedAt("idle_rc", 6)'
        \/ FailedAt("initialise", 7)'
        \/ FailedAt("post_initialise_device_id", 8)'
        \/ FailedAt("fast_spi", 9)' \/ FailedAt("irq_after", 10)'
    BY <1>3 DEF Stages
  <1> QED
    BY <1>1, <1>4 DEF SummarySoFar, InProgress

\* ... and so does every stage that goes on to the next.
Places == { <<"platform", 1>>, <<"reset", 2>>, <<"release", 2>>, <<"irq_before", 3>>,
            <<"probe", 4>>, <<"device_id", 5>>, <<"idle_rc", 6>>, <<"initialise", 7>>,
            <<"post_initialise_device_id", 8>>, <<"fast_spi", 9>>, <<"irq_after", 10>> }

LEMMA AdvanceKeeps ==
  ASSUME NEW stage, NEW i, <<stage, i>> \in Places,
         pc' = stage, PassedUpTo(result', i),
         result'.final = "unset", result'.stage = "none"
  PROVE  SummarySoFar'
  BY DEF SummarySoFar, InProgress, Places

LEMMA SummaryStep ==
  ASSUME BringupTypeOK, SummarySoFar, [BringupNext]_bringupVars
  PROVE  SummarySoFar'
  <1>0. result \in Results
    BY DEF BringupTypeOK
  <1>a. /\ Stages[1] = "platform" /\ Stages[2] = "reset" /\ Stages[3] = "irq_before"
        /\ Stages[4] = "probe" /\ Stages[5] = "device_id" /\ Stages[6] = "idle_rc"
        /\ Stages[7] = "initialise" /\ Stages[8] = "post_initialise_device_id"
        /\ Stages[9] = "fast_spi" /\ Stages[10] = "irq_after"
    BY DEF Stages
  <1>1. CASE PreparePlatform
    <2>1. /\ result.final = "unset" /\ result.stage = "none" /\ PassedUpTo(result, 1)
      BY <1>1 DEF PreparePlatform, SummarySoFar, InProgress
    <2>2. CASE Fail([result EXCEPT !.platform = "failed"], Stages[1])
      BY <1>0, <2>1, <2>2, CodeType, MarkedCode, FailKeeps
    <2>3. CASE Advance([result EXCEPT !.platform = "ok"], "reset")
      <3>1. /\ result'.final = "unset" /\ result'.stage = "none" /\ pc' = "reset"
        BY <1>0, <2>1, <2>3 DEF Advance, Results
      <3>2. PassedUpTo(result', 2)
        BY <1>0, <2>1, <2>3, MarkedCode DEF Advance
      <3> QED
        BY <3>1, <3>2, AdvanceKeeps DEF Places
    <2> QED
      BY <1>1, <1>a, <2>2, <2>3 DEF PreparePlatform
  <1>2. CASE AssertReset
    <2>1. /\ result.final = "unset" /\ result.stage = "none" /\ PassedUpTo(result, 2)
      BY <1>2 DEF AssertReset, SummarySoFar, InProgress
    <2>2. CASE Fail([result EXCEPT !.reset = "failed"], Stages[2])
      BY <1>0, <2>1, <2>2, CodeType, MarkedCode, FailKeeps
    <2>3. CASE pc' = "release" /\ UNCHANGED result
      BY <2>1, <2>3, AdvanceKeeps DEF Places
    <2> QED
      BY <1>2, <1>a, <2>2, <2>3 DEF AssertReset
  <1>3. CASE ReleaseReset
    <2>1. /\ result.final = "unset" /\ result.stage = "none" /\ PassedUpTo(result, 2)
      BY <1>3 DEF ReleaseReset, SummarySoFar, InProgress
    <2>2. CASE Fail([result EXCEPT !.reset = "failed"], Stages[2])
      BY <1>0, <2>1, <2>2, CodeType, MarkedCode, FailKeeps
    <2>3. CASE Advance([result EXCEPT !.reset = "ok"], "irq_before")
      <3>1. /\ result'.final = "unset" /\ result'.stage = "none" /\ pc' = "irq_before"
        BY <1>0, <2>1, <2>3 DEF Advance, Results
      <3>2. PassedUpTo(result', 3)
        BY <1>0, <2>1, <2>3, MarkedCode DEF Advance
      <3> QED
        BY <3>1, <3>2, AdvanceKeeps DEF Places
    <2> QED
      BY <1>3, <1>a, <2>2, <2>3 DEF ReleaseReset
  <1>4. CASE ReadIrqBefore
    <2>1. /\ result.final = "unset" /\ result.stage = "none" /\ PassedUpTo(result, 3)
      BY <1>4 DEF ReadIrqBefore, SummarySoFar, InProgress
    <2>2. CASE Fail([result EXCEPT !.irqBefore = "failed"], Stages[3])
      BY <1>0, <2>1, <2>2, CodeType, MarkedCode, FailKeeps
    <2>3. CASE Advance([result EXCEPT !.irqBefore = "ok"], "probe")
      <3>1. /\ result'.final = "unset" /\ result'.stage = "none" /\ pc' = "probe"
        BY <1>0, <2>1, <2>3 DEF Advance, Results
      <3>2. PassedUpTo(result', 4)
        BY <1>0, <2>1, <2>3, MarkedCode DEF Advance
      <3> QED
        BY <3>1, <3>2, AdvanceKeeps DEF Places
    <2> QED
      BY <1>4, <1>a, <2>2, <2>3 DEF ReadIrqBefore
  <1>5. CASE Probe
    <2>1. /\ result.final = "unset" /\ result.stage = "none" /\ PassedUpTo(result, 4)
      BY <1>5 DEF Probe, SummarySoFar, InProgress
    <2>2. CASE Fail([result EXCEPT !.probe = "failed"], Stages[4])
      BY <1>0, <2>1, <2>2, CodeType, MarkedCode, FailKeeps
    <2>3. CASE Advance([result EXCEPT !.probe = "ok"], "device_id")
      <3>1. /\ result'.final = "unset" /\ result'.stage = "none" /\ pc' = "device_id"
        BY <1>0, <2>1, <2>3 DEF Advance, Results
      <3>2. PassedUpTo(result', 5)
        BY <1>0, <2>1, <2>3, MarkedCode DEF Advance
      <3> QED
        BY <3>1, <3>2, AdvanceKeeps DEF Places
    <2> QED
      BY <1>5, <1>a, <2>2, <2>3 DEF Probe
  <1>6. CASE ReadSlow
    <2>1. /\ result.final = "unset" /\ result.stage = "none" /\ PassedUpTo(result, 5)
      BY <1>6 DEF ReadSlow, SummarySoFar, InProgress
    <2>2. PICK id \in Identities :
            \/ id \in Accepted /\ Advance([result EXCEPT !.slow = id], "idle_rc")
            \/ ~(id \in Accepted) /\ Fail([result EXCEPT !.slow = id], Stages[5])
      BY <1>6, <1>a DEF ReadSlow
    <2>3. [result EXCEPT !.slow = id] \in Results
      BY <1>0, FilledType
    <2>4. CASE ~(id \in Accepted) /\ Fail([result EXCEPT !.slow = id], Stages[5])
      <3>1. PassedUpTo([result EXCEPT !.slow = id], 5)
        BY <1>0, <2>1, <2>4, MarkedReading
      <3>2. 5 \in 1 .. 10
        OBVIOUS
      <3> QED
        BY <2>3, <2>4, <3>1, <3>2, FailKeeps
    <2>5. CASE id \in Accepted /\ Advance([result EXCEPT !.slow = id], "idle_rc")
      <3>1. /\ result'.final = "unset" /\ result'.stage = "none" /\ pc' = "idle_rc"
        BY <1>0, <2>1, <2>5 DEF Advance, Results, FastRead
      <3>2. PassedUpTo(result', 6)
        BY <1>0, <2>1, <2>5, MarkedReading DEF Advance
      <3> QED
        BY <3>1, <3>2, AdvanceKeeps DEF Places
    <2> QED
      BY <2>2, <2>4, <2>5
  <1>7. CASE AwaitIdle
    <2>1. /\ result.final = "unset" /\ result.stage = "none" /\ PassedUpTo(result, 6)
          /\ pc = "idle_rc"
      BY <1>7 DEF AwaitIdle, SummarySoFar, InProgress
    <2>2. CASE Fail(result, Stages[6])
      BY <1>0, <2>1, <2>2, FailKeeps
    <2>3. CASE UNCHANGED <<pc, result>>
      BY <2>1, <2>3, AdvanceKeeps DEF Places
    <2>4. CASE Advance([result EXCEPT !.idle = TRUE], "initialise")
      <3>1. /\ result'.final = "unset" /\ result'.stage = "none" /\ pc' = "initialise"
        BY <1>0, <2>1, <2>4 DEF Advance, Results
      <3>2. PassedUpTo(result', 7)
        BY <1>0, <2>1, <2>4, MarkedReading, BringupAssumption DEF Advance
      <3> QED
        BY <3>1, <3>2, AdvanceKeeps DEF Places
    <2> QED
      BY <1>7, <1>a, <2>2, <2>3, <2>4 DEF AwaitIdle
  <1>8. CASE Initialise
    <2>1. /\ result.final = "unset" /\ result.stage = "none" /\ PassedUpTo(result, 7)
      BY <1>8 DEF Initialise, SummarySoFar, InProgress
    <2>2. CASE Fail([result EXCEPT !.init = "failed"], Stages[7])
      BY <1>0, <2>1, <2>2, CodeType, MarkedCode, FailKeeps
    <2>3. CASE Advance([result EXCEPT !.init = "ok"], "post_initialise_device_id")
      <3>1. /\ result'.final = "unset" /\ result'.stage = "none" /\ pc' = "post_initialise_device_id"
        BY <1>0, <2>1, <2>3 DEF Advance, Results
      <3>2. PassedUpTo(result', 8)
        BY <1>0, <2>1, <2>3, MarkedCode DEF Advance
      <3> QED
        BY <3>1, <3>2, AdvanceKeeps DEF Places
    <2> QED
      BY <1>8, <1>a, <2>2, <2>3 DEF Initialise
  <1>9. CASE ReadAfterInitialise
    <2>1. /\ result.final = "unset" /\ result.stage = "none" /\ PassedUpTo(result, 8)
      BY <1>9 DEF ReadAfterInitialise, SummarySoFar, InProgress
    <2>2. PICK id \in Identities :
            \/ id \in Accepted /\ Advance([result EXCEPT !.after = id], "fast_spi")
            \/ ~(id \in Accepted) /\ Fail([result EXCEPT !.after = id], Stages[8])
      BY <1>9, <1>a DEF ReadAfterInitialise
    <2>3. [result EXCEPT !.after = id] \in Results
      BY <1>0, FilledType
    <2>4. CASE ~(id \in Accepted) /\ Fail([result EXCEPT !.after = id], Stages[8])
      <3>1. PassedUpTo([result EXCEPT !.after = id], 8)
        BY <1>0, <2>1, <2>4, MarkedReading
      <3>2. 8 \in 1 .. 10
        OBVIOUS
      <3> QED
        BY <2>3, <2>4, <3>1, <3>2, FailKeeps
    <2>5. CASE id \in Accepted /\ Advance([result EXCEPT !.after = id], "fast_spi")
      <3>1. /\ result'.final = "unset" /\ result'.stage = "none" /\ pc' = "fast_spi"
        BY <1>0, <2>1, <2>5 DEF Advance, Results, FastRead
      <3>2. PassedUpTo(result', 9)
        BY <1>0, <2>1, <2>5, MarkedReading DEF Advance
      <3> QED
        BY <3>1, <3>2, AdvanceKeeps DEF Places
    <2> QED
      BY <2>2, <2>4, <2>5
  <1>10. CASE ReadFast
    <2>1. /\ result.final = "unset" /\ result.stage = "none" /\ PassedUpTo(result, 9)
      BY <1>10 DEF ReadFast, SummarySoFar, InProgress
    <2>2. PICK id \in Identities :
            \/ (id \in Accepted /\ FastRead(id).stable) /\ Advance(FastRead(id), "irq_after")
            \/ ~(id \in Accepted /\ FastRead(id).stable) /\ Fail(FastRead(id), Stages[9])
      BY <1>10, <1>a DEF ReadFast
    <2>3. FastRead(id) \in Results
      BY <1>0, FilledType
    <2>4. CASE ~(id \in Accepted /\ FastRead(id).stable) /\ Fail(FastRead(id), Stages[9])
      <3>1. PassedUpTo(FastRead(id), 9)
        BY <1>0, <2>1, <2>4, MarkedReading
      <3>2. 9 \in 1 .. 10
        OBVIOUS
      <3> QED
        BY <2>3, <2>4, <3>1, <3>2, FailKeeps
    <2>5. CASE (id \in Accepted /\ FastRead(id).stable) /\ Advance(FastRead(id), "irq_after")
      <3>1. /\ result'.final = "unset" /\ result'.stage = "none" /\ pc' = "irq_after"
        BY <1>0, <2>1, <2>5 DEF Advance, Results, FastRead
      <3>2. PassedUpTo(result', 10)
        BY <1>0, <2>1, <2>5, MarkedReading DEF Advance
      <3> QED
        BY <3>1, <3>2, AdvanceKeeps DEF Places
    <2> QED
      BY <2>2, <2>4, <2>5
  <1>11. CASE ReadIrqAfter
    <2>1. /\ result.final = "unset" /\ result.stage = "none" /\ PassedUpTo(result, 10)
      BY <1>11 DEF ReadIrqAfter, SummarySoFar, InProgress
    <2>2. CASE Fail([result EXCEPT !.irqAfter = "failed"], Stages[10])
      BY <1>0, <2>1, <2>2, CodeType, MarkedCode, FailKeeps
    <2>3. CASE Advance([result EXCEPT !.irqAfter = "ok", !.final = "ok"], "configure")
      <3>1. /\ result'.final = "ok" /\ result'.stage = "none" /\ pc' = "configure"
        BY <1>0, <2>1, <2>3 DEF Advance, Results
      <3>2. PassedUpTo(result', 11)
        BY <1>0, <2>1, <2>3, MarkedCode DEF Advance
      <3> QED
        BY <3>1, <3>2 DEF SummarySoFar, InProgress
    <2> QED
      BY <1>11, <1>a, <2>2, <2>3 DEF ReadIrqAfter
  <1>12. CASE Configure
    <2>1. pc = "configure" /\ pc' \in {"ready", "parked"} /\ result' = result
      BY <1>12 DEF Configure
    <2> QED
      BY <2>1 DEF SummarySoFar, InProgress, FailedAt
  <1>13. CASE UNCHANGED bringupVars
    BY <1>13 DEF bringupVars, SummarySoFar, InProgress, FailedAt
  <1>14. CASE Restart
    <2>1. PassedUpTo(NoResult, 1)
      BY BringupAssumption DEF PassedUpTo, NoResult
    <2>2. /\ result' = NoResult /\ pc' = "platform"
          /\ NoResult.final = "unset" /\ NoResult.stage = "none"
      BY <1>14 DEF Restart, NoResult
    <2> QED
      BY <2>1, <2>2, AdvanceKeeps DEF Places
  <1> QED
    BY <1>1, <1>2, <1>3, <1>4, <1>5, <1>6, <1>7, <1>8, <1>9, <1>10, <1>11,
       <1>12, <1>13, <1>14 DEF BringupNext, BringupStep

\* The summary that is printed names the first stage that did not pass, and a
\* PASS shows all ten (record_failure, print_summary).
THEOREM BringupSummaryExplains == BringupSpec => []SummaryExplains
<1>1. BringupInit => SummarySoFar
  BY BringupAssumption
  DEF BringupInit, NoResult, SummarySoFar, InProgress, FailedAt, PassedUpTo
<1>2. SummarySoFar => SummaryExplains
  <2> SUFFICES ASSUME SummarySoFar PROVE SummaryExplains
    OBVIOUS
  <2>1. result.final = "ok" =>
          result.stage = "none" /\ \A i \in 1 .. 10 : Passed(result, Stages[i])
    BY PassedMeaning DEF SummarySoFar
  <2>2. ASSUME result.final = "failed"
        PROVE  \E i \in 1 .. 10 : FailedAt(Stages[i], i)
    BY <2>2 DEF SummarySoFar, Stages
  <2>3. ASSUME NEW i \in 1 .. 10, FailedAt(Stages[i], i)
        PROVE  /\ result.stage = Stages[i]
               /\ \A j \in 1 .. 10 : Passed(result, Stages[j]) <=> j < i
    BY <2>3, PassedMeaning DEF FailedAt
  <2> QED
    BY <2>1, <2>2, <2>3 DEF SummaryExplains
<1> QED
  BY <1>1, <1>2, TypeInit, TypeStep, SummaryStep, PTL DEF BringupSpec

-----------------------------------------------------------------------------
(* The bench: what a step of it does to the probe.                         *)

LEMMA BenchMoves ==
  ASSUME [BenchNext]_benchVars
  PROVE  \/ ProbeStep
         \/ \E p \in Programs : Reset(p)
         \/ UNCHANGED probeVars
  BY DEF BenchNext, Probing, Flashing, Flash, Cdk, benchVars

-----------------------------------------------------------------------------
(* The bench's types.                                                      *)

LEMMA ProbesTypeStep ==
  ASSUME ProbesTypeOK, [BenchNext]_benchVars
  PROVE  ProbesTypeOK'
  <1> USE DEF ProbesTypeOK, Programs, Levels, Variants, Goto, wireVars
  <1>1. CASE CheckDevices
    BY <1>1 DEF CheckDevices
  <1>2. CASE ConfigurePins
    BY <1>2 DEF ConfigurePins, Configured
  <1>3. CASE PulseLow
    BY <1>3 DEF PulseLow
  <1>4. CASE ReleasePulse
    BY <1>4 DEF ReleasePulse
  <1>5. CASE Wake
    BY <1>5 DEF Wake
  <1>6. CASE Select
    BY <1>6 DEF Select
  <1>7. CASE Transceive
    <2>1. Lengths[variant] \in 0 .. MaxLen
      BY DEF Lengths, MaxLen
    <2>2. PICK n \in 0 .. MaxLen : rx' = Received(answer', n)
      BY <1>7, <2>1 DEF Transceive, MaxLen
    <2>3. /\ answer' \in Answers /\ ret' \in {"ok", "error"}
          /\ at' = "deselect" /\ UNCHANGED <<program, reset, cs, variant, verdict>>
      BY <1>7 DEF Transceive
    <2>4. rx' \in { Received(a, k) : a \in Answers, k \in 0 .. MaxLen }
      BY <2>2, <2>3
    <2> QED
      BY <2>3, <2>4
  <1>8. CASE Deselect
    BY <1>8 DEF Deselect
  <1>9. CASE Judge
    BY <1>9 DEF Judge, ProbeResult, NextVariant
  <1>10. CASE Toggle
    BY <1>10 DEF Toggle
  <1>11. ASSUME NEW p \in Programs, Reset(p)
         PROVE  ProbesTypeOK'
    BY <1>11 DEF Reset
  <1>12. CASE UNCHANGED probeVars
    BY <1>12 DEF probeVars
  <1>13. CASE DummyPulse
    BY <1>13 DEF DummyPulse
  <1>14. CASE DummyTurn
    BY <1>14 DEF DummyTurn
  <1> QED
    BY <1>1, <1>2, <1>3, <1>4, <1>5, <1>6, <1>7, <1>8, <1>9, <1>10, <1>11,
       <1>12, <1>13, <1>14, BenchMoves DEF ProbeStep

LEMMA ProbesTypeInit == BenchInit => ProbesTypeOK
  BY DEF BenchInit, ProbesInit, ProbesTypeOK, Levels, Variants

\* Every variable of the probes stays within its type (the variant's index, the
\* receive buffer, probe_result).
THEOREM ProbesTypeCorrect == BenchSpec => []ProbesTypeOK
  BY ProbesTypeInit, ProbesTypeStep, PTL DEF BenchSpec

-----------------------------------------------------------------------------
(* The pins: each statement finds them as the one before left them.        *)

PinsBehind ==
  /\ TransfersFramed
  /\ at \in {"pulse", "release"} => cs = "high" /\ program \in {"dummy", "register"}
  /\ at \in {"wake", "woken"} => program = "register"

LEMMA PinsStep ==
  ASSUME ProbesTypeOK, PinsBehind, [BenchNext]_benchVars
  PROVE  PinsBehind'
  <1> USE DEF PinsBehind, TransfersFramed, Goto, wireVars
  <1>1. CASE CheckDevices
    BY <1>1 DEF CheckDevices
  <1>2. CASE ConfigurePins
    BY <1>2 DEF ConfigurePins, Configured, ProbesTypeOK, Programs
  <1>3. CASE PulseLow
    BY <1>3 DEF PulseLow
  <1>4. CASE ReleasePulse
    BY <1>4 DEF ReleasePulse
  <1>5. CASE Wake
    BY <1>5 DEF Wake
  <1>6. CASE Select
    BY <1>6 DEF Select
  <1>7. CASE Transceive
    BY <1>7 DEF Transceive
  <1>8. CASE Deselect
    BY <1>8 DEF Deselect
  <1>9. CASE Judge
    BY <1>9 DEF Judge
  <1>10. CASE Toggle
    BY <1>10 DEF Toggle
  <1>11. ASSUME NEW p \in Programs, Reset(p)
         PROVE  PinsBehind'
    BY <1>11 DEF Reset
  <1>12. CASE UNCHANGED probeVars
    BY <1>12 DEF probeVars
  <1>13. CASE DummyPulse
    BY <1>13 DEF DummyPulse
  <1>14. CASE DummyTurn
    BY <1>14 DEF DummyTurn
  <1> QED
    BY <1>1, <1>2, <1>3, <1>4, <1>5, <1>6, <1>7, <1>8, <1>9, <1>10, <1>11,
       <1>12, <1>13, <1>14, BenchMoves DEF ProbeStep

\* A transfer is framed by CS and meets no device in reset, after successes and
\* failures alike (dw3110_probe_variant, dwm_reset_low_then_release).
THEOREM BenchTransfersFramed == BenchSpec => []TransfersFramed
<1>1. BenchInit => PinsBehind
  BY DEF BenchInit, ProbesInit, PinsBehind, TransfersFramed
<1>2. PinsBehind => TransfersFramed
  BY DEF PinsBehind
<1> QED
  BY <1>1, <1>2, ProbesTypeInit, ProbesTypeStep, PinsStep, PTL DEF BenchSpec

-----------------------------------------------------------------------------
(* The verdict: what the scan finds in a whole transfer.                   *)

HoldsIdentity(a, len) == a.order # "none" /\ a.lead + 4 <= len

LEMMA ScanExact ==
  ASSUME NEW a \in Answers, NEW len \in {5, 6, 7}
  PROVE  (\E i \in Offsets(len) : MatchAt(Received(a, len), i))
           <=> HoldsIdentity(a, len)
  <1>1. /\ a.order \in {"le", "be", "none"} /\ a.lead \in 0 .. 7
        /\ a = [order |-> a.order, lead |-> a.lead, filler |-> a.filler]
    BY ProbesAssumption DEF MaxLen
  <1>2. \A j \in 1 .. len :
          Received(a, len)[j]
            = IF a.order # "none" /\ j - a.lead \in 1 .. 4
              THEN Identity[a.order][j - a.lead] ELSE a.filler
    BY DEF Received, Bytes, MaxLen
  <1>3. ASSUME HoldsIdentity(a, len)
        PROVE  \E i \in Offsets(len) : MatchAt(Received(a, len), i)
    <2>1. a.lead \in Offsets(len) /\ a.order \in {"le", "be"}
      BY <1>1, <1>3 DEF HoldsIdentity, Offsets
    <2>2. \A k \in 1 .. 4 : Received(a, len)[a.lead + k] = Identity[a.order][k]
      <3> TAKE k \in 1 .. 4
      <3>1. a.lead + k \in 1 .. len /\ (a.lead + k) - a.lead = k
        BY <1>1, <1>3 DEF HoldsIdentity
      <3> QED
        BY <1>2, <2>1, <3>1
    <2> QED
      BY <2>1, <2>2 DEF MatchAt
  <1>4. ASSUME NEW i \in Offsets(len), MatchAt(Received(a, len), i)
        PROVE  HoldsIdentity(a, len)
    <2>1. PICK order \in {"le", "be"} :
            \A k \in 1 .. 4 : Received(a, len)[i + k] = Identity[order][k]
      BY <1>4 DEF MatchAt
    <2>2. i \in 0 .. 3 /\ i + 4 <= len
      BY DEF Offsets
    <2>3. /\ Received(a, len)[i + 1] = Identity[order][1]
          /\ Received(a, len)[i + 2] = Identity[order][2]
          /\ Received(a, len)[i + 3] = Identity[order][3]
          /\ Received(a, len)[i + 4] = Identity[order][4]
      BY <2>1
    <2> DEFINE byte(j) == IF a.order # "none" /\ j - a.lead \in 1 .. 4
                          THEN Identity[a.order][j - a.lead] ELSE a.filler
    <2>4. /\ byte(i + 1) = Identity[order][1] /\ byte(i + 2) = Identity[order][2]
          /\ byte(i + 3) = Identity[order][3] /\ byte(i + 4) = Identity[order][4]
      BY <1>2, <2>2, <2>3
    <2>5. a.order # "none"
      BY <2>4 DEF Identity
    <2>6. i = a.lead
      BY <1>1, <2>2, <2>4, <2>5 DEF Identity
    <2> QED
      BY <2>2, <2>5, <2>6 DEF HoldsIdentity
  <1> QED
    BY <1>3, <1>4

\* What the last transfer left is judged before the next one clears it.
VerdictSoFar ==
  /\ VerdictGenuine
  /\ program # "register"
       \/ at \notin {"select", "transfer", "deselect", "judge"} => verdict = "none"
  /\ at \in {"deselect", "judge"} =>
       /\ answer \in Answers
       /\ ret = "ok" => rx = Received(answer, Lengths[variant])

LEMMA VerdictStep ==
  ASSUME ProbesTypeOK, VerdictSoFar, [BenchNext]_benchVars
  PROVE  VerdictSoFar'
  <1> USE DEF VerdictSoFar, Goto, wireVars
  <1>1. CASE CheckDevices
    BY <1>1 DEF CheckDevices, VerdictGenuine
  <1>2. CASE ConfigurePins
    BY <1>2 DEF ConfigurePins, VerdictGenuine
  <1>3. CASE PulseLow
    BY <1>3 DEF PulseLow, VerdictGenuine
  <1>4. CASE ReleasePulse
    BY <1>4 DEF ReleasePulse, VerdictGenuine
  <1>5. CASE Wake
    BY <1>5 DEF Wake, VerdictGenuine
  <1>6. CASE Select
    BY <1>6 DEF Select, VerdictGenuine
  <1>7. CASE Transceive
    BY <1>7 DEF Transceive, VerdictGenuine
  <1>8. CASE Deselect
    BY <1>8 DEF Deselect, VerdictGenuine
  <1>9. CASE Judge
    <2>1. /\ verdict' = ProbeResult /\ variant' = NextVariant(variant)
          /\ at' = "select" /\ program' = "register"
          /\ UNCHANGED <<answer, ret, rx>>
      BY <1>9 DEF Judge
    <2>2. Clocked' = Lengths[variant] /\ Lengths[variant] \in {5, 6, 7}
      BY <2>1 DEF Clocked, NextVariant, ProbesTypeOK, Variants, Lengths
    <2>3. ProbeResult = "DEV_ID_MATCH"
              <=> ret = "ok" /\ HoldsIdentity(answer, Lengths[variant])
      <3>1. answer \in Answers /\ ret \in {"ok", "error"}
        BY <1>9 DEF Judge, ProbesTypeOK
      <3>2. CASE ret = "ok"
        <4>1. rx = Received(answer, Lengths[variant])
          BY <1>9, <3>2 DEF Judge
        <4>2. (\E i \in Offsets(Lengths[variant]) : MatchAt(rx, i))
                  <=> HoldsIdentity(answer, Lengths[variant])
          BY <2>2, <3>1, <4>1, ScanExact
        <4> QED
          BY <3>2, <4>2 DEF ProbeResult
      <3>3. CASE ret = "error"
        BY <3>3 DEF ProbeResult
      <3> QED
        BY <3>1, <3>2, <3>3
    <2> QED
      BY <2>1, <2>2, <2>3 DEF VerdictGenuine, HoldsIdentity
  <1>10. CASE Toggle
    BY <1>10 DEF Toggle, VerdictGenuine
  <1>11. ASSUME NEW p \in Programs, Reset(p)
         PROVE  VerdictSoFar'
    BY <1>11 DEF Reset, VerdictGenuine
  <1>12. CASE UNCHANGED probeVars
    BY <1>12 DEF probeVars, VerdictGenuine, Clocked
  <1>13. CASE DummyPulse
    BY <1>13 DEF DummyPulse, VerdictGenuine
  <1>14. CASE DummyTurn
    BY <1>14 DEF DummyTurn, VerdictGenuine
  <1> QED
    BY <1>1, <1>2, <1>3, <1>4, <1>5, <1>6, <1>7, <1>8, <1>9, <1>10, <1>11,
       <1>12, <1>13, <1>14, BenchMoves DEF ProbeStep

\* DEV_ID_MATCH is reported for whole identities in successful transfers, and
\* for all of them (dw3110_probe_variant, print_candidate).
THEOREM BenchVerdictGenuine == BenchSpec => []VerdictGenuine
<1>1. BenchInit => VerdictSoFar
  BY DEF BenchInit, ProbesInit, VerdictSoFar, VerdictGenuine
<1>2. VerdictSoFar => VerdictGenuine
  BY DEF VerdictSoFar
<1> QED
  BY <1>1, <1>2, ProbesTypeInit, ProbesTypeStep, VerdictStep, PTL DEF BenchSpec

-----------------------------------------------------------------------------
(* The CDK behind the probes.                                              *)

\* Whatever the probes do to the CDK's RESET, the CDK behaves as Dw3000Bringup
\* says, so that what is proved of that module holds on the bench.
THEOREM BenchRunsBringup == BenchSpec => BringupSpec
<1>1. BenchInit => BringupInit
  BY DEF BenchInit
<1>2. [BenchNext]_benchVars => [BringupNext]_bringupVars
  BY DEF BenchNext, Probing, Flashing, Cdk, ResetReachesCdk, benchVars, BringupNext
<1> QED
  BY <1>1, <1>2, PTL DEF BenchSpec, BringupSpec

\* With a probe on its pins the bring-up still meets a live chip and no other
\* one, and its summary still explains itself.
THEOREM BenchKeepsBringup ==
  BenchSpec => [](IdentityGenuine /\ TransfersMeetLiveChip /\ SummaryExplains)
<1> QED
  BY BenchRunsBringup, BringupIdentityGenuine, BringupMeetsLiveChip,
     BringupSummaryExplains, PTL
=============================================================================
