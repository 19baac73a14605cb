-------------------------- MODULE RfExchangeProofs --------------------------
(***************************************************************************)
(* Proofs about the RF proof's two loops (RfExchange): their types, what a *)
(* passing window of the node is evidence of, and that a disturbance costs *)
(* one suite at most; and that they hold with the logs attached.  Then     *)
(* about the logs and the checker (RfEvidence): what an accepted record of *)
(* one power-on shows, and that the documented procedure yields one.       *)
(***************************************************************************)
EXTENDS RfEvidence, FiniteSetTheorems, TLAPS

-----------------------------------------------------------------------------
(* Sequences.                                                              *)

LEMMA SeqsAre ==
  /\ SeqMod \in Nat /\ SeqMod > 1 /\ SuiteFrames \in Nat /\ SuiteFrames > 0
  /\ SuiteFrames < SeqMod
  /\ 0 \in Seqs /\ 1 \in Seqs
  BY RfAssumption DEF Seqs

LEMMA SuccType ==
  ASSUME NEW s \in Seqs
  PROVE  Succ(s) \in Seqs /\ Pred(s) \in Seqs
  BY SeqsAre DEF Seqs, Succ, Pred

-----------------------------------------------------------------------------
(* Types.                                                                  *)

LEMMA FreshType ==
  ASSUME NEW f \in Seqs, NEW l \in Seqs
  PROVE  /\ FreshTx(f) \in [ first : Seqs, attempts : 0 .. (SuiteFrames - 1), failed : BOOLEAN ]
         /\ FreshRx(f, l) \in [ first : Seqs, last : Seqs, valid : 0 .. (SuiteFrames - 1),
                                blemishes : SUBSET Flaws ]
  BY SeqsAre DEF FreshTx, FreshRx

LEMMA RfTypeInit == RfInit => RfTypeOK
  <1> SUFFICES ASSUME RfInit PROVE RfTypeOK
    OBVIOUS
  <1>1. tx = FreshTx(1) /\ rx = FreshRx(0, 0)
    BY DEF RfInit
  <1>2. tx \in [ first : Seqs, attempts : 0 .. (SuiteFrames - 1), failed : BOOLEAN ]
    BY <1>1, SeqsAre, FreshType
  <1>3. rx \in [ first : Seqs, last : Seqs, valid : 0 .. (SuiteFrames - 1),
                 blemishes : SUBSET Flaws ]
    BY <1>1, SeqsAre, FreshType
  <1>4. /\ spoiled \in 0 .. (MaxDisturbances + 1) /\ disturbances \in 0 .. MaxDisturbances
        /\ sequence \in Seqs /\ expected \in Seqs
    BY SeqsAre, RfAssumption DEF RfInit
  <1> QED
    BY <1>2, <1>3, <1>4 DEF RfInit, RfTypeOK, Events

\* CountFlaw keeps its variables within their types.
LEMMA CountFlawType ==
  ASSUME RfTypeOK, NEW flaw \in Flaws, CountFlaw(flaw)
  PROVE  /\ rx' \in [ first : Seqs, last : Seqs, valid : 0 .. (SuiteFrames - 1),
                      blemishes : SUBSET Flaws ]
         /\ heard' \in SUBSET (Nat \X Seqs)
  BY DEF RfTypeOK, CountFlaw

LEMMA DisturbanceType ==
  ASSUME RfTypeOK, NEW kind, Disturbance(kind)
  PROVE  disturbances' \in 0 .. MaxDisturbances
  BY RfAssumption DEF RfTypeOK, Disturbance

LEMMA CalmType ==
  ASSUME RfTypeOK, Calm
  PROVE  disturbances' \in 0 .. MaxDisturbances
  BY DEF RfTypeOK, Calm

\* Whether the receive timeout is the next thing stays a Boolean.
LEMMA OverdueType ==
  ASSUME overdue \in BOOLEAN, overdue' \in {overdue, Listening}
  PROVE  overdue' \in BOOLEAN
  BY DEF Listening

\* A data frame that is held has a sequence and a power-on.
LEMMA HeldType ==
  ASSUME RfTypeOK, event = "good", held.kind = "data"
  PROVE  held.seq \in Seqs /\ held.boot \in Nat
  BY DEF RfTypeOK, Frames, None

\* TakeFrame, without its LETs.
LEMMA TakesFrame ==
  ASSUME RfTypeOK, TakeFrame
  PROVE  \E flaws \in SUBSET Flaws, clean \in SUBSET (Nat \X Seqs) : \E suite, line :
           /\ flaws = SequenceFlaws(held.seq)
           /\ suite = [ first     |-> IF started THEN rx.first ELSE held.seq,
                        last      |-> held.seq,
                        valid     |-> IF flaws = {} THEN rx.valid + 1 ELSE rx.valid,
                        blemishes |-> rx.blemishes \cup flaws ]
           /\ clean = IF suite.blemishes = {}
                      THEN heard \cup {<<held.boot, held.seq>>} ELSE {}
           /\ line \subseteq {FrameLine("rx_frame")}
           /\ EndIteration(suite, clean, Succ(held.seq), line)
  <1> DEFINE flaws == SequenceFlaws(held.seq)
             suite == [ first     |-> IF started THEN rx.first ELSE held.seq,
                        last      |-> held.seq,
                        valid     |-> IF flaws = {} THEN rx.valid + 1 ELSE rx.valid,
                        blemishes |-> rx.blemishes \cup flaws ]
             clean == IF suite.blemishes = {}
                      THEN heard \cup {<<held.boot, held.seq>>} ELSE {}
             line == { l \in {FrameLine("rx_frame")} : flaws = {} }
  <1>1. flaws \in SUBSET Flaws
    BY DEF SequenceFlaws, Flaws
  <1>2. clean \in SUBSET (Nat \X Seqs)
    <2>1. held.seq \in Seqs /\ held.boot \in Nat
      BY HeldType DEF TakeFrame
    <2> QED
      BY <2>1 DEF RfTypeOK
  <1>3. line \subseteq {FrameLine("rx_frame")}
    OBVIOUS
  <1>4. EndIteration(suite, clean, Succ(held.seq), line)
    BY DEF TakeFrame
  <1> HIDE DEF flaws, suite, clean, line
  <1> QED
    BY <1>1, <1>2, <1>3, <1>4 DEF flaws, suite, clean, line

LEMMA RfTypeStep ==
  ASSUME RfTypeOK, [RfNext]_rfVars
  PROVE  RfTypeOK'
  <1> USE DEF gateway, node, radio, Quiet, Events
  <1>1. CASE BootGateway
    BY <1>1, DisturbanceType, CalmType DEF BootGateway, RfTypeOK
  <1>2. CASE StartTransmit
    <2>1. disturbances' \in 0 .. MaxDisturbances
      BY <1>2, DisturbanceType, CalmType DEF StartTransmit
    <2>2. overdue' \in BOOLEAN
      <3>1. overdue' \in {overdue, Listening}
        BY <1>2, Zenon DEF StartTransmit, Latch, Unheard
      <3> QED
        BY <3>1, OverdueType DEF RfTypeOK
    <2>3. /\ event' \in Events /\ held' \in Frames \cup {None}
          /\ event' = "good" <=> held' # None
      BY <1>2 DEF StartTransmit, Latch, Unheard, Frames, None, RfTypeOK
    <2> QED
      BY <1>2, <2>1, <2>2, <2>3 DEF StartTransmit, RfTypeOK
  <1>3. CASE FinishTransmit
    <2>1. disturbances' \in 0 .. MaxDisturbances
      BY <1>3, DisturbanceType, CalmType DEF FinishTransmit
    <2>2. Succ(sequence) \in Seqs
      BY SuccType DEF RfTypeOK
    <2>3. tx' \in [ first : Seqs, attempts : 0 .. (SuiteFrames - 1), failed : BOOLEAN ]
      <3>1. PICK failed \in BOOLEAN :
              tx' = IF tx.attempts + 1 = SuiteFrames THEN FreshTx(Succ(sequence))
                    ELSE [tx EXCEPT !.attempts = @ + 1, !.failed = failed]
        <4>1. \A p : (tx.failed \/ ~p) \in BOOLEAN
          OBVIOUS
        <4>2. PICK p \in BOOLEAN :
                tx' = IF tx.attempts + 1 = SuiteFrames THEN FreshTx(Succ(sequence))
                      ELSE [tx EXCEPT !.attempts = @ + 1, !.failed = tx.failed \/ ~p]
          BY <1>3, Zenon DEF FinishTransmit
        <4> QED
          BY <4>1, <4>2, Zenon
      <3>2. CASE tx.attempts + 1 = SuiteFrames
        BY <2>2, <3>1, <3>2, FreshType
      <3>3. CASE tx.attempts + 1 # SuiteFrames
        <4>1. tx.attempts + 1 \in 0 .. (SuiteFrames - 1)
          BY <3>3, SeqsAre DEF RfTypeOK
        <4> QED
          BY <3>1, <3>3, <4>1 DEF RfTypeOK
      <3> QED
        BY <3>2, <3>3
    <2>4. TxSummary(tx.first, sequence, boot)
            \in [ kind : {"tx"}, first : Seqs, last : Seqs, boot : Nat ]
      BY DEF TxSummary, RfTypeOK
    <2>5. printed' \subseteq {FrameLine("tx_frame"), TxSummary(tx.first, sequence, boot)}
      BY <1>3 DEF FinishTransmit
    <2> QED
      BY <1>3, <2>1, <2>2, <2>3, <2>4, <2>5 DEF FinishTransmit, RfTypeOK
  <1>4. CASE BootNode
    BY <1>4, DisturbanceType, CalmType DEF BootNode, RfTypeOK
  <1>5. CASE Arm
    BY <1>5, DisturbanceType, CalmType, CountFlawType DEF Arm, RfTypeOK, Flaws, None
  <1>6. CASE TakeFrame
    <2> PICK flaws \in SUBSET Flaws, clean \in SUBSET (Nat \X Seqs) : \E suite, line :
            /\ suite = [ first     |-> IF started THEN rx.first ELSE held.seq,
                         last      |-> held.seq,
                         valid     |-> IF flaws = {} THEN rx.valid + 1 ELSE rx.valid,
                         blemishes |-> rx.blemishes \cup flaws ]
            /\ line \subseteq {FrameLine("rx_frame")}
            /\ EndIteration(suite, clean, Succ(held.seq), line)
      BY <1>6, TakesFrame
    <2>1. PICK suite, line :
            /\ suite = [ first     |-> IF started THEN rx.first ELSE held.seq,
                         last      |-> held.seq,
                         valid     |-> IF flaws = {} THEN rx.valid + 1 ELSE rx.valid,
                         blemishes |-> rx.blemishes \cup flaws ]
            /\ line \subseteq {FrameLine("rx_frame")}
            /\ EndIteration(suite, clean, Succ(held.seq), line)
      OBVIOUS
    <2>2. Succ(held.seq) \in Seqs /\ held.seq \in Seqs
      BY <1>6, HeldType, SuccType DEF TakeFrame
    <2>3. suite \in [ first : Seqs, last : Seqs, valid : 0 .. SuiteFrames,
                      blemishes : SUBSET Flaws ]
      BY <2>1, <2>2, SeqsAre DEF RfTypeOK
    <2>4. rx' \in [ first : Seqs, last : Seqs, valid : 0 .. (SuiteFrames - 1),
                    blemishes : SUBSET Flaws ]
      <3>1. CASE suite.valid = SuiteFrames
        <4>1. rx' = FreshRx(Succ(held.seq), suite.last)
          BY <2>1, <3>1 DEF EndIteration
        <4>2. suite.last \in Seqs
          BY <2>3
        <4> QED
          BY <2>2, <4>1, <4>2, FreshType
      <3>2. CASE suite.valid # SuiteFrames
        <4>1. rx' = suite /\ suite.valid \in 0 .. (SuiteFrames - 1)
          BY <2>1, <2>3, <3>2, SeqsAre DEF EndIteration
        <4>2. suite = [first |-> suite.first, last |-> suite.last, valid |-> suite.valid,
                       blemishes |-> suite.blemishes]
          BY <2>1
        <4> QED
          BY <2>3, <4>1, <4>2
      <3> QED
        BY <3>1, <3>2
    <2>5. heard' \in SUBSET (Nat \X Seqs)
      BY <2>1 DEF EndIteration
    <2>6. spoiled' \in 0 .. (MaxDisturbances + 1)
      BY <2>1, RfAssumption DEF EndIteration, RfTypeOK
    <2>7. RxSummary(suite.first, suite.last, clean)
            \in [ kind : {"rx"}, first : Seqs, last : Seqs, heard : SUBSET (Nat \X Seqs) ]
      BY <2>3 DEF RxSummary
    <2>8. printed' \subseteq {FrameLine("rx_frame"), RxSummary(suite.first, suite.last, clean)}
      BY <2>1 DEF EndIteration
    <2> QED
      BY <1>6, <2>2, <2>4, <2>5, <2>6, <2>7, <2>8 DEF TakeFrame, RfTypeOK
  <1>7. CASE TakeAlien
    BY <1>7 DEF TakeAlien, RfTypeOK, Flaws
  <1>8. CASE TakeTimeout
    BY <1>8, CountFlawType DEF TakeTimeout, RfTypeOK, Flaws
  <1>9. CASE TakeError
    BY <1>9, CountFlawType DEF TakeError, RfTypeOK, Flaws
  <1>10. CASE RadioEvent
    BY <1>10, DisturbanceType, CalmType DEF RadioEvent, RfTypeOK, Frames, None
  <1>11. CASE HostDeadline
    BY <1>11, DisturbanceType, CountFlawType DEF HostDeadline, RfTypeOK, Flaws
  <1>12. CASE NodeStalls
    BY <1>12, DisturbanceType DEF NodeStalls, RfTypeOK
  <1>13. CASE GatewayRestart
    <2>1. disturbances' \in 0 .. MaxDisturbances
      BY <1>13, DisturbanceType DEF GatewayRestart
    <2>2. overdue' \in BOOLEAN
      BY <1>13, OverdueType DEF GatewayRestart, RfTypeOK
    <2> QED
      BY <1>13, <2>1, <2>2, FreshType, SeqsAre DEF GatewayRestart, RfTypeOK
  <1>14. CASE NodeRestart
    BY <1>14, DisturbanceType, FreshType, SeqsAre DEF NodeRestart, RfTypeOK, None
  <1>15. CASE UNCHANGED rfVars
    BY <1>15 DEF rfVars, RfTypeOK
  <1> QED
    BY <1>1, <1>2, <1>3, <1>4, <1>5, <1>6, <1>7, <1>8, <1>9, <1>10, <1>11,
       <1>12, <1>13, <1>14, <1>15 DEF RfNext, GatewayStep, NodeStep

\* The node's and the gateway's variables, the radio's and the counters stay
\* within their types (run_transmitter, run_receiver).
THEOREM RfTypeCorrect == RfSpec => []RfTypeOK
  BY RfTypeInit, RfTypeStep, PTL DEF RfSpec

-----------------------------------------------------------------------------
(* Suites: what a suite without blemish has heard.                         *)

\* frames are those of n consecutive sequences from first on.
Consecutive(frames, first, n) ==
  /\ IsFiniteSet(frames) /\ Cardinality(frames) = n
  /\ { h[2] : h \in frames } = { (first + k) % SeqMod : k \in 0 .. (n - 1) }

SuiteSoFar ==
  /\ ~started => rx.valid = 0 /\ heard = {}
  /\ started /\ rx.blemishes = {}
       => /\ Consecutive(heard, rx.first, rx.valid)
          /\ expected = (rx.first + rx.valid) % SeqMod

LEMMA Shifts ==
  ASSUME NEW f \in Seqs, NEW n \in Nat, n < SeqMod
  PROVE  /\ (f + n) % SeqMod \in Seqs
         /\ Succ((f + n) % SeqMod) = (f + (n + 1)) % SeqMod
         /\ \A k \in 0 .. (n - 1) : (f + k) % SeqMod # (f + n) % SeqMod
         /\ (f + 0) % SeqMod = f
  <1>1. \A x \in Nat : x < SeqMod => x % SeqMod = x
    BY SeqsAre
  <1>2. \A x \in Nat : x >= SeqMod /\ x < 2 * SeqMod => x % SeqMod = x - SeqMod
    BY SeqsAre
  <1> QED
    BY <1>1, <1>2, SeqsAre DEF Seqs, Succ

LEMMA NoFrames ==
  ASSUME NEW f \in Seqs
  PROVE  Consecutive({}, f, 0)
  BY FS_EmptySet DEF Consecutive

LEMMA OneMore ==
  ASSUME NEW frames \in SUBSET (Nat \X Seqs), NEW f \in Seqs, NEW n \in Nat,
         n < SeqMod, Consecutive(frames, f, n), NEW b \in Nat
  PROVE  Consecutive(frames \cup {<<b, (f + n) % SeqMod>>}, f, n + 1)
  <1> DEFINE new == <<b, (f + n) % SeqMod>>
  <1>1. new \notin frames
    <2> SUFFICES ASSUME new \in frames PROVE FALSE
      OBVIOUS
    <2>1. new[2] \in { h[2] : h \in frames }
      OBVIOUS
    <2>2. (f + n) % SeqMod \in { (f + k) % SeqMod : k \in 0 .. (n - 1) }
      BY <2>1 DEF Consecutive
    <2> QED
      BY <2>2, Shifts
  <1>2. IsFiniteSet(frames \cup {new}) /\ Cardinality(frames \cup {new}) = n + 1
    BY <1>1, FS_AddElement DEF Consecutive
  <1>3. { h[2] : h \in frames \cup {new} } = { h[2] : h \in frames } \cup {(f + n) % SeqMod}
    <2>1. new[2] = (f + n) % SeqMod
      OBVIOUS
    <2> HIDE DEF new
    <2>2. { h[2] : h \in frames \cup {new} } = { h[2] : h \in frames } \cup {new[2]}
      BY Zenon
    <2> QED
      BY <2>1, <2>2
  <1>4. { (f + k) % SeqMod : k \in 0 .. ((n + 1) - 1) }
          = { (f + k) % SeqMod : k \in 0 .. (n - 1) } \cup {(f + n) % SeqMod}
    <2>1. 0 .. ((n + 1) - 1) = (0 .. (n - 1)) \cup {n}
      OBVIOUS
    <2> QED
      BY <2>1, Zenon
  <1> QED
    BY <1>2, <1>3, <1>4 DEF Consecutive

LEMMA SuiteInit == RfInit => SuiteSoFar /\ PassedWindowHeard
  BY DEF RfInit, SuiteSoFar, PassedWindowHeard, FreshRx

\* A flaw that is counted ends the suite's chance, one that is not leaves it.
LEMMA FlawedSuite ==
  ASSUME RfTypeOK, SuiteSoFar, NEW flaw \in Flaws, CountFlaw(flaw),
         UNCHANGED <<started, expected>>
  PROVE  SuiteSoFar'
  <1>1. CASE started
    BY <1>1 DEF SuiteSoFar, CountFlaw, RfTypeOK
  <1>2. CASE ~started
    BY <1>2 DEF SuiteSoFar, CountFlaw
  <1> QED
    BY <1>1, <1>2

\* Lines of which none is a receiver's summary.
LEMMA NoRxSummary ==
  ASSUME \A l \in printed' : l.kind # "rx"
  PROVE  PassedWindowHeard'
  BY DEF PassedWindowHeard

LEMMA SuiteFrame ==
  ASSUME RfTypeOK, SuiteSoFar, TakeFrame
  PROVE  SuiteSoFar' /\ PassedWindowHeard'
  <1>1. PICK flaws \in SUBSET Flaws, clean \in SUBSET (Nat \X Seqs) : \E suite, line :
          /\ flaws = SequenceFlaws(held.seq)
          /\ suite = [ first     |-> IF started THEN rx.first ELSE held.seq,
                       last      |-> held.seq,
                       valid     |-> IF flaws = {} THEN rx.valid + 1 ELSE rx.valid,
                       blemishes |-> rx.blemishes \cup flaws ]
          /\ clean = IF suite.blemishes = {}
                     THEN heard \cup {<<held.boot, held.seq>>} ELSE {}
          /\ line \subseteq {FrameLine("rx_frame")}
          /\ EndIteration(suite, clean, Succ(held.seq), line)
    BY TakesFrame
  <1>2. PICK suite, line :
          /\ flaws = SequenceFlaws(held.seq)
          /\ suite = [ first     |-> IF started THEN rx.first ELSE held.seq,
                       last      |-> held.seq,
                       valid     |-> IF flaws = {} THEN rx.valid + 1 ELSE rx.valid,
                       blemishes |-> rx.blemishes \cup flaws ]
          /\ clean = IF suite.blemishes = {}
                     THEN heard \cup {<<held.boot, held.seq>>} ELSE {}
          /\ line \subseteq {FrameLine("rx_frame")}
          /\ EndIteration(suite, clean, Succ(held.seq), line)
    BY <1>1
  <1>3. /\ held.seq \in Seqs /\ held.boot \in Nat /\ Succ(held.seq) \in Seqs
        /\ started' = TRUE /\ expected' = Succ(held.seq)
    BY HeldType, SuccType DEF TakeFrame
  <1>4. /\ suite.first \in Seqs /\ suite.valid \in 0 .. SuiteFrames
        /\ suite.last = held.seq
    BY <1>2, <1>3, SeqsAre DEF RfTypeOK
  \* without a blemish the frame is the next of its suite
  <1>5. ASSUME suite.blemishes = {}
        PROVE  \E n \in 0 .. (SuiteFrames - 1) :
                 /\ suite.valid = n + 1
                 /\ held.seq = (suite.first + n) % SeqMod
                 /\ Consecutive(heard, suite.first, n)
    <2>1. rx.blemishes = {} /\ flaws = {} /\ suite.valid = rx.valid + 1
      BY <1>2, <1>5
    <2>2. rx.valid \in 0 .. (SuiteFrames - 1)
      BY DEF RfTypeOK
    <2>3. CASE started
      <3>1. held.seq = expected /\ suite.first = rx.first
        BY <1>2, <2>1, <2>3 DEF SequenceFlaws
      <3> QED
        BY <2>1, <2>2, <2>3, <3>1 DEF SuiteSoFar
    <2>4. CASE ~started
      <3>1. rx.valid = 0 /\ heard = {} /\ suite.first = held.seq
        BY <1>2, <2>4 DEF SuiteSoFar
      <3> QED
        BY <1>3, <2>1, <2>2, <3>1, NoFrames, Shifts, SeqsAre
    <2> QED
      BY <2>3, <2>4 DEF RfTypeOK
  <1>6. ASSUME suite.blemishes = {}
        PROVE  /\ Consecutive(clean, suite.first, suite.valid)
               /\ held.seq = (suite.first + (suite.valid - 1)) % SeqMod
               /\ Succ(held.seq) = (suite.first + suite.valid) % SeqMod
    <2>1. PICK n \in 0 .. (SuiteFrames - 1) :
                 /\ suite.valid = n + 1
                 /\ held.seq = (suite.first + n) % SeqMod
                 /\ Consecutive(heard, suite.first, n)
      BY <1>5, <1>6
    <2>2. n \in Nat /\ n < SeqMod /\ n = suite.valid - 1
      BY <2>1, SeqsAre
    <2>3. clean = heard \cup {<<held.boot, held.seq>>}
      BY <1>2, <1>6
    <2>4. Consecutive(clean, suite.first, n + 1)
      BY <1>3, <1>4, <2>1, <2>2, <2>3, OneMore DEF RfTypeOK
    <2> QED
      BY <1>4, <2>1, <2>2, <2>4, Shifts
  <1>7. SuiteSoFar'
    <2>1. CASE suite.valid = SuiteFrames
      <3>1. rx' = FreshRx(Succ(held.seq), suite.last) /\ heard' = {}
        BY <1>2, <2>1 DEF EndIteration
      <3> QED
        BY <1>3, <3>1, NoFrames, Shifts, SeqsAre DEF SuiteSoFar, FreshRx
    <2>2. CASE suite.valid # SuiteFrames
      <3>1. rx' = suite /\ heard' = clean
        BY <1>2, <2>2 DEF EndIteration
      <3> QED
        BY <1>3, <1>6, <3>1 DEF SuiteSoFar
    <2> QED
      BY <2>1, <2>2
  <1>8. PassedWindowHeard'
    <2>1. FrameLine("rx_frame").kind # "rx"
      BY DEF FrameLine
    <2>2. CASE suite.valid = SuiteFrames /\ suite.blemishes = {}
      <3>1. printed' \subseteq {FrameLine("rx_frame"), RxSummary(suite.first, suite.last, clean)}
        BY <1>2, <2>2 DEF EndIteration
      <3>2. /\ { h[2] : h \in clean } = Window(suite.first)
            /\ Cardinality(clean) = SuiteFrames
            /\ suite.last = (suite.first + SuiteFrames - 1) % SeqMod
        <4>1. suite.first + (SuiteFrames - 1) = suite.first + SuiteFrames - 1
          BY <1>4, SeqsAre DEF Seqs
        <4> QED
          BY <1>4, <1>6, <2>2, <4>1 DEF Consecutive, Window
      <3> DEFINE summary == RxSummary(suite.first, suite.last, clean)
      <3>3. /\ summary.heard = clean /\ summary.first = suite.first /\ summary.last = suite.last
        BY DEF RxSummary
      <3> HIDE DEF summary
      <3>4. \A s \in printed' : s.kind = "rx" => s = summary
        BY <2>1, <3>1 DEF summary
      <3> QED
        BY <3>2, <3>3, <3>4 DEF PassedWindowHeard
    <2>3. CASE ~(suite.valid = SuiteFrames /\ suite.blemishes = {})
      <3>1. printed' = line
        BY <1>2, <2>3 DEF EndIteration
      <3> QED
        BY <1>2, <2>1, <3>1, NoRxSummary
    <2> QED
      BY <2>2, <2>3
  <1> QED
    BY <1>7, <1>8

LEMMA SuiteStep ==
  ASSUME RfTypeOK, SuiteSoFar, PassedWindowHeard, [RfNext]_rfVars
  PROVE  SuiteSoFar' /\ PassedWindowHeard'
  <1> USE DEF gateway, node, radio, Quiet
  <1>1. CASE BootGateway
    BY <1>1, NoRxSummary DEF BootGateway, SuiteSoFar
  <1>2. CASE StartTransmit
    BY <1>2, NoRxSummary DEF StartTransmit, SuiteSoFar
  <1>3. CASE FinishTransmit
    <2>1. printed' \subseteq {FrameLine("tx_frame"), TxSummary(tx.first, sequence, boot)}
      BY <1>3 DEF FinishTransmit
    <2>2. \A l \in printed' : l.kind # "rx"
      BY <2>1 DEF FrameLine, TxSummary
    <2> QED
      BY <1>3, <2>2, NoRxSummary DEF FinishTransmit, SuiteSoFar
  <1>4. CASE BootNode
    BY <1>4, NoRxSummary DEF BootNode, SuiteSoFar
  <1>5. CASE Arm
    BY <1>5, NoRxSummary, FlawedSuite DEF Arm, SuiteSoFar, Flaws
  <1>6. CASE TakeFrame
    BY <1>6, SuiteFrame
  <1>7. CASE TakeAlien
    BY <1>7, NoRxSummary DEF TakeAlien, SuiteSoFar, RfTypeOK
  <1>8. CASE TakeTimeout
    BY <1>8, NoRxSummary, FlawedSuite DEF TakeTimeout, Flaws
  <1>9. CASE TakeError
    BY <1>9, NoRxSummary, FlawedSuite DEF TakeError, Flaws
  <1>10. CASE RadioEvent
    BY <1>10, NoRxSummary DEF RadioEvent, SuiteSoFar
  <1>11. CASE HostDeadline
    BY <1>11, NoRxSummary, FlawedSuite DEF HostDeadline, Flaws
  <1>12. CASE NodeStalls
    BY <1>12, NoRxSummary DEF NodeStalls, SuiteSoFar
  <1>13. CASE GatewayRestart
    BY <1>13, NoRxSummary DEF GatewayRestart, SuiteSoFar
  <1>14. CASE NodeRestart
    BY <1>14, NoRxSummary DEF NodeRestart, SuiteSoFar, FreshRx
  <1>15. CASE UNCHANGED rfVars
    BY <1>15 DEF rfVars, SuiteSoFar, PassedWindowHeard
  <1> QED
    BY <1>1, <1>2, <1>3, <1>4, <1>5, <1>6, <1>7, <1>8, <1>9, <1>10, <1>11,
       <1>12, <1>13, <1>14, <1>15 DEF RfNext, GatewayStep, NodeStep

\* A suite the node reports as passed was received as SuiteFrames consecutive
\* sequences, over any wrap of them and after any disturbances (run_receiver).
THEOREM PassedWindowsHeard == RfSpec => []PassedWindowHeard
<1>1. RfInit => RfTypeOK /\ SuiteSoFar /\ PassedWindowHeard
  BY RfTypeInit, SuiteInit
<1>2. RfTypeOK /\ SuiteSoFar /\ PassedWindowHeard /\ [RfNext]_rfVars
        => (RfTypeOK /\ SuiteSoFar /\ PassedWindowHeard)'
  BY RfTypeStep, SuiteStep
<1> QED
  BY <1>1, <1>2, PTL DEF RfSpec

-----------------------------------------------------------------------------
(* The ledger: what every disturbance pays for.                            *)

NodeIdle ==
  /\ npc # "listen" => event = "none"
  /\ npc \in {"boot", "parked"} => ~started /\ ~stalled /\ rx.blemishes = {}

\* The frame that goes on the air next.
NextSeq == IF tpc \in {"sent", "unsent"} THEN Succ(sequence) ELSE sequence

\* The suite in progress has a blemish or will have one before it can end.
Behind ==
  \/ rx.blemishes # {}
  \/ event \in {"timeout", "error"}
  \/ event = "none" /\ overdue /\ npc = "listen"
  \/ event = "good" /\ held.kind = "alien"
  \/ event = "good" /\ held.kind = "data" /\ started /\ held.seq # expected
  \/ event # "good" /\ started /\ NextSeq # expected
  \/ event # "good" /\ tpc = "parked"
  \/ stalled /\ npc = "arm"

\* The suite after the frame that is held or latched next may have one.
Later ==
  \/ stalled /\ npc = "listen"
  \/ event = "good" /\ tpc = "parked"
  \/ event = "good" /\ held.kind = "data" /\ NextSeq # Succ(held.seq)

Owed == (IF Behind THEN 1 ELSE 0) + (IF Later THEN 1 ELSE 0)

Paid == spoiled + Owed <= disturbances

LEMMA LedgerInit == RfInit => NodeIdle /\ Paid
  <1> SUFFICES ASSUME RfInit PROVE NodeIdle /\ Paid
    OBVIOUS
  <1>1. ~Behind /\ ~Later
    BY DEF RfInit, Behind, Later, FreshRx
  <1> QED
    BY <1>1 DEF RfInit, NodeIdle, Paid, Owed, FreshRx

LEMMA IdleStep ==
  ASSUME RfTypeOK, NodeIdle, [RfNext]_rfVars
  PROVE  NodeIdle'
  <1> USE DEF gateway, node, radio
  <1>1. CASE BootGateway
    BY <1>1 DEF BootGateway, NodeIdle
  <1>2. CASE StartTransmit
    BY <1>2 DEF StartTransmit, NodeIdle, Latch, Unheard, Listening
  <1>3. CASE FinishTransmit
    BY <1>3 DEF FinishTransmit, NodeIdle
  <1>4. CASE BootNode
    BY <1>4 DEF BootNode, NodeIdle
  <1>5. CASE Arm
    BY <1>5 DEF Arm, NodeIdle
  <1>6. CASE TakeFrame
    BY <1>6 DEF TakeFrame, NodeIdle
  <1>7. CASE TakeAlien
    BY <1>7 DEF TakeAlien, NodeIdle
  <1>8. CASE TakeTimeout
    BY <1>8 DEF TakeTimeout, NodeIdle
  <1>9. CASE TakeError
    BY <1>9 DEF TakeError, NodeIdle
  <1>10. CASE RadioEvent
    BY <1>10 DEF RadioEvent, NodeIdle, Listening
  <1>11. CASE HostDeadline
    BY <1>11 DEF HostDeadline, NodeIdle
  <1>12. CASE NodeStalls
    BY <1>12 DEF NodeStalls, NodeIdle
  <1>13. CASE GatewayRestart
    BY <1>13 DEF GatewayRestart, NodeIdle
  <1>14. CASE NodeRestart
    BY <1>14 DEF NodeRestart, NodeIdle, FreshRx
  <1>15. CASE UNCHANGED rfVars
    BY <1>15 DEF rfVars, NodeIdle
  <1> QED
    BY <1>1, <1>2, <1>3, <1>4, <1>5, <1>6, <1>7, <1>8, <1>9, <1>10, <1>11,
       <1>12, <1>13, <1>14, <1>15 DEF RfNext, GatewayStep, NodeStep

\* A calm step that owes nothing more stays paid.
LEMMA CalmStep ==
  ASSUME RfTypeOK, Paid, UNCHANGED <<spoiled, disturbances>>,
         Behind' => Behind, Later' => Later
  PROVE  Paid'
  BY DEF Paid, Owed, RfTypeOK

\* A disturbance pays for one blemish.
LEMMA DisturbedStep ==
  ASSUME RfTypeOK, Paid, UNCHANGED spoiled, NEW kind, Disturbance(kind),
         (Behind' => Behind) \/ (Later' => Later)
  PROVE  Paid'
  BY DEF Paid, Owed, RfTypeOK, Disturbance

\* A frame settles what its suite owes; what comes later is carried to the next.
LEMMA LedgerFrame ==
  ASSUME RfTypeOK, NodeIdle, Paid, TakeFrame
  PROVE  Paid'
  <1>1. PICK flaws \in SUBSET Flaws, clean \in SUBSET (Nat \X Seqs) : \E suite, line :
          /\ flaws = SequenceFlaws(held.seq)
          /\ suite = [ first     |-> IF started THEN rx.first ELSE held.seq,
                       last      |-> held.seq,
                       valid     |-> IF flaws = {} THEN rx.valid + 1 ELSE rx.valid,
                       blemishes |-> rx.blemishes \cup flaws ]
          /\ EndIteration(suite, clean, Succ(held.seq), line)
    BY TakesFrame
  <1>2. PICK suite, line :
          /\ flaws = SequenceFlaws(held.seq)
          /\ suite = [ first     |-> IF started THEN rx.first ELSE held.seq,
                       last      |-> held.seq,
                       valid     |-> IF flaws = {} THEN rx.valid + 1 ELSE rx.valid,
                       blemishes |-> rx.blemishes \cup flaws ]
          /\ EndIteration(suite, clean, Succ(held.seq), line)
    BY <1>1
  <1>3. UNCHANGED disturbances /\ ~Later' /\ NextSeq' = NextSeq
    BY DEF TakeFrame, Later, NextSeq, gateway
  <1>4. Behind' => rx'.blemishes # {} \/ Later
    BY <1>3 DEF TakeFrame, Behind, Later, gateway
  <1>5. suite.blemishes # {} => Behind
    BY <1>2 DEF TakeFrame, Behind, SequenceFlaws
  <1>6. CASE suite.valid = SuiteFrames
    <2>1. rx'.blemishes = {}
      BY <1>2, <1>6 DEF EndIteration, FreshRx
    <2>2. CASE suite.blemishes = {}
      <3>1. UNCHANGED spoiled
        BY <1>2, <1>6, <2>2 DEF EndIteration
      <3> QED
        BY <1>3, <1>4, <2>1, <3>1 DEF Paid, Owed, RfTypeOK
    <2>3. CASE suite.blemishes # {}
      <3>1. spoiled' = spoiled \/ spoiled' = spoiled + 1
        BY <1>2, <1>6, <2>3 DEF EndIteration
      <3> QED
        BY <1>3, <1>4, <1>5, <2>1, <2>3, <3>1 DEF Paid, Owed, RfTypeOK
    <2> QED
      BY <2>2, <2>3
  <1>7. CASE suite.valid # SuiteFrames
    <2>1. rx' = suite /\ UNCHANGED spoiled
      BY <1>2, <1>7 DEF EndIteration
    <2> QED
      BY <1>3, <1>4, <1>5, <2>1 DEF Paid, Owed, RfTypeOK
  <1> QED
    BY <1>6, <1>7

LEMMA LedgerStep ==
  ASSUME RfTypeOK, NodeIdle, Paid, [RfNext]_rfVars
  PROVE  Paid'
  <1> USE DEF gateway, node, radio, Calm
  <1>1. CASE BootGateway
    <2>1. CASE Calm
      <3>1. tpc' = "start"
        BY <1>1, <2>1, RfAssumption DEF BootGateway, Disturbance, RfTypeOK
      <3> QED
        BY <1>1, <2>1, <3>1, CalmStep DEF BootGateway, Behind, Later, NextSeq
    <2>2. CASE Disturbance("prepare")
      <3>1. NextSeq' = NextSeq
        BY <1>1 DEF BootGateway, NextSeq
      <3>2. (Behind' => Behind) \/ (Later' => Later)
        BY <1>1, <3>1 DEF BootGateway, Behind, Later
      <3> QED
        BY <1>1, <2>2, <3>2, DisturbedStep DEF BootGateway
    <2> QED
      BY <1>1, <2>1, <2>2 DEF BootGateway
  <1>2. CASE StartTransmit
    <2>1. CASE tpc' = "sent" /\ Calm /\ Latch([kind |-> "data", seq |-> sequence, boot |-> boot])
      <3>1. /\ event = "none" /\ npc = "listen" /\ event' = "good" /\ held'.kind = "data"
            /\ held'.seq = sequence /\ NextSeq = sequence /\ NextSeq' = Succ(sequence)
        BY <1>2, <2>1 DEF StartTransmit, Latch, Listening, NextSeq
      <3> QED
        BY <1>2, <2>1, <3>1, CalmStep DEF StartTransmit, Behind, Later
    <2>2. CASE Calm /\ ~Listening /\ Unheard
      <3>1. overdue' => overdue
        BY <2>2 DEF Unheard
      <3>2. stalled \/ npc \in {"boot", "parked"}
        BY <1>2, <2>2 DEF StartTransmit, SlotComes
      <3>3. tpc' # "parked"
        BY <1>2 DEF StartTransmit
      <3> QED
        BY <1>2, <2>2, <3>1, <3>2, <3>3, CalmStep
           DEF StartTransmit, Unheard, Listening, NodeIdle, Behind, Later, RfTypeOK, Events
    <2>3. CASE Disturbance("loss") /\ Listening /\ Unheard
      <3>1. Later' => Later
        BY <1>2, <2>3 DEF StartTransmit, Unheard, Listening, Later
      <3> QED
        BY <1>2, <2>3, <3>1, DisturbedStep DEF StartTransmit
    <2>4. CASE tpc' = "unsent" /\ Disturbance("tx_start") /\ Unheard
      <3>1. (Behind' => Behind) \/ (Later' => Later)
        BY <1>2, <2>4 DEF StartTransmit, Unheard, Behind, Later
      <3> QED
        BY <1>2, <2>4, <3>1, DisturbedStep DEF StartTransmit
    <2> QED
      BY <1>2, <2>1, <2>2, <2>3, <2>4 DEF StartTransmit
  <1>3. CASE FinishTransmit
    <2>1. NextSeq' = NextSeq /\ tpc # "parked" /\ tpc' # "parked"
      BY <1>3 DEF FinishTransmit, NextSeq
    <2>2. (Behind' => Behind) /\ (Later' => Later)
      BY <1>3, <2>1 DEF FinishTransmit, Behind, Later
    <2>3. Calm \/ Disturbance("tx_status")
      BY <1>3 DEF FinishTransmit
    <2> QED
      BY <1>3, <2>2, <2>3, CalmStep, DisturbedStep DEF FinishTransmit
  <1>4. CASE BootNode
    <2>1. (Behind' => Behind) /\ (Later' => Later)
      BY <1>4 DEF BootNode, NodeIdle, NextSeq, Behind, Later
    <2>2. Calm \/ Disturbance("prepare")
      BY <1>4 DEF BootNode
    <2> QED
      BY <1>4, <2>1, <2>2, CalmStep, DisturbedStep DEF BootNode
  <1>5. CASE Arm
    <2>1. ~Later'
      BY <1>5 DEF Arm, Later
    <2>2. CASE Calm /\ npc' = "listen" /\ stalled' = FALSE /\ UNCHANGED <<rx, heard>>
      <3>1. Behind' => Behind
        BY <1>5, <2>2 DEF Arm, NodeIdle, NextSeq, Behind
      <3> QED
        BY <1>5, <2>1, <2>2, <3>1, CalmStep DEF Arm
    <2>3. CASE Disturbance("rx_enable")
      BY <1>5, <2>1, <2>3, DisturbedStep DEF Arm
    <2> QED
      BY <1>5, <2>2, <2>3 DEF Arm
  <1>6. CASE TakeFrame
    BY <1>6, LedgerFrame
  <1>7. CASE TakeAlien
    <2>1. Behind /\ ~Later'
      BY <1>7 DEF TakeAlien, Behind, Later
    <2> QED
      BY <1>7, <2>1, CalmStep DEF TakeAlien
  <1>8. CASE TakeTimeout
    <2>1. Behind /\ ~Later'
      BY <1>8 DEF TakeTimeout, Behind, Later
    <2> QED
      BY <1>8, <2>1, CalmStep DEF TakeTimeout
  <1>9. CASE TakeError
    <2>1. Behind /\ ~Later'
      BY <1>9 DEF TakeError, Behind, Later
    <2> QED
      BY <1>9, <2>1, CalmStep DEF TakeError
  <1>10. CASE RadioEvent
    <2>1. CASE event' = "timeout" /\ Calm /\ (overdue \/ tpc = "parked")
      <3>1. Behind /\ (Later' => Later)
        BY <1>10, <2>1 DEF RadioEvent, Listening, Behind, Later
      <3> QED
        BY <1>10, <2>1, <3>1, CalmStep DEF RadioEvent
    <2>2. CASE event' = "error" /\ Disturbance("noise")
      <3>1. Later' => Later
        BY <1>10, <2>2 DEF RadioEvent, Later
      <3> QED
        BY <1>10, <2>2, <3>1, DisturbedStep DEF RadioEvent
    <2>3. CASE event' = "good" /\ held' = [kind |-> "alien"] /\ Disturbance("alien")
      <3>1. (Behind' => Behind) \/ (Later' => Later)
        BY <1>10, <2>3 DEF RadioEvent, Listening, Behind, Later
      <3> QED
        BY <1>10, <2>3, <3>1, DisturbedStep DEF RadioEvent
    <2> QED
      BY <1>10, <2>1, <2>2, <2>3 DEF RadioEvent
  <1>11. CASE HostDeadline
    <2>1. ~Later'
      BY <1>11 DEF HostDeadline, Later
    <2> QED
      BY <1>11, <2>1, DisturbedStep DEF HostDeadline
  <1>12. CASE NodeStalls
    <2>1. (Behind' => Behind) \/ (Later' => Later)
      BY <1>12 DEF NodeStalls, NextSeq, Behind, Later
    <2> QED
      BY <1>12, <2>1, DisturbedStep DEF NodeStalls
  <1>13. CASE GatewayRestart
    <2>1. (Behind' => Behind) \/ (Later' => Later)
      BY <1>13 DEF GatewayRestart, Behind, Later
    <2> QED
      BY <1>13, <2>1, DisturbedStep DEF GatewayRestart
  <1>14. CASE NodeRestart
    <2>1. ~Later'
      BY <1>14 DEF NodeRestart, Later
    <2> QED
      BY <1>14, <2>1, DisturbedStep DEF NodeRestart
  <1>15. CASE UNCHANGED rfVars
    BY <1>15, CalmStep DEF rfVars, NextSeq, Behind, Later
  <1> QED
    BY <1>1, <1>2, <1>3, <1>4, <1>5, <1>6, <1>7, <1>8, <1>9, <1>10, <1>11,
       <1>12, <1>13, <1>14, <1>15 DEF RfNext, GatewayStep, NodeStep

\* However many disturbances of whatever kinds, and in whatever order, each
\* spoils one suite of the node at most (run_receiver's resynchronisation).
THEOREM DisturbancesAreBounded == RfSpec => []OneDisturbanceOneSuite
<1>1. RfInit => RfTypeOK /\ NodeIdle /\ Paid
  BY RfTypeInit, LedgerInit
<1>2. RfTypeOK /\ NodeIdle /\ Paid /\ [RfNext]_rfVars => (RfTypeOK /\ NodeIdle /\ Paid)'
  BY RfTypeStep, IdleStep, LedgerStep
<1>3. RfTypeOK /\ Paid => OneDisturbanceOneSuite
  BY DEF Paid, Owed, OneDisturbanceOneSuite, RfTypeOK
<1> QED
  BY <1>1, <1>2, <1>3, PTL DEF RfSpec

-----------------------------------------------------------------------------
(* The loggers only watch: a step with them is a step without them.        *)

\* The boards under capture run the two loops and nothing else, so the three
\* theorems hold of them too (the logs are read from outside the programs).
THEOREM EvidenceRunsRf == EvidenceSpec => RfSpec
<1>1. EvidenceInit => RfInit
  BY DEF EvidenceInit
<1>2. [EvidenceNext]_evidenceVars => [RfNext]_rfVars
  BY DEF EvidenceNext, evidenceVars
<1> QED
  BY <1>1, <1>2, PTL DEF EvidenceSpec, RfSpec

-----------------------------------------------------------------------------
(* The record of one power-on: every frame heard is of the power-on whose  *)
(* summary it is matched with.                                             *)

Dated(h) == h \in (1 .. boot) \X Seqs

FramesDated ==
  /\ boot \in Nat /\ boot >= 1
  /\ held.kind = "data" => held.boot \in 1 .. boot
  /\ \A h \in heard : Dated(h)
  /\ \A l \in printed : l.kind = "tx" => l.boot \in 1 .. boot
  /\ \A l \in printed : l.kind = "rx" => \A h \in l.heard : Dated(h)

LogsDated ==
  /\ \A t \in txLog : t.boot \in 1 .. boot
  /\ \A r \in rxLog :
       /\ \A h \in r.heard : Dated(h)
       /\ { h[2] : h \in r.heard } = Window(r.first)
       /\ r.last = (r.first + SuiteFrames - 1) % SeqMod

\* What TakeFrame prints and counts: a line and a valid frame together, and a
\* summary only with the line of the suite's last frame.
LEMMA CountsFrame ==
  ASSUME RfTypeOK, TakeFrame
  PROVE  /\ \/ rx'.valid <= rx.valid
            \/ rx'.valid = rx.valid + 1 /\ FrameLine("rx_frame") \in printed'
         /\ heard' \subseteq heard \cup {<<held.boot, held.seq>>}
         /\ \A l \in printed' :
              /\ l.kind \in {"rx_frame", "rx"}
              /\ l.kind = "rx" => /\ rx.valid = SuiteFrames - 1
                                  /\ FrameLine("rx_frame") \in printed'
                                  /\ l.heard \subseteq heard \cup {<<held.boot, held.seq>>}
  <1> DEFINE flaws == SequenceFlaws(held.seq)
             suite == [ first     |-> IF started THEN rx.first ELSE held.seq,
                        last      |-> held.seq,
                        valid     |-> IF flaws = {} THEN rx.valid + 1 ELSE rx.valid,
                        blemishes |-> rx.blemishes \cup flaws ]
             clean == IF suite.blemishes = {}
                      THEN heard \cup {<<held.boot, held.seq>>} ELSE {}
             line == { l \in {FrameLine("rx_frame")} : flaws = {} }
  <1>1. EndIteration(suite, clean, Succ(held.seq), line)
    BY DEF TakeFrame
  <1>2. /\ suite.valid = IF flaws = {} THEN rx.valid + 1 ELSE rx.valid
        /\ clean \subseteq heard \cup {<<held.boot, held.seq>>}
        /\ line \subseteq {FrameLine("rx_frame")}
        /\ flaws = {} => line = {FrameLine("rx_frame")}
    OBVIOUS
  <1>3. rx.valid \in 0 .. (SuiteFrames - 1) /\ SuiteFrames \in Nat
    BY SeqsAre DEF RfTypeOK
  <1> HIDE DEF flaws, suite, clean, line
  <1>4. CASE suite.valid = SuiteFrames
    <2>1. /\ flaws = {} /\ rx.valid = SuiteFrames - 1
          /\ line = {FrameLine("rx_frame")}
      BY <1>2, <1>3, <1>4
    <2>2. /\ rx' = FreshRx(Succ(held.seq), suite.last) /\ heard' = {}
          /\ \/ printed' = line
             \/ printed' = line \cup {RxSummary(suite.first, suite.last, clean)}
      BY <1>1, <1>4 DEF EndIteration
    <2>3. rx'.valid <= rx.valid
      BY <1>3, <2>2 DEF FreshRx
    <2> QED
      BY <1>2, <2>1, <2>2, <2>3 DEF FrameLine, RxSummary
  <1>5. CASE suite.valid # SuiteFrames
    <2>1. rx' = suite /\ heard' = clean /\ printed' = line
      BY <1>1, <1>5 DEF EndIteration
    <2> QED
      BY <1>2, <1>3, <2>1 DEF FrameLine
  <1> QED
    BY <1>4, <1>5

\* A step that hears and prints nothing new.
LEMMA DatesKept ==
  ASSUME FramesDated, boot' \in {boot, boot + 1}, heard' \subseteq heard, printed' = {},
         held' = held \/ held' = None \/ held'.kind = "alien"
  PROVE  FramesDated'
  BY DEF FramesDated, Dated, None

LEMMA FramesDatedInit == RfInit => FramesDated
  BY DEF RfInit, FramesDated, None

LEMMA FramesDatedStep ==
  ASSUME RfTypeOK, FramesDated, [RfNext]_rfVars
  PROVE  FramesDated' /\ boot' \in {boot, boot + 1}
  <1> USE DEF gateway, node, radio, Quiet
  <1>1. ASSUME NEW flaw, CountFlaw(flaw) PROVE heard' \subseteq heard
    BY <1>1 DEF CountFlaw
  <1>2. CASE BootGateway \/ BootNode \/ NodeStalls \/ GatewayRestart \/ NodeRestart
    BY <1>2, DatesKept DEF BootGateway, BootNode, NodeStalls, GatewayRestart, NodeRestart
  <1>3. CASE Arm \/ TakeAlien \/ TakeTimeout \/ TakeError \/ HostDeadline \/ RadioEvent
    BY <1>1, <1>3, DatesKept
    DEF Arm, TakeAlien, TakeTimeout, TakeError, HostDeadline, RadioEvent
  <1>4. CASE StartTransmit
    <2>1. /\ UNCHANGED <<heard, boot>> /\ printed' = {}
          /\ held' = held \/ held' = [kind |-> "data", seq |-> sequence, boot |-> boot]
      BY <1>4 DEF StartTransmit, Latch, Unheard
    <2> QED
      BY <2>1 DEF FramesDated, Dated
  <1>5. CASE FinishTransmit
    <2>1. /\ UNCHANGED <<heard, boot, held>>
          /\ printed' \subseteq {FrameLine("tx_frame"), TxSummary(tx.first, sequence, boot)}
      BY <1>5 DEF FinishTransmit
    <2> QED
      BY <2>1 DEF FramesDated, Dated, FrameLine, TxSummary
  <1>6. CASE TakeFrame
    <2>1. Dated(<<held.boot, held.seq>>)
      <3>1. held.seq \in Seqs /\ held.boot \in 1 .. boot
        BY <1>6, HeldType DEF TakeFrame, FramesDated
      <3> QED
        BY <3>1 DEF Dated
    <2>2. UNCHANGED boot /\ held' = None
      BY <1>6 DEF TakeFrame
    <2>3. \A h \in heard \cup {<<held.boot, held.seq>>} : Dated(h) /\ Dated(h)'
      BY <2>1, <2>2 DEF FramesDated, Dated
    <2> QED
      BY <1>6, <2>2, <2>3, CountsFrame DEF FramesDated, None
  <1>7. CASE UNCHANGED rfVars
    BY <1>7 DEF rfVars, FramesDated, Dated
  <1> QED
    BY <1>2, <1>3, <1>4, <1>5, <1>6, <1>7 DEF RfNext, GatewayStep, NodeStep

LEMMA LogsDatedStep ==
  ASSUME LogsDated, FramesDated', boot \in Nat, boot' \in {boot, boot + 1},
         PassedWindowHeard', [EvidenceNext]_evidenceVars
  PROVE  LogsDated'
  <1>1. \A h : Dated(h) => Dated(h)'
    BY DEF Dated
  <1>2. CASE UNCHANGED evidenceVars
    BY <1>2 DEF evidenceVars, rfVars, LogsDated, Dated
  <1>3. CASE StopCapture
    BY <1>3 DEF StopCapture, LogsDated
  <1>4. CASE Capture
    <2>1. /\ \A t \in txLog' : t \in txLog \/ (t \in printed' /\ t.kind = "tx")
          /\ \A r \in rxLog' : r \in rxLog \/ (r \in printed' /\ r.kind = "rx")
      BY <1>4 DEF Capture, Summaries
    <2>2. \A t \in txLog' : t.boot \in 1 .. boot'
      BY <2>1 DEF LogsDated, FramesDated
    <2>3. ASSUME NEW r \in rxLog'
          PROVE  /\ \A h \in r.heard : Dated(h)'
                 /\ { h[2] : h \in r.heard } = Window(r.first)
                 /\ r.last = (r.first + SuiteFrames - 1) % SeqMod
      BY <1>1, <2>1, <2>3 DEF LogsDated, FramesDated, PassedWindowHeard
    <2> QED
      BY <2>2, <2>3 DEF LogsDated
  <1> QED
    BY <1>2, <1>3, <1>4 DEF EvidenceNext

LEMMA OnePowerOn ==
  ASSUME LogsDated, boot = 1
  PROVE  EvidenceSound
  <1> SUFFICES ASSUME NEW t \in txLog, NEW r \in rxLog, Matches(t, r)
               PROVE  SentIn(t) = r.heard
    BY DEF EvidenceSound, RecordAccepted
  <1>1. t.boot = 1 /\ \A h \in r.heard : h = <<1, h[2]>>
    BY DEF LogsDated, Dated
  <1>2. { h[2] : h \in r.heard } = Window(t.first)
    BY DEF LogsDated, Matches
  <1>3. ASSUME NEW h \in r.heard PROVE h \in SentIn(t)
    <2>1. h[2] \in Window(t.first)
      BY <1>2
    <2> QED
      BY <1>1, <2>1 DEF SentIn
  <1>4. ASSUME NEW s \in Window(t.first) PROVE <<t.boot, s>> \in r.heard
    <2>1. PICK h \in r.heard : h[2] = s
      BY <1>2
    <2> QED
      BY <1>1, <2>1
  <1> QED
    BY <1>3, <1>4 DEF SentIn

\* The steps of the boards under capture keep what the last sections showed.
EvidenceInv == RfTypeOK /\ SuiteSoFar /\ PassedWindowHeard /\ FramesDated /\ LogsDated

LEMMA EvidenceInvInit == EvidenceInit => EvidenceInv
  BY RfTypeInit, SuiteInit, FramesDatedInit DEF EvidenceInit, EvidenceInv, LogsDated

LEMMA EvidenceInvStep ==
  ASSUME EvidenceInv, [EvidenceNext]_evidenceVars
  PROVE  EvidenceInv'
  <1>1. [RfNext]_rfVars
    BY DEF EvidenceNext, evidenceVars
  <1>2. RfTypeOK' /\ SuiteSoFar' /\ PassedWindowHeard'
    BY <1>1, RfTypeStep, SuiteStep DEF EvidenceInv
  <1>3. FramesDated' /\ boot' \in {boot, boot + 1}
    BY <1>1, FramesDatedStep DEF EvidenceInv
  <1> QED
    BY <1>2, <1>3, LogsDatedStep DEF EvidenceInv, FramesDated

\* Within one power-on of the gateway and before the sequence wraps, a record
\* that is accepted shows an exchange, whatever the logs lack (main,
\* choose_matching_passing).
THEOREM RecordsAreSound == EvidenceSpec => []SessionSound
<1>1. EvidenceInv => SessionSound
  BY OnePowerOn DEF EvidenceInv, SessionSound
<1> QED
  BY <1>1, EvidenceInvInit, EvidenceInvStep, PTL DEF EvidenceSpec

-----------------------------------------------------------------------------
(* The procedure: nothing goes wrong and nothing is lost.                  *)

Undisturbed == capturing /\ disturbances = 0 /\ lost = 0

\* The sequences on the air so far are the ones below it.
Aired == IF tpc = "sent" THEN sequence + 1 ELSE sequence

\* Every frame so far passed and is in the log, and so is the first summary
\* once the first suite is over.
GatewaySoFar ==
  /\ tpc \in {"boot", "start", "sent"} /\ ~tx.failed
  /\ tx.first >= 1 /\ sequence = tx.first + tx.attempts
  /\ txPasses >= tx.attempts
  /\ tx.first # 1 =>
       /\ txPasses >= SuiteFrames
       /\ \E t \in txLog : t.first = 1 /\ t.last = SuiteFrames

\* The log has the frames of the running suite, and of a whole one once it has
\* a summary; whatever was heard is on the air.
NodeSoFar ==
  /\ rxPasses >= rx.valid
  /\ rxLog # {} => rxPasses >= SuiteFrames
  /\ held.kind = "data" => held.seq < Aired
  /\ \A h \in heard : h[2] < Aired
  /\ \A r \in rxLog : \A h \in r.heard : h[2] < Aired

CountsOK == txPasses \in Nat /\ rxPasses \in Nat /\ lost \in Nat

ProcedureInv ==
  /\ CountsOK
  /\ Undisturbed => GatewaySoFar /\ NodeSoFar
  /\ ~capturing => rxLog = {}

LEMMA NothingGoesWrong ==
  ASSUME RfTypeOK, disturbances' = 0
  PROVE  /\ \A kind : ~Disturbance(kind)
         /\ Calm => disturbances = 0
  BY DEF Disturbance, Calm, RfTypeOK

LEMMA PrintsFew ==
  ASSUME RfTypeOK, RfNext
  PROVE  IsFiniteSet(printed')
  <1>1. IsFiniteSet({})
    BY FS_EmptySet
  <1>2. \A a, b : IsFiniteSet({a, b})
    <2> SUFFICES ASSUME NEW a, NEW b PROVE IsFiniteSet({a} \cup {b})
      OBVIOUS
    <2> QED
      BY FS_Singleton, FS_AddElement
  <1>3. CASE FinishTransmit
    <2>1. printed' \subseteq {FrameLine("tx_frame"), TxSummary(tx.first, sequence, boot)}
      BY <1>3 DEF FinishTransmit
    <2> QED
      BY <1>2, <2>1, FS_Subset
  <1>4. CASE TakeFrame
    <2>1. PICK suite, clean, line :
            /\ line \subseteq {FrameLine("rx_frame")}
            /\ EndIteration(suite, clean, Succ(held.seq), line)
      BY <1>4, TakesFrame
    <2>2. printed' \subseteq {FrameLine("rx_frame"), RxSummary(suite.first, suite.last, clean)}
      BY <2>1 DEF EndIteration
    <2> QED
      BY <1>2, <2>2, FS_Subset
  <1>5. CASE ~FinishTransmit /\ ~TakeFrame
    <2>1. printed' = {}
      BY <1>5 DEF RfNext, GatewayStep, NodeStep, Quiet, BootGateway, StartTransmit, BootNode, Arm,
                  TakeAlien, TakeTimeout, TakeError, RadioEvent, HostDeadline, NodeStalls,
                  GatewayRestart, NodeRestart
    <2> QED
      BY <1>1, <2>1
  <1> QED
    BY <1>3, <1>4, <1>5

LEMMA CountedType ==
  ASSUME NEW passes \in Nat, NEW kind, NEW lines
  PROVE  /\ Counted(passes, kind, lines) \in Nat
         /\ Counted(passes, kind, lines) >= passes
         /\ FrameLine(kind) \in lines
              => \/ Counted(passes, kind, lines) = passes + 1
                 \/ Counted(passes, kind, lines) > SuiteFrames
  BY SeqsAre DEF Counted

\* A step of which the logs lack nothing.
LEMMA NothingMissed ==
  ASSUME RfTypeOK, RfNext, CountsOK, Capture, lost' = 0
  PROVE  /\ lost = 0
         /\ txLog' = Summaries(txLog, "tx", printed')
         /\ rxLog' = Summaries(rxLog, "rx", printed')
         /\ txPasses' = Counted(txPasses, "tx_frame", printed')
         /\ rxPasses' = Counted(rxPasses, "rx_frame", printed')
  <1>1. PICK missed \in SUBSET printed' :
          /\ lost' = lost + Cardinality(missed)
          /\ txLog' = Summaries(txLog, "tx", printed' \ missed)
          /\ rxLog' = Summaries(rxLog, "rx", printed' \ missed)
          /\ txPasses' = Counted(txPasses, "tx_frame", printed' \ missed)
          /\ rxPasses' = Counted(rxPasses, "rx_frame", printed' \ missed)
    BY DEF Capture
  <1>2. IsFiniteSet(missed) /\ Cardinality(missed) \in Nat
    BY PrintsFew, FS_Subset, FS_CardinalityType
  <1>3. lost = 0 /\ Cardinality(missed) = 0
    BY <1>1, <1>2 DEF CountsOK
  <1>4. printed' \ missed = printed'
    BY <1>2, <1>3, FS_EmptySet
  <1> QED
    BY <1>1, <1>3, <1>4

LEMMA CountsStep ==
  ASSUME RfTypeOK, CountsOK, [EvidenceNext]_evidenceVars
  PROVE  CountsOK'
  <1>1. CASE Capture /\ RfNext
    <2>1. PICK missed \in SUBSET printed' :
            /\ lost' = lost + Cardinality(missed)
            /\ txPasses' = Counted(txPasses, "tx_frame", printed' \ missed)
            /\ rxPasses' = Counted(rxPasses, "rx_frame", printed' \ missed)
      BY <1>1 DEF Capture
    <2>2. Cardinality(missed) \in Nat
      BY <1>1, PrintsFew, FS_Subset, FS_CardinalityType
    <2> QED
      BY <2>1, <2>2, CountedType DEF CountsOK
  <1>2. CASE StopCapture \/ UNCHANGED evidenceVars
    BY <1>2 DEF StopCapture, evidenceVars, CountsOK
  <1> QED
    BY <1>1, <1>2 DEF EvidenceNext

\* What the logs do in such a step.
LEMMA LogsGrow ==
  ASSUME RfTypeOK, RfNext, CountsOK, Capture, lost' = 0
  PROVE  /\ lost = 0
         /\ \A l : l \in txLog' <=> (l \in txLog \/ (l \in printed' /\ l.kind = "tx"))
         /\ \A l : l \in rxLog' <=> (l \in rxLog \/ (l \in printed' /\ l.kind = "rx"))
         /\ txPasses' \in Nat /\ rxPasses' \in Nat
         /\ txPasses' >= txPasses /\ rxPasses' >= rxPasses
         /\ FrameLine("tx_frame") \in printed'
              => txPasses' = txPasses + 1 \/ txPasses' > SuiteFrames
         /\ FrameLine("rx_frame") \in printed'
              => rxPasses' = rxPasses + 1 \/ rxPasses' > SuiteFrames
  BY NothingMissed, CountedType DEF CountsOK, Summaries

\* A step of the two programs with nothing going wrong and nothing lost.
Captured ==
  /\ RfTypeOK /\ RfTypeOK' /\ CountsOK /\ GatewaySoFar /\ NodeSoFar /\ LogsDated
  /\ RfNext /\ ~Wraps /\ Capture
  /\ disturbances' = 0 /\ lost' = 0

\* The gateway and the air stay.
LEMMA GatewayStays ==
  ASSUME Captured, UNCHANGED gateway
  PROVE  GatewaySoFar' /\ Aired' = Aired
  <1>1. UNCHANGED <<tpc, sequence, tx>>
    BY DEF gateway
  <1>2. txPasses' \in Nat /\ txPasses' >= txPasses
    BY LogsGrow DEF Captured
  <1>3. \A l \in txLog : l \in txLog'
    BY LogsGrow DEF Captured
  <1>4. txPasses \in Nat /\ SuiteFrames \in Nat /\ tx.attempts \in Nat
    BY SeqsAre DEF Captured, CountsOK, RfTypeOK
  <1> QED
    BY <1>1, <1>2, <1>3, <1>4 DEF Captured, GatewaySoFar, Aired

\* Nothing new is heard or printed, and no valid frame is counted.
LEMMA NodeStays ==
  ASSUME Captured, Aired' >= Aired, heard' \subseteq heard,
         rx'.valid <= rx.valid, \A l \in printed' : l.kind # "rx",
         held'.kind = "data" => held' = held \/ held'.seq < Aired'
  PROVE  NodeSoFar'
  <1>1. /\ Aired \in Nat /\ Aired' \in Nat
        /\ held.kind = "data" => held.seq \in Nat
        /\ \A h \in heard : h[2] \in Nat
        /\ \A r \in rxLog : \A h \in r.heard : h[2] \in Nat
    <2>1. sequence \in Nat /\ sequence' \in Nat
      BY SeqsAre DEF Captured, RfTypeOK, Seqs
    <2>2. Aired \in Nat /\ Aired' \in Nat
      <3>1. \A n \in Nat : n + 1 \in Nat
        OBVIOUS
      <3> QED
        BY <2>1, <3>1, Zenon DEF Aired
    <2>3. held.kind = "data" => held.seq \in Nat
      BY SeqsAre DEF Captured, RfTypeOK, Seqs, Frames, None
    <2>4. \A h \in heard : h[2] \in Nat
      BY SeqsAre DEF Captured, RfTypeOK, Seqs
    <2>5. \A r \in rxLog : \A h \in r.heard : h[2] \in Nat
      BY SeqsAre DEF Captured, LogsDated, Dated, Seqs
    <2> QED
      BY <2>2, <2>3, <2>4, <2>5
  <1>2. rxPasses' \in Nat /\ rxPasses' >= rxPasses /\ \A l : l \in rxLog' => l \in rxLog
    BY LogsGrow DEF Captured
  <1>3. rxPasses' >= rx'.valid /\ (rxLog' # {} => rxPasses' >= SuiteFrames)
    <2>1. rxPasses \in Nat /\ rx.valid \in Nat /\ rx'.valid \in Nat /\ SuiteFrames \in Nat
      BY SeqsAre DEF Captured, CountsOK, RfTypeOK
    <2> QED
      BY <1>2, <2>1 DEF Captured, NodeSoFar
  <1>4. \A h \in heard' : h[2] < Aired'
    BY <1>1 DEF Captured, NodeSoFar
  <1>5. held'.kind = "data" => held'.seq < Aired'
    BY <1>1 DEF Captured, NodeSoFar
  <1>6. \A r \in rxLog' : \A h \in r.heard : h[2] < Aired'
    BY <1>1, <1>2 DEF Captured, NodeSoFar
  <1> QED
    BY <1>3, <1>4, <1>5, <1>6 DEF NodeSoFar

LEMMA ProcedureGateway ==
  ASSUME Captured, GatewayStep
  PROVE  GatewaySoFar' /\ NodeSoFar'
  <1> USE DEF Quiet
  <1>1. \A kind : ~Disturbance(kind)
    BY NothingGoesWrong DEF Captured
  <1>2. /\ sequence \in Seqs /\ sequence \in Nat /\ tx.first \in Nat
        /\ tx.attempts \in 0 .. (SuiteFrames - 1) /\ rx.valid \in Nat
    BY SeqsAre DEF Captured, RfTypeOK, Seqs
  <1>3. CASE BootGateway
    <2>1. /\ tpc = "boot" /\ tpc' = "start" /\ UNCHANGED <<sequence, tx, heard, rx, held>>
          /\ printed' = {}
      BY <1>1, <1>3 DEF BootGateway, node, radio
    <2>2. Aired' = Aired
      BY <2>1 DEF Aired
    <2>3. Aired' >= Aired
      BY <1>2, <2>1, <2>2 DEF Aired
    <2>4. txPasses' \in Nat /\ txPasses' >= txPasses /\ txLog' = txLog
      BY <2>1, LogsGrow DEF Captured
    <2>5. GatewaySoFar'
      BY <1>2, <2>1, <2>4, SeqsAre DEF Captured, CountsOK, GatewaySoFar
    <2> QED
      BY <1>2, <2>1, <2>3, <2>5, NodeStays
  <1>4. CASE StartTransmit
    <2>1. /\ tpc = "start" /\ tpc' = "sent" /\ UNCHANGED <<sequence, tx, heard, rx>>
          /\ printed' = {}
          /\ held' = held \/ held' = [kind |-> "data", seq |-> sequence, boot |-> boot]
      BY <1>1, <1>4 DEF StartTransmit, node, Latch, Unheard
    <2>2. Aired' = sequence + 1 /\ Aired = sequence
      BY <2>1 DEF Aired
    <2>3. txPasses' \in Nat /\ txPasses' >= txPasses /\ txLog' = txLog
      BY <2>1, LogsGrow DEF Captured
    <2>4. GatewaySoFar'
      BY <1>2, <2>1, <2>3, SeqsAre DEF Captured, CountsOK, GatewaySoFar
    <2> QED
      BY <1>2, <2>1, <2>2, <2>4, NodeStays
  <1>5. CASE FinishTransmit
    <2>1. /\ tpc = "sent" /\ tpc' = "start" /\ sequence' = Succ(sequence)
          /\ UNCHANGED <<heard, rx, held>>
      BY <1>1, <1>5 DEF FinishTransmit, node, radio, Captured, GatewaySoFar
    <2>2. sequence' = sequence + 1
      <3>1. sequence # SeqMod - 1
        <4>1. Succ(SeqMod - 1) = 0
          BY SeqsAre DEF Succ
        <4> QED
          BY <2>1, <4>1 DEF Captured, Wraps
      <3>2. \A x \in Nat : x < SeqMod => x % SeqMod = x
        BY SeqsAre
      <3> QED
        BY <1>2, <2>1, <3>1, <3>2, SeqsAre DEF Succ, Seqs
    <2>3. Aired' = Aired /\ Aired' >= Aired
      BY <1>2, <2>1, <2>2 DEF Aired
    <2>4. /\ printed' = {FrameLine("tx_frame")}
                \cup { l \in {TxSummary(tx.first, sequence, boot)} :
                        tx.attempts + 1 = SuiteFrames }
          /\ tx' = IF tx.attempts + 1 = SuiteFrames THEN FreshTx(sequence + 1)
                   ELSE [tx EXCEPT !.attempts = @ + 1, !.failed = FALSE]
      <3>1. ~tx.failed
        BY DEF Captured, GatewaySoFar
      <3> QED
        BY <1>1, <1>5, <2>1, <2>2, <3>1 DEF FinishTransmit
    <2>5. \A l \in printed' : l.kind # "rx"
      BY <2>4 DEF FrameLine, TxSummary
    <2>6. NodeSoFar'
      BY <1>2, <2>1, <2>3, <2>5, NodeStays
    <2>7. /\ txPasses' \in Nat /\ txPasses' >= txPasses
          /\ txPasses' = txPasses + 1 \/ txPasses' > SuiteFrames
          /\ \A l \in txLog : l \in txLog'
          /\ \A l \in printed' : l.kind = "tx" => l \in txLog'
      BY <2>4, LogsGrow DEF Captured
    <2>8. CASE tx.attempts + 1 = SuiteFrames
      <3>1. /\ tx'.first = sequence + 1 /\ tx'.attempts = 0 /\ tx'.failed = FALSE
        BY <2>4, <2>8 DEF FreshTx
      <3>2. txPasses' >= SuiteFrames
        BY <1>2, <2>7, <2>8, SeqsAre DEF Captured, CountsOK, GatewaySoFar
      <3>3. \E t \in txLog' : t.first = 1 /\ t.last = SuiteFrames
        <4>1. CASE tx.first # 1
          BY <2>7, <4>1 DEF Captured, GatewaySoFar
        <4>2. CASE tx.first = 1
          <5>1. TxSummary(1, sequence, boot) \in txLog'
            BY <2>4, <2>7, <2>8, <4>2 DEF TxSummary
          <5>2. sequence = SuiteFrames
            BY <1>2, <2>8, <4>2, SeqsAre DEF Captured, GatewaySoFar
          <5> QED
            BY <5>1, <5>2 DEF TxSummary
        <4> QED
          BY <4>1, <4>2
      <3> QED
        BY <1>2, <2>1, <2>2, <2>6, <2>7, <3>1, <3>2, <3>3 DEF GatewaySoFar
    <2>9. CASE tx.attempts + 1 # SuiteFrames
      <3>1. /\ tx'.first = tx.first /\ tx'.attempts = tx.attempts + 1 /\ tx'.failed = FALSE
        BY <2>4, <2>9 DEF Captured, RfTypeOK
      <3>2. txPasses' >= tx'.attempts
        BY <1>2, <2>7, <3>1, SeqsAre DEF Captured, CountsOK, GatewaySoFar
      <3>3. tx.first # 1 => txPasses' >= SuiteFrames
        BY <1>2, <2>7, SeqsAre DEF Captured, CountsOK, GatewaySoFar
      <3>4. sequence' = tx'.first + tx'.attempts
        BY <1>2, <2>2, <3>1 DEF Captured, GatewaySoFar
      <3> QED
        BY <2>1, <2>6, <2>7, <3>1, <3>2, <3>3, <3>4 DEF Captured, GatewaySoFar
    <2> QED
      BY <2>8, <2>9
  <1> QED
    BY <1>3, <1>4, <1>5 DEF GatewayStep

LEMMA ProcedureNode ==
  ASSUME Captured, ~GatewayStep
  PROVE  GatewaySoFar' /\ NodeSoFar'
  <1> USE DEF Quiet
  <1>1. \A kind : ~Disturbance(kind)
    BY NothingGoesWrong DEF Captured
  <1>2. UNCHANGED gateway
    BY <1>1 DEF Captured, RfNext, NodeStep, BootNode, Arm, TakeFrame, TakeAlien, TakeTimeout,
                TakeError, RadioEvent, HostDeadline, NodeStalls, GatewayRestart, NodeRestart
  <1>3. GatewaySoFar' /\ Aired' = Aired
    BY <1>2, GatewayStays
  <1>4. Aired \in Nat /\ rx.valid \in Nat
    BY SeqsAre DEF Captured, RfTypeOK, Seqs, Aired
  <1>5. CASE ~TakeFrame
    <2>1. \A flaw : CountFlaw(flaw) => heard' \subseteq heard /\ rx'.valid = rx.valid
      BY DEF CountFlaw, Captured, RfTypeOK
    <2>2. /\ printed' = {} /\ heard' \subseteq heard /\ rx'.valid = rx.valid
          /\ held'.kind = "data" => held' = held
      <3>1. CASE BootNode \/ RadioEvent
        BY <1>1, <3>1 DEF BootNode, RadioEvent, radio, node, None
      <3>2. CASE Arm \/ TakeTimeout \/ TakeError
        BY <1>1, <2>1, <3>2 DEF Arm, TakeTimeout, TakeError, None
      <3>3. CASE TakeAlien
        BY <3>3 DEF TakeAlien, None, Captured, RfTypeOK
      <3> QED
        BY <1>1, <1>5, <3>1, <3>2, <3>3
        DEF Captured, RfNext, NodeStep, HostDeadline, NodeStalls, GatewayRestart, NodeRestart
    <2> QED
      BY <1>3, <1>4, <2>2, NodeStays
  <1>6. CASE TakeFrame
    <2>1. held.seq < Aired /\ held' = None
      BY <1>6 DEF TakeFrame, Captured, NodeSoFar
    <2>2. \A h \in heard \cup {<<held.boot, held.seq>>} : h[2] < Aired'
      BY <1>3, <2>1 DEF Captured, NodeSoFar
    <2>3. /\ rxPasses' \in Nat /\ rxPasses' >= rxPasses
          /\ FrameLine("rx_frame") \in printed'
               => rxPasses' = rxPasses + 1 \/ rxPasses' > SuiteFrames
          /\ \A r \in rxLog' : r \in rxLog \/ (r \in printed' /\ r.kind = "rx")
      BY LogsGrow DEF Captured
    <2>4. /\ rxPasses \in Nat /\ rxPasses >= rx.valid /\ SuiteFrames \in Nat
          /\ rx'.valid \in 0 .. (SuiteFrames - 1)
          /\ rxLog # {} => rxPasses >= SuiteFrames
      BY SeqsAre DEF Captured, CountsOK, NodeSoFar, RfTypeOK
    <2>5. rxPasses' >= rx'.valid
      BY <1>4, <1>6, <2>3, <2>4, CountsFrame DEF Captured
    <2>6. rxLog' # {} => rxPasses' >= SuiteFrames
      <3>1. CASE \E l \in printed' : l.kind = "rx"
        <4>1. rx.valid = SuiteFrames - 1 /\ FrameLine("rx_frame") \in printed'
          BY <1>6, <3>1, CountsFrame DEF Captured
        <4> QED
          BY <2>3, <2>4, <4>1
      <3>2. CASE ~\E l \in printed' : l.kind = "rx"
        BY <2>3, <2>4, <3>2
      <3> QED
        BY <3>1, <3>2
    <2>7. \A h \in heard' : h[2] < Aired'
      BY <1>6, <2>2, CountsFrame DEF Captured
    <2>8. \A r \in rxLog' : \A h \in r.heard : h[2] < Aired'
      BY <1>3, <1>6, <2>2, <2>3, CountsFrame DEF Captured, NodeSoFar
    <2> QED
      BY <1>3, <2>1, <2>5, <2>6, <2>7, <2>8 DEF NodeSoFar, None
  <1> QED
    BY <1>5, <1>6

LEMMA ProcedureInit == EvidenceInit => ProcedureInv
  BY SeqsAre DEF EvidenceInit, RfInit, ProcedureInv, CountsOK, GatewaySoFar, NodeSoFar, FreshTx,
                 FreshRx, None, Aired

LEMMA ProcedureStep ==
  ASSUME EvidenceInv, EvidenceInv', ProcedureInv, [EvidenceNext]_evidenceVars
  PROVE  ProcedureInv'
  <1>1. CountsOK'
    BY CountsStep DEF EvidenceInv, ProcedureInv
  <1>2. CASE UNCHANGED evidenceVars
    BY <1>2 DEF evidenceVars, rfVars, ProcedureInv, CountsOK, Undisturbed, GatewaySoFar, NodeSoFar,
                Aired
  <1>3. CASE RfNext /\ StopCapture
    BY <1>1, <1>3 DEF StopCapture, ProcedureInv, Undisturbed
  <1>4. CASE RfNext /\ capturing /\ ~Wraps /\ Capture
    <2>1. capturing' = TRUE
      BY <1>4 DEF Capture
    <2>2. ASSUME Undisturbed' PROVE Captured
      <3>1. disturbances' = 0 /\ lost' = 0
        BY <2>2 DEF Undisturbed
      <3>2. disturbances = 0
        BY <3>1, NothingGoesWrong, <1>4
        DEF EvidenceInv, RfNext, GatewayStep, NodeStep, BootGateway, StartTransmit, FinishTransmit,
            BootNode, Arm, TakeFrame, TakeAlien, TakeTimeout, TakeError, RadioEvent,
            HostDeadline, NodeStalls, GatewayRestart, NodeRestart, Calm
      <3>3. lost = 0
        BY <1>4, <3>1, LogsGrow DEF EvidenceInv, ProcedureInv
      <3> QED
        BY <1>4, <3>1, <3>2, <3>3 DEF Captured, EvidenceInv, ProcedureInv, Undisturbed
    <2> QED
      BY <1>1, <2>1, <2>2, ProcedureGateway, ProcedureNode DEF ProcedureInv
  <1> QED
    BY <1>2, <1>3, <1>4 DEF EvidenceNext

\* An undisturbed exchange that is captured whole and heard from its first
\* frame on gives an accepted record as soon as both sides are through their
\* first suite (the procedure the runbook and the checker's main assume).
THEOREM UndisturbedRecordsPass == EvidenceSpec => []ProcedureSuffices
<1>1. EvidenceInv /\ ProcedureInv => ProcedureSuffices
  <2> SUFFICES ASSUME EvidenceInv, ProcedureInv, disturbances = 0, lost = 0, tpc = "start",
                      NEW r \in rxLog, r.first = 1
               PROVE  RecordAccepted
    BY DEF ProcedureSuffices
  <2>1. GatewaySoFar /\ NodeSoFar
    BY DEF ProcedureInv, Undisturbed
  <2>2. \A x \in Nat : x < SeqMod => x % SeqMod = x
    BY SeqsAre
  <2>3. r.last = SuiteFrames
    <3>1. r.last = (1 + SuiteFrames - 1) % SeqMod
      BY DEF EvidenceInv, LogsDated
    <3> QED
      BY <2>2, <3>1, SeqsAre
  <2>4. SuiteFrames < sequence
    <3>1. (1 + (SuiteFrames - 1)) % SeqMod \in Window(1)
      BY SeqsAre DEF Window
    <3>2. (1 + (SuiteFrames - 1)) % SeqMod = SuiteFrames
      BY <2>2, SeqsAre
    <3>3. PICK h \in r.heard : h[2] = SuiteFrames
      BY <3>1, <3>2 DEF EvidenceInv, LogsDated
    <3> QED
      BY <2>1, <3>3 DEF NodeSoFar, Aired
  <2>5. tx.first # 1
    <3>1. tx.attempts \in 0 .. (SuiteFrames - 1) /\ SuiteFrames \in Nat
      BY SeqsAre DEF EvidenceInv, RfTypeOK
    <3> QED
      BY <2>1, <2>4, <3>1 DEF GatewaySoFar
  <2>6. PICK t \in txLog : t.first = 1 /\ t.last = SuiteFrames
    BY <2>1, <2>5 DEF GatewaySoFar
  <2> QED
    BY <2>1, <2>3, <2>5, <2>6 DEF RecordAccepted, Matches, Enough, GatewaySoFar, NodeSoFar
<1>2. EvidenceInit => EvidenceInv /\ ProcedureInv
  BY EvidenceInvInit, ProcedureInit
<1>3. EvidenceInv /\ ProcedureInv /\ [EvidenceNext]_evidenceVars => (EvidenceInv /\ ProcedureInv)'
  BY EvidenceInvStep, ProcedureStep
<1> QED
  BY <1>1, <1>2, <1>3, PTL DEF EvidenceSpec
=============================================================================
