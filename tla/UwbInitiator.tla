----------------------------- MODULE UwbInitiator -----------------------------
(***************************************************************************)
(* The stage-1 gateway's loop: it makes a vibration window, computes its   *)
(* statistics (WindowStats), validates it and logs both                    *)
(* (firmware/gateway/uwb_initiator/src/main.c and                          *)
(* firmware/common/thinpod_protocol/thinpod_protocol.c).  The node's loop  *)
(* makes the same windows.                                                 *)
(*                                                                         *)
(* Stage 1 makes the window where it will once be received.  The transfer  *)
(* in between is modelled for the checksum's sake: it changes nothing or   *)
(* one byte.  Widths are parameters, since TLC cannot hold 32-bit words;   *)
(* a sample is one byte, and ids, rate and uptime, which are treated like  *)
(* the sequence, are left out.                                             *)
(* Name_Something is a wrong version of Name that the properties notice.   *)
(***************************************************************************)
EXTENDS WindowStats, Sequences

CONSTANTS
  Byte,       \* the number of values of a byte
  Turn,       \* what a rotation multiplies by, 2^5
  Wave,       \* 140, the period of the made-up acceleration
  Swing,      \* 22, what alternates on top of it
  Seed,       \* 0x54485044
  Increment,  \* 0x9E3779B9
  ByteXor(_, _)   \* ^ between a sum and a byte

Bytes == 0 .. Byte - 1

\* The checksum is two bytes here.
Word == Byte * Byte
Words == 0 .. Word - 1

\* A byte as the signed sample that thinpod_window_stats reads
Signed(b) == IF b < Byte \div 2 THEN b ELSE b - Byte

ASSUME WindowAssumption ==
  /\ Byte \in Nat /\ Byte > 3 /\ Byte % 2 = 0
  /\ Turn \in Nat \ {0} /\ Word % Turn = 0
  /\ Wave \in Nat \ {0} /\ Swing \in Nat /\ Wave \div 2 + Swing < Byte \div 2
  /\ Seed \in 0 .. Word - 1 /\ Increment \in 0 .. Word - 1
  /\ N \in 1 .. Byte - 1
  /\ \A b \in Bytes : Signed(b) \in Samples

ASSUME XorAssumption ==
  \A s \in Words : \A b \in Bytes :
    /\ ByteXor(s, b) \in Words
    /\ ByteXor(ByteXor(s, b), b) = s
    /\ \A c \in Bytes : ByteXor(s, b) = ByteXor(s, c) => b = c

VARIABLES
  turn,      \* "make", "travel", "log" or, within log_gateway_packet, "stats"
  seq,       \* the gateway's sequence
  window,    \* rx_window
  sent,      \* history: the window before it travelled
  valid      \* the result that the TPGW_PKT line shows

loopVars == <<turn, seq, window, sent, valid>>

NoWindow == [version |-> 0, type |-> 0, sequence |-> 0, count |-> 0,
             accel |-> [k \in 1 .. N |-> 0], checksum |-> <<0, 0>>]

Windows == [version : Bytes, type : Bytes, sequence : Bytes, count : Bytes,
            accel : [1 .. N -> Bytes], checksum : Bytes \X Bytes]

Verdicts == {"valid", "version", "type", "count", "checksum"}

WindowTypeOK ==
  /\ turn \in {"make", "travel", "log", "stats"}
  /\ seq \in Bytes
  /\ window \in Windows /\ sent \in Windows
  /\ valid \in Verdicts \cup {"none"}

LoopTypeOK == StatsTypeOK /\ WindowTypeOK

-----------------------------------------------------------------------------
Serialised(w) == <<w.version, w.type, w.sequence, w.count>> \o w.accel \o w.checksum

\* sum << 5 | sum >> 27
Rotated_Shifted(s) == (s * Turn) % Word
Rotated(s) == ((s * Turn) % Word) + s \div (Word \div Turn)

Mixed(s, byte) == (ByteXor(Rotated(s), byte) + Increment) % Word

\* thinpod_checksum32, low byte first
Sums(bytes) ==
  LET after[k \in 0 .. Len(bytes)] == IF k = 0 THEN Seed ELSE Mixed(after[k - 1], bytes[k])
  IN  after
Checksum(bytes) ==
  LET s == Sums(bytes)[Len(bytes)] IN <<s % Byte, s \div Byte>>

Cleared(w) == [w EXCEPT !.checksum = <<0, 0>>]

\* Sample k of window s, as a byte
Acceleration(s, k) ==
  (((s * 7 + (k - 1) * 19) % Wave) - Wave \div 2 + (IF k % 2 = 0 THEN -Swing ELSE Swing)) % Byte

\* thinpod_make_vibration_window; type 2 stands for 0x10
Made(s) ==
  LET w == [version |-> 1, type |-> 2, sequence |-> s, count |-> N,
            accel |-> [k \in 1 .. N |-> Acceleration(s, k)],
            checksum |-> <<0, 0>>]
  IN  [w EXCEPT !.checksum = Checksum(Serialised(w))]

\* thinpod_validate_vibration_window: the first thing wrong, -1 to -4
Validated(w) ==
  CASE w.version # 1 -> "version"
    [] w.version = 1 /\ w.type # 2 -> "type"
    [] w.version = 1 /\ w.type = 2 /\ w.count # N -> "count"
    [] OTHER -> IF Checksum(Serialised(Cleared(w))) = w.checksum
                  THEN "valid" ELSE "checksum"

LoopInit ==
  /\ accel = [k \in 1 .. N |-> 0]
  /\ StatsInit
  /\ turn = "make" /\ seq = 1
  /\ window = NoWindow /\ sent = NoWindow /\ valid = "none"

Make ==
  /\ turn = "make"
  /\ window' = Made(seq)
  /\ sent' = window'
  /\ turn' = "travel"
  /\ UNCHANGED <<seq, valid, statsVars>>

Travel ==
  /\ turn = "travel"
  /\ \/ UNCHANGED window
     \/ \E b \in Bytes :
          \/ window' = [window EXCEPT !.version = b]
          \/ window' = [window EXCEPT !.type = b]
          \/ window' = [window EXCEPT !.sequence = b]
          \/ window' = [window EXCEPT !.count = b]
          \/ \E k \in 1 .. N : window' = [window EXCEPT !.accel[k] = b]
          \/ \E k \in 1 .. 2 : window' = [window EXCEPT !.checksum[k] = b]
  /\ turn' = "log"
  /\ UNCHANGED <<seq, sent, valid, statsVars>>

\* log_gateway_packet calls thinpod_window_stats,
CallStats ==
  /\ turn = "log"
  /\ accel' = [k \in 1 .. N |-> Signed(window.accel[k])]
  /\ pc' = "sum" /\ i' = 1
  /\ min' = accel'[1] /\ max' = accel'[1]
  /\ sum' = 0 /\ sumSq' = 0 /\ mean' = 0 /\ rms' = 0
  /\ op' = 0 /\ res' = 0 /\ one' = 0
  /\ power' = TopPower /\ root' = 0
  /\ turn' = "stats"
  /\ UNCHANGED <<seq, window, sent, valid>>

\* which runs to its end,
RunStats == turn = "stats" /\ StatsNext /\ UNCHANGED loopVars

\* validates and prints; then comes the next sequence.
NextSequence(s) == (s + 1) % Byte

Log ==
  /\ turn = "stats" /\ pc = "done"
  /\ valid' = Validated(window)
  /\ seq' = NextSequence(seq)
  /\ turn' = "make"
  /\ UNCHANGED <<window, sent, statsVars>>

LoopNext == Make \/ Travel \/ CallStats \/ RunStats \/ Log

LoopSpec == LoopInit /\ [][LoopNext]_<<loopVars, statsVars>>

-----------------------------------------------------------------------------
(* Properties.                                                             *)

\* A window that arrives as it was made is logged as valid, and one that lost
\* a single byte, wherever it lies, never is: no later byte of the checksum
\* can cover up a difference (thinpod_checksum32, both clearings of the
\* checksum field, thinpod_validate_vibration_window).
ValidIffIntact ==
  (turn = "make" /\ valid # "none") => (valid = "valid" <=> window = sent)
=============================================================================
