-------------------------- MODULE GatewayPacketLog --------------------------
(***************************************************************************)
(* How the packet logger finds packets in a log                            *)
(* (scripts/gateway_packet_logger.py: extract_packet_tokens,               *)
(* parse_packet_tokens, parse_input and main's exit codes).                *)
(*                                                                         *)
(* A line is the tokens that HEX_TOKEN_RE finds in it: "54", "50", the     *)
(* placeholder "XX" and "nn" for any other byte.  It was printed as some   *)
(* text, whose tokens may be fragments of a timestamp, a packet, and a     *)
(* rest.                                                                   *)
(* Of a row only the packet and crc_valid matter; that a checksum matches  *)
(* is left open.                                                           *)
(* Name_Something is a wrong version of Name that the properties notice.   *)
(***************************************************************************)
EXTENDS Integers, Sequences, FiniteSets, FiniteSetsExt

CONSTANTS
  PacketLen,   \* PACKET_LEN_BYTES, 24
  CrcLen,      \* the CRC's 2 bytes
  Texts,       \* the tokens of what a line shows before its packet
  Packets,     \* what was printed as a packet, whole or cut short
  Tails,       \* the tokens of what follows it
  MaxLines     \* bound: the lines of an input

ASSUME LogAssumption ==
  /\ CrcLen \in Nat \ {0} /\ PacketLen \in Nat /\ PacketLen > CrcLen + 2
  /\ Texts \cup Tails \subseteq Seq({"54", "50", "nn"})
  /\ Packets \subseteq Seq({"54", "50", "nn", "XX"})
  /\ MaxLines \in Nat

VARIABLES
  strict,   \* --strict
  lines,    \* the input so far
  rows,     \* parse_input's rows
  exit      \* "reading", or main's exit code: 0, 3 or 4

logVars == <<strict, lines, rows, exit>>

Lines == [text : Texts, packet : Packets, rest : Tails]

Tokens(line) == line.text \o line.packet \o line.rest

NoPacket == <<>>

Rows == [line : 1 .. MaxLines, packet : Seq({"54", "50", "nn", "XX"}),
         crc : {"checked", "not_checked", "parse_error"}]

LogTypeOK ==
  /\ strict \in BOOLEAN
  /\ lines \in Seq(Lines) /\ Len(lines) <= MaxLines
  /\ rows \in Seq(Rows) /\ Len(rows) <= Len(lines)
  /\ exit \in {"reading", "0", "3", "4"}

LogInit == strict \in BOOLEAN /\ lines = <<>> /\ rows = <<>> /\ exit = "reading"

-----------------------------------------------------------------------------
\* Where the magic is followed by enough tokens
Starts_OneShort(tokens) ==
  { s \in 1 .. Len(tokens) - PacketLen : tokens[s] = "54" /\ tokens[s + 1] = "50" }
Starts(tokens) ==
  { s \in 1 .. Len(tokens) - PacketLen + 1 : tokens[s] = "54" /\ tokens[s + 1] = "50" }

\* extract_packet_tokens
Extracted(tokens) ==
  IF Starts(tokens) = {} THEN NoPacket
  ELSE SubSeq(tokens, Min(Starts(tokens)), Min(Starts(tokens)) + PacketLen - 1)

Payload(packet) == SubSeq(packet, 1, PacketLen - CrcLen)
Crc(packet) == SubSeq(packet, PacketLen - CrcLen + 1, PacketLen)

Placeholder(tokens) == \E t \in DOMAIN tokens : tokens[t] = "XX"

\* parse_packet_tokens
Parsed(packet) ==
  CASE Placeholder(Payload(packet)) -> "parse_error"
    [] ~Placeholder(Payload(packet)) /\ Placeholder(Crc(packet)) -> "not_checked"
    [] OTHER -> "checked"

\* enumerate(..., start=1)
LineNumber_FromZero == Len(lines)
LineNumber == Len(lines) + 1

Aborts_Never(crc) == FALSE
Aborts(crc) == crc = "parse_error" /\ strict

\* One line of parse_input
ReadLine ==
  /\ exit = "reading" /\ Len(lines) < MaxLines
  /\ \E line \in Lines :
       LET packet == Extracted(Tokens(line))
           row == [line |-> LineNumber, packet |-> packet, crc |-> Parsed(packet)]
       IN  /\ lines' = Append(lines, line)
           /\ \/ packet = NoPacket /\ UNCHANGED <<rows, exit>>
              \/ packet # NoPacket /\ Aborts(row.crc) /\ exit' = "3" /\ UNCHANGED rows
              \/ /\ packet # NoPacket /\ ~Aborts(row.crc)
                 /\ rows' = Append(rows, row)
                 /\ UNCHANGED exit
  /\ UNCHANGED strict

\* The end of the input, and main
EndOfInput ==
  /\ exit = "reading"
  /\ exit' = IF rows = <<>> THEN "4" ELSE "0"
  /\ UNCHANGED <<strict, lines, rows>>

LogNext == ReadLine \/ EndOfInput

LogSpec == LogInit /\ [][LogNext]_logVars

-----------------------------------------------------------------------------
(* Properties.                                                             *)

\* An intact packet: the magic, a payload without placeholders, the CRC.
Intact(packet) ==
  /\ Len(packet) = PacketLen
  /\ packet[1] = "54" /\ packet[2] = "50"
  /\ ~Placeholder(Payload(packet))

\* The text before a packet shows the magic itself.
Misleading(text) ==
  \E s \in 1 .. Len(text) - 1 : text[s] = "54" /\ text[s + 1] = "50"

RowsOf(n) == { r \in DOMAIN rows : rows[r].line = n }

\* No intact packet is lost and none is read askew, wherever it stands in its
\* line, unless the text before it shows the magic: its line's one row holds
\* exactly its bytes.  --strict or not, since only other lines can abort
\* (extract_packet_tokens, parse_input).
IntactPacketLogged ==
  \A n \in DOMAIN lines :
    (Intact(lines[n].packet) /\ ~Misleading(lines[n].text)) =>
      \E r \in DOMAIN rows :
        /\ RowsOf(n) = {r}
        /\ rows[r].packet = lines[n].packet
        /\ rows[r].crc # "parse_error"

\* The exit code tells what was found: 4 only of an input without an intact
\* packet, misleading text or not; 3 only under --strict and for a line whose
\* packet shows a placeholder; and a strict run that ends with 0 has no error
\* row (main, parse_input).
ExitExplained ==
  /\ exit = "4" => \A n \in DOMAIN lines : ~Intact(lines[n].packet)
  /\ exit = "3" => strict /\ Placeholder(lines[Len(lines)].packet)
  /\ strict /\ exit = "0" => \A r \in DOMAIN rows : rows[r].crc # "parse_error"

\* The comment of extract_packet_tokens: "It also avoids accidentally parsing
\* timestamp fragments before the packet."
TimestampsAvoided ==
  \A r \in DOMAIN rows :
    Intact(lines[rows[r].line].packet) => rows[r].packet = lines[rows[r].line].packet
=============================================================================
