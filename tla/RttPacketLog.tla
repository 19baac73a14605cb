---------------------------- MODULE RttPacketLog ----------------------------
(***************************************************************************)
(* What the stage-1 programs of a gateway or a node print over RTT, how a  *)
(* log of it comes about, and what gateway_rtt_packet_parser.py makes of   *)
(* the log (firmware/gateway/uwb_initiator, firmware/node/uwb_responder,   *)
(* tools/packet_logging/gateway_rtt_packet_parser.py).                     *)
(*                                                                         *)
(* A line is a sequence of words; of the fields of lines without the tag,  *)
(* which nothing reads, a few are enough.  A line may be cut: at its start,*)
(* where a viewer is attached to a board that runs; at its end, where the  *)
(* board is restarted or the log is closed.  The value of a field is the   *)
(* window it was printed for, or the part of it that a cut has left.       *)
(* Name_Something is a wrong version of Name that the properties notice.   *)
(***************************************************************************)
EXTENDS Integers, Sequences, FiniteSetsExt

CONSTANTS
  MaxWindows,   \* bound: the windows of one power-on
  MaxRestarts,  \* bound: the restarts of the board within the log
  MaxCuts       \* bound: the lines of the log that are cut

ASSUME RttAssumption ==
  MaxWindows \in Nat \ {0} /\ MaxRestarts \in Nat /\ MaxCuts \in Nat

VARIABLES
  role,       \* whose program runs on the board
  viewer,     \* whether the viewer puts its "00> " in front of each line
  pc, seq,    \* the printk the program executes next, and its sequence
  restarts,   \* history: how often the board was restarted,
  cuts,       \* and how many lines were cut
  log,        \* the lines of the file
  records,    \* parse_file's packets
  parsed,     \* how many lines it has gone through
  status      \* "capturing", "parsing", "done" or "raised"

rttVars == <<role, viewer, pc, seq, restarts, cuts, log, records, parsed, status>>
programVars == <<role, viewer, pc, seq, restarts, cuts>>
parserVars == <<records, parsed>>

\* TPGW_PKT's fields, in order, and those that are printed as 0x...
Keys == << "seq", "src", "dst", "uptime_ms", "valid", "samples", "rate", "first_mg",
           "min_mg", "max_mg", "mean_mg", "rms_mg", "checksum" >>
Hex == {"src", "dst", "checksum"}
KeySet == { Keys[k] : k \in DOMAIN Keys }

\* A word is the tag, stands glued behind "packet_log_format=", is a field
\* ("=" within), or is any other text, a blank included.
Word(type)      == [type |-> type, key |-> "none", of |-> 0, form |-> "whole"]
Field(key, of)  == [type |-> "field", key |-> key, of |-> of, form |-> "whole"]
Wording(key)    == [Field(key, 0) EXCEPT !.form = "wording"]

\* The printk of either program.
Line(kind, s) ==
  (IF viewer THEN <<Word("text")>> ELSE <<>>) \o
  CASE kind = "title"  -> <<Word("text")>>
    [] kind = "id"     -> <<Wording("gateway_id")>>
    [] kind = "format" -> <<Word("glued"), Wording("key")>>
    [] kind = "status" -> <<Wording("status"), Word("text")>>
    [] kind = "poll"   -> <<Word("text"), Field("seq", s), Field("dst", s)>>
    [] kind = "ready"  -> <<Word("text"), Field("seq", s), Field("checksum", s)>>
    [] kind = "packet" -> <<Word("tag")>> \o [k \in 1 .. Len(Keys) |-> Field(Keys[k], s)]

\* The order of them: the banner once, then the loop.
Kinds == [ gateway |-> <<"title", "id", "format", "poll", "packet">>,
           node    |-> <<"title", "id", "status", "ready">> ]
LoopStart == 4

-----------------------------------------------------------------------------
\* What a cut leaves of a word: nothing but the space in front of it, its
\* beginning without "=", its key, or a part of its value.
Fragments(word) ==
  {Word("text")} \cup
  IF word.type = "field"
  THEN { [word EXCEPT !.form = f] :
           f \in {"empty", "part"} \cup (IF word.key \in Hex THEN {"0x"} ELSE {}) }
  ELSE {}

CutShort(line) ==
  UNION { {SubSeq(line, 1, k)} \cup
          { Append(SubSeq(line, 1, k), f) : f \in Fragments(line[k + 1]) } :
            k \in 0 .. Len(line) - 1 }

\* A line whose beginning was printed before the viewer was attached.
Headless(s) ==
  LET line == Line("packet", s)
      tag  == IF viewer THEN 2 ELSE 1
  IN  { SubSeq(line, 1, tag - 1) \o SubSeq(line, k, Len(line)) : k \in tag + 1 .. Len(line) }

RttInit ==
  /\ role \in {"gateway", "node"} /\ viewer \in BOOLEAN
  /\ restarts = 0
  /\ records = <<>> /\ parsed = 0 /\ status = "capturing"
  /\ \/ pc = 1 /\ seq = 1 /\ log = <<>> /\ cuts = 0
     \/ /\ role = "gateway" /\ pc = LoopStart /\ seq = 2
        /\ \E l \in Headless(1) : log = <<l>>
        /\ cuts = 1 /\ MaxCuts > 0

\* printk, and the end of the loop's turn
PrintLine ==
  /\ status = "capturing"
  /\ seq <= MaxWindows
  /\ log' = Append(log, Line(Kinds[role][pc], seq))
  /\ \/ pc < Len(Kinds[role]) /\ pc' = pc + 1 /\ UNCHANGED seq
     \/ pc = Len(Kinds[role]) /\ pc' = LoopStart /\ seq' = seq + 1
  /\ UNCHANGED <<role, viewer, restarts, cuts, parserVars, status>>

\* The printing stops between two lines or within one.
Stop ==
  \/ UNCHANGED <<log, cuts>>
  \/ /\ cuts < MaxCuts /\ cuts' = cuts + 1
     /\ \E l \in CutShort(Line(Kinds[role][pc], seq)) : log' = Append(log, l)

\* The board restarts; its banner begins with a newline.
Restart ==
  /\ status = "capturing" /\ restarts < MaxRestarts
  /\ Stop
  /\ pc' = 1 /\ seq' = 1 /\ restarts' = restarts + 1
  /\ UNCHANGED <<role, viewer, parserVars, status>>

\* The log is closed and parsed.
Close ==
  /\ status = "capturing"
  /\ Stop
  /\ status' = "parsing"
  /\ UNCHANGED <<role, viewer, pc, seq, restarts, parserVars>>

-----------------------------------------------------------------------------
\* PACKET_RE: the tag, anywhere in the line, with something behind it
Tagged_AtTheStart(line) ==
  { t \in 1 .. Len(line) - 1 : line[t].type \in {"tag", "glued"} /\ t = 1 }
Tagged(line) ==
  { t \in 1 .. Len(line) - 1 : line[t].type \in {"tag", "glued"} }

\* The items of the body that have a "="
Items(line) == { line[k] : k \in { k \in Min(Tagged(line)) + 1 .. Len(line) :
                                     line[k].type = "field" } }

\* parse_value: "0x" alone is no number, and int raises
Raises_Never(item) == FALSE
Raises(item) == item.form = "0x"

\* A number is read as printed, 0x... included; one that was cut is another
\* number, a sign or nothing; and everything else is a string.
Value_DecimalOnly(item) ==
  [ type |-> IF item.form = "empty" THEN "empty"
             ELSE IF item.key \notin KeySet \ Hex THEN "string"
             ELSE IF item.form = "part" THEN "fragment" ELSE "number",
    of |-> item.of ]
Value(item) ==
  [ type |-> IF item.form = "empty" THEN "empty"
             ELSE IF item.key \notin KeySet THEN "string"
             ELSE IF item.form = "part" THEN "fragment" ELSE "number",
    of |-> item.of ]

\* parse_packet_line
Parsed(line) ==
  [ key \in { item.key : item \in Items(line) } |->
      Value(CHOOSE item \in Items(line) : item.key = key) ]

\* One line of parse_file
ParseLine ==
  /\ status = "parsing" /\ parsed < Len(log)
  /\ LET line == log[parsed + 1]
     IN  \/ Tagged(line) = {} /\ UNCHANGED <<records, status>>
         \/ /\ Tagged(line) # {}
            /\ \E item \in Items(line) : Raises(item)
            /\ status' = "raised"
            /\ UNCHANGED records
         \/ /\ Tagged(line) # {}
            /\ \A item \in Items(line) : ~Raises(item)
            /\ records' = Append(records, Parsed(line))
            /\ UNCHANGED status
  /\ parsed' = parsed + 1
  /\ UNCHANGED <<programVars, log>>

EndOfFile ==
  /\ status = "parsing" /\ parsed = Len(log)
  /\ status' = "done"
  /\ UNCHANGED <<programVars, log, parserVars>>

RttNext == PrintLine \/ Restart \/ Close \/ ParseLine \/ EndOfFile

RttSpec == RttInit /\ [][RttNext]_rttVars

-----------------------------------------------------------------------------
(* Properties.                                                             *)

RttTypeOK ==
  /\ role \in {"gateway", "node"} /\ viewer \in BOOLEAN
  /\ pc \in 1 .. Len(Kinds[role]) /\ seq \in 1 .. MaxWindows + 1
  /\ parsed \in 0 .. Len(log) /\ Len(records) <= parsed
  /\ restarts \in 0 .. MaxRestarts /\ cuts \in 0 .. MaxCuts
  /\ \A r \in DOMAIN records :
       /\ DOMAIN records[r] \subseteq KeySet \cup {"key"}
       /\ \A key \in DOMAIN records[r] :
            records[r][key] \in
              IF key \in KeySet
              THEN [type : {"number", "fragment", "empty"}, of : 1 .. MaxWindows]
              ELSE [type : {"string", "empty"}, of : {0}]
  /\ status \in {"capturing", "parsing", "done", "raised"}

\* The record of a window whose line is whole.
Record(s) == [key \in KeySet |-> [type |-> "number", of |-> s]]

\* The lines that are whole, and the records that have every number.
WholeWindows ==
  { k \in DOMAIN log : \E s \in 1 .. MaxWindows : log[k] = Line("packet", s) }
CompleteRecords ==
  { r \in DOMAIN records : \E s \in 1 .. MaxWindows : records[r] = Record(s) }

\* Unless the parser raised, each window whose line is whole has its record with
\* all of its numbers, once and in the order of the lines, and no other record
\* has all numbers, whatever the viewer puts in front and however other lines
\* are cut (PACKET_RE, parse_packet_line, parse_file).
WindowsRecorded ==
  status = "done" =>
    \E row \in [WholeWindows -> CompleteRecords] :
      /\ \A k, l \in WholeWindows : k < l => row[k] < row[l]
      /\ \A r \in CompleteRecords : \E k \in WholeWindows : row[k] = r
      /\ \A k \in WholeWindows : \A s \in 1 .. MaxWindows :
           log[k] = Line("packet", s) => records[row[k]] = Record(s)

\* The parser gets to the end of the log exactly if no packet line of it was cut
\* just behind the "0x" of a value; such a cut costs every record (parse_value).
RaiseExplained ==
  LET fatal(l) == \E k \in 1 .. Len(l) : l[k].type = "tag" /\ l[Len(l)].form = "0x"
  IN  /\ status = "done" => \A k \in 1 .. Len(log) : ~fatal(log[k])
      /\ status = "raised" => fatal(log[parsed])

\* The parser extracts TPGW_PKT lines and nothing else
\* (docs/ThinPod_UWB_Roles_Stage1_Summary.md:215).
PacketLinesOnly ==
  status = "done" =>
    Len(records) <= Len(SelectSeq(log, LAMBDA l : \E k \in 1 .. Len(l) : l[k].type = "tag"))
=============================================================================
