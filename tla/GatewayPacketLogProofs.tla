----------------------- MODULE GatewayPacketLogProofs -----------------------
(***************************************************************************)
(* Proofs about the packet logger (GatewayPacketLog): what the search for  *)
(* the magic finds in a line, for packets of every length and lines of     *)
(* every shape, and what the rows and the exit code say of the input.      *)
(***************************************************************************)
EXTENDS GatewayPacketLog, SequenceTheorems, WellFoundedInduction, TLAPS

Marks == {"54", "50", "nn", "XX"}

LEMMA LengthsAre ==
  PacketLen \in Nat /\ CrcLen \in Nat /\ CrcLen > 0 /\ PacketLen > CrcLen + 2
  BY LogAssumption

-----------------------------------------------------------------------------
(* The search.                                                             *)

LEMMA MinOfNats ==
  ASSUME NEW S, S \subseteq Nat, S # {}
  PROVE  Min(S) \in S /\ \A n \in S : Min(S) <= n
  <1>1. PICK m \in S : \A n \in S : ~(<<n, m>> \in OpToRel(<, Nat))
    BY NatLessThanWellFounded, WFMin
  <1>2. ASSUME NEW n \in S PROVE ~(n < m)
    <2> SUFFICES ASSUME n < m PROVE <<n, m>> \in OpToRel(<, Nat)
      BY <1>1
    <2>1. <<n, m>> \in Nat \X Nat /\ <<n, m>>[1] < <<n, m>>[2]
      OBVIOUS
    <2> QED
      BY <2>1, Zenon DEF OpToRel
  <1>3. \A n \in S : m <= n
    BY <1>2
  <1> QED
    BY <1>3 DEF Min

\* What is extracted starts at the first magic with enough tokens behind it.
LEMMA ExtractedFirst ==
  ASSUME NEW tokens \in Seq(Marks), Starts(tokens) # {}
  PROVE  \E s \in Starts(tokens) :
           /\ \A k \in Starts(tokens) : s <= k
           /\ Extracted(tokens) \in Seq(Marks) /\ Len(Extracted(tokens)) = PacketLen
           /\ Extracted(tokens) # NoPacket
           /\ \A k \in 1 .. PacketLen : Extracted(tokens)[k] = tokens[s + k - 1]
  <1> DEFINE s == Min(Starts(tokens))
  <1>1. s \in Starts(tokens) /\ \A k \in Starts(tokens) : s <= k
    <2>1. Starts(tokens) \subseteq Nat
      BY DEF Starts
    <2> QED
      BY <2>1, MinOfNats
  <1>2. Extracted(tokens) = SubSeq(tokens, s, s + PacketLen - 1)
    BY DEF Extracted
  <1> HIDE DEF s
  <1>3. s \in 1 .. (Len(tokens) - PacketLen + 1) /\ Len(tokens) \in Nat
    BY <1>1 DEF Starts
  <1>4. \A i \in s .. (s + PacketLen - 1) : tokens[i] \in Marks
    BY <1>3, LengthsAre, ElementOfSeq
  <1>5. /\ Extracted(tokens) \in Seq(Marks) /\ Len(Extracted(tokens)) = PacketLen
        /\ \A k \in 1 .. PacketLen : Extracted(tokens)[k] = tokens[s + k - 1]
    BY <1>2, <1>3, <1>4, LengthsAre, SubSeqProperties
  <1>6. Extracted(tokens) # NoPacket
    BY <1>5, LengthsAre DEF NoPacket
  <1> QED
    BY <1>1, <1>5, <1>6

LEMMA NothingExtracted ==
  ASSUME NEW tokens, Extracted(tokens) # NoPacket
  PROVE  Starts(tokens) # {}
  BY DEF Extracted

-----------------------------------------------------------------------------
(* A line.                                                                 *)

LEMMA Glued ==
  ASSUME NEW T, NEW a \in Seq(T), NEW b \in Seq(T), NEW c \in Seq(T)
  PROVE  /\ (a \o b) \o c \in Seq(T)
         /\ Len((a \o b) \o c) = Len(a) + Len(b) + Len(c)
         /\ \A i \in 1 .. Len(a) : ((a \o b) \o c)[i] = a[i]
         /\ \A i \in 1 .. Len(b) : ((a \o b) \o c)[Len(a) + i] = b[i]
         /\ \A i \in 1 .. Len(c) : ((a \o b) \o c)[Len(a) + Len(b) + i] = c[i]
  <1>1. Len(a) \in Nat /\ Len(b) \in Nat /\ Len(c) \in Nat
    BY LenProperties
  <1>2. /\ a \o b \in Seq(T) /\ Len(a \o b) = Len(a) + Len(b)
        /\ \A i \in 1 .. Len(a) + Len(b) :
             (a \o b)[i] = IF i <= Len(a) THEN a[i] ELSE b[i - Len(a)]
    BY ConcatProperties
  <1> DEFINE ab == a \o b
             abc == ab \o c
  <1>3. ab \in Seq(T)
    BY <1>2
  <1> HIDE DEF ab
  <1>4. /\ abc \in Seq(T) /\ Len(abc) = Len(ab) + Len(c)
        /\ \A i \in 1 .. Len(ab) + Len(c) :
             abc[i] = IF i <= Len(ab) THEN ab[i] ELSE c[i - Len(ab)]
    BY <1>3, ConcatProperties
  <1> HIDE DEF abc
  <1>5. Len(ab) = Len(a) + Len(b)
    BY <1>2 DEF ab
  <1>6. \A i \in 1 .. Len(a) + Len(b) : ab[i] = IF i <= Len(a) THEN a[i] ELSE b[i - Len(a)]
    BY <1>2 DEF ab
  <1>7. \A i \in 1 .. Len(a) : abc[i] = a[i]
    BY <1>1, <1>4, <1>5, <1>6
  <1>8. \A i \in 1 .. Len(b) : abc[Len(a) + i] = b[i]
    <2> TAKE i \in 1 .. Len(b)
    <2>1. /\ Len(a) + i \in 1 .. Len(a) + Len(b) /\ ~(Len(a) + i <= Len(a))
          /\ Len(a) + i \in 1 .. Len(ab) + Len(c) /\ Len(a) + i <= Len(ab)
          /\ (Len(a) + i) - Len(a) = i
      BY <1>1, <1>5
    <2> QED
      BY <1>4, <1>6, <2>1
  <1>9. \A i \in 1 .. Len(c) : abc[Len(a) + Len(b) + i] = c[i]
    <2> TAKE i \in 1 .. Len(c)
    <2>1. /\ Len(a) + Len(b) + i \in 1 .. Len(ab) + Len(c)
          /\ ~(Len(a) + Len(b) + i <= Len(ab))
          /\ (Len(a) + Len(b) + i) - Len(ab) = i
      BY <1>1, <1>5
    <2> QED
      BY <1>4, <2>1
  <1> QED
    BY <1>4, <1>5, <1>7, <1>8, <1>9 DEF abc, ab

LEMMA LineTokens ==
  ASSUME NEW line \in Lines
  PROVE  /\ line.text \in Seq(Marks) /\ line.packet \in Seq(Marks) /\ line.rest \in Seq(Marks)
         /\ \A i \in 1 .. Len(line.text) : line.text[i] # "XX"
         /\ \A i \in 1 .. Len(line.rest) : line.rest[i] # "XX"
         /\ Tokens(line) \in Seq(Marks)
         /\ Len(Tokens(line)) = Len(line.text) + Len(line.packet) + Len(line.rest)
         /\ \A i \in 1 .. Len(line.text) : Tokens(line)[i] = line.text[i]
         /\ \A i \in 1 .. Len(line.packet) :
              Tokens(line)[Len(line.text) + i] = line.packet[i]
         /\ \A i \in 1 .. Len(line.rest) :
              Tokens(line)[Len(line.text) + Len(line.packet) + i] = line.rest[i]
  <1> DEFINE Plain == {"54", "50", "nn"}
  <1>1. line.text \in Seq(Plain) /\ line.rest \in Seq(Plain) /\ line.packet \in Seq(Marks)
    BY LogAssumption DEF Lines, Marks
  <1>2. /\ \A i \in 1 .. Len(line.text) : line.text[i] # "XX"
        /\ \A i \in 1 .. Len(line.rest) : line.rest[i] # "XX"
    BY <1>1, ElementOfSeq
  <1>3. line.text \in Seq(Marks) /\ line.rest \in Seq(Marks)
    BY <1>1, SeqMonotonic DEF Marks
  <1>4. Tokens(line) = (line.text \o line.packet) \o line.rest
    BY DEF Tokens
  <1> DEFINE a == line.text
             b == line.packet
             c == line.rest
  <1>5. a \in Seq(Marks) /\ b \in Seq(Marks) /\ c \in Seq(Marks)
    BY <1>1, <1>3
  <1> HIDE DEF a, b, c
  <1>6. /\ (a \o b) \o c \in Seq(Marks)
        /\ Len((a \o b) \o c) = Len(a) + Len(b) + Len(c)
        /\ \A i \in 1 .. Len(a) : ((a \o b) \o c)[i] = a[i]
        /\ \A i \in 1 .. Len(b) : ((a \o b) \o c)[Len(a) + i] = b[i]
        /\ \A i \in 1 .. Len(c) : ((a \o b) \o c)[Len(a) + Len(b) + i] = c[i]
    BY <1>5, Glued
  <1> QED
    BY <1>1, <1>2, <1>3, <1>4, <1>6, Zenon DEF a, b, c

LEMMA LineLengths ==
  ASSUME NEW line \in Lines
  PROVE  Len(line.text) \in Nat /\ Len(line.packet) \in Nat /\ Len(line.rest) \in Nat
  BY LineTokens, LenProperties

\* An intact packet is a place to start from.
LEMMA IntactStarts ==
  ASSUME NEW line \in Lines, Intact(line.packet)
  PROVE  Len(line.text) + 1 \in Starts(Tokens(line))
  <1>1. /\ Len(line.packet) = PacketLen /\ line.packet[1] = "54" /\ line.packet[2] = "50"
    BY DEF Intact
  <1>2. 1 \in 1 .. Len(line.packet) /\ 2 \in 1 .. Len(line.packet)
    BY <1>1, LengthsAre
  <1>3. /\ Tokens(line)[Len(line.text) + 1] = "54"
        /\ Tokens(line)[Len(line.text) + 2] = "50"
    BY <1>1, <1>2, LineTokens
  <1> DEFINE n == Len(line.text)
  <1>4. Len(Tokens(line)) = n + PacketLen + Len(line.rest) /\ n \in Nat
    BY <1>1, LineTokens, LineLengths
  <1>5. Len(line.rest) \in Nat
    BY LineLengths
  <1> HIDE DEF n
  <1>6. n + 1 \in 1 .. (Len(Tokens(line)) - PacketLen + 1) /\ (n + 1) + 1 = n + 2
    <2>1. \A x, p, y \in Nat : x + 1 \in 1 .. ((x + p + y) - p + 1) /\ (x + 1) + 1 = x + 2
      OBVIOUS
    <2> QED
      BY <1>4, <1>5, <2>1, LengthsAre
  <1>7. Tokens(line)[n + 1] = "54" /\ Tokens(line)[(n + 1) + 1] = "50"
    BY <1>3, <1>6 DEF n
  <1>8. n + 1 \in Starts(Tokens(line))
    BY <1>6, <1>7 DEF Starts
  <1> QED
    BY <1>8 DEF n

\* And the first one, unless the text before it shows the magic.
LEMMA IntactExtracted ==
  ASSUME NEW line \in Lines, Intact(line.packet), ~Misleading(line.text)
  PROVE  Extracted(Tokens(line)) = line.packet
  <1>1. /\ Len(line.packet) = PacketLen /\ line.packet[1] = "54"
        /\ line.packet \in Seq(Marks)
    BY LineTokens DEF Intact
  <1>2. PICK s \in Starts(Tokens(line)) :
          /\ s <= Len(line.text) + 1
          /\ Extracted(Tokens(line)) \in Seq(Marks)
          /\ Len(Extracted(Tokens(line))) = PacketLen
          /\ \A k \in 1 .. PacketLen : Extracted(Tokens(line))[k] = Tokens(line)[s + k - 1]
    BY IntactStarts, LineTokens, ExtractedFirst
  <1>3. s \in Nat /\ s >= 1 /\ Tokens(line)[s] = "54" /\ Tokens(line)[s + 1] = "50"
    BY <1>2 DEF Starts
  <1>4. ~(s < Len(line.text))
    <2> SUFFICES ASSUME s < Len(line.text) PROVE FALSE
      OBVIOUS
    <2>1. s \in 1 .. (Len(line.text) - 1) /\ s \in 1 .. Len(line.text)
          /\ s + 1 \in 1 .. Len(line.text)
      BY <1>3, LineLengths
    <2>2. line.text[s] = "54" /\ line.text[s + 1] = "50"
      BY <1>3, <2>1, LineTokens
    <2> QED
      BY <2>1, <2>2 DEF Misleading
  <1>5. s # Len(line.text)
    <2>1. 1 \in 1 .. Len(line.packet)
      BY <1>1, LengthsAre
    <2>2. Tokens(line)[Len(line.text) + 1] = "54"
      BY <1>1, <2>1, LineTokens
    <2> QED
      BY <1>3, <2>2
  <1>6. s = Len(line.text) + 1
    BY <1>2, <1>3, <1>4, <1>5, LineLengths
  <1>7. \A k \in 1 .. PacketLen : Extracted(Tokens(line))[k] = line.packet[k]
    <2> TAKE k \in 1 .. PacketLen
    <2>1. s + k - 1 = Len(line.text) + k
      BY <1>6, LineLengths, LengthsAre
    <2>2. Tokens(line)[Len(line.text) + k] = line.packet[k]
      BY <1>1, LineTokens
    <2> QED
      BY <1>2, <2>1, <2>2
  <1> QED
    BY <1>1, <1>2, <1>7, SeqEqual

\* Only a printed packet shows a placeholder.
LEMMA PlaceholderPrinted ==
  ASSUME NEW line \in Lines, Extracted(Tokens(line)) # NoPacket,
         Placeholder(Payload(Extracted(Tokens(line))))
  PROVE  Placeholder(line.packet)
  <1> DEFINE found == Extracted(Tokens(line))
  <1>1. PICK s \in Starts(Tokens(line)) :
          /\ found \in Seq(Marks) /\ Len(found) = PacketLen
          /\ \A k \in 1 .. PacketLen : found[k] = Tokens(line)[s + k - 1]
    BY LineTokens, ExtractedFirst, NothingExtracted
  <1>2. PICK t \in DOMAIN Payload(found) : Payload(found)[t] = "XX"
    BY DEF Placeholder
  <1> HIDE DEF found
  <1>3. t \in 1 .. PacketLen /\ found[t] = "XX"
    <2>1. \A i \in 1 .. (PacketLen - CrcLen) : found[i] \in Marks
      BY <1>1, LengthsAre, ElementOfSeq
    <2>2. /\ Payload(found) \in Seq(Marks) /\ Len(Payload(found)) = PacketLen - CrcLen
          /\ \A i \in 1 .. (PacketLen - CrcLen) : Payload(found)[i] = found[1 + i - 1]
      BY <2>1, LengthsAre, SubSeqProperties DEF Payload
    <2>3. t \in 1 .. (PacketLen - CrcLen)
      BY <1>2, <2>2, LenProperties
    <2> QED
      BY <1>2, <2>2, <2>3, LengthsAre
  <1>4. s \in Nat /\ s >= 1 /\ s + PacketLen - 1 <= Len(Tokens(line))
    BY <1>1, LengthsAre, LineTokens, LineLengths DEF Starts
  <1> DEFINE i == s + t - 1
  <1>5. i \in 1 .. Len(Tokens(line)) /\ Tokens(line)[i] = "XX"
    BY <1>1, <1>3, <1>4, LengthsAre, LineTokens, LineLengths
  <1> HIDE DEF i
  <1> DEFINE a == Len(line.text)
             b == Len(line.packet)
             c == Len(line.rest)
  <1>6. /\ a \in Nat /\ b \in Nat /\ c \in Nat /\ i \in 1 .. (a + b + c)
        /\ i \notin 1 .. a
        /\ \A j \in 1 .. c : i # a + b + j
        /\ \A j \in 1 .. b : a + j = i => line.packet[j] = "XX"
    <2>1. \A j \in 1 .. c : Tokens(line)[a + b + j] # "XX"
      BY LineTokens
    <2>2. \A j \in 1 .. b : Tokens(line)[a + j] = line.packet[j]
      BY LineTokens
    <2>3. i \in 1 .. (a + b + c) /\ i \notin 1 .. a
      BY <1>5, LineTokens
    <2> QED
      BY <1>5, <2>1, <2>2, <2>3, LineLengths
  <1> HIDE DEF a, b, c
  <1>7. i <= a + b
    <2> SUFFICES ASSUME i > a + b PROVE FALSE
      BY <1>6
    <2>1. i - (a + b) \in 1 .. c /\ i = a + b + (i - (a + b))
      BY <1>6
    <2> QED
      BY <1>6, <2>1
  <1>8. i - a \in 1 .. b /\ a + (i - a) = i
    BY <1>6, <1>7
  <1>9. line.packet[i - a] = "XX"
    BY <1>6, <1>8
  <1>10. DOMAIN line.packet = 1 .. b
    BY LineTokens, LenProperties DEF b
  <1> QED
    BY <1>8, <1>9, <1>10 DEF Placeholder

-----------------------------------------------------------------------------
(* Rows and exit codes.                                                    *)

Found(n) == Extracted(Tokens(lines[n]))

\* A line has one row at most; one in which a packet is found has that row, or
\* aborted the run; a strict run has no error row.
RowsInv ==
  /\ \A r \in DOMAIN rows : rows[r].line \in DOMAIN lines
  /\ \A r, q \in DOMAIN rows : rows[r].line = rows[q].line => r = q
  /\ \A n \in DOMAIN lines :
       Found(n) # NoPacket =>
         \/ \E r \in DOMAIN rows :
              /\ rows[r].line = n /\ rows[r].packet = Found(n)
              /\ rows[r].crc = Parsed(Found(n))
         \/ exit = "3" /\ n = Len(lines)
  /\ strict => \A r \in DOMAIN rows : rows[r].crc # "parse_error"
  /\ exit = "3" =>
       /\ strict /\ Len(lines) \in DOMAIN lines
       /\ Found(Len(lines)) # NoPacket /\ Parsed(Found(Len(lines))) = "parse_error"
  /\ exit = "4" => rows = <<>>

LogInv == LogTypeOK /\ RowsInv

\* ReadLine, without its LETs.
LEMMA ReadsLine ==
  ASSUME ReadLine
  PROVE  \E line \in Lines : \E packet, crc :
           /\ packet = Extracted(Tokens(line)) /\ crc = Parsed(packet)
           /\ exit = "reading" /\ Len(lines) < MaxLines
           /\ lines' = Append(lines, line) /\ strict' = strict
           /\ \/ packet = NoPacket /\ UNCHANGED <<rows, exit>>
              \/ /\ packet # NoPacket /\ crc = "parse_error" /\ strict
                 /\ exit' = "3" /\ UNCHANGED rows
              \/ /\ packet # NoPacket /\ ~(crc = "parse_error" /\ strict)
                 /\ rows' = Append(rows, [line |-> Len(lines) + 1, packet |-> packet,
                                          crc |-> crc])
                 /\ UNCHANGED exit
  <1>1. PICK line \in Lines :
          /\ lines' = Append(lines, line)
          /\ \/ Extracted(Tokens(line)) = NoPacket /\ UNCHANGED <<rows, exit>>
             \/ /\ Extracted(Tokens(line)) # NoPacket
                /\ Parsed(Extracted(Tokens(line))) = "parse_error" /\ strict
                /\ exit' = "3" /\ UNCHANGED rows
             \/ /\ Extracted(Tokens(line)) # NoPacket
                /\ ~(Parsed(Extracted(Tokens(line))) = "parse_error" /\ strict)
                /\ rows' = Append(rows, [line |-> Len(lines) + 1,
                                         packet |-> Extracted(Tokens(line)),
                                         crc |-> Parsed(Extracted(Tokens(line)))])
                /\ UNCHANGED exit
    BY DEF ReadLine, Aborts, LineNumber
  <1>2. exit = "reading" /\ Len(lines) < MaxLines /\ strict' = strict
    BY DEF ReadLine
  <1> WITNESS line \in Lines
  <1> WITNESS Extracted(Tokens(line)), Parsed(Extracted(Tokens(line)))
  <1> QED
    BY <1>1, <1>2, Zenon

LEMMA LogInvInit == LogInit => LogInv
  BY LogAssumption DEF LogInit, LogInv, LogTypeOK, RowsInv

LEMMA LogInvStep ==
  ASSUME LogInv, [LogNext]_logVars
  PROVE  LogInv'
  <1>1. CASE UNCHANGED logVars
    BY <1>1 DEF logVars, LogInv, LogTypeOK, RowsInv, Found
  <1>2. CASE EndOfInput
    <2>1. /\ UNCHANGED <<strict, lines, rows>> /\ exit' \in {"0", "4"} /\ exit = "reading"
          /\ exit' = "4" => rows = <<>>
      BY <1>2 DEF EndOfInput
    <2> QED
      BY <2>1 DEF LogInv, LogTypeOK, RowsInv, Found
  <1>3. CASE ReadLine
    <2>1. PICK line \in Lines : \E packet, crc :
            /\ packet = Extracted(Tokens(line)) /\ crc = Parsed(packet)
            /\ exit = "reading" /\ Len(lines) < MaxLines
            /\ lines' = Append(lines, line) /\ strict' = strict
            /\ \/ packet = NoPacket /\ UNCHANGED <<rows, exit>>
               \/ /\ packet # NoPacket /\ crc = "parse_error" /\ strict
                  /\ exit' = "3" /\ UNCHANGED rows
               \/ /\ packet # NoPacket /\ ~(crc = "parse_error" /\ strict)
                  /\ rows' = Append(rows, [line |-> Len(lines) + 1, packet |-> packet,
                                           crc |-> crc])
                  /\ UNCHANGED exit
      BY <1>3, ReadsLine
    <2> DEFINE packet == Extracted(Tokens(line))
               crc == Parsed(packet)
               row == [line |-> Len(lines) + 1, packet |-> packet, crc |-> crc]
    <2>2. /\ exit = "reading" /\ Len(lines) < MaxLines
          /\ lines' = Append(lines, line) /\ strict' = strict
          /\ \/ packet = NoPacket /\ UNCHANGED <<rows, exit>>
             \/ /\ packet # NoPacket /\ crc = "parse_error" /\ strict
                /\ exit' = "3" /\ UNCHANGED rows
             \/ /\ packet # NoPacket /\ ~(crc = "parse_error" /\ strict)
                /\ rows' = Append(rows, row)
                /\ UNCHANGED exit
      BY <2>1
    <2>3. packet # NoPacket => packet \in Seq(Marks)
      BY LineTokens, NothingExtracted, ExtractedFirst
    <2>4. crc \in {"checked", "not_checked", "parse_error"}
      BY DEF Parsed
    <2>0. PICK n \in Nat : n = Len(lines) + 1
      BY LenProperties DEF LogInv, LogTypeOK
    <2>5. /\ lines \in Seq(Lines) /\ lines' \in Seq(Lines) /\ Len(lines') = n
          /\ Len(lines) \in Nat /\ n \in 1 .. MaxLines
          /\ lines'[n] = line /\ \A k \in 1 .. Len(lines) : lines'[k] = lines[k]
          /\ DOMAIN lines = 1 .. Len(lines) /\ DOMAIN lines' = 1 .. n
      BY <2>0, <2>2, LogAssumption, AppendProperties, LenProperties DEF LogInv, LogTypeOK
    <2>6. /\ \A k \in DOMAIN lines : Found(k)' = Found(k)
          /\ Found(n)' = packet
      <3>1. ASSUME NEW k \in DOMAIN lines PROVE Found(k)' = Found(k)
        <4>1. lines'[k] = lines[k]
          BY <2>5
        <4> QED
          BY <4>1, Zenon DEF Found
      <3>2. Found(n)' = packet
        BY <2>5, Zenon DEF Found
      <3> QED
        BY <3>1, <3>2
    <2>7. /\ rows \in Seq(Rows) /\ Len(rows) \in Nat /\ Len(rows) <= Len(lines)
          /\ DOMAIN rows = 1 .. Len(rows)
      BY LenProperties DEF LogInv, LogTypeOK
    <2>8. packet # NoPacket => row \in Rows
      BY <2>0, <2>3, <2>4, <2>5 DEF Rows, Marks
    <2> HIDE DEF packet, crc
    <2>9. CASE packet = NoPacket
      <3>1. UNCHANGED <<rows, exit, strict>>
        BY <2>2, <2>9
      <3>2. LogTypeOK'
        <4>1. lines' \in Seq(Lines) /\ Len(lines') <= MaxLines
          BY <2>5, LogAssumption
        <4>2. rows' \in Seq(Rows) /\ Len(rows') <= Len(lines')
          BY <2>0, <2>5, <2>7, <3>1
        <4> QED
          BY <2>2, <3>1, <4>1, <4>2, Zenon DEF LogInv, LogTypeOK
      <3>3. RowsInv'
        BY <2>2, <2>5, <2>6, <2>7, <2>9, <3>1 DEF LogInv, RowsInv
      <3> QED
        BY <3>2, <3>3 DEF LogInv
    <2>10. CASE packet # NoPacket /\ crc = "parse_error" /\ strict
      <3>1. UNCHANGED <<rows, strict>> /\ exit' = "3"
        BY <2>2, <2>10
      <3>2. LogTypeOK'
        BY <2>2, <2>5, <2>7, <3>1 DEF LogInv, LogTypeOK
      <3>3. RowsInv'
        BY <2>2, <2>5, <2>6, <2>7, <2>10, <3>1 DEF LogInv, RowsInv, crc
      <3> QED
        BY <3>2, <3>3 DEF LogInv
    <2>11. CASE packet # NoPacket /\ ~(crc = "parse_error" /\ strict)
      <3>1. UNCHANGED <<exit, strict>> /\ rows' = Append(rows, row)
        BY <2>2, <2>11
      <3>2. /\ row \in Rows /\ row.line = n /\ row.packet = packet /\ row.crc = crc
        BY <2>0, <2>8, <2>11
      <3> DEFINE m == Len(rows) + 1
      <3> HIDE DEF row
      <3>3. /\ rows' \in Seq(Rows) /\ Len(rows') = m /\ m \in Nat
            /\ rows'[m] = row /\ \A r \in 1 .. Len(rows) : rows'[r] = rows[r]
            /\ DOMAIN rows' = 1 .. m /\ 1 .. m = (1 .. Len(rows)) \cup {m}
        BY <2>7, <3>1, <3>2, AppendProperties, LenProperties
      <3>4. LogTypeOK'
        <4>1. lines' \in Seq(Lines) /\ Len(lines') <= MaxLines
          BY <2>5, LogAssumption
        <4>2. rows' \in Seq(Rows) /\ Len(rows') <= Len(lines')
          BY <2>0, <2>5, <2>7, <3>3
        <4> QED
          BY <2>2, <3>1, <4>1, <4>2, Zenon DEF LogInv, LogTypeOK
      <3>5. RowsInv'
        <4>1. \A r \in DOMAIN rows' : rows'[r].line \in DOMAIN lines'
          BY <2>0, <2>5, <2>7, <3>2, <3>3 DEF LogInv, RowsInv
        <4>2. \A r, q \in DOMAIN rows' : rows'[r].line = rows'[q].line => r = q
          BY <2>0, <2>5, <2>7, <3>2, <3>3 DEF LogInv, RowsInv
        <4>3. ASSUME NEW k \in DOMAIN lines', Found(k)' # NoPacket
              PROVE  \E r \in DOMAIN rows' :
                       /\ rows'[r].line = k /\ rows'[r].packet = Found(k)'
                       /\ rows'[r].crc = Parsed(Found(k)')
          <5>1. CASE k = n
            BY <2>6, <3>2, <3>3, <5>1 DEF crc
          <5>2. CASE k # n
            <6>1. k \in DOMAIN lines
              BY <2>0, <2>5, <5>2
            <6>2. Found(k) # NoPacket /\ Found(k)' = Found(k)
              BY <2>6, <4>3, <6>1
            <6>3. PICK r \in DOMAIN rows :
                    /\ rows[r].line = k /\ rows[r].packet = Found(k)
                    /\ rows[r].crc = Parsed(Found(k))
              BY <2>2, <6>1, <6>2 DEF LogInv, RowsInv
            <6>4. r \in DOMAIN rows' /\ rows'[r] = rows[r]
              BY <2>7, <3>3
            <6> QED
              BY <6>2, <6>3, <6>4
          <5> QED
            BY <5>1, <5>2
        <4>4. strict' => \A r \in DOMAIN rows' : rows'[r].crc # "parse_error"
          BY <2>7, <2>11, <3>1, <3>2, <3>3 DEF LogInv, RowsInv
        <4> QED
          BY <2>2, <3>1, <4>1, <4>2, <4>3, <4>4 DEF RowsInv
      <3> QED
        BY <3>4, <3>5 DEF LogInv
    <2> QED
      BY <2>9, <2>10, <2>11
  <1> QED
    BY <1>1, <1>2, <1>3 DEF LogNext

LEMMA LogInvHolds == LogSpec => []LogInv
  BY LogInvInit, LogInvStep, PTL DEF LogSpec

\* The logger's rows are packets with the number of their line, one for a line
\* at most, and its exit code is one of the four (parse_input, main).
THEOREM LogTypesCorrect == LogSpec => []LogTypeOK
<1>1. LogInv => LogTypeOK
  BY DEF LogInv
<1> QED
  BY <1>1, LogInvHolds, PTL

\* No intact packet is lost or read askew, for every length of a packet and
\* whatever surrounds it in its line, unless the text before it shows the magic
\* (extract_packet_tokens, parse_input).
THEOREM IntactPacketsLogged == LogSpec => []IntactPacketLogged
<1>1. LogInv => IntactPacketLogged
  <2> SUFFICES ASSUME LogInv, NEW n \in DOMAIN lines,
                      Intact(lines[n].packet), ~Misleading(lines[n].text)
               PROVE  \E r \in DOMAIN rows :
                        /\ RowsOf(n) = {r}
                        /\ rows[r].packet = lines[n].packet
                        /\ rows[r].crc # "parse_error"
    BY DEF IntactPacketLogged
  <2>1. lines[n] \in Lines
    BY LenProperties, ElementOfSeq DEF LogInv, LogTypeOK
  <2>2. Found(n) = lines[n].packet
    BY <2>1, IntactExtracted DEF Found
  <2>3. Parsed(Found(n)) # "parse_error"
    BY <2>2 DEF Parsed, Intact
  <2>4. Found(n) # NoPacket
    BY <2>1, IntactStarts, LineTokens, ExtractedFirst DEF Found
  <2>5. PICK r \in DOMAIN rows :
          /\ rows[r].line = n /\ rows[r].packet = Found(n) /\ rows[r].crc = Parsed(Found(n))
    BY <2>3, <2>4 DEF LogInv, RowsInv
  <2>6. RowsOf(n) = {r}
    BY <2>5 DEF RowsOf, LogInv, RowsInv
  <2> QED
    BY <2>2, <2>3, <2>5, <2>6
<1> QED
  BY <1>1, LogInvHolds, PTL

\* The exit code tells what was found: 4 of no intact packet at all, 3 of a
\* placeholder under --strict, and 0 under --strict of no error row (main).
THEOREM ExitsExplained == LogSpec => []ExitExplained
<1>1. LogInv => ExitExplained
  <2> SUFFICES ASSUME LogInv PROVE ExitExplained
    OBVIOUS
  <2>1. \A n \in DOMAIN lines : lines[n] \in Lines
    BY LenProperties, ElementOfSeq DEF LogInv, LogTypeOK
  <2>2. ASSUME exit = "4", NEW n \in DOMAIN lines, Intact(lines[n].packet) PROVE FALSE
    <3>1. Found(n) # NoPacket
      BY <2>1, <2>2, IntactStarts, LineTokens, ExtractedFirst DEF Found
    <3>2. rows = <<>> /\ exit # "3"
      BY <2>2 DEF LogInv, RowsInv
    <3>3. \E r \in DOMAIN rows : rows[r].line = n
      BY <3>1, <3>2 DEF LogInv, RowsInv
    <3> QED
      BY <3>2, <3>3
  <2>3. ASSUME exit = "3" PROVE strict /\ Placeholder(lines[Len(lines)].packet)
    <3>1. /\ strict /\ Len(lines) \in DOMAIN lines
          /\ Found(Len(lines)) # NoPacket /\ Parsed(Found(Len(lines))) = "parse_error"
      BY <2>3 DEF LogInv, RowsInv
    <3>2. Placeholder(Payload(Found(Len(lines))))
      BY <3>1 DEF Parsed
    <3> QED
      BY <2>1, <3>1, <3>2, PlaceholderPrinted DEF Found
  <2>4. strict => \A r \in DOMAIN rows : rows[r].crc # "parse_error"
    BY DEF LogInv, RowsInv
  <2> QED
    BY <2>2, <2>3, <2>4 DEF ExitExplained
<1> QED
  BY <1>1, LogInvHolds, PTL
=============================================================================
