-------------------------- MODULE RttPacketLogProofs --------------------------
(***************************************************************************)
(* Proofs about the RTT log (RttPacketLog), for any number of windows,     *)
(* restarts and cut lines: which lines a log consists of, what the parser  *)
(* makes of each, and what that means for the whole log.                   *)
(***************************************************************************)
EXTENDS RttPacketLog, SequenceTheorems, TLAPS

-----------------------------------------------------------------------------
(* Lines as sequences of words.                                            *)

WordSet == [ type : {"text", "tag", "glued", "field"},
             key  : KeySet \cup {"none", "gateway_id", "key", "status"},
             of   : Nat,
             form : {"whole", "wording", "empty", "part", "0x"} ]

LEMMA KeysAre ==
  /\ Len(Keys) = 13 /\ DOMAIN Keys = 1 .. 13
  /\ \A k \in 1 .. 13 : Keys[k] \in KeySet
  /\ \A k, l \in 1 .. 13 : Keys[k] = Keys[l] => k = l
  /\ \A key \in KeySet : \E k \in 1 .. 13 : Keys[k] = key
  /\ "key" \notin KeySet /\ Hex \subseteq KeySet /\ "key" \notin Hex
  <1>1. Len(Keys) = 13 /\ DOMAIN Keys = 1 .. 13
    BY DEF Keys
  <1>2. \A k, l \in 1 .. 13 : Keys[k] = Keys[l] => k = l
    BY DEF Keys
  <1>3. \A k \in 1 .. 13 : Keys[k] # "key"
    BY DEF Keys
  <1>4. Keys[2] = "src" /\ Keys[3] = "dst" /\ Keys[13] = "checksum"
    BY DEF Keys
  <1>5. "key" \notin KeySet
    BY <1>1, <1>3 DEF KeySet
  <1>6. Hex \subseteq KeySet
    BY <1>1, <1>4 DEF KeySet, Hex
  <1> QED
    BY <1>1, <1>2, <1>5, <1>6 DEF KeySet

LEMMA WordsAre ==
  /\ \A type \in {"text", "tag", "glued"} :
       /\ Word(type) \in WordSet /\ Word(type).type = type /\ Word(type).form = "whole"
  /\ \A key \in KeySet, s \in Nat :
       /\ Field(key, s) \in WordSet /\ Field(key, s).type = "field"
       /\ Field(key, s).key = key /\ Field(key, s).of = s /\ Field(key, s).form = "whole"
  /\ \A key \in {"gateway_id", "key", "status"} :
       /\ Wording(key) \in WordSet /\ Wording(key).type = "field"
       /\ Wording(key).key = key /\ Wording(key).of = 0 /\ Wording(key).form = "wording"
  BY DEF Word, Field, Wording, WordSet

LEMMA FragmentsAre ==
  ASSUME NEW word \in WordSet, NEW f \in Fragments(word)
  PROVE  /\ f \in WordSet
         /\ \/ f = Word("text")
            \/ /\ word.type = "field"
               /\ f.type = "field" /\ f.key = word.key /\ f.of = word.of
               /\ f.form \in {"empty", "part", "0x"}
               /\ f.form = "0x" => word.key \in Hex
  <1>1. CASE f = Word("text")
    BY <1>1, WordsAre
  <1>2. CASE f # Word("text")
    <2>1. /\ word.type = "field"
          /\ \E g \in {"empty", "part"} \cup (IF word.key \in Hex THEN {"0x"} ELSE {}) :
               f = [word EXCEPT !.form = g]
      BY <1>2 DEF Fragments
    <2>2. PICK g \in {"empty", "part"} \cup (IF word.key \in Hex THEN {"0x"} ELSE {}) :
            f = [word EXCEPT !.form = g]
      BY <2>1
    <2>3. g \in {"empty", "part", "0x"} /\ (g = "0x" => word.key \in Hex)
      OBVIOUS
    <2>4. /\ f \in WordSet /\ f.type = word.type /\ f.key = word.key /\ f.of = word.of
          /\ f.form = g
      BY <2>2, <2>3 DEF WordSet
    <2> QED
      BY <2>1, <2>3, <2>4
  <1> QED
    BY <1>1, <1>2

\* A cut line is the beginning of the line, its last word perhaps cut.
LEMMA CutsAre ==
  ASSUME NEW line \in Seq(WordSet), NEW c \in CutShort(line)
  PROVE  /\ c \in Seq(WordSet) /\ Len(c) <= Len(line)
         /\ \A j \in 1 .. Len(c) : j < Len(c) => c[j] = line[j]
         /\ \/ Len(c) < Len(line) /\ \A j \in 1 .. Len(c) : c[j] = line[j]
            \/ Len(c) > 0 /\ c[Len(c)] \in Fragments(line[Len(c)])
  <1>0. Len(line) \in Nat
    BY LenProperties
  <1>1. PICK k \in 0 .. Len(line) - 1 :
          \/ c = SubSeq(line, 1, k)
          \/ \E f \in Fragments(line[k + 1]) : c = Append(SubSeq(line, 1, k), f)
    BY DEF CutShort
  <1> DEFINE d == SubSeq(line, 1, k)
  <1>2. d \in Seq(WordSet) /\ Len(d) = k /\ \A j \in 1 .. k : d[j] = line[j]
    <2>1. k \in Nat /\ k <= Len(line) /\ \A j \in 1 .. k : line[j] \in WordSet
      BY <1>0, ElementOfSeq
    <2>2. CASE k = 0
      <3>1. d = <<>>
        BY <1>0, <2>2
      <3> QED
        BY <2>2, <3>1
    <2>3. CASE k # 0
      <3>1. d \in Seq(WordSet) /\ Len(d) = k - 1 + 1
            /\ \A j \in 1 .. k - 1 + 1 : d[j] = line[1 + j - 1]
        BY <2>1, <2>3, SubSeqProperties
      <3> QED
        BY <2>1, <3>1
    <2> QED
      BY <2>2, <2>3
  <1> HIDE DEF d
  <1>3. CASE c = d
    BY <1>0, <1>2, <1>3
  <1>4. ASSUME NEW f \in Fragments(line[k + 1]), c = Append(d, f)
        PROVE  /\ c \in Seq(WordSet) /\ Len(c) = k + 1 /\ c[k + 1] = f
               /\ \A j \in 1 .. k : c[j] = line[j]
    <2>1. line[k + 1] \in WordSet
      BY <1>0, ElementOfSeq
    <2>2. f \in WordSet
      BY <2>1, FragmentsAre
    <2> QED
      BY <1>2, <1>4, <2>2, AppendProperties
  <1>5. ASSUME NEW f \in Fragments(line[k + 1]), c = Append(d, f)
        PROVE  /\ c \in Seq(WordSet) /\ Len(c) <= Len(line)
               /\ \A j \in 1 .. Len(c) : j < Len(c) => c[j] = line[j]
               /\ Len(c) > 0 /\ c[Len(c)] \in Fragments(line[Len(c)])
    BY <1>0, <1>4, <1>5
  <1> QED
    BY <1>1, <1>3, <1>5 DEF d

-----------------------------------------------------------------------------
(* The lines that a program prints.                                        *)

\* Where the tag of a packet line stands.
TagAt == IF viewer THEN 2 ELSE 1

\* Neither tag.
Plain(l) ==
  l \in Seq(WordSet) /\ \A j \in 1 .. Len(l) : l[j].type \notin {"tag", "glued"}

\* A packet line of window s, or its beginning: m of its fields are whole, and
\* the next may have been cut.
PacketPart(at, l, s, m) ==
  /\ l \in Seq(WordSet) /\ m \in 0 .. 13
  /\ \A j \in 1 .. at - 1 : l[j] = Word("text")
  /\ l[at] = Word("tag")
  /\ \A j \in 1 .. m : l[at + j] = Field(Keys[j], s)
  /\ \/ Len(l) = at + m
     \/ /\ Len(l) = at + m + 1 /\ m < 13
        /\ l[Len(l)] \in Fragments(Field(Keys[m + 1], s))

\* The line that announces the format, or its beginning.
FormatPart(at, l) ==
  /\ l \in Seq(WordSet) /\ Len(l) <= at + 1
  /\ \A j \in 1 .. Len(l) : j < at => l[j] = Word("text")
  /\ at \in 1 .. Len(l) => l[at] = Word("glued")
  /\ at + 1 \in 1 .. Len(l) =>
       l[at + 1] \in {Wording("key")} \cup Fragments(Wording("key"))

LogLine(at, l) ==
  \/ Plain(l)
  \/ FormatPart(at, l)
  \/ \E s \in 1 .. MaxWindows, m \in 0 .. 13 : PacketPart(at, l, s, m)

LEMMA Prefixed ==
  ASSUME NEW body \in Seq(WordSet), viewer \in BOOLEAN
  PROVE  LET l == (IF viewer THEN <<Word("text")>> ELSE <<>>) \o body
         IN  /\ l \in Seq(WordSet) /\ Len(l) = TagAt - 1 + Len(body)
             /\ \A j \in 1 .. TagAt - 1 : l[j] = Word("text")
             /\ \A j \in 1 .. Len(body) : l[TagAt - 1 + j] = body[j]
  <1>0. Len(body) \in Nat
    BY LenProperties
  <1>1. CASE viewer
    <2> DEFINE head == <<Word("text")>>
    <2>1. head \in Seq(WordSet) /\ Len(head) = 1 /\ head[1] = Word("text")
      BY WordsAre
    <2> HIDE DEF head
    <2>2. /\ head \o body \in Seq(WordSet) /\ Len(head \o body) = 1 + Len(body)
          /\ \A j \in 1 .. 1 + Len(body) :
               (head \o body)[j] = IF j <= 1 THEN head[j] ELSE body[j - 1]
      <3>1. /\ head \o body \in Seq(WordSet) /\ Len(head \o body) = Len(head) + Len(body)
            /\ \A j \in 1 .. Len(head) + Len(body) :
                 (head \o body)[j] = IF j <= Len(head) THEN head[j] ELSE body[j - Len(head)]
        BY <2>1, ConcatProperties
      <3> QED
        BY <2>1, <3>1
    <2>3. TagAt = 2
      BY <1>1 DEF TagAt
    <2>4. /\ (head \o body)[1] = Word("text")
          /\ \A j \in 1 .. Len(body) : (head \o body)[1 + j] = body[j]
      BY <1>0, <2>1, <2>2
    <2>5. (IF viewer THEN <<Word("text")>> ELSE <<>>) \o body = head \o body
      BY <1>1 DEF head
    <2> QED
      BY <2>2, <2>3, <2>4, <2>5
  <1>2. CASE ~viewer
    <2>1. TagAt = 1
      BY <1>2 DEF TagAt
    <2>2. (IF viewer THEN <<Word("text")>> ELSE <<>>) \o body = body
      BY <1>2
    <2> QED
      BY <1>0, <2>1, <2>2
  <1> QED
    BY <1>1, <1>2

LEMMA PacketLine ==
  ASSUME NEW s \in Nat, viewer \in BOOLEAN
  PROVE  PacketPart(TagAt, Line("packet", s), s, 13)
  <1> DEFINE fields == [k \in 1 .. Len(Keys) |-> Field(Keys[k], s)]
             body   == <<Word("tag")>> \o fields
             prefix == IF viewer THEN <<Word("text")>> ELSE <<>>
  <1>1. fields \in Seq(WordSet) /\ Len(fields) = 13
        /\ \A j \in 1 .. 13 : fields[j] = Field(Keys[j], s)
    <2>1. fields \in [1 .. 13 -> WordSet]
      BY KeysAre, WordsAre
    <2> QED
      BY <2>1, KeysAre
  <1> HIDE DEF fields
  <1>2. body \in Seq(WordSet) /\ Len(body) = 14 /\ body[1] = Word("tag")
        /\ \A j \in 1 .. 13 : body[1 + j] = Field(Keys[j], s)
    <2> DEFINE tag == <<Word("tag")>>
    <2>1. tag \in Seq(WordSet) /\ Len(tag) = 1 /\ tag[1] = Word("tag")
      BY WordsAre
    <2> HIDE DEF tag
    <2>2. /\ tag \o fields \in Seq(WordSet) /\ Len(tag \o fields) = Len(tag) + Len(fields)
          /\ \A j \in 1 .. Len(tag) + Len(fields) :
               (tag \o fields)[j] = IF j <= Len(tag) THEN tag[j] ELSE fields[j - Len(tag)]
      BY <1>1, <2>1, ConcatProperties
    <2>3. body = tag \o fields
      BY DEF tag
    <2> HIDE DEF body
    <2>4. Len(body) = 14 /\ \A j \in 1 .. 14 : body[j] = IF j <= 1 THEN tag[j] ELSE fields[j - 1]
      <3>1. Len(body) = Len(tag) + Len(fields)
            /\ \A j \in 1 .. Len(tag) + Len(fields) :
                 body[j] = IF j <= Len(tag) THEN tag[j] ELSE fields[j - Len(tag)]
        BY <2>2, <2>3, Zenon
      <3>2. Len(tag) = 1 /\ Len(fields) = 13 /\ 1 + 13 = 14
        BY <1>1, <2>1
      <3> QED
        BY <3>1, <3>2, Zenon
    <2>5. \A j \in 1 .. 13 : body[1 + j] = fields[j]
      BY <2>4
    <2>6. body[1] = Word("tag")
      BY <2>1, <2>4
    <2>7. \A j \in 1 .. 13 : body[1 + j] = Field(Keys[j], s)
      BY <1>1, <2>5
    <2> QED
      BY <2>2, <2>3, <2>4, <2>6, <2>7
  <1> HIDE DEF body
  <1>3. Line("packet", s) = prefix \o body
    BY DEF Line, body, fields
  <1> DEFINE l == prefix \o body
  <1>4. /\ l \in Seq(WordSet) /\ Len(l) = TagAt - 1 + Len(body)
        /\ \A j \in 1 .. TagAt - 1 : l[j] = Word("text")
        /\ \A j \in 1 .. Len(body) : l[TagAt - 1 + j] = body[j]
    BY <1>2, Prefixed
  <1> HIDE DEF l
  <1>5. /\ TagAt \in {1, 2} /\ Len(l) = TagAt + 13 /\ l[TagAt] = Word("tag")
        /\ \A j \in 1 .. 13 : l[TagAt + j] = Field(Keys[j], s)
    <2>1. TagAt \in {1, 2}
      BY DEF TagAt
    <2>2. l[TagAt - 1 + 1] = body[1] /\ \A j \in 1 .. 13 : l[TagAt - 1 + (1 + j)] = body[1 + j]
      BY <1>2, <1>4
    <2>3. TagAt - 1 + 1 = TagAt /\ \A j \in 1 .. 13 : TagAt - 1 + (1 + j) = TagAt + j
      BY <2>1
    <2> QED
      BY <1>2, <1>4, <2>1, <2>2, <2>3
  <1>6. PacketPart(TagAt, l, s, 13)
    <2>1. 13 \in 0 .. 13
      OBVIOUS
    <2> QED
      BY <1>4, <1>5, <2>1, Zenon DEF PacketPart
  <1> QED
    BY <1>3, <1>6 DEF l

LEMMA FormatLine ==
  ASSUME NEW s \in Nat, viewer \in BOOLEAN
  PROVE  FormatPart(TagAt, Line("format", s)) /\ Len(Line("format", s)) = TagAt + 1
  <1> DEFINE body   == <<Word("glued"), Wording("key")>>
             prefix == IF viewer THEN <<Word("text")>> ELSE <<>>
  <1>1. body \in Seq(WordSet) /\ Len(body) = 2 /\ body[1] = Word("glued")
        /\ body[2] = Wording("key")
    BY WordsAre
  <1> HIDE DEF body
  <1>2. Line("format", s) = prefix \o body
    BY DEF Line, body
  <1> DEFINE l == prefix \o body
  <1>3. /\ l \in Seq(WordSet) /\ Len(l) = TagAt - 1 + Len(body)
        /\ \A j \in 1 .. TagAt - 1 : l[j] = Word("text")
        /\ \A j \in 1 .. Len(body) : l[TagAt - 1 + j] = body[j]
    BY <1>1, Prefixed
  <1> HIDE DEF l
  <1>4. TagAt \in {1, 2} /\ Len(l) = TagAt + 1
        /\ l[TagAt] = Word("glued") /\ l[TagAt + 1] = Wording("key")
    <2>1. TagAt \in {1, 2}
      BY DEF TagAt
    <2>2. l[TagAt - 1 + 1] = body[1] /\ l[TagAt - 1 + 2] = body[2]
      BY <1>1, <1>3
    <2>3. TagAt - 1 + 1 = TagAt /\ TagAt - 1 + 2 = TagAt + 1
      BY <2>1
    <2> QED
      BY <1>1, <1>3, <2>1, <2>2, <2>3
  <1>5. FormatPart(TagAt, l) /\ Len(l) = TagAt + 1
    BY <1>3, <1>4 DEF FormatPart
  <1> QED
    BY <1>2, <1>5 DEF l

LEMMA PlainLine ==
  ASSUME NEW s \in Nat, viewer \in BOOLEAN,
         NEW kind \in {"title", "id", "status", "poll", "ready"}
  PROVE  Plain(Line(kind, s))
  <1> DEFINE prefix == IF viewer THEN <<Word("text")>> ELSE <<>>
  <1>1. ASSUME NEW body \in Seq(WordSet),
               \A j \in 1 .. Len(body) : body[j].type \notin {"tag", "glued"}
        PROVE  Plain(prefix \o body)
    <2> DEFINE l == prefix \o body
    <2>1. /\ l \in Seq(WordSet) /\ Len(l) = TagAt - 1 + Len(body)
          /\ \A j \in 1 .. TagAt - 1 : l[j] = Word("text")
          /\ \A j \in 1 .. Len(body) : l[TagAt - 1 + j] = body[j]
      BY Prefixed
    <2> HIDE DEF l
    <2>2. TagAt \in {1, 2} /\ Len(body) \in Nat
      BY LenProperties DEF TagAt
    <2>3. ASSUME NEW j \in 1 .. Len(l) PROVE l[j].type \notin {"tag", "glued"}
      <3>1. CASE j < TagAt
        <4>1. j \in 1 .. TagAt - 1
          BY <2>2, <3>1
        <4> QED
          BY <2>1, <4>1, WordsAre
      <3>2. CASE ~(j < TagAt)
        <4>1. j - TagAt + 1 \in 1 .. Len(body) /\ TagAt - 1 + (j - TagAt + 1) = j
          BY <2>1, <2>2, <3>2
        <4> QED
          BY <1>1, <2>1, <4>1
      <3> QED
        BY <3>1, <3>2
    <2>4. Plain(l)
      BY <2>1, <2>3 DEF Plain
    <2> QED
      BY <2>4 DEF l
  <1>2. ASSUME NEW a \in WordSet, a.type \notin {"tag", "glued"}
        PROVE  Plain(prefix \o <<a>>)
    <2>1. <<a>> \in Seq(WordSet) /\ \A j \in 1 .. Len(<<a>>) : <<a>>[j].type \notin {"tag", "glued"}
      BY <1>2
    <2> QED
      BY <1>1, <2>1
  <1>3. ASSUME NEW a \in WordSet, a.type \notin {"tag", "glued"},
               NEW b \in WordSet, b.type \notin {"tag", "glued"}
        PROVE  Plain(prefix \o <<a, b>>)
    <2>1. /\ <<a, b>> \in Seq(WordSet)
          /\ \A j \in 1 .. Len(<<a, b>>) : <<a, b>>[j].type \notin {"tag", "glued"}
      BY <1>3
    <2> QED
      BY <1>1, <2>1
  <1>4. ASSUME NEW a \in WordSet, a.type \notin {"tag", "glued"},
               NEW b \in WordSet, b.type \notin {"tag", "glued"},
               NEW c \in WordSet, c.type \notin {"tag", "glued"}
        PROVE  Plain(prefix \o <<a, b, c>>)
    <2>1. /\ <<a, b, c>> \in Seq(WordSet)
          /\ \A j \in 1 .. Len(<<a, b, c>>) : <<a, b, c>>[j].type \notin {"tag", "glued"}
      BY <1>4
    <2> QED
      BY <1>1, <2>1
  <1>5. "seq" \in KeySet /\ "dst" \in KeySet /\ "checksum" \in KeySet
    <2>1. Keys[1] = "seq" /\ Keys[3] = "dst" /\ Keys[13] = "checksum"
      BY DEF Keys
    <2> QED
      BY <2>1, KeysAre
  <1>6. CASE kind = "title"
    <2>1. Line(kind, s) = prefix \o <<Word("text")>>
      BY <1>6 DEF Line
    <2> QED
      BY <1>2, <2>1, WordsAre
  <1>7. CASE kind = "id"
    <2>1. Line(kind, s) = prefix \o <<Wording("gateway_id")>>
      BY <1>7 DEF Line
    <2> QED
      BY <1>2, <2>1, WordsAre
  <1>8. CASE kind = "status"
    <2>1. Line(kind, s) = prefix \o <<Wording("status"), Word("text")>>
      BY <1>8 DEF Line
    <2> QED
      BY <1>3, <2>1, WordsAre
  <1>9. CASE kind = "poll"
    <2>1. Line(kind, s) = prefix \o <<Word("text"), Field("seq", s), Field("dst", s)>>
      BY <1>9 DEF Line
    <2> QED
      BY <1>4, <1>5, <2>1, WordsAre
  <1>10. CASE kind = "ready"
    <2>1. Line(kind, s) = prefix \o <<Word("text"), Field("seq", s), Field("checksum", s)>>
      BY <1>10 DEF Line
    <2> QED
      BY <1>4, <1>5, <2>1, WordsAre
  <1> QED
    BY <1>6, <1>7, <1>8, <1>9, <1>10

-----------------------------------------------------------------------------
(* What a cut makes of them.                                               *)

LEMMA FragmentOfWord ==
  ASSUME NEW type \in {"text", "tag", "glued"}, NEW f \in Fragments(Word(type))
  PROVE  f = Word("text")
  BY WordsAre DEF Fragments

LEMMA TextIsPlain == Word("text").type \notin {"tag", "glued"}
  BY WordsAre

LEMMA CutOfPlain ==
  ASSUME NEW line, Plain(line), NEW c \in CutShort(line)
  PROVE  Plain(c)
  <1>1. line \in Seq(WordSet) /\ Len(line) \in Nat
    BY LenProperties DEF Plain
  <1>2. /\ c \in Seq(WordSet) /\ Len(c) <= Len(line) /\ Len(c) \in Nat
        /\ \A j \in 1 .. Len(c) : j < Len(c) => c[j] = line[j]
        /\ \/ Len(c) < Len(line) /\ \A j \in 1 .. Len(c) : c[j] = line[j]
           \/ Len(c) > 0 /\ c[Len(c)] \in Fragments(line[Len(c)])
    BY <1>1, CutsAre, LenProperties
  <1>3. ASSUME NEW j \in 1 .. Len(c)
        PROVE  c[j].type \notin {"tag", "glued"}
    <2>1. j \in 1 .. Len(line) /\ line[j] \in WordSet /\ line[j].type \notin {"tag", "glued"}
      BY <1>1, <1>2, ElementOfSeq DEF Plain
    <2>2. CASE c[j] = line[j]
      BY <2>1, <2>2
    <2>3. CASE j = Len(c) /\ c[j] \in Fragments(line[j])
      <3>1. c[j] = Word("text") \/ c[j].type = "field"
        BY <2>1, <2>3, FragmentsAre
      <3> QED
        BY <3>1, TextIsPlain
    <2> QED
      BY <1>2, <2>2, <2>3
  <1> QED
    BY <1>2, <1>3 DEF Plain

LEMMA CutOfFormat ==
  ASSUME NEW at \in {1, 2}, NEW line, FormatPart(at, line), Len(line) = at + 1,
         NEW c \in CutShort(line)
  PROVE  Plain(c) \/ FormatPart(at, c)
  <1>1. /\ line \in Seq(WordSet)
        /\ \A j \in 1 .. at - 1 : line[j] = Word("text")
        /\ line[at] = Word("glued")
        /\ line[at + 1] \in {Wording("key")} \cup Fragments(Wording("key"))
    <2>1. at \in 1 .. Len(line) /\ at + 1 \in 1 .. Len(line)
          /\ \A j \in 1 .. at - 1 : j \in 1 .. Len(line) /\ j < at
      OBVIOUS
    <2> QED
      BY <2>1 DEF FormatPart
  <1>2. /\ c \in Seq(WordSet) /\ Len(c) <= Len(line) /\ Len(c) \in Nat
        /\ \A j \in 1 .. Len(c) : j < Len(c) => c[j] = line[j]
        /\ \/ Len(c) < Len(line) /\ \A j \in 1 .. Len(c) : c[j] = line[j]
           \/ Len(c) > 0 /\ c[Len(c)] \in Fragments(line[Len(c)])
    BY <1>1, CutsAre, LenProperties
  <1>3. \A j \in 1 .. Len(c) : j < at => c[j] = Word("text")
    <2> SUFFICES ASSUME NEW j \in 1 .. Len(c), j < at PROVE c[j] = Word("text")
      OBVIOUS
    <2>1. line[j] = Word("text")
      BY <1>1, <1>2
    <2>2. CASE c[j] = line[j]
      BY <2>1, <2>2
    <2>3. CASE c[j] \in Fragments(line[j])
      BY <2>1, <2>3, FragmentOfWord
    <2> QED
      BY <1>2, <2>2, <2>3
  <1>4. CASE Len(c) < at
    <2>1. \A j \in 1 .. Len(c) : c[j] = Word("text")
      BY <1>2, <1>3, <1>4
    <2> QED
      BY <1>2, <2>1, TextIsPlain DEF Plain
  <1>5. CASE Len(c) = at /\ c[at] \in Fragments(line[at])
    <2>1. c[at] = Word("text")
      BY <1>1, <1>5, FragmentOfWord
    <2>2. \A j \in 1 .. Len(c) : c[j] = Word("text")
      BY <1>2, <1>3, <1>5, <2>1
    <2> QED
      BY <1>2, <2>2, TextIsPlain DEF Plain
  <1>6. CASE Len(c) = at /\ c[at] = line[at]
    BY <1>1, <1>2, <1>3, <1>6 DEF FormatPart
  <1>7. CASE Len(c) = at + 1
    <2>1. c[at + 1] \in Fragments(line[at + 1]) /\ c[at] = line[at]
      BY <1>2, <1>7
    <2>2. CASE line[at + 1] = Wording("key")
      BY <1>1, <1>2, <1>3, <1>7, <2>1, <2>2 DEF FormatPart
    <2>3. ASSUME line[at + 1] \in Fragments(Wording("key"))
          PROVE  c[at + 1] \in Fragments(Wording("key"))
      <3>1. /\ Wording("key") \in WordSet /\ Wording("key").key = "key"
            /\ "key" \notin Hex /\ Wording("key").type = "field"
        BY WordsAre, KeysAre
      <3>2. \/ line[at + 1] = Word("text")
            \/ \E f \in {"empty", "part"} : line[at + 1] = [Wording("key") EXCEPT !.form = f]
        BY <2>3, <3>1 DEF Fragments
      <3>3. CASE line[at + 1] = Word("text")
        <4>1. c[at + 1] = Word("text")
          BY <2>1, <3>3, FragmentOfWord
        <4> QED
          BY <4>1 DEF Fragments
      <3>4. ASSUME NEW f \in {"empty", "part"},
                   line[at + 1] = [Wording("key") EXCEPT !.form = f]
            PROVE  c[at + 1] \in Fragments(Wording("key"))
        <4>1. [Wording("key") EXCEPT !.form = f].type = "field"
              /\ [Wording("key") EXCEPT !.form = f].key = "key"
              /\ \A g : [[Wording("key") EXCEPT !.form = f] EXCEPT !.form = g]
                          = [Wording("key") EXCEPT !.form = g]
          BY DEF Wording, Field
        <4>2. \/ c[at + 1] = Word("text")
              \/ \E g \in {"empty", "part"} :
                   c[at + 1] = [[Wording("key") EXCEPT !.form = f] EXCEPT !.form = g]
          BY <2>1, <3>1, <3>4, <4>1 DEF Fragments
        <4>3. \/ c[at + 1] = Word("text")
              \/ \E g \in {"empty", "part"} : c[at + 1] = [Wording("key") EXCEPT !.form = g]
          BY <4>1, <4>2
        <4> QED
          BY <3>1, <4>3 DEF Fragments
      <3> QED
        BY <3>2, <3>3, <3>4
    <2> QED
      BY <1>1, <1>2, <1>3, <1>7, <2>1, <2>2, <2>3 DEF FormatPart
  <1> QED
    BY <1>2, <1>4, <1>5, <1>6, <1>7

LEMMA WholeFields ==
  ASSUME NEW at \in {1, 2}, NEW n \in Nat, n >= at, n < at + 13
  PROVE  \E m \in 0 .. 12 :
           /\ n = at + m /\ n + 1 = at + m + 1 /\ n + 1 = at + (m + 1)
           /\ m \in 0 .. 13 /\ m < 13 /\ m + 1 \in 1 .. 13
           /\ \A j \in 1 .. m : j \in 1 .. 13 /\ at + j \in 1 .. n
  <1>1. CASE at = 1
    <2>1. n - 1 \in 0 .. 12 /\ n = 1 + (n - 1)
      BY <1>1
    <2> QED
      BY <1>1, <2>1
  <1>2. CASE at = 2
    <2>1. n - 2 \in 0 .. 12 /\ n = 2 + (n - 2)
      BY <1>2
    <2> QED
      BY <1>2, <2>1
  <1> QED
    BY <1>1, <1>2

LEMMA CutOfPacket ==
  ASSUME NEW at \in {1, 2}, NEW s \in Nat, NEW line, PacketPart(at, line, s, 13),
         NEW c \in CutShort(line)
  PROVE  Plain(c) \/ \E m \in 0 .. 12 : PacketPart(at, c, s, m)
  <1>1. /\ line \in Seq(WordSet) /\ Len(line) = at + 13
        /\ \A j \in 1 .. at - 1 : line[j] = Word("text")
        /\ line[at] = Word("tag")
        /\ \A j \in 1 .. 13 : line[at + j] = Field(Keys[j], s)
    BY DEF PacketPart
  <1>2. /\ c \in Seq(WordSet) /\ Len(c) <= Len(line) /\ Len(c) \in Nat
        /\ \A j \in 1 .. Len(c) : j < Len(c) => c[j] = line[j]
        /\ \/ Len(c) < Len(line) /\ \A j \in 1 .. Len(c) : c[j] = line[j]
           \/ Len(c) > 0 /\ c[Len(c)] \in Fragments(line[Len(c)])
    BY <1>1, CutsAre, LenProperties
  <1>3. \A j \in 1 .. Len(c) : j < at => c[j] = Word("text")
    <2> SUFFICES ASSUME NEW j \in 1 .. Len(c), j < at PROVE c[j] = Word("text")
      OBVIOUS
    <2>1. line[j] = Word("text")
      BY <1>1, <1>2
    <2>2. CASE c[j] = line[j]
      BY <2>1, <2>2
    <2>3. CASE c[j] \in Fragments(line[j])
      BY <2>1, <2>3, FragmentOfWord
    <2> QED
      BY <1>2, <2>2, <2>3
  <1>4. CASE Len(c) < at
    <2>1. \A j \in 1 .. Len(c) : c[j] = Word("text")
      BY <1>2, <1>3, <1>4
    <2> QED
      BY <1>2, <2>1, TextIsPlain DEF Plain
  <1>5. CASE Len(c) = at /\ c[at] \in Fragments(line[at])
    <2>1. c[at] = Word("text")
      BY <1>1, <1>5, FragmentOfWord
    <2>2. \A j \in 1 .. Len(c) : c[j] = Word("text")
      BY <1>2, <1>3, <1>5, <2>1
    <2> QED
      BY <1>2, <2>2, TextIsPlain DEF Plain
  <1> DEFINE n == Len(c)
  <1>6. CASE n >= at /\ n < Len(line) /\ \A j \in 1 .. n : c[j] = line[j]
    <2>1. n \in Nat /\ n < at + 13 /\ \A j \in 1 .. n : c[j] = line[j]
      BY <1>1, <1>2, <1>6
    <2>2. PICK m \in 0 .. 12 :
            /\ n = at + m /\ m \in 0 .. 13
            /\ \A j \in 1 .. m : j \in 1 .. 13 /\ at + j \in 1 .. n
      BY <1>6, <2>1, WholeFields
    <2>3. c[at] = Word("tag") /\ \A j \in 1 .. at - 1 : c[j] = Word("text")
      <3>1. n \in Nat
        BY <1>2
      <3> HIDE DEF n
      <3>2. at \in 1 .. n /\ \A j \in 1 .. at - 1 : j \in 1 .. n /\ j < at
        BY <1>6, <3>1
      <3>3. \A j \in 1 .. n : j < at => c[j] = Word("text")
        BY <1>3 DEF n
      <3> QED
        BY <1>1, <2>1, <3>2, <3>3, Zenon
    <2>4. \A j \in 1 .. m : c[at + j] = Field(Keys[j], s)
      BY <1>1, <2>1, <2>2, Zenon
    <2>5. PacketPart(at, c, s, m)
      BY <1>2, <2>2, <2>3, <2>4 DEF PacketPart
    <2> QED
      BY <2>5
  <1>7. CASE n > at /\ c[n] \in Fragments(line[n])
    <2>1. n - 1 \in Nat /\ n - 1 >= at /\ n - 1 < at + 13 /\ n - 1 + 1 = n
      <3>1. n \in Nat /\ Len(line) = at + 13 /\ n <= Len(line)
        BY <1>1, <1>2
      <3> HIDE DEF n
      <3> QED
        BY <1>7, <3>1
    <2>2. PICK m \in 0 .. 12 :
            /\ n = at + m + 1 /\ n = at + (m + 1)
            /\ m \in 0 .. 13 /\ m < 13 /\ m + 1 \in 1 .. 13
            /\ \A j \in 1 .. m : j \in 1 .. 13 /\ at + j \in 1 .. n - 1
      BY <2>1, WholeFields
    <2>3. c[at] = Word("tag") /\ \A j \in 1 .. at - 1 : c[j] = Word("text")
      <3>1. n \in Nat /\ (\A j \in 1 .. n : j < n => c[j] = line[j])
            /\ \A j \in 1 .. n : j < at => c[j] = Word("text")
        BY <1>2, <1>3
      <3> HIDE DEF n
      <3>2. at \in 1 .. n /\ at < n /\ \A j \in 1 .. at - 1 : j \in 1 .. n /\ j < at
        BY <1>7, <3>1
      <3> QED
        BY <1>1, <3>1, <3>2, Zenon
    <2>4. ASSUME NEW j \in 1 .. m PROVE c[at + j] = Field(Keys[j], s)
      <3>1. j \in 1 .. 13 /\ at + j \in 1 .. n /\ at + j < n
        BY <1>2, <2>2
      <3> QED
        BY <1>1, <1>2, <3>1
    <2>5. line[n] = Field(Keys[m + 1], s)
      BY <1>1, <2>2, Zenon
    <2>6. c[n] \in Fragments(Field(Keys[m + 1], s))
      BY <1>7, <2>5
    <2>7. PacketPart(at, c, s, m)
      BY <1>2, <2>2, <2>3, <2>4, <2>6 DEF PacketPart
    <2> QED
      BY <2>7
  <1>8. \/ n < at \/ (n = at /\ c[at] \in Fragments(line[at]))
        \/ (n >= at /\ n < Len(line) /\ \A j \in 1 .. n : c[j] = line[j])
        \/ (n > at /\ c[n] \in Fragments(line[n]))
    <2>1. n < at \/ n = at \/ n > at
      BY <1>2
    <2>2. n > at => n >= at
      BY <1>2
    <2>3. n = at => n >= at
      OBVIOUS
    <2> QED
      BY <1>2, <2>1, <2>2, <2>3, Zenon
  <1> QED
    BY <1>4, <1>5, <1>6, <1>7, <1>8

LEMMA PartOf ==
  ASSUME NEW q \in Seq(WordSet), NEW h \in Int, NEW k \in Int, 1 <= h, k <= Len(q)
  PROVE  /\ SubSeq(q, h, k) \in Seq(WordSet)
         /\ \A j \in 1 .. Len(SubSeq(q, h, k)) :
              h + j - 1 \in h .. k /\ SubSeq(q, h, k)[j] = q[h + j - 1]
  <1>1. \A i \in h .. k : q[i] \in WordSet
    BY LenProperties, ElementOfSeq
  <1>2. /\ SubSeq(q, h, k) \in Seq(WordSet)
        /\ Len(SubSeq(q, h, k)) = IF h <= k THEN k - h + 1 ELSE 0
        /\ \A j \in 1 .. k - h + 1 : SubSeq(q, h, k)[j] = q[h + j - 1]
    BY <1>1, SubSeqProperties
  <1> QED
    BY <1>2

LEMMA HeadlessIsPlain ==
  ASSUME NEW s \in Nat, viewer \in BOOLEAN, NEW l \in Headless(s)
  PROVE  Plain(l)
  <1> DEFINE line == Line("packet", s)
  <1>1. /\ TagAt \in {1, 2} /\ TagAt = IF viewer THEN 2 ELSE 1
        /\ line \in Seq(WordSet) /\ Len(line) = TagAt + 13
        /\ \A j \in 1 .. TagAt - 1 : line[j] = Word("text")
        /\ \A j \in 1 .. 13 : line[TagAt + j] = Field(Keys[j], s)
    BY PacketLine DEF PacketPart, TagAt
  <1>2. \E k \in TagAt + 1 .. Len(line) :
          l = SubSeq(line, 1, TagAt - 1) \o SubSeq(line, k, Len(line))
    BY Zenon, <1>1 DEF Headless
  <1>3. PICK k \in TagAt + 1 .. Len(line) :
          l = SubSeq(line, 1, TagAt - 1) \o SubSeq(line, k, Len(line))
    BY <1>2
  <1> HIDE DEF line
  <1> DEFINE a == SubSeq(line, 1, TagAt - 1)
             b == SubSeq(line, k, Len(line))
  <1>4. a \in Seq(WordSet) /\ \A j \in 1 .. Len(a) : a[j] = Word("text")
    <2>1. 1 \in Int /\ TagAt - 1 \in Int /\ 1 <= 1 /\ TagAt - 1 <= Len(line)
      BY <1>1
    <2>2. /\ a \in Seq(WordSet)
          /\ \A j \in 1 .. Len(a) : 1 + j - 1 \in 1 .. TagAt - 1 /\ a[j] = line[1 + j - 1]
      BY <1>1, <2>1, PartOf
    <2> QED
      BY <1>1, <2>2, Zenon
  <1>5. b \in Seq(WordSet) /\ \A j \in 1 .. Len(b) : b[j].type = "field"
    <2>1. k \in Int /\ Len(line) \in Int /\ 1 <= k /\ Len(line) <= Len(line)
      BY <1>1
    <2>2. /\ b \in Seq(WordSet)
          /\ \A j \in 1 .. Len(b) : k + j - 1 \in k .. Len(line) /\ b[j] = line[k + j - 1]
      BY <1>1, <2>1, PartOf
    <2>3. ASSUME NEW h \in k .. Len(line) PROVE line[h].type = "field"
      <3>1. h - TagAt \in 1 .. 13 /\ TagAt + (h - TagAt) = h
        BY <1>1, <2>1
      <3>2. line[h] = Field(Keys[h - TagAt], s) /\ Keys[h - TagAt] \in KeySet
        BY <1>1, <3>1, KeysAre
      <3> QED
        BY <3>2, WordsAre
    <2> QED
      BY <2>2, <2>3, Zenon
  <1> HIDE DEF a, b
  <1>6. /\ a \o b \in Seq(WordSet) /\ Len(a \o b) = Len(a) + Len(b)
        /\ \A j \in 1 .. Len(a) + Len(b) :
             (a \o b)[j] = IF j <= Len(a) THEN a[j] ELSE b[j - Len(a)]
    BY <1>4, <1>5, ConcatProperties
  <1>7. Len(a) \in Nat /\ Len(b) \in Nat
    BY <1>4, <1>5, LenProperties
  <1>8. ASSUME NEW j \in 1 .. Len(a \o b) PROVE (a \o b)[j].type \notin {"tag", "glued"}
    <2>1. CASE j <= Len(a)
      <3>1. (a \o b)[j] = Word("text")
        BY <1>4, <1>6, <1>7, <2>1
      <3> QED
        BY <3>1, TextIsPlain
    <2>2. CASE ~(j <= Len(a))
      <3>1. j - Len(a) \in 1 .. Len(b) /\ (a \o b)[j] = b[j - Len(a)]
        BY <1>6, <1>7, <2>2
      <3> QED
        BY <1>5, <3>1
    <2> QED
      BY <2>1, <2>2
  <1> QED
    BY <1>3, <1>6, <1>8 DEF Plain, a, b

-----------------------------------------------------------------------------
(* What the parser makes of a line.                                        *)

Raising(l) == \E item \in Items(l) : Raises(item)

\* What RaiseExplained names fatal.
Fatal(l) == \E k \in 1 .. Len(l) : l[k].type = "tag" /\ l[Len(l)].form = "0x"

ValueSet(key) ==
  IF key \in KeySet
  THEN [type : {"number", "fragment", "empty"}, of : 1 .. MaxWindows]
  ELSE [type : {"string", "empty"}, of : {0}]

RecordOK(r) ==
  /\ DOMAIN r \subseteq KeySet \cup {"key"}
  /\ \A key \in DOMAIN r : r[key] \in ValueSet(key)

LEMMA NoTag ==
  ASSUME NEW l, Plain(l)
  PROVE  Tagged(l) = {} /\ ~Fatal(l)
  <1>1. \A j \in 1 .. Len(l) : l[j].type \notin {"tag", "glued"}
    BY DEF Plain
  <1>2. Len(l) \in Nat
    BY LenProperties DEF Plain
  <1> QED
    BY <1>1, <1>2 DEF Tagged, Fatal

LEMMA OneTag ==
  ASSUME NEW l, Len(l) \in Nat, NEW p \in 1 .. Len(l), l[p].type \in {"tag", "glued"},
         \A j \in 1 .. Len(l) : j # p => l[j].type \notin {"tag", "glued"}
  PROVE  /\ Tagged(l) = IF p < Len(l) THEN {p} ELSE {}
         /\ p < Len(l) => /\ \A k \in p + 1 .. Len(l) : l[k].type = "field" => l[k] \in Items(l)
                          /\ \A item \in Items(l) : \E k \in p + 1 .. Len(l) :
                               item = l[k] /\ l[k].type = "field"
  <1>1. Tagged(l) = IF p < Len(l) THEN {p} ELSE {}
    BY DEF Tagged
  <1>2. Min({p}) = p
    <2>1. \A x \in {p} : \A y \in {p} : x <= y
      OBVIOUS
    <2> QED
      BY <2>1 DEF Min
  <1>3. ASSUME p < Len(l)
        PROVE  Items(l) = { l[k] : k \in { k \in p + 1 .. Len(l) : l[k].type = "field" } }
    BY <1>1, <1>2, <1>3 DEF Items
  <1> QED
    BY <1>1, <1>3

LEMMA ParsedAt ==
  ASSUME NEW l, \A a, b \in Items(l) : a.key = b.key => a = b
  PROVE  /\ DOMAIN Parsed(l) = { item.key : item \in Items(l) }
         /\ \A item \in Items(l) : Parsed(l)[item.key] = Value(item)
  <1>1. DOMAIN Parsed(l) = { item.key : item \in Items(l) }
    BY DEF Parsed
  <1>2. ASSUME NEW item \in Items(l)
        PROVE  Parsed(l)[item.key] = Value(item)
    <2>1. (CHOOSE i \in Items(l) : i.key = item.key) = item
      <3> DEFINE i == CHOOSE i \in Items(l) : i.key = item.key
      <3>1. i \in Items(l) /\ i.key = item.key
        OBVIOUS
      <3> QED
        BY <3>1
    <2>2. Parsed(l)[item.key] = Value(CHOOSE i \in Items(l) : i.key = item.key)
      BY DEF Parsed
    <2> QED
      BY <2>1, <2>2
  <1> QED
    BY <1>1, <1>2

LEMMA RecordsDiffer ==
  ASSUME NEW s, NEW t, Record(s) = Record(t)
  PROVE  s = t
  <1>1. Keys[1] \in KeySet
    BY KeysAre
  <1>2. Record(s)[Keys[1]].of = s /\ Record(t)[Keys[1]].of = t
    BY <1>1 DEF Record
  <1> QED
    BY <1>2

\* A packet line of which something follows the tag.
LEMMA PacketTag ==
  ASSUME NEW at \in {1, 2}, NEW s \in Nat, NEW m \in 0 .. 13, NEW l, PacketPart(at, l, s, m)
  PROVE  /\ Len(l) \in Nat /\ at \in 1 .. Len(l) /\ l[at].type = "tag"
         /\ l[at].form = "whole"
         /\ \A j \in 1 .. Len(l) : j # at => l[j].type \notin {"tag", "glued"}
  <1>1. /\ l \in Seq(WordSet) /\ Len(l) \in Nat /\ l[at] = Word("tag")
        /\ \A j \in 1 .. at - 1 : l[j] = Word("text")
        /\ \A j \in 1 .. m : l[at + j] = Field(Keys[j], s)
        /\ \/ Len(l) = at + m
           \/ /\ Len(l) = at + m + 1 /\ m < 13
              /\ l[Len(l)] \in Fragments(Field(Keys[m + 1], s))
    BY LenProperties DEF PacketPart
  <1>2. at \in 1 .. Len(l)
    BY <1>1
  <1>3. ASSUME NEW j \in 1 .. Len(l), j # at
        PROVE  l[j].type \notin {"tag", "glued"}
    <2>1. CASE j < at
      <3>1. l[j] = Word("text")
        BY <1>1, <2>1
      <3> QED
        BY <3>1, TextIsPlain
    <2>2. CASE j > at /\ j <= at + m
      <3>1. j - at \in 1 .. m /\ j - at \in 1 .. 13 /\ at + (j - at) = j
        BY <2>2
      <3>2. l[j] = Field(Keys[j - at], s) /\ Keys[j - at] \in KeySet
        BY <1>1, <3>1, KeysAre
      <3>3. l[j].type = "field"
        BY <3>2, WordsAre
      <3> QED
        BY <3>3
    <2>3. CASE j > at + m
      <3>1. j = Len(l) /\ m + 1 \in 1 .. 13 /\ l[j] \in Fragments(Field(Keys[m + 1], s))
        BY <1>1, <2>3
      <3>2. Field(Keys[m + 1], s) \in WordSet
        BY <3>1, KeysAre, WordsAre
      <3>3. l[j] = Word("text") \/ l[j].type = "field"
        BY <3>1, <3>2, FragmentsAre
      <3> QED
        BY <3>3, TextIsPlain
    <2> QED
      BY <1>3, <2>1, <2>2, <2>3
  <1> QED
    BY <1>1, <1>2, <1>3, WordsAre

LEMMA PacketItems ==
  ASSUME NEW at \in {1, 2}, NEW s \in Nat, NEW m \in 0 .. 13, NEW l, PacketPart(at, l, s, m),
         at < Len(l)
  PROVE  /\ \A j \in 1 .. m : Field(Keys[j], s) \in Items(l)
         /\ \A item \in Items(l) :
              \/ \E j \in 1 .. m : item = Field(Keys[j], s)
              \/ /\ m < 13 /\ item = l[Len(l)]
                 /\ item.key = Keys[m + 1] /\ item.of = s
                 /\ item.form \in {"empty", "part", "0x"}
         /\ l[Len(l)].form = "0x" => l[Len(l)] \in Items(l)
  <1>1. /\ l \in Seq(WordSet) /\ Len(l) \in Nat
        /\ \A j \in 1 .. m : l[at + j] = Field(Keys[j], s)
        /\ \/ Len(l) = at + m
           \/ /\ Len(l) = at + m + 1 /\ m < 13
              /\ l[Len(l)] \in Fragments(Field(Keys[m + 1], s))
    BY LenProperties DEF PacketPart
  <1>2. /\ \A k \in at + 1 .. Len(l) : l[k].type = "field" => l[k] \in Items(l)
        /\ \A item \in Items(l) : \E k \in at + 1 .. Len(l) : item = l[k] /\ l[k].type = "field"
    <2>1. l[at].type \in {"tag", "glued"}
      BY PacketTag
    <2> QED
      BY <2>1, PacketTag, OneTag
  <1>3. ASSUME NEW j \in 1 .. m PROVE Field(Keys[j], s) \in Items(l)
    <2>1. at + j \in at + 1 .. Len(l) /\ j \in 1 .. 13
      BY <1>1
    <2>2. Field(Keys[j], s).type = "field"
      BY <2>1, KeysAre, WordsAre
    <2> QED
      BY <1>1, <1>2, <2>1, <2>2
  <1>4. ASSUME Len(l) = at + m + 1, m < 13,
               l[Len(l)] \in Fragments(Field(Keys[m + 1], s))
        PROVE  \/ l[Len(l)] = Word("text")
               \/ /\ l[Len(l)].type = "field" /\ l[Len(l)].key = Keys[m + 1]
                  /\ l[Len(l)].of = s /\ l[Len(l)].form \in {"empty", "part", "0x"}
    <2>1. m + 1 \in 1 .. 13
      BY <1>4
    <2>2. /\ Field(Keys[m + 1], s) \in WordSet /\ Field(Keys[m + 1], s).key = Keys[m + 1]
          /\ Field(Keys[m + 1], s).of = s
      BY <2>1, KeysAre, WordsAre
    <2>3. \/ l[Len(l)] = Word("text")
          \/ /\ l[Len(l)].type = "field" /\ l[Len(l)].key = Field(Keys[m + 1], s).key
             /\ l[Len(l)].of = Field(Keys[m + 1], s).of
             /\ l[Len(l)].form \in {"empty", "part", "0x"}
      BY <1>4, <2>2, FragmentsAre
    <2> QED
      BY <2>2, <2>3
  <1>5. ASSUME NEW item \in Items(l)
        PROVE  \/ \E j \in 1 .. m : item = Field(Keys[j], s)
               \/ /\ m < 13 /\ item = l[Len(l)]
                  /\ item.key = Keys[m + 1] /\ item.of = s
                  /\ item.form \in {"empty", "part", "0x"}
    <2>1. PICK k \in at + 1 .. Len(l) : item = l[k] /\ l[k].type = "field"
      BY <1>2
    <2>2. CASE k <= at + m
      <3>1. k - at \in 1 .. m /\ at + (k - at) = k
        BY <2>2
      <3> QED
        BY <1>1, <2>1, <3>1
    <2>3. CASE k > at + m
      <3>1. k = Len(l) /\ Len(l) = at + m + 1 /\ m < 13
            /\ l[Len(l)] \in Fragments(Field(Keys[m + 1], s))
        BY <1>1, <2>3
      <3>2. Word("text").type # "field"
        BY WordsAre
      <3> QED
        BY <1>4, <2>1, <3>1, <3>2
    <2> QED
      BY <2>2, <2>3
  <1>6. ASSUME l[Len(l)].form = "0x" PROVE l[Len(l)] \in Items(l)
    <2>1. CASE Len(l) = at + m
      <3>1. m \in 1 .. m /\ m \in 1 .. 13
        BY <2>1
      <3>2. l[Len(l)].form = "whole"
        <4>1. l[Len(l)] = Field(Keys[m], s)
          BY <1>1, <2>1, <3>1, Zenon
        <4>2. Field(Keys[m], s).form = "whole"
          BY <3>1, KeysAre, WordsAre
        <4> QED
          BY <4>1, <4>2
      <3> QED
        BY <1>6, <3>2
    <2>2. CASE Len(l) # at + m
      <3>1. l[Len(l)].type = "field"
        BY <1>1, <1>4, <1>6, <2>2, WordsAre
      <3>2. Len(l) \in at + 1 .. Len(l)
        BY <1>1
      <3> QED
        BY <1>2, <3>1, <3>2
    <2> QED
      BY <2>1, <2>2
  <1> QED
    BY <1>3, <1>5, <1>6

LEMMA PacketParsed ==
  ASSUME NEW at \in {1, 2}, NEW s \in 1 .. MaxWindows, NEW m \in 0 .. 13, NEW l,
         PacketPart(at, l, s, m), at < Len(l)
  PROVE  /\ RecordOK(Parsed(l))
         /\ Raising(l) <=> l[Len(l)].form = "0x"
         /\ m = 13 => Parsed(l) = Record(s) /\ ~Raising(l)
         /\ m < 13 /\ ~Raising(l) => \A t : Parsed(l) # Record(t)
  <1>0. s \in Nat
    BY RttAssumption
  <1>1. /\ \A j \in 1 .. m : Field(Keys[j], s) \in Items(l)
        /\ \A item \in Items(l) :
              \/ \E j \in 1 .. m : item = Field(Keys[j], s)
              \/ /\ m < 13 /\ item = l[Len(l)]
                 /\ item.key = Keys[m + 1] /\ item.of = s
                 /\ item.form \in {"empty", "part", "0x"}
        /\ l[Len(l)].form = "0x" => l[Len(l)] \in Items(l)
    BY <1>0, PacketItems
  <1>2. ASSUME NEW j \in 1 .. 13
        PROVE  /\ Field(Keys[j], s).key = Keys[j] /\ Keys[j] \in KeySet
               /\ Field(Keys[j], s).of = s /\ Field(Keys[j], s).form = "whole"
    BY <1>0, KeysAre, WordsAre
  <1>3. \A j \in 1 .. m : j \in 1 .. 13
    OBVIOUS
  <1>4. m < 13 => m + 1 \in 1 .. 13 /\ \A j \in 1 .. m : j # m + 1
    OBVIOUS
  <1>5. ASSUME NEW a \in Items(l), NEW b \in Items(l), a.key = b.key
        PROVE  a = b
    <2>1. CASE (\E j \in 1 .. m : a = Field(Keys[j], s)) /\ (\E j \in 1 .. m : b = Field(Keys[j], s))
      <3>1. PICK i \in 1 .. m : a = Field(Keys[i], s)
        BY <2>1
      <3>2. PICK j \in 1 .. m : b = Field(Keys[j], s)
        BY <2>1
      <3>3. Keys[i] = Keys[j] /\ i \in 1 .. 13 /\ j \in 1 .. 13
        BY <1>2, <1>3, <1>5, <3>1, <3>2
      <3>4. i = j
        BY <3>3, KeysAre
      <3> QED
        BY <3>1, <3>2, <3>4
    <2>2. ASSUME NEW x \in Items(l), NEW y \in Items(l), x.key = y.key,
                 \E j \in 1 .. m : x = Field(Keys[j], s), m < 13, y.key = Keys[m + 1]
          PROVE  FALSE
      <3>1. PICK i \in 1 .. m : x = Field(Keys[i], s)
        BY <2>2
      <3>2. Keys[i] = Keys[m + 1] /\ i \in 1 .. 13 /\ m + 1 \in 1 .. 13 /\ i # m + 1
        BY <1>2, <1>3, <1>4, <2>2, <3>1
      <3> QED
        BY <3>2, KeysAre
    <2> QED
      BY <1>1, <1>5, <2>1, <2>2, Zenon
  <1>6. /\ DOMAIN Parsed(l) = { item.key : item \in Items(l) }
        /\ \A item \in Items(l) : Parsed(l)[item.key] = Value(item)
    BY <1>5, ParsedAt
  <1>7. ASSUME NEW item \in Items(l)
        PROVE  /\ item.key \in KeySet /\ item.of = s
               /\ item.form \in {"whole", "empty", "part", "0x"}
               /\ item.form = "0x" => item = l[Len(l)]
               /\ item.form # "whole" => m < 13 /\ item.key = Keys[m + 1]
    <2>1. CASE \E j \in 1 .. m : item = Field(Keys[j], s)
      BY <1>2, <1>3, <2>1
    <2>2. CASE m < 13 /\ item = l[Len(l)] /\ item.key = Keys[m + 1] /\ item.of = s
               /\ item.form \in {"empty", "part", "0x"}
      BY <1>2, <1>4, <2>2
    <2> QED
      BY <1>1, <2>1, <2>2
  <1>8. ASSUME NEW item \in Items(l)
        PROVE  /\ Value(item) \in [type : {"number", "fragment", "empty"}, of : 1 .. MaxWindows]
               /\ item.form = "whole" => Value(item) = [type |-> "number", of |-> s]
               /\ item.form \in {"empty", "part"} => Value(item).type # "number"
    <2>1. item.key \in KeySet /\ item.of = s /\ item.form \in {"whole", "empty", "part", "0x"}
      BY <1>7
    <2>2. Value(item) = [ type |-> IF item.form = "empty" THEN "empty"
                                   ELSE IF item.form = "part" THEN "fragment" ELSE "number",
                          of |-> s ]
      BY <2>1 DEF Value
    <2> QED
      BY <2>1, <2>2
  <1>9. RecordOK(Parsed(l))
    <2>1. ASSUME NEW key \in DOMAIN Parsed(l)
          PROVE  key \in KeySet /\ Parsed(l)[key] \in ValueSet(key)
      <3>1. PICK item \in Items(l) : key = item.key
        BY <1>6
      <3> QED
        BY <1>6, <1>7, <1>8, <3>1 DEF ValueSet
    <2> QED
      BY <2>1 DEF RecordOK
  <1>10. Raising(l) <=> l[Len(l)].form = "0x"
    BY <1>1, <1>7 DEF Raising, Raises
  <1>11. ASSUME m = 13
         PROVE  Parsed(l) = Record(s) /\ ~Raising(l)
    <2>1. \A item \in Items(l) : item.form = "whole"
      BY <1>7, <1>11
    <2>2. DOMAIN Parsed(l) = KeySet
      <3>1. ASSUME NEW key \in KeySet PROVE key \in DOMAIN Parsed(l)
        <4>1. PICK j \in 1 .. 13 : Keys[j] = key
          BY KeysAre
        <4>2. Field(Keys[j], s) \in Items(l) /\ Field(Keys[j], s).key = key
          BY <1>1, <1>2, <1>11, <4>1
        <4> QED
          BY <1>6, <4>2
      <3>2. ASSUME NEW key \in DOMAIN Parsed(l) PROVE key \in KeySet
        BY <1>6, <1>7
      <3> QED
        BY <3>1, <3>2
    <2>3. \A key \in KeySet : Parsed(l)[key] = [type |-> "number", of |-> s]
      <3>1. ASSUME NEW key \in KeySet
            PROVE  Parsed(l)[key] = [type |-> "number", of |-> s]
        <4>1. PICK item \in Items(l) : key = item.key
          BY <1>6, <2>2
        <4> QED
          BY <1>6, <1>8, <2>1, <4>1
      <3> QED
        BY <3>1
    <2>4. Parsed(l) = [key \in DOMAIN Parsed(l) |-> Parsed(l)[key]]
      BY DEF Parsed
    <2>5. Parsed(l) = Record(s)
      BY <2>2, <2>3, <2>4 DEF Record
    <2> QED
      BY <2>1, <2>5 DEF Raising, Raises
  <1>12. ASSUME m < 13, ~Raising(l), NEW t, Parsed(l) = Record(t)
         PROVE  FALSE
    <2>1. m + 1 \in 1 .. 13 /\ Keys[m + 1] \in KeySet
      BY <1>2, <1>4, <1>12
    <2>2. Keys[m + 1] \in DOMAIN Parsed(l) /\ Parsed(l)[Keys[m + 1]].type = "number"
      BY <1>12, <2>1 DEF Record
    <2>3. PICK item \in Items(l) : item.key = Keys[m + 1]
      BY <1>6, <2>2
    <2>4. item.form # "0x"
      BY <1>12 DEF Raising, Raises
    <2>5. item.form # "whole"
      <3>1. ASSUME NEW j \in 1 .. m, item = Field(Keys[j], s) PROVE FALSE
        <4>1. Keys[j] = Keys[m + 1] /\ j \in 1 .. 13 /\ j # m + 1
          BY <1>2, <1>3, <1>4, <1>12, <2>3, <3>1
        <4> QED
          BY <2>1, <4>1, KeysAre
      <3> QED
        BY <1>1, <3>1
    <2>6. Value(item).type # "number"
      BY <1>7, <1>8, <2>4, <2>5
    <2> QED
      BY <1>6, <2>2, <2>3, <2>6
  <1> QED
    BY <1>9, <1>10, <1>11, <1>12

LEMMA FormatParsed ==
  ASSUME NEW at \in {1, 2}, NEW l, FormatPart(at, l)
  PROVE  /\ ~Fatal(l)
         /\ Tagged(l) # {} => /\ RecordOK(Parsed(l)) /\ ~Raising(l)
                              /\ \A t : Parsed(l) # Record(t)
  <1>1. /\ l \in Seq(WordSet) /\ Len(l) \in Nat /\ Len(l) <= at + 1
        /\ \A j \in 1 .. Len(l) : j < at => l[j] = Word("text")
        /\ at \in 1 .. Len(l) => l[at] = Word("glued")
        /\ at + 1 \in 1 .. Len(l) =>
             l[at + 1] \in {Wording("key")} \cup Fragments(Wording("key"))
    BY LenProperties DEF FormatPart
  <1>2. /\ Wording("key") \in WordSet /\ Wording("key").type = "field"
        /\ Wording("key").key = "key" /\ Wording("key").of = 0
        /\ Wording("key").form = "wording" /\ "key" \notin KeySet /\ "key" \notin Hex
    BY WordsAre, KeysAre
  <1>3. ASSUME NEW f \in {Wording("key")} \cup Fragments(Wording("key"))
        PROVE  \/ f = Word("text")
               \/ /\ f.type = "field" /\ f.key = "key" /\ f.of = 0
                  /\ f.form \in {"wording", "empty", "part"}
    <2>1. CASE f = Wording("key")
      BY <1>2, <2>1
    <2>2. CASE f \in Fragments(Wording("key"))
      <3>1. \/ f = Word("text")
            \/ /\ f.type = "field" /\ f.key = Wording("key").key /\ f.of = Wording("key").of
               /\ f.form \in {"empty", "part", "0x"}
               /\ f.form = "0x" => Wording("key").key \in Hex
        BY <1>2, <2>2, FragmentsAre
      <3> QED
        BY <1>2, <3>1
    <2> QED
      BY <2>1, <2>2
  <1>4. Word("text").type = "text" /\ Word("glued").type = "glued"
    BY WordsAre
  <1>5. ASSUME NEW j \in 1 .. Len(l), j # at
        PROVE  l[j].type \notin {"tag", "glued"}
    <2>1. CASE j < at
      BY <1>1, <1>4, <2>1
    <2>2. CASE j > at
      <3>1. j = at + 1
        BY <1>1, <2>2
      <3>2. l[j] = Word("text") \/ l[j].type = "field"
        BY <1>1, <1>3, <3>1
      <3> QED
        BY <1>4, <3>2
    <2> QED
      BY <1>5, <2>1, <2>2
  <1>6. ~Fatal(l)
    <2>1. \A j \in 1 .. Len(l) : l[j].type # "tag"
      BY <1>1, <1>4, <1>5
    <2> QED
      BY <2>1 DEF Fatal
  <1>7. CASE ~(at \in 1 .. Len(l))
    <2>1. Tagged(l) = {}
      BY <1>1, <1>5, <1>7 DEF Tagged
    <2> QED
      BY <1>6, <2>1
  <1>8. CASE at \in 1 .. Len(l) /\ ~(at < Len(l))
    <2>1. l[at].type \in {"tag", "glued"}
      BY <1>1, <1>4, <1>8
    <2>2. Tagged(l) = {}
      BY <1>1, <1>5, <1>8, <2>1, OneTag
    <2> QED
      BY <1>6, <2>2
  <1>9. CASE at < Len(l)
    <2>1. at \in 1 .. Len(l) /\ Len(l) = at + 1 /\ at + 1 \in 1 .. Len(l)
      BY <1>1, <1>9
    <2>2. l[at].type \in {"tag", "glued"}
      BY <1>1, <1>4, <2>1
    <2>3. \A item \in Items(l) : \E k \in at + 1 .. Len(l) : item = l[k] /\ l[k].type = "field"
      BY <1>1, <1>5, <1>9, <2>1, <2>2, OneTag
    <2>4. ASSUME NEW item \in Items(l)
          PROVE  /\ item = l[at + 1] /\ item.key = "key" /\ item.of = 0
                 /\ item.form \in {"wording", "empty", "part"}
      <3>1. PICK k \in at + 1 .. Len(l) : item = l[k] /\ l[k].type = "field"
        BY <2>3
      <3>2. k = at + 1
        BY <2>1, <3>1
      <3> QED
        BY <1>1, <1>3, <1>4, <2>1, <3>1, <3>2
    <2>5. ~Raising(l)
      BY <2>4 DEF Raising, Raises
    <2>6. /\ DOMAIN Parsed(l) = { item.key : item \in Items(l) }
          /\ \A item \in Items(l) : Parsed(l)[item.key] = Value(item)
      <3>1. \A a, b \in Items(l) : a.key = b.key => a = b
        BY <2>4
      <3> QED
        BY <3>1, ParsedAt
    <2>7. ASSUME NEW item \in Items(l)
          PROVE  Value(item) \in [type : {"string", "empty"}, of : {0}]
      <3>1. item.key \notin KeySet /\ item.of = 0
        BY <1>2, <2>4
      <3>2. Value(item) = [type |-> IF item.form = "empty" THEN "empty" ELSE "string", of |-> 0]
        BY <3>1 DEF Value
      <3> QED
        BY <3>2
    <2>8. RecordOK(Parsed(l))
      <3>1. ASSUME NEW key \in DOMAIN Parsed(l)
            PROVE  key = "key" /\ Parsed(l)[key] \in ValueSet(key)
        <4>1. PICK item \in Items(l) : key = item.key
          BY <2>6
        <4> QED
          BY <1>2, <2>4, <2>6, <2>7, <4>1 DEF ValueSet
      <3> QED
        BY <3>1 DEF RecordOK
    <2>9. ASSUME NEW t, Parsed(l) = Record(t) PROVE FALSE
      <3>1. Keys[1] \in KeySet
        BY KeysAre
      <3>2. Keys[1] \in DOMAIN Parsed(l)
        BY <2>9, <3>1 DEF Record
      <3>3. Keys[1] = "key"
        BY <2>4, <2>6, <3>2
      <3> QED
        BY <1>2, <3>1, <3>3
    <2> QED
      BY <1>6, <2>5, <2>8, <2>9
  <1> QED
    BY <1>1, <1>7, <1>8, <1>9

\* Of each line of a log: it makes the parser raise only if it is fatal, and
\* becomes the record of a window exactly if it is the window's whole line.
LEMMA LineParsed ==
  ASSUME NEW at \in {1, 2}, NEW l, LogLine(at, l)
  PROVE  /\ Tagged(l) # {} => RecordOK(Parsed(l))
         /\ Fatal(l) <=> Tagged(l) # {} /\ Raising(l)
         /\ \A s \in 1 .. MaxWindows :
              /\ PacketPart(at, l, s, 13) =>
                   Tagged(l) # {} /\ ~Raising(l) /\ Parsed(l) = Record(s)
              /\ Tagged(l) # {} /\ ~Raising(l) /\ Parsed(l) = Record(s) =>
                   PacketPart(at, l, s, 13)
  <1>1. CASE Plain(l)
    <2>1. Tagged(l) = {} /\ ~Fatal(l)
      BY <1>1, NoTag
    <2>2. ASSUME NEW s \in 1 .. MaxWindows, PacketPart(at, l, s, 13) PROVE FALSE
      <3>1. s \in Nat /\ 13 \in 0 .. 13
        BY RttAssumption
      <3>2. at \in 1 .. Len(l) /\ l[at].type = "tag"
        BY <2>2, <3>1, PacketTag
      <3> QED
        BY <1>1, <3>2 DEF Plain
    <2> QED
      BY <2>1, <2>2
  <1>2. CASE FormatPart(at, l)
    <2>1. /\ ~Fatal(l)
          /\ Tagged(l) # {} => /\ RecordOK(Parsed(l)) /\ ~Raising(l)
                               /\ \A t : Parsed(l) # Record(t)
      BY <1>2, FormatParsed
    <2>2. ASSUME NEW s \in 1 .. MaxWindows, PacketPart(at, l, s, 13) PROVE FALSE
      <3>1. s \in Nat /\ 13 \in 0 .. 13
        BY RttAssumption
      <3>2. at \in 1 .. Len(l) /\ l[at].type = "tag"
        BY <2>2, <3>1, PacketTag
      <3>3. l[at] = Word("glued") /\ Word("glued").type = "glued"
        BY <1>2, <3>2, WordsAre DEF FormatPart
      <3> QED
        BY <3>2, <3>3
    <2> QED
      BY <2>1, <2>2
  <1>3. ASSUME NEW s \in 1 .. MaxWindows, NEW m \in 0 .. 13, PacketPart(at, l, s, m)
        PROVE  /\ Tagged(l) # {} => RecordOK(Parsed(l))
               /\ Fatal(l) <=> Tagged(l) # {} /\ Raising(l)
               /\ \A t \in 1 .. MaxWindows :
                    /\ PacketPart(at, l, t, 13) =>
                         Tagged(l) # {} /\ ~Raising(l) /\ Parsed(l) = Record(t)
                    /\ Tagged(l) # {} /\ ~Raising(l) /\ Parsed(l) = Record(t) =>
                         PacketPart(at, l, t, 13)
    <2>1. /\ Len(l) \in Nat /\ at \in 1 .. Len(l) /\ l[at].type = "tag"
          /\ l[at].form = "whole"
          /\ \A j \in 1 .. Len(l) : j # at => l[j].type \notin {"tag", "glued"}
      <3>1. s \in Nat
        BY RttAssumption
      <3> QED
        BY <1>3, <3>1, PacketTag
    <2>2. Tagged(l) = IF at < Len(l) THEN {at} ELSE {}
      BY <2>1, OneTag
    <2>3. Fatal(l) <=> l[Len(l)].form = "0x"
      BY <2>1 DEF Fatal
    <2>4. CASE ~(at < Len(l))
      <3>1. Tagged(l) = {} /\ at = Len(l)
        BY <2>1, <2>2, <2>4
      <3>2. ASSUME NEW t, PacketPart(at, l, t, 13) PROVE FALSE
        BY <3>1, <3>2 DEF PacketPart
      <3> QED
        BY <2>1, <2>3, <3>1, <3>2
    <2>5. CASE at < Len(l)
      <3>1. /\ RecordOK(Parsed(l))
            /\ Raising(l) <=> l[Len(l)].form = "0x"
            /\ m = 13 => Parsed(l) = Record(s) /\ ~Raising(l)
            /\ m < 13 /\ ~Raising(l) => \A t : Parsed(l) # Record(t)
        BY <1>3, <2>5, PacketParsed
      <3>2. Tagged(l) # {}
        BY <2>2, <2>5
      <3>3. ASSUME NEW t \in 1 .. MaxWindows, PacketPart(at, l, t, 13)
            PROVE  ~Raising(l) /\ Parsed(l) = Record(t)
        <4>1. 13 \in 0 .. 13
          OBVIOUS
        <4> QED
          BY <2>5, <3>3, <4>1, PacketParsed
      <3>4. ASSUME NEW t \in 1 .. MaxWindows, ~Raising(l), Parsed(l) = Record(t)
            PROVE  PacketPart(at, l, t, 13)
        <4>1. m = 13
          BY <3>1, <3>4
        <4>2. s = t
          BY <3>1, <3>4, <4>1, RecordsDiffer
        <4> QED
          BY <1>3, <4>1, <4>2
      <3> QED
        BY <2>3, <3>1, <3>2, <3>3, <3>4
    <2> QED
      BY <2>4, <2>5
  <1> QED
    BY <1>1, <1>2, <1>3 DEF LogLine

-----------------------------------------------------------------------------
(* The log: every line is a printed one or what a cut has left of it.      *)

KindSet == {"title", "id", "format", "status", "poll", "ready", "packet"}

LEMMA LinesPrinted ==
  ASSUME viewer \in BOOLEAN, NEW kind \in KindSet, NEW s \in 1 .. MaxWindows + 1,
         kind = "packet" => s <= MaxWindows
  PROVE  /\ LogLine(TagAt, Line(kind, s))
         /\ \A c \in CutShort(Line(kind, s)) : LogLine(TagAt, c)
  <1>1. s \in Nat /\ TagAt \in {1, 2} /\ MaxWindows \in Nat
    BY RttAssumption DEF TagAt
  <1>2. CASE kind \in {"title", "id", "status", "poll", "ready"}
    <2>1. Plain(Line(kind, s))
      BY <1>1, <1>2, PlainLine
    <2>2. \A c \in CutShort(Line(kind, s)) : Plain(c)
      BY <2>1, CutOfPlain
    <2> QED
      BY <2>1, <2>2 DEF LogLine
  <1>3. CASE kind = "format"
    <2>1. FormatPart(TagAt, Line("format", s)) /\ Len(Line("format", s)) = TagAt + 1
      BY <1>1, FormatLine
    <2>2. \A c \in CutShort(Line("format", s)) : Plain(c) \/ FormatPart(TagAt, c)
      BY <1>1, <2>1, CutOfFormat
    <2> QED
      BY <1>3, <2>1, <2>2 DEF LogLine
  <1>4. CASE kind = "packet"
    <2>1. s \in 1 .. MaxWindows /\ 13 \in 0 .. 13 /\ \A m \in 0 .. 12 : m \in 0 .. 13
      BY <1>1, <1>4
    <2>2. PacketPart(TagAt, Line("packet", s), s, 13)
      BY <1>1, PacketLine
    <2>3. \A c \in CutShort(Line("packet", s)) :
            Plain(c) \/ \E m \in 0 .. 12 : PacketPart(TagAt, c, s, m)
      BY <1>1, <2>2, CutOfPacket
    <2>4. LogLine(TagAt, Line("packet", s))
      BY <2>1, <2>2 DEF LogLine
    <2>5. \A c \in CutShort(Line("packet", s)) : LogLine(TagAt, c)
      BY <2>1, <2>3 DEF LogLine
    <2> QED
      BY <1>4, <2>4, <2>5
  <1> QED
    BY <1>2, <1>3, <1>4 DEF KindSet

LEMMA KindsAre ==
  ASSUME role \in {"gateway", "node"}, pc \in 1 .. Len(Kinds[role])
  PROVE  /\ Len(Kinds[role]) \in {4, 5} /\ pc \in Nat
         /\ Kinds[role][pc] \in KindSet
         /\ Kinds[role][pc] = "packet" => pc = Len(Kinds[role])
         /\ Kinds[role][LoopStart] # "packet" /\ Kinds[role][1] # "packet"
  <1>1. CASE role = "gateway"
    <2>1. Kinds[role] = <<"title", "id", "format", "poll", "packet">>
      BY <1>1 DEF Kinds
    <2>2. pc \in {1, 2, 3, 4, 5}
      BY <2>1
    <2> QED
      BY <2>1, <2>2 DEF KindSet, LoopStart
  <1>2. CASE role = "node"
    <2>1. Kinds[role] = <<"title", "id", "status", "ready">>
      BY <1>2 DEF Kinds
    <2>2. pc \in {1, 2, 3, 4}
      BY <2>1
    <2> QED
      BY <2>1, <2>2 DEF KindSet, LoopStart
  <1> QED
    BY <1>1, <1>2

Lines(at, lg) ==
  /\ lg \in Seq(Seq(WordSet))
  /\ \A k \in 1 .. Len(lg) : LogLine(at, lg[k])

LogInv ==
  /\ role \in {"gateway", "node"} /\ viewer \in BOOLEAN
  /\ pc \in 1 .. Len(Kinds[role]) /\ seq \in 1 .. MaxWindows + 1
  /\ restarts \in 0 .. MaxRestarts /\ cuts \in 0 .. MaxCuts
  /\ status \in {"capturing", "parsing", "done", "raised"}
  /\ Kinds[role][pc] = "packet" => seq <= MaxWindows
  /\ Lines(TagAt, log)

LEMMA LogLineIsLine ==
  ASSUME NEW at, NEW l, LogLine(at, l)
  PROVE  l \in Seq(WordSet)
  BY DEF LogLine, Plain, FormatPart, PacketPart

LEMMA LinesAppend ==
  ASSUME NEW at, NEW lg, Lines(at, lg), NEW l, LogLine(at, l)
  PROVE  Lines(at, Append(lg, l))
  <1>1. l \in Seq(WordSet) /\ lg \in Seq(Seq(WordSet)) /\ Len(lg) \in Nat
    BY LogLineIsLine, LenProperties DEF Lines
  <1>2. /\ Append(lg, l) \in Seq(Seq(WordSet)) /\ Len(Append(lg, l)) = Len(lg) + 1
        /\ \A k \in 1 .. Len(lg) : Append(lg, l)[k] = lg[k]
        /\ Append(lg, l)[Len(lg) + 1] = l
    BY <1>1, AppendProperties
  <1>3. ASSUME NEW k \in 1 .. Len(lg) + 1 PROVE LogLine(at, Append(lg, l)[k])
    <2>1. CASE k \in 1 .. Len(lg)
      <3>1. LogLine(at, lg[k])
        BY <2>1 DEF Lines
      <3> QED
        BY <1>2, <2>1, <3>1
    <2>2. CASE k = Len(lg) + 1
      BY <1>2, <2>2
    <2> QED
      BY <1>1, <2>1, <2>2
  <1> QED
    BY <1>2, <1>3 DEF Lines

LEMMA LogInit == RttInit => LogInv
  <1> SUFFICES ASSUME RttInit PROVE LogInv
    OBVIOUS
  <1>1. /\ role \in {"gateway", "node"} /\ viewer \in BOOLEAN
        /\ restarts = 0 /\ status = "capturing"
        /\ \/ pc = 1 /\ seq = 1 /\ log = <<>> /\ cuts = 0
           \/ /\ role = "gateway" /\ pc = LoopStart /\ seq = 2
              /\ \E l \in Headless(1) : log = <<l>>
              /\ cuts = 1 /\ MaxCuts > 0
    BY DEF RttInit
  <1>2. MaxWindows \in Nat \ {0} /\ MaxRestarts \in Nat /\ MaxCuts \in Nat
    BY RttAssumption
  <1>3. restarts \in 0 .. MaxRestarts /\ cuts \in 0 .. MaxCuts /\ seq \in 1 .. MaxWindows + 1
    BY <1>1, <1>2
  <1>4. pc \in 1 .. Len(Kinds[role]) /\ Kinds[role][pc] # "packet"
    <2>1. Kinds["gateway"] = <<"title", "id", "format", "poll", "packet">>
          /\ Kinds["node"] = <<"title", "id", "status", "ready">>
      BY DEF Kinds
    <2>2. CASE role = "gateway"
      <3>1. Len(Kinds[role]) = 5 /\ Kinds[role][1] = "title" /\ Kinds[role][4] = "poll"
        BY <2>1, <2>2
      <3> QED
        BY <1>1, <3>1 DEF LoopStart
    <2>3. CASE role = "node" /\ pc = 1
      <3>1. Len(Kinds[role]) = 4 /\ Kinds[role][1] = "title"
        BY <2>1, <2>3
      <3> QED
        BY <2>3, <3>1
    <2> QED
      BY <1>1, <2>2, <2>3
  <1>5. Lines(TagAt, log)
    <2>1. CASE log = <<>>
      BY <2>1 DEF Lines
    <2>2. ASSUME NEW l \in Headless(1), log = <<l>> PROVE Lines(TagAt, log)
      <3>1. Plain(l)
        BY <1>1, HeadlessIsPlain
      <3>2. LogLine(TagAt, l) /\ l \in Seq(WordSet)
        BY <3>1 DEF LogLine, Plain
      <3>3. log \in Seq(Seq(WordSet)) /\ Len(log) = 1 /\ log[1] = l
        BY <2>2, <3>2
      <3> QED
        BY <3>2, <3>3 DEF Lines
    <2> QED
      BY <1>1, <2>1, <2>2
  <1> QED
    BY <1>1, <1>3, <1>4, <1>5 DEF LogInv

LEMMA StopKeepsLines ==
  ASSUME LogInv, Stop, viewer' = viewer
  PROVE  Lines(TagAt, log)' /\ cuts' \in 0 .. MaxCuts
  <1>1. TagAt' = TagAt
    BY DEF TagAt
  <1>2. CASE UNCHANGED <<log, cuts>>
    BY <1>1, <1>2 DEF LogInv
  <1>3. CASE /\ cuts < MaxCuts /\ cuts' = cuts + 1
             /\ \E l \in CutShort(Line(Kinds[role][pc], seq)) : log' = Append(log, l)
    <2>1. PICK l \in CutShort(Line(Kinds[role][pc], seq)) : log' = Append(log, l)
      BY <1>3
    <2>2. LogLine(TagAt, l)
      <3>1. Kinds[role][pc] \in KindSet
        BY KindsAre DEF LogInv
      <3> QED
        BY <3>1, LinesPrinted DEF LogInv
    <2>3. Lines(TagAt, log')
      BY <2>1, <2>2, LinesAppend DEF LogInv
    <2>4. cuts' \in 0 .. MaxCuts
      BY <1>3, RttAssumption DEF LogInv
    <2> QED
      BY <1>1, <2>3, <2>4
  <1> QED
    BY <1>2, <1>3 DEF Stop

LEMMA LogStep == LogInv /\ [RttNext]_rttVars => LogInv'
  <1> SUFFICES ASSUME LogInv, [RttNext]_rttVars PROVE LogInv'
    OBVIOUS
  <1>0. /\ Len(Kinds[role]) \in {4, 5} /\ pc \in Nat /\ Kinds[role][pc] \in KindSet
        /\ Kinds[role][pc] = "packet" => pc = Len(Kinds[role])
        /\ Kinds[role][LoopStart] # "packet" /\ Kinds[role][1] # "packet"
    BY KindsAre DEF LogInv
  <1>1. MaxWindows \in Nat \ {0} /\ MaxRestarts \in Nat /\ MaxCuts \in Nat
    BY RttAssumption
  <1>2. CASE PrintLine
    <2>1. /\ seq <= MaxWindows
          /\ log' = Append(log, Line(Kinds[role][pc], seq))
          /\ role' = role /\ viewer' = viewer /\ restarts' = restarts /\ cuts' = cuts
          /\ status' = status
          /\ \/ pc < Len(Kinds[role]) /\ pc' = pc + 1 /\ seq' = seq
             \/ pc = Len(Kinds[role]) /\ pc' = LoopStart /\ seq' = seq + 1
      BY <1>2 DEF PrintLine
    <2>2. LogLine(TagAt, Line(Kinds[role][pc], seq))
      BY <1>0, LinesPrinted DEF LogInv
    <2>3. Lines(TagAt, log')
      BY <2>1, <2>2, LinesAppend DEF LogInv
    <2>4. TagAt' = TagAt
      BY <2>1 DEF TagAt
    <2>5. pc' \in 1 .. Len(Kinds[role]) /\ seq' \in 1 .. MaxWindows + 1
          /\ (Kinds[role][pc'] = "packet" => seq' <= MaxWindows)
      BY <1>0, <1>1, <2>1 DEF LogInv, LoopStart
    <2> QED
      BY <2>1, <2>3, <2>4, <2>5 DEF LogInv
  <1>3. CASE Restart
    <2>1. /\ restarts < MaxRestarts /\ Stop
          /\ pc' = 1 /\ seq' = 1 /\ restarts' = restarts + 1
          /\ role' = role /\ viewer' = viewer /\ status' = status
      BY <1>3 DEF Restart
    <2>2. Lines(TagAt, log)' /\ cuts' \in 0 .. MaxCuts
      BY <2>1, StopKeepsLines
    <2>3. pc' \in 1 .. Len(Kinds[role]) /\ seq' \in 1 .. MaxWindows + 1
          /\ Kinds[role][pc'] # "packet" /\ restarts' \in 0 .. MaxRestarts
      BY <1>0, <1>1, <2>1 DEF LogInv
    <2> QED
      BY <2>1, <2>2, <2>3 DEF LogInv
  <1>4. CASE Close
    <2>1. /\ Stop /\ status' = "parsing" /\ restarts' = restarts
          /\ role' = role /\ viewer' = viewer /\ pc' = pc /\ seq' = seq
      BY <1>4 DEF Close
    <2>2. Lines(TagAt, log)' /\ cuts' \in 0 .. MaxCuts
      BY <2>1, StopKeepsLines
    <2> QED
      BY <2>1, <2>2 DEF LogInv
  <1>5. ASSUME UNCHANGED <<programVars, log>>,
               status' \in {"capturing", "parsing", "done", "raised"}
        PROVE  LogInv'
    <2>1. role' = role /\ viewer' = viewer /\ pc' = pc /\ seq' = seq /\ restarts' = restarts
          /\ cuts' = cuts /\ log' = log
      BY <1>5 DEF programVars
    <2>2. TagAt' = TagAt
      BY <2>1 DEF TagAt
    <2> QED
      BY <1>5, <2>1, <2>2 DEF LogInv
  <1>6. CASE ParseLine
    <2>1. status' \in {"capturing", "parsing", "done", "raised"}
      BY <1>6 DEF ParseLine, LogInv
    <2> QED
      BY <1>5, <1>6, <2>1 DEF ParseLine
  <1>7. CASE EndOfFile
    BY <1>5, <1>7 DEF EndOfFile
  <1>8. CASE UNCHANGED rttVars
    BY <1>5, <1>8 DEF rttVars, programVars, LogInv
  <1> QED
    BY <1>2, <1>3, <1>4, <1>6, <1>7, <1>8 DEF RttNext

LEMMA WholePacket ==
  ASSUME NEW s \in Nat, viewer \in BOOLEAN, NEW l, PacketPart(TagAt, l, s, 13)
  PROVE  l = Line("packet", s)
  <1> DEFINE line == Line("packet", s)
  <1>1. PacketPart(TagAt, line, s, 13)
    BY PacketLine
  <1> HIDE DEF line
  <1>2. TagAt \in {1, 2}
    BY DEF TagAt
  <1>3. ASSUME NEW x, PacketPart(TagAt, x, s, 13)
        PROVE  /\ x \in Seq(WordSet) /\ Len(x) = TagAt + 13
               /\ \A j \in 1 .. TagAt + 13 :
                    x[j] = IF j < TagAt THEN Word("text")
                           ELSE IF j = TagAt THEN Word("tag") ELSE Field(Keys[j - TagAt], s)
    <2>1. /\ x \in Seq(WordSet) /\ Len(x) = TagAt + 13
          /\ \A j \in 1 .. TagAt - 1 : x[j] = Word("text")
          /\ x[TagAt] = Word("tag")
          /\ \A j \in 1 .. 13 : x[TagAt + j] = Field(Keys[j], s)
      BY <1>2, <1>3 DEF PacketPart
    <2>2. ASSUME NEW j \in 1 .. TagAt + 13
          PROVE  x[j] = IF j < TagAt THEN Word("text")
                        ELSE IF j = TagAt THEN Word("tag") ELSE Field(Keys[j - TagAt], s)
      <3>1. CASE j < TagAt
        <4>1. j \in 1 .. TagAt - 1
          BY <1>2, <3>1
        <4> QED
          BY <2>1, <3>1, <4>1
      <3>2. CASE j = TagAt
        <4>1. ~(j < TagAt)
          BY <1>2, <3>2
        <4> QED
          BY <2>1, <3>2, <4>1
      <3>3. CASE j > TagAt
        <4>1. j - TagAt \in 1 .. 13 /\ TagAt + (j - TagAt) = j /\ ~(j < TagAt) /\ j # TagAt
          BY <1>2, <3>3
        <4>2. x[j] = Field(Keys[j - TagAt], s)
          BY <2>1, <4>1
        <4> QED
          BY <4>1, <4>2
      <3> QED
        BY <1>2, <3>1, <3>2, <3>3
    <2> QED
      BY <2>1, <2>2
  <1>4. l = line
    <2>1. /\ l \in Seq(WordSet) /\ line \in Seq(WordSet) /\ Len(l) = Len(line)
          /\ \A j \in 1 .. Len(l) : l[j] = line[j]
      BY <1>1, <1>3
    <2> QED
      BY <2>1, SeqEqual
  <1> QED
    BY <1>4 DEF line

-----------------------------------------------------------------------------
(* The records: those of the tagged lines, in the order of the lines.      *)

FieldValues ==
  [type : {"number", "fragment", "empty", "string"}, of : Nat]

RecordSet == UNION { [D -> FieldValues] : D \in SUBSET (KeySet \cup {"key"}) }

TaggedLines(lg, n) == { k \in 1 .. n : Tagged(lg[k]) # {} }

Rows(row, lg, n, recs) ==
  /\ row \in [TaggedLines(lg, n) -> 1 .. Len(recs)]
  /\ \A k, l \in TaggedLines(lg, n) : k < l => row[k] < row[l]
  /\ \A r \in 1 .. Len(recs) : \E k \in TaggedLines(lg, n) : row[k] = r
  /\ \A k \in TaggedLines(lg, n) : recs[row[k]] = Parsed(lg[k])

ParseInv ==
  /\ parsed \in 0 .. Len(log) /\ records \in Seq(RecordSet) /\ Len(records) <= parsed
  /\ \A r \in 1 .. Len(records) : RecordOK(records[r])
  /\ status = "capturing" => parsed = 0 /\ records = <<>>
  /\ status = "done" => parsed = Len(log)
  /\ status = "raised" => parsed \in 1 .. Len(log) /\ Fatal(log[parsed])
  /\ status # "raised" => /\ \A k \in 1 .. parsed : ~Fatal(log[k])
                          /\ \E row : Rows(row, log, parsed, records)

LEMMA ParsedIsRecord ==
  ASSUME NEW l, RecordOK(Parsed(l))
  PROVE  Parsed(l) \in RecordSet
  <1> DEFINE r == Parsed(l)
  <1>1. r = [key \in DOMAIN r |-> r[key]]
    BY DEF Parsed
  <1> HIDE DEF r
  <1>2. RecordOK(r)
    BY DEF r
  <1>3. \A key \in DOMAIN r : r[key] \in FieldValues
    <2>1. \A n \in 1 .. MaxWindows : n \in Nat
      BY RttAssumption
    <2>2. \A key : ValueSet(key) \subseteq FieldValues
      BY <2>1 DEF ValueSet, FieldValues
    <2> QED
      BY <1>2, <2>2 DEF RecordOK
  <1>4. r \in [DOMAIN r -> FieldValues] /\ DOMAIN r \in SUBSET (KeySet \cup {"key"})
    BY <1>1, <1>2, <1>3 DEF RecordOK
  <1>5. r \in RecordSet
    BY <1>4, Zenon DEF RecordSet
  <1> QED
    BY <1>5 DEF r

LEMMA RowsSkip ==
  ASSUME NEW lg, NEW n \in Nat, NEW recs, NEW row, Rows(row, lg, n, recs),
         Tagged(lg[n + 1]) = {}
  PROVE  Rows(row, lg, n + 1, recs)
  <1>1. TaggedLines(lg, n + 1) = TaggedLines(lg, n)
    BY DEF TaggedLines
  <1> QED
    BY <1>1 DEF Rows

LEMMA RowsAppend ==
  ASSUME NEW lg, NEW n \in Nat, NEW recs \in Seq(RecordSet), NEW row, Rows(row, lg, n, recs),
         Tagged(lg[n + 1]) # {}, Parsed(lg[n + 1]) \in RecordSet
  PROVE  \E new : Rows(new, lg, n + 1, Append(recs, Parsed(lg[n + 1])))
  <1> DEFINE T    == TaggedLines(lg, n)
             U    == TaggedLines(lg, n + 1)
             r    == Parsed(lg[n + 1])
             all  == Append(recs, r)
             last == Len(recs) + 1
             new  == [k \in U |-> IF k = n + 1 THEN last ELSE row[k]]
  <1>1. Len(recs) \in Nat
    BY LenProperties
  <1>2. /\ Len(all) = last /\ all[last] = r
        /\ \A j \in 1 .. Len(recs) : all[j] = recs[j]
    BY AppendProperties
  <1>3. U = T \cup {n + 1} /\ \A k \in T : k \in Nat /\ k < n + 1 /\ k # n + 1
    BY DEF TaggedLines
  <1>4. /\ row \in [T -> 1 .. Len(recs)]
        /\ \A k, l \in T : k < l => row[k] < row[l]
        /\ \A j \in 1 .. Len(recs) : \E k \in T : row[k] = j
        /\ \A k \in T : recs[row[k]] = Parsed(lg[k])
    BY DEF Rows
  <1> HIDE DEF T, U, r, all, last
  <1>5. /\ new[n + 1] = last
        /\ \A k \in T : new[k] = row[k] /\ row[k] \in 1 .. Len(recs)
    BY <1>3, <1>4
  <1>6. 1 .. last = 1 .. Len(recs) \cup {last} /\ last \in Nat
        /\ \A j \in 1 .. Len(recs) : j < last /\ j \in Nat
    BY <1>1 DEF last
  <1>7. new \in [U -> 1 .. last]
    BY <1>3, <1>5, <1>6
  <1>8. ASSUME NEW k \in U, NEW l \in U, k < l PROVE new[k] < new[l]
    <2>1. k \in T
      BY <1>3, <1>8
    <2>2. CASE l \in T
      BY <1>4, <1>5, <1>8, <2>1, <2>2
    <2>3. CASE l = n + 1
      BY <1>5, <1>6, <2>1, <2>3
    <2> QED
      BY <1>3, <2>2, <2>3
  <1>9. ASSUME NEW j \in 1 .. last PROVE \E k \in U : new[k] = j
    <2>1. CASE j \in 1 .. Len(recs)
      BY <1>3, <1>4, <1>5, <2>1
    <2>2. CASE j = last
      BY <1>3, <1>5, <2>2
    <2> QED
      BY <1>6, <2>1, <2>2
  <1>10. ASSUME NEW k \in U PROVE all[new[k]] = Parsed(lg[k])
    <2>1. CASE k \in T
      BY <1>2, <1>4, <1>5, <2>1
    <2>2. CASE k = n + 1
      BY <1>2, <1>5, <2>2 DEF r
    <2> QED
      BY <1>3, <2>1, <2>2
  <1> HIDE DEF new
  <1>11. Rows(new, lg, n + 1, all)
    BY <1>2, <1>7, <1>8, <1>9, <1>10 DEF Rows, U
  <1> QED
    BY <1>11 DEF all, r

LEMMA ParseInit == RttInit => ParseInv
  <1> SUFFICES ASSUME RttInit PROVE ParseInv
    OBVIOUS
  <1>1. parsed = 0 /\ records = <<>> /\ status = "capturing"
    BY DEF RttInit
  <1>2. Len(log) \in Nat
    BY LogInit, LenProperties DEF LogInv, Lines
  <1>3. records \in Seq(RecordSet) /\ Len(records) = 0 /\ 1 .. 0 = {}
    BY <1>1
  <1>4. Rows(<<>>, log, 0, records)
    <2>1. TaggedLines(log, 0) = {}
      BY DEF TaggedLines
    <2>2. <<>> \in [{} -> 1 .. Len(records)]
      OBVIOUS
    <2> QED
      BY <1>3, <2>1, <2>2 DEF Rows
  <1> QED
    BY <1>1, <1>2, <1>3, <1>4 DEF ParseInv

LEMMA ParseStep == LogInv /\ ParseInv /\ [RttNext]_rttVars => ParseInv'
  <1> SUFFICES ASSUME LogInv, ParseInv, [RttNext]_rttVars PROVE ParseInv'
    OBVIOUS
  <1>0. /\ log \in Seq(Seq(WordSet)) /\ Len(log) \in Nat /\ TagAt \in {1, 2}
        /\ \A k \in 1 .. Len(log) : LogLine(TagAt, log[k])
    BY LenProperties DEF LogInv, Lines, TagAt
  <1>1. ASSUME status = "capturing", parsed' = parsed, records' = records,
               status' \in {"capturing", "parsing"}, Len(log') \in Nat
        PROVE  ParseInv'
    <2>1. parsed = 0 /\ records = <<>>
      BY <1>1 DEF ParseInv
    <2>2. records' \in Seq(RecordSet) /\ Len(records') = 0 /\ 1 .. 0 = {}
      BY <1>1, <2>1
    <2>3. Rows(<<>>, log', 0, records')
      <3>1. TaggedLines(log', 0) = {}
        BY DEF TaggedLines
      <3>2. <<>> \in [{} -> 1 .. Len(records')]
        OBVIOUS
      <3> QED
        BY <2>2, <3>1, <3>2 DEF Rows
    <2>4. parsed' = 0 /\ parsed' \in 0 .. Len(log') /\ status' # "raised" /\ status' # "done"
      BY <1>1, <2>1
    <2> QED
      BY <1>1, <2>1, <2>2, <2>3, <2>4 DEF ParseInv
  <1>2. Len(log') \in Nat
    BY LogStep, LenProperties DEF LogInv, Lines
  <1>3. CASE PrintLine
    BY <1>1, <1>2, <1>3 DEF PrintLine, parserVars
  <1>4. CASE Restart
    BY <1>1, <1>2, <1>4 DEF Restart, parserVars
  <1>5. CASE Close
    BY <1>1, <1>2, <1>5 DEF Close, parserVars
  <1>6. CASE ParseLine
    <2> DEFINE line == log[parsed + 1]
    <2>1. /\ status = "parsing" /\ parsed < Len(log) /\ parsed' = parsed + 1 /\ log' = log
          /\ \/ Tagged(line) = {} /\ records' = records /\ status' = status
             \/ Tagged(line) # {} /\ Raising(line) /\ status' = "raised" /\ records' = records
             \/ /\ Tagged(line) # {} /\ ~Raising(line)
                /\ records' = Append(records, Parsed(line)) /\ status' = status
      BY <1>6 DEF ParseLine, Raising
    <2>2. /\ parsed \in Nat /\ parsed + 1 \in 1 .. Len(log) /\ parsed + 1 \in 0 .. Len(log)
          /\ records \in Seq(RecordSet) /\ Len(records) \in Nat /\ Len(records) <= parsed
          /\ \A r \in 1 .. Len(records) : RecordOK(records[r])
          /\ \A k \in 1 .. parsed : ~Fatal(log[k])
          /\ \E row : Rows(row, log, parsed, records)
      BY <1>0, <2>1, LenProperties DEF ParseInv
    <2>3. LogLine(TagAt, line)
      BY <1>0, <2>2
    <2>4. /\ Tagged(line) # {} => RecordOK(Parsed(line))
          /\ Fatal(line) <=> Tagged(line) # {} /\ Raising(line)
      BY <1>0, <2>3, LineParsed
    <2>5. PICK row : Rows(row, log, parsed, records)
      BY <2>2
    <2>6. ASSUME ~Fatal(line) PROVE \A k \in 1 .. parsed + 1 : ~Fatal(log[k])
      <3>1. \A k \in 1 .. parsed + 1 : k \in 1 .. parsed \/ k = parsed + 1
        BY <2>2
      <3> QED
        BY <2>2, <2>6, <3>1
    <2>7. CASE Tagged(line) = {} /\ records' = records /\ status' = status
      <3>1. Rows(row, log, parsed + 1, records)
        BY <2>2, <2>5, <2>7, RowsSkip
      <3>2. \A k \in 1 .. parsed + 1 : ~Fatal(log[k])
        BY <2>4, <2>6, <2>7
      <3>3. Len(records) <= parsed + 1
        BY <2>2
      <3>4. Rows(row, log', parsed', records')
        BY <2>1, <2>7, <3>1
      <3> HIDE DEF line
      <3> QED
        BY <2>1, <2>2, <2>7, <3>2, <3>3, <3>4 DEF ParseInv
    <2>8. CASE Tagged(line) # {} /\ Raising(line) /\ status' = "raised" /\ records' = records
      <3>1. Fatal(log[parsed + 1])
        BY <2>4, <2>8
      <3>2. Len(records) <= parsed + 1
        BY <2>2
      <3> HIDE DEF line
      <3> QED
        BY <2>1, <2>2, <2>8, <3>1, <3>2 DEF ParseInv
    <2>9. CASE /\ Tagged(line) # {} /\ ~Raising(line)
               /\ records' = Append(records, Parsed(line)) /\ status' = status
      <3>1. RecordOK(Parsed(line)) /\ Parsed(line) \in RecordSet
        BY <2>4, <2>9, ParsedIsRecord
      <3>2. PICK new : Rows(new, log, parsed + 1, Append(records, Parsed(line)))
        BY <2>2, <2>5, <2>9, <3>1, RowsAppend
      <3>3. Rows(new, log', parsed', records')
        BY <2>1, <2>9, <3>2
      <3>4. /\ records' \in Seq(RecordSet) /\ Len(records') = Len(records) + 1
            /\ \A r \in 1 .. Len(records) : records'[r] = records[r]
            /\ records'[Len(records) + 1] = Parsed(line)
        BY <2>2, <2>9, <3>1, AppendProperties
      <3>5. Len(records') <= parsed + 1
        BY <2>2, <3>4
      <3>6. ASSUME NEW r \in 1 .. Len(records) + 1 PROVE RecordOK(records'[r])
        <4>1. CASE r \in 1 .. Len(records)
          BY <2>2, <3>4, <4>1
        <4>2. CASE r = Len(records) + 1
          BY <3>1, <3>4, <4>2
        <4> QED
          BY <2>2, <4>1, <4>2
      <3>7. \A r \in 1 .. Len(records') : RecordOK(records'[r])
        BY <3>4, <3>6
      <3>8. \A k \in 1 .. parsed + 1 : ~Fatal(log[k])
        BY <2>4, <2>6, <2>9
      <3> HIDE DEF line
      <3> QED
        BY <2>1, <2>2, <2>9, <3>3, <3>4, <3>5, <3>7, <3>8 DEF ParseInv
    <2> QED
      BY <2>1, <2>7, <2>8, <2>9
  <1>7. CASE EndOfFile
    BY <1>7 DEF EndOfFile, parserVars, ParseInv
  <1>8. CASE UNCHANGED rttVars
    BY <1>8 DEF rttVars, ParseInv
  <1> QED
    BY <1>3, <1>4, <1>5, <1>6, <1>7, <1>8 DEF RttNext

LEMMA RttInvariant == RttSpec => [](LogInv /\ ParseInv)
  <1>1. RttInit => LogInv /\ ParseInv
    BY LogInit, ParseInit
  <1>2. (LogInv /\ ParseInv) /\ [RttNext]_rttVars => (LogInv /\ ParseInv)'
    BY LogStep, ParseStep
  <1> QED
    BY <1>1, <1>2, PTL DEF RttSpec

-----------------------------------------------------------------------------
(* The theorems.                                                           *)

\* The log, the parser's place in it and its records keep their types, and a
\* record holds TPGW_PKT's keys, or "key" where it is of the line that announces
\* the format (parse_packet_line).
THEOREM RttTypesCorrect == RttSpec => []RttTypeOK
  <1>1. LogInv /\ ParseInv => RttTypeOK
    <2> SUFFICES ASSUME LogInv, ParseInv PROVE RttTypeOK
      OBVIOUS
    <2>1. DOMAIN records = 1 .. Len(records)
      BY LenProperties DEF ParseInv
    <2>2. \A r \in DOMAIN records : RecordOK(records[r])
      BY <2>1 DEF ParseInv
    <2> QED
      BY <2>2 DEF RttTypeOK, LogInv, ParseInv, RecordOK, ValueSet
  <1> QED
    BY <1>1, RttInvariant, PTL

\* When the parser has gone through the log, each whole line of a window has its
\* complete record, once and in the order of the lines, and no other record is
\* complete: for any number of windows and restarts, wherever lines are cut
\* (PACKET_RE, parse_packet_line, parse_file).
THEOREM WindowsRecordedAlways == RttSpec => []WindowsRecorded
  <1>1. LogInv /\ ParseInv => WindowsRecorded
    <2> SUFFICES ASSUME LogInv, ParseInv, status = "done" PROVE
          \E row \in [WholeWindows -> CompleteRecords] :
            /\ \A k, l \in WholeWindows : k < l => row[k] < row[l]
            /\ \A r \in CompleteRecords : \E k \in WholeWindows : row[k] = r
            /\ \A k \in WholeWindows : \A s \in 1 .. MaxWindows :
                 log[k] = Line("packet", s) => records[row[k]] = Record(s)
      BY DEF WindowsRecorded
    <2>1. /\ viewer \in BOOLEAN /\ TagAt \in {1, 2} /\ log \in Seq(Seq(WordSet))
          /\ DOMAIN log = 1 .. Len(log) /\ parsed = Len(log)
          /\ records \in Seq(RecordSet) /\ DOMAIN records = 1 .. Len(records)
          /\ \A k \in 1 .. Len(log) : LogLine(TagAt, log[k])
      BY LenProperties DEF LogInv, ParseInv, Lines, TagAt
    <2>2. \A k \in 1 .. Len(log) : ~Fatal(log[k])
      BY <2>1 DEF ParseInv
    <2> DEFINE T == TaggedLines(log, Len(log))
    <2>3. PICK row : Rows(row, log, Len(log), records)
      BY <2>1 DEF ParseInv
    <2>4. /\ row \in [T -> 1 .. Len(records)]
          /\ \A k, l \in T : k < l => row[k] < row[l]
          /\ \A r \in 1 .. Len(records) : \E k \in T : row[k] = r
          /\ \A k \in T : records[row[k]] = Parsed(log[k])
      BY <2>3 DEF Rows
    <2>5. ASSUME NEW k \in 1 .. Len(log), NEW s \in 1 .. MaxWindows
          PROVE  /\ log[k] = Line("packet", s) =>
                      k \in T /\ Parsed(log[k]) = Record(s)
                 /\ k \in T /\ Parsed(log[k]) = Record(s) => log[k] = Line("packet", s)
      <3>1. /\ Fatal(log[k]) <=> Tagged(log[k]) # {} /\ Raising(log[k])
            /\ PacketPart(TagAt, log[k], s, 13) =>
                 Tagged(log[k]) # {} /\ ~Raising(log[k]) /\ Parsed(log[k]) = Record(s)
            /\ Tagged(log[k]) # {} /\ ~Raising(log[k]) /\ Parsed(log[k]) = Record(s) =>
                 PacketPart(TagAt, log[k], s, 13)
        BY <2>1, LineParsed
      <3>2. s \in Nat
        BY RttAssumption
      <3>3. PacketPart(TagAt, Line("packet", s), s, 13)
        BY <2>1, <3>2, PacketLine
      <3>4. ASSUME PacketPart(TagAt, log[k], s, 13)
            PROVE  log[k] = Line("packet", s)
        BY <2>1, <3>2, <3>4, WholePacket
      <3> QED
        BY <2>2, <3>1, <3>3, <3>4 DEF TaggedLines
    <2>6. \A k \in WholeWindows :
            /\ k \in 1 .. Len(log) /\ k \in T
            /\ \E s \in 1 .. MaxWindows : log[k] = Line("packet", s) /\ Parsed(log[k]) = Record(s)
      BY <2>1, <2>5 DEF WholeWindows
    <2> DEFINE whole == [k \in WholeWindows |-> row[k]]
    <2> HIDE DEF T
    <2>7. ASSUME NEW k \in WholeWindows PROVE row[k] \in CompleteRecords
      <3>1. k \in T /\ \E s \in 1 .. MaxWindows : Parsed(log[k]) = Record(s)
        BY <2>6
      <3>2. row[k] \in DOMAIN records /\ records[row[k]] = Parsed(log[k])
        BY <2>1, <2>4, <3>1
      <3> QED
        BY <3>1, <3>2 DEF CompleteRecords
    <2>8. whole \in [WholeWindows -> CompleteRecords]
      BY <2>7
    <2>9. \A k, l \in WholeWindows : k < l => whole[k] < whole[l]
      BY <2>4, <2>6
    <2>10. ASSUME NEW r \in CompleteRecords
           PROVE  \E k \in WholeWindows : whole[k] = r
      <3>1. PICK s \in 1 .. MaxWindows : records[r] = Record(s)
        BY DEF CompleteRecords
      <3>2. r \in 1 .. Len(records)
        BY <2>1 DEF CompleteRecords
      <3>3. PICK k \in T : row[k] = r
        BY <2>4, <3>2
      <3>4. k \in 1 .. Len(log) /\ Parsed(log[k]) = Record(s)
        BY <2>4, <3>1, <3>3 DEF T, TaggedLines
      <3>5. log[k] = Line("packet", s)
        BY <2>5, <3>3, <3>4
      <3>6. k \in WholeWindows
        BY <2>1, <3>4, <3>5 DEF WholeWindows
      <3> QED
        BY <3>3, <3>6
    <2>11. ASSUME NEW k \in WholeWindows, NEW s \in 1 .. MaxWindows, log[k] = Line("packet", s)
           PROVE  records[whole[k]] = Record(s)
      <3>1. k \in T /\ Parsed(log[k]) = Record(s)
        BY <2>5, <2>6, <2>11
      <3> QED
        BY <2>4, <3>1
    <2> HIDE DEF whole
    <2> QED
      BY <2>8, <2>9, <2>10, <2>11
  <1> QED
    BY <1>1, RttInvariant, PTL

\* The parser raises only at a packet line that was cut just behind the "0x" of a
\* value, and gets through a log that has none (parse_value).
THEOREM RaisesExplained == RttSpec => []RaiseExplained
  <1>1. LogInv /\ ParseInv => RaiseExplained
    <2> SUFFICES ASSUME LogInv, ParseInv PROVE RaiseExplained
      OBVIOUS
    <2>1. status = "done" => \A k \in 1 .. Len(log) : ~Fatal(log[k])
      BY DEF ParseInv
    <2>2. status = "raised" => Fatal(log[parsed])
      BY DEF ParseInv
    <2> QED
      BY <2>1, <2>2 DEF RaiseExplained, Fatal
  <1> QED
    BY <1>1, RttInvariant, PTL
=============================================================================
