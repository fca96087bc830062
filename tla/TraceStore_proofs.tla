-------------------------- MODULE TraceStore_proofs --------------------------
(***************************************************************************)
(* Proofs about TraceStore for every number of runners, every limit and    *)
(* every number of kills and short writes.  Three inductive invariants:    *)
(* OrderOK keeps the lines of every inode and every hand in order, also    *)
(* past the place where a slow runner writes over another's file; BoundOK  *)
(* gives each record past the limit a runner that answers for it; and      *)
(* NewestOK names the records that short writes cost, so that all others   *)
(* stand near enough to the end to be kept.                                *)
(***************************************************************************)
EXTENDS TraceStore, TLAPS, FiniteSetTheorems, SequenceTheorems

----------------------------------------------------------------------------
\* The lines of a file

LineOfText == [records : Seq(Nat) \ {<<>>}, ended : BOOLEAN]
Lines == Seq(LineOfText)

\* The records of the lines that parse, from position p on.
RecordsPast(lines, p) == {lines[k].records[1] : k \in {k \in DOMAIN lines : k > p /\ Parses(lines[k])}}

Increasing(lines) ==
  \A j, k \in DOMAIN lines :
    j < k /\ Parses(lines[j]) /\ Parses(lines[k]) => lines[j].records[1] < lines[k].records[1]

LinesTypeOK ==
  /\ StoreTypeOK
  /\ content \in [Inodes -> Lines] /\ kept \in [Writers -> Lines]
  /\ killed \in Nat /\ short \in Nat

\* What a writer has open and in hand at each step, and that no one appends to
\* the temporary.
HandsOK ==
  \A w \in Writers :
    /\ held[w] # NoInode <=> at[w] \in {"appending", "writing"}
    /\ at[w] \in {"saving", "writing"} => Limit > 0 /\ Len(kept[w]) = Limit
    /\ at[w] \notin {"saving", "writing"} => kept[w] = <<>>
    /\ at[w] = "appending" => held[w] # tmp

\* Every inode and every hand holds records in the order of their appending, and
\* what a writer would leave standing behind the lines it writes is newer than they are.
InOrder(lines, n) == Increasing(lines) /\ \A r \in RecordsPast(lines, 0) : r <= n
Behind(lines, old) == \A r \in RecordsPast(lines, 0), q \in RecordsPast(old, Limit) : r < q
OrderOK ==
  /\ \A i \in Inodes : InOrder(content[i], written)
  /\ \A w \in Writers : InOrder(kept[w], written)
  /\ \A w \in Writers : at[w] = "writing" => Behind(kept[w], content[held[w]])

\* The writers that answer for a record past the limit: those about to look at
\* the file, and those whose temporary will replace it.
Owners ==
  {w \in Writers : at[w] \in {"reading", "saving"} \/ (tmp # NoInode /\ at[w] \in {"writing", "renaming"})}
BoundOK ==
  Limit > 0 =>
    /\ tmp # NoInode => RecordsPast(content[tmp], Limit) = {}
    /\ IsFiniteSet(RecordsPast(content[path], Limit))
    /\ Cardinality(RecordsPast(content[path], Limit)) <= Cardinality(Owners) + killed

\* Of records 1 to n lines hold the newest but those cut short, C, and those that
\* ran into them, each near enough to the end for retention to keep it.
Lost(C) == C \cup {c + 1 : c \in C}
Covers(lines, C, n) ==
  \A r \in (1..n) \ Lost(C) :
    (Limit > 0 => r > n - Limit) =>
      \E k \in DOMAIN lines :
        Parses(lines[k]) /\ lines[k].records[1] = r /\ Len(lines) - k <= n - r
Closed(lines) == lines # <<>> => Last(lines).ended
OneAtWork == \A v, w \in Writers : Idle(v) \/ Idle(w) \/ v = w
KeepsNewest(C) ==
  /\ Covers(content[path], C, written)
  /\ Closed(content[path]) \/ written \in C
  /\ \A w \in Writers :
       /\ at[w] = "appending" => held[w] = path
       /\ at[w] \in {"saving", "writing"} =>
            Covers(kept[w], C, written) /\ (\A k \in DOMAIN kept[w] : kept[w][k].ended)
       /\ at[w] = "writing" => held[w] = tmp /\ content[held[w]] = <<>>
       /\ at[w] = "renaming" =>
            tmp # NoInode /\ Covers(content[tmp], C, written) /\ Closed(content[tmp])
NewestOK ==
  ~ overlapped =>
    /\ OneAtWork
    /\ \E C \in SUBSET (1..written) : Cardinality(C) <= short /\ KeepsNewest(C)

----------------------------------------------------------------------------
\* Lines and their records

LEMMA LineIsText ==
  ASSUME NEW records \in Seq(Nat) \ {<<>>}, NEW ended \in BOOLEAN
  PROVE  Line(records, ended) \in LineOfText
BY DEF Line, LineOfText

\* A line with no end, ended or run on by another record, does not parse.
LEMMA RunOn ==
  ASSUME NEW line \in LineOfText, NEW r \in Nat, NEW ended \in BOOLEAN
  PROVE  /\ Line(Append(line.records, r), ended) \in LineOfText
         /\ ~ Parses(Line(Append(line.records, r), ended))
         /\ Line(line.records \o <<r>>, ended) \in LineOfText
         /\ ~ Parses(Line(line.records \o <<r>>, ended))
<1>1. line.records \in Seq(Nat) /\ Len(line.records) \in Nat \ {0}
  BY EmptySeq DEF LineOfText
<1>2. /\ Append(line.records, r) \in Seq(Nat) \ {<<>>}
      /\ Len(Append(line.records, r)) = Len(line.records) + 1
  BY <1>1, AppendProperties
<1>3. Append(line.records, r) = line.records \o <<r>>
  BY <1>1, AppendIsConcat
<1>4. Len(Append(line.records, r)) # 1
  BY <1>1, <1>2
<1> QED
  BY <1>2, <1>3, <1>4, LineIsText DEF Line, Parses

LEMMA LinesDomain ==
  ASSUME NEW lines \in Lines
  PROVE  /\ Len(lines) \in Nat /\ DOMAIN lines = 1..Len(lines)
         /\ \A k \in 1..Len(lines) : lines[k] \in LineOfText
         /\ lines = <<>> <=> Len(lines) = 0
BY LenProperties, ElementOfSeq, EmptySeq DEF Lines

LEMMA NoLines == <<>> \in Lines /\ Len(<<>>) = 0 /\ DOMAIN <<>> = {}
BY EmptySeq, LenProperties DEF Lines

LEMMA RecordIsNat ==
  ASSUME NEW line \in LineOfText
  PROVE  line.records[1] \in Nat
<1>1. line.records \in Seq(Nat) /\ Len(line.records) \in Nat \ {0}
  BY EmptySeq DEF LineOfText
<1>2. 1 \in 1..Len(line.records)
  BY <1>1
<1> QED
  BY <1>1, <1>2, ElementOfSeq

\* The new text ends the file: on a line of its own, or run on to what was left
\* without an end.
LEMMA AppendedLine ==
  ASSUME NEW lines \in Lines, NEW r \in Nat, NEW ended \in BOOLEAN,
         lines = <<>> \/ Last(lines).ended
  PROVE  LET new == appendLine(lines, r, ended)
         IN  /\ new \in Lines /\ Len(new) = Len(lines) + 1
             /\ \A k \in 1..Len(lines) : new[k] = lines[k]
             /\ new[Len(new)] = Line(<<r>>, ended)
<1>1. appendLine(lines, r, ended) = Append(lines, Line(<<r>>, ended))
  BY DEF appendLine
<1>2. <<r>> \in Seq(Nat) \ {<<>>}
  OBVIOUS
<1>3. Line(<<r>>, ended) \in LineOfText
  BY <1>2, LineIsText
<1> QED
  BY <1>1, <1>3, AppendProperties, LinesDomain DEF Lines

LEMMA AppendedToFragment ==
  ASSUME NEW lines \in Lines, NEW r \in Nat, NEW ended \in BOOLEAN,
         lines # <<>>, ~ Last(lines).ended
  PROVE  LET new == appendLine(lines, r, ended)
         IN  /\ new \in Lines /\ Len(new) = Len(lines)
             /\ \A k \in 1..(Len(lines) - 1) : new[k] = lines[k]
             /\ ~ Parses(new[Len(new)]) /\ new[Len(new)].ended = ended
             /\ ~ Parses(lines[Len(lines)])
<1> DEFINE n == Len(lines)
           line == Line(Append(Last(lines).records, r), ended)
<1>1. n \in Nat \ {0} /\ \A k \in 1..n : lines[k] \in LineOfText
  BY LinesDomain
<1>2. Last(lines) = lines[n] /\ lines[n] \in LineOfText
  BY <1>1 DEF Last
<1>3. line \in LineOfText /\ ~ Parses(line) /\ line.ended = ended
  BY <1>2, RunOn DEF Line
<1>4. /\ Front(lines) \in Seq(LineOfText) /\ Len(Front(lines)) = n - 1
      /\ \A k \in 1..(n - 1) : Front(lines)[k] = lines[k]
  <2>1. \A k \in 1..(n - 1) : lines[k] \in LineOfText
    BY <1>1
  <2>2. /\ SubSeq(lines, 1, n - 1) \in Seq(LineOfText)
        /\ Len(SubSeq(lines, 1, n - 1)) = (IF 1 <= n - 1 THEN n - 1 - 1 + 1 ELSE 0)
        /\ \A i \in 1..(n - 1 - 1 + 1) : SubSeq(lines, 1, n - 1)[i] = lines[1 + i - 1]
    BY <1>1, <2>1, SubSeqProperties
  <2>3. Front(lines) = SubSeq(lines, 1, n - 1)
    BY DEF Front
  <2>4. Len(SubSeq(lines, 1, n - 1)) = n - 1
    <3> HIDE DEF n
    <3>1. (IF 1 <= n - 1 THEN n - 1 - 1 + 1 ELSE 0) = n - 1
      BY <1>1
    <3> QED
      BY <2>2, <3>1
  <2>5. ASSUME NEW k \in 1..(n - 1) PROVE SubSeq(lines, 1, n - 1)[k] = lines[k]
    <3>1. k \in 1..(n - 1 - 1 + 1) /\ 1 + k - 1 = k
      BY <1>1
    <3> QED
      BY <2>2, <3>1
  <2> QED
    BY <2>2, <2>3, <2>4, <2>5
<1>5. appendLine(lines, r, ended) = Append(Front(lines), line)
  BY DEF appendLine
<1> HIDE DEF line
<1>6. /\ Append(Front(lines), line) \in Lines
      /\ Len(Append(Front(lines), line)) = n
      /\ \A k \in 1..(n - 1) : Append(Front(lines), line)[k] = lines[k]
      /\ Append(Front(lines), line)[n] = line
  BY <1>1, <1>3, <1>4, AppendProperties DEF Lines
<1>7. ~ Parses(lines[n])
  BY <1>2 DEF Parses
<1> QED
  BY <1>3, <1>5, <1>6, <1>7

\* What is kept is what stood last, and all of it ended.
LEMMA KeptLines ==
  ASSUME NEW lines \in Lines, Limit < Len(lines)
  PROVE  LET new == newestLines(lines)
             d == Len(lines) - Limit
         IN  /\ new \in Lines /\ Len(new) = Limit
             /\ \A k \in 1..Limit :
                  /\ new[k].ended
                  /\ Parses(new[k]) => Parses(lines[d + k]) /\ new[k] = lines[d + k]
                  /\ Parses(lines[d + k]) => new[k] = lines[d + k]
<1> DEFINE d == Len(lines) - Limit
           e(k) == IF lines[d + k].ended THEN lines[d + k] ELSE Line(lines[d + k].records \o <<0>>, TRUE)
           new == [k \in 1..Limit |-> e(k)]
<1>1. Limit \in Nat /\ Len(lines) \in Nat /\ d \in Nat
  BY StoreAssumption, LinesDomain
<1>2. newestLines(lines) = new
  BY DEF newestLines
<1>3. \A k \in 1..Limit : lines[d + k] \in LineOfText
  <2>1. \A k \in 1..Limit : d + k \in 1..Len(lines)
    BY <1>1
  <2> QED
    BY <2>1, LinesDomain
<1>4. \A k \in 1..Limit :
        /\ e(k) \in LineOfText /\ e(k).ended
        /\ Parses(e(k)) => e(k) = lines[d + k]
        /\ Parses(lines[d + k]) => e(k) = lines[d + k]
  <2> SUFFICES ASSUME NEW k \in 1..Limit
               PROVE  /\ e(k) \in LineOfText /\ e(k).ended
                      /\ Parses(e(k)) => e(k) = lines[d + k]
                      /\ Parses(lines[d + k]) => e(k) = lines[d + k]
    OBVIOUS
  <2>1. CASE lines[d + k].ended
    BY <1>3, <2>1
  <2>2. CASE ~ lines[d + k].ended
    <3>1. e(k) = Line(lines[d + k].records \o <<0>>, TRUE)
      BY <2>2
    <3>2. /\ Line(lines[d + k].records \o <<0>>, TRUE) \in LineOfText
          /\ ~ Parses(Line(lines[d + k].records \o <<0>>, TRUE))
      BY <1>3, RunOn
    <3>3. ~ Parses(lines[d + k])
      BY <2>2 DEF Parses
    <3>4. Line(lines[d + k].records \o <<0>>, TRUE).ended
      BY DEF Line
    <3> QED
      BY <3>1, <3>2, <3>3, <3>4
  <2> QED
    BY <2>1, <2>2
<1> HIDE DEF e
<1>5. new \in Seq(LineOfText) /\ Len(new) = Limit
  BY <1>1, <1>4
<1>6. \A k \in 1..Limit : new[k] = e(k)
  OBVIOUS
<1> QED
  BY <1>2, <1>4, <1>5, <1>6 DEF Lines

\* What is written over the start of a file leaves standing only what stood past it,
\* where it stood or one line further on.
LEMMA LinesWritten ==
  ASSUME NEW old \in Lines, NEW new \in Lines, NEW lines \in overwritten(old, new)
  PROVE  /\ lines \in Lines /\ Len(new) <= Len(lines)
         /\ \A k \in 1..Len(new) : lines[k] = new[k]
         /\ \E d \in {0, 1} : \A k \in DOMAIN lines :
              k > Len(new) /\ Parses(lines[k]) =>
                /\ k - d \in DOMAIN old /\ k - d > Len(new)
                /\ lines[k] = old[k - d]
         /\ old = <<>> => lines = new
<1> DEFINE n == Len(new)
           rest == SubSeq(old, n + 1, Len(old))
<1>1. n \in Nat /\ Len(old) \in Nat
  BY LinesDomain
<1>2. /\ rest \in Lines
      /\ Len(rest) = IF n + 1 <= Len(old) THEN Len(old) - n ELSE 0
      /\ \A j \in 1..Len(rest) : n + j \in 1..Len(old) /\ rest[j] = old[n + j]
  <2>1. \A k \in (n + 1)..Len(old) : old[k] \in LineOfText
    <3>1. \A k \in (n + 1)..Len(old) : k \in 1..Len(old)
      BY <1>1
    <3> QED
      BY <3>1, LinesDomain
  <2>2. /\ rest \in Seq(LineOfText)
        /\ Len(rest) = (IF n + 1 <= Len(old) THEN Len(old) - (n + 1) + 1 ELSE 0)
        /\ \A i \in 1..(Len(old) - (n + 1) + 1) : rest[i] = old[n + 1 + i - 1]
    BY <1>1, <2>1, SubSeqProperties
  <2>3. Len(rest) = IF n + 1 <= Len(old) THEN Len(old) - n ELSE 0
    BY <1>1, <2>2
  <2>4. ASSUME NEW j \in 1..Len(rest) PROVE n + j \in 1..Len(old) /\ rest[j] = old[n + j]
    <3> HIDE DEF rest, n
    <3>1. j \in 1..(Len(old) - (n + 1) + 1) /\ n + 1 + j - 1 = n + j /\ n + j \in 1..Len(old)
      BY <1>1, <2>3
    <3> QED
      BY <2>2, <3>1
  <2> QED
    BY <2>2, <2>3, <2>4 DEF Lines
<1> HIDE DEF rest
<1>3. \/ lines = new \o rest
      \/ lines = new \o <<Fragment>> \o rest /\ ~ IsPrefix(old, new)
  BY DEF overwritten, rest
<1>4. CASE lines = new \o rest
  <2>1. /\ lines \in Lines /\ Len(lines) = n + Len(rest)
        /\ \A i \in 1..(n + Len(rest)) : lines[i] = IF i <= n THEN new[i] ELSE rest[i - n]
    BY <1>2, <1>4, ConcatProperties DEF Lines
  <2>2. DOMAIN lines = 1..(n + Len(rest)) /\ DOMAIN old = 1..Len(old) /\ Len(rest) \in Nat
    BY <1>2, <2>1, LinesDomain
  <2>3. \A k \in 1..n : lines[k] = new[k]
    BY <1>1, <2>1, <2>2
  <2>4. ASSUME NEW k \in DOMAIN lines, k > n
        PROVE  k - 0 \in DOMAIN old /\ k - 0 > n /\ lines[k] = old[k - 0]
    <3>1. k - n \in 1..Len(rest) /\ n + (k - n) = k /\ k - 0 = k
      BY <1>1, <2>2, <2>4
    <3>2. lines[k] = rest[k - n]
      BY <1>1, <2>1, <2>2, <2>4
    <3>3. n + (k - n) \in 1..Len(old) /\ rest[k - n] = old[n + (k - n)]
      BY <1>2, <3>1
    <3> QED
      BY <2>2, <2>4, <3>1, <3>2, <3>3
  <2>5. old = <<>> => lines = new
    <3> SUFFICES ASSUME old = <<>> PROVE lines = new
      OBVIOUS
    <3>1. Len(rest) = 0
      BY <1>1, <1>2, LinesDomain
    <3>2. rest = <<>>
      BY <1>2, <3>1, LinesDomain
    <3> QED
      BY <1>4, <3>2, ConcatEmptySeq DEF Lines
  <2>6. n <= Len(lines)
    BY <1>1, <2>1, <2>2
  <2> QED
    BY <2>1, <2>3, <2>4, <2>5, <2>6
<1>5. CASE lines = new \o <<Fragment>> \o rest /\ ~ IsPrefix(old, new)
  <2>1. Fragment \in LineOfText /\ ~ Parses(Fragment)
    <3>1. <<0, 0>> \in Seq(Nat) /\ Len(<<0, 0>>) = 2 /\ <<0, 0>> # <<>>
      OBVIOUS
    <3>2. Fragment \in LineOfText
      BY <3>1, LineIsText DEF Fragment
    <3>3. Fragment.records = <<0, 0>>
      BY DEF Fragment, Line
    <3> QED
      BY <3>1, <3>2, <3>3 DEF Parses
  <2>2. <<Fragment>> \in Lines /\ Len(<<Fragment>>) = 1 /\ <<Fragment>>[1] = Fragment
    BY <2>1 DEF Lines
  <2> DEFINE head == new \o <<Fragment>>
  <2>3. /\ head \in Lines /\ Len(head) = n + 1
        /\ \A i \in 1..(n + 1) : head[i] = IF i <= n THEN new[i] ELSE <<Fragment>>[i - n]
    BY <2>2, ConcatProperties DEF Lines
  <2> HIDE DEF head
  <2>4. lines = head \o rest
    BY <1>5 DEF head
  <2>5. /\ lines \in Lines /\ Len(lines) = n + 1 + Len(rest)
        /\ \A i \in 1..(n + 1 + Len(rest)) :
             lines[i] = IF i <= n + 1 THEN head[i] ELSE rest[i - (n + 1)]
    <3>1. /\ head \o rest \in Lines /\ Len(head \o rest) = Len(head) + Len(rest)
          /\ \A i \in 1..(Len(head) + Len(rest)) :
               (head \o rest)[i] = IF i <= Len(head) THEN head[i] ELSE rest[i - Len(head)]
      <4>1. head \in Seq(LineOfText) /\ rest \in Seq(LineOfText)
        BY <1>2, <2>3 DEF Lines
      <4> HIDE DEF n
      <4> QED
        BY <4>1, ConcatProperties DEF Lines
    <3> QED
      BY <2>3, <2>4, <3>1
  <2>6. /\ DOMAIN lines = 1..(n + 1 + Len(rest)) /\ DOMAIN old = 1..Len(old)
        /\ Len(rest) \in Nat
    BY <1>2, <2>5, LinesDomain
  <2>7. ASSUME NEW k \in 1..n PROVE lines[k] = new[k]
    <3>1. k \in 1..(n + 1 + Len(rest)) /\ k \in 1..(n + 1) /\ k <= n /\ k <= n + 1
      BY <1>1, <2>6
    <3> QED
      BY <2>3, <2>5, <3>1
  <2>8. ASSUME NEW k \in DOMAIN lines, k > n, Parses(lines[k])
        PROVE  k - 1 \in DOMAIN old /\ k - 1 > n /\ lines[k] = old[k - 1]
    <3>1. k # n + 1
      <4> SUFFICES ASSUME k = n + 1 PROVE FALSE
        OBVIOUS
      <4>1. n + 1 \in 1..(n + 1) /\ n + 1 \in 1..(n + 1 + Len(rest)) /\ ~ (n + 1 <= n) /\ n + 1 - n = 1
        BY <1>1, <2>6
      <4>2. lines[n + 1] = head[n + 1] /\ head[n + 1] = <<Fragment>>[1]
        BY <2>3, <2>5, <4>1
      <4> QED
        BY <2>1, <2>2, <2>8, <4>2
    <3>2. /\ k - (n + 1) \in 1..Len(rest) /\ n + (k - (n + 1)) = k - 1
          /\ k - 1 > n /\ ~ (k <= n + 1) /\ k \in 1..(n + 1 + Len(rest))
      BY <1>1, <2>6, <2>8, <3>1
    <3>3. lines[k] = rest[k - (n + 1)]
      BY <2>5, <3>2
    <3>4. n + (k - (n + 1)) \in 1..Len(old) /\ rest[k - (n + 1)] = old[n + (k - (n + 1))]
      BY <1>2, <3>2
    <3> QED
      BY <2>6, <3>2, <3>3, <3>4
  <2>9. old # <<>>
    <3> SUFFICES ASSUME old = <<>> PROVE FALSE
      OBVIOUS
    <3>1. Len(old) = 0
      BY LinesDomain
    <3>2. SubSeq(old, 1, 0) = <<>> /\ SubSeq(new, 1, 0) = <<>>
      BY SubSeqEmpty
    <3>3. IsPrefix(old, new)
      BY <1>1, <3>1, <3>2 DEF IsPrefix
    <3> QED
      BY <1>5, <3>3
  <2>10. n <= Len(lines)
    BY <1>1, <2>5, <2>6
  <2> QED
    BY <2>5, <2>7, <2>8, <2>9, <2>10
<1> QED
  BY <1>3, <1>4, <1>5

LEMMA RecordPast ==
  ASSUME NEW lines \in Lines, NEW p, NEW r
  PROVE  r \in RecordsPast(lines, p) <=>
           \E k \in 1..Len(lines) : k > p /\ Parses(lines[k]) /\ lines[k].records[1] = r
<1>1. DOMAIN lines = 1..Len(lines)
  BY LinesDomain
<1> QED
  BY <1>1 DEF RecordsPast

LEMMA RecordsPastIn ==
  ASSUME NEW lines \in Lines, NEW p \in Nat
  PROVE  RecordsPast(lines, p) \subseteq RecordsPast(lines, 0) /\ RecordsPast(lines, p) \subseteq Nat
<1>1. ASSUME NEW r \in RecordsPast(lines, p) PROVE r \in RecordsPast(lines, 0) /\ r \in Nat
  <2>1. PICK k \in 1..Len(lines) : Parses(lines[k]) /\ lines[k].records[1] = r
    BY <1>1, RecordPast
  <2>2. k > 0
    BY LinesDomain
  <2>3. lines[k] \in LineOfText
    BY LinesDomain
  <2>4. r \in Nat
    BY <2>1, <2>3, RecordIsNat
  <2> QED
    BY <2>1, <2>2, <2>4, RecordPast
<1> QED
  BY <1>1

LEMMA NoRecords == \A p : RecordsPast(<<>>, p) = {} /\ Increasing(<<>>)
<1>1. DOMAIN <<>> = {}
  BY NoLines
<1>2. \A p : RecordsPast(<<>>, p) = {}
  <2> SUFFICES ASSUME NEW p, NEW r \in RecordsPast(<<>>, p) PROVE FALSE
    OBVIOUS
  <2>1. \E k \in 1..Len(<<>>) : TRUE
    BY RecordPast, NoLines
  <2> QED
    BY <2>1, NoLines
<1>3. Increasing(<<>>)
  BY <1>1 DEF Increasing
<1> QED
  BY <1>2, <1>3

\* Of what parses after an append only the last line can be new.
LEMMA AppendedParses ==
  ASSUME NEW lines \in Lines, NEW r \in Nat, NEW ended \in BOOLEAN
  PROVE  LET new == appendLine(lines, r, ended)
         IN  /\ new \in Lines
             /\ \A k \in DOMAIN new : Parses(new[k]) =>
                  \/ k \in DOMAIN lines /\ new[k] = lines[k]
                  \/ ended /\ k = Len(lines) + 1 /\ new[k].records[1] = r
<1> DEFINE new == appendLine(lines, r, ended)
<1>1. CASE lines = <<>> \/ Last(lines).ended
  <2>1. /\ new \in Lines /\ Len(new) = Len(lines) + 1
        /\ \A k \in 1..Len(lines) : new[k] = lines[k]
        /\ new[Len(new)] = Line(<<r>>, ended)
    BY <1>1, AppendedLine
  <2> HIDE DEF new
  <2>2. DOMAIN new = 1..(Len(lines) + 1) /\ DOMAIN lines = 1..Len(lines) /\ Len(lines) \in Nat
    BY <2>1, LinesDomain
  <2>3. ASSUME NEW k \in DOMAIN new, Parses(new[k])
        PROVE  \/ k \in DOMAIN lines /\ new[k] = lines[k]
               \/ ended /\ k = Len(lines) + 1 /\ new[k].records[1] = r
    <3>1. CASE k \in 1..Len(lines)
      BY <2>1, <2>2, <3>1
    <3>2. CASE k = Len(lines) + 1
      <4>1. new[k] = Line(<<r>>, ended)
        BY <2>1, <3>2
      <4>2. Line(<<r>>, ended).ended = ended /\ Line(<<r>>, ended).records[1] = r
        BY DEF Line
      <4> QED
        BY <2>3, <3>2, <4>1, <4>2 DEF Parses
    <3> QED
      BY <2>2, <3>1, <3>2
  <2>4. new \in Lines
    BY <2>1
  <2> QED
    BY <2>3, <2>4 DEF new
<1>2. CASE lines # <<>> /\ ~ Last(lines).ended
  <2>1. /\ new \in Lines /\ Len(new) = Len(lines)
        /\ \A k \in 1..(Len(lines) - 1) : new[k] = lines[k]
        /\ ~ Parses(new[Len(new)])
    BY <1>2, AppendedToFragment
  <2> HIDE DEF new
  <2>2. DOMAIN new = 1..Len(lines) /\ DOMAIN lines = 1..Len(lines) /\ Len(lines) \in Nat
    BY <2>1, LinesDomain
  <2>3. ASSUME NEW k \in DOMAIN new, Parses(new[k])
        PROVE  k \in DOMAIN lines /\ new[k] = lines[k]
    <3>1. k # Len(lines)
      BY <2>1, <2>3
    <3>2. k \in 1..(Len(lines) - 1)
      BY <2>2, <3>1
    <3> QED
      BY <2>1, <2>2, <3>2
  <2> QED
    BY <2>1, <2>3 DEF new
<1> QED
  BY <1>1, <1>2

LEMMA AppendInOrder ==
  ASSUME NEW lines \in Lines, NEW r \in Nat, NEW ended \in BOOLEAN,
         Increasing(lines), \A q \in RecordsPast(lines, 0) : q < r
  PROVE  /\ Increasing(appendLine(lines, r, ended))
         /\ \A p \in Nat : RecordsPast(appendLine(lines, r, ended), p)
                             \subseteq RecordsPast(lines, p) \cup (IF ended THEN {r} ELSE {})
<1> DEFINE new == appendLine(lines, r, ended)
<1>1. /\ new \in Lines
      /\ \A k \in DOMAIN new : Parses(new[k]) =>
           \/ k \in DOMAIN lines /\ new[k] = lines[k]
           \/ ended /\ k = Len(lines) + 1 /\ new[k].records[1] = r
  BY AppendedParses
<1> HIDE DEF new
<1>2. DOMAIN new = 1..Len(new) /\ DOMAIN lines = 1..Len(lines) /\ Len(lines) \in Nat /\ Len(new) \in Nat
  BY <1>1, LinesDomain
<1>3. ASSUME NEW j \in DOMAIN new, NEW k \in DOMAIN new, j < k, Parses(new[j]), Parses(new[k])
      PROVE  new[j].records[1] < new[k].records[1]
  <2>1. j \in DOMAIN lines /\ new[j] = lines[j] 
    <3> SUFFICES ASSUME j = Len(lines) + 1, k = Len(lines) + 1 \/ k \in DOMAIN lines PROVE FALSE
      BY <1>1, <1>3
    <3> QED
      BY <1>2, <1>3
  <2>2. CASE k \in DOMAIN lines /\ new[k] = lines[k]
    BY <1>3, <2>1, <2>2 DEF Increasing
  <2>3. CASE k = Len(lines) + 1 /\ new[k].records[1] = r
    <3>1. j > 0 /\ j \in 1..Len(lines)
      BY <1>2, <2>1
    <3>2. lines[j].records[1] \in RecordsPast(lines, 0)
      BY <1>3, <2>1, <3>1, RecordPast
    <3> QED
      BY <2>1, <2>3, <3>2
  <2> QED
    BY <1>1, <1>3, <2>2, <2>3
<1>4. ASSUME NEW p \in Nat, NEW q \in RecordsPast(new, p)
      PROVE  q \in RecordsPast(lines, p) \cup (IF ended THEN {r} ELSE {})
  <2>1. PICK k \in 1..Len(new) : k > p /\ Parses(new[k]) /\ new[k].records[1] = q
    BY <1>1, <1>4, RecordPast
  <2>2. CASE k \in DOMAIN lines /\ new[k] = lines[k]
    BY <1>2, <2>1, <2>2, RecordPast
  <2>3. CASE ended /\ new[k].records[1] = r
    BY <2>1, <2>3
  <2> QED
    BY <1>1, <1>2, <2>1, <2>2, <2>3
<1> QED
  BY <1>3, <1>4 DEF new, Increasing

LEMMA KeptInOrder ==
  ASSUME NEW lines \in Lines, Limit < Len(lines), Increasing(lines)
  PROVE  /\ Increasing(newestLines(lines))
         /\ RecordsPast(newestLines(lines), 0) \subseteq RecordsPast(lines, 0)
<1> DEFINE new == newestLines(lines)
           d == Len(lines) - Limit
<1>1. /\ new \in Lines /\ Len(new) = Limit
      /\ \A k \in 1..Limit : Parses(new[k]) => Parses(lines[d + k]) /\ new[k] = lines[d + k]
  BY KeptLines
<1> HIDE DEF new
<1>2. /\ Limit \in Nat /\ d \in Nat /\ DOMAIN new = 1..Limit /\ DOMAIN lines = 1..Len(lines)
      /\ \A k \in 1..Limit : d + k \in 1..Len(lines)
  <2>1. Limit \in Nat /\ Len(lines) \in Nat /\ DOMAIN new = 1..Limit /\ DOMAIN lines = 1..Len(lines)
    BY <1>1, StoreAssumption, LinesDomain
  <2> QED
    BY <2>1
<1> HIDE DEF d
<1>3. ASSUME NEW j \in DOMAIN new, NEW k \in DOMAIN new, j < k, Parses(new[j]), Parses(new[k])
      PROVE  new[j].records[1] < new[k].records[1]
  <2>1. d + j < d + k /\ d + j \in DOMAIN lines /\ d + k \in DOMAIN lines
    BY <1>2, <1>3
  <2> QED
    BY <1>1, <1>2, <1>3, <2>1 DEF Increasing
<1>4. ASSUME NEW q \in RecordsPast(new, 0) PROVE q \in RecordsPast(lines, 0)
  <2>1. PICK k \in 1..Limit : Parses(new[k]) /\ new[k].records[1] = q
    BY <1>1, <1>4, RecordPast
  <2>2. d + k \in 1..Len(lines) /\ d + k > 0
    BY <1>2
  <2> QED
    BY <1>1, <2>1, <2>2, RecordPast
<1> QED
  BY <1>3, <1>4 DEF new, Increasing

\* Writing over a file keeps the order where what stays behind is newer.
LEMMA WrittenInOrder ==
  ASSUME NEW old \in Lines, NEW new \in Lines, NEW lines \in overwritten(old, new),
         Increasing(old), Increasing(new),
         \A r \in RecordsPast(new, 0), q \in RecordsPast(old, Len(new)) : r < q
  PROVE  /\ Increasing(lines)
         /\ RecordsPast(lines, Len(new)) \subseteq RecordsPast(old, Len(new))
         /\ RecordsPast(lines, 0) \subseteq RecordsPast(new, 0) \cup RecordsPast(old, 0)
<1> DEFINE n == Len(new)
<1>1. /\ lines \in Lines /\ n <= Len(lines) /\ n \in Nat /\ Len(old) \in Nat /\ Len(lines) \in Nat
      /\ \A k \in 1..n : lines[k] = new[k]
      /\ DOMAIN lines = 1..Len(lines) /\ DOMAIN old = 1..Len(old) /\ DOMAIN new = 1..n
  BY LinesWritten, LinesDomain
<1>2. PICK d \in {0, 1} :
        \A k \in DOMAIN lines :
          k > n /\ Parses(lines[k]) => k - d \in DOMAIN old /\ k - d > n /\ lines[k] = old[k - d]
  BY LinesWritten
<1> HIDE DEF n
<1>3. ASSUME NEW k \in DOMAIN lines, k > n, Parses(lines[k])
      PROVE  /\ k - d \in DOMAIN old /\ lines[k] = old[k - d] /\ Parses(old[k - d])
             /\ lines[k].records[1] \in RecordsPast(old, n)
  <2>1. k - d \in 1..Len(old) /\ k - d > n /\ lines[k] = old[k - d]
    BY <1>1, <1>2, <1>3
  <2> QED
    BY <1>1, <1>3, <2>1, RecordPast
<1>4. ASSUME NEW k \in DOMAIN lines, k <= n, Parses(lines[k])
      PROVE  /\ k \in DOMAIN new /\ lines[k] = new[k] /\ Parses(new[k])
             /\ lines[k].records[1] \in RecordsPast(new, 0)
  <2>1. k \in 1..n /\ k > 0
    BY <1>1, <1>4
  <2>2. lines[k] = new[k]
    BY <1>1, <2>1
  <2>3. new[k].records[1] \in RecordsPast(new, 0)
    BY <1>4, <2>1, <2>2, RecordPast DEF n
  <2> QED
    BY <1>1, <1>4, <2>1, <2>2, <2>3
<1>5. ASSUME NEW j \in DOMAIN lines, NEW k \in DOMAIN lines, j < k, Parses(lines[j]), Parses(lines[k])
      PROVE  lines[j].records[1] < lines[k].records[1]
  <2>1. CASE k <= n
    <3>1. j <= n
      BY <1>1, <1>5, <2>1
    <3> QED
      BY <1>4, <1>5, <2>1, <3>1 DEF Increasing
  <2>2. CASE j <= n /\ k > n
    BY <1>3, <1>4, <1>5, <2>2 DEF n
  <2>3. CASE j > n /\ k > n
    <3>1. j - d < k - d
      BY <1>1, <1>5
    <3> QED
      BY <1>3, <1>5, <2>3, <3>1 DEF Increasing
  <2> QED
    BY <1>1, <1>5, <2>1, <2>2, <2>3
<1>6. ASSUME NEW q \in RecordsPast(lines, n) PROVE q \in RecordsPast(old, n)
  <2>1. PICK k \in 1..Len(lines) : k > n /\ Parses(lines[k]) /\ lines[k].records[1] = q
    BY <1>1, <1>6, RecordPast
  <2> QED
    BY <1>1, <1>3, <2>1
<1>7. ASSUME NEW q \in RecordsPast(lines, 0) PROVE q \in RecordsPast(new, 0) \cup RecordsPast(old, 0)
  <2>1. PICK k \in 1..Len(lines) : Parses(lines[k]) /\ lines[k].records[1] = q
    BY <1>1, <1>7, RecordPast
  <2>2. CASE k <= n
    BY <1>1, <1>4, <2>1, <2>2
  <2>3. CASE k > n
    <3>1. q \in RecordsPast(old, n)
      BY <1>1, <1>3, <2>1, <2>3
    <3> QED
      BY <1>1, <3>1, RecordsPastIn
  <2> QED
    BY <1>1, <2>2, <2>3
<1> QED
  BY <1>5, <1>6, <1>7 DEF n, Increasing

----------------------------------------------------------------------------
\* What lines hold of the newest records

LEMMA CoversIf ==
  ASSUME NEW lines, NEW C, NEW n,
         \A r \in (1..n) \ Lost(C) :
           (Limit > 0 => r > n - Limit) =>
             \E k \in DOMAIN lines :
               Parses(lines[k]) /\ lines[k].records[1] = r /\ Len(lines) - k <= n - r
  PROVE  Covers(lines, C, n)
BY DEF Covers

LEMMA AppendHolds ==
  ASSUME NEW lines \in Lines, NEW n \in Nat, NEW C \in SUBSET (1..n), NEW ended \in BOOLEAN,
         Covers(lines, C, n), Closed(lines) \/ n \in C
  PROVE  LET new == appendLine(lines, n + 1, ended)
             D == IF ended THEN C ELSE C \cup {n + 1}
         IN  Covers(new, D, n + 1) /\ (Closed(new) \/ n + 1 \in D)
<1> DEFINE new == appendLine(lines, n + 1, ended)
           D == IF ended THEN C ELSE C \cup {n + 1}
<1>1. n + 1 \in Nat
  OBVIOUS
<1>2. /\ new \in Lines /\ Len(new) \in Nat /\ Len(lines) \in Nat /\ Len(new) <= Len(lines) + 1
      /\ \A k \in DOMAIN lines : Parses(lines[k]) => k \in DOMAIN new /\ new[k] = lines[k]
      /\ new # <<>> /\ new[Len(new)].ended = ended
  <2>1. CASE lines = <<>> \/ Last(lines).ended
    <3>1. /\ new \in Lines /\ Len(new) = Len(lines) + 1
          /\ \A k \in 1..Len(lines) : new[k] = lines[k]
          /\ new[Len(new)] = Line(<<n + 1>>, ended)
      BY <1>1, <2>1, AppendedLine
    <3> HIDE DEF new
    <3>2. /\ DOMAIN new = 1..(Len(lines) + 1) /\ DOMAIN lines = 1..Len(lines) /\ Len(lines) \in Nat
          /\ new = <<>> => Len(new) = 0
      BY <3>1, LinesDomain
    <3>3. Line(<<n + 1>>, ended).ended = ended
      BY DEF Line
    <3> QED
      BY <3>1, <3>2, <3>3
  <2>2. CASE lines # <<>> /\ ~ Last(lines).ended
    <3>1. /\ new \in Lines /\ Len(new) = Len(lines)
          /\ \A k \in 1..(Len(lines) - 1) : new[k] = lines[k]
          /\ new[Len(new)].ended = ended /\ ~ Parses(lines[Len(lines)])
      BY <1>1, <2>2, AppendedToFragment
    <3> HIDE DEF new
    <3>2. /\ DOMAIN new = 1..Len(lines) /\ DOMAIN lines = 1..Len(lines) /\ Len(lines) \in Nat
          /\ new = <<>> => Len(new) = 0
          /\ lines = <<>> <=> Len(lines) = 0
      BY <3>1, LinesDomain
    <3>3. ASSUME NEW k \in DOMAIN lines, Parses(lines[k]) PROVE k \in DOMAIN new /\ new[k] = lines[k]
      <4>1. k # Len(lines)
        BY <3>1, <3>3
      <4>2. k \in 1..(Len(lines) - 1)
        BY <3>2, <4>1
      <4> QED
        BY <3>1, <3>2, <4>2
    <3>4. new # <<>>
      BY <2>2, <3>1, <3>2
    <3> QED
      BY <3>1, <3>2, <3>3, <3>4
  <2> QED
    BY <2>1, <2>2
<1>3. (lines = <<>> \/ Last(lines).ended) =>
        new[Len(new)] = Line(<<n + 1>>, ended)
  BY <1>1, AppendedLine
<1> HIDE DEF new
<1> DEFINE m == n + 1
<1>4. ASSUME NEW r \in (1..m) \ Lost(D), Limit > 0 => r > m - Limit
      PROVE  \E k \in DOMAIN new :
               Parses(new[k]) /\ new[k].records[1] = r /\ Len(new) - k <= m - r
  <2>1. r \notin Lost(C)
    BY <1>4 DEF Lost
  <2>2. CASE r \in 1..n
    <3>1. Limit > 0 => r > n - Limit
      BY <1>4, <2>2, StoreAssumption
    <3>2. PICK k \in DOMAIN lines :
            Parses(lines[k]) /\ lines[k].records[1] = r /\ Len(lines) - k <= n - r
      BY <2>1, <2>2, <3>1 DEF Covers
    <3>3. k \in DOMAIN new /\ new[k] = lines[k]
      BY <1>2, <3>2
    <3>4. k \in Nat
      BY <3>2, LinesDomain
    <3>5. Len(new) - k <= n + 1 - r
      BY <1>2, <2>2, <3>2, <3>4
    <3> QED
      BY <3>2, <3>3, <3>5
  <2>3. CASE r = n + 1
    <3>1. ended
      <4> SUFFICES ASSUME ~ ended PROVE FALSE
        OBVIOUS
      <4> QED
        BY <1>4, <2>3 DEF Lost
    <3>2. n \notin C
      BY <2>1, <2>3 DEF Lost
    <3>3. lines = <<>> \/ Last(lines).ended
      BY <3>2 DEF Closed
    <3>4. new[Len(new)] = Line(<<r>>, TRUE)
      BY <1>3, <2>3, <3>1, <3>3
    <3>5. Parses(Line(<<r>>, TRUE)) /\ Line(<<r>>, TRUE).records[1] = r
      BY DEF Parses, Line
    <3>6. Len(new) \in DOMAIN new
      <4>1. DOMAIN new = 1..Len(new) /\ Len(new) # 0
        BY <1>2, LinesDomain
      <4> QED
        BY <1>2, <4>1
    <3>7. Len(new) - Len(new) <= m - r
      BY <1>2, <2>3
    <3>8. Parses(new[Len(new)]) /\ new[Len(new)].records[1] = r
      BY <3>4, <3>5
    <3> HIDE DEF m
    <3> QED
      BY <3>6, <3>7, <3>8
  <2> QED
    BY <1>4, <2>2, <2>3
<1>5. Closed(new) \/ n + 1 \in D
  BY <1>2 DEF Closed, Last
<1> HIDE DEF D
<1> HIDE DEF m
<1>7. Covers(new, D, m)
  BY <1>4, CoversIf
<1> QED
  BY <1>5, <1>7 DEF new, D, m

LEMMA KeptHolds ==
  ASSUME NEW lines \in Lines, NEW n \in Nat, NEW C \in SUBSET (1..n),
         Covers(lines, C, n), Limit > 0, Limit < Len(lines)
  PROVE  Covers(newestLines(lines), C, n)
<1> DEFINE new == newestLines(lines)
           d == Len(lines) - Limit
<1>1. /\ new \in Lines /\ Len(new) = Limit
      /\ \A k \in 1..Limit : Parses(lines[d + k]) => new[k] = lines[d + k]
  BY KeptLines
<1> HIDE DEF new
<1>2. Limit \in Nat /\ Len(lines) \in Nat /\ DOMAIN new = 1..Limit /\ DOMAIN lines = 1..Len(lines)
  BY <1>1, StoreAssumption, LinesDomain
<1>3. ASSUME NEW r \in (1..n) \ Lost(C), r > n - Limit
      PROVE  \E k \in DOMAIN new :
               Parses(new[k]) /\ new[k].records[1] = r /\ Len(new) - k <= n - r
  <2>1. PICK k \in DOMAIN lines :
          Parses(lines[k]) /\ lines[k].records[1] = r /\ Len(lines) - k <= n - r
    BY <1>3 DEF Covers
  <2>2. k - d \in 1..Limit /\ d + (k - d) = k /\ Limit - (k - d) <= n - r
    BY <1>2, <1>3, <2>1
  <2>3. new[k - d] = lines[k]
    BY <1>1, <2>1, <2>2
  <2> QED
    BY <1>1, <1>2, <2>1, <2>2, <2>3
<1> QED
  BY <1>3 DEF Covers, new

----------------------------------------------------------------------------
\* Types, and what each writer has in hand

\* The temporary is an inode of its own, and no writer has it open unless
\* another has already named it.
LEMMA TemporaryIsFree ==
  ASSUME LinesTypeOK
  PROVE  /\ temporary \in Inodes /\ temporary # path
         /\ tmp # NoInode => temporary = tmp
         /\ tmp = NoInode => \A v \in Writers : held[v] # temporary
<1> DEFINE N == Cardinality(Writers)
           Open == {held[v] : v \in Writers}
           f == [v \in Writers |-> held[v]]
<1>1. CASE tmp # NoInode
  BY <1>1 DEF temporary, LinesTypeOK, StoreTypeOK
<1>2. CASE tmp = NoInode
  <2>1. N \in Nat
    BY StoreAssumption, FS_CardinalityType
  <2>2. IsFiniteSet(Open) /\ Cardinality(Open) <= N
    <3>1. f \in Surjection(Writers, Open)
      BY DEF Surjection
    <3> QED
      BY <3>1, StoreAssumption, FS_Surjection
  <2> HIDE DEF Open
  <2>3. IsFiniteSet(Open \cup {path}) /\ Cardinality(Open \cup {path}) <= N + 1
    <3>1. Cardinality(Open) \in Nat
      BY <2>2, FS_CardinalityType
    <3>2. /\ IsFiniteSet(Open \cup {path})
          /\ Cardinality(Open \cup {path}) = IF path \in Open THEN Cardinality(Open) ELSE Cardinality(Open) + 1
      BY <2>2, FS_AddElement
    <3> QED
      BY <2>1, <2>2, <3>1, <3>2
  <2>4. Cardinality(Inodes) = N + 3
    <3>1. Cardinality(0..(N + 2)) = IF 0 > N + 2 THEN 0 ELSE N + 2 - 0 + 1
      BY <2>1, FS_Interval
    <3> QED
      BY <2>1, <3>1 DEF Inodes
  <2>5. ~ (Inodes \subseteq Open \cup {path})
    <3> SUFFICES ASSUME Inodes \subseteq Open \cup {path} PROVE FALSE
      OBVIOUS
    <3>1. Cardinality(Inodes) <= Cardinality(Open \cup {path})
      BY <2>3, FS_Subset
    <3>2. Cardinality(Open \cup {path}) \in Nat
      BY <2>3, FS_CardinalityType
    <3> HIDE DEF N
    <3> QED
      BY <2>1, <2>3, <2>4, <3>1, <3>2
  <2>6. PICK i \in Inodes : i \notin Open /\ i # path
    BY <2>5
  <2>7. \A v \in Writers : held[v] # i
    BY <2>6 DEF Open
  <2>8. temporary = CHOOSE j \in Inodes : j # path /\ \A v \in Writers : held[v] # j
    BY <1>2 DEF temporary
  <2> QED
    BY <1>2, <2>6, <2>7, <2>8
<1> QED
  BY <1>1, <1>2

HandsInv == LinesTypeOK /\ HandsOK

LEMMA HandsInit == Init => HandsInv
<1> SUFFICES ASSUME Init PROVE HandsInv
  OBVIOUS
<1>1. Cardinality(Writers) \in Nat
  BY StoreAssumption, FS_CardinalityType
<1>2. 0 \in Inodes /\ NoInode # 0
  BY <1>1 DEF Inodes, NoInode
<1>3. StoreTypeOK
  <2>1. path = 0 /\ tmp = NoInode /\ written = 0 /\ overlapped = FALSE
    BY DEF Init
  <2>2. at \in [Writers -> Positions] /\ held \in [Writers -> Inodes \cup {NoInode}]
    BY DEF Init, Positions
  <2>3. \A w \in Writers : Len(kept[w]) \in {0, Limit}
    BY NoLines DEF Init
  <2>4. 0 \in 0..MaxRecords
    BY StoreAssumption
  <2> QED
    BY <1>2, <2>1, <2>2, <2>3, <2>4 DEF StoreTypeOK
<1>4. LinesTypeOK
  BY <1>3, NoLines DEF Init, LinesTypeOK
<1>5. HandsOK
  BY DEF Init, HandsOK, NoInode
<1> QED
  BY <1>4, <1>5 DEF HandsInv

\* What a writer writes is well formed.
LEMMA WritesLines ==
  ASSUME HandsInv
  PROVE  /\ \A i \in Inodes, ended \in BOOLEAN : appendLine(content[i], written + 1, ended) \in Lines
         /\ \A w \in Writers : ~ within(content[path]) =>
              /\ newestLines(content[path]) \in Lines /\ Len(newestLines(content[path])) = Limit
              /\ Limit > 0 /\ Limit < Len(content[path])
         /\ \A w \in Writers, i \in Inodes : \A lines \in overwritten(content[i], kept[w]) : lines \in Lines
<1>1. content \in [Inodes -> Lines] /\ kept \in [Writers -> Lines] /\ path \in Inodes
      /\ written + 1 \in Nat /\ Limit \in Nat
  BY StoreAssumption DEF HandsInv, LinesTypeOK, StoreTypeOK
<1>2. \A i \in Inodes, ended \in BOOLEAN : appendLine(content[i], written + 1, ended) \in Lines
  BY <1>1, AppendedParses
<1>3. ~ within(content[path]) =>
        /\ newestLines(content[path]) \in Lines /\ Len(newestLines(content[path])) = Limit
        /\ Limit > 0 /\ Limit < Len(content[path])
  <2> SUFFICES ASSUME ~ within(content[path])
               PROVE  /\ newestLines(content[path]) \in Lines /\ Len(newestLines(content[path])) = Limit
                      /\ Limit > 0 /\ Limit < Len(content[path])
    OBVIOUS
  <2>1. content[path] \in Lines /\ Len(content[path]) \in Nat
    BY <1>1, LinesDomain
  <2>2. Limit > 0 /\ Limit < Len(content[path])
    BY <1>1, <2>1 DEF within
  <2> QED
    BY <2>1, <2>2, KeptLines
<1>4. \A w \in Writers, i \in Inodes : \A lines \in overwritten(content[i], kept[w]) : lines \in Lines
  BY <1>1, LinesWritten
<1> QED
  BY <1>2, <1>3, <1>4

LEMMA HandsStep ==
  ASSUME HandsInv, [Next]_storeVars
  PROVE  HandsInv'
<1>1. /\ content \in [Inodes -> Lines] /\ kept \in [Writers -> Lines]
      /\ path \in Inodes /\ tmp \in Inodes \cup {NoInode} /\ path # tmp
      /\ at \in [Writers -> Positions] /\ held \in [Writers -> Inodes \cup {NoInode}]
      /\ \A w \in Writers : Len(kept[w]) \in {0, Limit}
      /\ written \in 0..MaxRecords /\ overlapped \in BOOLEAN
      /\ killed \in Nat /\ short \in Nat
  BY DEF HandsInv, LinesTypeOK, StoreTypeOK
<1>2. NoInode \notin Inodes /\ MaxRecords \in Nat /\ Limit \in Nat
  BY StoreAssumption DEF Inodes, NoInode
<1>3. <<>> \in Lines /\ Len(<<>>) = 0
  BY NoLines
<1>4. CASE UNCHANGED storeVars
  BY <1>4 DEF storeVars, HandsInv, LinesTypeOK, StoreTypeOK, HandsOK
<1>5. ASSUME NEW w \in Writers, AppendOpens(w) PROVE HandsInv'
  <2>1. LinesTypeOK'
    BY <1>1, <1>2, <1>3, <1>5 DEF AppendOpens, goto, LinesTypeOK, StoreTypeOK, Positions
  <2>2. HandsOK'
    BY <1>1, <1>2, <1>5 DEF AppendOpens, goto, Idle, HandsInv, HandsOK
  <2> QED
    BY <2>1, <2>2 DEF HandsInv
<1>6. ASSUME NEW w \in Writers, AppendWrites(w) PROVE HandsInv'
  <2>1. held[w] \in Inodes
    BY <1>1, <1>2, <1>6 DEF AppendWrites, HandsInv, HandsOK
  <2>2. content' \in [Inodes -> Lines]
    BY <1>1, <1>6, <2>1, WritesLines DEF AppendWrites
  <2>3. written' \in 0..MaxRecords /\ short' \in Nat
    BY <1>1, <1>2, <1>6 DEF AppendWrites
  <2>4. UNCHANGED <<path, tmp, killed, overlapped>>
    BY <1>6 DEF AppendWrites
  <2>5. LinesTypeOK'
    BY <1>1, <1>2, <1>6, <2>2, <2>3, <2>4 DEF AppendWrites, goto, LinesTypeOK, StoreTypeOK, Positions
  <2>6. HandsOK'
    BY <1>1, <1>2, <1>6 DEF AppendWrites, goto, HandsInv, HandsOK
  <2> QED
    BY <2>5, <2>6 DEF HandsInv
<1>7. ASSUME NEW w \in Writers, AppendCutShort(w) PROVE HandsInv'
  <2>1. held[w] \in Inodes
    BY <1>1, <1>2, <1>7 DEF AppendCutShort, HandsInv, HandsOK
  <2>2. content' \in [Inodes -> Lines]
    BY <1>1, <1>7, <2>1, WritesLines DEF AppendCutShort
  <2>3. written' \in 0..MaxRecords /\ short' \in Nat
    BY <1>1, <1>2, <1>7 DEF AppendCutShort
  <2>4. UNCHANGED <<path, tmp, killed, overlapped>>
    BY <1>7 DEF AppendCutShort
  <2>5. LinesTypeOK'
    BY <1>1, <1>2, <1>3, <1>7, <2>2, <2>3, <2>4 DEF AppendCutShort, finish, goto, LinesTypeOK, StoreTypeOK, Positions
  <2>6. HandsOK'
    BY <1>1, <1>2, <1>3, <1>7 DEF AppendCutShort, finish, goto, HandsInv, HandsOK
  <2> QED
    BY <2>5, <2>6 DEF HandsInv
<1>8. ASSUME NEW w \in Writers, ReadsBack(w) PROVE HandsInv'
  <2>1. CASE within(content[path])
    <3>1. LinesTypeOK'
      BY <1>1, <1>2, <1>3, <1>8, <2>1 DEF ReadsBack, finish, goto, LinesTypeOK, StoreTypeOK, Positions
    <3>2. HandsOK'
      BY <1>1, <1>2, <1>3, <1>8, <2>1 DEF ReadsBack, finish, goto, HandsInv, HandsOK
    <3> QED
      BY <3>1, <3>2 DEF HandsInv
  <2>2. CASE ~ within(content[path])
    <3>1. /\ newestLines(content[path]) \in Lines /\ Len(newestLines(content[path])) = Limit
          /\ Limit > 0
      BY <1>8, <2>2, WritesLines
    <3>2. LinesTypeOK'
      BY <1>1, <1>2, <1>8, <2>2, <3>1 DEF ReadsBack, goto, LinesTypeOK, StoreTypeOK, Positions
    <3>3. HandsOK'
      BY <1>1, <1>2, <1>8, <2>2, <3>1 DEF ReadsBack, goto, HandsInv, HandsOK
    <3> QED
      BY <3>2, <3>3 DEF HandsInv
  <2> QED
    BY <2>1, <2>2
<1>9. ASSUME NEW w \in Writers, SaveOpens(w) PROVE HandsInv'
  <2>1. /\ temporary \in Inodes /\ temporary # path
        /\ tmp # NoInode => temporary = tmp
        /\ tmp = NoInode => \A v \in Writers : held[v] # temporary
    BY TemporaryIsFree DEF HandsInv
  <2>2. LinesTypeOK'
    BY <1>1, <1>2, <1>3, <1>9, <2>1 DEF SaveOpens, goto, LinesTypeOK, StoreTypeOK, Positions
  <2>3. HandsOK'
    BY <1>1, <1>2, <1>9, <2>1 DEF SaveOpens, goto, HandsInv, HandsOK
  <2> QED
    BY <2>2, <2>3 DEF HandsInv
<1>10. ASSUME NEW w \in Writers, SaveWrites(w) PROVE HandsInv'
  <2>1. held[w] \in Inodes
    BY <1>1, <1>2, <1>10 DEF SaveWrites, HandsInv, HandsOK
  <2>2. content' \in [Inodes -> Lines]
    BY <1>1, <1>10, <2>1, WritesLines DEF SaveWrites
  <2>3. LinesTypeOK'
    BY <1>1, <1>2, <1>3, <1>10, <2>2 DEF SaveWrites, goto, LinesTypeOK, StoreTypeOK, Positions
  <2>4. HandsOK'
    BY <1>1, <1>2, <1>3, <1>10 DEF SaveWrites, goto, HandsInv, HandsOK
  <2> QED
    BY <2>3, <2>4 DEF HandsInv
<1>11. ASSUME NEW w \in Writers, Renames(w) PROVE HandsInv'
  <2>1. LinesTypeOK'
    BY <1>1, <1>2, <1>3, <1>11 DEF Renames, finish, goto, LinesTypeOK, StoreTypeOK, Positions
  <2>2. HandsOK'
    BY <1>1, <1>2, <1>3, <1>11 DEF Renames, finish, goto, HandsInv, HandsOK
  <2> QED
    BY <2>1, <2>2 DEF HandsInv
<1>12. ASSUME NEW w \in Writers, Killed(w) PROVE HandsInv'
  <2>1. LinesTypeOK'
    BY <1>1, <1>2, <1>3, <1>12 DEF Killed, finish, goto, LinesTypeOK, StoreTypeOK, Positions
  <2>2. HandsOK'
    BY <1>1, <1>2, <1>3, <1>12 DEF Killed, finish, goto, HandsInv, HandsOK
  <2> QED
    BY <2>1, <2>2 DEF HandsInv
<1> QED
  BY <1>4, <1>5, <1>6, <1>7, <1>8, <1>9, <1>10, <1>11, <1>12 DEF Next, Step

----------------------------------------------------------------------------
\* Order

OrderInv == HandsInv /\ OrderOK

LEMMA EmptyInOrder ==
  ASSUME NEW n \in Nat
  PROVE  InOrder(<<>>, n) /\ \A lines \in Lines : Behind(lines, <<>>)
BY NoRecords DEF InOrder, Behind

LEMMA LaterInOrder ==
  ASSUME NEW n \in Nat, NEW lines \in Lines, InOrder(lines, n)
  PROVE  InOrder(lines, n + 1)
<1>1. RecordsPast(lines, 0) \subseteq Nat
  BY RecordsPastIn
<1>2. \A r \in RecordsPast(lines, 0) : r <= n + 1
  BY <1>1 DEF InOrder
<1> QED
  BY <1>2 DEF InOrder

LEMMA OrderInit == Init => OrderInv
<1> SUFFICES ASSUME Init PROVE OrderInv
  OBVIOUS
<1>1. HandsInv
  BY HandsInit
<1>2. OrderOK
  BY EmptyInOrder DEF Init, OrderOK
<1> QED
  BY <1>1, <1>2 DEF OrderInv

\* The record appended is the newest there is, whichever inode it goes to.
LEMMA AppendOrder ==
  ASSUME OrderInv, NEW i \in Inodes, NEW ended \in BOOLEAN,
         written' = written + 1,
         content' = [content EXCEPT ![i] = appendLine(content[i], written + 1, ended)],
         \A v \in Writers : kept'[v] \in {kept[v], <<>>} /\ kept'[v] \in Lines,
         \A v \in Writers : at'[v] = "writing" =>
           at[v] = "writing" /\ held'[v] = held[v] /\ kept'[v] = kept[v]
  PROVE  OrderOK'
<1>1. /\ content \in [Inodes -> Lines] /\ kept \in [Writers -> Lines]
      /\ written \in Nat /\ Limit \in Nat
      /\ \A v \in Writers : at[v] = "writing" => held[v] \in Inodes
  BY StoreAssumption DEF OrderInv, HandsInv, LinesTypeOK, StoreTypeOK, HandsOK
<1>2. /\ \A j \in Inodes : InOrder(content[j], written)
      /\ \A v \in Writers : InOrder(kept[v], written)
      /\ \A v \in Writers : at[v] = "writing" => Behind(kept[v], content[held[v]])
  BY DEF OrderInv, OrderOK
<1> DEFINE n == written + 1
           new == appendLine(content[i], n, ended)
<1>3. n \in Nat /\ \A r \in RecordsPast(content[i], 0) : r < n
  <2>1. \A r \in RecordsPast(content[i], 0) : r \in Nat /\ r <= written
    BY <1>1, <1>2, RecordsPastIn DEF InOrder
  <2> QED
    BY <1>1, <2>1
<1>4. /\ Increasing(new)
      /\ \A p \in Nat : RecordsPast(new, p) \subseteq RecordsPast(content[i], p) \cup {n}
  <2>1. /\ Increasing(new)
        /\ \A p \in Nat : RecordsPast(new, p)
                            \subseteq RecordsPast(content[i], p) \cup (IF ended THEN {n} ELSE {})
    BY <1>1, <1>2, <1>3, AppendInOrder DEF InOrder
  <2> QED
    BY <2>1
<1>5. content' = [content EXCEPT ![i] = new] /\ written' = n
  OBVIOUS
<1>6. InOrder(new, n)
  <2>1. \A r \in RecordsPast(new, 0) : r <= n
    <3> HIDE DEF n, new
    <3> QED
      BY <1>3, <1>4, RecordsPastIn, <1>1
  <2> QED
    BY <1>4, <2>1 DEF InOrder
<1>7. ASSUME NEW j \in Inodes PROVE InOrder(content'[j], n)
  <2>1. CASE j = i
    BY <1>1, <1>5, <1>6, <2>1
  <2>2. CASE j # i
    <3>1. content'[j] = content[j]
      BY <1>1, <1>5, <2>2
    <3> QED
      BY <1>1, <1>2, <3>1, LaterInOrder
  <2> QED
    BY <2>1, <2>2
<1>8. ASSUME NEW v \in Writers PROVE InOrder(kept'[v], n)
  <2>1. CASE kept'[v] = kept[v]
    BY <1>1, <1>2, <2>1, LaterInOrder
  <2>2. CASE kept'[v] = <<>>
    BY <1>3, <2>2, EmptyInOrder
  <2> QED
    BY <2>1, <2>2
<1>9. ASSUME NEW v \in Writers, at'[v] = "writing" PROVE Behind(kept'[v], content'[held'[v]])
  <2>1. /\ at[v] = "writing" /\ held'[v] = held[v] /\ kept'[v] = kept[v] /\ held[v] \in Inodes
        /\ Behind(kept[v], content[held[v]])
    BY <1>1, <1>2, <1>9
  <2>2. CASE held[v] # i
    <3>1. content'[held[v]] = content[held[v]]
      BY <1>1, <1>5, <2>1, <2>2
    <3> QED
      BY <2>1, <3>1
  <2>3. CASE held[v] = i
    <3>1. content'[held[v]] = new
      BY <1>1, <1>5, <2>3
    <3>2. RecordsPast(new, Limit) \subseteq RecordsPast(content[i], Limit) \cup {n}
      BY <1>1, <1>4
    <3>3. \A r \in RecordsPast(kept[v], 0) : r < n
      <4>1. \A r \in RecordsPast(kept[v], 0) : r \in Nat /\ r <= written
        BY <1>1, <1>2, RecordsPastIn DEF InOrder
      <4> QED
        BY <1>1, <4>1
    <3>4. Behind(kept[v], new)
      <4> HIDE DEF n, new
      <4> QED
        BY <2>1, <2>3, <3>2, <3>3 DEF Behind
    <3> QED
      BY <2>1, <3>1, <3>4
  <2> QED
    BY <2>2, <2>3
<1> HIDE DEF n, new
<1> QED
  BY <1>5, <1>7, <1>8, <1>9 DEF OrderOK

LEMMA WriteOrder ==
  ASSUME OrderInv, NEW w \in Writers, SaveWrites(w)
  PROVE  OrderOK'
<1> DEFINE i == held[w]
<1>1. /\ content \in [Inodes -> Lines] /\ kept \in [Writers -> Lines] /\ at \in [Writers -> Positions]
      /\ held \in [Writers -> Inodes \cup {NoInode}]
      /\ written \in Nat /\ Limit \in Nat /\ i \in Inodes /\ Len(kept[w]) = Limit
      /\ \A v \in Writers : at[v] = "writing" => held[v] \in Inodes
  BY StoreAssumption DEF OrderInv, HandsInv, LinesTypeOK, StoreTypeOK, HandsOK, SaveWrites
<1>2. /\ \A j \in Inodes : InOrder(content[j], written)
      /\ \A v \in Writers : InOrder(kept[v], written)
      /\ \A v \in Writers : at[v] = "writing" => Behind(kept[v], content[held[v]])
      /\ at[w] = "writing"
  BY DEF OrderInv, OrderOK, SaveWrites
<1>3. PICK lines \in overwritten(content[i], kept[w]) : content' = [content EXCEPT ![i] = lines]
  BY DEF SaveWrites
<1>4. /\ at' = [at EXCEPT ![w] = "renaming"] /\ held' = [held EXCEPT ![w] = NoInode]
      /\ kept' = [kept EXCEPT ![w] = <<>>] /\ written' = written
  BY DEF SaveWrites, goto
<1>5. /\ Increasing(lines)
      /\ RecordsPast(lines, Limit) \subseteq RecordsPast(content[i], Limit)
      /\ RecordsPast(lines, 0) \subseteq RecordsPast(kept[w], 0) \cup RecordsPast(content[i], 0)
  <2>1. content[i] \in Lines /\ kept[w] \in Lines /\ Increasing(content[i]) /\ Increasing(kept[w])
    BY <1>1, <1>2 DEF InOrder
  <2>2. \A r \in RecordsPast(kept[w], 0), q \in RecordsPast(content[i], Len(kept[w])) : r < q
    BY <1>1, <1>2 DEF Behind
  <2>3. /\ Increasing(lines)
        /\ RecordsPast(lines, Len(kept[w])) \subseteq RecordsPast(content[i], Len(kept[w]))
        /\ RecordsPast(lines, 0) \subseteq RecordsPast(kept[w], 0) \cup RecordsPast(content[i], 0)
    <3> HIDE DEF i
    <3> QED
      BY <1>3, <2>1, <2>2, WrittenInOrder
  <2> QED
    BY <1>1, <2>3
<1> HIDE DEF i
<1>6. InOrder(lines, written)
  BY <1>1, <1>2, <1>5 DEF InOrder
<1>7. \A j \in Inodes : InOrder(content'[j], written)
  BY <1>1, <1>2, <1>3, <1>6
<1>8. \A v \in Writers : InOrder(kept'[v], written)
  BY <1>1, <1>2, <1>4, EmptyInOrder
<1>9. ASSUME NEW v \in Writers, at'[v] = "writing" PROVE Behind(kept'[v], content'[held'[v]])
  <2>1. v # w
    BY <1>1, <1>4, <1>9
  <2>2. at[v] = "writing" /\ held'[v] = held[v] /\ kept'[v] = kept[v] /\ held[v] \in Inodes
    BY <1>1, <1>4, <1>9, <2>1
  <2>3. CASE held[v] # i
    BY <1>1, <1>2, <1>3, <2>2, <2>3
  <2>4. CASE held[v] = i
    <3>1. content'[i] = lines
      BY <1>1, <1>3
    <3>2. Behind(kept[v], lines)
      BY <1>2, <1>5, <2>2, <2>4 DEF Behind
    <3> QED
      BY <2>2, <2>4, <3>1, <3>2
  <2> QED
    BY <2>3, <2>4
<1> QED
  BY <1>4, <1>7, <1>8, <1>9 DEF OrderOK

LEMMA OrderStep ==
  ASSUME OrderInv, [Next]_storeVars
  PROVE  OrderInv'
<1>1. /\ content \in [Inodes -> Lines] /\ kept \in [Writers -> Lines]
      /\ path \in Inodes /\ at \in [Writers -> Positions]
      /\ held \in [Writers -> Inodes \cup {NoInode}] /\ written \in Nat
      /\ \A v \in Writers : at[v] = "writing" => held[v] \in Inodes
  BY DEF OrderInv, HandsInv, LinesTypeOK, StoreTypeOK, HandsOK
<1>2. /\ \A j \in Inodes : InOrder(content[j], written)
      /\ \A v \in Writers : InOrder(kept[v], written)
      /\ \A v \in Writers : at[v] = "writing" => Behind(kept[v], content[held[v]])
  BY DEF OrderInv, OrderOK
<1>3. HandsInv'
  BY HandsStep DEF OrderInv
<1>4. <<>> \in Lines
  BY NoLines
<1>5. CASE UNCHANGED storeVars
  BY <1>5 DEF storeVars, OrderInv, HandsInv, LinesTypeOK, StoreTypeOK, HandsOK, OrderOK
<1>6. ASSUME NEW w \in Writers, AppendOpens(w) PROVE OrderOK'
  <2>1. /\ at' = [at EXCEPT ![w] = "appending"] /\ held' = [held EXCEPT ![w] = path]
        /\ UNCHANGED <<content, kept, written>>
    BY <1>6 DEF AppendOpens, goto
  <2> QED
    BY <1>1, <1>2, <2>1 DEF OrderOK
<1>7. ASSUME NEW w \in Writers, AppendWrites(w) PROVE OrderOK'
  <2>1. held[w] \in Inodes /\ at[w] = "appending"
    BY <1>1, <1>7 DEF AppendWrites, OrderInv, HandsInv, HandsOK
  <2>2. /\ content' = [content EXCEPT ![held[w]] = appendLine(content[held[w]], written + 1, TRUE)]
        /\ written' = written + 1 /\ kept' = kept
        /\ at' = [at EXCEPT ![w] = "reading"] /\ held' = [held EXCEPT ![w] = NoInode]
    BY <1>7 DEF AppendWrites, goto
  <2>3. \A v \in Writers : at'[v] = "writing" =>
           at[v] = "writing" /\ held'[v] = held[v] /\ kept'[v] = kept[v]
    BY <1>1, <2>1, <2>2
  <2>4. \A v \in Writers : kept'[v] \in {kept[v], <<>>} /\ kept'[v] \in Lines
    BY <1>1, <2>2
  <2> QED
    BY <2>1, <2>2, <2>3, <2>4, AppendOrder
<1>8. ASSUME NEW w \in Writers, AppendCutShort(w) PROVE OrderOK'
  <2>1. held[w] \in Inodes /\ at[w] = "appending"
    BY <1>1, <1>8 DEF AppendCutShort, OrderInv, HandsInv, HandsOK
  <2>2. /\ content' = [content EXCEPT ![held[w]] = appendLine(content[held[w]], written + 1, FALSE)]
        /\ written' = written + 1 /\ kept' = [kept EXCEPT ![w] = <<>>]
        /\ at' = [at EXCEPT ![w] = "idle"] /\ held' = [held EXCEPT ![w] = NoInode]
    BY <1>8 DEF AppendCutShort, finish, goto
  <2>3. \A v \in Writers : at'[v] = "writing" =>
           at[v] = "writing" /\ held'[v] = held[v] /\ kept'[v] = kept[v]
    BY <1>1, <2>1, <2>2
  <2>4. \A v \in Writers : kept'[v] \in {kept[v], <<>>} /\ kept'[v] \in Lines
    BY <1>1, <1>4, <2>2
  <2> QED
    BY <2>1, <2>2, <2>3, <2>4, AppendOrder
<1>9. ASSUME NEW w \in Writers, finish(w), UNCHANGED <<content, written>> PROVE OrderOK'
  <2>1. /\ at' = [at EXCEPT ![w] = "idle"] /\ held' = [held EXCEPT ![w] = NoInode]
        /\ kept' = [kept EXCEPT ![w] = <<>>]
    BY <1>9 DEF finish, goto
  <2> QED
    BY <1>1, <1>2, <1>9, <2>1, EmptyInOrder DEF OrderOK
<1>10. ASSUME NEW w \in Writers, ReadsBack(w) PROVE OrderOK'
  <2>1. CASE within(content[path])
    BY <1>9, <1>10, <2>1 DEF ReadsBack
  <2>2. CASE ~ within(content[path])
    <3>1. /\ kept' = [kept EXCEPT ![w] = newestLines(content[path])]
          /\ at' = [at EXCEPT ![w] = "saving"] /\ UNCHANGED <<content, held, written>>
      BY <1>10, <2>2 DEF ReadsBack, goto
    <3>2. Limit < Len(content[path]) /\ content[path] \in Lines /\ InOrder(content[path], written)
      BY <1>1, <1>2, <1>10, <2>2, WritesLines DEF OrderInv
    <3>3. /\ Increasing(newestLines(content[path]))
          /\ RecordsPast(newestLines(content[path]), 0) \subseteq RecordsPast(content[path], 0)
      BY <3>2, KeptInOrder DEF InOrder
    <3>4. InOrder(newestLines(content[path]), written)
      BY <3>2, <3>3 DEF InOrder
    <3> QED
      BY <1>1, <1>2, <3>1, <3>4 DEF OrderOK
  <2> QED
    BY <2>1, <2>2
<1>11. ASSUME NEW w \in Writers, SaveOpens(w) PROVE OrderOK'
  <2>1. temporary \in Inodes
    BY TemporaryIsFree DEF OrderInv, HandsInv
  <2>2. /\ content' = [content EXCEPT ![temporary] = <<>>]
        /\ at' = [at EXCEPT ![w] = "writing"] /\ held' = [held EXCEPT ![w] = temporary]
        /\ UNCHANGED <<kept, written>>
    BY <1>11 DEF SaveOpens, goto
  <2>3. \A j \in Inodes : content'[j] = IF j = temporary THEN <<>> ELSE content[j]
    BY <1>1, <2>2
  <2>4. \A j \in Inodes : InOrder(content'[j], written)
    BY <1>1, <1>2, <2>3, EmptyInOrder
  <2>5. \A v \in Writers : Behind(kept[v], <<>>)
    BY <1>1, EmptyInOrder
  <2>6. ASSUME NEW v \in Writers, at'[v] = "writing" PROVE Behind(kept'[v], content'[held'[v]])
    <3>1. CASE v = w
      <4>1. held'[v] = temporary /\ content'[temporary] = <<>> /\ kept'[v] = kept[v]
        BY <1>1, <2>1, <2>2, <2>3, <3>1
      <4> QED
        BY <2>5, <4>1
    <3>2. CASE v # w
      <4>1. at[v] = "writing" /\ held'[v] = held[v] /\ kept'[v] = kept[v] /\ held[v] \in Inodes
        BY <1>1, <2>2, <2>6, <3>2
      <4>2. content'[held[v]] = content[held[v]] \/ content'[held[v]] = <<>>
        BY <2>3, <4>1
      <4> QED
        BY <1>2, <2>5, <4>1, <4>2
    <3> QED
      BY <3>1, <3>2
  <2> QED
    BY <1>2, <2>2, <2>4, <2>6 DEF OrderOK
<1>12. ASSUME NEW w \in Writers, SaveWrites(w) PROVE OrderOK'
  BY <1>12, WriteOrder
<1>13. ASSUME NEW w \in Writers, Renames(w) PROVE OrderOK'
  BY <1>9, <1>13 DEF Renames
<1>14. ASSUME NEW w \in Writers, Killed(w) PROVE OrderOK'
  BY <1>9, <1>14 DEF Killed
<1>15. [Next]_storeVars => OrderOK'
  BY <1>5, <1>6, <1>7, <1>8, <1>10, <1>11, <1>12, <1>13, <1>14 DEF Next, Step, OrderInv
<1> QED
  BY <1>3, <1>15 DEF OrderInv

----------------------------------------------------------------------------
\* How much a reader is given

LEMMA StillBounded ==
  ASSUME NEW B, NEW B2 \in SUBSET B, IsFiniteSet(B), NEW O, NEW O2, IsFiniteSet(O2), O \subseteq O2,
         NEW k \in Nat, Cardinality(B) <= Cardinality(O) + k
  PROVE  IsFiniteSet(B2) /\ Cardinality(B2) <= Cardinality(O2) + k
<1>1. IsFiniteSet(B2) /\ Cardinality(B2) <= Cardinality(B)
  BY FS_Subset
<1>2. IsFiniteSet(O) /\ Cardinality(O) <= Cardinality(O2)
  BY FS_Subset
<1>3. /\ Cardinality(B) \in Nat /\ Cardinality(B2) \in Nat
      /\ Cardinality(O) \in Nat /\ Cardinality(O2) \in Nat
  BY <1>1, <1>2, FS_CardinalityType
<1> QED
  BY <1>1, <1>2, <1>3

LEMMA OneMoreBounded ==
  ASSUME NEW B, NEW r, NEW B2 \in SUBSET (B \cup {r}), IsFiniteSet(B),
         NEW O, NEW w, w \notin O, NEW O2, IsFiniteSet(O2), O \cup {w} \subseteq O2,
         NEW k \in Nat, Cardinality(B) <= Cardinality(O) + k
  PROVE  IsFiniteSet(B2) /\ Cardinality(B2) <= Cardinality(O2) + k
<1>1. /\ IsFiniteSet(B \cup {r})
      /\ Cardinality(B \cup {r}) = IF r \in B THEN Cardinality(B) ELSE Cardinality(B) + 1
  BY FS_AddElement
<1>2. IsFiniteSet(O)
  BY FS_Subset
<1>3. /\ IsFiniteSet(O \cup {w})
      /\ Cardinality(O \cup {w}) = IF w \in O THEN Cardinality(O) ELSE Cardinality(O) + 1
  BY <1>2, FS_AddElement
<1>4. Cardinality(B) \in Nat /\ Cardinality(O) \in Nat
  BY <1>2, FS_CardinalityType
<1>5. Cardinality(B \cup {r}) <= Cardinality(O \cup {w}) + k
  BY <1>1, <1>3, <1>4
<1> QED
  BY <1>1, <1>5, StillBounded

LEMMA OneFewerBounded ==
  ASSUME NEW B, IsFiniteSet(B), NEW O, NEW w, NEW O2, IsFiniteSet(O2), O \subseteq O2 \cup {w},
         NEW k \in Nat, Cardinality(B) <= Cardinality(O) + k
  PROVE  Cardinality(B) <= Cardinality(O2) + (k + 1)
<1>1. /\ IsFiniteSet(O2 \cup {w})
      /\ Cardinality(O2 \cup {w}) = IF w \in O2 THEN Cardinality(O2) ELSE Cardinality(O2) + 1
  BY FS_AddElement
<1>2. IsFiniteSet(O) /\ Cardinality(O) <= Cardinality(O2 \cup {w})
  BY <1>1, FS_Subset
<1>3. Cardinality(B) \in Nat /\ Cardinality(O) \in Nat /\ Cardinality(O2) \in Nat
  BY <1>2, FS_CardinalityType
<1>4. Cardinality(O) <= Cardinality(O2) + 1
  BY <1>1, <1>2, <1>3
<1> QED
  BY <1>3, <1>4

BoundInv == OrderInv /\ BoundOK

LEMMA BoundInit == Init => BoundInv
<1> SUFFICES ASSUME Init PROVE BoundInv
  OBVIOUS
<1>1. OrderInv
  BY OrderInit
<1>2. content[path] = <<>> /\ tmp = NoInode /\ killed = 0
  BY <1>1 DEF Init, OrderInv, HandsInv, LinesTypeOK, StoreTypeOK
<1>3. RecordsPast(content[path], Limit) = {}
  BY <1>2, NoRecords
<1>4. IsFiniteSet(Owners)
  BY StoreAssumption, FS_Subset DEF Owners
<1>5. Cardinality(Owners) \in Nat
  BY <1>4, FS_CardinalityType
<1>6. BoundOK
  <2>1. IsFiniteSet({}) /\ Cardinality({}) = 0
    BY FS_EmptySet
  <2>2. 0 <= Cardinality(Owners) + killed
    BY <1>2, <1>5
  <2> QED
    BY <1>2, <1>3, <2>1, <2>2 DEF BoundOK
<1> QED
  BY <1>1, <1>6 DEF BoundInv

LEMMA OwnersFinite == IsFiniteSet(Owners) /\ IsFiniteSet(Owners')
<1>1. Owners \in SUBSET Writers /\ Owners' \in SUBSET Writers
  BY DEF Owners
<1> QED
  BY <1>1, StoreAssumption, FS_Subset

\* A file as short as the limit holds nothing past it.
LEMMA NothingPast ==
  ASSUME NEW lines \in Lines, Limit > 0, within(lines)
  PROVE  RecordsPast(lines, Limit) = {}
<1>1. Len(lines) <= Limit /\ Limit \in Nat /\ Len(lines) \in Nat
  BY StoreAssumption, LinesDomain DEF within
<1> SUFFICES ASSUME NEW r \in RecordsPast(lines, Limit) PROVE FALSE
  OBVIOUS
<1>2. \E k \in 1..Len(lines) : k > Limit
  BY RecordPast
<1> QED
  BY <1>1, <1>2

LEMMA BoundStep ==
  ASSUME BoundInv, [Next]_storeVars
  PROVE  BoundInv'
<1>1. /\ content \in [Inodes -> Lines] /\ kept \in [Writers -> Lines]
      /\ path \in Inodes /\ tmp \in Inodes \cup {NoInode} /\ path # tmp
      /\ at \in [Writers -> Positions] /\ held \in [Writers -> Inodes \cup {NoInode}]
      /\ written \in Nat /\ killed \in Nat /\ Limit \in Nat /\ NoInode \notin Inodes
      /\ \A v \in Writers :
           /\ at[v] \in {"appending", "writing"} => held[v] \in Inodes
           /\ at[v] = "appending" => held[v] # tmp
           /\ at[v] = "writing" => Len(kept[v]) = Limit
  BY StoreAssumption DEF BoundInv, OrderInv, HandsInv, LinesTypeOK, StoreTypeOK, HandsOK, Inodes, NoInode
<1>2. OrderInv /\ OrderInv' /\ HandsInv
  BY OrderStep DEF BoundInv, OrderInv
<1>3. /\ \A i \in Inodes : InOrder(content[i], written)
      /\ \A v \in Writers : at[v] = "writing" => Behind(kept[v], content[held[v]])
      /\ \A v \in Writers : InOrder(kept[v], written)
  BY <1>2 DEF OrderInv, OrderOK
<1> SUFFICES ASSUME Limit > 0
             PROVE  /\ tmp' # NoInode => RecordsPast(content'[tmp'], Limit) = {}
                    /\ IsFiniteSet(RecordsPast(content'[path'], Limit))
                    /\ Cardinality(RecordsPast(content'[path'], Limit)) <= Cardinality(Owners') + killed'
  BY <1>2 DEF BoundInv, BoundOK
<1> DEFINE Goal == /\ tmp' # NoInode => RecordsPast(content'[tmp'], Limit) = {}
                   /\ IsFiniteSet(RecordsPast(content'[path'], Limit))
                   /\ Cardinality(RecordsPast(content'[path'], Limit)) <= Cardinality(Owners') + killed'
<1>4. /\ tmp # NoInode => RecordsPast(content[tmp], Limit) = {}
      /\ IsFiniteSet(RecordsPast(content[path], Limit))
      /\ Cardinality(RecordsPast(content[path], Limit)) <= Cardinality(Owners) + killed
  BY DEF BoundInv, BoundOK
<1>5. IsFiniteSet(Owners) /\ IsFiniteSet(Owners')
  BY OwnersFinite
\* Nothing is added past the limit, and no one stops answering for what is there.
<1>6. ASSUME tmp' # NoInode => RecordsPast(content'[tmp'], Limit) = {},
             RecordsPast(content'[path'], Limit) \subseteq RecordsPast(content[path], Limit),
             Owners \subseteq Owners', killed' = killed
      PROVE  Goal
  BY <1>1, <1>4, <1>5, <1>6, StillBounded
\* Nothing is past the limit.
<1>7. ASSUME tmp' # NoInode => RecordsPast(content'[tmp'], Limit) = {},
             RecordsPast(content'[path'], Limit) = {}, killed' \in Nat
      PROVE  Goal
  <2>1. IsFiniteSet({}) /\ Cardinality({}) = 0 /\ Cardinality(Owners') \in Nat
    BY <1>5, FS_EmptySet, FS_CardinalityType
  <2>2. 0 <= Cardinality(Owners') + killed'
    BY <1>7, <2>1
  <2> QED
    BY <1>7, <2>1, <2>2
<1>8. CASE UNCHANGED storeVars
  <2>1. Owners' = Owners
    BY <1>8 DEF storeVars, Owners
  <2> QED
    BY <1>4, <1>6, <1>8, <2>1 DEF storeVars
<1>9. ASSUME NEW w \in Writers, AppendOpens(w) PROVE Goal
  <2>1. /\ at' = [at EXCEPT ![w] = "appending"] /\ at[w] = "idle"
        /\ UNCHANGED <<content, path, tmp, killed>>
    BY <1>9 DEF AppendOpens, goto, Idle
  <2>2. Owners' = Owners
    BY <1>1, <2>1 DEF Owners
  <2> QED
    BY <1>4, <1>6, <2>1, <2>2
<1>10. ASSUME NEW w \in Writers, NEW ended \in BOOLEAN, at[w] = "appending", UNCHANGED <<path, tmp>>,
              content' = [content EXCEPT ![held[w]] = appendLine(content[held[w]], written + 1, ended)]
       PROVE  /\ tmp' # NoInode => RecordsPast(content'[tmp'], Limit) = {}
              /\ RecordsPast(content'[path'], Limit)
                   \subseteq RecordsPast(content[path], Limit) \cup (IF ended THEN {written + 1} ELSE {})
  <2>1. held[w] \in Inodes /\ held[w] # tmp
    BY <1>1, <1>10
  <2>2. tmp' # NoInode => RecordsPast(content'[tmp'], Limit) = {}
    BY <1>1, <1>4, <1>10, <2>1
  <2>3. \A r \in RecordsPast(content[held[w]], 0) : r < written + 1
    <3>1. \A r \in RecordsPast(content[held[w]], 0) : r \in Nat /\ r <= written
      BY <1>1, <1>3, <2>1, RecordsPastIn DEF InOrder
    <3> QED
      BY <1>1, <3>1
  <2>4. RecordsPast(appendLine(content[held[w]], written + 1, ended), Limit)
          \subseteq RecordsPast(content[held[w]], Limit) \cup (IF ended THEN {written + 1} ELSE {})
    <3>1. content[held[w]] \in Lines /\ written + 1 \in Nat /\ Increasing(content[held[w]])
      BY <1>1, <1>3, <2>1 DEF InOrder
    <3> QED
      BY <1>1, <2>3, <3>1, AppendInOrder
  <2>5. content'[path] = IF path = held[w] THEN appendLine(content[held[w]], written + 1, ended) ELSE content[path]
    BY <1>1, <1>10
  <2> QED
    BY <1>10, <2>2, <2>4, <2>5
<1>11. ASSUME NEW w \in Writers, AppendWrites(w) PROVE Goal
  <2>1. /\ content' = [content EXCEPT ![held[w]] = appendLine(content[held[w]], written + 1, TRUE)]
        /\ at[w] = "appending" /\ at' = [at EXCEPT ![w] = "reading"]
        /\ UNCHANGED <<path, tmp, killed>>
    BY <1>11 DEF AppendWrites, goto
  <2>2. /\ tmp' # NoInode => RecordsPast(content'[tmp'], Limit) = {}
        /\ RecordsPast(content'[path'], Limit) \subseteq RecordsPast(content[path], Limit) \cup {written + 1}
    BY <1>10, <2>1
  <2>3. w \notin Owners /\ Owners \cup {w} \subseteq Owners'
    BY <1>1, <2>1 DEF Owners
  <2>4. /\ IsFiniteSet(RecordsPast(content'[path'], Limit))
        /\ Cardinality(RecordsPast(content'[path'], Limit)) <= Cardinality(Owners') + killed
    BY <1>1, <1>4, <1>5, <2>2, <2>3, OneMoreBounded
  <2> QED
    BY <2>1, <2>2, <2>4
<1>12. ASSUME NEW w \in Writers, AppendCutShort(w) PROVE Goal
  <2>1. /\ content' = [content EXCEPT ![held[w]] = appendLine(content[held[w]], written + 1, FALSE)]
        /\ at[w] = "appending" /\ at' = [at EXCEPT ![w] = "idle"]
        /\ UNCHANGED <<path, tmp, killed>>
    BY <1>12 DEF AppendCutShort, finish, goto
  <2>2. /\ tmp' # NoInode => RecordsPast(content'[tmp'], Limit) = {}
        /\ RecordsPast(content'[path'], Limit) \subseteq RecordsPast(content[path], Limit)
    BY <1>10, <2>1
  <2>3. Owners \subseteq Owners'
    BY <1>1, <2>1 DEF Owners
  <2> QED
    BY <1>6, <2>1, <2>2, <2>3
<1>13. ASSUME NEW w \in Writers, ReadsBack(w) PROVE Goal
  <2>1. UNCHANGED <<content, path, tmp, killed>> /\ at[w] = "reading"
    BY <1>13 DEF ReadsBack
  <2>2. CASE within(content[path])
    <3>1. RecordsPast(content[path], Limit) = {}
      BY <1>1, <2>2, NothingPast
    <3> QED
      BY <1>1, <1>4, <1>7, <2>1, <3>1
  <2>3. CASE ~ within(content[path])
    <3>1. at' = [at EXCEPT ![w] = "saving"]
      BY <1>13, <2>3 DEF ReadsBack, goto
    <3>2. Owners \subseteq Owners'
      BY <1>1, <2>1, <3>1 DEF Owners
    <3> QED
      BY <1>4, <1>6, <2>1, <3>2
  <2> QED
    BY <2>2, <2>3
<1>14. ASSUME NEW w \in Writers, SaveOpens(w) PROVE Goal
  <2>1. temporary \in Inodes /\ temporary # path
    BY <1>2, TemporaryIsFree DEF HandsInv
  <2>2. /\ content' = [content EXCEPT ![temporary] = <<>>] /\ tmp' = temporary
        /\ at[w] = "saving" /\ at' = [at EXCEPT ![w] = "writing"] /\ UNCHANGED <<path, killed>>
    BY <1>14 DEF SaveOpens, goto
  <2>3. content'[tmp'] = <<>> /\ content'[path'] = content[path]
    BY <1>1, <2>1, <2>2
  <2>4. Owners \subseteq Owners'
    BY <1>1, <2>1, <2>2 DEF Owners
  <2>5. RecordsPast(content'[tmp'], Limit) = {}
    BY <2>3, NoRecords
  <2> QED
    BY <1>6, <2>2, <2>3, <2>4, <2>5
<1>15. ASSUME NEW w \in Writers, SaveWrites(w) PROVE Goal
  <2>1. PICK lines \in overwritten(content[held[w]], kept[w]) :
          content' = [content EXCEPT ![held[w]] = lines]
    BY <1>15 DEF SaveWrites
  <2>2. /\ at[w] = "writing" /\ at' = [at EXCEPT ![w] = "renaming"] /\ UNCHANGED <<path, tmp, killed>>
    BY <1>15 DEF SaveWrites, goto
  <2>3. held[w] \in Inodes /\ Len(kept[w]) = Limit
    BY <1>1, <2>2
  <2>4. RecordsPast(lines, Limit) \subseteq RecordsPast(content[held[w]], Limit)
    <3>1. /\ content[held[w]] \in Lines /\ kept[w] \in Lines
          /\ Increasing(content[held[w]]) /\ Increasing(kept[w])
      BY <1>1, <1>3, <2>3 DEF InOrder
    <3>2. \A r \in RecordsPast(kept[w], 0), q \in RecordsPast(content[held[w]], Len(kept[w])) : r < q
      BY <1>3, <2>2, <2>3 DEF Behind
    <3>3. RecordsPast(lines, Len(kept[w])) \subseteq RecordsPast(content[held[w]], Len(kept[w]))
      BY <2>1, <3>1, <3>2, WrittenInOrder
    <3> QED
      BY <2>3, <3>3
  <2>5. \A i \in Inodes : RecordsPast(content'[i], Limit) \subseteq RecordsPast(content[i], Limit)
    BY <1>1, <2>1, <2>4
  <2>6. Owners \subseteq Owners'
    BY <1>1, <2>2 DEF Owners
  <2>7. tmp' # NoInode => RecordsPast(content'[tmp'], Limit) = {}
    BY <1>1, <1>4, <2>2, <2>5
  <2>8. RecordsPast(content'[path'], Limit) \subseteq RecordsPast(content[path], Limit)
    BY <1>1, <2>2, <2>5
  <2> QED
    BY <1>6, <2>2, <2>6, <2>7, <2>8
<1>16. ASSUME NEW w \in Writers, Renames(w) PROVE Goal
  <2>1. /\ UNCHANGED <<content, killed>> /\ at[w] = "renaming" /\ at' = [at EXCEPT ![w] = "idle"]
    BY <1>16 DEF Renames, finish, goto
  <2>2. CASE tmp = NoInode
    <3>1. UNCHANGED <<path, tmp>>
      BY <1>16, <2>2 DEF Renames
    <3>2. Owners \subseteq Owners'
      BY <1>1, <2>1, <2>2, <3>1 DEF Owners
    <3> QED
      BY <1>6, <2>1, <2>2, <3>1, <3>2
  <2>3. CASE tmp # NoInode
    <3>1. path' = tmp /\ tmp' = NoInode
      BY <1>16, <2>3 DEF Renames
    <3> QED
      BY <1>1, <1>4, <1>7, <2>1, <2>3, <3>1
  <2> QED
    BY <2>2, <2>3
<1>17. ASSUME NEW w \in Writers, Killed(w) PROVE Goal
  <2>1. /\ UNCHANGED <<content, path, tmp>> /\ killed' = killed + 1
        /\ at' = [at EXCEPT ![w] = "idle"]
    BY <1>17 DEF Killed, finish, goto
  <2>2. Owners \subseteq Owners' \cup {w}
    BY <1>1, <2>1 DEF Owners
  <2>3. Cardinality(RecordsPast(content[path], Limit)) <= Cardinality(Owners') + (killed + 1)
    BY <1>1, <1>4, <1>5, <2>2, OneFewerBounded
  <2> QED
    BY <1>4, <2>1, <2>3
<1>18. ASSUME NEW w \in Writers, Step(w) PROVE Goal
  BY <1>9, <1>11, <1>12, <1>13, <1>14, <1>15, <1>16, <1>17, <1>18 DEF Step
<1> QED
  BY <1>8, <1>18 DEF Next

LEMMA SpecBound == Spec => []BoundInv
BY BoundInit, BoundStep, PTL DEF Spec

\* The records past the limit are as many as the lines they stand on.
LEMMA LinesPast ==
  ASSUME NEW lines \in Lines, Increasing(lines), IsFiniteSet(RecordsPast(lines, Limit))
  PROVE  LET K == {k \in 1..Len(lines) : k > Limit /\ Parses(lines[k])}
         IN  IsFiniteSet(K) /\ Cardinality(K) <= Cardinality(RecordsPast(lines, Limit))
<1> DEFINE K == {k \in 1..Len(lines) : k > Limit /\ Parses(lines[k])}
           f == [k \in K |-> lines[k].records[1]]
<1>1. DOMAIN lines = 1..Len(lines) /\ Len(lines) \in Nat
  BY LinesDomain
<1>2. \A k \in K : lines[k].records[1] \in RecordsPast(lines, Limit)
  BY RecordPast
<1>3. \A j, k \in K : f[j] = f[k] => j = k
  <2> SUFFICES ASSUME NEW j \in K, NEW k \in K, f[j] = f[k], j # k PROVE FALSE
    OBVIOUS
  <2>1. /\ lines[j] \in LineOfText /\ lines[k] \in LineOfText
        /\ lines[j].records[1] \in Nat /\ lines[k].records[1] \in Nat
    BY LinesDomain, RecordIsNat
  <2>2. j < k \/ k < j
    BY <1>1
  <2>3. lines[j].records[1] < lines[k].records[1] \/ lines[k].records[1] < lines[j].records[1]
    BY <1>1, <2>2 DEF Increasing
  <2> QED
    BY <2>1, <2>3
<1>4. f \in Injection(K, RecordsPast(lines, Limit))
  BY <1>2, <1>3 DEF Injection, IsInjective
<1> QED
  BY <1>4, FS_Injection

\* At every system call of every runner, whatever overlaps, is killed or is cut short,
\* a reader finds records in the order of their appending, and past the limit no more
\* of them than there are runners at work and runners killed (cli.ts:260-293, 340-360).
THEOREM StoreInvariantHolds == Spec => []StoreInvariant
<1>1. ASSUME BoundInv PROVE ReadInOrder
  <2>1. path \in Inodes /\ Increasing(content[path])
    BY <1>1 DEF BoundInv, OrderInv, OrderOK, InOrder, HandsInv, LinesTypeOK, StoreTypeOK
  <2> QED
    BY <2>1 DEF ReadInOrder, readJsonLines, record, Increasing
<1>2. ASSUME BoundInv, Limit > 0
      PROVE  Cardinality(readJsonLines(path)) <= Limit + Cardinality({w \in Writers : ~ Idle(w)}) + killed
  <2> DEFINE lines == content[path]
             J == {k \in 1..Limit : k <= Len(lines) /\ Parses(lines[k])}
             K == {k \in 1..Len(lines) : k > Limit /\ Parses(lines[k])}
             Busy == {w \in Writers : ~ Idle(w)}
  <2>1. lines \in Lines /\ Increasing(lines) /\ killed \in Nat /\ Limit \in Nat
    BY <1>2, StoreAssumption
    DEF BoundInv, OrderInv, OrderOK, InOrder, HandsInv, LinesTypeOK, StoreTypeOK
  <2>2. /\ IsFiniteSet(RecordsPast(lines, Limit))
        /\ Cardinality(RecordsPast(lines, Limit)) <= Cardinality(Owners) + killed
    BY <1>2 DEF BoundInv, BoundOK
  <2>3. IsFiniteSet(K) /\ Cardinality(K) <= Cardinality(RecordsPast(lines, Limit))
    BY <2>1, <2>2, LinesPast
  <2>4. IsFiniteSet(J) /\ Cardinality(J) <= Limit
    <3>1. IsFiniteSet(1..Limit) /\ Cardinality(1..Limit) = IF 1 > Limit THEN 0 ELSE Limit - 1 + 1
      BY <2>1, FS_Interval
    <3>2. IsFiniteSet(J) /\ Cardinality(J) <= Cardinality(1..Limit)
      BY <3>1, FS_Subset
    <3>3. Cardinality(1..Limit) = Limit
      BY <1>2, <2>1, <3>1
    <3> QED
      BY <3>2, <3>3
  <2>5. Owners \subseteq Busy /\ IsFiniteSet(Busy)
    <3>1. Owners \subseteq Busy
      BY DEF Owners, Idle
    <3>2. Busy \in SUBSET Writers
      OBVIOUS
    <3> QED
      BY <3>1, <3>2, StoreAssumption, FS_Subset
  <2>6. Cardinality(Owners) <= Cardinality(Busy) /\ IsFiniteSet(Owners)
    BY <2>5, FS_Subset
  <2>7. readJsonLines(path) = J \cup K
    <3>1. DOMAIN lines = 1..Len(lines) /\ Len(lines) \in Nat
      BY <2>1, LinesDomain
    <3>2. readJsonLines(path) = {k \in 1..Len(lines) : Parses(lines[k])}
      BY <3>1 DEF readJsonLines
    <3> HIDE DEF lines
    <3> QED
      BY <2>1, <3>1, <3>2
  <2> HIDE DEF J, K, Busy, lines
  <2>8. Cardinality(J \cup K) <= Cardinality(J) + Cardinality(K)
    <3>1. Cardinality(J \cup K) = Cardinality(J) + Cardinality(K) - Cardinality(J \cap K)
      BY <2>3, <2>4, FS_Union
    <3>2. IsFiniteSet(J \cap K)
      BY <2>4, FS_Intersection
    <3>3. Cardinality(J) \in Nat /\ Cardinality(K) \in Nat /\ Cardinality(J \cap K) \in Nat
      BY <2>3, <2>4, <3>2, FS_CardinalityType
    <3> QED
      BY <3>1, <3>3
  <2>9. /\ Cardinality(J) \in Nat /\ Cardinality(K) \in Nat /\ Cardinality(Owners) \in Nat
        /\ Cardinality(Busy) \in Nat /\ Cardinality(RecordsPast(lines, Limit)) \in Nat
    BY <2>2, <2>3, <2>4, <2>5, <2>6, FS_CardinalityType
  <2>10. Cardinality(J) + Cardinality(K) <= Limit + Cardinality(Busy) + killed
    BY <2>1, <2>2, <2>3, <2>4, <2>6, <2>9
  <2>11. IsFiniteSet(J \cup K)
    BY <2>3, <2>4, FS_Union
  <2>12. Cardinality(J \cup K) \in Nat
    BY <2>11, FS_CardinalityType
  <2>13. Cardinality(J \cup K) <= Limit + Cardinality(Busy) + killed
    BY <2>1, <2>8, <2>9, <2>10, <2>12
  <2> QED
    BY <2>7, <2>13 DEF Busy
<1>3. BoundInv => StoreInvariant
  BY <1>1, <1>2 DEF StoreInvariant, ReadBounded, BoundInv, OrderInv, HandsInv, LinesTypeOK
<1> QED
  BY <1>3, SpecBound, PTL

----------------------------------------------------------------------------
\* The newest records

NewestInv == HandsInv /\ NewestOK

LEMMA NewestInit == Init => NewestInv
<1> SUFFICES ASSUME Init PROVE NewestInv
  OBVIOUS
<1>1. HandsInv
  BY HandsInit
<1>2. OneAtWork
  BY DEF Init, OneAtWork, Idle
<1>3. {} \in SUBSET (1..written) /\ Cardinality({}) <= short
  BY FS_EmptySet DEF Init
<1>4. KeepsNewest({})
  <2>1. content[path] = <<>> /\ written = 0 /\ \A w \in Writers : at[w] = "idle"
    BY <1>1 DEF Init, HandsInv, LinesTypeOK, StoreTypeOK
  <2>2. Covers(content[path], {}, written)
    <3>1. 1..written = {}
      BY <2>1
    <3> QED
      BY <3>1 DEF Covers
  <2>3. Closed(content[path])
    BY <2>1 DEF Closed
  <2> QED
    BY <2>1, <2>2, <2>3 DEF KeepsNewest
<1> QED
  BY <1>1, <1>2, <1>3, <1>4 DEF NewestInv, NewestOK

\* The record appended, whole or cut short, joins all that the file holds.
LEMMA AppendsNewest ==
  ASSUME HandsInv, NEW C \in SUBSET (1..written), KeepsNewest(C), NEW w \in Writers, at[w] = "appending"
  PROVE  /\ held[w] = path
         /\ Covers(appendLine(content[path], written + 1, TRUE), C, written + 1)
         /\ Closed(appendLine(content[path], written + 1, TRUE)) \/ written + 1 \in C
         /\ Covers(appendLine(content[path], written + 1, FALSE), C \cup {written + 1}, written + 1)
<1>1. /\ content[path] \in Lines /\ written \in Nat
  BY DEF HandsInv, LinesTypeOK, StoreTypeOK
<1>2. /\ Covers(content[path], C, written)
      /\ Closed(content[path]) \/ written \in C
      /\ held[w] = path
  BY DEF KeepsNewest
<1>3. ASSUME NEW ended \in BOOLEAN
      PROVE  /\ Covers(appendLine(content[path], written + 1, ended), IF ended THEN C ELSE C \cup {written + 1},
                       written + 1)
             /\ \/ Closed(appendLine(content[path], written + 1, ended))
                \/ written + 1 \in IF ended THEN C ELSE C \cup {written + 1}
  BY <1>1, <1>2, AppendHolds
<1>4. /\ Covers(appendLine(content[path], written + 1, TRUE), C, written + 1)
      /\ Closed(appendLine(content[path], written + 1, TRUE)) \/ written + 1 \in C
  <2>1. /\ Covers(appendLine(content[path], written + 1, TRUE), IF TRUE THEN C ELSE C \cup {written + 1},
                  written + 1)
        /\ \/ Closed(appendLine(content[path], written + 1, TRUE))
           \/ written + 1 \in IF TRUE THEN C ELSE C \cup {written + 1}
    BY <1>3
  <2> QED
    BY <2>1
<1>5. Covers(appendLine(content[path], written + 1, FALSE), C \cup {written + 1}, written + 1)
  <2>1. Covers(appendLine(content[path], written + 1, FALSE), IF FALSE THEN C ELSE C \cup {written + 1},
               written + 1)
    BY <1>3
  <2> QED
    BY <2>1
<1> QED
  BY <1>2, <1>4, <1>5

LEMMA NewestStep ==
  ASSUME NewestInv, [Next]_storeVars
  PROVE  NewestInv'
<1>1. HandsInv /\ HandsInv'
  BY HandsStep DEF NewestInv
<1>2. /\ content \in [Inodes -> Lines] /\ kept \in [Writers -> Lines]
      /\ path \in Inodes /\ tmp \in Inodes \cup {NoInode} /\ path # tmp
      /\ at \in [Writers -> Positions] /\ held \in [Writers -> Inodes \cup {NoInode}]
      /\ written \in Nat /\ short \in Nat /\ overlapped \in BOOLEAN /\ NoInode \notin Inodes
      /\ \A v \in Writers : at[v] \in {"appending", "writing"} => held[v] \in Inodes
  BY <1>1 DEF HandsInv, LinesTypeOK, StoreTypeOK, HandsOK, Inodes, NoInode
<1>3. CASE UNCHANGED storeVars
  <2>1. SUFFICES ASSUME ~ overlapped'
                 PROVE  /\ OneAtWork'
                        /\ \E D \in SUBSET (1..written') : Cardinality(D) <= short' /\ KeepsNewest(D)'
    BY <1>1 DEF NewestInv, NewestOK
  <2>2. UNCHANGED <<content, path, tmp, at, held, kept, written, short, overlapped>>
    BY <1>3 DEF storeVars
  <2>3. OneAtWork
    BY <2>1, <2>2 DEF NewestInv, NewestOK
  <2>4. PICK C \in SUBSET (1..written) : Cardinality(C) <= short /\ KeepsNewest(C)
    BY <2>1, <2>2 DEF NewestInv, NewestOK
  <2>5. OneAtWork'
    BY <2>2, <2>3 DEF OneAtWork, Idle
  <2>6. KeepsNewest(C)'
    BY <2>2, <2>4 DEF KeepsNewest, Covers, Closed
  <2> QED
    BY <2>2, <2>4, <2>5, <2>6
<1>4. ASSUME NEW w \in Writers, Step(w), ~ overlapped'
      PROVE  /\ OneAtWork'
             /\ \E D \in SUBSET (1..written') : Cardinality(D) <= short' /\ KeepsNewest(D)'
  <2>1. ~ overlapped
    BY <1>4 DEF Step, AppendOpens, AppendWrites, AppendCutShort, ReadsBack, SaveOpens, SaveWrites,
                Renames, Killed
  <2>2. OneAtWork
    BY <2>1 DEF NewestInv, NewestOK
  <2>3. PICK C \in SUBSET (1..written) : Cardinality(C) <= short /\ KeepsNewest(C)
    BY <2>1 DEF NewestInv, NewestOK
  <2>4. /\ Covers(content[path], C, written)
        /\ Closed(content[path]) \/ written \in C
        /\ \A v \in Writers :
             /\ at[v] = "appending" => held[v] = path
             /\ at[v] \in {"saving", "writing"} =>
                  Covers(kept[v], C, written) /\ (\A k \in DOMAIN kept[v] : kept[v][k].ended)
             /\ at[v] = "writing" => held[v] = tmp /\ content[held[v]] = <<>>
             /\ at[v] = "renaming" =>
                  tmp # NoInode /\ Covers(content[tmp], C, written) /\ Closed(content[tmp])
    BY <2>3 DEF KeepsNewest
  <2>5. \A v \in Writers : v # w /\ at[w] # "idle" => at[v] = "idle"
    BY <2>2 DEF OneAtWork, Idle
  \* The others are idle before and after, so only w can break what is held.
  <2>6. ASSUME at[w] # "idle", at' = [at EXCEPT ![w] = at'[w]]
        PROVE  OneAtWork' /\ \A v \in Writers : v # w => at'[v] = "idle"
    <3>1. \A v \in Writers : v # w => at'[v] = "idle"
      BY <1>2, <2>5, <2>6
    <3> QED
      BY <3>1 DEF OneAtWork, Idle
  <2>7. CASE AppendOpens(w)
    <3>1. /\ at[w] = "idle" /\ at' = [at EXCEPT ![w] = "appending"] /\ held' = [held EXCEPT ![w] = path]
          /\ \A v \in Writers : at[v] = "idle"
          /\ UNCHANGED <<content, path, tmp, kept, written, short>>
      BY <1>4, <2>7 DEF AppendOpens, goto, Idle
    <3>2. \A v \in Writers : at'[v] \in {"idle", "appending"} /\ (at'[v] = "appending" => v = w)
      BY <1>2, <3>1
    <3>3. OneAtWork'
      BY <3>2 DEF OneAtWork, Idle
    <3>4. KeepsNewest(C)'
      BY <1>2, <2>4, <3>1, <3>2 DEF KeepsNewest, Covers, Closed
    <3> QED
      BY <2>3, <3>1, <3>3, <3>4
  <2>8. CASE AppendWrites(w)
    <3>1. /\ at[w] = "appending" /\ at' = [at EXCEPT ![w] = "reading"]
          /\ content' = [content EXCEPT ![held[w]] = appendLine(content[held[w]], written + 1, TRUE)]
          /\ written' = written + 1 /\ UNCHANGED <<path, short>>
      BY <2>8 DEF AppendWrites, goto
    <3>2. KeepsNewest(C)'
      <4>1. \A v \in Writers : at'[v] \in {"idle", "reading"}
        BY <1>2, <2>5, <3>1
      <4>2. content'[path'] = appendLine(content[path], written + 1, TRUE)
        BY <1>1, <1>2, <2>3, <3>1, AppendsNewest
      <4>3. Covers(content'[path'], C, written') /\ (Closed(content'[path']) \/ written' \in C)
        BY <1>1, <2>3, <3>1, <4>2, AppendsNewest
      <4> QED
        BY <4>1, <4>3 DEF KeepsNewest
    <3>3. C \in SUBSET (1..written')
      BY <1>2, <3>1
    <3>4. at'[w] = "reading"
      BY <1>2, <3>1
    <3> QED
      BY <2>3, <2>6, <3>1, <3>2, <3>3, <3>4
  <2>9. CASE AppendCutShort(w)
    <3>1. /\ at[w] = "appending" /\ at' = [at EXCEPT ![w] = "idle"]
          /\ content' = [content EXCEPT ![held[w]] = appendLine(content[held[w]], written + 1, FALSE)]
          /\ written' = written + 1 /\ short' = short + 1 /\ UNCHANGED path
      BY <2>9 DEF AppendCutShort, finish, goto
    <3>2. PICK D : D = C \cup {written + 1}
      OBVIOUS
    <3>3. D \in SUBSET (1..written') /\ KeepsNewest(D)'
      <4>1. \A v \in Writers : at'[v] \in {"idle", "reading"}
        BY <1>2, <2>5, <3>1
      <4>2. content'[path'] = appendLine(content[path], written + 1, FALSE)
        BY <1>1, <1>2, <2>3, <3>1, AppendsNewest
      <4>3. Covers(content'[path'], D, written') /\ written' \in D
        BY <1>1, <2>3, <3>1, <3>2, <4>2, AppendsNewest
      <4>4. D \in SUBSET (1..written')
        BY <1>2, <3>1, <3>2
      <4> QED
        BY <4>1, <4>3, <4>4 DEF KeepsNewest
    <3>4. Cardinality(D) <= short'
      <4>1. IsFiniteSet(1..written)
        BY <1>2, FS_Interval
      <4>2. IsFiniteSet(C) /\ Cardinality(C) \in Nat
        BY <4>1, FS_Subset, FS_CardinalityType
      <4>3. Cardinality(C \cup {written + 1}) =
              IF written + 1 \in C THEN Cardinality(C) ELSE Cardinality(C) + 1
        BY <4>2, FS_AddElement
      <4> QED
        BY <1>2, <2>3, <3>1, <3>2, <4>2, <4>3
    <3>5. at'[w] = "idle"
      BY <1>2, <3>1
    <3> QED
      BY <2>6, <3>1, <3>3, <3>4, <3>5
  <2>10. CASE ReadsBack(w)
    <3>1. at[w] = "reading" /\ UNCHANGED <<content, path, tmp, written, short>>
      BY <2>10 DEF ReadsBack
    <3>2. CASE within(content[path])
      <4>1. at' = [at EXCEPT ![w] = "idle"]
        BY <2>10, <3>2 DEF ReadsBack, finish, goto
      <4>2. OneAtWork' /\ \A v \in Writers : at'[v] = "idle"
        BY <1>2, <2>6, <3>1, <4>1
      <4>3. KeepsNewest(C)'
        BY <2>4, <3>1, <4>2 DEF KeepsNewest, Covers, Closed
      <4> QED
        BY <2>3, <3>1, <4>2, <4>3
    <3>3. CASE ~ within(content[path])
      <4>1. /\ at' = [at EXCEPT ![w] = "saving"] /\ kept' = [kept EXCEPT ![w] = newestLines(content[path])]
        BY <2>10, <3>3 DEF ReadsBack, goto
      <4>2. OneAtWork' /\ at'[w] = "saving" /\ \A v \in Writers : v # w => at'[v] = "idle"
        BY <1>2, <2>6, <3>1, <4>1
      <4>3. content[path] \in Lines /\ Limit > 0 /\ Limit < Len(content[path])
        BY <1>1, <1>2, <1>4, <3>3, WritesLines
      <4>4. /\ Covers(newestLines(content[path]), C, written)
            /\ \A k \in DOMAIN newestLines(content[path]) : newestLines(content[path])[k].ended
        <5>1. Covers(newestLines(content[path]), C, written)
          BY <1>2, <2>4, <4>3, KeptHolds
        <5>2. /\ newestLines(content[path]) \in Lines /\ Len(newestLines(content[path])) = Limit
              /\ \A k \in 1..Limit : newestLines(content[path])[k].ended
          BY <4>3, KeptLines
        <5>3. DOMAIN newestLines(content[path]) = 1..Limit
          BY <5>2, LinesDomain
        <5> QED
          BY <5>1, <5>2, <5>3
      <4>5. kept'[w] = newestLines(content[path])
        BY <1>2, <4>1
      <4>6. KeepsNewest(C)'
        <5>1. Covers(content'[path'], C, written') /\ (Closed(content'[path']) \/ written' \in C)
          BY <2>4, <3>1
        <5>2. Covers(kept'[w], C, written') /\ \A k \in DOMAIN kept'[w] : kept'[w][k].ended
          BY <3>1, <4>4, <4>5
        <5> QED
          BY <4>2, <5>1, <5>2 DEF KeepsNewest
      <4> QED
        BY <2>3, <3>1, <4>2, <4>6
    <3> QED
      BY <3>2, <3>3
  <2>11. CASE SaveOpens(w)
    <3>1. /\ at[w] = "saving" /\ at' = [at EXCEPT ![w] = "writing"] /\ tmp' = temporary
          /\ content' = [content EXCEPT ![temporary] = <<>>] /\ held' = [held EXCEPT ![w] = temporary]
          /\ UNCHANGED <<path, kept, written, short>>
      BY <2>11 DEF SaveOpens, goto
    <3>2. temporary \in Inodes /\ temporary # path
      BY <1>1, TemporaryIsFree DEF HandsInv
    <3>3. OneAtWork' /\ at'[w] = "writing" /\ \A v \in Writers : v # w => at'[v] = "idle"
      BY <1>2, <2>6, <3>1
    <3>4. held'[w] = tmp' /\ content'[held'[w]] = <<>> /\ content'[path'] = content[path]
      BY <1>2, <3>1, <3>2
    <3>5. KeepsNewest(C)'
      <4>1. Covers(content'[path'], C, written') /\ (Closed(content'[path']) \/ written' \in C)
        BY <2>4, <3>1, <3>4
      <4>2. Covers(kept'[w], C, written') /\ \A k \in DOMAIN kept'[w] : kept'[w][k].ended
        BY <2>4, <3>1
      <4> QED
        BY <3>3, <3>4, <4>1, <4>2 DEF KeepsNewest
    <3> QED
      BY <2>3, <3>1, <3>3, <3>5
  <2>12. CASE SaveWrites(w)
    <3>1. /\ at[w] = "writing" /\ at' = [at EXCEPT ![w] = "renaming"]
          /\ UNCHANGED <<path, tmp, written, short>>
      BY <2>12 DEF SaveWrites, goto
    <3>2. PICK lines \in overwritten(content[held[w]], kept[w]) :
            content' = [content EXCEPT ![held[w]] = lines]
      BY <2>12 DEF SaveWrites
    <3>3. held[w] = tmp /\ tmp \in Inodes /\ content[held[w]] = <<>>
      BY <1>2, <2>4, <3>1
    <3>4. lines = kept[w]
      BY <1>2, <3>2, <3>3, LinesWritten
    <3>5. content'[tmp'] = kept[w] /\ content'[path'] = content[path] /\ tmp' # NoInode
      BY <1>2, <3>1, <3>2, <3>3, <3>4
    <3>6. OneAtWork' /\ at'[w] = "renaming" /\ \A v \in Writers : v # w => at'[v] = "idle"
      BY <1>2, <2>6, <3>1
    <3>7. Closed(kept[w])
      <4>1. kept[w] # <<>> => Len(kept[w]) \in DOMAIN kept[w]
        <5>1. /\ DOMAIN kept[w] = 1..Len(kept[w]) /\ Len(kept[w]) \in Nat
              /\ kept[w] = <<>> <=> Len(kept[w]) = 0
          BY <1>2, LinesDomain
        <5> QED
          BY <5>1
      <4> QED
        BY <2>4, <3>1, <4>1 DEF Closed, Last
    <3>8. KeepsNewest(C)'
      <4>1. Covers(content'[path'], C, written') /\ (Closed(content'[path']) \/ written' \in C)
        BY <2>4, <3>1, <3>5
      <4>2. Covers(content'[tmp'], C, written') /\ Closed(content'[tmp'])
        BY <2>4, <3>1, <3>5, <3>7
      <4> QED
        BY <3>5, <3>6, <4>1, <4>2 DEF KeepsNewest
    <3> QED
      BY <2>3, <3>1, <3>6, <3>8
  <2>13. CASE Renames(w)
    <3>1. /\ at[w] = "renaming" /\ at' = [at EXCEPT ![w] = "idle"]
          /\ UNCHANGED <<content, written, short>>
      BY <2>13 DEF Renames, finish, goto
    <3>2. tmp # NoInode /\ Covers(content[tmp], C, written) /\ Closed(content[tmp])
      BY <2>4, <3>1
    <3>3. path' = tmp
      BY <2>13, <3>2 DEF Renames
    <3>4. OneAtWork' /\ \A v \in Writers : at'[v] = "idle"
      BY <1>2, <2>6, <3>1
    <3>5. Covers(content'[path'], C, written') /\ Closed(content'[path'])
      BY <3>1, <3>2, <3>3
    <3>6. KeepsNewest(C)'
      BY <3>4, <3>5 DEF KeepsNewest
    <3> QED
      BY <2>3, <3>1, <3>4, <3>6
  <2>14. CASE Killed(w)
    <3>1. /\ at[w] # "idle" /\ at' = [at EXCEPT ![w] = "idle"]
          /\ UNCHANGED <<content, path, written, short>>
      BY <2>14 DEF Killed, finish, goto, Idle
    <3>2. OneAtWork' /\ \A v \in Writers : at'[v] = "idle"
      BY <1>2, <2>6, <3>1
    <3>3. KeepsNewest(C)'
      BY <2>4, <3>1, <3>2 DEF KeepsNewest, Covers, Closed
    <3> QED
      BY <2>3, <3>1, <3>2, <3>3
  <2> QED
    BY <1>4, <2>7, <2>8, <2>9, <2>10, <2>11, <2>12, <2>13, <2>14 DEF Step
<1>5. [Next]_storeVars => NewestOK'
  <2>1. CASE UNCHANGED storeVars
    BY <1>3, <2>1 DEF NewestInv
  <2>2. CASE Next
    <3>1. PICK w \in Writers : Step(w)
      BY <2>2 DEF Next
    <3> QED
      BY <1>4, <3>1 DEF NewestOK
  <2> QED
    BY <2>1, <2>2
<1> QED
  BY <1>1, <1>5 DEF NewestInv

LEMMA SpecNewest == Spec => []NewestInv
BY NewestInit, NewestStep, PTL DEF Spec

\* As long as no two runners are at work together, retention loses none of the newest
\* records at whatever system call a runner is killed, and one cut short costs itself
\* and the one that runs into it (cli.ts:260-293).
THEOREM NewestKeptHolds == Spec => []NewestKept
<1>1. ASSUME NewestInv, ~ overlapped
      PROVE  Cardinality(Newest(IF Limit = 0 THEN written ELSE Limit) \ Readable) <= 2 * short
  <2> DEFINE missing == Newest(IF Limit = 0 THEN written ELSE Limit) \ Readable
  <2>1. PICK C \in SUBSET (1..written) : Cardinality(C) <= short /\ KeepsNewest(C)
    BY <1>1 DEF NewestInv, NewestOK
  <2>2. Covers(content[path], C, written)
    BY <2>1 DEF KeepsNewest
  <2>3. written \in Nat /\ short \in Nat /\ Limit \in Nat
    BY <1>1, StoreAssumption DEF NewestInv, HandsInv, LinesTypeOK, StoreTypeOK
  <2>4. missing \in SUBSET Lost(C)
    <3> SUFFICES ASSUME NEW r \in missing, r \notin Lost(C) PROVE FALSE
      OBVIOUS
    <3>1. r \in 1..written /\ (Limit > 0 => r > written - Limit) /\ r \notin Readable
      BY <2>3 DEF Newest
    <3>2. PICK k \in DOMAIN content[path] :
            Parses(content[path][k]) /\ content[path][k].records[1] = r
      BY <2>2, <3>1 DEF Covers
    <3>3. r \in Readable
      BY <3>2 DEF Readable, readJsonLines, record
    <3> QED
      BY <3>1, <3>3
  <2>5. IsFiniteSet(C) /\ Cardinality(C) \in Nat
    <3>1. IsFiniteSet(1..written)
      BY <2>3, FS_Interval
    <3> QED
      BY <3>1, FS_Subset, FS_CardinalityType
  <2>6. IsFiniteSet(Lost(C)) /\ Cardinality(Lost(C)) <= 2 * Cardinality(C)
    <3> DEFINE after == {c + 1 : c \in C}
               f == [c \in C |-> c + 1]
    <3>1. f \in Surjection(C, after)
      BY DEF Surjection
    <3>2. IsFiniteSet(after) /\ Cardinality(after) <= Cardinality(C)
      BY <2>5, <3>1, FS_Surjection
    <3>3. Lost(C) = C \cup after
      BY DEF Lost
    <3> HIDE DEF after
    <3>4. /\ IsFiniteSet(C \cup after) /\ IsFiniteSet(C \cap after)
          /\ Cardinality(C \cup after) = Cardinality(C) + Cardinality(after) - Cardinality(C \cap after)
      BY <2>5, <3>2, FS_Union, FS_Intersection
    <3>5. /\ Cardinality(after) \in Nat /\ Cardinality(C \cap after) \in Nat
          /\ Cardinality(C \cup after) \in Nat
      BY <3>2, <3>4, FS_CardinalityType
    <3>6. Cardinality(C \cup after) <= 2 * Cardinality(C)
      BY <2>5, <3>2, <3>4, <3>5
    <3> QED
      BY <3>3, <3>4, <3>6
  <2> HIDE DEF missing
  <2>7. IsFiniteSet(missing) /\ Cardinality(missing) <= Cardinality(Lost(C))
    BY <2>4, <2>6, FS_Subset
  <2>8. Cardinality(missing) \in Nat /\ Cardinality(Lost(C)) \in Nat
    BY <2>6, <2>7, FS_CardinalityType
  <2>9. Cardinality(missing) <= 2 * short
    BY <2>1, <2>3, <2>5, <2>6, <2>7, <2>8
  <2> QED
    BY <2>9 DEF missing
<1>2. NewestInv => NewestKept
  BY <1>1 DEF NewestKept
<1> QED
  BY <1>2, SpecNewest, PTL

==============================================================================
