----------------------------- MODULE TraceStore ------------------------------
(***************************************************************************)
(* A bounded JSONL file of the runner: traces, v2 traces and annotations   *)
(* (cli.ts) and task events (task-events.ts) are all kept by this routine. *)
(* Append a line; read the file back and, when it has grown past the       *)
(* limit, write the newest lines to <path>.tmp and rename that over the    *)
(* file.  Each runner is a process of its own and nothing locks the file,  *)
(* so each system call is a step.  A runner may be killed between two of   *)
(* them, and an append may be cut short (a full disk), which leaves a line *)
(* without its end.                                                        *)
(***************************************************************************)
EXTENDS Integers, FiniteSets, SequencesExt

CONSTANTS
  Writers,       \* processes that append to the file
  Limit,         \* traceLimit(): 0 keeps everything
  MaxRecords,    \* bound: records appended
  MaxKills,      \* bound: processes killed
  MaxShort       \* bound: appends cut short

ASSUME StoreAssumption ==
  /\ IsFiniteSet(Writers)
  /\ Limit \in Nat /\ MaxRecords \in Nat /\ MaxKills \in Nat /\ MaxShort \in Nat

\* The inodes in use: the file, its temporary, and those the writers hold.
Inodes == 0..(Cardinality(Writers) + 2)
NoInode == -1
Positions == {"idle", "appending", "reading", "saving", "writing", "renaming"}

VARIABLES
  content,     \* of every inode: its lines
  path,        \* the inode <path> names
  tmp,         \* the inode <path>.tmp names, or NoInode
  at,          \* where each writer is
  held,        \* the inode each writer has open
  kept,        \* the lines each writer read and writes back
  written,     \* records appended so far: record r is the r-th
  killed, short, \* history: processes killed, appends cut short
  overlapped   \* history: two writers were at work together

storeVars == <<content, path, tmp, at, held, kept, written, killed, short, overlapped>>

Init ==
  /\ content = [i \in Inodes |-> <<>>]
  /\ path = 0 /\ tmp = NoInode
  /\ at = [w \in Writers |-> "idle"]
  /\ held = [w \in Writers |-> NoInode]
  /\ kept = [w \in Writers |-> <<>>]
  /\ written = 0 /\ killed = 0 /\ short = 0
  /\ overlapped = FALSE

(* Lines: the records whose text they hold, and whether the last byte is a newline. *)

Line(records, ended) == [records |-> records, ended |-> ended]
Fragment == Line(<<0, 0>>, TRUE)
\* readJsonLines, parseTaskEventsJsonl: what does not parse is passed over.  A line
\* cut short, or of two records run together, does not parse.
Parses(line) == line.ended /\ Len(line.records) = 1
readJsonLines(inode) == {k \in DOMAIN content[inode] : Parses(content[inode][k])}
record(inode, k) == content[inode][k].records[1]
Readable == {record(path, k) : k \in readJsonLines(path)}

\* What is appended to a line without an end becomes part of it.
appendLine(lines, r, ended) ==
  IF lines # <<>> /\ ~ Last(lines).ended
  THEN Append(Front(lines), Line(Append(Last(lines).records, r), ended))
  ELSE Append(lines, Line(<<r>>, ended))
\* Slip: the lines kept are the oldest.
oldestLines(lines) == SubSeq(lines, 1, Limit)
\* The lines kept, each ended again: one that was cut short still does not parse.
newestLines(lines) ==
  [k \in 1..Limit |->
     LET line == lines[Len(lines) - Limit + k]
     IN  IF line.ended THEN line ELSE Line(line.records \o <<0>>, TRUE)]
\* Written from the start of the inode: where another writer had written already,
\* its longer text shows past the end.
\* Slip: the temporary is opened for appending.
appended(old, new) == {old \o new}
overwritten(old, new) ==
  LET rest == SubSeq(old, Len(new) + 1, Len(old))
  IN  {new \o rest} \cup IF IsPrefix(old, new) \/ IsPrefix(new, old) THEN {} ELSE {new \o <<Fragment>> \o rest}

(* Steps. *)

Idle(w) == at[w] = "idle"
goto(w, p) == at' = [at EXCEPT ![w] = p]
\* Back to idle, with nothing open and nothing in hand.
finish(w) ==
  /\ goto(w, "idle")
  /\ held' = [held EXCEPT ![w] = NoInode]
  /\ kept' = [kept EXCEPT ![w] = <<>>]

\* appendFileSync opens the file, and then writes.
AppendOpens(w) ==
  /\ Idle(w) /\ written < MaxRecords
  /\ goto(w, "appending")
  /\ held' = [held EXCEPT ![w] = path]
  /\ overlapped' = (overlapped \/ \E v \in Writers : ~ Idle(v))
  /\ UNCHANGED <<content, path, tmp, kept, written, killed, short>>
AppendWrites(w) ==
  /\ at[w] = "appending" /\ written < MaxRecords
  /\ written' = written + 1
  /\ content' = [content EXCEPT ![held[w]] = appendLine(content[held[w]], written + 1, TRUE)]
  /\ goto(w, "reading")
  /\ held' = [held EXCEPT ![w] = NoInode]
  /\ UNCHANGED <<path, tmp, kept, killed, short, overlapped>>
\* The error is reported, and retention left out.
AppendCutShort(w) ==
  /\ at[w] = "appending" /\ written < MaxRecords /\ short < MaxShort
  /\ written' = written + 1 /\ short' = short + 1
  /\ content' = [content EXCEPT ![held[w]] = appendLine(content[held[w]], written + 1, FALSE)]
  /\ finish(w)
  /\ UNCHANGED <<path, tmp, killed, overlapped>>

within(lines) == Limit = 0 \/ Len(lines) <= Limit
ReadsBack(w) ==
  /\ at[w] = "reading"
  /\ IF within(content[path]) THEN finish(w)
     ELSE /\ kept' = [kept EXCEPT ![w] = newestLines(content[path])]
          /\ goto(w, "saving") /\ UNCHANGED held
  /\ UNCHANGED <<content, path, tmp, written, killed, short, overlapped>>

\* writeFileSync opens <path>.tmp, emptying it when there is one, and then writes.
temporary == IF tmp # NoInode THEN tmp ELSE CHOOSE i \in Inodes : i # path /\ \A v \in Writers : held[v] # i
SaveOpens(w) ==
  /\ at[w] = "saving"
  /\ tmp' = temporary
  /\ content' = [content EXCEPT ![temporary] = <<>>]
  /\ held' = [held EXCEPT ![w] = temporary]
  /\ goto(w, "writing")
  /\ UNCHANGED <<path, kept, written, killed, short, overlapped>>
SaveWrites(w) ==
  /\ at[w] = "writing"
  /\ \E lines \in overwritten(content[held[w]], kept[w]) :
       content' = [content EXCEPT ![held[w]] = lines]
  /\ goto(w, "renaming")
  /\ held' = [held EXCEPT ![w] = NoInode]
  /\ kept' = [kept EXCEPT ![w] = <<>>]
  /\ UNCHANGED <<path, tmp, written, killed, short, overlapped>>
\* Another writer may have renamed it away: the error is reported.
Renames(w) ==
  /\ at[w] = "renaming"
  /\ IF tmp = NoInode THEN UNCHANGED <<path, tmp>> ELSE path' = tmp /\ tmp' = NoInode
  /\ finish(w)
  /\ UNCHANGED <<content, written, killed, short, overlapped>>

\* The process is killed; another may take its place.
Killed(w) ==
  /\ ~ Idle(w) /\ killed < MaxKills
  /\ killed' = killed + 1
  /\ finish(w)
  /\ UNCHANGED <<content, path, tmp, written, short, overlapped>>

Step(w) ==
  \/ AppendOpens(w) \/ AppendWrites(w) \/ AppendCutShort(w) \/ ReadsBack(w)
  \/ SaveOpens(w) \/ SaveWrites(w) \/ Renames(w) \/ Killed(w)
Next == \E w \in Writers : Step(w)
Spec == Init /\ [][Next]_storeVars

(* Properties. *)

StoreTypeOK ==
  /\ path \in Inodes /\ tmp \in Inodes \cup {NoInode} /\ path # tmp
  /\ at \in [Writers -> Positions]
  /\ held \in [Writers -> Inodes \cup {NoInode}]
  /\ \A w \in Writers : Len(kept[w]) \in {0, Limit}
  /\ written \in 0..MaxRecords
  /\ overlapped \in BOOLEAN

Newest(n) == {r \in 1..written : r > written - n}

\* As long as no two runners are at work together, retention loses none of the newest
\* records, at whatever step a runner is killed; and a record cut short costs no more
\* than itself and the one that runs into it.
NewestKept ==
  ~ overlapped =>
    Cardinality(Newest(IF Limit = 0 THEN written ELSE Limit) \ Readable) <= 2 * short

\* Whatever overlaps, a reader finds records in the order they were appended and none
\* twice: the last annotation of a run it sees is the latest of those left.
ReadInOrder ==
  \A j, k \in readJsonLines(path) : j < k => record(path, j) < record(path, k)

\* Whatever overlaps, a reader is never given more records past the limit than there are
\* runners at work and runners that were cut off.
ReadBounded ==
  Limit > 0 =>
    Cardinality(readJsonLines(path)) <= Limit + Cardinality({w \in Writers : ~ Idle(w)}) + killed

\* README: after each run the most recent records, up to the limit, are retained.
MostRecentRetained ==
  ((\A w \in Writers : Idle(w)) /\ killed = 0 /\ short = 0)
    => Newest(Limit) \subseteq Readable

\* At every step of every writer the file reads as a bounded run of records in order.
StoreInvariant == StoreTypeOK /\ ReadInOrder /\ ReadBounded
==============================================================================
