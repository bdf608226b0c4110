---------------------------- MODULE SavingsLedger ----------------------------
(***************************************************************************)
(* The savings ledger (ledger.py): every finished compile appends a line to   *)
(* ~/.aksharamd/ledger.jsonl and, when the file has grown long, trims it      *)
(* through ledger.tmp; `aksharamd stats --reset` deletes it.  Compiles of     *)
(* several processes do this without a lock, so files are inodes here: a      *)
(* handle keeps its inode when another process renames or deletes the path.   *)
(***************************************************************************)
EXTENDS Naturals, SequencesExt

CONSTANTS Recorders,   \* the processes that compile
          NoFile,      \* a path that names nothing
          Torn,        \* a line that is no JSON
          Part,        \* the beginning of a line, without its newline
          MaxEntries,  \* _MAX_ENTRIES
          CompactAt,   \* _COMPACT_AT
          MaxWrites,   \* bound: lines written
          MaxStops     \* bound: kills, failing writes and resets

ASSUME LedgerAssumption == /\ IsFiniteSet(Recorders)
                           /\ MaxEntries \in Nat \ {0}
                           /\ CompactAt \in Nat /\ CompactAt >= MaxEntries
                           /\ MaxWrites \in Nat /\ MaxStops \in Nat
                           /\ {Torn, Part, NoFile} \cap Nat = {} /\ Torn # Part

VARIABLES data,      \* what each inode holds; a line is the time of its append
          path,      \* the inode at ledger.jsonl
          tmp,       \* the inode at ledger.tmp
          at,        \* where each process is in append_entry
          handle,    \* the inode it has open
          trimmed,   \* the lines it is going to keep
          clock,     \* lines written so far
          stops,
          written,   \* history: the lines begun since the last reset, Torn for a
                     \* line that a failing write has cut short
          cuts,      \* history: the appends that were cut short
          joined,    \* history: the whole lines that were joined to a part
          overlap    \* history: the worst overlap, "none", "append", "compaction"

histories == <<written, cuts, joined>>

ledgerVars == <<data, path, tmp, at, handle, trimmed, clock, stops, histories, overlap>>

\* Every process has at most one inode open, and two have a name.
Inodes == 1 .. Cardinality(Recorders) + 3

Compacting == {p \in Recorders : at[p] \in {"open tmp", "fill", "replace"}}

Appending == {p \in Recorders : at[p] = "append"}

LedgerInit ==
  /\ data = [i \in Inodes |-> <<>>]
  /\ path = NoFile /\ tmp = NoFile
  /\ at = [p \in Recorders |-> "idle"]
  /\ handle = [p \in Recorders |-> NoFile]
  /\ trimmed = [p \in Recorders |-> <<>>]
  /\ clock = 0 /\ stops = 0
  /\ written = <<>> /\ cuts = 0 /\ joined = 0
  /\ overlap = "none"

Unused == CHOOSE i \in Inodes : i \notin {path, tmp} \cup {handle[p] : p \in Recorders}

Goto(p, label) == at' = [at EXCEPT ![p] = label]

\* p is back from append_entry, its file closed.
Return(p) ==
  /\ Goto(p, "idle")
  /\ handle' = [handle EXCEPT ![p] = NoFile]
  /\ trimmed' = [trimmed EXCEPT ![p] = <<>>]

\* History: a step that loses lines of others if one of these is not at rest.
Meets(others) ==
  overlap' = IF others # {} /\ overlap = "none" THEN "append" ELSE overlap

-----------------------------------------------------------------------------
(* append_entry *)

\* path.open("a") creates the file when it is missing.
OpenAppend(p) ==
  /\ at[p] = "idle" /\ clock < MaxWrites
  /\ Goto(p, "append")
  /\ IF path = NoFile
     THEN /\ path' = Unused
          /\ handle' = [handle EXCEPT ![p] = Unused]
          /\ data' = [data EXCEPT ![Unused] = <<>>]
     ELSE /\ handle' = [handle EXCEPT ![p] = path]
          /\ UNCHANGED <<path, data>>
  /\ UNCHANGED <<tmp, trimmed, clock, stops, histories, overlap>>

Open(lines) == lines # <<>> /\ lines[Len(lines)] = Part

\* What is written behind a part is joined to it.
Put(lines, line) ==
  IF Open(lines)
  THEN [lines EXCEPT ![Len(lines)] = IF line = Part THEN Part ELSE Torn]
  ELSE Append(lines, line)

\* The line leaves the buffer in one write, to the end of the open file, which
\* may have lost its name since.
AppendLine(p) ==
  /\ at[p] = "append" /\ clock < MaxWrites
  /\ clock' = clock + 1
  /\ data' = [data EXCEPT ![handle[p]] = Put(@, clock')]
  /\ IF Open(data[handle[p]])
     THEN joined' = joined + 1 /\ UNCHANGED written
     ELSE written' = Append(written, clock') /\ UNCHANGED joined
  /\ Meets(Compacting)
  /\ Goto(p, "read")
  /\ handle' = [handle EXCEPT ![p] = NoFile]
  /\ UNCHANGED <<path, tmp, trimmed, stops, cuts>>

-----------------------------------------------------------------------------
(* _compact_if_needed *)

\* Mutant of TooLong: the length is compared for equality, which works as long
\* as no two appends come between two reads.
JustTooLong(lines) == Len(lines) = CompactAt + 1

TooLong(lines) == Len(lines) > CompactAt

\* Mutant of Newest: the oldest lines are kept.
OldestLines(lines) == SubSeq(lines, 1, MaxEntries)

Newest(lines) == SubSeq(lines, Len(lines) - MaxEntries + 1, Len(lines))

\* A part that is read has become a line that is written.
Closed(lines) == [j \in DOMAIN lines |-> IF lines[j] = Part THEN Torn ELSE lines[j]]

\* The path is read from the start; a missing file ends the call.
ReadLines(p) ==
  /\ at[p] = "read"
  /\ IF path # NoFile /\ TooLong(data[path])
     THEN /\ trimmed' = [trimmed EXCEPT ![p] = Closed(Newest(data[path]))]
          /\ Goto(p, "open tmp")
          /\ overlap' = IF Compacting # {} THEN "compaction" ELSE overlap
          /\ UNCHANGED handle
     ELSE Return(p) /\ UNCHANGED overlap
  /\ UNCHANGED <<data, path, tmp, clock, stops, histories>>

\* Mutant of OpenTmp: what a killed compaction left in the file stays.
OpenTmpAsItIs(p) ==
  /\ at[p] = "open tmp"
  /\ Goto(p, "fill")
  /\ tmp' = IF tmp = NoFile THEN Unused ELSE tmp
  /\ handle' = [handle EXCEPT ![p] = tmp']
  /\ data' = IF tmp = NoFile THEN [data EXCEPT ![tmp'] = <<>>] ELSE data
  /\ UNCHANGED <<path, trimmed, clock, stops, histories, overlap>>

\* write_text opens ledger.tmp, one name for all processes, and empties it.
OpenTmp(p) ==
  /\ at[p] = "open tmp"
  /\ Goto(p, "fill")
  /\ tmp' = IF tmp = NoFile THEN Unused ELSE tmp
  /\ handle' = [handle EXCEPT ![p] = tmp']
  /\ data' = [data EXCEPT ![tmp'] = <<>>]
  /\ UNCHANGED <<path, trimmed, clock, stops, histories, overlap>>

\* The lines go to the start of the file.  What another process has put there
\* since is overwritten as far as these bytes reach, and lines differ in length:
\* any number of its last lines stays, the first of them possibly in part.
FillTmp(p) ==
  LET old == data[handle[p]]
  IN /\ at[p] = "fill"
     /\ \E k \in 1 .. Len(old) + 1, part \in {<<>>, <<Torn>>} :
          /\ k = 1 => part = <<>>
          /\ data' = [data EXCEPT ![handle[p]] =
                        trimmed[p] \o part \o SubSeq(old, k, Len(old))]
     /\ Goto(p, "replace")
     /\ handle' = [handle EXCEPT ![p] = NoFile]
     /\ UNCHANGED <<path, tmp, trimmed, clock, stops, histories, overlap>>

\* tmp.replace(path); the error of a missing ledger.tmp is swallowed.
Replace(p) ==
  /\ at[p] = "replace"
  /\ path' = IF tmp = NoFile THEN path ELSE tmp
  /\ tmp' = NoFile
  /\ Meets(Appending)
  /\ Return(p)
  /\ UNCHANGED <<data, clock, stops, histories>>

-----------------------------------------------------------------------------

Stop == stops < MaxStops /\ stops' = stops + 1

\* The process is killed, or an error is swallowed before anything is written.
GiveUp(p) ==
  /\ at[p] # "idle"
  /\ Return(p) /\ Stop
  /\ UNCHANGED <<data, path, tmp, clock, histories, overlap>>

\* A full disk takes a part of the line; the error is swallowed, the part stays.
\* (One that lacks only its newline still parses until something is joined to it.)
CutAppend(p) ==
  /\ at[p] = "append"
  /\ data' = [data EXCEPT ![handle[p]] = Put(@, Part)]
  /\ written' = IF Open(data[handle[p]]) THEN written ELSE Append(written, Torn)
  /\ cuts' = cuts + 1
  /\ Meets(Compacting)
  /\ Return(p) /\ Stop
  /\ UNCHANGED <<path, tmp, clock, joined>>

\* So does a full disk, or a kill, with the lines of a compaction.
CutFill(p) ==
  LET old == data[handle[p]]
  IN /\ at[p] = "fill"
     /\ \E n \in 0 .. Len(trimmed[p]) - 1, k \in 1 .. Len(old) + 1 :
          data' = [data EXCEPT ![handle[p]] =
                     SubSeq(trimmed[p], 1, n)
                       \o <<IF k > Len(old) THEN Part ELSE Torn>>
                       \o SubSeq(old, k, Len(old))]
     /\ Return(p) /\ Stop
     /\ UNCHANGED <<path, tmp, clock, histories, overlap>>

\* stats --reset
Reset ==
  /\ path # NoFile
  /\ path' = NoFile
  /\ written' = <<>>
  /\ Meets(Compacting \cup Appending)
  /\ Stop
  /\ UNCHANGED <<data, tmp, at, handle, trimmed, clock, cuts, joined>>

LedgerNext ==
  \/ \E p \in Recorders :
       \/ OpenAppend(p) \/ AppendLine(p) \/ ReadLines(p)
       \/ OpenTmp(p) \/ FillTmp(p) \/ Replace(p)
       \/ GiveUp(p) \/ CutAppend(p) \/ CutFill(p)
  \/ Reset

LedgerSpec == LedgerInit /\ [][LedgerNext]_ledgerVars

-----------------------------------------------------------------------------
(* Properties *)

Lines == IF path = NoFile THEN <<>> ELSE data[path]

\* "It survives crashes" (ledger.py:9): unless a compaction overlapped another
\* process's append, reset or compaction, the ledger ends with everything that
\* was begun, at least the last MaxEntries lines of it, and holds nothing from
\* before the last reset, also when processes were killed anywhere and left a
\* ledger.tmp behind.  A write that was cut short costs its own line and at most
\* one other, which was joined to it.
NothingLostAlone ==
  overlap = "none" =>
    /\ IsSuffix(Closed(Lines), written)
    /\ Len(Lines) >= MaxEntries \/ Closed(Lines) = written
    /\ joined <= cuts

\* Unless two compactions overlapped, the whole lines of the ledger are in the
\* order of their appends, none of them twice, and all lines are whole if no
\* append was cut short, whatever appends and resets a compaction met
\* (ledger.py:43): stats never counts a compile two times.
NeverTwice ==
  overlap # "compaction" =>
    \A j \in 1 .. Len(Lines) :
      IF Lines[j] \in {Torn, Part} THEN cuts > 0
      ELSE \A i \in 1 .. j - 1 : Lines[i] \in {Torn, Part} \/ Lines[i] < Lines[j]

\* "compacted ... to prevent unbounded disk and memory growth" (ledger.py:10):
\* while no process is at work and none has stopped half way, the ledger is not
\* longer than the threshold, however appends have met a compaction.
BoundedAtRest ==
  /\ stops = 0 /\ overlap # "compaction"
  /\ \A p \in Recorders : at[p] = "idle"
  => Len(Lines) <= CompactAt
=============================================================================
