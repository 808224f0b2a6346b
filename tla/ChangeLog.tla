------------------------------ MODULE ChangeLog ------------------------------
(***************************************************************************)
(* The change log on its way to flash: rows appended by canTask to the     *)
(* ring in PSRAM (recorder.cpp), drained by loop() a chunk at a time into  *)
(* the current changes file (drainChangeLog in filestore.cpp).             *)
(*                                                                         *)
(* canTask preempts loop() anywhere, so a drain is split at every flash    *)
(* call and rows may arrive in between.  Keys, web requests, mode changes  *)
(* and drains all run on the loop task, one after the other.               *)
(*                                                                         *)
(* Rows are numbered in the order they were accepted: row n is the n-th.   *)
(* The ring holds the rows tail+1 .. head.  `flash' is everything written  *)
(* to changes files, end to end.                                           *)
(***************************************************************************)
EXTENDS Integers, Sequences, FiniteSets

CONSTANTS
  Mode,           \* the modes a board can be in
  Feeding,        \* those whose frames reach the change log
  Cap,            \* ring capacity, in rows
  ChunkRows,      \* rows that fit FS_FLUSH_BUDGET_BYTES
  CompactAt,      \* FS_COMPACT_AT_PCT of the capacity
  FileMax,        \* FS_FILE_MAX_BYTES, in rows
  MaxRows,        \* bound: rows ever accepted
  MaxDropped,     \* bound: refusals counted
  MaxFlash,       \* bound: items written, past which no write falls short
  ModeChanges,    \* the operator changes mode while recording
  OpenMayFail,    \* LittleFS may refuse a new file
  ShortWrites     \* a write may store only part of its bytes

ASSUME ChangeLogAssumption ==
  /\ Feeding \subseteq Mode /\ Mode # {}
  /\ Cap \in Nat /\ ChunkRows \in Nat \ {0} /\ FileMax \in Nat
  /\ CompactAt \in Nat
  /\ MaxRows \in Nat /\ MaxDropped \in Nat /\ MaxFlash \in Nat
  /\ {ModeChanges, OpenMayFail, ShortWrites} \subseteq BOOLEAN

VARIABLES
  head, tail,     \* g_chgRing
  dropped,        \* g_chgDrop
  running,        \* g_running
  mode,           \* g_mode
  gate,           \* mounted, g_enabled and powerMayRecordNow()
  row,            \* g_chgCursor.row, counted from the tail
  headerDone,     \* g_chgCursor.headerDone
  at,             \* the next step of the drain under way
  before,         \* the cursor the drain started from
  isOpen, bytes,  \* g_actChanges
  flash,          \* history: items written to changes files, in order
  modeOf,         \* history: the mode each accepted row was taken in
  cleared,        \* history: rows thrown away by the operator
  skipped         \* history: rows a stale cursor came to lie behind of

ring == <<head, tail, dropped, running>>
cursor == <<row, headerDone>>
file == <<isOpen, bytes>>
history == <<flash, modeOf, cleared, skipped>>
vars == <<ring, mode, gate, cursor, at, before, file, history>>

FileStart == -1      \* the item that begins a file
Header == 0          \* the CSV header line
Item == [row : Int, mode : Mode, hashed : BOOLEAN]

Stored == head - tail                     \* spscCount

TypeOK ==
  /\ head \in Nat /\ tail \in Nat /\ tail <= head /\ Stored <= Cap
  /\ dropped \in Nat /\ running \in BOOLEAN
  /\ mode \in Mode /\ gate \in BOOLEAN
  /\ row \in Nat /\ headerDone \in BOOLEAN
  /\ at \in {"idle", "open", "header", "write", "discard"}
  /\ before \in [row : Nat, headerDone : BOOLEAN]
  /\ isOpen \in BOOLEAN /\ bytes \in Nat
  /\ flash \in Seq(Item)
  /\ modeOf \in Seq(Mode) /\ Len(modeOf) = head
  /\ cleared \subseteq 1 .. head /\ skipped \subseteq 1 .. head

Init ==
  /\ head = 0 /\ tail = 0 /\ dropped = 0 /\ running = FALSE
  /\ mode \in Mode /\ gate \in BOOLEAN
  /\ row = 0 /\ headerDone = FALSE
  /\ at = "idle" /\ before = [row |-> 0, headerDone |-> FALSE]
  /\ isOpen = FALSE /\ bytes = 0
  /\ flash = <<>> /\ modeOf = <<>> /\ cleared = {} /\ skipped = {}

\* recorderClear left the cursor past the end of the ring.
Stale == row > Stored

\* What the next drain will read from.
Cursor == [row |-> IF Stale THEN 0 ELSE row, headerDone |-> headerDone /\ ~Stale]

-----------------------------------------------------------------------------
(* canTask                                                                 *)

RecorderOn == running /\ mode \in Feeding

(* The row that fills a cleared ring up to the old cursor makes the cursor *)
(* look right again: the drain will start after it.                        *)
Refilled == Stale /\ Stored + 1 = row

recorderNoteChange ==
  /\ RecorderOn /\ Stored < Cap
  /\ head < MaxRows
  /\ head' = head + 1
  /\ modeOf' = Append(modeOf, mode)
  /\ skipped' = IF Refilled THEN skipped \cup (tail + 1 .. head + 1) ELSE skipped
  /\ UNCHANGED <<tail, dropped, running, mode, gate, cursor, at, before, file,
                 flash, cleared>>

\* A full ring refuses the row and counts it.
RefuseChange ==
  /\ RecorderOn /\ Stored >= Cap
  /\ dropped < MaxDropped
  /\ dropped' = dropped + 1
  /\ UNCHANGED <<head, tail, running, mode, gate, cursor, at, before, file, history>>

-----------------------------------------------------------------------------
(* drainChangeLog                                                          *)

LastOfChunk(r) == IF tail + r + ChunkRows < head THEN tail + r + ChunkRows ELSE head

\* Mutant: the backlog is left behind when recording stops.
BeginDrain_OnlyRunning ==
  /\ at = "idle" /\ gate /\ running
  /\ Cursor.row < Stored \/ ~Cursor.headerDone
  /\ before' = Cursor
  /\ row' = LastOfChunk(Cursor.row) - tail /\ headerDone' = TRUE
  /\ at' = "open"
  /\ UNCHANGED <<ring, mode, gate, file, history>>

(* One chunk is formatted from the ring: the CSV header if this cursor has *)
(* not produced one, then rows while they fit.  The cursor moves now and   *)
(* is put back if the chunk does not reach the file.                       *)
BeginDrain ==
  /\ at = "idle" /\ gate
  /\ Cursor.row < Stored \/ (running /\ ~Cursor.headerDone)
  /\ before' = Cursor
  /\ row' = LastOfChunk(Cursor.row) - tail /\ headerDone' = TRUE
  /\ at' = "open"
  /\ UNCHANGED <<ring, mode, gate, file, history>>

\* Nothing to write: all the pass does is repair a stale cursor.
DrainNothing ==
  /\ at = "idle" /\ gate /\ Stale
  /\ Stored = 0 /\ ~running
  /\ row' = 0 /\ headerDone' = FALSE
  /\ UNCHANGED <<ring, mode, gate, at, before, file, history>>

Written(n, hashed) == [row |-> n, mode |-> mode, hashed |-> hashed]

\* A rotated file needs a header of its own unless the chunk carries one.
NeedsHeader(b) == b = 0 /\ before.headerDone

\* ensureOpen: a full file is closed and the next one created.
MustOpen == ~isOpen \/ bytes >= FileMax

ensureOpen ==
  /\ at = "open"
  /\ isOpen' = TRUE
  /\ IF MustOpen
       THEN bytes' = 0 /\ flash' = Append(flash, Written(FileStart, TRUE))
       ELSE UNCHANGED <<bytes, flash>>
  /\ at' = IF NeedsHeader(bytes') THEN "header" ELSE "write"
  /\ UNCHANGED <<ring, mode, gate, cursor, before, modeOf, cleared, skipped>>

\* Mutant: the cursor stays where the lost chunk ended.
OpenFails_KeepsCursor ==
  /\ OpenMayFail /\ at = "open" /\ MustOpen
  /\ isOpen' = FALSE /\ at' = "idle"
  /\ UNCHANGED <<ring, mode, gate, cursor, before, bytes, history>>

OpenFails ==
  /\ OpenMayFail /\ at = "open" /\ MustOpen
  /\ isOpen' = FALSE
  /\ row' = before.row /\ headerDone' = before.headerDone
  /\ at' = "idle"
  /\ UNCHANGED <<ring, mode, gate, before, bytes, history>>

\* writeActive's result is ignored for this header.
WriteHeader(ok) ==
  /\ at = "header"
  /\ ok \/ Len(flash) < MaxFlash
  /\ flash' = Append(flash, Written(Header, ok))
  /\ bytes' = IF ok THEN bytes + 1 ELSE bytes
  /\ at' = "write"
  /\ UNCHANGED <<ring, mode, gate, cursor, before, isOpen, modeOf, cleared, skipped>>

\* The items of the chunk: rows before.row+1 .. row of the ring.
ChunkHeader == IF before.headerDone THEN <<>> ELSE <<Header>>
ChunkRow(i) == tail + before.row + i
ChunkLen == Len(ChunkHeader) + row - before.row
ChunkItem(i) == IF i <= Len(ChunkHeader) THEN Header
                                         ELSE ChunkRow(i - Len(ChunkHeader))
Items(k, hashed) == [i \in 1 .. k |-> Written(ChunkItem(i), hashed)]

WriteChunk ==
  /\ at = "write"
  /\ flash' = flash \o Items(ChunkLen, TRUE)
  /\ bytes' = bytes + ChunkLen
  /\ at' = "discard"
  /\ UNCHANGED <<ring, mode, gate, cursor, before, isOpen, modeOf, cleared, skipped>>

\* What was stored of a short write stays in the file, unhashed.
WriteShort ==
  /\ ShortWrites /\ at = "write" /\ Len(flash) < MaxFlash
  /\ \E k \in 0 .. ChunkLen - 1 : flash' = flash \o Items(k, FALSE)
  /\ row' = before.row /\ headerDone' = before.headerDone
  /\ at' = "idle"
  /\ UNCHANGED <<ring, mode, gate, before, file, modeOf, cleared, skipped>>

\* Mutant: the last drained row stays.
Discard_OffByOne ==
  /\ at = "discard"
  /\ IF row > CompactAt THEN tail' = tail + row - 1 /\ row' = 0
                        ELSE UNCHANGED <<tail, row>>
  /\ at' = "idle"
  /\ UNCHANGED <<head, dropped, running, mode, gate, headerDone, before, file, history>>

\* recorderChangeDiscardThrough: in bulk, once enough rows are on flash.
Discard ==
  /\ at = "discard"
  /\ IF row > CompactAt THEN tail' = tail + row /\ row' = 0
                        ELSE UNCHANGED <<tail, row>>
  /\ at' = "idle"
  /\ UNCHANGED <<head, dropped, running, mode, gate, headerDone, before, file, history>>

-----------------------------------------------------------------------------
(* The rest of the loop task.                                              *)

recorderStart ==
  /\ at = "idle" /\ ~running /\ running' = TRUE
  /\ UNCHANGED <<head, tail, dropped, mode, gate, cursor, at, before, file, history>>

recorderStop ==
  /\ at = "idle" /\ running /\ running' = FALSE
  /\ UNCHANGED <<head, tail, dropped, mode, gate, cursor, at, before, file, history>>

\* Everything not yet drained is gone; the cursor is left where it was.
recorderClear ==
  /\ at = "idle" /\ (Stored > 0 \/ dropped > 0)
  /\ tail' = head /\ dropped' = 0
  /\ cleared' = cleared \cup (tail + Cursor.row + 1 .. head)
  /\ UNCHANGED <<head, running, mode, gate, cursor, at, before, file, flash, modeOf, skipped>>

\* Bus idle, ignition off: the file is closed, the backlog stays.
filestoreCloseActive ==
  /\ at = "idle" /\ isOpen
  /\ isOpen' = FALSE
  /\ UNCHANGED <<ring, mode, gate, cursor, at, before, bytes, history>>

(* filestoreLoop and filestoreTick: with the filestore unmounted or        *)
(* disabled, or the ignition off, the files are closed and no pass drains. *)
(* canTask goes on filling the ring.                                       *)
ShutGate ==
  /\ at = "idle" /\ gate
  /\ gate' = FALSE /\ isOpen' = FALSE
  /\ UNCHANGED <<ring, mode, cursor, at, before, bytes, history>>

OpenGate ==
  /\ at = "idle" /\ ~gate
  /\ gate' = TRUE
  /\ UNCHANGED <<ring, mode, cursor, at, before, file, history>>

\* applyMode: canTask is paused, files are closed, the mode changes.
filestoreSetMode ==
  /\ ModeChanges /\ at = "idle"
  /\ \E m \in Mode \ {mode} : mode' = m
  /\ isOpen' = FALSE
  /\ UNCHANGED <<ring, gate, cursor, at, before, bytes, history>>

Next ==
  \/ recorderNoteChange
  \/ RefuseChange
  \/ BeginDrain
  \/ DrainNothing
  \/ ensureOpen
  \/ OpenFails
  \/ \E ok \in {TRUE, ~ShortWrites} : WriteHeader(ok)
  \/ WriteChunk
  \/ WriteShort
  \/ Discard
  \/ recorderStart
  \/ recorderStop
  \/ recorderClear
  \/ filestoreCloseActive
  \/ filestoreSetMode
  \/ ShutGate
  \/ OpenGate

Spec == Init /\ [][Next]_vars

(* loop() calls the drain on every pass that finds the gate open (how long *)
(* it is shut is up to the driver and the operator); a file that is        *)
(* refused is asked for again on the next one and a short write is         *)
(* retried: neither fails for ever.                                        *)
Fairness ==
  /\ WF_vars(BeginDrain) /\ SF_vars(ensureOpen)
  /\ WF_vars(WriteHeader(TRUE)) /\ SF_vars(WriteChunk) /\ WF_vars(Discard)
FairSpec == Spec /\ Fairness

-----------------------------------------------------------------------------
(* Properties                                                              *)

\* Rows up to this one are drained, or were thrown away.
Committed == tail + (IF at \in {"open", "header", "write"} THEN before.row ELSE Cursor.row)

\* Rows the digest vouches for.
Intact(i) == flash[i].row > 0 /\ flash[i].hashed
OnFlash(n) == \E i \in DOMAIN flash : Intact(i) /\ flash[i].row = n

(* Every row that was accepted is on flash once drained, unless the        *)
(* operator cleared it, or a cleared ring was filled up to the old cursor  *)
(* before a drain looked (NothingSkipped): rotation, a refused file, a     *)
(* failed write, compaction under an arriving row, stop and start, and a   *)
(* gate shut for as long as you like lose nothing (drainChangeLog).        *)
NothingLost == \A n \in 1 .. Committed : n \in cleared \cup skipped \/ OnFlash(n)

(* recorderClear leaves the cursor, and the rows that fill the ring up to  *)
(* it again are taken for drained (drainChangeLog's check for a stale      *)
(* cursor).                                                                *)
NothingSkipped == skipped = {}

(* No row is written out twice, and the files read end to end give the     *)
(* rows in the order they were accepted, none of them one that was cleared *)
(* (but for what a failed write leaves behind, which no digest covers).    *)
NothingTwice ==
  /\ \A i, j \in DOMAIN flash :
       i < j /\ Intact(i) /\ Intact(j) => flash[i].row < flash[j].row
  /\ \A i \in DOMAIN flash :
       Intact(i) => flash[i].row <= Committed /\ flash[i].row \notin cleared

(* Each file starts with the CSV header, whether the cursor's own or the   *)
(* one written for a rotated file, and never with two, unless the first of *)
(* them was stored in part.                                                *)
StartsWithHeader ==
  \A i \in DOMAIN flash : flash[i].row = FileStart /\ i < Len(flash) =>
    /\ flash[i + 1].row \in {Header, FileStart}
    /\ flash[i + 1].row = Header /\ flash[i + 1].hashed /\ cleared = {} /\ i + 1 < Len(flash)
         => flash[i + 2].row # Header

(* Files are tagged with the mode that produced them and never span two    *)
(* (applyMode, filestoreSetMode).                                          *)
ModesNeverMix ==
  \A i \in DOMAIN flash : flash[i].row > 0 => flash[i].mode = modeOf[flash[i].row]

(* The digest in the .meta is that of the contents (writeActive).          *)
DigestIsContent == \A i \in DOMAIN flash : flash[i].hashed

(* Once the gate stays open, what was accepted gets to flash, if nobody    *)
(* clears it: also what came while the gate was shut or the recorder was   *)
(* stopped since, and though a file was refused on the way.                *)
RowsReachFlash ==
  <>[]gate =>
    \A n \in 1 .. MaxRows : (n <= head) ~> (n \in cleared \cup skipped \/ OnFlash(n))
=============================================================================
