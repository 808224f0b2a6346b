------------------------------ MODULE Filestore ------------------------------
(***************************************************************************)
(* The filestore of the firmware (src/firmware/src/filestore.cpp): what is *)
(* on the LittleFS partition, what is in NVS, what is only in RAM, and the *)
(* order in which one operation changes them.  Power can go between any    *)
(* two changes: every flash or NVS write is a step of its own, and a step  *)
(* of RAM is joined to the write it belongs to.                            *)
(*                                                                         *)
(*   open    make room, take an index from NVS, create the .part           *)
(*   close   write the .meta, rename .part to .log                         *)
(*   evict   remove the data file, remove the .meta, count the loss in NVS *)
(*   boot    a new boot id, the loss record from NVS, the index from the   *)
(*           directory                                                     *)
(*                                                                         *)
(* One task (loop) runs all of it.  Byte counts are not modelled here (see *)
(* Retention), so the two byte limits may or may not be exceeded.  A flash *)
(* write may fail where the code ignores its result; so may the NVS write  *)
(* of the next index.  The NVS writes of the ack, of the loss record and   *)
(* of the boot id are taken to succeed.                                    *)
(***************************************************************************)
EXTENDS FsPolicy, Sequences

CONSTANTS
  MaxFiles,        \* FS_MAX_FILES
  Budget,          \* FS_EVICT_PER_PASS
  Room,            \* entries the index is sure to have memory for
  MaxIndex,        \* bound: the highest index given out; one open less once
                   \* a number is given out again
  MaxBoots,        \* bound: boots of the model
  Faulty,          \* what may fail: "meta" (the .meta of a close does not open),
                   \* "rename" and "remove" (LittleFS), "put" (NVS, the next index)
  MaxFaults,       \* bound: failures of the model
  MillisWraps      \* millis() may wrap, which makes a new boot id

ASSUME FilestoreAssumption ==
  /\ MaxFiles \in Nat /\ Budget \in Nat \ {0} /\ Room \in Nat
  /\ MaxIndex \in Nat /\ MaxBoots \in Nat
  /\ Faulty \subseteq {"meta", "rename", "remove", "put"} /\ MaxFaults \in Nat
  /\ MillisWraps \in BOOLEAN

VARIABLES
  disk,            \* the names in FS_DIR
  nvs,             \* the keys idx, ack, lost (lf0..2), lostack, boot
  table,           \* g_tab
  open,            \* g_actSnapshot, g_actChanges and the bookend's Active
  boot,            \* sessionBootId()
  at,              \* the next step of the operation under way
  opening,         \* the kind being opened, or "none"
  number,          \* the index nextIndex() returned to the open under way
  closing,         \* the writers still to close, the current one first
  victim,          \* the entry being evicted
  after,           \* the step to go on with once it is gone
  evicted,         \* evictions of the current retention call
  destroyed,       \* history: indexes whose data was removed before an ack
  slips,           \* history: losses a power cut kept from being counted
  faults,          \* history: failures so far
  puts,            \* history: NVS took every next index
  sound            \* history: so it did, no rename and no removal of data failed,
                   \* and no new boot id came under an open file

ram == <<table, open, boot>>
op == <<at, opening, number, closing, victim, after, evicted>>
history == <<destroyed, slips, faults, puts, sound>>
vars == <<disk, nvs, ram, op, history>>

None == -1
Ext == {"part", "log", "meta"}
Name == [index : Nat, kind : Kind, boot : Nat, ext : Ext]
Entry == [index : Nat, kind : Kind, boot : Nat, closed : BOOLEAN, active : BOOLEAN]
NoEntry == [index |-> None]

\* makeName: the boot id is part of every name.
NameOf(e, ext) == [index |-> e.index, kind |-> e.kind, boot |-> e.boot, ext |-> ext]
DataName(e) == NameOf(e, IF e.closed THEN "log" ELSE "part")
DataFiles(names) == {n \in names : n.ext # "meta"}

ackedThrough == nvs.ack       \* RAM and NVS copies change together
EntryOf(i) == CHOOSE e \in table : e.index = i

TypeOK ==
  /\ disk \subseteq Name /\ IsFiniteSet(disk)
  /\ nvs \in [idx : Nat, ack : Int, lost : Nat, lostack : Nat, boot : Nat]
  /\ table \subseteq Entry /\ IsFiniteSet(table)
  /\ open \in [Kind -> Nat \cup {None}]
  /\ boot \in Nat
  /\ at \in {"idle", "retention", "evictData", "evictMeta", "evictNote",
             "index", "create", "meta", "rename", "scan"}
  /\ opening \in Kind \cup {"none"} /\ number \in Nat
  /\ closing \in Seq(Kind)
  /\ victim \in Entry \cup {NoEntry}
  /\ after \in {"none", "retention", "scan", "idle", "meta"}
  /\ evicted \in Nat
  /\ destroyed \subseteq Nat /\ IsFiniteSet(destroyed)
  /\ slips \in Nat /\ faults \in Nat /\ puts \in BOOLEAN /\ sound \in BOOLEAN

Idle ==
  /\ at = "idle" /\ opening = "none" /\ number = 0 /\ closing = <<>>
  /\ victim = NoEntry /\ after = "none" /\ evicted = 0

Init ==
  /\ disk = {} /\ table = {}
  /\ nvs = [idx |-> 0, ack |-> -1, lost |-> 0, lostack |-> 0, boot |-> 1]
  /\ open = [k \in Kind |-> None]
  /\ boot = 1
  /\ Idle
  /\ destroyed = {} /\ slips = 0 /\ faults = 0 /\ puts = TRUE /\ sound = TRUE

\* How a call that may fail turns out.
Outcomes(what) == {TRUE} \cup {ok \in {FALSE} : what \in Faulty /\ faults < MaxFaults}
Blame(ok) == faults' = IF ok THEN faults ELSE faults + 1

-----------------------------------------------------------------------------
(* Retention: enforceRetention and its callbacks.                          *)

CountLimit == IF opening = "none" THEN MaxFiles
              ELSE IF MaxFiles > 1 THEN MaxFiles - 1 ELSE 0

\* openActive starts with a retention call that keeps one slot free.
BeginOpen(kind) ==
  /\ at = "idle" /\ open[kind] = None
  /\ nvs.idx <= IF puts THEN MaxIndex ELSE MaxIndex - 1
  /\ at' = "retention" /\ opening' = kind
  /\ UNCHANGED <<disk, nvs, ram, number, closing, victim, after, evicted, history>>

\* The 5 s timer, a pass with work left, and the ack handler.
BeginRetention ==
  /\ at = "idle"
  /\ at' = "retention"
  /\ UNCHANGED <<disk, nvs, ram, opening, number, closing, victim, after, evicted, history>>

\* The deletion the policy wants next: while an acked leftover is there, that
\* one; while the count is over the limit, the order of the policy; after
\* that whatever a byte limit asks for.
Wanted ==
  LET leftovers == AckedLeftovers(table, ackedThrough) IN
  IF leftovers # {} THEN {Oldest(leftovers)}
  ELSE IF Cardinality(table) > CountLimit THEN {fsPickVictim(table, ackedThrough)}
  ELSE {fsPickVictim(table, ackedThrough), fsPickTierAVictim(table, ackedThrough)}

PickForEviction ==
  /\ at = "retention" /\ evicted < Budget
  /\ \E e \in Wanted \ {NoVictim} : victim' = e
  /\ at' = "evictData" /\ after' = "retention" /\ evicted' = evicted + 1
  /\ UNCHANGED <<disk, nvs, ram, opening, number, closing, history>>

\* The call is over: nothing is wanted, or the budget is spent.
RetentionDone ==
  /\ at = "retention"
  /\ \/ evicted = Budget
     \/ /\ AckedLeftovers(table, ackedThrough) = {}
        /\ (Cardinality(table) <= CountLimit \/ Evictable(table) = {})
  /\ evicted' = 0
  /\ at' = IF opening = "none" THEN "idle" ELSE "index"
  /\ UNCHANGED <<disk, nvs, ram, opening, number, closing, victim, after, history>>

\* removeFiles, first half, whose result nobody looks at.  An entry that names
\* no file removes none.
EvictData(ok) ==
  /\ at = "evictData"
  /\ LET gone == ok /\ DataName(victim) \in disk
     IN  /\ disk' = IF gone THEN disk \ {DataName(victim)} ELSE disk
         /\ destroyed' = IF gone /\ ~isAcked(victim, ackedThrough)
                         THEN destroyed \cup {victim.index} ELSE destroyed
  /\ at' = "evictMeta" /\ sound' = (sound /\ ok) /\ Blame(ok)
  /\ UNCHANGED <<nvs, ram, opening, number, closing, victim, after, evicted, slips, puts>>

\* The entry is dropped, whether or not its files went.
Drop ==
  /\ table' = table \ {victim} /\ victim' = NoEntry
  /\ at' = after /\ after' = "none"

\* Mutant: a path with its own bookkeeping, which counts nothing.
EvictMeta_NoNote(ok) ==
  /\ at = "evictMeta"
  /\ disk' = IF ok THEN disk \ {NameOf(victim, "meta")} ELSE disk
  /\ Blame(ok)
  /\ Drop
  /\ UNCHANGED <<nvs, open, boot, opening, number, closing, evicted, destroyed, slips, puts, sound>>

\* removeFiles, second half; an acked eviction is then complete.
EvictMeta(ok) ==
  /\ at = "evictMeta"
  /\ disk' = IF ok THEN disk \ {NameOf(victim, "meta")} ELSE disk
  /\ Blame(ok)
  /\ \/ isAcked(victim, ackedThrough) /\ Drop
     \/ /\ ~isAcked(victim, ackedThrough) /\ at' = "evictNote"
        /\ UNCHANGED <<table, victim, after>>
  /\ UNCHANGED <<nvs, open, boot, opening, number, closing, evicted, destroyed, slips, puts, sound>>

\* noteUnackedEviction: the loss is counted in NVS, then the entry dropped.
EvictNote ==
  /\ at = "evictNote"
  /\ nvs' = [nvs EXCEPT !.lost = @ + 1]
  /\ Drop
  /\ UNCHANGED <<disk, open, boot, opening, number, closing, evicted, history>>

-----------------------------------------------------------------------------
(* Open and close.                                                         *)

\* Mutant: the counter is not saved.
TakeIndex_NoPut(ok) ==
  /\ at = "index" /\ at' = "create" /\ number' = nvs.idx
  /\ UNCHANGED <<disk, nvs, ram, opening, closing, victim, after, evicted, history>>

\* nextIndex: the counter moves in NVS before the index is used; a put that
\* fails goes unnoticed, and the next call reads the same number again.
TakeIndex(ok) ==
  /\ at = "index"
  /\ number' = nvs.idx
  /\ nvs' = IF ok THEN [nvs EXCEPT !.idx = @ + 1] ELSE nvs
  /\ at' = "create"
  /\ puts' = (puts /\ ok) /\ sound' = (sound /\ ok) /\ Blame(ok)
  /\ UNCHANGED <<disk, ram, opening, closing, victim, after, evicted, destroyed, slips>>

NewEntry == [index |-> number, kind |-> opening, boot |-> boot,
             closed |-> FALSE, active |-> TRUE]

\* trackEntry finds no memory for one more entry: the oldest entry that may go
\* and is older than the new one, if there is one, gives up its slot.
Full == Cardinality(table) >= Room /\ \A e \in table : e.index # number
GivesWay == {e \in Evictable(table) : e.index < number}

\* The .part is created and tracked; a bookend is written and closed at once.
\* An entry that gave way is listed until its files are gone: nobody looks
\* at the index in between.
CreatePart ==
  /\ at = "create"
  /\ disk' = disk \cup {NameOf(NewEntry, "part")}
  /\ table' = {e \in table : e.index # number} \cup {NewEntry}
  /\ open' = [open EXCEPT ![opening] = number]
  /\ closing' = IF opening = "bookend" THEN <<"bookend">> ELSE <<>>
  /\ LET next == IF opening = "bookend" THEN "meta" ELSE "idle"
     IN  \/ at' = next /\ UNCHANGED <<victim, after>>
        \/ /\ Full /\ GivesWay # {}
           /\ at' = "evictData" /\ victim' = Oldest(GivesWay) /\ after' = next
  /\ opening' = "none" /\ number' = 0
  /\ UNCHANGED <<nvs, boot, evicted, history>>

\* Nobody gives way: the open is undone, and the file with it if the removal
\* works.  A power cut between the two is CreatePart and then Restart.
CreateUndone(ok) ==
  /\ at = "create" /\ Full /\ GivesWay = {}
  /\ disk' = IF ok THEN disk \ {NameOf(NewEntry, "part")}
             ELSE disk \cup {NameOf(NewEntry, "part")}
  /\ at' = "idle" /\ opening' = "none" /\ number' = 0
  /\ sound' = (sound /\ ok) /\ Blame(ok)
  /\ UNCHANGED <<nvs, ram, closing, victim, after, evicted, destroyed, slips, puts>>

\* LittleFS refuses the open: the index is burned and nothing else changes.
CreateFails ==
  /\ at = "create"
  /\ at' = "idle" /\ opening' = "none" /\ number' = 0
  /\ UNCHANGED <<disk, nvs, ram, closing, victim, after, evicted, history>>

\* A full file is closed alone (ensureOpen); key-off, a mode change and
\* stopping close both writers, the snapshot's first (filestoreCloseActive).
BeginClose(kinds) ==
  /\ at = "idle" /\ kinds # <<>>
  /\ \A k \in DOMAIN kinds : open[kinds[k]] # None
  /\ at' = "meta" /\ closing' = kinds
  /\ UNCHANGED <<disk, nvs, ram, opening, number, victim, after, evicted, history>>

\* closeActive names all three files with the boot id of NOW.
Closing == [index |-> open[Head(closing)], kind |-> Head(closing), boot |-> boot,
            closed |-> TRUE, active |-> FALSE]

WriteMeta(ok) ==
  /\ at = "meta"
  /\ disk' = IF ok THEN disk \cup {NameOf(Closing, "meta")} ELSE disk
  /\ at' = "rename" /\ Blame(ok)
  /\ UNCHANGED <<nvs, ram, opening, number, closing, victim, after, evicted,
                 destroyed, slips, puts, sound>>

\* A rename that fails is only counted; the index says closed either way.  The
\* entry is there already, so trackEntry needs no room, unless its number was
\* given out twice, and of that nothing is claimed.
Rename(ok) ==
  /\ at = "rename"
  /\ LET part == NameOf(Closing, "part")
     IN  disk' = IF ok /\ part \in disk
                 THEN (disk \ {part}) \cup {NameOf(Closing, "log")} ELSE disk
  /\ table' = {e \in table : e.index # Closing.index} \cup {Closing}
  /\ open' = [open EXCEPT ![Head(closing)] = None]
  /\ closing' = Tail(closing)
  /\ at' = IF Tail(closing) = <<>> THEN "idle" ELSE "meta"
  /\ sound' = (sound /\ ok) /\ Blame(ok)
  /\ UNCHANGED <<nvs, boot, opening, number, victim, after, evicted, destroyed, slips, puts>>

-----------------------------------------------------------------------------
(* The hub, the clock and the power.                                       *)

\* filestoreAck: forward only, and to any number the hub names, given out or
\* not.  AckBound keeps it finite.
AckBound == MaxIndex
filestoreAck ==
  /\ at = "idle"
  /\ \E n \in nvs.ack + 1 .. AckBound : nvs' = [nvs EXCEPT !.ack = n]
  /\ UNCHANGED <<disk, ram, op, history>>

\* filestoreAckLoss: clamped to the total, forward only.
filestoreAckLoss ==
  /\ at = "idle"
  /\ \E n \in nvs.lostack + 1 .. nvs.lost : nvs' = [nvs EXCEPT !.lostack = n]
  /\ UNCHANGED <<disk, ram, op, history>>

\* sessionTick: millis() wrapped, so the boot id moves on, in NVS and RAM.
SessionWrap ==
  /\ MillisWraps /\ at = "idle" /\ nvs.boot < MaxBoots
  /\ boot' = nvs.boot + 1 /\ nvs' = [nvs EXCEPT !.boot = @ + 1]
  /\ sound' = (sound /\ \A k \in Kind : open[k] = None)
  /\ UNCHANGED <<disk, table, open, op, destroyed, slips, faults, puts>>

\* Mutant: files that were never closed are left out of the index.
Scan_LogsOnly(names) ==
  {[index |-> n.index, kind |-> n.kind, boot |-> n.boot, closed |-> TRUE,
    active |-> FALSE] : n \in {m \in names : m.ext = "log"}}

(* scanDir feeds every name to fsScanFeed, names only.  Of a .log and a    *)
(* .part with one index, one entry survives and it says .log.              *)
Scan(names) ==
  LET data == DataFiles(names)
      hasLog(n) == \E m \in data : m.index = n.index /\ m.ext = "log"
      entry(n) == [index |-> n.index, kind |-> n.kind, boot |-> n.boot,
                   closed |-> hasLog(n), active |-> FALSE]
  IN  {entry(n) : n \in data}

InFlight ==      \* an unacked file is gone and not yet counted
  at \in {"evictMeta", "evictNote"} /\ ~isAcked(victim, ackedThrough)

\* Power cut, watchdog or reset at any point, and the boot that follows.
Restart ==
  /\ nvs.boot < MaxBoots
  /\ nvs' = [nvs EXCEPT !.boot = @ + 1]
  /\ boot' = nvs.boot + 1
  /\ table' = Scan(disk)
  /\ open' = [k \in Kind |-> None]
  /\ at' = "scan" /\ opening' = "none" /\ number' = 0 /\ closing' = <<>>
  /\ victim' = NoEntry /\ after' = "none" /\ evicted' = 0
  /\ slips' = IF InFlight THEN slips + 1 ELSE slips
  /\ UNCHANGED <<disk, destroyed, faults, puts, sound>>

\* FS_SCAN_EVICT: the table does not grow, and the older of the newcomer and
\* the oldest entry goes.  The directory is read in any order and memory may
\* be there for one name and not for the next, so any file that Room newer
\* ones were found besides may go.
ScanEvict ==
  /\ at = "scan"
  /\ \E e \in Evictable(table) :
        /\ Cardinality({f \in table : f.index > e.index}) >= Room
        /\ victim' = e
  /\ at' = "evictData" /\ after' = "scan"
  /\ UNCHANGED <<disk, nvs, ram, opening, number, closing, evicted, history>>

ScanDone ==
  /\ at = "scan" /\ at' = "idle"
  /\ UNCHANGED <<disk, nvs, ram, opening, number, closing, victim, after, evicted, history>>

CloseLists == {<<"snapshot">>, <<"changes">>, <<"snapshot", "changes">>}

Next ==
  \/ \E kind \in Kind : BeginOpen(kind)
  \/ BeginRetention
  \/ PickForEviction
  \/ RetentionDone
  \/ \E ok \in Outcomes("remove") : EvictData(ok)
  \/ \E ok \in Outcomes("remove") : EvictMeta(ok)
  \/ EvictNote
  \/ \E ok \in Outcomes("put") : TakeIndex(ok)
  \/ CreatePart
  \/ \E ok \in Outcomes("remove") : CreateUndone(ok)
  \/ CreateFails
  \/ \E kinds \in CloseLists : BeginClose(kinds)
  \/ \E ok \in Outcomes("meta") : WriteMeta(ok)
  \/ \E ok \in Outcomes("rename") : Rename(ok)
  \/ filestoreAck
  \/ filestoreAckLoss
  \/ SessionWrap
  \/ Restart
  \/ ScanEvict
  \/ ScanDone

Spec == Init /\ [][Next]_vars

-----------------------------------------------------------------------------
(* Properties                                                              *)

Live(k) == {e \in table : e.index = open[k]}

(* EVERY FILE ON DISK IS IN THE INDEX (fsindex.h), and the index names no  *)
(* file that is not there, wherever the power goes and however little      *)
(* memory the index gets, as long as NVS takes the indexes, no rename and  *)
(* no removal fails and no boot id moves on under an open file.  While an  *)
(* operation runs only the file it is about may differ.  Data files only:  *)
(* a .meta is LogHasMeta's matter.                                         *)
Settled == at \in {"idle", "retention", "index", "create", "scan"}
IndexMatchesDisk == sound /\ Settled => DataFiles(disk) = {DataName(e) : e \in table}

(* ... and whatever fails, which is false.                                 *)
IndexAlwaysMatches == Settled => DataFiles(disk) = {DataName(e) : e \in table}

(* A .log without a .meta must be impossible (closeActive).                *)
LogHasMeta ==
  \A n \in disk : n.ext = "log" => [n EXCEPT !.ext = "meta"] \in disk

(* An index is one file for ever: what is on disk was taken from the NVS   *)
(* counter, once, and the counter never gives it out again, whatever power *)
(* cuts happen around nextIndex(), as long as NVS takes every new value.   *)
IndexesUnique ==
  puts => /\ \A n \in disk : n.index < nvs.idx
          /\ \A m, n \in DataFiles(disk) : m.index = n.index => m = n

(* ... and when it does not: nextIndex() does not look at putULong's       *)
(* result, and the number is given out again at the next open.             *)
NumbersNeverReused ==
  \A m, n \in DataFiles(disk) : m.index = n.index => m = n

(* The file a writer holds open is on disk and retention leaves it alone.  *)
OpenFilesSafe ==
  \A k \in Kind : sound /\ open[k] # None =>
    /\ victim.index # open[k]
    /\ \E e \in Live(k) : e.active /\ e.kind = k
    /\ (at # "rename" => \E n \in disk : n.index = open[k] /\ n.ext = "part")

(* Nothing is destroyed in silence: every file that went before its ack is *)
(* in the NVS loss count, but for one per power cut at most, namely the    *)
(* one whose deletion the cut interrupted (noteUnackedEviction): for the   *)
(* limits, for room in the index at run time and for room in the boot      *)
(* scan alike, as long as no number is given out twice.  While `sound'     *)
(* holds it is there only once.                                            *)
Counted == nvs.lost + slips + (IF InFlight THEN 1 ELSE 0)
LossAccounted ==
  puts => /\ Cardinality(destroyed) <= Counted
          /\ sound => Cardinality(destroyed) = Counted

(* The warning for a destroyed file goes out only when the hub says it has *)
(* recorded the loss: no reboot and no later deletion silences it          *)
(* (filestoreWarn, filestoreAckLoss).                                      *)
Warn == nvs.lost > nvs.lostack
WarnStays == [][Warn /\ ~Warn' => nvs'.lostack > nvs.lostack /\ nvs'.lost = nvs.lost]_vars

(* The promise of Custody, with the directory as what is held: every step  *)
(* is one of Custody's, or none, as long as `sound' holds.                 *)
CustodyOf == INSTANCE Custody WITH
  issued <- nvs.idx,
  held <- {n.index : n \in DataFiles(disk)},
  watermark <- nvs.ack,
  owed <- IF InFlight THEN 1 ELSE 0,
  lost <- nvs.lost,
  lostack <- nvs.lostack
KeepsCustody ==
  CustodyOf!Init /\ [][sound' => [CustodyOf!Next]_(CustodyOf!vars)]_vars
=============================================================================
