--------------------------------- MODULE Stream ---------------------------------
(***************************************************************************)
(* The live stream to the hub: the table of the last payload of every CAN  *)
(* id, written by canTask (sniffer.cpp), and the datagrams loop() makes of *)
(* it while the board is on the hub's network (hubstream.cpp,              *)
(* hubchunk.cpp): a full snapshot on every connect, then the ids changed   *)
(* since the last one, and the hub's fast list more often.                 *)
(*                                                                         *)
(* A pass of hubstreamLoop reads the clock once, then copies rows under    *)
(* the table's lock, serialises and sends them; canTask runs in between.   *)
(* Times are ages and delays in ticks of the millisecond clock.  A         *)
(* watermark only moves when rows are sent, and the difference of two      *)
(* times is signed: an age counts up to Half, where the difference turns.  *)
(***************************************************************************)
EXTENDS Integers, Sequences, FiniteSets

CONSTANTS
  Ids,                       \* CAN ids, each with its frame format
  MaxIds,                    \* SNIFF_MAX_IDS
  MaxRecords,                \* HUB_MAX_RECORDS
  SnapPeriod, FastPeriod,    \* 1000 / HUB_SNAPSHOT_HZ, 1000 / HUB_FAST_HZ
  FastLists,                 \* the fast lists the hub and SELFTEST ask for
  MaxLate,                   \* bound: ticks within a pass, and between two
  Shapes,                    \* bound: ids whose length or change mask changes alone
  Half                       \* 2^31 ms, 24.8 days

ASSUME StreamAssumption ==
  /\ MaxLate \in Nat \ {0} /\ FastPeriod \in Nat /\ SnapPeriod \in Nat /\ Half \in Nat
  /\ MaxLate <= FastPeriod /\ FastPeriod <= SnapPeriod
  /\ Half >= SnapPeriod + 3 * MaxLate

VARIABLES
  slots,                     \* g_slots: [id, age], age being that of changedAtMs
  onHub, began, wantFull,    \* hublinkOnHub(), g_began, g_wantFull
  snap, fast,                \* ages of g_lastSnapMs and g_lastFastMs
  dueSnap, dueFast,          \* until g_nextSnapMs, g_nextFastMs
  fastIds,                   \* g_fastIds
  todo,                      \* what this pass still sends
  late,                      \* since this pass read the clock, or the last one ended
  skipped,                   \* history: a sequence number was used for a datagram
                             \* that was refused, since the last full snapshot
  stale,                     \* history: ids whose payload is in no list yet
  raced,                     \* history: of those, the ones whose change the watermark
                             \* hides: it came in the millisecond of the last
                             \* snapshot, after its copy, or Half after it
  lost,                      \* history: ids unchanged since the datagram that carried
                             \* them was refused
  odd,                       \* history: ids whose length or change mask is in no list
                             \* yet, though the payload is
  asked                      \* history: ids put on the fast list and not listed since

table == <<slots, stale, raced, lost, odd>>
stream == <<onHub, began, wantFull>>
times == <<snap, fast, dueSnap, dueFast>>
pass == <<todo, late>>
streamVars ==
  <<slots, onHub, began, wantFull, snap, fast, dueSnap, dueFast, fastIds, todo, late, stale, skipped, raced,
    lost, odd, asked>>

Zero == Half + 1             \* a watermark of 0: every row is newer

StreamInit ==
  /\ slots = <<>> /\ onHub = FALSE /\ began = FALSE /\ wantFull = TRUE
  /\ snap = Half /\ fast = Half /\ dueSnap = 0 /\ dueFast = 0
  /\ fastIds = {} /\ todo = <<>> /\ late = 0
  /\ stale = {} /\ skipped = FALSE /\ raced = {} /\ lost = {} /\ odd = {} /\ asked = {}

----------------------------------------------------------------------------
(* sniffer.cpp                                                              *)

Known == {slots[i].id : i \in DOMAIN slots}
Slot(id) == CHOOSE i \in DOMAIN slots : slots[i].id = id

(* Changed strictly after the watermark, and less than Half after it.       *)
Newer(row, mark) == row.age < mark /\ (mark = Zero \/ mark - row.age < Half)

Full == Zero
snifferRowsChangedSince(mark) == {i \in DOMAIN slots : Newer(slots[i], mark)}
snifferRowsForIds(ids, mark) == {i \in snifferRowsChangedSince(mark) : slots[i].id \in ids}

(* A frame with a payload, on canTask, that is new or differs from the last *)
(* one.  When the table is full a new id is only counted.                   *)
snifferNote(id) ==
  LET row == [id |-> id, age |-> 0]
  IN  /\ Len(slots) = MaxIds => id \in Known
      /\ slots' = IF id \in Known THEN [slots EXCEPT ![Slot(id)] = row] ELSE Append(slots, row)
      /\ stale' = stale \cup {id}
      /\ raced' = IF wantFull \/ Newer(row, snap) THEN raced \ {id} ELSE raced \cup {id}
      /\ lost' = lost \ {id} /\ odd' = odd \ {id}
      /\ UNCHANGED <<stream, times, fastIds, pass, skipped, asked>>

(* A frame shorter or longer than the last one whose bytes are the same: the *)
(* row has another length, and is not newer for it.                         *)
Resized(id) ==
  /\ id \in Known \cap Shapes
  /\ odd' = odd \cup ({id} \ stale)
  /\ UNCHANGED <<slots, stale, raced, lost, stream, times, fastIds, pass, skipped, asked>>

(* The key 'm' and the web page: the masks are cleared, no row is newer.    *)
snifferClearMarks ==
  /\ todo = <<>> /\ odd' = (Known \cap Shapes) \ stale
  /\ UNCHANGED <<slots, stale, raced, lost, stream, times, fastIds, pass, skipped, asked>>

snifferReset == slots' = <<>> /\ stale' = {} /\ raced' = {} /\ lost' = {} /\ odd' = {} /\ asked' = {}

----------------------------------------------------------------------------
(* hubchunk.cpp, hubstream.cpp                                              *)

(* hubChunkRows: a datagram for every MaxRecords rows, in their order; out  *)
(* are the rows of those that went.  A refused beginPacket() ends the list,  *)
(* a refused endPacket() costs its own datagram only.                       *)
Before(i, rows) == Cardinality({j \in rows : j < i})
Sent(out, rows) ==
  \A i, j \in rows : Before(i, rows) \div MaxRecords = Before(j, rows) \div MaxRecords
                      => (i \in out <=> j \in out)

hubChunkRows(out, rows, full) ==
  Sent(out, rows) /\ skipped' = (out # rows \/ (skipped /\ ~full))

(* What was refused is not sent again: the watermark moves on.              *)
sendRows(rows, full) ==
  \E out \in SUBSET rows :
    LET gone == {slots[i].id : i \in out}
        listed == {slots[i].id : i \in rows}
    IN  /\ hubChunkRows(out, rows, full)
        /\ stale' = stale \ listed
        /\ raced' = raced \ listed
        /\ lost' = (lost \cup listed) \ gone
        /\ odd' = odd \ listed
        /\ asked' = asked \ listed

Nothing == UNCHANGED <<stale, skipped, raced, lost, odd, asked>>

(* g_fastIds is cut to HUB_FAST_MAX_IDS, which FastLists keep to.           *)
hubstreamSetFastIds(list) ==
  /\ fastIds' = list /\ asked' = list \cap Known
  /\ IF list = {} THEN UNCHANGED <<fast, dueFast>> ELSE fast' = Zero /\ dueFast' = 0

(* The times and what the hub was told, which a wanted full snapshot sets   *)
(* before they are read again.                                              *)
Forget ==
  /\ snap' = Half /\ fast' = Half /\ dueSnap' = 0 /\ dueFast' = 0
  /\ stale' = Known /\ raced' = {} /\ lost' = {} /\ odd' = {} /\ skipped' = FALSE

hubstreamRequestFullSnapshot == wantFull' = TRUE /\ Forget

(* A pass off the hub's network.                                            *)
OffHub ==
  /\ todo = <<>> /\ ~onHub
  /\ hubstreamRequestFullSnapshot
  /\ began' = FALSE /\ asked' = {} /\ late' = 0
  /\ UNCHANGED <<slots, onHub, fastIds, todo>>

FastDue == fastIds # {} /\ dueFast = 0
SnapDue == dueSnap = 0

(* Mutant: a pass that serves the fast list sends no snapshot.              *)
Plan_FastFirst ==
  IF wantFull THEN <<"full">>
  ELSE IF FastDue THEN <<"fast">> ELSE IF SnapDue THEN <<"snap">> ELSE <<>>

(* What the pass will send: the clock is read here, once.                   *)
Plan ==
  IF wantFull THEN <<"full">>
  ELSE (IF FastDue THEN <<"fast">> ELSE <<>>) \o (IF SnapDue THEN <<"snap">> ELSE <<>>)

BeginPass ==
  /\ todo = <<>> /\ onHub
  /\ began' = TRUE /\ todo' = Plan /\ late' = 0
  /\ UNCHANGED <<table, onHub, wantFull, times, fastIds, skipped, asked>>

Doing(what) == todo # <<>> /\ Head(todo) = what
Done == todo' = Tail(todo) /\ late' = IF Tail(todo) = <<>> THEN 0 ELSE late

(* The watermark is the time the pass read.                                 *)
Now == late

SendFull ==
  /\ Doing("full") /\ Done
  /\ LET rows == snifferRowsChangedSince(Full)
     IN  IF rows = {} THEN UNCHANGED <<wantFull, times>> /\ Nothing
         ELSE /\ sendRows(rows, TRUE)
              /\ wantFull' = FALSE /\ snap' = Now /\ fast' = Now
              /\ dueSnap' = SnapPeriod - late /\ dueFast' = FastPeriod - late
  /\ UNCHANGED <<slots, onHub, began, fastIds>>

(* Mutant: what was sent fast counts as sent in the snapshot.               *)
SendFast_MovesBoth ==
  /\ Doing("fast") /\ Done
  /\ dueFast' = FastPeriod - late
  /\ LET rows == snifferRowsForIds(fastIds, fast)
     IN  IF rows = {} THEN UNCHANGED <<fast, snap>> /\ Nothing
         ELSE sendRows(rows, FALSE) /\ fast' = Now /\ snap' = Now
  /\ UNCHANGED <<slots, stream, dueSnap, fastIds>>

SendFast ==
  /\ Doing("fast") /\ Done
  /\ dueFast' = FastPeriod - late
  /\ LET rows == snifferRowsForIds(fastIds, fast)
     IN  IF rows = {} THEN UNCHANGED fast /\ Nothing
         ELSE sendRows(rows, FALSE) /\ fast' = Now
  /\ UNCHANGED <<slots, stream, snap, dueSnap, fastIds>>

SendSnapshot ==
  /\ Doing("snap") /\ Done
  /\ dueSnap' = SnapPeriod - late
  /\ LET rows == snifferRowsChangedSince(snap)
     IN  IF rows = {} THEN UNCHANGED snap /\ Nothing
         ELSE sendRows(rows, FALSE) /\ snap' = Now
  /\ UNCHANGED <<slots, stream, fast, dueFast, fastIds>>

----------------------------------------------------------------------------
(* The rest of loop(), before a pass.                                       *)

AskFast ==
  /\ todo = <<>> /\ \E list \in FastLists : hubstreamSetFastIds(list)
  /\ UNCHANGED <<table, stream, snap, dueSnap, pass, skipped>>

(* The key 'r' forgets the table.                                           *)
ResetTable ==
  /\ todo = <<>> /\ snifferReset
  /\ UNCHANGED <<stream, times, fastIds, pass, skipped>>

(* applyMode forgets it too and sets SELFTEST's list or none; a driver that *)
(* does not start ends it before that.                                      *)
applyMode ==
  /\ todo = <<>> /\ snifferReset
  /\ \E list \in FastLists :
       /\ fastIds' = list
       /\ IF list = {} THEN UNCHANGED <<fast, dueFast>> ELSE fast' = Zero /\ dueFast' = 0
  /\ UNCHANGED <<stream, snap, dueSnap, pass, skipped>>

(* sessionTick: the clock wrapped and a new boot_id starts.                 *)
sessionTick ==
  /\ todo = <<>> /\ ~wantFull /\ hubstreamRequestFullSnapshot
  /\ UNCHANGED <<slots, onHub, began, fastIds, pass, asked>>

(* hublink.cpp takes several passes to join again.                          *)
LinkChanges ==
  /\ todo = <<>> /\ onHub' = ~onHub
  /\ onHub' => ~began
  /\ Forget /\ asked' = {}
  /\ UNCHANGED <<slots, began, wantFull, fastIds, pass>>

Later(age) == IF age < Half THEN age + 1 ELSE age
Sooner(delay) == IF delay > 0 THEN delay - 1 ELSE 0

(* A row no watermark will find newer again stops at Half.                  *)
Aged(row) ==
  LET live == Newer(row, snap) \/ (row.id \in fastIds /\ Newer(row, fast))
  IN  [row EXCEPT !.age = IF live THEN Later(@) ELSE Half]

ClockTicks ==
  /\ late < MaxLate /\ late' = late + 1
  /\ slots' = [i \in DOMAIN slots |-> Aged(slots[i])]
  /\ snap' = Later(snap)
  /\ fast' = IF fastIds = {} THEN Half ELSE Later(fast)
  /\ dueSnap' = Sooner(dueSnap) /\ dueFast' = Sooner(dueFast)
  /\ UNCHANGED <<stream, fastIds, todo, stale, skipped, raced, lost, odd, asked>>

hubstreamLoop == OffHub \/ BeginPass \/ SendFull \/ SendFast \/ SendSnapshot

StreamNext ==
  \/ \E id \in Ids : snifferNote(id) \/ Resized(id)
  \/ snifferClearMarks
  \/ hubstreamLoop
  \/ AskFast \/ ResetTable \/ applyMode \/ sessionTick \/ LinkChanges
  \/ ClockTicks

StreamSpec == StreamInit /\ [][StreamNext]_streamVars

(* loop() and the clock go on.                                              *)
FairStreamSpec == StreamSpec /\ WF_streamVars(hubstreamLoop) /\ WF_streamVars(ClockTicks)

----------------------------------------------------------------------------
(* A hub that has every sequence number since a full snapshot has the       *)
(* payloads of the table: what the last datagram said of an id is what it   *)
(* is, or the next snapshot will carry it, whatever canTask wrote between   *)
(* the clock and the copy, and a refused datagram leaves a gap in the       *)
(* numbers.  But for a change in the very millisecond of a snapshot, behind *)
(* its copy, or more than Half after the last one that had rows.            *)
HubHasTable ==
  onHub /\ ~wantFull /\ ~skipped =>
    \A id \in stale \cup lost : id \in raced \/ Newer(slots[Slot(id)], snap)

(* However busy the fast list is and whatever the transport refuses, a      *)
(* change is put in a list for the hub in the end, but for those above, and *)
(* so is an id the hub has just put on the fast list, though it sits still  *)
(* (hubstreamSetFastIds).  Whether the datagram went is another matter.     *)
Unlisted(id) == onHub /\ id \in stale \ raced
Asked(id) == onHub /\ id \in asked
NothingStarves ==
  \A id \in Ids : (Unlisted(id) ~> ~Unlisted(id)) /\ (Asked(id) ~> ~Asked(id))

----------------------------------------------------------------------------
(* What a reader of hubstream.cpp may expect and does not hold: each is     *)
(* violated (README, section 8).                                            *)

(* HubHasTable without its exception                                        *)
HubHasAll == onHub /\ ~wantFull /\ ~skipped => \A id \in stale : Newer(slots[Slot(id)], snap)

(* ... and of the whole record, its length and its change mask too          *)
HubHasRecord == onHub /\ ~wantFull /\ ~skipped => \A id \in odd : Newer(slots[Slot(id)], snap)

(* A row whose datagram was refused is sent again in the end                *)
Refused(id) == onHub /\ id \in lost
RefusedIsRepeated == \A id \in Ids : Refused(id) ~> ~Refused(id)
=============================================================================
