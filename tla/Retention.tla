------------------------------ MODULE Retention ------------------------------
(***************************************************************************)
(* Retention of the recorder's files: fsEnforceRetention() of fsindex.cpp, *)
(* one eviction per step, and what filestore.cpp does to the index between *)
(* two calls (open, write, close, hydrate, acknowledge, reboot).           *)
(*                                                                         *)
(* A call is started with a number of slots to keep free: 1 by openActive, *)
(* which then adds the new file, 0 by the 5 s timer, the drain pass and    *)
(* the hub's ack.  At most Budget files are deleted per call.              *)
(*                                                                         *)
(* The boot scan's table may be larger than the cap: images written before *)
(* the cap existed held hundreds of files (fsindex.h).                     *)
(***************************************************************************)
EXTENDS FsPolicy, Sequences

CONSTANTS
  MaxFiles,       \* FS_MAX_FILES
  TierACap,       \* 40% of the partition
  UsedLimit,      \* 90% of the partition
  Budget,         \* FS_EVICT_PER_PASS
  FileMax,        \* FS_FILE_MAX_BYTES, in blocks
  MaxIndex,       \* bound: indexes the model may hand out
  BootTables      \* the tables a boot scan may return

ASSUME RetentionAssumption ==
  /\ MaxFiles \in Nat
  /\ Budget \in Nat \ {0}
  /\ TierACap \in Nat
  /\ UsedLimit \in Nat
  /\ FileMax \in Nat
  /\ MaxIndex \in Nat
  /\ TierACap <= UsedLimit
  /\ MaxFiles >= Cardinality(Kind)     \* 96 against three writers

Entry == [index : Nat, kind : Kind, bytes : Nat,
          closed : BOOLEAN, active : BOOLEAN, hydrated : BOOLEAN]

UniqueIndexes(t) == \A e, f \in t : e.index = f.index => e = f

ASSUME BootTablesAssumption ==
  \A t \in BootTables :
    /\ t \subseteq Entry
    /\ IsFiniteSet(t)
    /\ UniqueIndexes(t)
    /\ \A e \in t : ~e.active /\ e.index <= MaxIndex

VARIABLES
  table,          \* g_tab: the index of files
  ackedThrough,   \* g_st.ackedThrough, -1 until the hub acks
  nextIndex,      \* g_st.nextIndex
  phase,          \* where the current call is
  reserve,        \* its slots to keep free
  opening,        \* the kind openActive will open when the call returns
  evicted,        \* r.evicted
  bootCount       \* history: files the boot scan found

vars == <<table, ackedThrough, nextIndex, phase, reserve, opening, evicted, bootCount>>

Phase == {"idle", "leftovers", "count", "tierA", "used"}

\* fsCfg: the count limit leaves `reserve' slots.
countLimit == IF MaxFiles > reserve THEN MaxFiles - reserve ELSE 0
usedBytes == BytesOf(table)

TypeOK ==
  /\ table \subseteq Entry
  /\ IsFiniteSet(table)
  /\ ackedThrough \in Int
  /\ nextIndex \in Nat
  /\ phase \in Phase
  /\ reserve \in {0, 1}
  /\ opening \in Kind \cup {"none"}
  /\ evicted \in Nat
  /\ bootCount \in Nat

ScanResult(t) ==
  /\ table = t
  /\ bootCount = Cardinality(t)
  /\ phase = "idle" /\ reserve = 0 /\ opening = "none"
  /\ evicted = 0

Init ==
  /\ ackedThrough = -1
  /\ \E t \in BootTables : ScanResult(t)
  /\ nextIndex \in 0 .. MaxIndex + 1
  /\ \A e \in table : e.index < nextIndex

-----------------------------------------------------------------------------
(* fsEnforceRetention                                                      *)

StartCall(r) ==
  /\ phase = "idle"
  /\ phase' = "leftovers"
  /\ reserve' = r
  /\ evicted' = 0
  /\ UNCHANGED <<table, ackedThrough, nextIndex, bootCount>>

\* The 5 s timer, the pass after a call that left work, and handleAck.
TimerCall == StartCall(0) /\ opening' = "none"

\* openActive: one slot is reserved for the file it is about to create.
OpenCall(kind) ==
  /\ nextIndex <= MaxIndex
  /\ \A e \in OpenFiles(table) : e.kind # kind    \* one writer per kind
  /\ StartCall(1)
  /\ opening' = kind

evictAt(victim) ==
  /\ table' = table \ {victim}
  /\ evicted' = evicted + 1
  /\ UNCHANGED <<phase, reserve, opening>>

OutOfBudget == evicted >= Budget

\* What the phase found to do, and the file it would delete.
WorkLeft ==
  CASE phase = "leftovers" -> AckedLeftovers(table, ackedThrough) # {}
    [] phase = "count"     -> Cardinality(table) > countLimit
    [] phase = "tierA"     -> fsTierABytes(table) > TierACap
    [] phase = "used"      -> usedBytes > UsedLimit
    [] OTHER               -> FALSE

Victim ==
  CASE phase = "leftovers" -> FirstOf(AckedLeftovers(table, ackedThrough), NoVictim)
    [] phase = "tierA"     -> fsPickTierAVictim(table, ackedThrough)
    [] OTHER               -> fsPickVictim(table, ackedThrough)

\* One turn of the loop that deletes a file.
Evict ==
  /\ WorkLeft /\ ~OutOfBudget
  /\ Victim # NoVictim
  /\ evictAt(Victim)
  /\ UNCHANGED <<ackedThrough, nextIndex, bootCount>>

NextPhase ==
  CASE phase = "leftovers" -> "count"
    [] phase = "count"     -> "tierA"
    [] phase = "tierA"     -> "used"
    [] OTHER               -> "return"

\* The file openActive creates once the call has returned.
Opened == [index |-> nextIndex, kind |-> opening, bytes |-> 0,
           closed |-> FALSE, active |-> TRUE, hydrated |-> TRUE]

\* The call returns; under openActive the new file joins the index.
Return ==
  /\ phase' = "idle"
  /\ reserve' = 0 /\ opening' = "none" /\ evicted' = 0
  /\ IF opening = "none"
       THEN UNCHANGED <<table, nextIndex>>
       ELSE table' = table \cup {Opened} /\ nextIndex' = nextIndex + 1
  /\ UNCHANGED <<ackedThrough, bootCount>>

\* The budget is spent with work left (r.more: the next pass calls again).
StopOnBudget ==
  /\ WorkLeft /\ OutOfBudget
  /\ Return

\* Nothing left to do in this phase, or nothing that may be deleted
\* (r.stuck, which is only logged).
PhaseDone ==
  /\ phase # "idle"
  /\ ~WorkLeft \/ (~OutOfBudget /\ Victim = NoVictim)
  /\ IF NextPhase = "return"
       THEN Return
       ELSE /\ phase' = NextPhase
            /\ UNCHANGED <<table, ackedThrough, nextIndex, reserve, opening,
                           evicted, bootCount>>

-----------------------------------------------------------------------------
(* What happens to the index between two calls: all of it runs on the      *)
(* firmware's loop task, so no step of it falls inside a call.             *)

Replace(e, f) == table' = (table \ {e}) \cup {f}

Between ==
  /\ phase = "idle"
  /\ UNCHANGED <<nextIndex, phase, reserve, opening, evicted, bootCount>>

Write ==
  /\ \E e \in OpenFiles(table) :
       e.bytes < FileMax /\ Replace(e, [e EXCEPT !.bytes = @ + 1])
  /\ UNCHANGED ackedThrough
  /\ Between

Close ==
  /\ \E e \in OpenFiles(table) :
       Replace(e, [e EXCEPT !.closed = TRUE, !.active = FALSE])
  /\ UNCHANGED ackedThrough
  /\ Between

Hydrate ==
  /\ \E e \in table : ~e.hydrated /\ Replace(e, [e EXCEPT !.hydrated = TRUE])
  /\ UNCHANGED ackedThrough
  /\ Between

\* The watermark only moves forward, to whatever number the hub names, given
\* out or not: a file opened under it is acked from the start.  AckBound keeps
\* it finite.
AckBound == MaxIndex
filestoreAck ==
  /\ \E n \in ackedThrough + 1 .. AckBound : ackedThrough' = n
  /\ UNCHANGED table
  /\ Between

\* A reset at any moment: open files become leftovers and every size is
\* read again.
Reboot ==
  /\ table' = {[e EXCEPT !.active = FALSE, !.hydrated = FALSE] : e \in table}
  /\ bootCount' = Cardinality(table)
  /\ phase' = "idle" /\ reserve' = 0 /\ opening' = "none"
  /\ evicted' = 0
  /\ UNCHANGED <<ackedThrough, nextIndex>>

Enforce == Evict \/ StopOnBudget \/ PhaseDone

Next ==
  \/ TimerCall
  \/ \E kind \in Kind : OpenCall(kind)
  \/ Evict
  \/ StopOnBudget
  \/ PhaseDone
  \/ Write
  \/ Close
  \/ Hydrate
  \/ filestoreAck
  \/ Reboot

Spec == Init /\ [][Next]_vars

(* loop() runs filestoreTick for ever, so a started call goes on and the   *)
(* timer comes round again.                                                *)
Fairness == WF_vars(Enforce) /\ WF_vars(TimerCall)
FairSpec == Spec /\ Fairness

-----------------------------------------------------------------------------
(* Properties                                                              *)

(* The number of files never exceeds the cap, or what the boot scan found  *)
(* if that was more: every call that precedes an open makes room for it,   *)
(* even when its budget runs out (openActive, fsEnforceRetention phase 1). *)
FileBound == IF bootCount > MaxFiles THEN bootCount ELSE MaxFiles
CountBounded == Cardinality(table) <= FileBound

(* A later phase of a call cannot break what an earlier one established:   *)
(* once past a phase its limit holds, or nothing deletable is left.        *)
PassedLimitsHold ==
  /\ phase \in {"count", "tierA", "used"} => AckedLeftovers(table, ackedThrough) = {}
  /\ phase \in {"tierA", "used"} => Cardinality(table) <= countLimit

(* No deletion without a reason: the file is an acked crash leftover, or a *)
(* limit is exceeded by what is really on disk.  The tier A cap works on   *)
(* the sizes read so far, which must never make it fire early.             *)
Deleted == {e \in table : \A f \in table' : f.index # e.index}

NoNeedlessDeletion ==
  [][\A e \in Deleted :
       \/ isLeftover(e) /\ isAcked(e, ackedThrough)
       \/ Cardinality(table) > countLimit
       \/ fsTierForKind(e.kind) = "A" /\ BytesOf(OfTier(table, "A")) > TierACap
       \/ usedBytes > UsedLimit]_vars

(* The long record goes last, whichever limit is being enforced: a file    *)
(* the hub has not acked is destroyed only when no acked file of its tier  *)
(* could go instead, and an unacked snapshot or bookend only when no acked *)
(* file and no lower tier is left to delete.  Open files are never touched.*)
Spares(e, f) ==          \* f, deletable, must go before the unacked e
  \/ isAcked(f, ackedThrough)
       /\ (fsTierForKind(e.kind) = fsTierForKind(f.kind) \/ fsTierForKind(e.kind) # "A")
  \/ fsTierForKind(f.kind) = "A" /\ fsTierForKind(e.kind) \in {"B", "C"}
  \/ fsTierForKind(f.kind) = "B" /\ fsTierForKind(e.kind) = "C"
  \/ fsTierForKind(f.kind) = fsTierForKind(e.kind) /\ f.index < e.index

LongRecordLast ==
  [][\A e \in Deleted :
       /\ ~e.active
       /\ ~isAcked(e, ackedThrough) =>
            \A f \in Evictable(table) \ {e} : ~Spares(e, f)]_vars

(* A backlog of any kind is worked off over the following passes, as long  *)
(* as the board stops resetting.                                           *)
OverLimits ==
  \/ AckedLeftovers(table, ackedThrough) # {}
  \/ Cardinality(table) > MaxFiles
  \/ fsTierABytes(table) > TierACap /\ OfTier(Evictable(table), "A") # {}
  \/ usedBytes > UsedLimit /\ Evictable(table) # {}

BacklogDrains == <>[][~Reboot]_vars => (OverLimits ~> ~OverLimits)
=============================================================================
