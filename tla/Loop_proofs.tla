------------------------------ MODULE Loop_proofs ------------------------------
(***************************************************************************)
(* Proofs about two stages of the loop task.  Retention, for every cap,    *)
(* budget and boot image.  Poll, for every car, plan, answer and time: any *)
(* number of responders, entries and frames, any stall within the margin.  *)
(***************************************************************************)
EXTENDS Retention, Poll, FsPolicy_proofs, SequenceTheorems, WellFoundedInduction

(* Files the current boot writes, one per kind; the kind about to be       *)
(* opened is none of theirs.                                               *)
Writers ==
  /\ \A e \in table : e.active => ~e.closed
  /\ \A e, f \in table : e.active /\ f.active /\ e.kind = f.kind => e = f
  /\ \A e \in table : e.active => e.kind # opening

Indexes ==
  /\ UniqueIndexes(table)
  /\ \A e \in table : e.index < nextIndex

Calls ==
  /\ phase = "idle" => opening = "none"
  /\ reserve = IF opening = "none" THEN 0 ELSE 1

(* Once a call has deleted a file, there is room for the one it precedes.  *)
RoomMade ==
  Cardinality(table) + (IF phase # "idle" /\ evicted > 0 THEN 1 ELSE 0) <= FileBound

IInv == TypeOK /\ Writers /\ Indexes /\ Calls /\ RoomMade /\ PassedLimitsHold

LEMMA KindFinite == IsFiniteSet(Kind) /\ Cardinality(Kind) = 3
<1> DEFINE K1 == {"changes"}
           K2 == K1 \cup {"snapshot"}
           K3 == K2 \cup {"bookend"}
<1>1. IsFiniteSet(K1) /\ Cardinality(K1) = 1
  BY FS_Singleton
<1>2. IsFiniteSet(K2) /\ Cardinality(K2) = 2
  <2>1. "snapshot" \notin K1
    OBVIOUS
  <2> HIDE DEF K1
  <2> QED
    BY <1>1, <2>1, FS_AddElement
<1>3. IsFiniteSet(K3) /\ Cardinality(K3) = 3
  <2>1. "bookend" \notin K2
    OBVIOUS
  <2> HIDE DEF K2
  <2> QED
    BY <1>2, <2>1, FS_AddElement
<1>4. Kind = K3
  BY DEF Kind
<1> QED
  BY <1>3, <1>4

(* A table of nothing but open files is as small as the set of kinds, and  *)
(* smaller by one while one more is about to be opened.                    *)
LEMMA OnlyWritersFit ==
  ASSUME IInv, Evictable(table) = {}
  PROVE  Cardinality(table) <= MaxFiles - reserve
<1> DEFINE Free == Kind \ {opening}
           f == [e \in table |-> e.kind]
<1>1. \A e \in table : e.active
  BY DEF Evictable
<1>2. f \in Injection(table, Free)
  <2>1. f \in [table -> Free]
    BY <1>1 DEF IInv, TypeOK, Entry, Writers
  <2>2. \A a, b \in table : f[a] = f[b] => a = b
    BY <1>1 DEF IInv, Writers
  <2> QED
    BY <2>1, <2>2 DEF Injection, IsInjective
<1>3. IsFiniteSet(Free) /\ Cardinality(Free) = 3 - reserve
  <2>1. CASE opening = "none"
    <3>1. Free = Kind
      BY <2>1 DEF Kind
    <3> QED
      BY <2>1, <3>1, KindFinite DEF IInv, Calls
  <2>2. CASE opening # "none"
    <3>1. opening \in Kind /\ reserve = 1
      BY <2>2 DEF IInv, TypeOK, Calls
    <3> QED
      BY <3>1, KindFinite, FS_RemoveElement
  <2> QED
    BY <2>1, <2>2
<1>4. Cardinality(table) <= Cardinality(Free)
  <2> HIDE DEF f, Free
  <2> QED
    BY <1>2, <1>3, FS_Injection
<1>5. Cardinality(table) \in Nat /\ reserve \in {0, 1}
  BY FS_CardinalityType DEF IInv, TypeOK
<1> QED
  BY <1>3, <1>4, <1>5, KindFinite, RetentionAssumption

LEMMA TableIsFiles == TypeOK => Files(table)
BY DEF TypeOK, Entry, Files

LEMMA CountLimitIs ==
  ASSUME TypeOK
  PROVE  countLimit = MaxFiles - reserve /\ countLimit \in Nat
BY KindFinite, RetentionAssumption DEF TypeOK, countLimit

(* The file a call deletes is one nobody writes, whatever the phase; in    *)
(* the phase of the leftovers, it is one of them.                          *)
LEMMA VictimIsDeletable ==
  ASSUME TypeOK, phase # "idle", WorkLeft, Victim # NoVictim
  PROVE  /\ Victim \in table /\ ~Victim.active
         /\ ~isAcked(Victim, ackedThrough) =>
              \A f \in Evictable(table) \ {Victim} : ~Spares(Victim, f)
<1> DEFINE L == AckedLeftovers(table, ackedThrough)
<1>1. Files(table)
  BY TableIsFiles
<1>2. /\ IsFiniteSet(L) /\ \A e \in L : e.index \in Nat
      /\ \A e \in L : e \in table /\ ~e.active /\ isAcked(e, ackedThrough)
  BY <1>1, FS_Subset DEF Files, AckedLeftovers, Acked, isLeftover
<1>3. CASE phase = "leftovers"
  <2>1. Victim = FirstOf(L, NoVictim)
    BY <1>3 DEF Victim
  <2>2. L # {}
    BY <1>3 DEF WorkLeft
  <2>3. Victim \in L
    <3> HIDE DEF L
    <3> QED
      BY <1>2, <2>1, <2>2, FirstOfIsOldest
  <2> QED
    BY <1>2, <2>3
<1>4. CASE phase = "tierA"
  <2>1. Victim = fsPickTierAVictim(table, ackedThrough)
    BY <1>4 DEF Victim
  <2>2. /\ Victim \in OfTier(Evictable(table), "A")
        /\ ~isAcked(Victim, ackedThrough) => \A f \in OfTier(Evictable(table), "A") :
             ~isAcked(f, ackedThrough) /\ Victim.index <= f.index
    BY <1>1, <2>1, PickTierAVictimChoice
  <2>3. \A f \in Evictable(table) : fsTierForKind(f.kind) = "A" => f \in OfTier(Evictable(table), "A")
    BY DEF OfTier
  <2>4. Victim \in table /\ ~Victim.active /\ fsTierForKind(Victim.kind) = "A"
    BY <2>2 DEF OfTier, Evictable
  <2>5. \A f \in Evictable(table) : f.index \in Nat
    BY <1>1 DEF Files, Evictable
  <2> QED
    BY <2>2, <2>3, <2>4, <2>5 DEF Spares, OfTier
<1>5. CASE phase \in {"count", "used"}
  <2>1. Victim = fsPickVictim(table, ackedThrough)
    BY <1>5 DEF Victim
  <2>2. Evictable(table) # {}
    BY <1>1, <2>1, PickVictimChoice
  <2>3. /\ Victim \in Evictable(table)
        /\ ~isAcked(Victim, ackedThrough) => \A f \in Evictable(table) :
             /\ ~isAcked(f, ackedThrough)
             /\ fsTierForKind(Victim.kind) = fsTierForKind(f.kind) => Victim.index <= f.index
             /\ fsTierForKind(f.kind) = "A" => fsTierForKind(Victim.kind) = "A"
             /\ fsTierForKind(f.kind) = "B" => fsTierForKind(Victim.kind) \in {"A", "B"}
    BY <1>1, <2>1, <2>2, PickVictimChoice
  <2>4. Victim \in table /\ ~Victim.active
    BY <2>3 DEF Evictable
  <2>5. \A f \in Evictable(table) : f.index \in Nat
    BY <1>1 DEF Files, Evictable
  <2> QED
    BY <2>3, <2>4, <2>5 DEF Spares
<1> QED
  BY <1>3, <1>4, <1>5 DEF TypeOK, Phase

-----------------------------------------------------------------------------
LEMMA InitInv == Init => IInv
<1> SUFFICES ASSUME Init PROVE IInv
  OBVIOUS
<1>1. /\ table \subseteq Entry /\ IsFiniteSet(table) /\ UniqueIndexes(table)
      /\ \A e \in table : ~e.active
  BY BootTablesAssumption DEF Init, ScanResult
<1>2. Cardinality(table) \in Nat
  BY <1>1, FS_CardinalityType
<1>3. TypeOK
  BY <1>1, <1>2, RetentionAssumption DEF Init, ScanResult, TypeOK, Phase
<1>4. RoomMade
  BY <1>2, RetentionAssumption DEF Init, ScanResult, RoomMade, FileBound
<1> QED
  BY <1>1, <1>3, <1>4
  DEF Init, ScanResult, IInv, Writers, Indexes, Calls, PassedLimitsHold

(* Starting a call touches no file.                                        *)
LEMMA StartInv ==
  ASSUME IInv, TimerCall \/ \E kind \in Kind : OpenCall(kind)
  PROVE  IInv'
<1> USE DEF TimerCall, OpenCall, StartCall
<1>1. TypeOK'
  BY DEF IInv, TypeOK, Phase
<1>2. Calls'
  BY DEF IInv, Calls, TypeOK, Kind
<1>3. Writers'
  BY DEF IInv, Writers, TypeOK, Entry, Kind, OpenFiles
<1>4. Indexes'
  BY DEF IInv, Indexes, UniqueIndexes
<1>5. RoomMade' /\ PassedLimitsHold'
  <2>1. Cardinality(table) \in Nat
    BY FS_CardinalityType DEF IInv, TypeOK
  <2> QED
    BY <2>1 DEF IInv, TypeOK, Calls, RoomMade, FileBound, PassedLimitsHold
<1> QED
  BY <1>1, <1>2, <1>3, <1>4, <1>5 DEF IInv

(* A deletion frees one place and cannot undo an earlier phase.            *)
LEMMA EvictInv ==
  ASSUME IInv, Evict
  PROVE  IInv'
<1>1. phase # "idle"
  BY DEF Evict, WorkLeft
<1>2. Victim \in table /\ table' = table \ {Victim} /\ evicted' = evicted + 1
  BY <1>1, VictimIsDeletable DEF IInv, Evict, evictAt
<1>3. /\ UNCHANGED <<phase, reserve, opening, ackedThrough, nextIndex, bootCount>>
      /\ phase # "idle"
  BY <1>1 DEF Evict, evictAt
<1>4. /\ IsFiniteSet(table') /\ Cardinality(table') = Cardinality(table) - 1
      /\ Cardinality(table) \in Nat /\ Cardinality(table') \in Nat
  <2>1. IsFiniteSet(table)
    BY DEF IInv, TypeOK
  <2> QED
    BY <1>2, <2>1, FS_RemoveElement, FS_CardinalityType
<1>5. TypeOK'
  BY <1>2, <1>3, <1>4 DEF IInv, TypeOK
<1>6. Writers' /\ Indexes' /\ Calls'
  BY <1>2, <1>3 DEF IInv, Writers, Indexes, UniqueIndexes, Calls
<1>7. RoomMade'
  BY <1>2, <1>3, <1>4, RetentionAssumption DEF IInv, TypeOK, RoomMade, FileBound
<1>8. PassedLimitsHold'
  <2>1. AckedLeftovers(table, ackedThrough)' \subseteq AckedLeftovers(table, ackedThrough)
    BY <1>2, <1>3 DEF AckedLeftovers, Acked
  <2>2. countLimit' = countLimit /\ countLimit \in Nat
    BY <1>3, CountLimitIs DEF countLimit, IInv
  <2> QED
    BY <1>3, <1>4, <2>1, <2>2 DEF IInv, PassedLimitsHold
<1> QED
  BY <1>5, <1>6, <1>7, <1>8 DEF IInv

(* A call that has made room, or found the count under its limit, returns  *)
(* and its file joins the index within the bound.                          *)
LEMMA ReturnInv ==
  ASSUME IInv, phase # "idle", Return,
         evicted > 0 \/ Cardinality(table) <= countLimit
  PROVE  IInv'
<1>1. IsFiniteSet(table) /\ Cardinality(table) \in Nat
  BY FS_CardinalityType DEF IInv, TypeOK
<1>2. CASE opening = "none"
  <2>1. UNCHANGED <<table, nextIndex, ackedThrough, bootCount, opening>>
    BY <1>2 DEF Return
  <2>2. TypeOK'
    BY <2>1 DEF IInv, TypeOK, Phase, Return
  <2>3. Writers' /\ Indexes' /\ Calls' /\ PassedLimitsHold'
    BY <2>1, <1>2 DEF IInv, Writers, Indexes, UniqueIndexes, Calls, PassedLimitsHold, Return
  <2>4. RoomMade'
    BY <1>1, <2>1, RetentionAssumption DEF IInv, TypeOK, RoomMade, FileBound, Return
  <2> QED
    BY <2>2, <2>3, <2>4 DEF IInv
<1>3. CASE opening # "none"
  <2>1. /\ table' = table \cup {Opened} /\ nextIndex' = nextIndex + 1
        /\ UNCHANGED <<ackedThrough, bootCount>>
        /\ phase' = "idle" /\ reserve' = 0 /\ opening' = "none" /\ evicted' = 0
    BY <1>3 DEF Return
  <2>2. opening \in Kind /\ Opened \in Entry
    BY <1>3 DEF IInv, TypeOK, Opened, Entry
  <2>3. IsFiniteSet(table') /\ Cardinality(table') <= Cardinality(table) + 1
        /\ Cardinality(table') \in Nat
    <3>1. /\ IsFiniteSet(table \cup {Opened})
          /\ Cardinality(table \cup {Opened}) =
               IF Opened \in table THEN Cardinality(table) ELSE Cardinality(table) + 1
      BY <1>1, FS_AddElement
    <3> QED
      BY <1>1, <2>1, <3>1
  <2>4. TypeOK'
    BY <2>1, <2>2, <2>3 DEF IInv, TypeOK, Phase
  <2>5. /\ Opened.index = nextIndex /\ Opened.kind = opening
        /\ Opened.active /\ ~Opened.closed
    BY DEF Opened
  <2>6. \A e \in table : e.kind \in Kind /\ e.index \in Nat /\ e.index < nextIndex
    BY DEF IInv, TypeOK, Entry, Indexes
  <2>7. Writers'
    BY <2>1, <2>2, <2>5, <2>6 DEF IInv, Writers, Kind
  <2>8. Indexes'
    <3>1. \A e \in table : e.index # Opened.index
      BY <2>5, <2>6
    <3>2. nextIndex \in Nat
      BY DEF IInv, TypeOK
    <3> QED
      BY <2>1, <2>5, <2>6, <3>1, <3>2 DEF IInv, Indexes, UniqueIndexes
  <2>9. Calls' /\ PassedLimitsHold'
    BY <2>1 DEF Calls, PassedLimitsHold
  <2>10. RoomMade'
    <3>1. countLimit = MaxFiles - 1
      BY <1>3, CountLimitIs DEF IInv, Calls
    <3>2. Cardinality(table) + 1 <= FileBound
      BY <1>1, <3>1, RetentionAssumption DEF IInv, TypeOK, RoomMade, FileBound
    <3> QED
      BY <1>1, <2>1, <2>3, <3>2, RetentionAssumption DEF RoomMade, FileBound, IInv, TypeOK
  <2> QED
    BY <2>4, <2>7, <2>8, <2>9, <2>10 DEF IInv
<1> QED
  BY <1>2, <1>3

LEMMA StopInv ==
  ASSUME IInv, StopOnBudget
  PROVE  IInv'
<1>1. phase # "idle"
  BY DEF StopOnBudget, WorkLeft
<1>2. evicted > 0
  BY RetentionAssumption DEF StopOnBudget, OutOfBudget, IInv, TypeOK
<1> QED
  BY <1>1, <1>2, ReturnInv DEF StopOnBudget

(* The next phase starts with the limit of this one met: if files are left *)
(* over the count, all of them are open, and those are too few.            *)
LEMMA PhaseInv ==
  ASSUME IInv, PhaseDone
  PROVE  IInv'
<1>1. phase \in {"leftovers", "count", "tierA", "used"}
  BY DEF PhaseDone, IInv, TypeOK, Phase
<1>2. Files(table) /\ IsFiniteSet(table) /\ Cardinality(table) \in Nat
  BY TableIsFiles, FS_CardinalityType DEF IInv, TypeOK
<1>3. phase = "leftovers" => AckedLeftovers(table, ackedThrough) = {}
  <2> SUFFICES ASSUME phase = "leftovers", AckedLeftovers(table, ackedThrough) # {}
               PROVE  FALSE
    OBVIOUS
  <2> DEFINE L == AckedLeftovers(table, ackedThrough)
  <2>1. WorkLeft /\ Victim = FirstOf(L, NoVictim)
    BY DEF WorkLeft, Victim
  <2>2. IsFiniteSet(L) /\ \A e \in L : e.index \in Nat
    BY <1>2, FS_Subset DEF Files, AckedLeftovers, Acked
  <2>3. Victim \in L
    <3>1. L # {}
      OBVIOUS
    <3> HIDE DEF L
    <3> QED
      BY <2>1, <2>2, <3>1, FirstOfIsOldest
  <2>4. Victim.index \in Nat
    BY <2>2, <2>3
  <2> QED
    BY <2>1, <2>4 DEF PhaseDone, NoVictim
<1>4. phase = "count" => Cardinality(table) <= countLimit
  <2> SUFFICES ASSUME phase = "count", Cardinality(table) > countLimit
               PROVE  FALSE
    BY <1>2, CountLimitIs DEF IInv
  <2>1. WorkLeft /\ Victim = fsPickVictim(table, ackedThrough)
    BY DEF WorkLeft, Victim
  <2>2. Victim = NoVictim
    BY <2>1 DEF PhaseDone
  <2>3. Evictable(table) = {}
    <3>1. Evictable(table) # {} => Victim \in Evictable(table)
      BY <1>2, <2>1, PickVictimChoice
    <3>2. \A e \in Evictable(table) : e.index \in Nat
      BY <1>2 DEF Evictable, Files
    <3> QED
      BY <2>2, <3>1, <3>2 DEF NoVictim
  <2> QED
    BY <1>2, <2>3, OnlyWritersFit, CountLimitIs DEF IInv
<1>5. CASE NextPhase = "return"
  <2>1. phase = "used"
    BY <1>1, <1>5 DEF NextPhase
  <2>2. Return /\ Cardinality(table) <= countLimit
    BY <1>5, <2>1 DEF PhaseDone, IInv, PassedLimitsHold
  <2> QED
    BY <2>1, <2>2, ReturnInv
<1>6. CASE NextPhase # "return"
  <2>1. /\ phase' = NextPhase
        /\ UNCHANGED <<table, ackedThrough, nextIndex, reserve, opening, evicted, bootCount>>
    BY <1>6 DEF PhaseDone
  <2>2. \/ phase = "leftovers" /\ phase' = "count"
        \/ phase = "count" /\ phase' = "tierA"
        \/ phase = "tierA" /\ phase' = "used"
    BY <1>1, <1>6, <2>1 DEF NextPhase
  <2>3. TypeOK' /\ Writers' /\ Indexes' /\ Calls'
    BY <2>1, <2>2
    DEF IInv, TypeOK, Phase, Writers, Indexes, UniqueIndexes, Calls
  <2>4. RoomMade'
    BY <2>1, <2>2 DEF IInv, RoomMade, FileBound
  <2>5. countLimit' = countLimit
    BY <2>1 DEF countLimit
  <2>6. PassedLimitsHold'
    BY <1>3, <1>4, <2>1, <2>2, <2>5 DEF IInv, PassedLimitsHold
  <2> QED
    BY <2>3, <2>4, <2>6 DEF IInv
<1> QED
  BY <1>5, <1>6

(* Between two calls an entry is replaced by itself with a field changed.  *)
LEMMA ReplaceInv ==
  ASSUME IInv, Between, UNCHANGED ackedThrough,
         NEW e \in table, NEW f \in Entry, f.index = e.index, f.kind = e.kind,
         f.active => e.active /\ ~f.closed,
         Replace(e, f)
  PROVE  IInv'
<1> DEFINE rest == table \ {e}
<1>1. table' = rest \cup {f} /\ f \notin rest
  BY DEF Replace, IInv, Indexes, UniqueIndexes
<1>2. /\ IsFiniteSet(table') /\ Cardinality(table') = Cardinality(table)
      /\ Cardinality(table) \in Nat
  <2>1. IsFiniteSet(table) /\ Cardinality(table) \in Nat
    BY FS_CardinalityType DEF IInv, TypeOK
  <2>2. IsFiniteSet(rest) /\ Cardinality(rest) = Cardinality(table) - 1
    BY <2>1, FS_RemoveElement
  <2> HIDE DEF rest
  <2>3. /\ IsFiniteSet(rest \cup {f})
        /\ Cardinality(rest \cup {f}) =
             IF f \in rest THEN Cardinality(rest) ELSE Cardinality(rest) + 1
    BY <2>2, FS_AddElement
  <2> QED
    BY <1>1, <2>1, <2>2, <2>3
<1>3. UNCHANGED <<nextIndex, phase, reserve, opening, evicted, bootCount>> /\ phase = "idle"
  BY DEF Between
<1>4. TypeOK'
  BY <1>1, <1>2, <1>3 DEF IInv, TypeOK
<1>5. Writers' /\ Indexes'
  BY <1>1, <1>3 DEF IInv, Writers, Indexes, UniqueIndexes
<1>6. Calls' /\ PassedLimitsHold' /\ RoomMade'
  BY <1>2, <1>3 DEF IInv, Calls, PassedLimitsHold, RoomMade, FileBound
<1> QED
  BY <1>4, <1>5, <1>6 DEF IInv

LEMMA BetweenInv ==
  ASSUME IInv, Write \/ Close \/ Hydrate \/ filestoreAck
  PROVE  IInv'
<1>1. CASE Write
  <2>1. PICK e \in OpenFiles(table) : Replace(e, [e EXCEPT !.bytes = @ + 1])
    BY <1>1 DEF Write
  <2>2. e \in table /\ e \in Entry /\ ~e.closed
    BY <2>1 DEF OpenFiles, IInv, TypeOK
  <2> QED
    BY <1>1, <2>1, <2>2, ReplaceInv DEF Write, Entry
<1>2. CASE Close
  <2>1. PICK e \in OpenFiles(table) : Replace(e, [e EXCEPT !.closed = TRUE, !.active = FALSE])
    BY <1>2 DEF Close
  <2>2. e \in table /\ e \in Entry
    BY <2>1 DEF OpenFiles, IInv, TypeOK
  <2> QED
    BY <1>2, <2>1, <2>2, ReplaceInv DEF Close, Entry
<1>3. CASE Hydrate
  <2>1. PICK e \in table : Replace(e, [e EXCEPT !.hydrated = TRUE])
    BY <1>3 DEF Hydrate
  <2>2. e \in Entry /\ (e.active => ~e.closed)
    BY <2>1 DEF IInv, TypeOK, Writers
  <2> QED
    BY <1>3, <2>1, <2>2, ReplaceInv DEF Hydrate, Entry
<1>4. CASE filestoreAck
  <2>1. ackedThrough' \in Int /\ phase = "idle"
        /\ UNCHANGED <<table, nextIndex, phase, reserve, opening, evicted, bootCount>>
    BY <1>4 DEF filestoreAck, Between, IInv, TypeOK
  <2> QED
    BY <2>1 DEF IInv, TypeOK, Writers, Indexes, UniqueIndexes, Calls,
                RoomMade, FileBound, PassedLimitsHold
<1> QED
  BY <1>1, <1>2, <1>3, <1>4

LEMMA RebootInv ==
  ASSUME IInv, Reboot
  PROVE  IInv'
<1> DEFINE after(e) == [e EXCEPT !.active = FALSE, !.hydrated = FALSE]
           g == [e \in table |-> after(e)]
<1>1. table' = {after(e) : e \in table} /\ bootCount' = Cardinality(table)
      /\ phase' = "idle" /\ reserve' = 0 /\ opening' = "none" /\ evicted' = 0
      /\ UNCHANGED <<ackedThrough, nextIndex>>
  BY DEF Reboot
<1>2. \A e \in table : after(e) \in Entry /\ after(e).index = e.index /\ ~after(e).active
  BY DEF IInv, TypeOK, Entry
<1>3. IsFiniteSet(table) /\ Cardinality(table) \in Nat
  BY FS_CardinalityType DEF IInv, TypeOK
<1>4. IsFiniteSet(table') /\ Cardinality(table') <= Cardinality(table)
  <2>1. g \in Surjection(table, table')
    BY <1>1 DEF Surjection
  <2> HIDE DEF g
  <2> QED
    BY <1>3, <2>1, FS_Surjection
<1>5. Cardinality(table') \in Nat
  BY <1>4, FS_CardinalityType
<1>6. TypeOK'
  BY <1>1, <1>2, <1>3, <1>4 DEF IInv, TypeOK, Phase
<1>7. Writers' /\ Indexes'
  <2> HIDE DEF after
  <2>1. \A x \in table' : ~x.active /\ \E e \in table : x = after(e) /\ x.index = e.index
    BY <1>1, <1>2
  <2> QED
    BY <1>1, <2>1 DEF IInv, Writers, Indexes, UniqueIndexes
<1>8. Calls' /\ PassedLimitsHold'
  BY <1>1 DEF Calls, PassedLimitsHold
<1>9. RoomMade'
  <2>1. FileBound' = IF bootCount' > MaxFiles THEN bootCount' ELSE MaxFiles
    BY DEF FileBound
  <2>2. Cardinality(table) <= FileBound' /\ FileBound' \in Nat
    <3>1. bootCount' = Cardinality(table) /\ MaxFiles \in Nat
      BY RetentionAssumption DEF Reboot
    <3>2. Cardinality(table) \in Nat
      BY <1>3
    <3> QED
      BY <2>1, <3>1, <3>2
  <2>3. phase' = "idle"
    BY <1>1
  <2>4. RoomMade' <=> Cardinality(table') + 0 <= FileBound'
    BY <2>3 DEF RoomMade
  <2> QED
    BY <1>3, <1>4, <1>5, <2>2, <2>4
<1> QED
  BY <1>6, <1>7, <1>8, <1>9 DEF IInv

LEMMA NextInv == IInv /\ [Next]_vars => IInv'
<1> SUFFICES ASSUME IInv, [Next]_vars PROVE IInv'
  OBVIOUS
<1>1. CASE TimerCall \/ \E kind \in Kind : OpenCall(kind)
  BY <1>1, StartInv
<1>2. CASE Evict
  BY <1>2, EvictInv
<1>3. CASE StopOnBudget
  BY <1>3, StopInv
<1>4. CASE PhaseDone
  BY <1>4, PhaseInv
<1>5. CASE Write \/ Close \/ Hydrate \/ filestoreAck
  BY <1>5, BetweenInv
<1>6. CASE Reboot
  BY <1>6, RebootInv
<1>7. CASE UNCHANGED vars
  BY <1>7 DEF vars, IInv, TypeOK, Writers, Indexes, UniqueIndexes, Calls,
              RoomMade, FileBound, PassedLimitsHold, countLimit
<1> QED
  BY <1>1, <1>2, <1>3, <1>4, <1>5, <1>6, <1>7 DEF Next

LEMMA AlwaysIInv == Spec => []IInv
BY InitInv, NextInv, PTL DEF Spec

-----------------------------------------------------------------------------
(* The index of files always has its type.                                 *)
THEOREM TypeCorrect == Spec => []TypeOK
BY AlwaysIInv, PTL DEF IInv

(* However small the budget of a call and however large the image found at *)
(* boot, the number of files never passes the larger of the cap and what   *)
(* was found.                                                              *)
THEOREM CountStaysBounded == Spec => []CountBounded
<1>1. IInv => CountBounded
  <2> SUFFICES ASSUME IInv PROVE CountBounded
    OBVIOUS
  <2>1. Cardinality(table) \in Nat
    BY FS_CardinalityType DEF IInv, TypeOK
  <2> QED
    BY <2>1, RetentionAssumption DEF IInv, TypeOK, RoomMade, CountBounded, FileBound
<1> QED
  BY <1>1, AlwaysIInv, PTL

(* No later phase of a call undoes what an earlier one established.        *)
THEOREM PassedLimitsStayMet == Spec => []PassedLimitsHold
BY AlwaysIInv, PTL DEF IInv

(* Only a turn of fsEnforceRetention deletes a file.                       *)
LEMMA OnlyEvictDeletes ==
  ASSUME IInv, Next, ~Evict
  PROVE  Deleted = {}
<1>1. \A e \in table : \E f \in table' : f.index = e.index
  <2>1. CASE Reboot
    <3> DEFINE after(e) == [e EXCEPT !.active = FALSE, !.hydrated = FALSE]
    <3>1. \A e \in table : after(e).index = e.index
      BY DEF IInv, TypeOK, Entry
    <3>2. table' = {after(e) : e \in table}
      BY <2>1 DEF Reboot
    <3> HIDE DEF after
    <3> QED
      BY <3>1, <3>2
  <2>2. CASE Write \/ Close \/ Hydrate
    <3>1. \E e \in table : \E f : f.index = e.index /\ table' = (table \ {e}) \cup {f}
      <4>1. \A e \in table : e \in Entry
        BY DEF IInv, TypeOK
      <4>2. \A e \in Entry : /\ [e EXCEPT !.bytes = @ + 1].index = e.index
                             /\ [e EXCEPT !.closed = TRUE, !.active = FALSE].index = e.index
                             /\ [e EXCEPT !.hydrated = TRUE].index = e.index
        BY DEF Entry
      <4>3. CASE Write
        BY <4>1, <4>2, <4>3 DEF Write, Replace, OpenFiles
      <4>4. CASE Close
        BY <4>1, <4>2, <4>4 DEF Close, Replace, OpenFiles
      <4>5. CASE Hydrate
        BY <4>1, <4>2, <4>5 DEF Hydrate, Replace
      <4> QED
        BY <2>2, <4>3, <4>4, <4>5
    <3> QED
      BY <3>1
  <2>3. CASE StopOnBudget \/ PhaseDone
    BY <2>3 DEF StopOnBudget, PhaseDone, Return
  <2>4. CASE TimerCall \/ (\E kind \in Kind : OpenCall(kind)) \/ filestoreAck
    BY <2>4 DEF TimerCall, OpenCall, StartCall, filestoreAck
  <2> QED
    BY <2>1, <2>2, <2>3, <2>4 DEF Next
<1> QED
  BY <1>1 DEF Deleted

LEMMA EvictDeletesVictim ==
  ASSUME IInv, Evict
  PROVE  /\ phase # "idle" /\ WorkLeft /\ Victim # NoVictim
         /\ \A e \in Deleted : e = Victim
BY DEF Evict, WorkLeft, Deleted, evictAt

(* No open file is ever deleted, and no unacked file while one that should *)
(* go before it could be deleted instead.                                  *)
THEOREM LongRecordGoesLast == Spec => LongRecordLast
<1> DEFINE Fair == \A e \in Deleted :
             /\ ~e.active
             /\ ~isAcked(e, ackedThrough) =>
                  \A f \in Evictable(table) \ {e} : ~Spares(e, f)
<1>1. IInv /\ [Next]_vars => [Fair]_vars
  <2> SUFFICES ASSUME IInv, Next PROVE Fair
    OBVIOUS
  <2>1. CASE Evict
    BY <2>1, EvictDeletesVictim, VictimIsDeletable DEF IInv
  <2>2. CASE ~Evict
    BY <2>2, OnlyEvictDeletes
  <2> QED
    BY <2>1, <2>2
<1> QED
  BY <1>1, AlwaysIInv, PTL DEF Spec, LongRecordLast

(* What fsEnforceRetention finds to do in a phase is a reason to delete    *)
(* the file it picks there: the sizes read so far never exceed the sizes.  *)
LEMMA VictimIsNeeded ==
  ASSUME IInv, phase # "idle", WorkLeft, Victim # NoVictim
  PROVE  LET e == Victim IN
         \/ isLeftover(e) /\ isAcked(e, ackedThrough)
         \/ Cardinality(table) > countLimit
         \/ fsTierForKind(e.kind) = "A" /\ BytesOf(OfTier(table, "A")) > TierACap
         \/ usedBytes > UsedLimit
<1>1. IsFiniteSet(table) /\ Files(table) /\ \A e \in table : e.bytes \in Nat /\ e.index \in Nat
  BY DEF IInv, TypeOK, Entry, Files
<1>2. CASE phase = "leftovers"
  <2> DEFINE S == AckedLeftovers(table, ackedThrough)
  <2>1. IsFiniteSet(S) /\ \A e \in S : e.index \in Nat
    BY <1>1, FS_Subset DEF AckedLeftovers, Acked
  <2>2. S # {} /\ Victim = FirstOf(S, NoVictim)
    BY <1>2 DEF WorkLeft, Victim
  <2>3. Victim \in S
    <3> HIDE DEF S
    <3> QED
      BY <2>1, <2>2, FirstOfIsOldest
  <2> QED
    BY <2>3 DEF AckedLeftovers, Acked
<1>3. CASE phase = "count"
  BY <1>3 DEF WorkLeft
<1>4. CASE phase = "tierA"
  <2> DEFINE A == OfTier(table, "A")
             R == {e \in A : e.hydrated}
  <2>1. Sized(A) /\ R \subseteq A /\ Sized(R)
    BY <1>1, FS_Subset DEF Sized, OfTier
  <2>2. BytesOf(R) > TierACap
    BY <1>4 DEF WorkLeft, fsTierABytes
  <2>3. BytesOf(A) > TierACap
    <3>1. BytesOf(R) \in Nat /\ BytesOf(A) \in Nat /\ BytesOf(R) <= BytesOf(A)
      <4> HIDE DEF A, R
      <4> QED
        BY <2>1, BytesType, BytesMonotone
    <3> HIDE DEF A, R
    <3> QED
      BY <2>2, <3>1, RetentionAssumption
  <2>4. Victim = fsPickTierAVictim(table, ackedThrough)
    BY <1>4 DEF Victim
  <2>5. Victim \in OfTier(Evictable(table), "A")
    BY <1>1, <2>4, PickTierAVictimChoice
  <2> QED
    BY <2>3, <2>5 DEF OfTier
<1>5. CASE phase = "used"
  BY <1>5 DEF WorkLeft
<1> QED
  BY <1>2, <1>3, <1>4, <1>5 DEF IInv, TypeOK, Phase

(* A file is deleted for a reason only: it is an acked leftover, or one of *)
(* the limits is exceeded by what is on disk, read or not.                 *)
THEOREM DeletionsAreNeeded == Spec => NoNeedlessDeletion
<1> DEFINE Needed == \A e \in Deleted :
             \/ isLeftover(e) /\ isAcked(e, ackedThrough)
             \/ Cardinality(table) > countLimit
             \/ fsTierForKind(e.kind) = "A" /\ BytesOf(OfTier(table, "A")) > TierACap
             \/ usedBytes > UsedLimit
<1>1. IInv /\ [Next]_vars => [Needed]_vars
  <2> SUFFICES ASSUME IInv, Next PROVE Needed
    OBVIOUS
  <2>1. CASE Evict
    BY <2>1, EvictDeletesVictim, VictimIsNeeded
  <2>2. CASE ~Evict
    BY <2>2, OnlyEvictDeletes
  <2> QED
    BY <2>1, <2>2
<1> QED
  BY <1>1, AlwaysIInv, PTL DEF Spec, NoNeedlessDeletion

-----------------------------------------------------------------------------
(* Poll.  What the sequencer, the scheduler and the ECUs hold.             *)
Why == {"frame", "cap", "late", "deadline", "tx"}
Spared == {"frame", "cap", "late"}
Lists == {3, 7, 6}
Step == {"pid01", "m03", "m07", "support", "mid"}
Receiver == [active : BOOLEAN, msg : Message, got : Nat, nextSn : Int]
Sequencer ==
  [active : BOOLEAN, kind : {"start", "end"}, left : Int, step : Step,
   inflight : BOOLEAN, req : [mode : Int, pid : Int], sent : Nat, quiet : Nat, rx : [Ecus -> Receiver],
   fc : SUBSET Ecus, support : SUBSET Nat, base : Int, next : Int, ecu0 : BOOLEAN, done : Nat,
   count : [Lists -> Nat], given : [Lists -> Nat], truncated : BOOLEAN, complete : BOOLEAN,
   outOfTime : BOOLEAN, txFailed : BOOLEAN, finished : BOOLEAN, cut : SUBSET Why]
FrameOf == [from : Ecus, msg : Message, kind : {"sf", "ff", "cf", "bad"}, sn : Int]
Sender == [msg : Message, next : Int]

(* Unless the record will say that it is truncated, nothing is missing but *)
(* what the cap of a request cut, a bad frame spoilt or came late.         *)
Honest(s) ==
  /\ s.truncated \/ (s.cut \subseteq Spared /\ s.count = s.given)
  /\ s.complete => s.finished /\ ~s.truncated

BusTypes == q \in Seq(FrameOf) /\ ecu \in [Ecus -> Sender] /\ car \in Cars
RecordInv == bk \in Sequencer /\ Honest(bk) /\ CompleteIsHonest

AnyPlan == Seq(AnyEntry)
PlanInv == nvs.ok \in BOOLEAN /\ nvs.plan \in AnyPlan /\ plan \in AnyPlan /\ VouchedPlan

Scheduler(s) ==
  /\ s \in [plan : AnyPlan, late : [DOMAIN s.plan -> Int], misses : [DOMAIN s.plan -> 0 .. MissCap],
            inflight : 0 .. Len(s.plan), sent : Nat, gap : Nat, anyOk : BOOLEAN]
  /\ planValid(s.plan)

(* Entry i, sent last[i] ticks ago, is due again no sooner than its period *)
(* after that; while its request is in flight, that is when it was sent.   *)
Spaced(s, last, i) ==
  \/ last[i] = -1 \/ last[i] >= s.plan[i].period
  \/ IF s.inflight = i THEN last[i] = s.sent ELSE s.late[i] <= last[i] - s.plan[i].period
(* An entry i served while j waited overdue is due later than j, or is     *)
(* still in flight and was sent when j was already due.                    *)
Behind(s, i, j) ==
  /\ i # j /\ s.late[j] >= 0 /\ s.inflight # j
  /\ IF s.inflight = i THEN s.late[j] >= s.sent ELSE s.late[i] < s.late[j]
Fair(s, srv, last) ==
  /\ Scheduler(s)
  /\ last \in [DOMAIN s.plan -> Nat \cup {-1}] /\ srv \in [DOMAIN s.plan -> SUBSET DOMAIN s.plan]
  /\ \A i \in DOMAIN s.plan : Spaced(s, last, i)
  /\ \A j \in DOMAIN s.plan : \A i \in srv[j] : Behind(s, i, j)
SchedInv == Fair(sched, served, lastSent)

(* An active sequence runs in POLL only.  While a trip_end is read the     *)
(* debounce has not run for longer than its margin allows, but for the     *)
(* stall of this pass and one stall for each pass the Flow Controls took.  *)
Stages == {"rest", "ignition", "serve", "drain", "triggers", "bookend", "plan"}
Elapsed == IF edge = 0 THEN 0 ELSE edge - 1
StageInv ==
  /\ at \in Stages /\ key \in BOOLEAN /\ on \in BOOLEAN /\ edge \in Nat /\ stall \in Nat
  /\ overtime \in [longest : Nat, passes : Nat]
  /\ at # "rest" => stall = 0
  /\ bk.active => mode = "poll"
  /\ at = "triggers" => mode = "poll"
  /\ at = "plan" => ~bk.active
EndingInv ==
  Ending =>
    /\ on
    /\ bk.left > 0 => bk.left + Elapsed <= OffDebounce - EndMargin
    /\ at = "rest" => /\ stall <= overtime.longest
                      /\ Elapsed < OffDebounce - EndMargin + overtime.passes * overtime.longest + stall
    /\ at # "rest" => Elapsed < OffDebounce - EndMargin + (overtime.passes + 1) * overtime.longest

LEMMA BookendConstants ==
  /\ IsFiniteSet(Ecus) /\ Ecus \subseteq Nat
  /\ Quiet \in Nat /\ ReqMax \in Nat /\ Cap \in Nat /\ MaxCfs \in Nat
  /\ MinStart \in Nat /\ MinStart > 0 /\ Span \in Nat /\ MidTop \in Nat /\ SnMod \in Nat /\ SnMod > 0
BY BookendAssumption

(* The least of a set of natural numbers is one of them.                   *)
LEMMA Least ==
  ASSUME NEW S, S \subseteq Nat, S # {}
  PROVE  Min(S) \in S
<1> DEFINE Less == {ss \in Nat \X Nat : ss[1] < ss[2]}
<1>1. IsWellFoundedOn(Less, Nat)
  BY NatLessThanWellFounded DEF OpToRel
<1>2. \A m, n \in Nat : n < m => <<n, m>> \in Less
  OBVIOUS
<1> HIDE DEF Less
<1>3. PICK m \in S : \A n \in S : <<n, m>> \notin Less
  BY <1>1, WFMin
<1>4. ASSUME NEW n \in S PROVE m <= n
  <2>1. m \in Nat /\ n \in Nat /\ ~(n < m)
    BY <1>2, <1>3
  <2> QED
    BY <2>1
<1> QED
  BY <1>4 DEF Min

(* Nothing the sequencer does moves its deadline or its kind.              *)
Kept(s, t) == t.active = s.active /\ t.kind = s.kind /\ t.left = s.left

LEMMA Empty == NoMsg \in Message /\ NoRx \in Receiver /\ NoSeq \in Sequencer /\ Honest(NoSeq) /\ ~NoSeq.active
<1>1. NoMsg \in Message
  BY DEF NoMsg, Message
<1>2. NoRx \in Receiver
  BY <1>1 DEF NoRx, Receiver
<1>3. NoSeq.rx \in [Ecus -> Receiver]
  BY <1>2 DEF NoSeq
<1>4. NoSeq \in Sequencer
  BY <1>3 DEF NoSeq, Sequencer, NoReq, Lists, Why, Step
<1> QED
  BY <1>1, <1>2, <1>4 DEF NoSeq, Honest, Lists

LEMMA Starts ==
  ASSUME NEW kind \in {"start", "end"}, NEW budget \in Int
  PROVE  /\ bookendSeqStart(kind, budget) \in Sequencer /\ Honest(bookendSeqStart(kind, budget))
         /\ bookendSeqStart(kind, budget).kind = kind /\ bookendSeqStart(kind, budget).left = budget
         /\ bookendSeqStart(kind, budget).active /\ bookendSeqStart(kind, budget).fc = {}
<1>1. NoSeq \in Sequencer /\ Honest(NoSeq) /\ NoSeq.fc = {}
  BY Empty DEF NoSeq
<1> QED
  BY <1>1 DEF bookendSeqStart, Sequencer, Honest

LEMMA Finishes ==
  ASSUME NEW s \in Sequencer, s.truncated \/ s.outOfTime \/ s.txFailed \/ Honest(s)
  PROVE  finish(s) \in Sequencer /\ Honest(finish(s)) /\ finish(s).finished /\ Kept(s, finish(s)) /\ finish(s).fc = s.fc
BY DEF finish, Sequencer, Honest, Kept

LEMMA Retires ==
  ASSUME NEW s \in Sequencer, NEW why \in Why
  PROVE  /\ Retire(s, why) \in Sequencer /\ Kept(s, Retire(s, why)) /\ Retire(s, why).fc = s.fc
         /\ Retire(s, why).finished = s.finished
         /\ Honest(s) /\ why \in Spared => Honest(Retire(s, why))
BY DEF Retire, Sequencer, Honest, Kept, Spared

LEMMA Requests ==
  ASSUME NEW s \in Sequencer, NEW mode0 \in Int, NEW pid \in Int
  PROVE  /\ request(s, mode0, pid) \in Sequencer /\ Kept(s, request(s, mode0, pid))
         /\ request(s, mode0, pid).fc = {} /\ request(s, mode0, pid).finished = s.finished
         /\ Honest(s) => Honest(request(s, mode0, pid))
<1>1. NoSeq.rx \in [Ecus -> Receiver]
  BY Empty DEF Sequencer
<1> QED
  BY <1>1 DEF request, Sequencer, Honest, Kept

LEMMA NewStep ==
  ASSUME NEW s \in Sequencer, NEW step \in Step, NEW done \in Nat, NEW base \in Int, NEW next \in Int
  PROVE  /\ [s EXCEPT !.done = done, !.step = step, !.base = base] \in Sequencer
         /\ [s EXCEPT !.step = step, !.next = next] \in Sequencer
BY DEF Sequencer

LEMMA StepsOn ==
  ASSUME NEW s \in Sequencer
  PROVE  /\ stepDone(s) \in Sequencer /\ Kept(s, stepDone(s)) /\ stepDone(s).fc = s.fc
         /\ stepDone(s).finished = s.finished /\ (Honest(s) => Honest(stepDone(s)))
<1>0. s.step \in {"pid01", "m03", "m07", "support", "mid"}
  BY DEF Sequencer, Step
<1>1. CASE s.step \in {"pid01", "m03", "m07"}
  <2>1. NextStep[s.step] \in Step
    BY <1>1 DEF NextStep, Step
  <2>2. stepDone(s) = [s EXCEPT !.done = @ + 1, !.step = NextStep[@], !.base = 0]
    BY <1>1 DEF stepDone
  <2> DEFINE t == [s EXCEPT !.done = @ + 1, !.step = NextStep[@], !.base = 0]
  <2>3. t \in Sequencer
    <3>1. s.done + 1 \in Nat
      BY DEF Sequencer
    <3> QED
      BY <2>1, <3>1, 0 \in Int, NewStep, Zenon
  <2>4. Kept(s, t) /\ t.fc = s.fc /\ t.finished = s.finished /\ (Honest(s) => Honest(t))
    BY DEF Sequencer, Honest, Kept
  <2> QED
    BY <2>2, <2>3, <2>4
<1>2. CASE s.step = "support" /\ MoreRanges(s)
  <2>1. stepDone(s) = [s EXCEPT !.base = @ + Span]
    BY <1>2 DEF stepDone
  <2> QED
    BY <2>1, BookendConstants DEF Sequencer, Honest, Kept
<1>3. CASE s.step = "support" /\ ~MoreRanges(s)
  <2>1. stepDone(s) = [s EXCEPT !.step = "mid", !.next = 1]
    BY <1>3 DEF stepDone
  <2> DEFINE t == [s EXCEPT !.step = "mid", !.next = 1]
  <2>3. t \in Sequencer
    <3>1. "mid" \in Step
      BY DEF Step
    <3> QED
      BY <3>1, 1 \in Int, NewStep, Zenon
  <2>4. Kept(s, t) /\ t.fc = s.fc /\ t.finished = s.finished /\ (Honest(s) => Honest(t))
    BY DEF Sequencer, Honest, Kept
  <2> QED
    BY <2>1, <2>3, <2>4
<1>4. CASE s.step = "mid"
  <2>1. stepDone(s) = [s EXCEPT !.next = s.req.pid + 1]
    BY <1>4 DEF stepDone
  <2> QED
    BY <2>1 DEF Sequencer, Honest, Kept
<1> QED
  BY <1>0, <1>1, <1>2, <1>3, <1>4

LEMMA MinOfMids ==
  ASSUME NEW s \in Sequencer, MidsLeft(s) # {}
  PROVE  Min(MidsLeft(s)) \in Int
<1>1. MidsLeft(s) \subseteq Nat
  BY DEF MidsLeft, Sequencer
<1> QED
  BY <1>1, Least

LEMMA Reads ==
  ASSUME NEW s \in Sequencer, Honest(s), ~s.finished
  PROVE  LET r == NextRead(s)
         IN  /\ r.seq \in Sequencer /\ Honest(r.seq) /\ Kept(s, r.seq) /\ r.seq.fc \subseteq s.fc
             /\ IF r.seq.finished THEN r.tx = 0 ELSE r.tx = 1 /\ r.seq.fc = {} /\ s.left >= MinStart
<1>l. s.left \in Int /\ MinStart \in Nat /\ s.base \in Int /\ s.done \in Nat
  BY BookendConstants DEF Sequencer
<1>1. CASE s.left < MinStart
  <2> DEFINE t == [s EXCEPT !.outOfTime = TRUE]
  <2>1. t \in Sequencer /\ t.outOfTime /\ Kept(s, t) /\ t.fc = s.fc
    BY DEF Sequencer, Kept
  <2>2. finish(t) \in Sequencer /\ Honest(finish(t)) /\ finish(t).finished /\ Kept(t, finish(t)) /\ finish(t).fc = t.fc
    BY <2>1, Finishes
  <2>3. NextRead(s) = [seq |-> finish(t), tx |-> 0]
    BY <1>1 DEF NextRead
  <2> HIDE DEF t
  <2> QED
    BY <2>1, <2>2, <2>3 DEF Kept
<1>2. CASE ~(s.left < MinStart)
  <2> DEFINE read == CASE s.step = "pid01"   -> request(s, 1, 1)
                       [] s.step = "m03"     -> request(s, 3, 0)
                       [] s.step = "m07"     -> request(s, 7, 0)
                       [] s.step = "support" -> request(s, 6, s.base)
                       [] s.step = "mid" /\ MidsLeft(s) # {} -> request(s, 6, Min(MidsLeft(s)))
                       [] OTHER -> finish([s EXCEPT !.done = @ + 1])
  <2>1. NextRead(s) = [seq |-> read, tx |-> IF read.finished THEN 0 ELSE 1]
    BY <1>2 DEF NextRead
  <2>2. ASSUME NEW m \in Int, NEW pid \in Int, read = request(s, m, pid)
        PROVE  read \in Sequencer /\ Honest(read) /\ Kept(s, read) /\ ~read.finished /\ read.fc = {}
    BY <2>2, Requests
  <2>3. ASSUME read = finish([s EXCEPT !.done = @ + 1])
        PROVE  read \in Sequencer /\ Honest(read) /\ Kept(s, read) /\ read.finished /\ read.fc = s.fc
    <3> DEFINE t == [s EXCEPT !.done = @ + 1]
    <3>1. t \in Sequencer /\ Honest(t) /\ Kept(s, t) /\ t.fc = s.fc
      BY <1>l DEF Sequencer, Honest, Kept
    <3>2. finish(t) \in Sequencer /\ Honest(finish(t)) /\ finish(t).finished /\ Kept(t, finish(t))
          /\ finish(t).fc = t.fc
      BY <3>1, Finishes
    <3> QED
      BY <2>3, <3>1, <3>2 DEF Kept
  <2>4. \/ \E m \in Int, pid \in Int : read = request(s, m, pid)
        \/ read = finish([s EXCEPT !.done = @ + 1])
    <3>1. CASE s.step \in {"pid01", "m03", "m07", "support"}
      <4>1. CASE s.step = "pid01"
        <5>1. read = request(s, 1, 1)
          BY <4>1
        <5> HIDE DEF read
        <5> QED
          BY <5>1, 1 \in Int, Zenon
      <4>2. CASE s.step = "m03"
        <5>1. read = request(s, 3, 0)
          BY <4>2
        <5> HIDE DEF read
        <5> QED
          BY <5>1, 3 \in Int, 0 \in Int, Zenon
      <4>3. CASE s.step = "m07"
        <5>1. read = request(s, 7, 0)
          BY <4>3
        <5> HIDE DEF read
        <5> QED
          BY <5>1, 7 \in Int, 0 \in Int, Zenon
      <4>4. CASE s.step = "support"
        <5>1. read = request(s, 6, s.base)
          BY <4>4
        <5> HIDE DEF read
        <5> QED
          BY <5>1, <1>l, 6 \in Int, Zenon
      <4> QED
        BY <3>1, <4>1, <4>2, <4>3, <4>4
    <3>2. CASE s.step = "mid" /\ MidsLeft(s) # {}
      BY <3>2, MinOfMids
    <3>3. CASE s.step \notin {"pid01", "m03", "m07", "support"} /\ ~(s.step = "mid" /\ MidsLeft(s) # {})
      BY <3>3
    <3> QED
      BY <3>1, <3>2, <3>3
  <2> HIDE DEF read
  <2> QED
    BY <1>2, <1>l, <2>1, <2>2, <2>3, <2>4
<1> QED
  BY <1>1, <1>2

(* One poll: what it makes of the sequencer, and what it sends.            *)
LEMMA Polls ==
  ASSUME NEW s \in Sequencer, Honest(s)
  PROVE  LET p == bookendSeqPoll(s)
         IN  /\ p.seq \in Sequencer /\ Honest(p.seq) /\ Kept(s, p.seq) /\ p.seq.fc \subseteq s.fc
             /\ \/ p.seq.finished /\ p.tx = 0
                \/ ~p.seq.finished /\ p.tx = 0 /\ s.left > 0
                \/ /\ ~p.seq.finished /\ p.tx = 2 /\ p.to \in s.fc /\ p.seq.fc = s.fc \ {p.to}
                \/ /\ ~p.seq.finished /\ p.tx = 1 /\ s.left >= MinStart
<1>l. s.left \in Int /\ MinStart \in Nat
  BY BookendConstants DEF Sequencer
<1>1. CASE s.finished
  <2>1. bookendSeqPoll(s) = [seq |-> s, tx |-> 0, to |-> 0]
    BY <1>1 DEF bookendSeqPoll
  <2> QED
    BY <1>1, <2>1 DEF Kept
<1>2. CASE ~s.finished /\ s.fc # {}
  <2> DEFINE t == [s EXCEPT !.fc = @ \ {Min(s.fc)}]
  <2>1. bookendSeqPoll(s) = [seq |-> t, tx |-> 2, to |-> Min(s.fc)]
    BY <1>2 DEF bookendSeqPoll
  <2>2. Min(s.fc) \in s.fc
    <3>1. s.fc \subseteq Nat
      BY BookendConstants DEF Sequencer
    <3> QED
      BY <1>2, <3>1, Least
  <2>3. t \in Sequencer /\ Honest(t) /\ Kept(s, t) /\ ~t.finished /\ t.fc = s.fc \ {Min(s.fc)}
    BY <1>2 DEF Sequencer, Honest, Kept
  <2> HIDE DEF t
  <2> QED
    BY <2>1, <2>2, <2>3
<1>3. CASE ~s.finished /\ s.fc = {} /\ s.inflight /\ ~Answered(s)
  <2> DEFINE r == Retire(s, "deadline")
             t == [r EXCEPT !.outOfTime = TRUE]
  <2>1. bookendSeqPoll(s) = [seq |-> IF s.left <= 0 THEN finish(t) ELSE s, tx |-> 0, to |-> 0]
    BY <1>3 DEF bookendSeqPoll
  <2>2. r \in Sequencer /\ Kept(s, r) /\ r.fc = s.fc
    BY Retires DEF Why
  <2>3. t \in Sequencer /\ t.outOfTime /\ Kept(r, t) /\ t.fc = r.fc
    <3> HIDE DEF r
    <3> QED
      BY <2>2 DEF Sequencer, Kept
  <2>4. finish(t) \in Sequencer /\ Honest(finish(t)) /\ finish(t).finished /\ Kept(t, finish(t)) /\ finish(t).fc = t.fc
    BY <2>3, Finishes
  <2> HIDE DEF r, t
  <2>5. CASE s.left <= 0
    BY <2>1, <2>2, <2>3, <2>4, <2>5 DEF Kept
  <2>6. CASE s.left > 0
    BY <1>3, <1>l, <2>1, <2>6 DEF Kept
  <2> QED
    BY <1>l, <2>5, <2>6
<1>4. CASE ~s.finished /\ s.fc = {} /\ ~(s.inflight /\ ~Answered(s))
  <2> DEFINE r == Retire(s, "cap")
             over == IF s.inflight THEN stepDone(r) ELSE s
             read == NextRead(over)
  <2>1. bookendSeqPoll(s) = [seq |-> read.seq, tx |-> read.tx, to |-> 0]
    BY <1>4 DEF bookendSeqPoll
  <2>2. r \in Sequencer /\ Kept(s, r) /\ Honest(r) /\ ~r.finished /\ r.fc = s.fc
    BY <1>4, Retires DEF Why, Spared
  <2> HIDE DEF r
  <2>3. stepDone(r) \in Sequencer /\ Kept(r, stepDone(r)) /\ Honest(stepDone(r)) /\ ~stepDone(r).finished
        /\ stepDone(r).fc = r.fc
    BY <2>2, StepsOn
  <2>4. over \in Sequencer /\ Kept(s, over) /\ Honest(over) /\ ~over.finished /\ over.fc = s.fc
    BY <1>4, <2>2, <2>3 DEF Kept
  <2> HIDE DEF over
  <2>5. /\ read.seq \in Sequencer /\ Honest(read.seq) /\ Kept(over, read.seq) /\ read.seq.fc \subseteq over.fc
        /\ IF read.seq.finished THEN read.tx = 0 ELSE read.tx = 1 /\ over.left >= MinStart
    BY <2>4, Reads
  <2> HIDE DEF read
  <2> QED
    BY <2>1, <2>4, <2>5 DEF Kept
<1> QED
  BY <1>1, <1>2, <1>3, <1>4

LEMMA Stores ==
  ASSUME NEW s \in Sequencer, NEW list, NEW n \in Nat
  PROVE  /\ Store(s, list, n) \in Sequencer /\ Kept(s, Store(s, list, n)) /\ Store(s, list, n).finished = s.finished
         /\ Store(s, list, n).fc = s.fc
         /\ (Honest(s) /\ ~s.finished => Honest(Store(s, list, n)))
<1> DEFINE c == [s.count EXCEPT ![list] = IF @ + n > Cap THEN Cap ELSE @ + n]
           g == [s.given EXCEPT ![list] = IF @ + n > Cap THEN Cap + 1 ELSE @ + n]
           b == s.truncated \/ Overflows(s, list, n)
           t == [s EXCEPT !.count = c, !.given = g, !.truncated = b]
<1>0. s.count \in [Lists -> Nat] /\ s.given \in [Lists -> Nat] /\ Cap \in Nat /\ s.truncated \in BOOLEAN
  BY BookendConstants DEF Sequencer
<1>1. c \in [Lists -> Nat] /\ g \in [Lists -> Nat]
  <2>1. CASE list \in Lists
    BY <1>0, <2>1
  <2>2. CASE list \notin Lists
    <3>1. c = s.count /\ g = s.given
      BY <1>0, <2>2
    <3> QED
      BY <1>0, <3>1
  <2> QED
    BY <2>1, <2>2
<1>2. b \in BOOLEAN
  BY <1>0 DEF Overflows
<1>3. s.count = s.given => c = g \/ b
  <2>1. CASE list \in Lists
    BY <1>0, <2>1 DEF Overflows
  <2>2. CASE list \notin Lists
    BY <1>0, <2>2
  <2> QED
    BY <2>1, <2>2
<1>4. s.truncated => b
  OBVIOUS
<1>5. Store(s, list, n) = t
  BY DEF Store, Sequencer
<1> HIDE DEF c, g, b
<1>6. t \in Sequencer
  BY <1>1, <1>2 DEF Sequencer
<1>7. Kept(s, t) /\ t.finished = s.finished /\ t.count = c /\ t.given = g /\ t.truncated = b
      /\ t.cut = s.cut /\ t.complete = s.complete
      /\ t.fc = s.fc
  BY DEF Sequencer, Kept
<1>8. Honest(s) /\ ~s.finished => Honest(t)
  BY <1>2, <1>3, <1>4, <1>7 DEF Honest
<1> HIDE DEF t
<1> QED
  BY <1>5, <1>6, <1>7, <1>8

LEMMA Lates ==
  ASSUME NEW s \in Sequencer, Honest(s)
  PROVE  LET t == Late(s)
         IN  t \in Sequencer /\ Kept(s, t) /\ Honest(t) /\ t.finished = s.finished /\ t.fc = s.fc
<1> DEFINE w == s.cut \cup {"late"}
           t == [s EXCEPT !.cut = w]
<1>1. w \in SUBSET Why /\ (s.cut \subseteq Spared => w \subseteq Spared)
  BY DEF Sequencer, Why, Spared
<1> HIDE DEF w
<1>2. t \in Sequencer /\ Kept(s, t) /\ Honest(t) /\ t.finished = s.finished /\ t.fc = s.fc
  BY <1>1 DEF Sequencer, Kept, Honest
<1> QED
  BY <1>2 DEF Late, w

LEMMA Handles ==
  ASSUME NEW s \in Sequencer, NEW e \in Ecus, NEW m \in Message, Honest(s), ~s.finished
  PROVE  LET t == handleMessage(s, e, m)
         IN  t \in Sequencer /\ Kept(s, t) /\ Honest(t) /\ ~t.finished /\ t.fc = s.fc
<1>0. s.step \in Step /\ m.n \in Nat /\ m.mids \subseteq Nat /\ s.support \subseteq Nat
  BY DEF Sequencer, Message
<1>s. ASSUME NEW list
      PROVE LET t == Store(s, list, m.n) IN t \in Sequencer /\ Kept(s, t) /\ Honest(t) /\ ~t.finished /\ t.fc = s.fc
  BY <1>0, Stores
<1>k. LET t == Late(s) IN t \in Sequencer /\ Kept(s, t) /\ Honest(t) /\ ~t.finished /\ t.fc = s.fc
  BY Lates
<1>1. CASE m.mode # s.req.mode
  BY <1>1, <1>k DEF handleMessage
<1>2. CASE m.mode = s.req.mode /\ s.step = "pid01"
  <2> DEFINE b == s.ecu0 \/ (e = 0 /\ m.pid = 1)
             t == [s EXCEPT !.ecu0 = b]
  <2>1. handleMessage(s, e, m) = t
    BY <1>2 DEF handleMessage
  <2>2. b \in BOOLEAN
    BY DEF Sequencer
  <2> HIDE DEF b
  <2>3. t \in Sequencer /\ Kept(s, t) /\ Honest(t) /\ ~t.finished /\ t.fc = s.fc
    BY <2>2 DEF Sequencer, Kept, Honest
  <2> QED
    BY <2>1, <2>3
<1>3. CASE m.mode = s.req.mode /\ s.step \in {"m03", "m07"}
  <2>1. handleMessage(s, e, m) = Store(s, m.mode, m.n)
    BY <1>3 DEF handleMessage
  <2> QED
    BY <2>1, <1>s
<1>4. CASE m.mode = s.req.mode /\ s.step = "support"
  <2> DEFINE b == s.support \cup m.mids
             t == [s EXCEPT !.support = b]
  <2>1. handleMessage(s, e, m) = IF m.pid = s.base THEN t ELSE Late(s)
    BY <1>4 DEF handleMessage
  <2>2. b \in SUBSET Nat
    BY <1>0
  <2> HIDE DEF b
  <2>3. t \in Sequencer /\ Kept(s, t) /\ Honest(t) /\ ~t.finished /\ t.fc = s.fc
    BY <2>2 DEF Sequencer, Kept, Honest
  <2> HIDE DEF t
  <2> QED
    BY <1>k, <2>1, <2>3
<1>5. CASE m.mode = s.req.mode /\ s.step = "mid"
  <2>1. handleMessage(s, e, m) = IF m.pid = s.req.pid THEN Store(s, 6, m.n) ELSE Late(s)
    BY <1>5 DEF handleMessage
  <2> QED
    BY <2>1, <1>s, <1>k
<1> QED
  BY <1>0, <1>1, <1>2, <1>3, <1>4, <1>5 DEF Step

(* What the frame of a responder does to its receiver.                     *)
With(s, e, r, fc, w) == [s EXCEPT !.rx = [s.rx EXCEPT ![e] = r], !.fc = fc, !.cut = w]
Marks(s) == {s.cut, s.cut \cup {"frame"}}
Good(s, t) == t \in Sequencer /\ Kept(s, t) /\ Honest(t)

LEMMA Receives ==
  ASSUME NEW s \in Sequencer, NEW e \in Ecus, NEW r \in Receiver, NEW fc \in SUBSET Ecus,
         NEW w \in Marks(s), Honest(s), ~s.finished
  PROVE  Good(s, With(s, e, r, fc, w)) /\ ~With(s, e, r, fc, w).finished /\ With(s, e, r, fc, w).fc = fc
<1> DEFINE x == [s.rx EXCEPT ![e] = r]
           t == [s EXCEPT !.rx = x, !.fc = fc, !.cut = w]
<1>1. x \in [Ecus -> Receiver]
  BY DEF Sequencer
<1>2. w \in SUBSET Why /\ (s.cut \subseteq Spared => w \subseteq Spared)
  BY DEF Sequencer, Why, Spared, Marks
<1>3. With(s, e, r, fc, w) = t
  BY DEF With
<1> HIDE DEF x
<1>4. t \in Sequencer
  BY <1>1, <1>2 DEF Sequencer
<1>5. Kept(s, t) /\ t.cut = w /\ t.count = s.count /\ t.given = s.given /\ t.truncated = s.truncated
      /\ t.complete = s.complete /\ t.finished = s.finished /\ t.fc = fc
  BY DEF Sequencer, Kept
<1> HIDE DEF t
<1>6. Honest(t)
  BY <1>2, <1>5 DEF Honest
<1> QED
  BY <1>3, <1>4, <1>5, <1>6 DEF Good

LEMMA Assembles ==
  ASSUME NEW s \in Sequencer, NEW e \in Ecus, NEW r \in Receiver, NEW m \in Message,
         NEW w \in Marks(s), Honest(s), ~s.finished
  PROVE  Good(s, handleMessage(With(s, e, r, s.fc, w), e, m)) /\ handleMessage(With(s, e, r, s.fc, w), e, m).fc = s.fc
<1> DEFINE t == With(s, e, r, s.fc, w)
<1>0. s.fc \in SUBSET Ecus
  BY DEF Sequencer
<1>1. Good(s, t) /\ ~t.finished /\ t.fc = s.fc
  BY <1>0, Receives
<1> HIDE DEF t
<1>2. handleMessage(t, e, m) \in Sequencer /\ Kept(t, handleMessage(t, e, m)) /\ Honest(handleMessage(t, e, m))
      /\ handleMessage(t, e, m).fc = t.fc
  BY <1>1, Handles DEF Good
<1> QED
  BY <1>1, <1>2 DEF t, Good, Kept

LEMMA Frames ==
  ASSUME NEW s0 \in Sequencer, NEW f \in FrameOf, Honest(s0)
  PROVE  /\ Good(s0, bookendSeqOnFrame(s0, f))
         /\ bookendSeqOnFrame(s0, f).fc \subseteq s0.fc \cup (IF f.kind = "ff" THEN {f.from} ELSE {})
<1> DEFINE e == f.from
           s == [s0 EXCEPT !.quiet = 0]
           r == s.rx[e]
           u == bookendSeqOnFrame(s0, f)
           listens == s0.inflight /\ ~s0.finished
           gap == IF r.active THEN {"frame"} ELSE {}
           broken == s.cut \cup gap
           tooLong == f.kind = "ff" /\ f.msg.cfs > MaxCfs
           first == [active |-> TRUE, msg |-> f.msg, got |-> 0, nextSn |-> 1 % SnMod]
           more == [r EXCEPT !.got = @ + 1, !.nextSn = (@ + 1) % SnMod]
           fcs == s0.fc \cup (IF f.kind = "ff" THEN {f.from} ELSE {})
<1> SUFFICES Good(s0, u) /\ u.fc \subseteq fcs
  OBVIOUS
<1>1. CASE ~listens
  <2>1. u = Late(s0) /\ s0.fc \subseteq fcs
    BY <1>1 DEF bookendSeqOnFrame
  <2> HIDE DEF u, fcs
  <2> QED
    BY <2>1, Lates DEF Good, Kept
<1>2. CASE listens
  <2>1. e \in Ecus /\ f.msg \in Message /\ s \in Sequencer /\ Kept(s0, s) /\ Honest(s) /\ ~s.finished /\ s.fc = s0.fc
    BY <1>2 DEF FrameOf, Sequencer, Kept, Honest
  <2>2. r \in Receiver /\ r.msg \in Message /\ s.fc \in SUBSET Ecus /\ s.cut \in SUBSET Why
        /\ r.got \in Nat /\ r.nextSn \in Int /\ r.active \in BOOLEAN
    BY <2>1 DEF Sequencer, Receiver
  <2>3. NoRx \in Receiver /\ broken \in Marks(s) /\ s.fc \cup {e} \in SUBSET Ecus
    BY <2>1, <2>2, Empty DEF Marks
  <2>4. first \in Receiver
    BY <2>1, BookendConstants DEF Receiver
  <2>5. more \in Receiver
    <3>1. r.got + 1 \in Nat /\ (r.nextSn + 1) % SnMod \in Int
      BY <2>2, BookendConstants
    <3> HIDE DEF r
    <3> QED
      BY <2>2, <3>1 DEF Receiver
  <2>6. \/ u = s
        \/ u = handleMessage(With(s, e, NoRx, s.fc, broken), e, f.msg)
        \/ u = With(s, e, first, s.fc \cup {e}, broken) /\ f.kind = "ff"
        \/ u = With(s, e, NoRx, s.fc, s.cut \cup {"frame"})
        \/ u = With(s, e, more, s.fc, s.cut)
        \/ u = handleMessage(With(s, e, NoRx, s.fc, s.cut), e, r.msg)
    <3>1. CASE f.kind = "sf"
      <4>1. u = handleMessage([s EXCEPT !.rx[e] = NoRx, !.cut = @ \cup gap], e, f.msg)
        BY <1>2, <3>1 DEF bookendSeqOnFrame
      <4>2. [s EXCEPT !.rx[e] = NoRx, !.cut = @ \cup gap] = With(s, e, NoRx, s.fc, broken)
        BY <2>1 DEF Sequencer, With
      <4> QED
        BY <4>1, <4>2
    <3>8. CASE f.kind = "bad" \/ tooLong
      <4>1. u = [s EXCEPT !.rx[e] = NoRx, !.cut = @ \cup {"frame"}]
        BY <1>2, <3>8 DEF bookendSeqOnFrame
      <4>2. [s EXCEPT !.rx[e] = NoRx, !.cut = @ \cup {"frame"}] = With(s, e, NoRx, s.fc, s.cut \cup {"frame"})
        BY <2>1 DEF Sequencer, With
      <4> QED
        BY <4>1, <4>2
    <3>2. CASE f.kind = "ff" /\ ~tooLong
      <4>1. u = [s EXCEPT !.rx[e] = first, !.fc = @ \cup {e}, !.cut = @ \cup gap]
        BY <1>2, <3>2 DEF bookendSeqOnFrame
      <4> HIDE DEF first, u
      <4>2. [s EXCEPT !.rx[e] = first, !.fc = @ \cup {e}, !.cut = @ \cup gap] = With(s, e, first, s.fc \cup {e}, broken)
        BY <2>1 DEF Sequencer, With
      <4> QED
        BY <3>2, <4>1, <4>2
    <3>3. CASE f.kind = "cf" /\ ~r.active
      BY <1>2, <3>3 DEF bookendSeqOnFrame
    <3>4. CASE f.kind = "cf" /\ r.active /\ f.sn # r.nextSn
      <4>1. u = [s EXCEPT !.rx[e] = NoRx, !.cut = @ \cup {"frame"}]
        BY <1>2, <3>4 DEF bookendSeqOnFrame
      <4>2. [s EXCEPT !.rx[e] = NoRx, !.cut = @ \cup {"frame"}] = With(s, e, NoRx, s.fc, s.cut \cup {"frame"})
        BY <2>1 DEF Sequencer, With
      <4> QED
        BY <4>1, <4>2
    <3>5. CASE f.kind = "cf" /\ r.active /\ ~(f.sn # r.nextSn) /\ r.got + 1 < r.msg.cfs
      <4>1. u = [s EXCEPT !.rx[e].got = @ + 1, !.rx[e].nextSn = (@ + 1) % SnMod]
        BY <1>2, <3>5 DEF bookendSeqOnFrame
      <4> HIDE DEF u
      <4>2. [s EXCEPT !.rx[e].got = @ + 1, !.rx[e].nextSn = (@ + 1) % SnMod] = With(s, e, more, s.fc, s.cut)
        <5>1. s.rx \in [Ecus -> Receiver]
          BY <2>1 DEF Sequencer
        <5>2. [s.rx EXCEPT ![e].got = @ + 1, ![e].nextSn = (@ + 1) % SnMod] = [s.rx EXCEPT ![e] = more]
          <6> HIDE DEF s
          <6> QED
            BY <2>1, <5>1 DEF Receiver
        <5>3. [s EXCEPT !.rx[e].got = @ + 1, !.rx[e].nextSn = (@ + 1) % SnMod]
                = [s EXCEPT !.rx = [s.rx EXCEPT ![e].got = @ + 1, ![e].nextSn = (@ + 1) % SnMod]]
          <6> HIDE DEF s
          <6> QED
            BY <2>1, <5>1 DEF Sequencer
        <5>4. With(s, e, more, s.fc, s.cut) = [s EXCEPT !.rx = [s.rx EXCEPT ![e] = more]]
          <6> HIDE DEF s, more
          <6> QED
            BY <2>1 DEF Sequencer, With
        <5> QED
          BY <5>2, <5>3, <5>4
      <4> QED
        BY <4>1, <4>2
    <3>6. CASE f.kind = "cf" /\ r.active /\ ~(f.sn # r.nextSn) /\ ~(r.got + 1 < r.msg.cfs)
      <4>1. u = handleMessage([s EXCEPT !.rx[e] = NoRx, !.cut = @ \cup {}], e, r.msg)
        BY <1>2, <3>6 DEF bookendSeqOnFrame
      <4>2. [s EXCEPT !.rx[e] = NoRx, !.cut = @ \cup {}] = With(s, e, NoRx, s.fc, s.cut)
        BY <2>1 DEF Sequencer, With
      <4> QED
        BY <4>1, <4>2
    <3>7. f.kind \in {"sf", "ff", "cf", "bad"}
      BY DEF FrameOf
    <3> QED
      BY <2>2, <3>1, <3>2, <3>3, <3>4, <3>5, <3>6, <3>7, <3>8
  <2>f. s0.fc \subseteq fcs /\ (f.kind = "ff" => s0.fc \cup {e} \subseteq fcs)
    OBVIOUS
  <2> HIDE DEF s, e, r, u, broken, first, more, fcs
  <2>7. s.cut \in Marks(s) /\ s.cut \cup {"frame"} \in Marks(s)
    BY DEF Marks
  <2>8. CASE u = s
    BY <2>f, <2>1, <2>8 DEF Good, Kept
  <2>9. CASE u = handleMessage(With(s, e, NoRx, s.fc, broken), e, f.msg)
    <3>1. Good(s, u) /\ u.fc = s.fc
      BY <2>1, <2>3, <2>9, Assembles
    <3> QED
      BY <2>1, <2>f, <2>9, <3>1 DEF Good, Kept
  <2>10. CASE u = With(s, e, first, s.fc \cup {e}, broken) /\ f.kind = "ff"
    <3>1. Good(s, u) /\ u.fc = s.fc \cup {e}
      <4> DEFINE fc == s.fc \cup {e}
      <4>1. fc \in SUBSET Ecus /\ u = With(s, e, first, fc, broken)
        BY <2>3, <2>10
      <4> HIDE DEF fc
      <4>2. Good(s, u) /\ u.fc = fc
        <5>1. s \in Sequencer /\ Honest(s) /\ ~s.finished /\ e \in Ecus /\ broken \in Marks(s)
          BY <2>1, <2>3
        <5>2. Good(s, With(s, e, first, fc, broken)) /\ With(s, e, first, fc, broken).fc = fc
          BY <2>4, <4>1, <5>1, Receives
        <5> QED
          BY <4>1, <5>2
      <4> QED
        BY <4>2 DEF fc
    <3> QED
      BY <2>1, <2>f, <2>10, <3>1 DEF Good, Kept
  <2>11. CASE u = With(s, e, NoRx, s.fc, s.cut \cup {"frame"})
    <3>1. Good(s, u) /\ u.fc = s.fc
      BY <2>1, <2>2, <2>3, <2>7, <2>11, Receives
    <3> QED
      BY <2>1, <2>f, <2>11, <3>1 DEF Good, Kept
  <2>12. CASE u = With(s, e, more, s.fc, s.cut)
    <3>1. Good(s, u) /\ u.fc = s.fc
      BY <2>1, <2>2, <2>5, <2>7, <2>12, Receives
    <3> QED
      BY <2>1, <2>f, <2>12, <3>1 DEF Good, Kept
  <2>13. CASE u = handleMessage(With(s, e, NoRx, s.fc, s.cut), e, r.msg)
    <3>1. Good(s, u) /\ u.fc = s.fc
      BY <2>1, <2>2, <2>3, <2>7, <2>13, Assembles
    <3> QED
      BY <2>1, <2>f, <2>13, <3>1 DEF Good, Kept
  <2> QED
    BY <2>6, <2>8, <2>9, <2>10, <2>11, <2>12, <2>13
<1> QED
  BY <1>1, <1>2

LEMMA TxFails ==
  ASSUME NEW s \in Sequencer, Honest(s)
  PROVE  LET t == bookendSeqTxFailed(s) IN t \in Sequencer /\ Honest(t) /\ Kept(s, t) /\ t.fc = s.fc /\ t.finished
<1>1. CASE s.finished
  BY <1>1 DEF bookendSeqTxFailed, Kept
<1>2. CASE ~s.finished
  <2> DEFINE r == Retire(s, "tx")
             t == [r EXCEPT !.txFailed = TRUE]
  <2>1. bookendSeqTxFailed(s) = finish(t)
    BY <1>2 DEF bookendSeqTxFailed
  <2>2. r \in Sequencer /\ Kept(s, r) /\ r.fc = s.fc
    BY Retires DEF Why
  <2>3. t \in Sequencer /\ t.txFailed /\ Kept(r, t) /\ t.fc = r.fc
    <3> HIDE DEF r
    <3> QED
      BY <2>2 DEF Sequencer, Kept
  <2> HIDE DEF t
  <2>4. finish(t) \in Sequencer /\ Honest(finish(t)) /\ finish(t).finished /\ Kept(t, finish(t)) /\ finish(t).fc = t.fc
    BY <2>3, Finishes
  <2> HIDE DEF r
  <2> QED
    BY <2>1, <2>2, <2>3, <2>4 DEF Kept
<1> QED
  BY <1>1, <1>2

LEMMA Ticks ==
  ASSUME NEW s \in Sequencer, Honest(s)
  PROVE  LET t == SeqTick(s)
         IN  /\ t \in Sequencer /\ Honest(t) /\ t.active = s.active /\ t.kind = s.kind /\ t.fc = s.fc
             /\ t.left > 0 /\ s.active => t.left = s.left - 1
<1>1. CASE ~s.active
  BY <1>1 DEF SeqTick
<1>2. CASE s.active
  <2> DEFINE l == IF s.left > 0 THEN s.left - 1 ELSE s.left
             n == IF s.inflight /\ s.sent < ReqMax THEN s.sent + 1 ELSE s.sent
             k == IF s.inflight /\ s.quiet < Quiet THEN s.quiet + 1 ELSE s.quiet
             t == [s EXCEPT !.left = l, !.sent = n, !.quiet = k]
  <2>1. l \in Int /\ n \in Nat /\ k \in Nat /\ (l > 0 => l = s.left - 1)
    BY DEF Sequencer
  <2>2. SeqTick(s) = t
    BY <1>2 DEF SeqTick, Sequencer
  <2> HIDE DEF l, n, k
  <2>3. t \in Sequencer /\ Honest(t) /\ t.active = s.active /\ t.kind = s.kind /\ t.left = l /\ t.fc = s.fc
    BY <2>1 DEF Sequencer, Honest
  <2> HIDE DEF t
  <2> QED
    BY <2>1, <2>2, <2>3
<1> QED
  BY <1>1, <1>2

-----------------------------------------------------------------------------
LEMMA PollConstants ==
  /\ OffDebounce \in Nat /\ EndMargin \in Nat /\ OffDebounce > EndMargin + MinStart
  /\ StartBudget \in Nat /\ PlanMax \in Nat
  /\ ReplyTimeout \in Nat /\ Gap \in Nat /\ BackoffMax \in Nat /\ MissCap \in Nat
  /\ PeriodMin \in Nat /\ PeriodMin > 0 /\ PeriodMax \in Nat /\ MaxPolls \in Nat
BY PollAssumption

LEMMA SilentTypes == Silent \in Sender /\ First \in Int /\ WaitsFc \in Int /\ Idle \in Int
BY Empty DEF Silent, Sender, First, WaitsFc, Idle

LEMMA Heard ==
  ASSUME BusTypes, NEW req, Hear(req)
  PROVE  ecu' \in [Ecus -> Sender]
<1> DEFINE Hears(e) == {ecu[e]} \cup {[msg |-> m, next |-> First] : m \in Answers(e, req)}
<1>1. ecu' \in [Ecus -> UNION {Hears(e) : e \in Ecus}] /\ \A e \in Ecus : ecu'[e] \in Hears(e)
  BY DEF Hear
<1>2. ASSUME NEW e \in Ecus PROVE ecu'[e] \in Sender
  <2>1. ecu'[e] \in Hears(e)
    BY <1>1
  <2>2. ecu[e] \in Sender
    BY DEF BusTypes
  <2>3. ASSUME NEW m \in Answers(e, req) PROVE [msg |-> m, next |-> First] \in Sender
    <3>1. m \in Message
      BY PollAssumption DEF BusTypes, Answers
    <3> QED
      BY <3>1, SilentTypes DEF Sender
  <2> QED
    BY <2>1, <2>2, <2>3
<1> HIDE DEF Hears
<1> QED
  BY <1>1, <1>2

LEMMA FrameTypes ==
  ASSUME BusTypes, NEW e \in Ecus
  PROVE  Frame(e) \in FrameOf
<1>1. ecu[e].msg \in Message /\ ecu[e].next \in Int
  BY DEF BusTypes, Sender
<1>2. ecu[e].next % SnMod \in Int
  BY <1>1, BookendConstants
<1> DEFINE sn == IF ecu[e].next = First THEN 0 ELSE ecu[e].next % SnMod
           kind == IF ecu[e].next # First THEN "cf" ELSE IF ecu[e].msg.cfs = 0 THEN "sf" ELSE "ff"
<1>3. sn \in Int /\ kind \in {"sf", "ff", "cf"}
  BY <1>2
<1>4. Frame(e) = [from |-> e, msg |-> ecu[e].msg, kind |-> kind, sn |-> sn]
  BY DEF Frame
<1> HIDE DEF sn, kind
<1> QED
  BY <1>1, <1>3, <1>4 DEF FrameOf

LEMMA BusStep ==
  ASSUME BusTypes, [PollNext]_pollVars
  PROVE  BusTypes'
<1> USE DEF BusTypes
<1>e. <<>> \in Seq(FrameOf)
  OBVIOUS
<1>1. CASE UNCHANGED <<car, q, ecu>>
  BY <1>1
<1>2. ASSUME NEW m, applyMode(m) PROVE q' = <<>>
  BY <1>2 DEF applyMode, pollerEnter
<1>3. CASE Boots
  BY <1>3, <1>e DEF Boots
<1>4. CASE Ignition
  <2>1. q' = <<>> \/ q' = q
    BY <1>2, <1>4 DEF Ignition
  <2> QED
    BY <1>4, <1>e, <2>1 DEF Ignition
<1>5. CASE Choose
  BY <1>2, <1>5, <1>e DEF Choose
<1>6. CASE Post
  BY <1>6, <1>e DEF Post, pollerEnter
<1>7. CASE Drain
  <2>1. q # <<>> => Tail(q) \in Seq(FrameOf)
    OBVIOUS
  <2> QED
    BY <1>7, <2>1 DEF Drain
<1>8. CASE BookendTick
  <2>1. ASSUME NEW e PROVE [ecu EXCEPT ![e].next = IF @ = WaitsFc THEN 1 ELSE @] \in [Ecus -> Sender]
    <3>1. CASE e \in Ecus
      <4> DEFINE n == IF ecu[e].next = WaitsFc THEN 1 ELSE ecu[e].next
      <4>1. ecu[e] \in Sender /\ n \in Int
        BY <3>1 DEF Sender
      <4>2. [ecu EXCEPT ![e].next = IF @ = WaitsFc THEN 1 ELSE @] = [ecu EXCEPT ![e] = [ecu[e] EXCEPT !.next = n]]
        BY <3>1
      <4> HIDE DEF n
      <4>3. [ecu[e] EXCEPT !.next = n] \in Sender
        BY <4>1 DEF Sender
      <4> QED
        BY <4>2, <4>3
    <3>2. CASE e \notin Ecus
      <4>1. [ecu EXCEPT ![e].next = IF @ = WaitsFc THEN 1 ELSE @] = ecu
        BY <3>2
      <4> QED
        BY <4>1
    <3> QED
      BY <3>1, <3>2
  <2>2. ecu' \in [Ecus -> Sender]
    BY <1>8, <2>1, Heard DEF BookendTick
  <2> QED
    BY <1>8, <2>2 DEF BookendTick
<1>9. CASE PollPlan
  <2>1. ecu' \in [Ecus -> Sender]
    BY <1>9, Heard DEF PollPlan
  <2> QED
    BY <1>9, <2>1 DEF PollPlan
<1>10. ASSUME NEW e \in Ecus, EcuSends(e) PROVE BusTypes'
  <2>1. ecu[e] \in Sender /\ ecu[e].next \in Int
    BY DEF Sender
  <2>2. AfterFrame(ecu[e]) \in Sender
    <3>1. \A n \in Int : [ecu[e] EXCEPT !.next = n] \in Sender
      BY <2>1 DEF Sender
    <3>2. ecu[e].next + 1 \in Int
      BY <2>1
    <3> QED
      BY <3>1, <3>2, SilentTypes DEF AfterFrame
  <2>3. ecu' = [ecu EXCEPT ![e] = AfterFrame(ecu[e])]
    BY <1>10 DEF EcuSends
  <2>4. q' \in Seq(FrameOf)
    <3>1. ASSUME NEW f \in FrameOf PROVE Noted(f) \in Seq(FrameOf)
      BY <3>1 DEF Noted
    <3>0. ASSUME NEW f \in FrameOf PROVE [f EXCEPT !.kind = "bad"] \in FrameOf
      BY <3>0 DEF FrameOf
    <3>2. Frame(e) \in FrameOf /\ [Frame(e) EXCEPT !.kind = "bad"] \in FrameOf
      BY <3>0, FrameTypes
    <3> QED
      BY <1>10, <3>1, <3>2 DEF EcuSends
  <2> QED
    BY <1>10, <2>2, <2>3, <2>4 DEF EcuSends
<1>11. ASSUME NEW e \in Ecus, EcuGivesUp(e) PROVE BusTypes'
  <2>1. ecu' \in [Ecus -> Sender]
    BY <1>11, SilentTypes DEF EcuGivesUp
  <2> QED
    BY <1>11, <2>1 DEF EcuGivesUp
<1>12. CASE Pass \/ Tick \/ Turn \/ Ask \/ Cancel \/ PostFails \/ Nothing \/ Triggers
  BY <1>12, <1>1 DEF Pass, Tick, Turn, Ask, Cancel, PostFails, Nothing, Triggers, bus
<1> QED
  BY <1>1, <1>3, <1>4, <1>5, <1>6, <1>7, <1>8, <1>9, <1>10, <1>11, <1>12 DEF PollNext, pollVars

-----------------------------------------------------------------------------
LEMMA Writes ==
  ASSUME RecordInv, NEW s \in Sequencer, Honest(s), bookendWrite(s)
  PROVE  RecordInv'
<1>1. bk' = NoSeq /\ bk' \in Sequencer /\ Honest(bk)'
  BY Empty DEF bookendWrite, Honest
<1>2. CompleteIsHonest'
  <2>1. CASE bookendSeqShouldWrite(s)
    <3>1. wrote' = [kind |-> s.kind, complete |-> s.complete, cut |-> s.cut, omits |-> s.count # s.given]
      BY <2>1 DEF bookendWrite
    <3> QED
      BY <3>1 DEF CompleteIsHonest, Honest, Spared
  <2>2. CASE ~bookendSeqShouldWrite(s)
    BY <2>2 DEF bookendWrite, RecordInv, CompleteIsHonest
  <2> QED
    BY <2>1, <2>2
<1> QED
  BY <1>1, <1>2 DEF RecordInv

LEMMA Exits ==
  ASSUME RecordInv, pollerExit
  PROVE  RecordInv'
<1>1. bk \in Sequencer /\ Honest(bk)
  BY DEF RecordInv
<1>2. CASE bk.active
  <2>1. bookendSeqTxFailed(bk) \in Sequencer /\ Honest(bookendSeqTxFailed(bk))
    BY <1>1, TxFails
  <2>2. bookendWrite(bookendSeqTxFailed(bk))
    BY <1>2 DEF pollerExit
  <2> QED
    BY <2>1, <2>2, Writes
<1>3. CASE ~bk.active
  BY <1>3 DEF pollerExit, RecordInv, Honest, CompleteIsHonest
<1> QED
  BY <1>2, <1>3

LEMMA RecordStays ==
  ASSUME RecordInv, bk' \in Sequencer, Honest(bk'), wrote' = wrote \/ wrote' = NotWritten
  PROVE  RecordInv'
<1>1. Honest(bk)'
  BY DEF Honest
<1>2. ~NotWritten.complete
  BY DEF NotWritten
<1> QED
  BY <1>1, <1>2 DEF RecordInv, CompleteIsHonest

LEMMA RecordStep ==
  ASSUME BusTypes, RecordInv, edge \in Nat, [PollNext]_pollVars
  PROVE  RecordInv'
<1>0. bk \in Sequencer /\ Honest(bk) /\ NoSeq \in Sequencer /\ Honest(NoSeq)
  BY Empty DEF RecordInv
<1>1. CASE UNCHANGED <<bk, wrote>>
  BY <1>0, <1>1, RecordStays
<1>2. ASSUME NEW m, applyMode(m) PROVE RecordInv'
  BY <1>2, Exits DEF applyMode
<1>3. CASE Boots
  BY <1>0, <1>3, RecordStays DEF Boots
<1>4. CASE Ignition
  BY <1>1, <1>2, <1>4 DEF Ignition
<1>5. CASE Choose
  BY <1>2, <1>5 DEF Choose
<1>6. CASE Drain
  <2>1. CASE Active /\ q # <<>> /\ bk.active
    <3>1. Head(q) \in FrameOf
      BY <2>1 DEF BusTypes
    <3>2. bookendSeqOnFrame(bk, Head(q)) \in Sequencer /\ Honest(bookendSeqOnFrame(bk, Head(q)))
      BY <1>0, <3>1, Frames DEF Good
    <3>3. bk' = bookendSeqOnFrame(bk, Head(q)) \/ bk' = bk
      BY <1>6 DEF Drain
    <3>4. wrote' = wrote
      BY <1>6 DEF Drain
    <3> QED
      BY <1>0, <3>2, <3>3, <3>4, RecordStays
  <2>2. CASE ~(Active /\ q # <<>> /\ bk.active)
    BY <1>1, <1>6, <2>2 DEF Drain
  <2> QED
    BY <2>1, <2>2
<1>7. CASE Triggers
  <2>1. EndBudget \in Int
    BY PollConstants DEF EndBudget
  <2>2. bookendSeqStart("start", StartBudget) \in Sequencer /\ Honest(bookendSeqStart("start", StartBudget))
    BY PollConstants, Starts
  <2>3. bookendSeqStart("end", EndBudget) \in Sequencer /\ Honest(bookendSeqStart("end", EndBudget))
    BY <2>1, Starts
  <2>4. bk' \in {bk, NoSeq, bookendSeqStart("start", StartBudget), bookendSeqStart("end", EndBudget)}
    BY <1>7 DEF Triggers, bookendTriggers, trip
  <2>5. wrote' = wrote
    BY <1>7 DEF Triggers
  <2>6. bk' \in Sequencer /\ Honest(bk')
    BY <1>0, <2>2, <2>3, <2>4
  <2> QED
    BY <2>5, <2>6, RecordStays
<1>8. CASE BookendTick
  <2> DEFINE p == bookendSeqPoll(bk)
  <2>1. p.seq \in Sequencer /\ Honest(p.seq)
    BY <1>0, Polls
  <2>2. bookendSeqTxFailed(p.seq) \in Sequencer /\ Honest(bookendSeqTxFailed(p.seq))
    BY <2>1, TxFails
  <2>3. \/ bookendWrite(p.seq)
        \/ bk' = p.seq /\ wrote' = wrote
        \/ bk' = bookendSeqTxFailed(p.seq) /\ wrote' = wrote
    BY <1>8 DEF BookendTick
  <2> HIDE DEF p
  <2> QED
    BY <2>1, <2>2, <2>3, RecordStays, Writes
<1>9. CASE Tick
  BY <1>0, <1>9, Ticks, RecordStays DEF Tick
<1>10. CASE Pass
  BY <1>0, <1>10, RecordStays DEF Pass
<1>11. CASE Turn \/ Ask \/ Cancel \/ Post \/ PostFails \/ Nothing \/ PollPlan
            \/ \E e \in Ecus : EcuSends(e) \/ EcuGivesUp(e)
  BY <1>1, <1>11 DEF Turn, Ask, Cancel, Post, PostFails, Nothing, PollPlan, EcuSends, EcuGivesUp
<1> QED
  BY <1>1, <1>3, <1>4, <1>5, <1>6, <1>7, <1>8, <1>9, <1>10, <1>11 DEF PollNext, pollVars

-----------------------------------------------------------------------------
(* Numbers that differ can be put in order: each is given the place that   *)
(* the number of smaller ones leaves it.                                   *)
LEMMA Ranks ==
  ASSUME NEW n \in Nat, NEW v \in [1 .. n -> Int], \A i, j \in 1 .. n : i # j => v[i] # v[j]
  PROVE  \E f \in [1 .. n -> 1 .. n] : \A k \in 1 .. n - 1 : v[f[k]] < v[f[k + 1]]
<1> DEFINE D == 1 .. n
           Below(i) == {j \in D : v[j] < v[i]}
           place == [i \in D |-> Cardinality(Below(i)) + 1]
<1>0. IsFiniteSet(D) /\ Cardinality(D) = n
  BY FS_Interval
<1>1. ASSUME NEW i \in D
      PROVE  IsFiniteSet(Below(i)) /\ Cardinality(Below(i)) \in Nat /\ place[i] = Cardinality(Below(i)) + 1
             /\ place[i] \in D
  <2>1. IsFiniteSet(D \ {i}) /\ Cardinality(D \ {i}) = n - 1
    BY <1>0, FS_RemoveElement
  <2>2. Below(i) \in SUBSET (D \ {i})
    OBVIOUS
  <2>3. IsFiniteSet(Below(i)) /\ Cardinality(Below(i)) <= n - 1
    BY <2>1, <2>2, FS_Subset
  <2>4. Cardinality(Below(i)) \in Nat
    BY <2>3, FS_CardinalityType
  <2>5. place[i] = Cardinality(Below(i)) + 1
    OBVIOUS
  <2> HIDE DEF place, Below
  <2> QED
    BY <2>3, <2>4, <2>5
<1>2. ASSUME NEW i \in D, NEW j \in D, v[i] < v[j] PROVE place[i] < place[j]
  <2>1. Below(i) \in SUBSET Below(j) /\ i \in Below(j) /\ i \notin Below(i)
    BY <1>2
  <2>2. Cardinality(Below(i)) <= Cardinality(Below(j)) /\ Cardinality(Below(i)) # Cardinality(Below(j))
    <3> HIDE DEF Below
    <3> QED
      BY <1>1, <2>1, FS_Subset
  <2> HIDE DEF place, Below
  <2> QED
    BY <1>1, <2>2
<1>3. place \in Surjection(D, D)
  <2>1. place \in [D -> D]
    BY <1>1
  <2>2. ASSUME NEW i \in D, NEW j \in D, i # j PROVE place[i] # place[j]
    <3>1. v[i] \in Int /\ v[j] \in Int /\ v[i] # v[j]
      BY <2>2
    <3>2. place[i] < place[j] \/ place[j] < place[i]
      <4> HIDE DEF place, D
      <4>1. CASE v[i] < v[j]
        BY <1>2, <2>2, <4>1
      <4>2. CASE v[j] < v[i]
        BY <1>2, <2>2, <4>2
      <4> QED
        BY <3>1, <4>1, <4>2
    <3>3. place[i] \in Int /\ place[j] \in Int
      BY <2>1, <2>2
    <3> HIDE DEF place
    <3> QED
      BY <3>2, <3>3
  <2> HIDE DEF place
  <2>3. place \in Injection(D, D)
    BY <2>1, <2>2 DEF Injection, IsInjective
  <2> QED
    BY <1>0, <2>3, FS_Injection
<1>4. \A k \in D : \E i \in D : place[i] = k
  <2> HIDE DEF place
  <2> QED
    BY <1>3 DEF Surjection
<1> DEFINE f == [k \in D |-> CHOOSE i \in D : place[i] = k]
<1>5. f \in [D -> D] /\ \A k \in D : place[f[k]] = k
  <2> HIDE DEF place
  <2> QED
    BY <1>4
<1> HIDE DEF f
<1>6. ASSUME NEW k \in 1 .. n - 1 PROVE v[f[k]] < v[f[k + 1]]
  <2>1. k \in D /\ k + 1 \in D /\ k # k + 1
    OBVIOUS
  <2>2. f[k] \in D /\ f[k + 1] \in D /\ place[f[k]] = k /\ place[f[k + 1]] = k + 1
    BY <1>5, <2>1
  <2>3. v[f[k]] \in Int /\ v[f[k + 1]] \in Int
    BY <2>2
  <2>4. CASE v[f[k]] > v[f[k + 1]]
    <3> HIDE DEF place
    <3>1. place[f[k + 1]] < place[f[k]]
      BY <1>2, <2>2, <2>4
    <3> QED
      BY <2>2, <3>1
  <2>5. CASE v[f[k]] = v[f[k + 1]]
    <3> HIDE DEF place
    <3>1. f[k] = f[k + 1]
      BY <2>2, <2>5
    <3> QED
      BY <2>1, <2>2, <3>1
  <2> QED
    BY <2>3, <2>4, <2>5
<1> QED
  BY <1>5, <1>6

LEMMA Arranges ==
  ASSUME NEW b \in Seq(AnyEntry),
         \A i \in DOMAIN b : EntryValid(b[i]) /\ \A j \in DOMAIN b \ {i} : b[i].pid # b[j].pid
  PROVE  \E p \in [DOMAIN b -> {b[i] : i \in DOMAIN b}] : Sorted(p)
<1> DEFINE n == Len(b)
           v == [i \in 1 .. n |-> b[i].pid]
<1>1. n \in Nat /\ DOMAIN b = 1 .. n /\ \A i \in 1 .. n : b[i] \in AnyEntry
  OBVIOUS
<1>2. v \in [1 .. n -> Int] /\ \A i, j \in 1 .. n : i # j => v[i] # v[j]
  BY <1>1 DEF AnyEntry
<1>3. PICK f \in [1 .. n -> 1 .. n] : \A k \in 1 .. n - 1 : v[f[k]] < v[f[k + 1]]
  <2> HIDE DEF v
  <2> QED
    BY <1>1, <1>2, Ranks
<1> DEFINE p == [k \in 1 .. n |-> b[f[k]]]
<1>4. p \in [DOMAIN b -> {b[i] : i \in DOMAIN b}] /\ Len(p) = n
  BY <1>1
<1>5. ASSUME NEW k \in 1 .. n - 1 PROVE cmpEntry(p[k], p[k + 1])
  <2>1. k \in 1 .. n /\ k + 1 \in 1 .. n
    BY <1>1
  <2>2. f[k] \in DOMAIN b /\ f[k + 1] \in DOMAIN b /\ p[k] = b[f[k]] /\ p[k + 1] = b[f[k + 1]]
    BY <1>1, <2>1
  <2>3. b[f[k]].mode = 1 /\ b[f[k + 1]].mode = 1
    BY <2>2 DEF EntryValid
  <2>4. b[f[k]].pid < b[f[k + 1]].pid
    BY <1>1, <1>3, <2>2
  <2> HIDE DEF p
  <2> QED
    BY <2>2, <2>3, <2>4 DEF cmpEntry
<1> HIDE DEF p
<1>6. Sorted(p)
  BY <1>4, <1>5 DEF Sorted
<1> QED
  BY <1>4, <1>6

LEMMA Parses ==
  ASSUME NEW body, body.entries \in Seq(AnyEntry), pollPlanAccepts(body)
  PROVE  pollPlanParse(body) \in AnyPlan /\ planValid(pollPlanParse(body))
<1> DEFINE b == body.entries
           p == pollPlanParse(body)
<1>1. \A i \in DOMAIN b : EntryValid(b[i]) /\ \A j \in DOMAIN b \ {i} : b[i].pid # b[j].pid
  BY DEF pollPlanAccepts
<1>2. p \in [DOMAIN b -> {b[i] : i \in DOMAIN b}] /\ Sorted(p)
  <2>1. \E x \in [DOMAIN b -> {b[i] : i \in DOMAIN b}] : Sorted(x)
    BY <1>1, Arranges
  <2> QED
    BY <2>1 DEF pollPlanParse
<1> HIDE DEF p
<1>3. Len(b) \in Nat /\ DOMAIN b = 1 .. Len(b) /\ Len(b) <= PlanMax /\ \A i \in DOMAIN b : b[i] \in AnyEntry
  BY DEF pollPlanAccepts
<1>4. p \in Seq(AnyEntry) /\ Len(p) = Len(b) /\ \A i \in DOMAIN p : EntryValid(p[i])
  <2> HIDE DEF b
  <2>1. ASSUME NEW i \in DOMAIN b PROVE p[i] \in AnyEntry /\ EntryValid(p[i])
    <3>1. \E j \in DOMAIN b : p[i] = b[j]
      BY <1>2
    <3> QED
      BY <1>1, <1>3, <3>1
  <2>2. DOMAIN p = 1 .. Len(b) /\ p \in [1 .. Len(b) -> AnyEntry]
    BY <1>2, <1>3, <2>1
  <2>3. p \in Seq(AnyEntry) /\ Len(p) = Len(b)
    BY <1>3, <2>2
  <2> QED
    BY <1>3, <2>1, <2>2, <2>3
<1>5. planValid(p)
  BY <1>2, <1>3, <1>4 DEF planValid
<1> QED
  BY <1>4, <1>5 DEF AnyPlan, p

LEMMA NoPlan == <<>> \in AnyPlan /\ planValid(<<>>)
BY PollConstants DEF AnyPlan, planValid, Sorted

LEMMA Loads ==
  ASSUME NEW n, n.plan \in AnyPlan
  PROVE  loadNvs(n) \in AnyPlan /\ planValid(loadNvs(n)) /\ (n.ok /\ planValid(n.plan) => loadNvs(n) = n.plan)
BY NoPlan DEF loadNvs

LEMMA PlanInit ==
  ASSUME PollInit
  PROVE  PlanInv
<1>1. nvs.ok \in BOOLEAN /\ nvs.plan \in AnyPlan
  BY PollAssumption DEF PollInit, AnyPlan
<1>2. plan = loadNvs(nvs) /\ nvsOk = (nvs.ok /\ planValid(nvs.plan))
  BY DEF PollInit
<1> QED
  BY <1>1, <1>2, Loads DEF PlanInv, VouchedPlan

LEMMA PlanStep ==
  ASSUME BusTypes, PlanInv, [PollNext]_pollVars
  PROVE  PlanInv'
<1>1. CASE UNCHANGED boot
  BY <1>1 DEF boot, PlanInv, VouchedPlan
<1>2. CASE Post
  <2>1. PICK body \in car.bodies : pollPlanAccepts(body) /\ nvs' = saveNvs(pollPlanParse(body))
                                   /\ plan' = pollPlanParse(body) /\ nvsOk' = TRUE
    BY <1>2 DEF Post
  <2>2. body.entries \in Seq(AnyEntry)
    BY PollAssumption DEF BusTypes
  <2>3. plan' \in AnyPlan /\ planValid(plan') /\ nvs'.ok = TRUE /\ nvs'.plan = plan'
    BY <2>1, <2>2, Parses DEF saveNvs
  <2> QED
    BY <2>3 DEF PlanInv, VouchedPlan, planValid, Sorted
<1>3. CASE Boots
  <2>1. nvs' = nvs
    BY <1>3 DEF Boots
  <2>2. \/ plan' = loadNvs(nvs) /\ nvsOk' = (nvs.ok /\ planValid(nvs.plan))
        \/ plan' = <<>> /\ nvsOk' = FALSE
    BY <1>3 DEF Boots
  <2>3. plan' \in AnyPlan /\ planValid(plan') /\ (nvsOk' => nvs.ok /\ plan' = nvs.plan)
    BY <2>2, NoPlan, Loads DEF PlanInv
  <2> QED
    BY <2>1, <2>3 DEF PlanInv, VouchedPlan, planValid, Sorted
<1>4. CASE Ignition
  BY <1>1, <1>4 DEF Ignition
<1>5. CASE Pass \/ Tick \/ Turn \/ Ask \/ Choose \/ Cancel \/ PostFails \/ Nothing \/ Drain \/ Triggers \/ BookendTick \/ PollPlan
           \/ \E e \in Ecus : EcuSends(e) \/ EcuGivesUp(e)
  BY <1>1, <1>5 DEF Pass, Tick, Turn, Ask, Choose, Cancel, PostFails, Nothing, Drain, Triggers, BookendTick, PollPlan,
                    EcuSends, EcuGivesUp
<1> QED
  BY <1>1, <1>2, <1>3, <1>4, <1>5 DEF PollNext, pollVars, boot

-----------------------------------------------------------------------------
LEMMA Shape ==
  ASSUME NEW s, Scheduler(s)
  PROVE  /\ s.late \in [DOMAIN s.plan -> Int] /\ s.misses \in [DOMAIN s.plan -> 0 .. MissCap]
         /\ s.plan \in AnyPlan /\ DOMAIN s.plan = 1 .. Len(s.plan) /\ Len(s.plan) \in Nat
         /\ s.inflight \in 0 .. Len(s.plan) /\ (s.inflight # 0 => s.inflight \in DOMAIN s.plan)
         /\ s.sent \in Nat /\ s.gap \in Nat /\ 0 \notin DOMAIN s.plan
         /\ \A i \in DOMAIN s.plan : s.plan[i].period \in Nat /\ s.plan[i].period > 0
<1>1. s.plan \in Seq(AnyEntry) /\ s.late \in [DOMAIN s.plan -> Int] /\ s.misses \in [DOMAIN s.plan -> 0 .. MissCap]
      /\ s.inflight \in 0 .. Len(s.plan) /\ s.sent \in Nat /\ s.gap \in Nat
  BY DEF Scheduler, AnyPlan
<1>2. DOMAIN s.plan = 1 .. Len(s.plan) /\ Len(s.plan) \in Nat
  BY <1>1
<1>3. ASSUME NEW i \in DOMAIN s.plan PROVE s.plan[i].period \in Nat /\ s.plan[i].period > 0
  <2>1. EntryValid(s.plan[i])
    BY DEF Scheduler, planValid
  <2>2. s.plan[i].period \in PeriodMin .. PeriodMax
    BY <2>1 DEF EntryValid
  <2> QED
    BY <2>2, PollConstants
<1> QED
  BY <1>1, <1>2, <1>3 DEF AnyPlan

LEMMA FairAtFirst ==
  ASSUME NEW p \in AnyPlan, planValid(p)
  PROVE  Fair(pollSchedInit(p), NoServed(p), NoLast(p))
<1> DEFINE s == pollSchedInit(p)
<1> SUFFICES Fair(s, NoServed(p), NoLast(p))
  OBVIOUS
<1>0. DOMAIN p = 1 .. Len(p) /\ Len(p) \in Nat
  BY DEF AnyPlan
<1>1. s.plan = p /\ Scheduler(s)
  BY <1>0, PollConstants DEF pollSchedInit, Scheduler
<1>2. NoLast(p) \in [DOMAIN p -> Nat \cup {-1}] /\ \A i \in DOMAIN p : NoLast(p)[i] = -1
  BY DEF NoLast
<1>3. NoServed(p) \in [DOMAIN p -> SUBSET DOMAIN p] /\ \A i \in DOMAIN p : NoServed(p)[i] = {}
  BY DEF NoServed
<1> HIDE DEF s
<1> QED
  BY <1>1, <1>2, <1>3 DEF Fair, Spaced

LEMMA FairEmpty == Fair(pollSchedInit(<<>>), <<>>, <<>>)
<1>1. NoServed(<<>>) = <<>> /\ NoLast(<<>>) = <<>>
  BY DEF NoServed, NoLast
<1> QED
  BY <1>1, NoPlan, FairAtFirst

(* Retiring the request in flight, with a new due date.                    *)
LEMMA Retired ==
  ASSUME NEW s, NEW srv, NEW last, Fair(s, srv, last), s.inflight # 0,
         NEW late \in Int, NEW misses \in 0 .. MissCap, NEW ok \in BOOLEAN,
         late <= s.sent - s.plan[s.inflight].period
  PROVE  Fair([s EXCEPT !.misses = [s.misses EXCEPT ![s.inflight] = misses],
                        !.late = [s.late EXCEPT ![s.inflight] = late], !.inflight = 0, !.anyOk = ok], srv, last)
<1> DEFINE i == s.inflight
           m == [s.misses EXCEPT ![i] = misses]
           l == [s.late EXCEPT ![i] = late]
           t == [s EXCEPT !.misses = m, !.late = l, !.inflight = 0, !.anyOk = ok]
<1>1. Scheduler(s) /\ i \in DOMAIN s.plan /\ s.plan[i].period \in Nat /\ s.plan[i].period > 0
  BY Shape DEF Fair
<1>2. l \in [DOMAIN s.plan -> Int] /\ m \in [DOMAIN s.plan -> 0 .. MissCap] /\ l[i] = late
      /\ \A j \in DOMAIN s.plan : j # i => l[j] = s.late[j]
  BY <1>1, Shape
<1>0. 0 \in 0 .. Len(s.plan)
  BY <1>1, Shape
<1> HIDE DEF l, m
<1>3. t.plan = s.plan /\ t.late = l /\ t.inflight = 0 /\ t.sent = s.sent /\ Scheduler(t)
  BY <1>0, <1>1, <1>2 DEF Scheduler
<1> HIDE DEF t
<1>4. ASSUME NEW j \in DOMAIN s.plan PROVE Spaced(t, last, j)
  <2>1. Spaced(s, last, j) /\ last[j] \in Nat \cup {-1}
    BY DEF Fair
  <2>2. CASE j = i
    BY <1>1, <1>2, <1>3, <2>1, <2>2, Shape DEF Spaced
  <2>3. CASE j # i
    BY <1>1, <1>2, <1>3, <2>1, <2>3, Shape DEF Spaced
  <2> QED
    BY <2>2, <2>3
<1>5. ASSUME NEW j \in DOMAIN s.plan, NEW k \in srv[j] PROVE Behind(t, k, j)
  <2>1. Behind(s, k, j) /\ k \in DOMAIN s.plan
    BY DEF Fair
  <2>2. j # i /\ l[j] = s.late[j] /\ s.late[j] \in Int /\ s.late[k] \in Int /\ s.sent \in Nat
    BY <1>1, <1>2, <2>1, Shape DEF Behind
  <2>3. CASE k = i
    <3>1. t.late[j] = s.late[j] /\ t.late[k] = late /\ t.inflight = 0 /\ 0 # j /\ 0 # k
      BY <1>1, <1>2, <1>3, <2>1, <2>2, <2>3, Shape
    <3>2. k # j /\ s.late[j] >= 0 /\ s.late[j] >= s.sent
      BY <2>1, <2>3 DEF Behind
    <3>3. late < s.sent
      BY <1>1, <2>2
    <3>4. late < s.late[j]
      BY <2>2, <3>2, <3>3
    <3> QED
      BY <3>1, <3>2, <3>4 DEF Behind
  <2>4. CASE k # i
    <3>1. t.late[j] = s.late[j] /\ t.late[k] = s.late[k] /\ t.inflight = 0 /\ 0 # j /\ 0 # k
      BY <1>1, <1>2, <1>3, <2>1, <2>2, <2>4, Shape
    <3>2. k # j /\ s.late[j] >= 0 /\ s.late[k] < s.late[j]
      BY <2>1, <2>4 DEF Behind
    <3> QED
      BY <3>1, <3>2 DEF Behind
  <2> QED
    BY <2>3, <2>4
<1>6. Fair(t, srv, last)
  BY <1>3, <1>4, <1>5 DEF Fair
<1> QED
  BY <1>6 DEF t, l, m

LEMMA AtLeast ==
  ASSUME NEW a \in Nat, NEW t \in Nat, t > 0
  PROVE  a * t \in Nat /\ a * t >= a
OBVIOUS

LEMMA BacksOff ==
  ASSUME NEW period \in Nat, NEW misses \in 0 .. MissCap
  PROVE  pollBackoffMs(period, misses) \in Int /\ pollBackoffMs(period, misses) >= period
<1> DEFINE t == 2 ^ misses
           b == period * t
           most == IF BackoffMax > period THEN BackoffMax ELSE period
<1>1. t \in Nat /\ t > 0
  <2>1. t \in Nat \ {0}
    BY PollAssumption
  <2> HIDE DEF t
  <2> QED
    BY <2>1
<1>2. pollBackoffMs(period, misses) = IF b > most THEN most ELSE b
  BY DEF pollBackoffMs
<1> HIDE DEF t
<1>3. b \in Nat /\ b >= period
  BY <1>1, AtLeast
<1>4. most \in Nat /\ most >= period
  BY PollConstants
<1> HIDE DEF b, most
<1> QED
  BY <1>2, <1>3, <1>4

LEMMA TimesOut ==
  ASSUME NEW s, NEW srv, NEW last, Fair(s, srv, last)
  PROVE  LET t == pollSchedCheckTimeout(s)
         IN  Fair(t, srv, last) /\ t.plan = s.plan /\ (t.inflight = s.inflight \/ t.inflight = 0)
<1> DEFINE u == pollSchedCheckTimeout(s)
<1> SUFFICES Fair(u, srv, last) /\ u.plan = s.plan /\ (u.inflight = s.inflight \/ u.inflight = 0)
  OBVIOUS
<1>1. CASE s.inflight = 0 \/ s.sent < ReplyTimeout
  BY <1>1 DEF pollSchedCheckTimeout
<1>2. CASE ~(s.inflight = 0 \/ s.sent < ReplyTimeout)
  <2> DEFINE i == s.inflight
             misses == IF s.misses[i] < MissCap THEN s.misses[i] + 1 ELSE s.misses[i]
             late == - pollBackoffMs(s.plan[i].period, misses)
             t == [s EXCEPT !.misses = [s.misses EXCEPT ![i] = misses],
                            !.late = [s.late EXCEPT ![i] = late], !.inflight = 0, !.anyOk = s.anyOk]
  <2>1. Scheduler(s) /\ i \in DOMAIN s.plan /\ s.plan[i].period \in Nat /\ s.sent \in Nat
        /\ s.misses[i] \in 0 .. MissCap
    BY <1>2, Shape DEF Fair
  <2>2. misses \in 0 .. MissCap
    BY <2>1, PollConstants
  <2>3. u = t
    <3>1. u = [s EXCEPT !.misses[i] = misses, !.late[i] = - pollBackoffMs(s.plan[i].period, misses), !.inflight = 0]
      BY <1>2 DEF pollSchedCheckTimeout
    <3> HIDE DEF misses, u, late
    <3>2. t = [s EXCEPT !.misses[i] = misses, !.late[i] = late, !.inflight = 0]
      BY <2>1 DEF Scheduler
    <3> QED
      BY <3>1, <3>2 DEF late
  <2> HIDE DEF misses, u
  <2>4. late \in Int /\ late <= s.sent - s.plan[i].period
    <3>1. pollBackoffMs(s.plan[i].period, misses) \in Int
          /\ pollBackoffMs(s.plan[i].period, misses) >= s.plan[i].period
      BY <2>1, <2>2, BacksOff
    <3> QED
      BY <2>1, <3>1
  <2> HIDE DEF late
  <2>5. s.anyOk \in BOOLEAN
    BY <2>1 DEF Scheduler
  <2>6. Fair(t, srv, last)
    BY <1>2, <2>2, <2>4, <2>5, Retired
  <2>7. t.plan = s.plan /\ t.inflight = 0
    BY <2>1 DEF Scheduler
  <2> HIDE DEF t
  <2> QED
    BY <2>3, <2>6, <2>7
<1> QED
  BY <1>1, <1>2

LEMMA Replies ==
  ASSUME NEW s, NEW srv, NEW last, Fair(s, srv, last), NEW f
  PROVE  Fair(pollSchedOnFrame(s, f), srv, last)
<1> DEFINE u == pollSchedOnFrame(s, f)
           i == s.inflight
           late == s.sent - s.plan[i].period
           t == [s EXCEPT !.misses = [s.misses EXCEPT ![i] = 0],
                          !.late = [s.late EXCEPT ![i] = late], !.inflight = 0, !.anyOk = TRUE]
<1>1. CASE u = s
  <2> HIDE DEF u
  <2>1. Fair(u, srv, last)
    BY <1>1
  <2> QED
    BY <2>1 DEF u
<1>2. CASE u # s
  <2>1. i # 0 /\ u = [s EXCEPT !.misses[i] = 0, !.late[i] = late, !.inflight = 0, !.anyOk = TRUE]
    BY <1>2 DEF pollSchedOnFrame, LateAfterReply
  <2>2. Scheduler(s) /\ i \in DOMAIN s.plan /\ s.plan[i].period \in Nat /\ s.sent \in Nat
    BY <2>1, Shape DEF Fair
  <2>3. late \in Int /\ late <= s.sent - s.plan[i].period /\ 0 \in 0 .. MissCap
    BY <2>2, PollConstants
  <2> HIDE DEF late, u
  <2>4. u = t
    BY <2>1, <2>2 DEF Scheduler
  <2>5. Fair(t, srv, last)
    BY <2>1, <2>3, Retired
  <2> HIDE DEF t
  <2>6. Fair(u, srv, last)
    BY <2>4, <2>5
  <2> QED
    BY <2>6 DEF u
<1> QED
  BY <1>1, <1>2

LEMMA Picked ==
  ASSUME NEW s, Scheduler(s), NEW i \in pollSchedPick(s)
  PROVE  /\ s.inflight = 0 /\ i \in DOMAIN s.plan /\ s.late[i] >= 0
         /\ \A j \in DOMAIN s.plan : s.late[j] >= 0 => s.late[j] <= s.late[i]
<1>1. s.inflight = 0 /\ i \in Due(s)
      /\ \A j \in Due(s) : s.late[j] < s.late[i] \/ (s.late[j] = s.late[i] /\ i <= j)
  BY DEF pollSchedPick
<1>2. s.late \in [DOMAIN s.plan -> Int]
  BY Shape
<1> QED
  BY <1>1, <1>2 DEF Due

ServedNow(s, srv, i) == [j \in DOMAIN s.plan |-> IF j = i \/ j \notin Due(s) THEN {} ELSE srv[j] \cup {i}]

(* What a pick leaves behind, whether its request was sent or refused.     *)
LEMMA Picks ==
  ASSUME NEW s, NEW srv, NEW last, Fair(s, srv, last), NEW i \in pollSchedPick(s),
         NEW t, NEW next, Scheduler(t), t.plan = s.plan,
         next \in [DOMAIN s.plan -> Nat \cup {-1}],
         t.inflight \in {0, i},
         \A j \in DOMAIN s.plan : j # i => t.late[j] = s.late[j] /\ next[j] = last[j],
         IF t.inflight = i THEN next[i] = t.sent /\ t.sent = 0
                           ELSE next[i] = last[i] /\ t.late[i] = - s.plan[i].period
  PROVE  Fair(t, ServedNow(s, srv, i), next)
<1> DEFINE now == ServedNow(s, srv, i)
<1> SUFFICES Fair(t, now, next)
  OBVIOUS
<1>1. Scheduler(s) /\ s.inflight = 0 /\ i \in DOMAIN s.plan /\ s.late[i] >= 0 /\ i # 0
  BY Picked, Shape DEF Fair
<1>2. now \in [DOMAIN s.plan -> SUBSET DOMAIN s.plan]
  BY <1>1 DEF ServedNow, Fair
<1>3. ASSUME NEW j \in DOMAIN s.plan, NEW k \in now[j]
      PROVE  j # i /\ s.late[j] >= 0 /\ (k # i => k \in srv[j])
  BY <1>3 DEF ServedNow, Due
<1> HIDE DEF now
<1>4. \A j \in DOMAIN s.plan : s.plan[j].period \in Nat /\ s.plan[j].period > 0 /\ s.late[j] \in Int
      /\ t.late[j] \in Int
                                /\ last[j] \in Nat \cup {-1} /\ next[j] \in Nat \cup {-1}
  BY <1>1, Shape DEF Fair
<1>5. ASSUME NEW j \in DOMAIN s.plan PROVE Spaced(t, next, j)
  <2>1. Spaced(s, last, j)
    BY DEF Fair
  <2>2. CASE j = i
    BY <1>1, <1>4, <2>1, <2>2 DEF Spaced
  <2>3. CASE j # i
    BY <1>1, <1>4, <2>1, <2>3, Shape DEF Spaced
  <2> QED
    BY <2>2, <2>3
<1>6. ASSUME NEW j \in DOMAIN s.plan, NEW k \in now[j] PROVE Behind(t, k, j)
  <2>1. j # i /\ s.late[j] >= 0 /\ t.late[j] = s.late[j] /\ t.inflight # j /\ k \in DOMAIN s.plan /\ s.inflight # k
    BY <1>1, <1>2, <1>3, <1>6, Shape
  <2>2. CASE k = i
    BY <1>1, <1>4, <2>1, <2>2 DEF Behind
  <2>3. CASE k # i
    <3>1. Behind(s, k, j)
      BY <1>3, <1>6, <2>3 DEF Fair
    <3> QED
      BY <1>1, <1>4, <2>1, <2>3, <3>1 DEF Behind
  <2> QED
    BY <2>2, <2>3
<1> QED
  BY <1>1, <1>2, <1>5, <1>6 DEF Fair

LEMMA Sends ==
  ASSUME NEW s, NEW srv, NEW last, Fair(s, srv, last), NEW i \in pollSchedPick(s)
  PROVE  Fair(pollSchedSent(s, i), ServedNow(s, srv, i), [last EXCEPT ![i] = 0])
<1> DEFINE t == pollSchedSent(s, i)
           next == [last EXCEPT ![i] = 0]
<1>1. Scheduler(s) /\ s.inflight = 0 /\ i \in DOMAIN s.plan /\ i \in 0 .. Len(s.plan)
  BY Picked, Shape DEF Fair
<1>2. Scheduler(t) /\ t.plan = s.plan /\ t.inflight = i /\ t.late = s.late /\ t.sent = 0
  BY <1>1 DEF Scheduler, pollSchedSent
<1>3. last \in [DOMAIN s.plan -> Nat \cup {-1}]
  BY DEF Fair
<1>4. next \in [DOMAIN s.plan -> Nat \cup {-1}] /\ next[i] = 0 /\ \A j \in DOMAIN s.plan : j # i => next[j] = last[j]
  BY <1>1, <1>3
<1> HIDE DEF t, next
<1>5. Fair(t, ServedNow(s, srv, i), next)
  BY <1>2, <1>4, Picks
<1> QED
  BY <1>5 DEF t, next

LEMMA PutsOff ==
  ASSUME NEW s, NEW srv, NEW last, Fair(s, srv, last), NEW i \in pollSchedPick(s)
  PROVE  Fair(pollSchedTxFailed(s, i), ServedNow(s, srv, i), last)
<1> DEFINE late == - s.plan[i].period
           l == [s.late EXCEPT ![i] = late]
           t == [s EXCEPT !.late = l]
<1>1. Scheduler(s) /\ s.inflight = 0 /\ i \in DOMAIN s.plan /\ i # 0
  BY Picked, Shape DEF Fair
<1>2. s.late \in [DOMAIN s.plan -> Int] /\ late \in Int
  BY <1>1, Shape
<1>3. pollSchedTxFailed(s, i) = t
  BY <1>1, <1>2 DEF pollSchedTxFailed, Scheduler
<1> HIDE DEF late
<1>4. l \in [DOMAIN s.plan -> Int] /\ l[i] = late /\ \A j \in DOMAIN s.plan : j # i => l[j] = s.late[j]
  BY <1>1, <1>2
<1> HIDE DEF l
<1>5. Scheduler(t) /\ t.plan = s.plan /\ t.inflight = 0 /\ t.late = l
  BY <1>1, <1>4 DEF Scheduler
<1> HIDE DEF t
<1>6. last \in [DOMAIN s.plan -> Nat \cup {-1}]
  BY DEF Fair
<1>7. Fair(t, ServedNow(s, srv, i), last)
  BY <1>1, <1>4, <1>5, <1>6, Picks DEF late
<1> QED
  BY <1>3, <1>7

(* A tick makes everything one older: what is overdue and what was sent.   *)
LEMMA Ages ==
  ASSUME SchedInv, Tick
  PROVE  SchedInv'
<1> DEFINE s == sched
           t == sched'
           late == [i \in DOMAIN s.late |-> s.late[i] + 1]
           gap == IF s.gap < Gap THEN s.gap + 1 ELSE s.gap
           sent == IF s.inflight = 0 THEN 0 ELSE s.sent + 1
<1>1. Fair(s, served, lastSent) /\ Scheduler(s)
  BY DEF SchedInv, Fair
<1>2. t = [s EXCEPT !.late = late, !.gap = gap, !.sent = sent] /\ served' = served
  BY <1>1 DEF Tick, Scheduler
<1>3. late \in [DOMAIN s.plan -> Int] /\ gap \in Nat /\ sent \in Nat /\ \A i \in DOMAIN s.plan : late[i] = s.late[i] + 1
  BY <1>1, Shape
<1> HIDE DEF late, gap
<1>4. t.plan = s.plan /\ t.late = late /\ t.inflight = s.inflight /\ t.sent = sent
  BY <1>1, <1>2 DEF Scheduler
<1> HIDE DEF sent
<1>5. Scheduler(t)
  BY <1>1, <1>2, <1>3 DEF Scheduler
<1>6. lastSent \in [DOMAIN s.plan -> Nat \cup {-1}]
  BY <1>1 DEF Fair
<1>7. \A i \in DOMAIN s.plan : lastSent'[i] =
      IF lastSent[i] \in 0 .. s.plan[i].period - 1 THEN lastSent[i] + 1 ELSE lastSent[i]
  BY <1>6 DEF Tick
<1>8. DOMAIN lastSent' = DOMAIN s.plan /\ lastSent' = [i \in DOMAIN s.plan |-> lastSent'[i]]
  BY <1>6 DEF Tick
<1>9. ASSUME NEW i \in DOMAIN s.plan
      PROVE s.plan[i].period \in Nat /\ s.plan[i].period > 0 /\ s.late[i] \in Int /\ lastSent[i] \in Nat \cup {-1}
  BY <1>1, <1>6, Shape
<1>10. lastSent' \in [DOMAIN s.plan -> Nat \cup {-1}]
  <2>1. \A i \in DOMAIN s.plan : lastSent'[i] \in Nat \cup {-1}
    BY <1>7, <1>9
  <2> QED
    BY <1>8, <2>1
<1>11. ASSUME NEW i \in DOMAIN s.plan PROVE Spaced(t, lastSent', i)
  <2>1. Spaced(s, lastSent, i)
    BY <1>1 DEF Fair
  <2>2. CASE lastSent[i] = -1 \/ lastSent[i] >= s.plan[i].period
    BY <1>4, <1>7, <1>9, <2>2 DEF Spaced
  <2>3. CASE ~(lastSent[i] = -1 \/ lastSent[i] >= s.plan[i].period)
    <3>1. lastSent'[i] = lastSent[i] + 1
      BY <1>7, <1>9, <2>3
    <3>2. CASE s.inflight = i
      <4>1. sent = s.sent + 1
        BY <1>1, <3>2, Shape DEF sent
      <4> QED
        BY <1>4, <2>1, <2>3, <3>1, <3>2, <4>1 DEF Spaced
    <3>3. CASE s.inflight # i
      BY <1>3, <1>4, <1>9, <2>1, <2>3, <3>1, <3>3 DEF Spaced
    <3> QED
      BY <3>2, <3>3
  <2> QED
    BY <2>2, <2>3
<1>12. ASSUME NEW j \in DOMAIN s.plan, NEW k \in served[j] PROVE Behind(t, k, j)
  <2>1. Behind(s, k, j) /\ k \in DOMAIN s.plan
    BY <1>1 DEF Fair
  <2>2. late[j] = s.late[j] + 1 /\ late[k] = s.late[k] + 1 /\ s.late[j] \in Int /\ s.late[k] \in Int /\ s.sent \in Nat
    BY <1>1, <1>3, <2>1, Shape
  <2>3. CASE s.inflight = k
    <3>1. sent = s.sent + 1
      BY <1>1, <2>1, <2>3, Shape DEF sent
    <3> QED
      BY <1>4, <2>1, <2>2, <2>3, <3>1 DEF Behind
  <2>4. CASE s.inflight # k
    BY <1>4, <2>1, <2>2, <2>4 DEF Behind
  <2> QED
    BY <2>3, <2>4
<1>13. served' \in [DOMAIN t.plan -> SUBSET DOMAIN t.plan]
  BY <1>1, <1>2, <1>4 DEF Fair
<1> HIDE DEF t
<1>14. Fair(t, served', lastSent')
  BY <1>2, <1>4, <1>5, <1>10, <1>11, <1>12, <1>13 DEF Fair
<1> QED
  BY <1>14 DEF SchedInv, t

LEMMA Enters ==
  ASSUME NEW p \in AnyPlan, planValid(p), pollerEnter(p)
  PROVE  SchedInv'
BY FairAtFirst DEF pollerEnter, SchedInv

LEMMA SchedStep ==
  ASSUME BusTypes, PlanInv, SchedInv, [PollNext]_pollVars
  PROVE  SchedInv'
<1>1. CASE UNCHANGED polling
  BY <1>1 DEF polling, SchedInv
<1>2. plan \in AnyPlan /\ planValid(plan)
  BY DEF PlanInv, VouchedPlan
<1>3. ASSUME sched' = pollSchedInit(<<>>), served' = <<>>, lastSent' = <<>> PROVE SchedInv'
  BY <1>3, FairEmpty DEF SchedInv
<1>4. ASSUME NEW m, applyMode(m) PROVE SchedInv'
  BY <1>2, <1>4, NoPlan, Enters DEF applyMode
<1>5. CASE Boots
  BY <1>3, <1>5 DEF Boots
<1>6. CASE Ignition
  BY <1>1, <1>4, <1>6 DEF Ignition
<1>7. CASE Choose
  BY <1>4, <1>7 DEF Choose
<1>8. CASE Post
  <2>1. UNCHANGED polling \/ pollerEnter(plan')
    BY <1>8 DEF Post
  <2>2. plan' \in AnyPlan /\ planValid(plan')
    BY PlanStep DEF PlanInv, VouchedPlan, planValid, Sorted
  <2>3. ASSUME pollerEnter(plan') PROVE SchedInv'
    BY <2>2, <2>3, Enters
  <2> QED
    BY <1>1, <2>1, <2>3
<1>9. CASE Drain
  <2>1. sched' = sched \/ sched' = pollSchedOnFrame(sched, Head(q))
    BY <1>9 DEF Drain
  <2>2. served' = served /\ lastSent' = lastSent
    BY <1>9 DEF Drain
  <2> QED
    BY <2>1, <2>2, Replies DEF SchedInv
<1>10. CASE PollPlan
  <2> DEFINE s == pollSchedCheckTimeout(sched)
  <2>1. Fair(s, served, lastSent)
    BY TimesOut DEF SchedInv
  <2>2. CASE sched' = s /\ UNCHANGED <<served, lastSent>>
    BY <2>1, <2>2 DEF SchedInv
  <2>3. ASSUME NEW i \in pollSchedPick(s), Served(s, i),
               \/ sched' = pollSchedSent(s, i) /\ lastSent' = [lastSent EXCEPT ![i] = 0]
               \/ sched' = pollSchedTxFailed(s, i) /\ lastSent' = lastSent
        PROVE  SchedInv'
    <3> HIDE DEF s
    <3>1. served' = ServedNow(s, served, i)
      BY <2>3 DEF Served, ServedNow
    <3>2. CASE sched' = pollSchedSent(s, i) /\ lastSent' = [lastSent EXCEPT ![i] = 0]
      BY <2>1, <3>1, <3>2, Sends DEF SchedInv
    <3>3. CASE sched' = pollSchedTxFailed(s, i) /\ lastSent' = lastSent
      BY <2>1, <3>1, <3>3, PutsOff DEF SchedInv
    <3> QED
      BY <2>3, <3>2, <3>3
  <2>4. \/ sched' = s /\ UNCHANGED <<served, lastSent>>
        \/ \E i \in pollSchedPick(s) :
             /\ Served(s, i)
             /\ \/ sched' = pollSchedSent(s, i) /\ lastSent' = [lastSent EXCEPT ![i] = 0]
                \/ sched' = pollSchedTxFailed(s, i) /\ lastSent' = lastSent
    BY <1>10 DEF PollPlan
  <2> QED
    BY <2>2, <2>3, <2>4
<1>11. CASE Tick
  BY <1>11, Ages
<1>12. CASE Pass \/ Turn \/ Ask \/ Cancel \/ PostFails \/ Nothing \/ Triggers \/ BookendTick
            \/ \E e \in Ecus : EcuSends(e) \/ EcuGivesUp(e)
  BY <1>1, <1>12 DEF Pass, Turn, Ask, Cancel, PostFails, Nothing, Triggers, BookendTick, EcuSends, EcuGivesUp
<1> QED
  BY <1>1, <1>5, <1>6, <1>7, <1>8, <1>9, <1>10, <1>11, <1>12 DEF PollNext, pollVars, polling

LEMMA SpacedStep ==
  ASSUME SchedInv, [PollNext]_pollVars, NEW i \in DOMAIN sched.plan,
         at = "plan", sched'.inflight = i, sched.inflight # i
  PROVE  lastSent[i] = -1 \/ lastSent[i] >= sched.plan[i].period
<1> DEFINE s == pollSchedCheckTimeout(sched)
<1>0. Scheduler(sched) /\ i # 0
  BY Shape DEF SchedInv, Fair
<1>1. PollPlan
  <2>1. sched' # sched
    OBVIOUS
  <2> QED
    BY <2>1 DEF PollNext, pollVars, Pass, Tick, Boots, Turn, Ignition, Ask, Choose, Cancel, Post, PostFails, Nothing,
                Drain, Triggers, BookendTick, EcuSends, EcuGivesUp, polling
<1>2. Fair(s, served, lastSent) /\ s.plan = sched.plan /\ s.inflight \in {0, sched.inflight}
  BY TimesOut DEF SchedInv
<1>3. \/ sched' = s
      \/ \E k \in pollSchedPick(s) : sched' = pollSchedSent(s, k) \/ sched' = pollSchedTxFailed(s, k)
  BY <1>1 DEF PollPlan
<1> HIDE DEF s
<1>4. sched' # s
  BY <1>0, <1>2
<1>5. PICK k \in pollSchedPick(s) : sched' = pollSchedSent(s, k) \/ sched' = pollSchedTxFailed(s, k)
  BY <1>3, <1>4
<1>6. Scheduler(s) /\ s.inflight = 0 /\ k \in DOMAIN s.plan /\ s.late[k] >= 0
  BY <1>2, Picked DEF Fair
<1>7. k = i
  BY <1>0, <1>5, <1>6 DEF pollSchedSent, pollSchedTxFailed, Scheduler
<1>8. Spaced(s, lastSent, i) /\ lastSent[i] \in Nat \cup {-1} /\ s.late[i] \in Int /\ s.plan[i].period \in Nat
  BY <1>2, <1>6, <1>7, Shape DEF Fair
<1> QED
  BY <1>0, <1>2, <1>6, <1>7, <1>8 DEF Spaced

LEMMA TurnsStep ==
  ASSUME SchedInv, NEW i \in pollSchedPick(pollSchedCheckTimeout(sched)),
         NEW j \in Due(pollSchedCheckTimeout(sched)) \ {i}
  PROVE  i \notin served[j]
<1> DEFINE s == pollSchedCheckTimeout(sched)
<1>1. Fair(s, served, lastSent)
  BY TimesOut DEF SchedInv
<1> HIDE DEF s
<1>2. j \in DOMAIN s.plan /\ s.late[j] >= 0
  BY DEF Due, s
<1>3. Scheduler(s) /\ s.inflight = 0 /\ i \in DOMAIN s.plan /\ s.late[j] <= s.late[i]
  BY <1>1, <1>2, Picked DEF Fair, s
<1>4. ASSUME i \in served[j] PROVE FALSE
  <2>1. Behind(s, i, j)
    BY <1>1, <1>2, <1>4 DEF Fair
  <2>2. s.late[i] < s.late[j]
    BY <1>3, <2>1, Shape DEF Behind
  <2>3. s.late[i] \in Int /\ s.late[j] \in Int
    BY <1>2, <1>3, Shape
  <2> QED
    BY <1>3, <2>2, <2>3
<1> QED
  BY <1>4

-----------------------------------------------------------------------------
LEMMA Applied ==
  ASSUME NEW m, applyMode(m)
  PROVE  mode' = m /\ ~bk'.active
BY Empty DEF applyMode, pollerExit, bookendWrite

LEMMA Wire ==
  ASSUME key \in BOOLEAN, on \in BOOLEAN, edge \in Nat, ignDebounce
  PROVE  /\ on' \in BOOLEAN /\ edge' \in Nat
         /\ \/ on' = on /\ Elapsed' <= Elapsed
            \/ on' # on /\ Elapsed >= (IF on THEN OffDebounce ELSE OnDebounce)
<1> DEFINE run == IF edge = 0 THEN 1 ELSE edge
<1>1. run \in Nat /\ run - 1 = Elapsed /\ run # 0 /\ Elapsed \in Nat
  BY DEF Elapsed
<1>2. CASE key = on
  BY <1>1, <1>2 DEF ignDebounce, Elapsed
<1>3. CASE key # on /\ run - 1 >= (IF key THEN OnDebounce ELSE OffDebounce)
  BY <1>1, <1>3 DEF ignDebounce
<1>4. CASE key # on /\ ~(run - 1 >= (IF key THEN OnDebounce ELSE OffDebounce))
  BY <1>1, <1>4 DEF ignDebounce, Elapsed
<1> QED
  BY <1>2, <1>3, <1>4

(* What the loop task does to the reader while it runs its stages.          *)
LEMMA Polled ==
  ASSUME RecordInv, BookendTick
  PROVE  at' \in {"bookend", "rest"} /\ (~bk'.active \/ Kept(bk, bk'))
<1> DEFINE p == bookendSeqPoll(bk)
<1>1. p.seq \in Sequencer /\ Honest(p.seq) /\ Kept(bk, p.seq)
  BY Polls DEF RecordInv
<1>2. /\ at' \in {"bookend", "rest"}
      /\ bookendWrite(p.seq) \/ bk' = p.seq \/ bk' = bookendSeqTxFailed(p.seq)
  BY DEF BookendTick, PollsAgain
<1> HIDE DEF p
<1>3. CASE bookendWrite(p.seq)
  BY <1>2, <1>3, Empty DEF bookendWrite
<1>4. CASE bk' = p.seq
  BY <1>1, <1>2, <1>4
<1>5. CASE bk' = bookendSeqTxFailed(p.seq)
  BY <1>1, <1>2, <1>5, TxFails DEF Kept
<1> QED
  BY <1>2, <1>3, <1>4, <1>5

LEMMA Triggered ==
  ASSUME edge \in Nat, Triggers
  PROVE  /\ at' = IF bk'.active THEN "bookend" ELSE "plan"
         /\ \/ ~bk'.active \/ bk' = bk \/ bk'.kind = "start"
            \/ /\ bk' = bookendSeqStart("end", EndBudget) /\ on /\ edge > 0 /\ EndBudget >= MinStart
<1>1. bookendSeqStart("start", StartBudget).kind = "start"
  BY PollConstants, Starts
<1>2. bk' \in {bk, NoSeq, bookendSeqStart("start", StartBudget)}
      \/ (bk' = bookendSeqStart("end", EndBudget) /\ on /\ EndsTrip /\ EndBudget >= MinStart)
  BY DEF Triggers, bookendTriggers, trip
<1> QED
  BY <1>1, <1>2, Empty DEF Triggers, EndsTrip, OffPending

LEMMA StageStep ==
  ASSUME BusTypes, RecordInv, StageInv, [PollNext]_pollVars
  PROVE  StageInv'
<1> USE DEF StageInv, Stages
<1>0. ~NoSeq.active /\ NoOvertime \in [longest : Nat, passes : Nat]
  BY Empty DEF NoOvertime
<1>t. \A n \in Nat : [overtime EXCEPT !.longest = n] \in [longest : Nat, passes : Nat]
                      /\ [overtime EXCEPT !.passes = n] \in [longest : Nat, passes : Nat]
  OBVIOUS
<1>1. CASE UNCHANGED pollVars
  BY <1>1 DEF pollVars, wire, modes
<1>2. CASE Pass
  BY <1>0, <1>2 DEF Pass, wire, modes
<1>3. CASE Tick
  <2>1. stall' \in Nat
    BY <1>3 DEF Tick
  <2>2. bk'.active = bk.active
    BY <1>3, Ticks DEF Tick, RecordInv
  <2>3. overtime' \in [longest : Nat, passes : Nat]
    BY <1>3, <1>t, <2>1 DEF Tick
  <2> QED
    BY <1>3, <2>1, <2>2, <2>3 DEF Tick, modes
<1>4. CASE Turn
  BY <1>4 DEF Turn, modes
<1>5. CASE Boots
  BY <1>0, <1>5 DEF Boots
<1>6. CASE Ignition
  <2>1. on' \in BOOLEAN /\ edge' \in Nat
    BY <1>6, Wire DEF Ignition
  <2>2. bk'.active => mode' = "poll"
    BY <1>6, Applied DEF Ignition
  <2> QED
    BY <1>6, <2>1, <2>2 DEF Ignition
<1>7. CASE Choose
  <2>1. bk'.active => mode' = "poll"
    BY <1>7, Applied DEF Choose
  <2> QED
    BY <1>7, <2>1 DEF Choose
<1>8. CASE Ask \/ Cancel \/ Post \/ PostFails \/ Nothing
  BY <1>8 DEF Ask, Cancel, Post, PostFails, Nothing, wire, modes
<1>9. CASE Drain
  <2>1. bk'.active => bk.active
    <3>1. ASSUME Active, q # <<>>, bk.active PROVE bookendSeqOnFrame(bk, Head(q)).active = bk.active
      <4>1. Head(q) \in FrameOf
        BY <3>1 DEF BusTypes
      <4> QED
        BY <4>1, Frames DEF RecordInv, Good, Kept
    <3> QED
      BY <1>9, <3>1 DEF Drain
  <2> QED
    BY <1>9, <2>1 DEF Drain, Active, wire, modes
<1>10. CASE Triggers
  <2>1. at' = IF bk'.active THEN "bookend" ELSE "plan"
    BY <1>10, Triggered
  <2>2. overtime' \in [longest : Nat, passes : Nat]
    BY <1>0, <1>10 DEF Triggers
  <2> QED
    BY <1>10, <2>1, <2>2 DEF Triggers, wire, modes
<1>11. CASE BookendTick
  <2>1. at' \in {"bookend", "rest"} /\ (bk'.active => bk.active)
    BY <1>11, Polled DEF Kept
  <2>2. overtime' \in [longest : Nat, passes : Nat]
    <3>1. overtime.passes \in Nat /\ overtime.passes + 1 \in Nat
      OBVIOUS
    <3> QED
      BY <1>11, <1>t, <3>1 DEF BookendTick
  <2> QED
    BY <1>11, <2>1, <2>2 DEF BookendTick, wire, modes
<1>12. CASE PollPlan
  BY <1>12 DEF PollPlan, wire, modes
<1>13. CASE \E e \in Ecus : EcuSends(e) \/ EcuGivesUp(e)
  BY <1>13 DEF EcuSends, EcuGivesUp, wire, modes
<1> QED
  BY <1>1, <1>2, <1>3, <1>4, <1>5, <1>6, <1>7, <1>8, <1>9, <1>10, <1>11, <1>12, <1>13 DEF PollNext

-----------------------------------------------------------------------------
(* Arithmetic of the stalls.                                               *)
LEMMA Stalls ==
  ASSUME NEW p \in Nat, NEW l \in Nat, NEW m \in Nat, l <= m
  PROVE  p * l \in Nat /\ (p + 1) * l = p * l + l /\ p * l <= p * m
<1>1. PICK d \in Nat : m = l + d
  <2>1. m - l \in Nat /\ m = l + (m - l)
    OBVIOUS
  <2> QED
    BY <2>1
<1>2. p * d \in Nat /\ p * l \in Nat /\ p * (l + d) = p * l + p * d
  OBVIOUS
<1>3. (p + 1) * l = p * l + l
  OBVIOUS
<1> QED
  BY <1>1, <1>2, <1>3

LEMMA EndingStep ==
  ASSUME BusTypes, RecordInv, StageInv, EndingInv, [PollNext]_pollVars
  PROVE  EndingInv'
<1> DEFINE P == overtime.passes
           M == overtime.longest
           B == OffDebounce - EndMargin
<1>0. /\ bk \in Sequencer /\ Honest(bk) /\ bk.left \in Int
      /\ at \in Stages /\ key \in BOOLEAN /\ on \in BOOLEAN /\ edge \in Nat /\ stall \in Nat
      /\ Elapsed \in Nat /\ P \in Nat /\ M \in Nat /\ (at # "rest" => stall = 0)
  BY DEF RecordInv, Sequencer, StageInv, Elapsed
<1>c. OffDebounce \in Nat /\ EndMargin \in Nat /\ MinStart \in Nat /\ MinStart > 0 /\ B \in Int
  BY PollConstants, BookendConstants
<1>m. P * M \in Nat /\ (P + 1) * M = P * M + M
  BY <1>0, Stalls
<1> SUFFICES ASSUME Ending'
             PROVE  /\ on'
                    /\ bk'.left > 0 => bk'.left + Elapsed' <= B
                    /\ at' = "rest" => /\ stall' <= overtime'.longest
                                       /\ Elapsed' < B + overtime'.passes * overtime'.longest + stall'
                    /\ at' # "rest" => Elapsed' < B + (overtime'.passes + 1) * overtime'.longest
  BY DEF EndingInv
<1>e. ASSUME Ending
      PROVE  /\ on /\ (bk.left > 0 => bk.left + Elapsed <= B)
             /\ at = "rest" => stall <= M /\ Elapsed < B + P * M + stall
             /\ at # "rest" => Elapsed < B + (P + 1) * M
  BY <1>e DEF EndingInv
<1>1. CASE UNCHANGED <<bk, on, edge, at, stall, overtime>>
  BY <1>1, <1>e DEF Ending, Elapsed
<1>2. CASE UNCHANGED <<bk, on, edge, overtime>> /\ at # "rest" /\ at' # "rest"
  BY <1>2, <1>e DEF Ending, Elapsed
<1>3. CASE Pass
  <2>1. UNCHANGED <<bk, on, edge, overtime>> /\ at = "rest" /\ at' = "ignition" /\ Elapsed' = Elapsed
    BY <1>3 DEF Pass, wire, Elapsed
  <2>2. Ending
    BY <2>1 DEF Ending
  <2>3. Elapsed < B + (P + 1) * M
    <3>1. stall <= M /\ Elapsed < B + P * M + stall
      BY <1>e, <2>1, <2>2
    <3> HIDE DEF P, M, B
    <3> QED
      BY <1>0, <1>c, <1>m, <3>1
  <2> QED
    BY <1>e, <2>1, <2>2, <2>3
<1>4. CASE Tick
  <2>1. Ending /\ (bk'.left > 0 => bk'.left = bk.left - 1) /\ bk'.left \in Int
    BY <1>0, <1>4, Ticks DEF Tick, Ending, Sequencer
  <2>2. Elapsed' <= Elapsed + 1 /\ Elapsed' \in Nat
    BY <1>0, <1>4 DEF Tick, Elapsed
  <2>3. at = "rest" /\ at' = "rest" /\ stall' = stall + 1 /\ on' = on
    BY <1>4 DEF Tick
  <2>4. overtime'.passes = P /\ overtime'.longest = IF stall' > M THEN stall' ELSE M
    <3>1. overtime \in [longest : Nat, passes : Nat]
      BY DEF StageInv
    <3>2. overtime' = [overtime EXCEPT !.longest = IF Ending /\ stall' > @ THEN stall' ELSE @]
      BY <1>4 DEF Tick
    <3> QED
      BY <2>1, <3>1, <3>2
  <2> DEFINE N == overtime'.longest
  <2>5. N \in Nat /\ M <= N /\ stall' <= N
    BY <1>0, <2>3, <2>4
  <2>6. P * M \in Nat /\ P * N \in Nat /\ P * M <= P * N
    BY <1>0, <2>5, Stalls
  <2>7. on /\ (bk.left > 0 => bk.left + Elapsed <= B) /\ Elapsed < B + P * M + stall
    BY <1>e, <2>1, <2>3
  <2>8. overtime'.passes * overtime'.longest = P * N
    BY <2>4
  <2>9. Elapsed' < B + P * N + stall'
    <3> HIDE DEF P, M, N, B
    <3> QED
      BY <1>0, <1>c, <2>2, <2>3, <2>6, <2>7
  <2>10. bk'.left > 0 => bk'.left + Elapsed' <= B
    <3> HIDE DEF B
    <3> QED
      BY <1>0, <1>c, <2>1, <2>2, <2>7
  <2> QED
    BY <2>3, <2>5, <2>7, <2>8, <2>9, <2>10
<1>5. CASE Boots
  BY <1>5, Empty DEF Boots, Ending
<1>6. CASE Ignition
  <2>1. bk' = bk /\ overtime' = overtime /\ at = "ignition" /\ at' = "serve" /\ mode' = mode
    <3>1. (bk' = bk /\ mode' = mode) \/ applyMode("listen") \/ applyMode("poll")
      BY <1>6 DEF Ignition
    <3> QED
      BY <1>6, <3>1, Applied DEF Ignition, Ending
  <2>2. Ending /\ mode = "poll"
    BY <2>1 DEF Ending, StageInv
  <2>3. on /\ (bk.left > 0 => bk.left + Elapsed <= B) /\ Elapsed < B + (P + 1) * M
    BY <1>e, <2>1, <2>2
  <2>4. on' = on
    <3>1. ASSUME ~on' PROVE FALSE
      <4>1. applyMode("listen")
        BY <1>6, <2>2, <3>1 DEF Ignition
      <4> QED
        BY <4>1, Applied DEF Ending
    <3>2. on' \in BOOLEAN
      BY <1>0, <1>6, Wire DEF Ignition
    <3> QED
      BY <2>3, <3>1, <3>2
  <2>5. Elapsed' <= Elapsed /\ Elapsed' \in Nat
    <3>1. CASE car.ignition
      BY <1>0, <1>6, <2>4, <3>1, Wire DEF Ignition, Elapsed
    <3>2. CASE ~car.ignition
      BY <1>0, <1>6, <3>2 DEF Ignition, Elapsed
    <3> QED
      BY <3>1, <3>2
  <2>6. bk'.left > 0 => bk'.left + Elapsed' <= B
    <3> HIDE DEF B
    <3> QED
      BY <1>0, <1>c, <2>1, <2>3, <2>5
  <2>7. Elapsed' < B + (P + 1) * M
    <3>1. (P + 1) * M \in Nat
      BY <1>0, <1>m
    <3> HIDE DEF P, M, B
    <3> QED
      BY <1>0, <1>c, <2>3, <2>5, <3>1
  <2> QED
    BY <2>1, <2>3, <2>4, <2>6, <2>7
<1>7. CASE Choose
  BY <1>7, Applied DEF Choose, Ending
<1>8. CASE Ask \/ Cancel \/ Post \/ PostFails \/ Nothing
  BY <1>2, <1>8 DEF Ask, Cancel, Post, PostFails, Nothing, wire
<1>9. CASE Drain
  <2>1. UNCHANGED <<on, edge, stall, overtime>> /\ at = "drain"
    BY <1>9 DEF Drain, wire
  <2>2. CASE Active /\ q # <<>> /\ bk.active /\ bk' = bookendSeqOnFrame(bk, Head(q))
    <3>1. Head(q) \in FrameOf
      BY <2>2 DEF BusTypes
    <3>2. Kept(bk, bk')
      BY <1>0, <2>2, <3>1, Frames DEF Good
    <3>3. Ending /\ bk'.left = bk.left
      BY <3>2 DEF Kept, Ending
    <3>4. at' = "drain"
      BY <1>9, <2>2 DEF Drain
    <3> QED
      BY <1>e, <2>1, <3>3, <3>4 DEF Elapsed
  <2>3. CASE bk' = bk /\ at' # "rest"
    BY <1>9, <1>2, <2>1, <2>3 DEF Drain
  <2>4. CASE bk' = bk /\ at' = "rest"
    <3>1. ~Active /\ Ending
      BY <1>9, <2>4 DEF Drain, Ending
    <3> QED
      BY <3>1 DEF Active, Ending, StageInv
  <2> QED
    BY <1>9, <2>2, <2>3, <2>4 DEF Drain
<1>10. CASE Triggers
  <2>1. UNCHANGED <<on, edge>> /\ at = "triggers" /\ at' = "bookend" /\ Elapsed' = Elapsed
    BY <1>10, <1>0, Triggered DEF Triggers, wire, Ending, Elapsed
  <2>2. CASE bk' = bk
    <3>1. Ending /\ overtime' = overtime
      BY <1>10, <2>2 DEF Ending, Triggers
    <3> QED
      BY <1>e, <2>1, <2>2, <3>1
  <2>3. CASE bk' # bk
    <3>1. /\ bk' = bookendSeqStart("end", EndBudget) /\ on /\ edge > 0 /\ EndBudget >= MinStart
      BY <1>0, <1>10, <2>3, Triggered DEF Ending
    <3>2. EndBudget \in Int /\ EndBudget + Elapsed = B
      BY <1>0, <1>c, <3>1 DEF EndBudget, Elapsed
    <3>3. bk'.left = EndBudget
      BY <3>1, <3>2, Starts
    <3>4. Elapsed' < B
      <4> HIDE DEF B
      <4> QED
        BY <1>0, <1>c, <2>1, <3>1, <3>2
    <3>5. overtime' \in [longest : Nat, passes : Nat]
      <4>1. NoOvertime \in [longest : Nat, passes : Nat]
        BY DEF NoOvertime
      <4> QED
        BY <1>10, <4>1 DEF Triggers, StageInv
    <3>6. (overtime'.passes + 1) * overtime'.longest \in Nat
      <4>1. overtime'.passes \in Nat /\ overtime'.longest \in Nat
        BY <3>5
      <4> QED
        BY <4>1, Stalls
    <3>7. Elapsed' < B + (overtime'.passes + 1) * overtime'.longest
      <4> DEFINE k == (overtime'.passes + 1) * overtime'.longest
      <4>1. k \in Nat /\ Elapsed' \in Nat
        BY <1>0, <2>1, <3>6
      <4> HIDE DEF k, B
      <4>2. Elapsed' < B + k
        BY <1>c, <3>4, <4>1
      <4> QED
        BY <4>2 DEF k
    <3> QED
      BY <1>0, <1>c, <2>1, <3>1, <3>2, <3>3, <3>7
  <2> QED
    BY <2>2, <2>3
<1>11. CASE BookendTick
  <2>1. UNCHANGED <<on, edge, stall>> /\ at = "bookend" /\ stall = 0 /\ Elapsed' = Elapsed
    BY <1>0, <1>11 DEF BookendTick, wire, Elapsed
  <2>2. Kept(bk, bk') /\ at' \in {"bookend", "rest"}
    BY <1>11, Polled DEF Ending
  <2>3. Ending /\ bk'.left = bk.left /\ bk'.active
    BY <2>2 DEF Kept, Ending
  <2>4. on /\ (bk.left > 0 => bk.left + Elapsed <= B) /\ Elapsed < B + (P + 1) * M
    BY <1>e, <2>1, <2>3
  <2>5. overtime'.longest = M /\ overtime'.passes = IF at' = "rest" /\ bk.left <= 0 THEN P + 1 ELSE P
    <3>1. overtime \in [longest : Nat, passes : Nat]
      BY DEF StageInv
    <3>2. overtime' = [overtime EXCEPT !.passes = IF at' = "rest" /\ bk'.active /\ bk.left <= 0 THEN @ + 1 ELSE @]
      BY <1>11 DEF BookendTick
    <3> QED
      BY <2>3, <3>1, <3>2
  <2>6. CASE at' = "bookend"
    BY <2>1, <2>3, <2>4, <2>5, <2>6
  <2>7. CASE at' = "rest" /\ bk.left <= 0
    <3>1. overtime'.passes * overtime'.longest = (P + 1) * M
      BY <2>5, <2>7
    <3>2. (P + 1) * M \in Nat
      BY <1>0, <1>m
    <3>3. Elapsed' < B + (P + 1) * M + 0
      <4> HIDE DEF P, M, B
      <4> QED
        BY <1>c, <2>1, <2>4, <3>2
    <3> QED
      BY <1>0, <2>1, <2>3, <2>4, <2>5, <2>7, <3>1, <3>3
  <2>8. CASE at' = "rest" /\ ~(bk.left <= 0)
    <3>1. overtime'.passes * overtime'.longest = P * M
      BY <2>5, <2>8
    <3>2. bk.left > 0 /\ bk.left + Elapsed <= B
      BY <1>0, <2>4, <2>8
    <3>3. Elapsed' < B + P * M + 0
      <4> HIDE DEF P, M, B
      <4> QED
        BY <1>0, <1>c, <1>m, <2>1, <3>2
    <3> QED
      BY <1>0, <2>1, <2>3, <2>4, <2>5, <2>8, <3>1, <3>2, <3>3
  <2> QED
    BY <2>2, <2>6, <2>7, <2>8
<1>12. CASE PollPlan
  BY <1>12 DEF PollPlan, Ending, StageInv
<1>13. CASE Turn \/ \E e \in Ecus : EcuSends(e) \/ EcuGivesUp(e)
  BY <1>1, <1>13 DEF Turn, EcuSends, EcuGivesUp, wire
<1> QED
  BY <1>1, <1>3, <1>4, <1>5, <1>6, <1>7, <1>8, <1>9, <1>10, <1>11, <1>12, <1>13 DEF PollNext, pollVars, wire

PollInv == BusTypes /\ RecordInv /\ PlanInv /\ SchedInv /\ StageInv /\ EndingInv

LEMMA PollInvInit ==
  ASSUME PollInit
  PROVE  PollInv
<1>1. BusTypes
  BY SilentTypes DEF PollInit, BusTypes
<1>2. RecordInv
  BY Empty DEF PollInit, RecordInv, CompleteIsHonest, NotWritten
<1>3. PlanInv
  BY PlanInit
<1>4. SchedInv
  BY FairEmpty DEF PollInit, SchedInv
<1>5. StageInv /\ EndingInv
  BY Empty, PollConstants DEF PollInit, StageInv, Stages, EndingInv, Ending, NoOvertime
<1> QED
  BY <1>1, <1>2, <1>3, <1>4, <1>5 DEF PollInv

LEMMA PollInvStep ==
  ASSUME PollInv, [PollNext]_pollVars
  PROVE  PollInv'
<1>1. BusTypes' /\ RecordInv' /\ PlanInv' /\ SchedInv' /\ StageInv' /\ EndingInv'
  BY BusStep, RecordStep, PlanStep, SchedStep, StageStep, EndingStep DEF PollInv, StageInv
<1> QED
  BY <1>1 DEF PollInv

(* The inductive invariant of Poll: what it holds keeps its type, records  *)
(* are honest, the plan is vouched for, entries are spaced and take turns, *)
(* the stages of a pass find the reader as they expect it, and a trip_end  *)
(* outruns its margin by the stalls of loop() only.                        *)
THEOREM PollInvariant == PollSpec => []PollInv
<1>1. PollInit => PollInv
  BY PollInvInit
<1>2. PollInv /\ [PollNext]_pollVars => PollInv'
  BY PollInvStep
<1> QED
  BY <1>1, <1>2, PTL DEF PollSpec

(* The plan in use is valid, and when the session vouches for its hash it  *)
(* is the one a reset would load: pollerSetFromJson, loadNvs and a failed  *)
(* save, for any body a hub may post and any plan an NVS may hold.         *)
THEOREM HashIsVouched == PollSpec => []VouchedPlan
<1>1. PollInv => VouchedPlan
  BY DEF PollInv, PlanInv
<1> QED
  BY <1>1, PollInvariant, PTL

(* bookendWrite marks no record complete that lacks a message which came   *)
(* whole while its own request was open, or one cut by the deadline or a   *)
(* refused transmit, whatever the ECUs answer, late or never, in which     *)
(* order, and with which frames lost or spoilt.                            *)
THEOREM RecordsAreHonest == PollSpec => []CompleteIsHonest
<1>1. PollInv => CompleteIsHonest
  BY DEF PollInv, RecordInv
<1> QED
  BY <1>1, PollInvariant, PTL

(* No entry is asked for again before its period has passed since it was   *)
(* last sent: pollSchedPick after any reply, time-out, refusal or stall.   *)
THEOREM PeriodsHold == PollSpec => NeverFaster
<1>1. PollInv /\ [PollNext]_pollVars
        => (\A i \in DOMAIN sched.plan :
              at = "plan" /\ sched'.inflight = i /\ sched.inflight # i =>
                lastSent[i] = -1 \/ lastSent[i] >= sched.plan[i].period)
  BY SpacedStep DEF PollInv
<1> QED
  BY <1>1, PollInvariant, PTL DEF PollSpec, NeverFaster

(* While an entry waits overdue, pollSchedPick serves no other one twice.   *)
THEOREM TurnsAreFair == PollSpec => EachOnce
<1>1. PollInv
        => (at = "plan" /\ at' = "rest" =>
              LET s == pollSchedCheckTimeout(sched)
              IN  \A i \in pollSchedPick(s) : \A j \in Due(s) \ {i} : i \notin served[j])
  BY TurnsStep DEF PollInv
<1> QED
  BY <1>1, PollInvariant, PTL DEF PollSpec, EachOnce

LEMMA OffStep ==
  ASSUME RecordInv, StageInv, EndingInv, [PollNext]_pollVars, on, ~on', at = "ignition", Ending
  PROVE  (overtime.passes + 1) * overtime.longest > EndMargin
<1>1. Ignition
  BY DEF PollNext, pollVars, wire, Pass, Tick, Turn, Boots, Ask, Choose, Cancel, Post, PostFails, Nothing, Drain,
         Triggers, BookendTick, PollPlan, EcuSends, EcuGivesUp
<1>2. ignDebounce
  BY <1>1 DEF Ignition
<1>3. Elapsed >= OffDebounce /\ Elapsed \in Nat
  <2>1. key \in BOOLEAN /\ on \in BOOLEAN /\ edge \in Nat
    BY DEF StageInv
  <2>2. \/ on' = on /\ Elapsed' <= Elapsed
        \/ on' # on /\ Elapsed >= (IF on THEN OffDebounce ELSE OnDebounce)
    BY <1>2, <2>1, Wire
  <2>3. Elapsed \in Nat
    BY <2>1 DEF Elapsed
  <2> QED
    BY <2>2, <2>3
<1>4. Elapsed < OffDebounce - EndMargin + (overtime.passes + 1) * overtime.longest
  BY DEF EndingInv
<1>5. (overtime.passes + 1) * overtime.longest \in Nat
  <2>1. overtime.passes \in Nat /\ overtime.longest \in Nat
    BY DEF StageInv
  <2> QED
    BY <2>1, Stalls
<1> DEFINE k == (overtime.passes + 1) * overtime.longest
<1> HIDE DEF k
<1>6. k > EndMargin
  <2>1. k \in Nat /\ Elapsed < OffDebounce - EndMargin + k
    BY <1>4, <1>5 DEF k
  <2> QED
    BY <1>3, <2>1, PollConstants
<1> QED
  BY <1>6 DEF k

(* When the debounce confirms OFF and the gate shuts, a trip_end is still  *)
(* being read only if loop() was held up for longer than the margin: its   *)
(* longest stall counted once, and once for each pass of bookendTick that  *)
(* had only Flow Controls to send when the time was up, for any number of  *)
(* responders, any times and any frames lost, spoilt or refused.           *)
THEOREM EndsBeforeOff == PollSpec => EndBeforeOff
<1>1. PollInv /\ [PollNext]_pollVars
        => (on /\ ~on' /\ at = "ignition" /\ Ending => (overtime.passes + 1) * overtime.longest > EndMargin)
  BY OffStep DEF PollInv
<1> QED
  BY <1>1, PollInvariant, PTL DEF PollSpec, EndBeforeOff
=============================================================================
