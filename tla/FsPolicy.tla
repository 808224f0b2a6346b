------------------------------ MODULE FsPolicy ------------------------------
(***************************************************************************)
(* The deletion policy of the filestore, as a pure choice over the index   *)
(* of files (src/firmware/src/fsindex.cpp).                                *)
(*                                                                         *)
(* The C++ table is an array sorted by index and with unique indexes, so   *)
(* its contents are a SET of entries and "the first match" is the entry of *)
(* least index.  An entry is a record                                      *)
(*                                                                         *)
(*   [index, kind, bytes, closed, active, hydrated]                        *)
(*                                                                         *)
(* bootId, sha and mode are not here: no choice of the policy reads them.  *)
(***************************************************************************)
EXTENDS Integers, FiniteSets, FiniteSetsExt

Kind == {"changes", "snapshot", "bookend"}    \* 'raw' is tier A like 'changes'
Tier == {"A", "B", "C"}

fsTierForKind(kind) ==
  CASE kind = "snapshot" -> "B"
    [] kind = "bookend"  -> "C"
    [] OTHER             -> "A"

\* Mutant: the watermark read as the next index wanted.
isAcked_OffByOne(e, ackedThrough) == e.index <= ackedThrough + 1

isAcked(e, ackedThrough) == e.index <= ackedThrough

\* A .part that no writer of this boot holds open: a crash artifact.
isLeftover(e) == ~e.closed /\ ~e.active

Evictable(table) == {e \in table : ~e.active}
Acked(table, ackedThrough) == {e \in table : isAcked(e, ackedThrough)}
OfTier(table, tier) == {e \in table : fsTierForKind(e.kind) = tier}

Oldest(S) == CHOOSE e \in S : \A f \in S : e.index <= f.index

(* What the policy returns when nothing may be evicted (the C++ code       *)
(* returns t->count).                                                      *)
NoVictim == [index |-> -1]

FirstOf(S, otherwise) == IF S # {} THEN Oldest(S) ELSE otherwise

\* Mutants: one sweep, oldest first; acked files only.
fsPickVictim_OneSweep(table, ackedThrough) == FirstOf(Evictable(table), NoVictim)
fsPickVictim_AckedOnly(table, ackedThrough) ==
  FirstOf(Acked(Evictable(table), ackedThrough), NoVictim)

\* Acked oldest first, then unacked tier A, tier B, tier C, oldest first.
fsPickVictim(table, ackedThrough) ==
  LET free == Evictable(table)
  IN  FirstOf(Acked(free, ackedThrough),
        FirstOf(OfTier(free, "A"),
          FirstOf(OfTier(free, "B"),
            FirstOf(OfTier(free, "C"), NoVictim))))

\* Tier A only: acked oldest first, then unacked oldest first.
fsPickTierAVictim(table, ackedThrough) ==
  LET freeA == OfTier(Evictable(table), "A")
  IN  FirstOf(Acked(freeA, ackedThrough), FirstOf(freeA, NoVictim))

AckedLeftovers(table, ackedThrough) ==
  {e \in Acked(table, ackedThrough) : isLeftover(e)}

BytesOf(S) == MapThenSumSet(LAMBDA e : e.bytes, S)

\* Mutant: every tier counted against the tier A cap.
fsTierABytes_AllTiers(table) == BytesOf({e \in table : e.hydrated})

\* Entries whose size has not been read from disk yet count as zero.
fsTierABytes(table) == BytesOf({e \in OfTier(table, "A") : e.hydrated})

\* fsCountOpen and its second result.
OpenFiles(table) == {e \in table : ~e.closed /\ e.active}
fsCountOpen(table) == Cardinality(OpenFiles(table))
=============================================================================
