------------------------------- MODULE SpscRing -------------------------------
(***************************************************************************)
(* The lock-free ring between canTask and loop() (spscring.h), one atomic  *)
(* load or store, or one write to a slot, per step.  A row is two writes:  *)
(* the record and its mask live in parallel arrays (recorder.cpp).         *)
(*                                                                         *)
(* head and tail are free-running counters of limited width: they wrap at  *)
(* Wrap (2^32), and the slot is the counter's low bits.  Acquire/release   *)
(* order is taken as given: a step sees the steps before it.               *)
(*                                                                         *)
(* The consumer's side is one process: its operations serialise on         *)
(* g_chgLock.                                                              *)
(***************************************************************************)
EXTENDS Integers, Sequences

CONSTANTS
  Size,          \* the capacity asked of spscInit
  Wrap,          \* 2^32
  MaxRows,       \* bound: rows published
  MaxRefusals    \* bound: refusals

(* The powers of two that a power of two leaves room for are its divisors.  *)
Powers == {p \in 1 .. Wrap : Wrap % p = 0}

ASSUME SpscAssumption ==
  /\ Size \in Nat \ {0} /\ MaxRows \in Nat /\ MaxRefusals \in Nat
  /\ Wrap \in Nat /\ \E k \in 1 .. 32 : Wrap = 2^k
  /\ \A p \in Powers : p < Wrap => 2 * p \in Powers
  /\ 2 * Size <= Wrap

spscPow2Floor(n) == CHOOSE p \in Powers : p <= n /\ n < 2 * p

Cap == spscPow2Floor(Size)
Minus(a, b) == (a - b) % Wrap        \* uint32_t subtraction
SlotOf(counter) == counter % Cap     \* counter & (cap - 1)

VARIABLES
  head, tail,    \* SpscRing
  rec, mask,     \* g_chg and g_chgMask
  pat, ph,       \* the producer: next step, the head it loaded
  cat, have, row, \* the consumer: next step, the count it loaded, row it reads
  half,          \* the record it has read, before the mask
  published,     \* history: rows published
  consumed,      \* history: rows given back
  refused        \* history: rows refused

producer == <<pat, ph>>
consumer == <<cat, have, row, half>>
ringVars == <<head, tail, rec, mask, producer, consumer, published, consumed, refused>>

NoRow == -1
Slot == 0 .. Cap - 1

RingTypeOK ==
  /\ head \in 0 .. Wrap - 1 /\ tail \in 0 .. Wrap - 1
  /\ rec \in [Slot -> Int] /\ mask \in [Slot -> Int]
  /\ pat \in {"idle", "tail", "rec", "mask", "publish"} /\ ph \in 0 .. Wrap - 1
  /\ cat \in {"idle", "rec", "mask", "consume"}
  /\ have \in Nat /\ row \in 0 .. have /\ half \in Int
  /\ published \in Nat /\ consumed \in Nat /\ refused \in Nat

RingInit ==
  /\ head = 0 /\ tail = 0
  /\ rec = [s \in Slot |-> NoRow] /\ mask = [s \in Slot |-> NoRow]
  /\ pat = "idle" /\ ph = 0
  /\ cat = "idle" /\ have = 0 /\ row = 0 /\ half = NoRow
  /\ published = 0 /\ consumed = 0 /\ refused = 0

-----------------------------------------------------------------------------
(* Producer: recorderNoteChange on canTask.  Row number `published' is the *)
(* one being written.                                                      *)

LoadHead ==
  /\ pat = "idle" /\ published < MaxRows
  /\ ph' = head /\ pat' = "tail"
  /\ UNCHANGED <<head, tail, rec, mask, consumer, published, consumed, refused>>

\* Mutant: the counters compared as they are, not their difference.
Full_NoWrap(h, t) == h >= t + Cap

Full(h, t) == Minus(h, t) >= Cap

spscReserve ==
  /\ pat = "tail" /\ ~Full(ph, tail)
  /\ pat' = "rec"
  /\ UNCHANGED <<head, tail, rec, mask, ph, consumer, published, consumed, refused>>

Refuse ==
  /\ pat = "tail" /\ Full(ph, tail)
  /\ refused < MaxRefusals
  /\ refused' = refused + 1 /\ pat' = "idle"
  /\ UNCHANGED <<head, tail, rec, mask, ph, consumer, published, consumed>>

FillRecord ==
  /\ pat = "rec"
  /\ rec' = [rec EXCEPT ![SlotOf(ph)] = published]
  /\ pat' = "mask"
  /\ UNCHANGED <<head, tail, mask, ph, consumer, published, consumed, refused>>

FillMask ==
  /\ pat = "mask"
  /\ mask' = [mask EXCEPT ![SlotOf(ph)] = published]
  /\ pat' = "publish"
  /\ UNCHANGED <<head, tail, rec, ph, consumer, published, consumed, refused>>

spscPublish ==
  /\ pat = "publish"
  /\ head' = (head + 1) % Wrap /\ published' = published + 1
  /\ pat' = "idle"
  /\ UNCHANGED <<tail, rec, mask, ph, consumer, consumed, refused>>

-----------------------------------------------------------------------------
(* Consumer: read rows by the count loaded first, then give back the first *)
(* n of them (all that were read by a drain, all there were by a clear).   *)

spscCount ==
  /\ cat = "idle"
  /\ have' = Minus(head, tail) /\ have' > 0
  /\ row' = 0
  /\ cat' \in {"rec", "consume"}
  /\ UNCHANGED <<head, tail, rec, mask, producer, half, published, consumed, refused>>

ReadRecord ==
  /\ cat = "rec" /\ row < have
  /\ half' = rec[SlotOf(tail + row)]
  /\ cat' = "mask"
  /\ UNCHANGED <<head, tail, rec, mask, producer, have, row, published, consumed, refused>>

ReadMask ==
  /\ cat = "mask"
  /\ row' = row + 1 /\ half' = NoRow
  /\ cat' \in {"rec", "consume"}
  /\ UNCHANGED <<head, tail, rec, mask, producer, have, published, consumed, refused>>

\* The rows are kept: a download, or a drain that does not compact yet.
StopReading ==
  /\ cat = "rec"
  /\ cat' = "idle" /\ row' = 0 /\ have' = 0
  /\ UNCHANGED <<head, tail, rec, mask, producer, half, published, consumed, refused>>

\* A drain gives back what it read, a clear all it counted: never more than
\* there is now.
GivenBack(n) == IF n > Minus(head, tail) THEN Minus(head, tail) ELSE n

spscConsume ==
  /\ cat = "consume"
  /\ LET n == GivenBack(IF row = 0 THEN have ELSE row)
     IN  tail' = (tail + n) % Wrap /\ consumed' = consumed + n
  /\ cat' = "idle" /\ row' = 0 /\ have' = 0
  /\ UNCHANGED <<head, rec, mask, producer, half, published, refused>>

RingNext ==
  \/ LoadHead
  \/ spscReserve
  \/ Refuse
  \/ FillRecord
  \/ FillMask
  \/ spscPublish
  \/ spscCount
  \/ ReadRecord
  \/ ReadMask
  \/ StopReading
  \/ spscConsume

RingSpec == RingInit /\ [][RingNext]_ringVars

-----------------------------------------------------------------------------
(* Properties                                                              *)

(* The ring is a queue of whole rows, a record with its own mask: they     *)
(* come out as they went in, each once, and one is refused only when Cap   *)
(* rows are held.                                                          *)
FifoOf == INSTANCE Fifo WITH
  Row <- {<<n, n>> : n \in 0 .. MaxRows},
  queue <- [i \in 1 .. Minus(head, tail) |-> <<rec[SlotOf(tail + i - 1)], mask[SlotOf(tail + i - 1)]>>],
  refusals <- refused
KeepsFifo == FifoOf!Spec
=============================================================================
