--------------------------- MODULE ChangeLog_proofs ---------------------------
(***************************************************************************)
(* No accepted row is lost or written twice on its way from the ring to    *)
(* the changes files, for every capacity, chunk, threshold and file size,  *)
(* with refused files and short writes.                                    *)
(***************************************************************************)
EXTENDS ChangeLog, SequenceTheorems, TLAPS

InDrain == at \in {"open", "header", "write"}

(* While a chunk is on its way the cursor is ahead of where it started and *)
(* both are inside the ring, which can only have grown.                    *)
Cursors ==
  /\ InDrain => before.row <= row /\ row <= Stored
  /\ at = "discard" => row <= Stored

(* Only drained or dropped rows are called cleared.                        *)
ClearedBehind == \A n \in cleared : n <= Committed

BaseInv == TypeOK /\ Cursors /\ ClearedBehind /\ NothingTwice

-----------------------------------------------------------------------------
(* A sequence of items, extended.                                          *)

IntactIn(s, i) == s[i].row > 0 /\ s[i].hashed
Ascending(s) == \A i, j \in DOMAIN s :
                  i < j /\ IntactIn(s, i) /\ IntactIn(s, j) => s[i].row < s[j].row
Within(s, lo, hi, X) == \A i \in DOMAIN s :
                  IntactIn(s, i) => lo < s[i].row /\ s[i].row <= hi /\ s[i].row \notin X

LEMMA AscendingExtends ==
  ASSUME NEW s \in Seq(Item), NEW t \in Seq(Item), NEW c \in Int, NEW d \in Int,
         c <= d, NEW X,
         Ascending(s), Within(s, 0, c, X),
         Ascending(t), Within(t, c, d, X)
  PROVE  Ascending(s \o t) /\ Within(s \o t, 0, d, X)
<1>1. /\ s \o t \in Seq(Item)
      /\ Len(s \o t) = Len(s) + Len(t)
      /\ \A i \in 1 .. Len(s) + Len(t) : (s \o t)[i] =
                     IF i <= Len(s) THEN s[i] ELSE t[i - Len(s)]
  BY ConcatProperties
<1>2. Len(s) \in Nat /\ Len(t) \in Nat
  OBVIOUS
<1>a. \A e \in Item : e.row \in Int
  BY DEF Item
<1>3. \A i \in 1 .. Len(s) : s[i].row \in Int
  BY <1>a, ElementOfSeq
<1>4. \A i \in 1 .. Len(t) : t[i].row \in Int
  BY <1>a, ElementOfSeq
<1>5. DOMAIN (s \o t) = 1 .. Len(s) + Len(t)
  BY <1>1
<1> DEFINE u == s \o t
<1>6. \A i \in DOMAIN u :
        \/ i \in DOMAIN s /\ u[i] = s[i]
        \/ i - Len(s) \in DOMAIN t /\ u[i] = t[i - Len(s)] /\ i > Len(s)
  BY <1>1, <1>2, <1>5
<1>7. \A i \in DOMAIN s : i <= Len(s)
  OBVIOUS
<1> HIDE DEF u
<1>8. Within(u, 0, d, X)
  <2> SUFFICES ASSUME NEW i \in DOMAIN u, IntactIn(u, i)
               PROVE  0 < u[i].row /\ u[i].row <= d /\ u[i].row \notin X
    BY DEF Within
  <2>1. CASE i \in DOMAIN s /\ u[i] = s[i]
    BY <2>1, <1>3 DEF Within, IntactIn
  <2>2. CASE i - Len(s) \in DOMAIN t /\ u[i] = t[i - Len(s)] /\ i > Len(s)
    BY <2>2, <1>4 DEF Within, IntactIn
  <2> QED
    BY <1>6, <2>1, <2>2
<1>9. Ascending(u)
  <2> SUFFICES ASSUME NEW i \in DOMAIN u, NEW j \in DOMAIN u, i < j,
                      IntactIn(u, i), IntactIn(u, j)
               PROVE  u[i].row < u[j].row
    BY DEF Ascending
  <2>1. i \in Int /\ j \in Int
    BY <1>5 DEF u
  <2>2. CASE j \in DOMAIN s /\ u[j] = s[j]
    <3>1. i \in DOMAIN s /\ u[i] = s[i]
      BY <1>2, <1>6, <1>7, <2>1, <2>2
    <3> QED
      BY <3>1, <2>2 DEF Ascending, IntactIn
  <2>3. CASE /\ j - Len(s) \in DOMAIN t /\ u[j] = t[j - Len(s)] /\ j > Len(s)
             /\ i \in DOMAIN s /\ u[i] = s[i]
    <3>1. u[i].row <= c /\ c < u[j].row
      BY <2>3 DEF Within, IntactIn
    <3> QED
      BY <3>1, <2>3, <1>3, <1>4
  <2>4. CASE /\ j - Len(s) \in DOMAIN t /\ u[j] = t[j - Len(s)]
             /\ i - Len(s) \in DOMAIN t /\ u[i] = t[i - Len(s)]
    <3>1. i - Len(s) < j - Len(s)
      BY <1>2, <2>1
    <3> QED
      BY <3>1, <2>4 DEF Ascending, IntactIn
  <2> QED
    BY <1>6, <2>2, <2>3, <2>4
<1> QED
  BY <1>8, <1>9 DEF u

LEMMA TwiceIs ==
  ASSUME TypeOK
  PROVE  NothingTwice <=> Ascending(flash) /\ Within(flash, 0, Committed, cleared)
BY DEF NothingTwice, Ascending, Within, IntactIn, Intact

LEMMA CommittedNat ==
  ASSUME TypeOK
  PROVE  Committed \in Nat /\ Cursor.row \in Nat /\ Stored \in Nat
         /\ Cursor \in [row : Nat, headerDone : BOOLEAN] /\ Cursor.row <= Stored
<1>1. Stored \in Nat
  BY DEF TypeOK, Stored
<1>2. Cursor \in [row : Nat, headerDone : BOOLEAN] /\ Cursor.row <= Stored
  <2>1. CASE Stale
    BY <1>1, <2>1 DEF TypeOK, Cursor
  <2>2. CASE ~Stale
    BY <1>1, <2>2 DEF TypeOK, Cursor, Stale
  <2> QED
    BY <2>1, <2>2
<1>3. Committed \in Nat
  BY <1>2 DEF TypeOK, Committed
<1> QED
  BY <1>1, <1>2, <1>3

(* An item that is not a row changes nothing.                              *)
LEMMA OneMore ==
  ASSUME NEW s \in Seq(Item), NEW c \in Int, NEW X, NEW e \in Item, e.row <= 0,
         Ascending(s), Within(s, 0, c, X)
  PROVE  Ascending(Append(s, e)) /\ Within(Append(s, e), 0, c, X)
<1>1. <<e>> \in Seq(Item) /\ Append(s, e) = s \o <<e>>
  BY AppendIsConcat
<1>2. Ascending(<<e>>) /\ Within(<<e>>, c, c, X)
  BY DEF Ascending, Within, IntactIn, Item
<1>3. c <= c
  OBVIOUS
<1>4. Ascending(s \o <<e>>) /\ Within(s \o <<e>>, 0, c, X)
  <2> DEFINE t == <<e>>
  <2>1. t \in Seq(Item) /\ Ascending(t) /\ Within(t, c, c, X)
    BY <1>1, <1>2
  <2> HIDE DEF t
  <2>2. Ascending(s \o t) /\ Within(s \o t, 0, c, X)
    BY <1>3, <2>1, AscendingExtends
  <2> QED
    BY <2>2 DEF t
<1> QED
  BY <1>1, <1>4

LEMMA ChunkLenNat ==
  ASSUME TypeOK, Cursors, at = "write"
  PROVE  ChunkLen \in Nat
<1>1. Len(ChunkHeader) \in Nat
  BY DEF ChunkHeader
<1> QED
  BY <1>1 DEF ChunkLen, Cursors, InDrain, TypeOK

(* The items of a chunk: the header, then the rows after the committed.    *)
LEMMA ChunkIs ==
  ASSUME TypeOK, Cursors, ClearedBehind, at = "write",
         NEW k \in 0 .. ChunkLen, NEW h \in BOOLEAN
  PROVE  /\ Items(k, h) \in Seq(Item) /\ Len(Items(k, h)) = k
         /\ Ascending(Items(k, h))
         /\ Within(Items(k, h), Committed, tail + row, cleared)
         /\ ChunkLen \in Nat
         /\ \A n \in Committed + 1 .. tail + row :
              \E i \in 1 .. ChunkLen : Items(ChunkLen, h)[i].row = n
<1>1. Committed = tail + before.row /\ tail \in Nat /\ row \in Nat /\ before.row \in Nat
      /\ before.row <= row
  BY DEF Committed, Cursors, InDrain, TypeOK
<1> DEFINE m == Len(ChunkHeader)
<1>2. m \in {0, 1}
  BY DEF ChunkHeader
<1>3. ChunkLen = m + row - before.row /\ ChunkLen \in Nat
  BY <1>1, <1>2 DEF ChunkLen
<1>4. \A i \in 1 .. k : ChunkItem(i) = IF i <= m THEN 0 ELSE tail + before.row + (i - m)
  BY DEF ChunkItem, ChunkRow, Header
<1> HIDE DEF m
<1>5. \A i \in 1 .. k : ChunkItem(i) \in Int
  BY <1>1, <1>2, <1>4
<1>6. \A i \in 1 .. k : Written(ChunkItem(i), h) \in Item
  BY <1>5 DEF Written, Item, TypeOK
<1>7. Items(k, h) \in Seq(Item) /\ Len(Items(k, h)) = k
  BY <1>3, <1>6 DEF Items
<1>8. DOMAIN Items(k, h) = 1 .. k /\ \A i \in 1 .. k : Items(k, h)[i].row = ChunkItem(i)
  BY DEF Items, Written
<1>9. Ascending(Items(k, h))
  <2> SUFFICES ASSUME NEW i \in 1 .. k, NEW j \in 1 .. k, i < j,
                      ChunkItem(i) > 0, ChunkItem(j) > 0
               PROVE  ChunkItem(i) < ChunkItem(j)
    BY <1>8 DEF Ascending, IntactIn
  <2>1. i \in Int /\ j \in Int
    OBVIOUS
  <2>2. i > m /\ j > m
    BY <1>2, <1>4, <2>1
  <2>3. ChunkItem(i) = tail + before.row + (i - m) /\ ChunkItem(j) = tail + before.row + (j - m)
    BY <1>2, <1>4, <2>1, <2>2
  <2> QED
    BY <1>1, <1>2, <2>1, <2>3
<1>10. Within(Items(k, h), Committed, tail + row, cleared)
  <2> SUFFICES ASSUME NEW i \in 1 .. k, ChunkItem(i) > 0
               PROVE  Committed < ChunkItem(i) /\ ChunkItem(i) <= tail + row
                      /\ ChunkItem(i) \notin cleared
    BY <1>8 DEF Within, IntactIn
  <2>1. Committed < ChunkItem(i) /\ ChunkItem(i) <= tail + row
    BY <1>1, <1>2, <1>3, <1>4
  <2> QED
    BY <2>1, <1>1, <1>5 DEF ClearedBehind
<1>11. ASSUME NEW n \in Committed + 1 .. tail + row
       PROVE  \E i \in 1 .. ChunkLen : Items(ChunkLen, h)[i].row = n
  <2> DEFINE i == n - tail - before.row + m
  <2>1. i \in 1 .. ChunkLen /\ i > m
    BY <1>1, <1>2, <1>3
  <2>2. ChunkItem(i) = ChunkRow(i - m)
    BY <1>1, <1>2, <2>1 DEF ChunkItem, m
  <2>3. ChunkItem(i) = n
    BY <1>1, <1>2, <2>2 DEF ChunkRow
  <2>4. Items(ChunkLen, h)[i].row = ChunkItem(i)
    BY <2>1 DEF Items, Written
  <2> QED
    BY <2>1, <2>3, <2>4
<1> QED
  BY <1>3, <1>7, <1>9, <1>10, <1>11

-----------------------------------------------------------------------------
(* What each group of steps does to the committed prefix.                  *)

THEOREM InitBase == Init => BaseInv
<1> SUFFICES ASSUME Init PROVE BaseInv
  OBVIOUS
<1>1. <<>> \in Seq(Item) /\ <<>> \in Seq(Mode) /\ Len(<<>>) = 0
  OBVIOUS
<1>2. [row |-> 0, headerDone |-> FALSE] \in [row : Nat, headerDone : BOOLEAN]
  OBVIOUS
<1>3. flash \in Seq(Item) /\ modeOf \in Seq(Mode) /\ Len(modeOf) = head
  BY <1>1 DEF Init
<1>4. TypeOK
  <2>1. head = 0 /\ tail = 0 /\ Stored = 0 /\ tail <= head /\ Stored <= Cap
    BY ChangeLogAssumption DEF Init, Stored
  <2>2. before \in [row : Nat, headerDone : BOOLEAN]
    BY <1>2 DEF Init
  <2>3. cleared \subseteq 1 .. head /\ skipped \subseteq 1 .. head
    BY DEF Init
  <2> QED
    BY <1>3, <2>1, <2>2, <2>3 DEF Init, TypeOK
<1> QED
  BY <1>4 DEF Init, BaseInv, Cursors, InDrain, ClearedBehind, NothingTwice, Intact

(* Steps that leave the files alone.                                       *)
LEMMA FlashKept ==
  ASSUME BaseInv, flash' = flash, cleared' = cleared,
         Committed' \in Nat, Committed <= Committed'
  PROVE  ClearedBehind' /\ NothingTwice'
<1>1. Committed \in Nat /\ Committed' \in Nat
  BY CommittedNat DEF BaseInv
<1>2. ClearedBehind'
  BY <1>1 DEF BaseInv, ClearedBehind, TypeOK
<1>3. \A i \in DOMAIN flash : flash[i].row \in Int
  <2>1. \A e \in Item : e.row \in Int
    BY DEF Item
  <2> QED
    BY <2>1, ElementOfSeq DEF BaseInv, TypeOK
<1>4. NothingTwice'
  BY <1>1, <1>3 DEF BaseInv, NothingTwice, Intact
<1> QED
  BY <1>2, <1>4

(* Steps that append one item that is not a row.                           *)
LEMMA FlashPlusOne ==
  ASSUME BaseInv, cleared' = cleared, Committed' = Committed,
         NEW e \in Item, e.row <= 0, flash' = Append(flash, e)
  PROVE  ClearedBehind' /\ NothingTwice'
<1>1. Committed \in Nat
  BY CommittedNat DEF BaseInv
<1>2. ClearedBehind'
  BY DEF BaseInv, ClearedBehind
<1>3. Ascending(flash) /\ Within(flash, 0, Committed, cleared)
  BY TwiceIs DEF BaseInv
<1>4. flash \in Seq(Item)
  BY DEF BaseInv, TypeOK
<1> DEFINE c == Committed
           X == cleared
           s == flash
<1>5. Ascending(Append(s, e)) /\ Within(Append(s, e), 0, c, X)
  <2>1. c \in Int /\ s \in Seq(Item) /\ Ascending(s) /\ Within(s, 0, c, X)
    BY <1>1, <1>3, <1>4
  <2> HIDE DEF c, X, s
  <2> QED
    BY <2>1, OneMore
<1>6. NothingTwice'
  BY <1>5 DEF NothingTwice, Ascending, Within, IntactIn, Intact
<1> QED
  BY <1>2, <1>6

(* Steps that append part of a chunk.                                      *)
LEMMA FlashPlusChunk ==
  ASSUME BaseInv, cleared' = cleared, at = "write",
         NEW k \in 0 .. ChunkLen, NEW h \in BOOLEAN,
         flash' = flash \o Items(k, h),
         Committed' = IF h THEN tail + row ELSE Committed
  PROVE  ClearedBehind' /\ NothingTwice'
<1>1. Committed \in Nat /\ tail + row \in Nat /\ Committed <= tail + row
  <2>1. Committed = tail + before.row /\ before.row <= row
    BY DEF BaseInv, Committed, Cursors, InDrain
  <2> QED
    BY <2>1, CommittedNat DEF BaseInv, TypeOK
<1>2. ClearedBehind'
  BY <1>1 DEF BaseInv, ClearedBehind, TypeOK
<1> DEFINE c == Committed
           d == IF h THEN tail + row ELSE Committed
           X == cleared
           s == flash
           t == Items(k, h)
<1>3. s \in Seq(Item) /\ Ascending(s) /\ Within(s, 0, c, X)
  BY TwiceIs DEF BaseInv, TypeOK
<1>4. t \in Seq(Item) /\ Ascending(t) /\ Within(t, c, tail + row, X)
  BY ChunkIs DEF BaseInv
<1>5. Within(t, c, d, X)
  <2>1. CASE h
    BY <1>4, <2>1
  <2>2. CASE ~h
    <3>1. \A i \in DOMAIN Items(k, h) : ~IntactIn(Items(k, h), i)
      BY <2>2 DEF Items, Written, IntactIn
    <3> QED
      BY <3>1 DEF Within
  <2> QED
    BY <2>1, <2>2
<1>6. c \in Int /\ d \in Int /\ c <= d
  BY <1>1
<1>7. Ascending(s \o t) /\ Within(s \o t, 0, d, X)
  <2> HIDE DEF c, d, X, s, t
  <2> QED
    BY <1>3, <1>4, <1>5, <1>6, AscendingExtends
<1>8. NothingTwice'
  BY <1>7 DEF NothingTwice, Ascending, Within, IntactIn, Intact
<1> QED
  BY <1>2, <1>8

-----------------------------------------------------------------------------
(* One step.                                                               *)

LEMMA ItemsType ==
  ASSUME TypeOK, NEW k \in Nat, NEW h \in BOOLEAN
  PROVE  Items(k, h) \in Seq(Item)
<1>1. ASSUME NEW i \in 1 .. k
      PROVE  Written(ChunkItem(i), h) \in Item
  <2>1. Len(ChunkHeader) \in Int
    BY DEF ChunkHeader
  <2>2. ChunkItem(i) \in Int
    BY <2>1 DEF ChunkItem, ChunkRow, Header, TypeOK
  <2> QED
    BY <2>2 DEF Written, Item, TypeOK
<1> QED
  BY <1>1 DEF Items

LEMMA TypeStep ==
  ASSUME TypeOK, Cursors, [Next]_vars
  PROVE  TypeOK' /\ Cursors'
<1> USE DEF TypeOK, Cursors, InDrain, Stored
<1>0. Stored \in Nat /\ Cursor.row \in Nat /\ Cursor.row <= Stored
      /\ Cursor \in [row : Nat, headerDone : BOOLEAN]
  BY CommittedNat
<1>1. CASE recorderNoteChange
  <2>1. modeOf' \in Seq(Mode) /\ Len(modeOf') = head'
    BY <1>1, AppendProperties DEF recorderNoteChange
  <2>2. Stored' = Stored + 1 /\ Stored' <= Cap
    BY <1>0, <1>1, ChangeLogAssumption DEF recorderNoteChange
  <2>3. cleared' \subseteq 1 .. head' /\ skipped' \subseteq 1 .. head'
    <3>1. 1 .. head \subseteq 1 .. head + 1
      OBVIOUS
    <3>2. tail + 1 .. head + 1 \subseteq 1 .. head + 1
      OBVIOUS
    <3>3. head' = head + 1 /\ cleared' = cleared
      BY <1>1 DEF recorderNoteChange
    <3>4. skipped' = skipped \/ skipped' = skipped \cup (tail + 1 .. head + 1)
      BY <1>1 DEF recorderNoteChange
    <3> QED
      BY <3>1, <3>2, <3>3, <3>4
  <2> HIDE DEF InDrain
  <2>8. TypeOK'
    BY <1>1, <2>1, <2>2, <2>3 DEF recorderNoteChange, cursor, file
  <2>9. Cursors'
    BY <1>0, <1>1, <2>2 DEF recorderNoteChange, cursor, file, InDrain
  <2> QED
    BY <2>8, <2>9
<1>2. CASE RefuseChange
  BY <1>2 DEF RefuseChange, cursor, file, history
<1>3. CASE BeginDrain
  <2>1. LastOfChunk(Cursor.row) - tail \in Nat
        /\ Cursor.row <= LastOfChunk(Cursor.row) - tail
        /\ LastOfChunk(Cursor.row) - tail <= head - tail
    BY <1>0, ChangeLogAssumption DEF LastOfChunk
  <2>2. before' \in [row : Nat, headerDone : BOOLEAN] /\ before'.row = Cursor.row
    BY <1>0, <1>3 DEF BeginDrain
  <2> HIDE DEF InDrain
  <2>3. TypeOK'
    BY <1>3, <2>1, <2>2 DEF BeginDrain, ring, file, history
  <2>4. Cursors'
    BY <1>3, <2>1, <2>2 DEF BeginDrain, ring, file, history, InDrain
  <2> QED
    BY <2>3, <2>4
<1>4. CASE DrainNothing
  BY <1>4 DEF DrainNothing, ring, file, history
<1>5. CASE ensureOpen
  <2>1. Written(FileStart, TRUE) \in Item
    BY DEF Written, Item, FileStart
  <2>2. flash' \in Seq(Item) /\ bytes' \in Nat
    <3>1. Append(flash, Written(FileStart, TRUE)) \in Seq(Item)
      BY <2>1, AppendProperties
    <3>2. CASE MustOpen
      <4>1. bytes' = 0 /\ flash' = Append(flash, Written(FileStart, TRUE))
        BY <1>5, <3>2 DEF ensureOpen
      <4> QED
        BY <3>1, <4>1
    <3>3. CASE ~MustOpen
      <4>1. bytes' = bytes /\ flash' = flash
        BY <1>5, <3>3 DEF ensureOpen
      <4> QED
        BY <4>1
    <3> QED
      BY <3>2, <3>3
  <2>3. at' \in {"header", "write"}
    BY <1>5 DEF ensureOpen
  <2> HIDE DEF InDrain
  <2>8. TypeOK'
    BY <1>5, <2>2, <2>3 DEF ensureOpen, ring, cursor
  <2>9. Cursors'
    BY <1>5, <2>3 DEF ensureOpen, ring, cursor, InDrain
  <2> QED
    BY <2>8, <2>9
<1>6. CASE OpenFails
  BY <1>6 DEF OpenFails, ring, history
<1>7. ASSUME NEW ok \in {TRUE, ~ShortWrites}, WriteHeader(ok) PROVE TypeOK' /\ Cursors'
  <2>0. ok \in BOOLEAN
    OBVIOUS
  <2>1. Written(Header, ok) \in Item
    BY <2>0 DEF Written, Item, Header
  <2>2. flash' \in Seq(Item)
    BY <1>7, <2>1, AppendProperties DEF WriteHeader
  <2> HIDE DEF InDrain
  <2>8. TypeOK'
    BY <1>7, <2>2 DEF WriteHeader, ring, cursor
  <2>9. Cursors'
    BY <1>7 DEF WriteHeader, ring, cursor, InDrain
  <2> QED
    BY <2>8, <2>9
<1>8. CASE WriteChunk
  <2>1. ChunkLen \in Nat
    <3>1. Len(ChunkHeader) \in Nat /\ before.row <= row /\ before.row \in Nat
      BY <1>8 DEF WriteChunk, ChunkHeader
    <3> QED
      BY <3>1 DEF ChunkLen
  <2>2. Items(ChunkLen, TRUE) \in Seq(Item)
    BY <2>1, ItemsType
  <2>3. flash' \in Seq(Item)
    BY <1>8, <2>2, ConcatProperties DEF WriteChunk
  <2> HIDE DEF InDrain
  <2>4. bytes' \in Nat
    BY <1>8, <2>1 DEF WriteChunk
  <2>8. TypeOK'
    BY <1>8, <2>3, <2>4 DEF WriteChunk, ring, cursor
  <2>9. Cursors'
    BY <1>8 DEF WriteChunk, ring, cursor, InDrain
  <2> QED
    BY <2>8, <2>9
<1>9. CASE WriteShort
  <2>1. PICK k \in 0 .. ChunkLen - 1 : flash' = flash \o Items(k, FALSE)
    BY <1>9 DEF WriteShort
  <2>2. Items(k, FALSE) \in Seq(Item)
    <3>1. k \in Nat
      OBVIOUS
    <3> QED
      BY <3>1, ItemsType
  <2>3. flash' \in Seq(Item)
    BY <2>1, <2>2, ConcatProperties
  <2> HIDE DEF InDrain
  <2>8. TypeOK'
    BY <1>9, <2>3 DEF WriteShort, ring, file
  <2>9. Cursors'
    BY <1>9 DEF WriteShort, ring, file, InDrain
  <2> QED
    BY <2>8, <2>9
<1>10. CASE Discard
  <2>1. row <= Stored
    BY <1>10 DEF Discard
  <2>2. tail' \in Nat /\ tail' <= head /\ Stored' <= Cap /\ row' \in Nat
    BY <1>0, <1>10, <2>1, ChangeLogAssumption DEF Discard
  <2> HIDE DEF InDrain
  <2>8. TypeOK'
    BY <1>10, <2>2 DEF Discard, file, history
  <2>9. Cursors'
    BY <1>10 DEF Discard, file, history, InDrain
  <2> QED
    BY <2>8, <2>9
<1>11. CASE recorderStart
  BY <1>11 DEF recorderStart, cursor, file, history
<1>12. CASE recorderStop
  BY <1>12 DEF recorderStop, cursor, file, history
<1>13. CASE recorderClear
  <2>1. cleared' \subseteq 1 .. head
    <3>1. cleared \subseteq 1 .. head /\ cleared' = cleared \cup (tail + Cursor.row + 1 .. head)
      BY <1>13 DEF recorderClear
    <3>2. tail + Cursor.row + 1 >= 1 /\ tail + Cursor.row + 1 \in Int /\ head \in Int
      BY <1>0
    <3>3. \A lo, hi \in Int : lo >= 1 => lo .. hi \subseteq 1 .. hi
      OBVIOUS
    <3>4. tail + Cursor.row + 1 .. head \subseteq 1 .. head
      BY <3>2, <3>3
    <3> QED
      BY <3>1, <3>4
  <2> QED
    BY <1>13, <2>1, ChangeLogAssumption DEF recorderClear, cursor, file
<1>14. CASE filestoreCloseActive
  BY <1>14 DEF filestoreCloseActive, ring, cursor, history
<1>15. CASE filestoreSetMode
  BY <1>15 DEF filestoreSetMode, ring, cursor, history
<1>16. CASE ShutGate \/ OpenGate
  BY <1>16 DEF ShutGate, OpenGate, ring, cursor, file, history
<1>17. CASE UNCHANGED vars
  BY <1>17 DEF vars, ring, cursor, file, history
<1> QED
  BY <1>1, <1>2, <1>3, <1>4, <1>5, <1>6, <1>7, <1>8, <1>9, <1>10, <1>11, <1>12,
     <1>13, <1>14, <1>15, <1>16, <1>17 DEF Next

(* How far a step moves the committed prefix.                              *)
Moved ==
  \/ Committed' = Committed
  \/ WriteChunk /\ Committed' = tail + row
  \/ recorderClear
  \/ recorderNoteChange

LEMMA Step ==
  ASSUME BaseInv, [Next]_vars
  PROVE  BaseInv' /\ Moved
<1>0. TypeOK /\ Cursors /\ TypeOK' /\ Cursors'
  BY TypeStep DEF BaseInv
<1>a. Committed \in Nat /\ Stored \in Nat /\ Cursor.row \in Nat /\ Cursor.row <= Stored
  BY <1>0, CommittedNat
<1> SUFFICES ClearedBehind' /\ NothingTwice' /\ Moved
  BY <1>0 DEF BaseInv
<1>1. CASE recorderNoteChange
  <2>1. Committed' \in Nat /\ Committed <= Committed'
    BY <1>0, <1>1 DEF recorderNoteChange, cursor, Committed, Cursor, Stale, Stored, TypeOK
  <2> QED
    BY <1>1, <2>1, FlashKept DEF recorderNoteChange, Moved
<1>2. CASE RefuseChange \/ recorderStart \/ recorderStop \/ UNCHANGED vars
  <2>1. Committed' = Committed /\ flash' = flash /\ cleared' = cleared
    BY <1>2 DEF RefuseChange, recorderStart, recorderStop, vars, ring, cursor, history,
                Committed, Cursor, Stale, Stored
  <2> QED
    BY <1>a, <2>1, FlashKept DEF Moved
<1>3. CASE BeginDrain \/ DrainNothing
  <2>1. Committed' = Committed /\ flash' = flash /\ cleared' = cleared
    BY <1>0, <1>3 DEF BeginDrain, DrainNothing, ring, history, Committed, Cursor, Stale,
                Stored, TypeOK
  <2> QED
    BY <1>a, <2>1, FlashKept DEF Moved
<1>4. CASE ensureOpen
  <2>1. Committed' = Committed /\ cleared' = cleared
    BY <1>4 DEF ensureOpen, ring, cursor, Committed
  <2>2. Written(FileStart, TRUE) \in Item /\ Written(FileStart, TRUE).row <= 0
    BY <1>0 DEF Written, Item, FileStart, TypeOK
  <2>3. CASE MustOpen
    <3>1. flash' = Append(flash, Written(FileStart, TRUE))
      BY <1>4, <2>3 DEF ensureOpen
    <3> QED
      BY <2>1, <2>2, <3>1, FlashPlusOne DEF Moved
  <2>4. CASE ~MustOpen
    <3>1. flash' = flash
      BY <1>4, <2>4 DEF ensureOpen
    <3> QED
      BY <1>a, <2>1, <3>1, FlashKept DEF Moved
  <2> QED
    BY <2>3, <2>4
<1>5. CASE OpenFails
  <2>1. before.row \in Nat /\ before.row <= Stored
    BY <1>0, <1>5 DEF OpenFails, Cursors, InDrain, TypeOK, Stored
  <2>2. Committed' = Committed /\ flash' = flash /\ cleared' = cleared
    <3>1. at = "open" /\ at' = "idle" /\ row' = before.row
      BY <1>5 DEF OpenFails
    <3>2. flash' = flash /\ cleared' = cleared /\ head' = head /\ tail' = tail
      BY <1>5 DEF OpenFails, ring, history
    <3>3. ~Stale'
      BY <1>0, <2>1, <3>1, <3>2 DEF Stale, Stored, TypeOK
    <3> QED
      BY <3>1, <3>2, <3>3 DEF Committed, Cursor
  <2> QED
    BY <1>a, <2>2, FlashKept DEF Moved
<1>6. ASSUME NEW ok \in {TRUE, ~ShortWrites}, WriteHeader(ok)
      PROVE  ClearedBehind' /\ NothingTwice' /\ Moved
  <2>1. Committed' = Committed /\ cleared' = cleared /\ flash' = Append(flash, Written(Header, ok))
    BY <1>6 DEF WriteHeader, ring, cursor, Committed
  <2>2. ok \in BOOLEAN
    OBVIOUS
  <2>3. Written(Header, ok) \in Item /\ Written(Header, ok).row <= 0
    BY <1>0, <2>2 DEF Written, Item, Header, TypeOK
  <2> QED
    BY <2>1, <2>3, FlashPlusOne DEF Moved
<1>7. CASE WriteChunk
  <2>1. at = "write" /\ row \in Nat /\ row <= Stored /\ tail \in Nat
    BY <1>0, <1>7 DEF WriteChunk, Cursors, InDrain, TypeOK
  <2>2. ChunkLen \in Nat
    BY <1>0, <2>1, ChunkLenNat
  <2>3. Committed' = tail + row /\ cleared' = cleared
    <3>1. at' = "discard" /\ row' = row
      BY <1>7 DEF WriteChunk, cursor
    <3>2. cleared' = cleared /\ head' = head /\ tail' = tail
      BY <1>7 DEF WriteChunk, ring
    <3>3. ~Stale'
      BY <1>0, <2>1, <3>1, <3>2 DEF Stale, Stored, TypeOK
    <3> QED
      BY <3>1, <3>2, <3>3 DEF Committed, Cursor
  <2>4. flash' = flash \o Items(ChunkLen, TRUE)
    BY <1>7 DEF WriteChunk
  <2>5. ChunkLen \in 0 .. ChunkLen /\ TRUE \in BOOLEAN
    BY <2>2
  <2>6. Committed' = IF TRUE THEN tail + row ELSE Committed
    BY <2>3
  <2> QED
    BY <1>7, <2>1, <2>3, <2>4, <2>5, <2>6, FlashPlusChunk DEF Moved
<1>8. CASE WriteShort
  <2>1. at = "write" /\ before.row \in Nat /\ before.row <= Stored
    BY <1>0, <1>8 DEF WriteShort, Cursors, InDrain, TypeOK, Stored
  <2>2. ChunkLen \in Nat
    BY <1>0, <2>1, ChunkLenNat
  <2>3. PICK k \in 0 .. ChunkLen - 1 : flash' = flash \o Items(k, FALSE)
    BY <1>8 DEF WriteShort
  <2>4. k \in 0 .. ChunkLen
    BY <2>2
  <2>5. Committed' = Committed /\ cleared' = cleared
    <3>1. at' = "idle" /\ row' = before.row
      BY <1>8 DEF WriteShort
    <3>2. cleared' = cleared /\ head' = head /\ tail' = tail
      BY <1>8 DEF WriteShort, ring
    <3>3. ~Stale'
      BY <1>0, <2>1, <3>1, <3>2 DEF Stale, Stored, TypeOK
    <3> QED
      BY <2>1, <3>1, <3>2, <3>3 DEF Committed, Cursor
  <2>6. Committed' = IF FALSE THEN tail + row ELSE Committed
    BY <2>5
  <2> QED
    BY <2>1, <2>3, <2>4, <2>5, <2>6, FlashPlusChunk DEF Moved
<1>9. CASE Discard
  <2>1. row \in Nat /\ row <= Stored
    BY <1>0, <1>9 DEF Discard, Cursors, TypeOK
  <2>2. Committed' = Committed /\ flash' = flash /\ cleared' = cleared
    <3>1. at = "discard" /\ at' = "idle" /\ head' = head
          /\ flash' = flash /\ cleared' = cleared
      BY <1>9 DEF Discard, history
    <3>2. ~Stale
      BY <1>0, <2>1 DEF Stale, Stored, TypeOK
    <3>3. tail' + row' = tail + row /\ row' <= head' - tail' /\ row' \in Nat
      <4>1. tail \in Nat /\ head \in Nat /\ row <= head - tail
        BY <1>0, <2>1 DEF Stored, TypeOK
      <4>2. CASE row > CompactAt
        <5>1. tail' = tail + row /\ row' = 0
          BY <1>9, <4>2 DEF Discard
        <5> QED
          BY <2>1, <3>1, <4>1, <5>1
      <4>3. CASE ~(row > CompactAt)
        <5>1. tail' = tail /\ row' = row
          BY <1>9, <4>3 DEF Discard
        <5> QED
          BY <2>1, <3>1, <4>1, <5>1
      <4> QED
        BY <4>2, <4>3
    <3>4. ~Stale'
      <4>1. \A a, b, c \in Int : c <= a - b => ~(c > a - b)
        OBVIOUS
      <4>a. tail' \in Nat /\ head' \in Nat /\ row' \in Nat
        BY <1>0 DEF TypeOK
      <4>b. row' <= head' - tail'
        BY <3>3
      <4>2. tail' \in Int /\ head' \in Int /\ row' \in Int
        BY <4>a
      <4>3. ~(row' > head' - tail')
        BY <4>1, <4>2, <4>b
      <4> QED
        BY <4>3 DEF Stale, Stored
    <3> QED
      BY <3>1, <3>2, <3>3, <3>4 DEF Committed, Cursor
  <2> QED
    BY <1>a, <2>2, FlashKept DEF Moved
<1>10. CASE recorderClear
  <2>1. /\ Committed' = head /\ flash' = flash
        /\ cleared' = cleared \cup (tail + Cursor.row + 1 .. head)
        /\ Committed = tail + Cursor.row
    BY <1>0, <1>10 DEF recorderClear, cursor, Committed, Cursor, Stale, Stored, TypeOK
  <2>2. Committed <= head /\ head \in Nat /\ tail \in Nat
    <3>1. Cursor.row <= head - tail /\ head \in Nat /\ tail \in Nat
      BY <1>0, <1>a DEF Stored, TypeOK
    <3> QED
      BY <1>a, <2>1, <3>1
  <2>3. ClearedBehind'
    <3>1. cleared \subseteq 1 .. head
      BY <1>0 DEF TypeOK
    <3>2. \A n \in cleared' : n \in 1 .. head \/ n \in Committed + 1 .. head
      BY <2>1, <3>1
    <3> QED
      BY <2>1, <2>2, <3>2, <1>a DEF ClearedBehind
  <2>4. \A i \in DOMAIN flash : flash[i].row \in Int
    <3>1. \A e \in Item : e.row \in Int
      BY DEF Item
    <3> QED
      BY <1>0, <3>1, ElementOfSeq DEF TypeOK
  <2>5. \A i \in DOMAIN flash : Intact(i) =>
          flash[i].row <= head /\ flash[i].row \notin cleared'
    BY <1>a, <2>1, <2>2, <2>4 DEF BaseInv, NothingTwice
  <2>6. NothingTwice'
    BY <2>1, <2>5 DEF BaseInv, NothingTwice, Intact
  <2> QED
    BY <1>10, <2>3, <2>6 DEF Moved
<1>11. CASE filestoreCloseActive \/ filestoreSetMode \/ ShutGate \/ OpenGate
  <2>1. Committed' = Committed /\ flash' = flash /\ cleared' = cleared
    BY <1>11 DEF filestoreCloseActive, filestoreSetMode, ShutGate, OpenGate, ring, cursor,
                file, history, Committed, Cursor, Stale, Stored
  <2> QED
    BY <1>a, <2>1, FlashKept DEF Moved
<1> QED
  BY <1>1, <1>2, <1>3, <1>4, <1>5, <1>6, <1>7, <1>8, <1>9, <1>10, <1>11 DEF Next

-----------------------------------------------------------------------------
(* Every variable keeps its type, and the ring never holds more rows than  *)
(* it has slots (recorderNoteChange).                                      *)
THEOREM TypeCorrect == Spec => []TypeOK
<1>1. BaseInv /\ [Next]_vars => BaseInv'
  BY Step
<1>2. BaseInv => TypeOK
  BY DEF BaseInv
<1> QED
  BY InitBase, <1>1, <1>2, PTL DEF Spec

(* No row reaches flash twice or out of order, nor one that was cleared,   *)
(* for every ring, chunk and file size (drainChangeLog).                   *)
THEOREM NoRowTwice == Spec => []NothingTwice
<1>1. BaseInv /\ [Next]_vars => BaseInv'
  BY Step
<1>2. BaseInv => NothingTwice
  BY DEF BaseInv
<1> QED
  BY InitBase, <1>1, <1>2, PTL DEF Spec

(* Everything that was on flash, cleared or skipped stays so.              *)
LEMMA HistoryGrows ==
  ASSUME BaseInv, BaseInv', [Next]_vars
  PROVE  /\ cleared \cup skipped \subseteq (cleared \cup skipped)'
         /\ \A n : OnFlash(n) => OnFlash(n)'
<1>0. TypeOK /\ flash \in Seq(Item)
  BY DEF BaseInv, TypeOK
<1>1. CASE flash' = flash
  <2>1. cleared \subseteq cleared' /\ skipped \subseteq skipped'
    BY DEF Next, vars, ring, cursor, file, history, recorderNoteChange, RefuseChange,
           BeginDrain, DrainNothing, ensureOpen, OpenFails, WriteHeader, WriteChunk,
           WriteShort, Discard, recorderStart, recorderStop, recorderClear,
           filestoreCloseActive, filestoreSetMode, ShutGate, OpenGate
  <2> QED
    BY <1>1, <2>1 DEF OnFlash, Intact
<1>2. ASSUME NEW e \in Item, flash' = Append(flash, e)
      PROVE  \A n : OnFlash(n) => OnFlash(n)'
  <2>1. /\ DOMAIN flash = 1 .. Len(flash) /\ Len(flash) \in Nat
        /\ DOMAIN flash' = 1 .. Len(flash) + 1
        /\ \A i \in 1 .. Len(flash) : flash'[i] = flash[i]
    BY <1>0, <1>2, AppendProperties
  <2> QED
    BY <2>1 DEF OnFlash, Intact
<1>3. ASSUME NEW t \in Seq(Item), flash' = flash \o t
      PROVE  \A n : OnFlash(n) => OnFlash(n)'
  <2>1. /\ DOMAIN flash = 1 .. Len(flash) /\ Len(flash) \in Nat /\ Len(t) \in Nat
        /\ DOMAIN flash' = 1 .. Len(flash) + Len(t)
        /\ \A i \in 1 .. Len(flash) : flash'[i] = flash[i]
    BY <1>0, <1>3, ConcatProperties
  <2> QED
    BY <2>1 DEF OnFlash, Intact
<1>4. \A x \in {FileStart, Header} : \A h \in BOOLEAN : Written(x, h) \in Item
  BY <1>0 DEF Written, Item, FileStart, Header, TypeOK
<1>5. CASE ensureOpen
  <2>1. cleared' = cleared /\ skipped' = skipped
    BY <1>5 DEF ensureOpen
  <2>2. flash' = flash \/ flash' = Append(flash, Written(FileStart, TRUE))
    BY <1>5 DEF ensureOpen
  <2> QED
    BY <1>1, <1>2, <1>4, <2>1, <2>2
<1>6. ASSUME NEW ok \in {TRUE, ~ShortWrites}, WriteHeader(ok)
      PROVE  /\ cleared \cup skipped \subseteq (cleared \cup skipped)'
             /\ \A n : OnFlash(n) => OnFlash(n)'
  <2>1. ok \in BOOLEAN
    OBVIOUS
  <2>2. cleared' = cleared /\ skipped' = skipped
        /\ flash' = Append(flash, Written(Header, ok))
    BY <1>6 DEF WriteHeader
  <2> QED
    BY <1>2, <1>4, <2>1, <2>2
<1>7. CASE WriteChunk \/ WriteShort
  <2>1. at = "write" /\ cleared' = cleared /\ skipped' = skipped
    BY <1>7 DEF WriteChunk, WriteShort
  <2>2. ChunkLen \in Nat
    BY <2>1, ChunkLenNat DEF BaseInv
  <2>3. PICK k \in 0 .. ChunkLen : \E h \in BOOLEAN : flash' = flash \o Items(k, h)
    <3>1. CASE WriteChunk
      <4>1. flash' = flash \o Items(ChunkLen, TRUE) /\ ChunkLen \in 0 .. ChunkLen
        BY <2>2, <3>1 DEF WriteChunk
      <4> QED
        BY <4>1
    <3>2. CASE WriteShort
      <4>1. PICK k \in 0 .. ChunkLen - 1 : flash' = flash \o Items(k, FALSE)
        BY <3>2 DEF WriteShort
      <4>2. k \in 0 .. ChunkLen
        BY <2>2
      <4> QED
        BY <4>1, <4>2
    <3> QED
      BY <1>7, <3>1, <3>2
  <2>4. PICK h \in BOOLEAN : flash' = flash \o Items(k, h)
    BY <2>3
  <2>5. Items(k, h) \in Seq(Item)
    <3>1. k \in Nat
      BY <2>2
    <3> QED
      BY <1>0, <3>1, ItemsType
  <2> QED
    BY <1>3, <2>1, <2>4, <2>5
<1>8. CASE \/ recorderNoteChange \/ RefuseChange \/ BeginDrain \/ DrainNothing
           \/ OpenFails \/ Discard \/ recorderStart \/ recorderStop \/ recorderClear
           \/ filestoreCloseActive \/ filestoreSetMode \/ ShutGate \/ OpenGate
           \/ UNCHANGED vars
  <2>1. flash' = flash
    BY <1>8 DEF vars, history, recorderNoteChange, RefuseChange, BeginDrain, DrainNothing,
                OpenFails, Discard, recorderStart, recorderStop, recorderClear,
                filestoreCloseActive, filestoreSetMode, ShutGate, OpenGate
  <2> QED
    BY <1>1, <2>1
<1> QED
  BY <1>5, <1>6, <1>7, <1>8 DEF Next

(* Every drained row stays accounted for.                                  *)
LEMMA LostStep ==
  ASSUME BaseInv, BaseInv', NothingLost, [Next]_vars
  PROVE  NothingLost'
<1>0. TypeOK /\ Cursors /\ TypeOK' /\ Cursors'
  BY DEF BaseInv
<1>a. Committed \in Nat /\ Stored \in Nat /\ Cursor.row \in Nat /\ Cursor.row <= Stored
  BY <1>0, CommittedNat
<1>b. /\ cleared \cup skipped \subseteq (cleared \cup skipped)'
      /\ \A n : OnFlash(n) => OnFlash(n)'
  BY HistoryGrows
<1>1. CASE Committed' = Committed
  BY <1>b, <1>1 DEF NothingLost
<1>2. CASE WriteChunk /\ Committed' = tail + row
  <2>1. at = "write" /\ flash' = flash \o Items(ChunkLen, TRUE)
    BY <1>2 DEF WriteChunk
  <2>2. ChunkLen \in Nat /\ ChunkLen \in 0 .. ChunkLen
    BY <1>0, <2>1, ChunkLenNat
  <2> DEFINE t == Items(ChunkLen, TRUE)
  <2>3. /\ t \in Seq(Item) /\ Len(t) = ChunkLen
        /\ \A n \in Committed + 1 .. tail + row : \E i \in 1 .. ChunkLen : t[i].row = n
    BY <1>0, <2>1, <2>2, ChunkIs DEF BaseInv
  <2>4. \A i \in 1 .. ChunkLen : t[i].hashed
    BY DEF Items, Written
  <2> HIDE DEF t
  <2>5. /\ DOMAIN flash' = 1 .. Len(flash) + ChunkLen /\ Len(flash) \in Nat
        /\ \A i \in 1 .. ChunkLen : flash'[Len(flash) + i] = t[i]
    <3>1. flash \in Seq(Item) /\ flash' = flash \o t
      BY <1>0, <2>1 DEF t, TypeOK
    <3>2. /\ flash \o t \in Seq(Item) /\ Len(flash \o t) = Len(flash) + ChunkLen
          /\ \A i \in 1 .. Len(flash) + ChunkLen : (flash \o t)[i] =
                 IF i <= Len(flash) THEN flash[i] ELSE t[i - Len(flash)]
      BY <2>3, <3>1, ConcatProperties
    <3>3. Len(flash) \in Nat
      BY <3>1
    <3>4. ASSUME NEW i \in 1 .. ChunkLen PROVE (flash \o t)[Len(flash) + i] = t[i]
      BY <2>2, <3>2, <3>3
    <3>5. DOMAIN (flash \o t) = 1 .. Len(flash) + ChunkLen
      BY <3>2
    <3> QED
      BY <3>1, <3>3, <3>4, <3>5
  <2>6. ASSUME NEW n \in Committed + 1 .. tail + row
        PROVE  OnFlash(n)'
    <3>1. PICK i \in 1 .. ChunkLen : t[i].row = n
      BY <2>3
    <3>2. Len(flash) + i \in DOMAIN flash' /\ flash'[Len(flash) + i] = t[i]
      BY <2>2, <2>5
    <3>3. n > 0
      BY <1>a
    <3> QED
      BY <2>4, <3>1, <3>2, <3>3 DEF OnFlash, Intact
  <2>7. ASSUME NEW n \in 1 .. tail + row
        PROVE  n \in (cleared \cup skipped)' \/ OnFlash(n)'
    <3>1. n \in 1 .. Committed \/ n \in Committed + 1 .. tail + row
      BY <1>a
    <3> QED
      BY <1>b, <2>6, <3>1 DEF NothingLost
  <2> QED
    BY <1>2, <2>7 DEF NothingLost
<1>3. CASE recorderClear
  <2>1. /\ Committed' = head
        /\ cleared' = cleared \cup (Committed + 1 .. head)
    <3>1. Committed = tail + Cursor.row
      BY <1>3 DEF recorderClear, Committed
    <3>2. Committed' = head
      BY <1>0, <1>3 DEF recorderClear, cursor, Committed, Cursor, Stale, Stored, TypeOK
    <3> QED
      BY <1>3, <3>1, <3>2 DEF recorderClear
  <2>2. ASSUME NEW n \in 1 .. head
        PROVE  n \in (cleared \cup skipped)' \/ OnFlash(n)'
    <3>1. n \in 1 .. Committed \/ n \in Committed + 1 .. head
      BY <1>a
    <3> QED
      BY <1>b, <2>1, <3>1 DEF NothingLost
  <2> QED
    BY <2>1, <2>2 DEF NothingLost
<1>4. CASE recorderNoteChange
  <2>1. head' = head + 1 /\ tail' = tail /\ row' = row /\ at' = at /\ before' = before
    BY <1>4 DEF recorderNoteChange, cursor
  <2>2. CASE ~Refilled
    <3>1. Stale' <=> Stale
      BY <1>0, <2>1, <2>2 DEF Refilled, Stale, Stored, TypeOK
    <3>2. Committed' = Committed
      BY <2>1, <3>1 DEF Committed, Cursor
    <3> QED
      BY <1>1, <3>2
  <2>3. CASE Refilled
    <3>1. skipped' = skipped \cup (tail + 1 .. head + 1)
      BY <1>4, <2>3 DEF recorderNoteChange
    <3>2. CASE InDrain
      <4>1. Committed' = Committed
        BY <2>1, <3>2 DEF Committed, InDrain
      <4> QED
        BY <1>1, <4>1
    <3>3. CASE ~InDrain
      <4>1. Committed = tail /\ tail \in Nat /\ head \in Nat
        BY <1>0, <2>3, <3>3 DEF Committed, Cursor, Refilled, InDrain, TypeOK
      <4>2. Committed' = head + 1
        <5>1. row' = head' - tail'
          BY <1>0, <2>1, <2>3 DEF Refilled, Stored, TypeOK
        <5>2. ~Stale'
          <6>1. head' \in Nat /\ tail' \in Nat
            BY <1>0 DEF TypeOK
          <6>2. head' - tail' \in Int
            BY <6>1
          <6>3. \A i \in Int : ~(i > i)
            OBVIOUS
          <6> QED
            BY <5>1, <6>2, <6>3 DEF Stale, Stored
        <5>3. Committed' = tail' + row'
          BY <2>1, <3>3, <5>2 DEF Committed, Cursor, InDrain
        <5> QED
          BY <1>0, <2>1, <5>1, <5>3 DEF TypeOK
      <4>3. ASSUME NEW n \in 1 .. head + 1
            PROVE  n \in (cleared \cup skipped)' \/ OnFlash(n)'
        <5>1. n \in 1 .. Committed \/ n \in tail + 1 .. head + 1
          BY <4>1
        <5> QED
          BY <1>b, <3>1, <5>1 DEF NothingLost
      <4> QED
        BY <4>2, <4>3 DEF NothingLost
    <3> QED
      BY <3>2, <3>3
  <2> QED
    BY <2>2, <2>3
<1> QED
  BY <1>1, <1>2, <1>3, <1>4, Step DEF Moved

(* Every accepted row is on flash once it is drained, unless the operator  *)
(* cleared it, for every ring, chunk and file size, refused files, short   *)
(* writes and a shut gate included.  The one other way out is the refill   *)
(* of a cleared ring to exactly the old cursor, which skips the rows that  *)
(* were in the ring at that moment and no others (drainChangeLog).         *)
THEOREM NoRowLost == Spec => []NothingLost
<1>1. Init => BaseInv /\ NothingLost
  <2>1. Init => NothingLost
    BY DEF Init, NothingLost, Committed, Cursor, Stale, Stored
  <2> QED
    BY <2>1, InitBase
<1>2. BaseInv /\ NothingLost /\ [Next]_vars => (BaseInv /\ NothingLost)'
  BY Step, LostStep
<1> QED
  BY <1>1, <1>2, PTL DEF Spec
=============================================================================
