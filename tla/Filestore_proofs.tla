-------------------------- MODULE Filestore_proofs --------------------------
(***************************************************************************)
(* Safety of Filestore for every cap, budget, size of the index, number of *)
(* failures and number of boots.  The first part holds whatever LittleFS   *)
(* refuses, as long as NVS takes the indexes; the second as long as no     *)
(* rename and no removal fails either and no boot id moves on under an     *)
(* open file, and shows the filestore to implement Custody until then.     *)
(***************************************************************************)
EXTENDS Filestore, FsPolicy_proofs, SequenceTheorems

Evicting == at \in {"evictData", "evictMeta", "evictNote"}

(* Names and indexes, as long as NVS takes every index.                    *)
Names ==
  /\ \A n \in disk : n.index < nvs.idx
  /\ \A m, n \in DataFiles(disk) : m.index = n.index => m = n
  /\ \A n \in DataFiles(disk) : n.index \notin destroyed
  /\ \A i \in destroyed : i < nvs.idx
  /\ \A k \in Kind : open[k] # None => open[k] < nvs.idx
  /\ at = "create" => /\ number = nvs.idx - 1
                      /\ \A n \in disk : n.index < number
                      /\ \A i \in destroyed : i < number

(* The writers being closed are open, and none is closed twice.            *)
Closers ==
  /\ at \in {"index", "create"} => opening # "none"
  /\ closing # <<>> <=> at \in {"meta", "rename"} \/ after = "meta"
  /\ \A i \in DOMAIN closing : open[closing[i]] # None
  /\ \A i, j \in DOMAIN closing : closing[i] = closing[j] => i = j

NoneUncounted == Cardinality(destroyed) <= nvs.lost + slips + (IF InFlight THEN 1 ELSE 0)

VictimKnown ==
  IF Evicting THEN victim \in table /\ after # "none"
  ELSE victim = NoEntry /\ after = "none"

BaseInv == TypeOK /\ (puts => Names) /\ Closers /\ VictimKnown /\ NoneUncounted

LEMMA OutcomesAreBoolean == \A what : Outcomes(what) \subseteq BOOLEAN
BY DEF Outcomes

(* The actions, with every outcome of a call that may fail.                *)
Fallible ==
  \E ok \in BOOLEAN : \/ EvictData(ok) \/ EvictMeta(ok) \/ TakeIndex(ok) \/ CreateUndone(ok)
                     \/ WriteMeta(ok) \/ Rename(ok)
Quiet ==
  \/ BeginRetention \/ PickForEviction \/ RetentionDone \/ CreateFails \/ ScanEvict \/ ScanDone
  \/ (\E kind \in Kind : BeginOpen(kind)) \/ (\E kinds \in CloseLists : BeginClose(kinds))

LEMMA NextSplit ==
  ASSUME Next
  PROVE  \/ Fallible \/ Quiet \/ EvictNote \/ CreatePart \/ filestoreAck \/ filestoreAckLoss
         \/ SessionWrap \/ Restart
BY OutcomesAreBoolean DEF Next, Fallible, Quiet

LEMMA WantedInTable ==
  ASSUME TypeOK, NEW e \in Wanted \ {NoVictim}
  PROVE  e \in Evictable(table)
<1> DEFINE L == AckedLeftovers(table, ackedThrough)
<1>1. Files(table)
  BY DEF TypeOK, Entry, Files
<1>2. IsFiniteSet(L) /\ L \subseteq Evictable(table) /\ \A f \in L : f.index \in Nat
  BY <1>1, FS_Subset DEF Files, AckedLeftovers, Acked, isLeftover, Evictable
<1>3. L # {} => Oldest(L) \in L
  <2> HIDE DEF L
  <2> QED
    BY <1>2, OldestIsOldest
<1>4. fsPickVictim(table, ackedThrough) \in Evictable(table) \cup {NoVictim}
  BY <1>1, PickVictimChoice
<1>5. fsPickTierAVictim(table, ackedThrough) \in Evictable(table) \cup {NoVictim}
  BY <1>1, PickTierAVictimChoice DEF OfTier
<1> QED
  BY <1>2, <1>3, <1>4, <1>5 DEF Wanted

(* What gives way to a new entry is older than it and may go.              *)
LEMMA GivesWayInTable ==
  ASSUME TypeOK, GivesWay # {}
  PROVE  /\ Oldest(GivesWay) \in Evictable(table)
         /\ Oldest(GivesWay).index < number
<1>1. GivesWay \subseteq table /\ IsFiniteSet(GivesWay)
  BY FS_Subset DEF GivesWay, Evictable, TypeOK
<1>2. \A e \in GivesWay : e.index \in Nat
  BY <1>1 DEF TypeOK, Entry
<1> QED
  BY <1>1, <1>2, OldestIsOldest DEF GivesWay

LEMMA ScanType ==
  ASSUME TypeOK
  PROVE  Scan(disk) \subseteq Entry /\ IsFiniteSet(Scan(disk))
<1> DEFINE data == DataFiles(disk)
           hasLog(n) == \E m \in data : m.index = n.index /\ m.ext = "log"
           entry(n) == [index |-> n.index, kind |-> n.kind, boot |-> n.boot,
                        closed |-> hasLog(n), active |-> FALSE]
           g == [n \in data |-> entry(n)]
<1>1. Scan(disk) = {entry(n) : n \in data}
  BY DEF Scan
<1>2. data \subseteq Name /\ IsFiniteSet(data)
  BY FS_Subset DEF TypeOK, DataFiles
<1>3. \A n \in data : entry(n) \in Entry
  BY <1>2 DEF Name, Entry
<1>4. g \in Surjection(data, Scan(disk))
  BY <1>1 DEF Surjection
<1>5. IsFiniteSet(Scan(disk))
  <2> HIDE DEF data, g
  <2> QED
    BY <1>2, <1>4, FS_Surjection
<1> QED
  BY <1>1, <1>3, <1>5

LEMMA BaseInit == Init => BaseInv
<1> SUFFICES ASSUME Init PROVE BaseInv
  OBVIOUS
<1>1. TypeOK
  BY FS_EmptySet DEF Init, Idle, TypeOK, None
<1>2. Names /\ Closers /\ VictimKnown
  BY DEF Init, Idle, Names, DataFiles, Closers, VictimKnown, Evicting, None
<1>3. NoneUncounted
  BY FS_EmptySet DEF Init, Idle, NoneUncounted, InFlight
<1> QED
  BY <1>1, <1>2, <1>3 DEF BaseInv

LEMMA AtMostOneMore ==
  ASSUME NEW S, IsFiniteSet(S), NEW x
  PROVE  /\ Cardinality(S) \in Nat /\ Cardinality(S \cup {x}) \in Nat
         /\ Cardinality(S \cup {x}) <= Cardinality(S) + 1
<1>1. /\ IsFiniteSet(S \cup {x}) /\ Cardinality(S) \in Nat
      /\ \/ Cardinality(S \cup {x}) = Cardinality(S)
         \/ Cardinality(S \cup {x}) = Cardinality(S) + 1
  BY FS_AddElement, FS_CardinalityType
<1> QED
  BY <1>1

(* A loss in flight becomes a counted one or, by a power cut, a slip.      *)
LEMMA CountKeepsUp ==
  ASSUME BaseInv, Next
  PROVE  NoneUncounted'
<1> DEFINE owed == IF InFlight THEN 1 ELSE 0
<1>1. /\ nvs.lost \in Nat /\ slips \in Nat /\ owed \in {0, 1}
      /\ IsFiniteSet(destroyed) /\ Cardinality(destroyed) \in Nat
      /\ Cardinality(destroyed) <= nvs.lost + slips + owed
  BY FS_CardinalityType DEF BaseInv, TypeOK, NoneUncounted
<1>2. ASSUME NEW ok \in BOOLEAN, EvictData(ok) PROVE NoneUncounted'
  <2>1. /\ ~InFlight /\ nvs' = nvs /\ slips' = slips /\ victim' = victim
        /\ InFlight' <=> ~isAcked(victim, ackedThrough)
    BY <1>2 DEF EvictData, InFlight, ackedThrough
  <2>2. \/ destroyed' = destroyed
        \/ InFlight' /\ destroyed' = destroyed \cup {victim.index}
    BY <1>2, <2>1 DEF EvictData
  <2>3. Cardinality(destroyed \cup {victim.index}) <= Cardinality(destroyed) + 1
    BY <1>1, AtMostOneMore
  <2>4. Cardinality(destroyed') \in Nat /\ owed = 0
    BY <1>1, <2>1, <2>2, AtMostOneMore
  <2>5. CASE destroyed' = destroyed
    BY <1>1, <2>1, <2>4, <2>5 DEF NoneUncounted
  <2>6. CASE InFlight' /\ destroyed' = destroyed \cup {victim.index}
    BY <1>1, <2>1, <2>3, <2>4, <2>6 DEF NoneUncounted
  <2> QED
    BY <2>2, <2>5, <2>6
<1>3. ASSUME NEW ok \in BOOLEAN, EvictMeta(ok) PROVE NoneUncounted'
  <2>1. after \notin {"evictMeta", "evictNote"}
    BY DEF BaseInv, TypeOK
  <2>2. (InFlight' <=> InFlight) /\ UNCHANGED <<nvs, slips, destroyed>>
    BY <1>3, <2>1 DEF EvictMeta, Drop, InFlight, ackedThrough
  <2> QED
    BY <1>1, <2>2 DEF NoneUncounted
<1>4. CASE EvictNote
  <2>1. /\ nvs'.lost = nvs.lost + 1 /\ ~InFlight'
        /\ UNCHANGED <<slips, destroyed>>
    BY <1>4 DEF EvictNote, Drop, InFlight, history, BaseInv, TypeOK
  <2> QED
    BY <1>1, <2>1 DEF NoneUncounted
<1>5. CASE Restart
  <2>1. /\ nvs'.lost = nvs.lost /\ ~InFlight' /\ destroyed' = destroyed
        /\ slips' = slips + owed
    BY <1>1, <1>5 DEF Restart, InFlight, BaseInv, TypeOK
  <2> QED
    BY <1>1, <2>1 DEF NoneUncounted
<1>6. CASE \/ Quiet \/ CreatePart \/ filestoreAck \/ filestoreAckLoss \/ SessionWrap
           \/ \E ok \in BOOLEAN : TakeIndex(ok) \/ CreateUndone(ok) \/ WriteMeta(ok) \/ Rename(ok)
  <2>1. /\ ~InFlight /\ ~InFlight' /\ nvs'.lost = nvs.lost
        /\ UNCHANGED <<slips, destroyed>>
    BY <1>6 DEF Quiet, BeginOpen, BeginRetention, PickForEviction, RetentionDone, TakeIndex,
       CreatePart, CreateUndone, CreateFails, BeginClose, WriteMeta, Rename, filestoreAck,
       filestoreAckLoss, SessionWrap, ScanEvict, ScanDone, InFlight, history, op, BaseInv,
       TypeOK
  <2> QED
    BY <1>1, <2>1 DEF NoneUncounted
<1> QED
  BY <1>2, <1>3, <1>4, <1>5, <1>6, NextSplit DEF Fallible

LEMMA ClosingEntry ==
  ASSUME BaseInv, at \in {"meta", "rename"}
  PROVE  /\ Closing \in Entry /\ closing # <<>>
         /\ Head(closing) \in Kind /\ open[Head(closing)] \in Nat
         /\ open[Head(closing)] = Closing.index
         /\ puts => Closing.index < nvs.idx
<1>1. closing \in Seq(Kind) /\ closing # <<>>
  BY DEF BaseInv, TypeOK, Closers
<1>2. Head(closing) \in Kind /\ 1 \in DOMAIN closing /\ Head(closing) = closing[1]
  BY <1>1
<1>3. open[Head(closing)] # None /\ open[Head(closing)] \in Nat
  BY <1>2 DEF BaseInv, TypeOK, Closers
<1> QED
  BY <1>1, <1>2, <1>3 DEF Closing, Entry, BaseInv, TypeOK, Names

(* Each step keeps the types.                                              *)
LEMMA TypeKept ==
  ASSUME BaseInv, Next
  PROVE  TypeOK'
<1> USE DEF TypeOK, ram, op, history, None, Blame
<1>t. TypeOK
  BY DEF BaseInv
<1>r. nvs \in [idx : Nat, ack : Int, lost : Nat, lostack : Nat, boot : Nat] /\ boot \in Nat
  BY <1>t
<1>n. NoEntry \in {NoEntry} /\ {nvs.idx, nvs.lost, nvs.lostack, nvs.boot} \subseteq Nat
  BY <1>t
<1>1. ASSUME NEW kind \in Kind, BeginOpen(kind) PROVE TypeOK'
  BY <1>1, <1>t DEF BeginOpen
<1>2. CASE BeginRetention
  BY <1>2, <1>t DEF BeginRetention
<1>3. CASE PickForEviction
  <2>1. PICK e \in Wanted \ {NoVictim} : victim' = e
    BY <1>3 DEF PickForEviction
  <2>2. victim' \in Entry /\ evicted' \in Nat
    BY <1>3, <1>t, <2>1, WantedInTable DEF PickForEviction, Evictable
  <2> QED
    BY <1>3, <1>t, <2>2 DEF PickForEviction
<1>4. CASE RetentionDone
  BY <1>4, <1>t DEF RetentionDone
<1>5. ASSUME NEW ok \in BOOLEAN, EvictData(ok) PROVE TypeOK'
  <2>1. victim \in Entry
    BY <1>5 DEF EvictData, BaseInv, VictimKnown, Evicting
  <2>2. destroyed' \subseteq Nat /\ IsFiniteSet(destroyed')
    BY <1>5, <1>t, <2>1, FS_AddElement DEF EvictData, Entry
  <2>3. disk' \subseteq disk /\ IsFiniteSet(disk')
    BY <1>5, <1>t, FS_Subset DEF EvictData
  <2> QED
    BY <1>5, <1>t, <2>2, <2>3 DEF EvictData
<1>6. ASSUME NEW ok \in BOOLEAN, EvictMeta(ok) PROVE TypeOK'
  <2>1. /\ disk' \subseteq disk /\ IsFiniteSet(disk')
        /\ table' \subseteq table /\ IsFiniteSet(table')
    BY <1>6, <1>t, FS_Subset DEF EvictMeta, Drop
  <2>2. after \in {"retention", "scan", "idle", "meta"}
    BY <1>6 DEF EvictMeta, BaseInv, VictimKnown, Evicting
  <2> QED
    BY <1>6, <1>t, <1>n, <2>1, <2>2 DEF EvictMeta, Drop
<1>7. CASE EvictNote
  <2>1. table' \subseteq table /\ IsFiniteSet(table')
    BY <1>7, <1>t, FS_Subset DEF EvictNote, Drop
  <2>2. after \in {"retention", "scan", "idle", "meta"}
    BY <1>7 DEF EvictNote, BaseInv, VictimKnown, Evicting
  <2> QED
    BY <1>7, <1>t, <1>n, <2>1, <2>2 DEF EvictNote, Drop
<1>8. ASSUME NEW ok \in BOOLEAN, TakeIndex(ok) PROVE TypeOK'
  <2>1. nvs' \in [idx : Nat, ack : Int, lost : Nat, lostack : Nat, boot : Nat] /\ number' \in Nat
    BY <1>8, <1>r DEF TakeIndex
  <2>2. faults' \in Nat
    BY <1>8, <1>t DEF TakeIndex
  <2>3. puts' \in BOOLEAN /\ sound' \in BOOLEAN
    BY <1>8 DEF TakeIndex
  <2>4. at' = "create" /\ UNCHANGED <<disk, ram, opening, closing, victim, after, evicted,
                                     destroyed, slips>>
    BY <1>8 DEF TakeIndex
  <2> QED
    BY <1>t, <2>1, <2>2, <2>3, <2>4
<1>9. CASE CreatePart
  <2>1. opening \in Kind /\ number \in Nat
    BY <1>9, <1>t DEF CreatePart, BaseInv, Closers
  <2>2. NewEntry \in Entry /\ NameOf(NewEntry, "part") \in Name
    BY <1>t, <2>1 DEF NewEntry, Entry, NameOf, Name, Ext
  <2>3. IsFiniteSet(disk') /\ IsFiniteSet(table')
    <3>1. IsFiniteSet({e \in table : e.index # number})
      BY <1>t, FS_Subset
    <3> QED
      BY <1>9, <1>t, <3>1, FS_AddElement DEF CreatePart
  <2>4. closing' \in Seq(Kind)
    <3>1. "bookend" \in Kind
      BY DEF Kind
    <3>2. <<"bookend">> \in Seq(Kind)
      BY <3>1
    <3> QED
      BY <1>9, <1>t, <3>2 DEF CreatePart
  <2>6. victim' \in Entry \cup {NoEntry} /\ after' \in {"none", "idle", "meta"}
    <3>1. after = "none"
      BY <1>9 DEF CreatePart, BaseInv, VictimKnown, Evicting
    <3>2. GivesWay # {} => Oldest(GivesWay) \in Entry
      BY <1>t, GivesWayInTable DEF Evictable
    <3> QED
      BY <1>9, <1>t, <3>1, <3>2 DEF CreatePart
  <2>5. open' \in [Kind -> Nat \cup {None}]
    BY <1>9, <1>t, <2>1 DEF CreatePart
  <2> QED
    BY <1>9, <1>t, <2>2, <2>3, <2>4, <2>5, <2>6 DEF CreatePart
<1>10. CASE CreateFails
  BY <1>10, <1>t DEF CreateFails
<1>11. ASSUME NEW kinds \in CloseLists, BeginClose(kinds) PROVE TypeOK'
  <2>1. kinds \in Seq(Kind)
    <3>1. "snapshot" \in Kind /\ "changes" \in Kind
      BY DEF Kind
    <3>2. <<"snapshot">> \in Seq(Kind) /\ <<"changes">> \in Seq(Kind)
      BY <3>1
    <3>3. <<"snapshot", "changes">> \in Seq(Kind)
      BY <3>1
    <3> QED
      BY <1>11, <3>2, <3>3 DEF CloseLists
  <2> QED
    BY <1>11, <1>t, <2>1 DEF BeginClose
<1>12. ASSUME NEW ok \in BOOLEAN, WriteMeta(ok) PROVE TypeOK'
  <2>1. Closing \in Entry
    BY <1>12, ClosingEntry DEF WriteMeta
  <2>2. NameOf(Closing, "meta") \in Name
    BY <2>1 DEF Entry, NameOf, Name, Ext
  <2>3. disk' \subseteq Name /\ IsFiniteSet(disk')
    BY <1>12, <1>t, <2>2, FS_AddElement DEF WriteMeta
  <2> QED
    BY <1>12, <1>t, <2>3 DEF WriteMeta
<1>13. ASSUME NEW ok \in BOOLEAN, Rename(ok) PROVE TypeOK'
  <2>1. Closing \in Entry /\ closing # <<>>
    BY <1>13, ClosingEntry DEF Rename
  <2>2. NameOf(Closing, "log") \in Name
    BY <2>1 DEF Entry, NameOf, Name, Ext
  <2>3. disk' \subseteq Name /\ IsFiniteSet(disk')
    <3>1. IsFiniteSet(disk \ {NameOf(Closing, "part")})
      BY <1>t, FS_Subset
    <3> QED
      BY <1>13, <1>t, <2>2, <3>1, FS_AddElement DEF Rename
  <2>4. table' \subseteq Entry /\ IsFiniteSet(table')
    <3>1. IsFiniteSet({e \in table : e.index # Closing.index})
      BY <1>t, FS_Subset
    <3> QED
      BY <1>13, <1>t, <2>1, <3>1, FS_AddElement DEF Rename
  <2>5. open' \in [Kind -> Nat \cup {None}]
    BY <1>13, <1>t DEF Rename
  <2>6. closing' \in Seq(Kind)
    BY <1>13, <1>t, <2>1 DEF Rename
  <2> QED
    BY <1>13, <1>t, <2>3, <2>4, <2>5, <2>6 DEF Rename
<1>14. CASE filestoreAck
  <2>1. PICK n \in nvs.ack + 1 .. AckBound : nvs' = [nvs EXCEPT !.ack = n]
    BY <1>14 DEF filestoreAck
  <2>2. n \in Int
    BY <2>1, <1>t, FilestoreAssumption DEF AckBound
  <2>3. nvs' \in [idx : Nat, ack : Int, lost : Nat, lostack : Nat, boot : Nat]
    BY <2>1, <2>2, <1>t
  <2> QED
    BY <1>14, <1>t, <2>3 DEF filestoreAck
<1>15. CASE filestoreAckLoss
  <2>1. nvs' \in [idx : Nat, ack : Int, lost : Nat, lostack : Nat, boot : Nat]
    BY <1>15, <1>r DEF filestoreAckLoss
  <2> QED
    BY <1>15, <1>t, <2>1 DEF filestoreAckLoss
<1>16. CASE SessionWrap
  <2>1. nvs' \in [idx : Nat, ack : Int, lost : Nat, lostack : Nat, boot : Nat] /\ boot' \in Nat
    BY <1>16, <1>r DEF SessionWrap
  <2> QED
    BY <1>16, <1>t, <2>1 DEF SessionWrap
<1>17. CASE Restart
  <2>1. table' \subseteq Entry /\ IsFiniteSet(table')
    BY <1>17, <1>t, ScanType DEF Restart
  <2>2. /\ nvs' \in [idx : Nat, ack : Int, lost : Nat, lostack : Nat, boot : Nat]
        /\ boot' \in Nat /\ slips' \in Nat
    <3>1. nvs \in [idx : Nat, ack : Int, lost : Nat, lostack : Nat, boot : Nat] /\ slips \in Nat
      BY <1>t
    <3>2. nvs.boot + 1 \in Nat /\ slips + 1 \in Nat
      BY <3>1
    <3>3. /\ nvs' = [nvs EXCEPT !.boot = nvs.boot + 1] /\ boot' = nvs.boot + 1
          /\ slips' \in {slips, slips + 1}
      BY <1>17 DEF Restart
    <3> HIDE DEF TypeOK
    <3> QED
      BY <3>1, <3>2, <3>3
  <2>3. open' \in [Kind -> Nat \cup {None}] /\ closing' \in Seq(Kind)
    BY <1>17 DEF Restart
  <2> QED
    BY <1>17, <1>t, <2>1, <2>2, <2>3 DEF Restart
<1>18. ASSUME NEW ok \in BOOLEAN, CreateUndone(ok) PROVE TypeOK'
  <2>1. opening \in Kind /\ number \in Nat
    BY <1>18, <1>t DEF CreateUndone, BaseInv, Closers
  <2>2. NameOf(NewEntry, "part") \in Name
    BY <1>t, <2>1 DEF NewEntry, NameOf, Name, Ext
  <2>3. disk' \subseteq Name /\ IsFiniteSet(disk')
    BY <1>18, <1>t, <2>2, FS_AddElement, FS_Subset DEF CreateUndone
  <2> QED
    BY <1>18, <1>t, <2>3 DEF CreateUndone
<1>19. CASE ScanEvict
  BY <1>19, <1>t DEF ScanEvict, Evictable
<1>20. CASE ScanDone
  BY <1>20, <1>t DEF ScanDone
<1> QED
  BY <1>1, <1>2, <1>3, <1>4, <1>5, <1>6, <1>7, <1>8, <1>9, <1>10, <1>11, <1>12, <1>13,
     <1>14, <1>15, <1>16, <1>17, <1>18, <1>19, <1>20, NextSplit DEF Fallible, Quiet

LEMMA FewerNames ==
  ASSUME NEW S, NEW T, S \subseteq T,
         \A m, n \in DataFiles(T) : m.index = n.index => m = n
  PROVE  \A m, n \in DataFiles(S) : m.index = n.index => m = n
BY DEF DataFiles

(* The counter is ahead of every name and every destroyed file.            *)
LEMMA NamesKept ==
  ASSUME BaseInv, Next, puts'
  PROVE  Names'
<1> USE DEF Names
<1>p. puts
  <2>1. (\E ok \in BOOLEAN : TakeIndex(ok)) => puts
    BY DEF TakeIndex
  <2>2. ~(\E ok \in BOOLEAN : TakeIndex(ok)) => puts' = puts
    BY NextSplit DEF Fallible, Quiet, BeginOpen, BeginRetention, PickForEviction, RetentionDone,
       EvictData, EvictMeta, EvictNote, CreatePart, CreateUndone, CreateFails, BeginClose,
       WriteMeta, Rename, filestoreAck, filestoreAckLoss, SessionWrap, Restart, ScanEvict,
       ScanDone, history
  <2> QED
    BY <2>1, <2>2
<1>t. /\ TypeOK /\ Names /\ nvs.idx \in Nat /\ (\A n \in disk : n.index \in Nat)
      /\ destroyed \subseteq Nat
  BY <1>p DEF BaseInv, TypeOK, Name
<1>o. open \in [Kind -> Nat \cup {None}]
  BY DEF BaseInv, TypeOK
<1>1. ASSUME NEW ok \in BOOLEAN, EvictData(ok) PROVE Names'
  <2>1. victim \in Entry
    BY <1>1 DEF EvictData, BaseInv, TypeOK, VictimKnown, Evicting
  <2>2. /\ at' = "evictMeta" /\ nvs' = nvs /\ open' = open
        /\ \/ disk' = disk /\ destroyed' = destroyed
           \/ /\ DataName(victim) \in disk /\ disk' = disk \ {DataName(victim)}
              /\ destroyed' \subseteq destroyed \cup {victim.index}
    BY <1>1 DEF EvictData, ram
  <2>3. DataName(victim).index = victim.index /\ DataName(victim).ext # "meta"
    BY DEF DataName, NameOf
  <2>4. CASE disk' = disk /\ destroyed' = destroyed
    BY <1>t, <2>2, <2>4
  <2>5. CASE /\ DataName(victim) \in disk /\ disk' = disk \ {DataName(victim)}
             /\ destroyed' \subseteq destroyed \cup {victim.index}
    <3>1. \A n \in DataFiles(disk') : n.index \notin destroyed'
      BY <1>t, <2>3, <2>5 DEF DataFiles
    <3>2. \A i \in destroyed' : i < nvs'.idx
      BY <1>t, <2>2, <2>3, <2>5
    <3>3. \A m, n \in DataFiles(disk') : m.index = n.index => m = n
      BY <1>t, <2>5 DEF DataFiles
    <3> QED
      BY <1>t, <2>2, <2>5, <3>1, <3>2, <3>3
  <2> QED
    BY <2>2, <2>4, <2>5
<1>2. ASSUME NEW ok \in BOOLEAN, EvictMeta(ok) PROVE Names'
  <2>1. /\ disk' \subseteq disk /\ nvs' = nvs /\ destroyed' = destroyed /\ at' # "create"
        /\ open' = open
    BY <1>2, <1>t DEF EvictMeta, Drop, TypeOK
  <2>2. \A m, n \in DataFiles(disk') : m.index = n.index => m = n
    BY <1>t, <2>1, FewerNames
  <2> QED
    BY <1>t, <2>1, <2>2 DEF DataFiles
<1>3. ASSUME NEW ok \in BOOLEAN, TakeIndex(ok) PROVE Names'
  <2>1. ok /\ disk' = disk /\ destroyed' = destroyed /\ open' = open /\ number' = nvs.idx
    BY <1>3 DEF TakeIndex, ram
  <2>2. nvs'.idx = nvs.idx + 1
    BY <1>3, <2>1, <1>t DEF TakeIndex, TypeOK
  <2>3. \A k \in Kind : open'[k] # None => open'[k] < nvs'.idx
    BY <1>t, <1>o, <2>1, <2>2
  <2> QED
    BY <1>t, <2>1, <2>2, <2>3 DEF DataFiles
<1>4. CASE CreatePart
  <2> DEFINE new == NameOf(NewEntry, "part")
  <2>1. /\ disk' = disk \cup {new} /\ nvs' = nvs /\ destroyed' = destroyed /\ at = "create"
        /\ at' \in {"idle", "meta", "evictData"}
        /\ open' = [open EXCEPT ![opening] = number]
    BY <1>4 DEF CreatePart, history
  <2>2. new.index = number
    BY DEF NameOf, NewEntry
  <2>3. /\ \A n \in disk : n.index < new.index
        /\ \A i \in destroyed : i < new.index
        /\ new.index < nvs.idx /\ number \in Nat
    BY <1>t, <2>1, <2>2 DEF TypeOK
  <2> HIDE DEF new
  <2>5. DataFiles(disk') \subseteq DataFiles(disk) \cup {new}
    BY <2>1 DEF DataFiles
  <2>6. /\ \A n \in disk' : n.index < nvs'.idx
        /\ \A k \in Kind : open'[k] # None => open'[k] < nvs'.idx
    BY <1>t, <1>o, <2>1, <2>2, <2>3
  <2>7. \A m, n \in DataFiles(disk') : m.index = n.index => m = n
    <3>1. \A n \in DataFiles(disk) : n.index # new.index
      BY <1>t, <2>2, <2>3 DEF DataFiles
    <3> QED
      BY <1>t, <2>5, <3>1
  <2>8. \A n \in DataFiles(disk') : n.index \notin destroyed'
    BY <1>t, <2>1, <2>2, <2>3, <2>5
  <2> QED
    BY <1>t, <2>1, <2>6, <2>7, <2>8
<1>5. ASSUME NEW ok \in BOOLEAN, WriteMeta(ok) PROVE Names'
  <2>1. /\ disk' \subseteq disk \cup {NameOf(Closing, "meta")}
        /\ nvs' = nvs /\ destroyed' = destroyed /\ at' = "rename" /\ open' = open
    BY <1>5 DEF WriteMeta, ram
  <2>2. NameOf(Closing, "meta").index < nvs.idx
    BY <1>5, <1>p, ClosingEntry DEF WriteMeta, NameOf
  <2>3. DataFiles(disk') \subseteq DataFiles(disk)
    BY <2>1 DEF DataFiles, NameOf
  <2> QED
    BY <1>t, <2>1, <2>2, <2>3
<1>6. ASSUME NEW ok \in BOOLEAN, Rename(ok) PROVE Names'
  <2> DEFINE part == NameOf(Closing, "part")
             log == NameOf(Closing, "log")
  <2>1. /\ \/ disk' = disk
           \/ part \in disk /\ disk' = (disk \ {part}) \cup {log}
        /\ nvs' = nvs /\ destroyed' = destroyed /\ at' \in {"idle", "meta"}
    <3>1. nvs' = nvs /\ destroyed' = destroyed /\ at' \in {"idle", "meta"}
      BY <1>6 DEF Rename
    <3>2. disk' = IF ok /\ part \in disk THEN (disk \ {part}) \cup {log} ELSE disk
      BY <1>6 DEF Rename
    <3> HIDE DEF part, log
    <3> QED
      BY <3>1, <3>2
  <2>2. part.index = log.index /\ part.ext # "meta"
    BY DEF NameOf
  <2>5. \A k \in Kind : open'[k] # None => open'[k] = open[k] /\ open[k] # None
    BY <1>6, <1>o DEF Rename
  <2>6. \A k \in Kind : open'[k] # None => open'[k] < nvs'.idx
    BY <1>t, <2>1, <2>5
  <2> HIDE DEF part, log
  <2>3. CASE disk' = disk
    BY <1>t, <2>1, <2>3, <2>6
  <2>4. CASE part \in disk /\ disk' = (disk \ {part}) \cup {log}
    <3>1. \A n \in DataFiles(disk) : n.index = log.index => n = part
      BY <1>t, <2>2, <2>4 DEF DataFiles
    <3>2. DataFiles(disk') \subseteq (DataFiles(disk) \ {part}) \cup {log}
      BY <2>4 DEF DataFiles
    <3>3. \A m, n \in DataFiles(disk') : m.index = n.index => m = n
      BY <1>t, <3>1, <3>2
    <3>4. \A n \in DataFiles(disk') : n.index \notin destroyed'
      BY <1>t, <2>1, <2>2, <2>4, <3>2 DEF DataFiles
    <3>5. \A n \in disk' : n.index < nvs'.idx
      BY <1>t, <2>1, <2>2, <2>4
    <3> QED
      BY <1>t, <2>1, <2>6, <3>3, <3>4, <3>5
  <2> QED
    BY <2>1, <2>3, <2>4
<1>7. ASSUME NEW ok \in BOOLEAN, CreateUndone(ok) PROVE Names'
  <2> DEFINE new == NameOf(NewEntry, "part")
  <2>1. /\ disk' \subseteq disk \cup {new} /\ nvs' = nvs /\ destroyed' = destroyed
        /\ at = "create" /\ at' = "idle" /\ open' = open
    BY <1>7 DEF CreateUndone, ram
  <2>2. new.index = number /\ number \in Nat
    BY <1>t DEF NameOf, NewEntry, TypeOK
  <2> HIDE DEF new
  <2>3. \A n \in DataFiles(disk') : n = new \/ n \in DataFiles(disk)
    BY <2>1 DEF DataFiles
  <2>4. \A n \in DataFiles(disk) : n.index # new.index
    BY <1>t, <2>1, <2>2 DEF DataFiles
  <2>5. \A n \in disk' : n.index < nvs'.idx
    BY <1>t, <2>1, <2>2
  <2>6. \A n \in DataFiles(disk') : n.index \notin destroyed'
    BY <1>t, <2>1, <2>2, <2>3
  <2>7. \A m, n \in DataFiles(disk') : m.index = n.index => m = n
    BY <1>t, <2>3, <2>4
  <2> QED
    BY <1>t, <2>1, <2>5, <2>6, <2>7
<1>8. CASE Restart
  <2>1. /\ UNCHANGED <<disk, destroyed>> /\ nvs'.idx = nvs.idx
        /\ at' = "scan" /\ \A k \in Kind : open'[k] = None
    BY <1>8, <1>t DEF Restart, TypeOK
  <2> QED
    BY <1>t, <2>1
<1>9. CASE Quiet \/ EvictNote \/ filestoreAck \/ filestoreAckLoss \/ SessionWrap
  <2>1. /\ UNCHANGED <<disk, destroyed, open>> /\ nvs'.idx = nvs.idx
        /\ at' # "create"
    BY <1>9, <1>t DEF Quiet, BeginOpen, BeginRetention, PickForEviction, RetentionDone,
       EvictNote, Drop, CreateFails, BeginClose, filestoreAck, filestoreAckLoss, SessionWrap,
       ScanEvict, ScanDone, ram, history, op, TypeOK
  <2> QED
    BY <1>t, <2>1
<1> QED
  BY <1>1, <1>2, <1>3, <1>4, <1>5, <1>6, <1>7, <1>8, <1>9, NextSplit DEF Fallible

(* What is being closed is open until its own rename.                      *)
LEMMA ClosersKept ==
  ASSUME BaseInv, Next
  PROVE  Closers'
<1> USE DEF Closers
<1>t. /\ Closers /\ VictimKnown /\ closing \in Seq(Kind)
      /\ open \in [Kind -> Nat \cup {None}] /\ None = -1 /\ number \in Nat
      /\ \A i \in DOMAIN closing : closing[i] \in Kind
      /\ opening \in Kind \cup {"none"}
  BY DEF BaseInv, TypeOK, None
<1>1. ASSUME NEW ok \in BOOLEAN, TakeIndex(ok) PROVE Closers'
  <2>1. /\ at = "index" /\ at' = "create"
        /\ UNCHANGED <<open, closing, opening, after>>
    BY <1>1 DEF TakeIndex, ram
  <2> QED
    BY <1>t, <2>1
<1>2. CASE CreatePart
  <2>1. /\ at = "create" /\ opening \in Kind /\ open' = [open EXCEPT ![opening] = number]
        /\ closing = <<>> /\ after = "none"
    BY <1>2, <1>t DEF CreatePart, VictimKnown, Evicting
  <2>2. open'[opening] # None
    BY <1>t, <2>1
  <2>3. \/ closing' = <<>> /\ at' \in {"idle", "evictData"} /\ after' \in {"none", "idle"}
        \/ /\ opening = "bookend" /\ closing' = <<"bookend">>
           /\ \/ at' = "meta" /\ after' = "none"
              \/ at' = "evictData" /\ after' = "meta"
    BY <1>2, <2>1 DEF CreatePart
  <2> QED
    BY <2>1, <2>2, <2>3
<1>3. ASSUME NEW kinds \in CloseLists, BeginClose(kinds) PROVE Closers'
  <2>1. /\ kinds # <<>> /\ closing' = kinds /\ at' = "meta" /\ open' = open
        /\ \A i \in DOMAIN kinds : open[kinds[i]] # None
    BY <1>3 DEF BeginClose, ram
  <2>2. \A i, j \in DOMAIN kinds : kinds[i] = kinds[j] => i = j
    BY DEF CloseLists
  <2> QED
    BY <1>t, <2>1, <2>2
<1>4. ASSUME NEW ok \in BOOLEAN, WriteMeta(ok) PROVE Closers'
  <2>1. /\ at = "meta" /\ at' = "rename"
        /\ UNCHANGED <<open, closing, opening, after>>
    BY <1>4 DEF WriteMeta, ram
  <2> QED
    BY <1>t, <2>1
<1>5. ASSUME NEW ok \in BOOLEAN, Rename(ok) PROVE Closers'
  <2>1. /\ at = "rename" /\ closing' = Tail(closing)
        /\ open' = [open EXCEPT ![Head(closing)] = None] /\ after' = after /\ after = "none"
        /\ at' = IF Tail(closing) = <<>> THEN "idle" ELSE "meta"
    BY <1>5, <1>t DEF Rename, VictimKnown, Evicting
  <2>2. closing # <<>> /\ Head(closing) = closing[1] /\ 1 \in DOMAIN closing
    BY <1>t, <2>1
  <2>4. \A i \in DOMAIN closing' : i + 1 \in DOMAIN closing /\ closing'[i] = closing[i + 1]
                                   /\ i \in Nat \ {0}
    BY <1>t, <2>1, <2>2
  <2>5. \A i, j \in DOMAIN closing' : closing'[i] = closing'[j] => i = j
    <3> TAKE i, j \in DOMAIN closing'
    <3> HAVE closing'[i] = closing'[j]
    <3>1. i + 1 = j + 1
      BY <1>t, <2>4
    <3> QED
      BY <2>4, <3>1
  <2>6. \A i \in DOMAIN closing' : open'[closing'[i]] # None
    <3> TAKE i \in DOMAIN closing'
    <3>1. i + 1 # 1 /\ i + 1 \in DOMAIN closing
      BY <2>4
    <3>2. closing[i + 1] # closing[1]
      BY <1>t, <2>2, <3>1
    <3> QED
      BY <1>t, <2>1, <2>2, <2>4, <3>1, <3>2
  <2> QED
    BY <2>1, <2>5, <2>6
<1>6. CASE Restart
  <2>1. closing' = <<>> /\ at' = "scan" /\ after' = "none"
    BY <1>6 DEF Restart
  <2> QED
    BY <2>1
<1>7. CASE EvictNote \/ \E ok \in BOOLEAN : EvictData(ok) \/ EvictMeta(ok)
  <2>1. /\ UNCHANGED <<open, closing, opening>> /\ Evicting
        /\ \/ at' = after /\ after' = "none"
           \/ at' \in {"evictMeta", "evictNote"} /\ after' = after
    BY <1>7 DEF EvictNote, EvictData, EvictMeta, Drop, ram, Evicting
  <2>2. after \in {"retention", "scan", "idle", "meta"}
    BY <1>t, <2>1 DEF VictimKnown, BaseInv, TypeOK
  <2>3. (closing # <<>> <=> at \in {"meta", "rename"} \/ after = "meta")'
    BY <1>t, <2>1, <2>2 DEF Evicting
  <2>4. at' \notin {"index", "create"}
    BY <2>1, <2>2
  <2> QED
    BY <1>t, <2>1, <2>3, <2>4
<1>8. CASE \/ Quiet /\ ~(\E kinds \in CloseLists : BeginClose(kinds))
           \/ filestoreAck \/ filestoreAckLoss \/ SessionWrap
           \/ \E ok \in BOOLEAN : CreateUndone(ok)
  <2>1. /\ UNCHANGED <<open, closing>> /\ ~Evicting /\ after' \in {after, "retention", "scan"}
        /\ at \notin {"meta", "rename"} /\ at' \notin {"meta", "rename", "create"}
        /\ at' = "index" => opening' # "none"
    BY <1>8 DEF Quiet, BeginOpen, BeginRetention, PickForEviction, RetentionDone, CreateUndone,
       CreateFails, filestoreAck, filestoreAckLoss, SessionWrap, ScanEvict, ScanDone, ram, op,
       Evicting
  <2> QED
    BY <1>t, <2>1 DEF VictimKnown
<1> QED
  BY <1>1, <1>2, <1>3, <1>4, <1>5, <1>6, <1>7, <1>8, NextSplit DEF Fallible

LEMMA VictimKept ==
  ASSUME BaseInv, Next
  PROVE  VictimKnown'
<1> USE DEF VictimKnown, Evicting
<1>t. VictimKnown
  BY DEF BaseInv
<1>1. CASE PickForEviction
  <2>1. \E e \in Wanted \ {NoVictim} : victim' = e
    BY <1>1 DEF PickForEviction
  <2>2. victim' \in table
    BY <2>1, WantedInTable DEF Evictable, BaseInv
  <2> QED
    BY <1>1, <2>2 DEF PickForEviction, ram
<1>2. CASE CreatePart
  <2>1. CASE at' = "evictData"
    <3>1. /\ GivesWay # {} /\ victim' = Oldest(GivesWay) /\ after' # "none"
          /\ table' = {e \in table : e.index # number} \cup {NewEntry}
      BY <1>2, <2>1 DEF CreatePart
    <3>2. victim' \in table /\ victim'.index < number
      BY <3>1, GivesWayInTable DEF Evictable, BaseInv
    <3>3. victim'.index \in Nat /\ number \in Nat
      BY <3>2 DEF BaseInv, TypeOK, Entry
    <3> QED
      BY <2>1, <3>1, <3>2, <3>3
  <2>2. CASE at' # "evictData"
    BY <1>2, <1>t, <2>2 DEF CreatePart
  <2> QED
    BY <2>1, <2>2
<1>3. CASE ScanEvict
  BY <1>3 DEF ScanEvict, Evictable, ram
<1>4. CASE EvictNote \/ \E ok \in BOOLEAN : EvictData(ok) \/ EvictMeta(ok)
  <2>1. after \in {"retention", "scan", "idle", "meta"}
    BY <1>4, <1>t DEF EvictNote, EvictData, EvictMeta, BaseInv, TypeOK
  <2> QED
    BY <1>4, <1>t, <2>1 DEF EvictNote, EvictData, EvictMeta, Drop, ram
<1>5. CASE ~(PickForEviction \/ CreatePart \/ ScanEvict \/ EvictNote
             \/ \E ok \in BOOLEAN : EvictData(ok) \/ EvictMeta(ok))
  BY <1>5, <1>t, NextSplit DEF Fallible, Quiet, BeginOpen, BeginRetention, RetentionDone,
     TakeIndex, CreateUndone, CreateFails, BeginClose, WriteMeta, Rename, filestoreAck,
     filestoreAckLoss, SessionWrap, Restart, ScanDone, ram, op
<1> QED
  BY <1>1, <1>2, <1>3, <1>4, <1>5

LEMMA BaseStep == BaseInv /\ [Next]_vars => BaseInv'
<1> SUFFICES ASSUME BaseInv, [Next]_vars PROVE BaseInv'
  OBVIOUS
<1>1. CASE Next
  BY <1>1, TypeKept, NamesKept, ClosersKept, VictimKept, CountKeepsUp DEF BaseInv
<1>2. CASE UNCHANGED vars
  BY <1>2 DEF vars, ram, op, history, BaseInv, TypeOK, Names, DataFiles, Closers,
     VictimKnown, Evicting, NoneUncounted, InFlight, ackedThrough
<1> QED
  BY <1>1, <1>2

LEMMA BaseHolds == Spec => []BaseInv
BY BaseInit, BaseStep, PTL DEF Spec

(* Every step keeps every variable in its type, whatever fails.            *)
THEOREM TypeCorrect == Spec => []TypeOK
<1>1. BaseInv => TypeOK
  BY DEF BaseInv
<1> QED
  BY <1>1, BaseHolds, PTL

(* nextIndex() gives no number out twice as long as NVS takes the numbers: *)
(* whatever else fails and wherever the power goes, no two data files      *)
(* share an index and the counter in NVS is ahead of every name on the     *)
(* partition.  (A put that fails is not noticed, and then it does.)        *)
THEOREM NoIndexTwice == Spec => []IndexesUnique
<1>1. BaseInv => IndexesUnique
  BY DEF BaseInv, Names, IndexesUnique
<1> QED
  BY <1>1, BaseHolds, PTL

(* A raised warning is lowered by the hub's loss ack and by nothing else.  *)
THEOREM WarningStays == Spec => WarnStays
<1>1. ASSUME BaseInv, [Next]_vars
      PROVE  [Warn /\ ~Warn' => nvs'.lostack > nvs.lostack /\ nvs'.lost = nvs.lost]_vars
  <2> SUFFICES ASSUME Warn, ~Warn'
               PROVE  nvs'.lostack > nvs.lostack /\ nvs'.lost = nvs.lost
    OBVIOUS
  <2>t. nvs \in [idx : Nat, ack : Int, lost : Nat, lostack : Nat, boot : Nat]
    BY <1>1 DEF BaseInv, TypeOK
  <2>1. nvs' # nvs
    BY DEF Warn
  <2>2. CASE EvictNote
    <3>1. nvs'.lost = nvs.lost + 1 /\ nvs'.lostack = nvs.lostack
      BY <2>t, <2>2 DEF EvictNote
    <3> QED
      BY <2>t, <3>1 DEF Warn
  <2>3. CASE filestoreAckLoss
    <3>1. PICK n \in nvs.lostack + 1 .. nvs.lost : nvs' = [nvs EXCEPT !.lostack = n]
      BY <2>3 DEF filestoreAckLoss
    <3> QED
      BY <2>t, <3>1
  <2>4. CASE ~(EvictNote \/ filestoreAckLoss)
    <3>1. Next
      BY <1>1, <2>1 DEF vars
    <3>2. nvs'.lost = nvs.lost /\ nvs'.lostack = nvs.lostack
      BY <2>t, <2>1, <2>4, <3>1, NextSplit DEF Fallible, Quiet, BeginOpen, BeginRetention,
         PickForEviction, RetentionDone, EvictData, EvictMeta, TakeIndex, CreatePart,
         CreateUndone, CreateFails, BeginClose, WriteMeta, Rename, filestoreAck, SessionWrap,
         Restart, ScanEvict, ScanDone
    <3> QED
      BY <3>2 DEF Warn
  <2> QED
    BY <2>2, <2>3, <2>4
<1> QED
  BY <1>1, BaseHolds, PTL DEF Spec, WarnStays

-----------------------------------------------------------------------------
(* The index and the directory, as long as nothing of `sound' fails.       *)

Removed(e) == e = victim /\ at \in {"evictMeta", "evictNote"}
OpenEntry(k) == [index |-> open[k], kind |-> k, boot |-> boot, closed |-> FALSE,
                 active |-> TRUE]

(* One entry for each data file and one data file for each entry, but for  *)
(* the entry being evicted once its file is gone.                          *)
Tracked ==
  /\ \A e \in table : DataName(e) \in disk <=> ~Removed(e)
  /\ \A n \in DataFiles(disk) : \E e \in table : n = DataName(e)
  /\ \A e, f \in table : e.index = f.index => e = f
  /\ \A e \in table : e.index < nvs.idx /\ (at = "create" => e.index < number)

Writers ==
  /\ \A k \in Kind : open[k] # None => OpenEntry(k) \in table
  /\ Evicting => ~victim.active

Owed == at = "evictNote" => ~isAcked(victim, ackedThrough)

CountedOnce == Cardinality(destroyed) = nvs.lost + slips + (IF InFlight THEN 1 ELSE 0)

StrongInv == puts /\ BaseInv /\ Tracked /\ Writers /\ Owed /\ CountedOnce

SoundInv == sound => StrongInv

LEMMA SoundBefore ==
  ASSUME [Next]_vars, sound'
  PROVE  sound /\ (puts => puts')
<1>1. CASE Next
  <2>1. ASSUME NEW ok \in BOOLEAN, TakeIndex(ok) PROVE sound /\ (puts => puts')
    <3>1. (puts' <=> puts /\ ok) /\ (sound' <=> sound /\ ok)
      BY <2>1 DEF TakeIndex
    <3> QED
      BY <3>1
  <2>2. ASSUME NEW ok \in BOOLEAN, EvictData(ok) \/ CreateUndone(ok) \/ Rename(ok)
        PROVE  sound /\ (puts => puts')
    <3>1. puts' = puts /\ (sound' <=> sound /\ ok)
      BY <2>2 DEF EvictData, CreateUndone, Rename
    <3> QED
      BY <3>1
  <2>3. CASE SessionWrap
    <3>1. puts' = puts /\ (sound' <=> sound /\ \A k \in Kind : open[k] = None)
      BY <2>3 DEF SessionWrap
    <3> QED
      BY <3>1
  <2>4. CASE \/ Quiet \/ EvictNote \/ CreatePart \/ filestoreAck \/ filestoreAckLoss \/ Restart
             \/ \E ok \in BOOLEAN : EvictMeta(ok) \/ WriteMeta(ok)
    <3>1. puts' = puts /\ sound' = sound
      BY <2>4 DEF Quiet, BeginOpen, BeginRetention, PickForEviction,
         RetentionDone, EvictMeta, EvictNote, CreatePart, CreateFails, BeginClose, WriteMeta,
         filestoreAck, filestoreAckLoss, Restart, ScanEvict, ScanDone, history
    <3> QED
      BY <3>1
  <2> QED
    BY <1>1, <2>1, <2>2, <2>3, <2>4, NextSplit DEF Fallible
<1>2. CASE UNCHANGED vars
  BY <1>2 DEF vars, history
<1> QED
  BY <1>1, <1>2

(* Until `sound' is gone, the calls it speaks of succeed.                  *)
LEMMA SoundOutcome ==
  ASSUME sound', NEW ok \in BOOLEAN
  PROVE  /\ EvictData(ok) => EvictData(TRUE)
         /\ TakeIndex(ok) => TakeIndex(TRUE)
         /\ CreateUndone(ok) => CreateUndone(TRUE)
         /\ Rename(ok) => Rename(TRUE)
<1>1. EvictData(ok) \/ TakeIndex(ok) \/ CreateUndone(ok) \/ Rename(ok) => (sound' <=> sound /\ ok)
  BY DEF EvictData, TakeIndex, CreateUndone, Rename
<1>2. EvictData(ok) \/ TakeIndex(ok) \/ CreateUndone(ok) \/ Rename(ok) => ok = TRUE
  BY <1>1
<1> QED
  BY <1>2

LEMMA SoundSplit ==
  ASSUME Next, sound'
  PROVE  \/ EvictData(TRUE) \/ TakeIndex(TRUE) \/ CreateUndone(TRUE) \/ Rename(TRUE)
         \/ \E ok \in BOOLEAN : EvictMeta(ok) \/ WriteMeta(ok)
         \/ Quiet \/ EvictNote \/ CreatePart \/ filestoreAck \/ filestoreAckLoss
         \/ SessionWrap \/ Restart
BY NextSplit, SoundOutcome DEF Fallible

LEMMA SoundWrap ==
  ASSUME sound', SessionWrap
  PROVE  /\ \A k \in Kind : open[k] = None
         /\ UNCHANGED <<disk, table, open, op>> /\ nvs' = [nvs EXCEPT !.boot = @ + 1]
         /\ at = "idle"
BY DEF SessionWrap

LEMMA DataNameFacts ==
  ASSUME NEW e \in Entry
  PROVE  /\ DataName(e).index = e.index /\ DataName(e).ext \in {"log", "part"}
         /\ DataName(e).kind = e.kind /\ DataName(e).boot = e.boot
         /\ DataName(e) = [index |-> e.index, kind |-> e.kind, boot |-> e.boot,
                           ext |-> DataName(e).ext]
         /\ DataName(e).ext = "log" <=> e.closed
BY DEF DataName, NameOf

(* The boot scan tells every data file from every other.                   *)
LEMMA ScanTracks ==
  ASSUME TypeOK, Names
  PROVE  /\ \A e \in Scan(disk) : DataName(e) \in disk
         /\ \A n \in DataFiles(disk) : \E e \in Scan(disk) : n = DataName(e)
         /\ \A e, f \in Scan(disk) : e.index = f.index => e = f
         /\ \A e \in Scan(disk) : e.index < nvs.idx
<1> DEFINE data == DataFiles(disk)
           hasLog(n) == \E m \in data : m.index = n.index /\ m.ext = "log"
           entry(n) == [index |-> n.index, kind |-> n.kind, boot |-> n.boot,
                        closed |-> hasLog(n), active |-> FALSE]
<1>1. Scan(disk) = {entry(n) : n \in data}
  BY DEF Scan
<1>2. /\ data \subseteq disk /\ data \subseteq Name
      /\ \A m, n \in data : m.index = n.index => m = n
      /\ \A n \in data : n.index < nvs.idx /\ n.ext \in {"log", "part"}
  BY DEF TypeOK, Names, DataFiles, Name, Ext
<1>3. \A n \in data : hasLog(n) <=> n.ext = "log"
  BY <1>2
<1>4. ASSUME NEW n \in data PROVE DataName(entry(n)) = n
  <2>1. n = [index |-> n.index, kind |-> n.kind, boot |-> n.boot, ext |-> n.ext]
    BY <1>2 DEF Name
  <2>2. n.ext = IF entry(n).closed THEN "log" ELSE "part"
    BY <1>2, <1>3
  <2> QED
    BY <2>1, <2>2 DEF DataName, NameOf
<1>5. \A e \in Scan(disk) : \E n \in data : e = entry(n) /\ DataName(e) = n
  BY <1>1, <1>4
<1>6. \A n \in data : entry(n) \in Scan(disk)
  BY <1>1
<1>7. \A n \in data : entry(n).index = n.index
  OBVIOUS
<1> HIDE DEF data, entry
<1>8. \A e, f \in Scan(disk) : e.index = f.index => e = f
  <2> TAKE e, f \in Scan(disk)
  <2> HAVE e.index = f.index
  <2>1. PICK m \in data : e = entry(m)
    BY <1>5
  <2>2. PICK n \in data : f = entry(n)
    BY <1>5
  <2> QED
    BY <1>2, <1>7, <2>1, <2>2
<1>9. \A e \in Scan(disk) : DataName(e) \in disk /\ e.index < nvs.idx
  BY <1>2, <1>5, <1>7
<1>10. \A n \in data : \E e \in Scan(disk) : n = DataName(e)
  BY <1>4, <1>6
<1> QED
  BY <1>8, <1>9, <1>10 DEF data

LEMMA TrackedKept ==
  ASSUME StrongInv, Next, sound'
  PROVE  Tracked'
<1>t. /\ TypeOK /\ Names /\ Tracked /\ Writers /\ VictimKnown /\ Closers /\ nvs.idx \in Nat
      /\ table \subseteq Entry
      /\ Evicting => after \in {"retention", "scan", "idle", "meta"}
  BY DEF StrongInv, BaseInv, TypeOK, VictimKnown
<1>d. \A e \in table : /\ DataName(e).index = e.index
                       /\ DataName(e).ext \in {"log", "part"}
  BY <1>t, DataNameFacts
<1>u. \A e, f \in table : DataName(e) = DataName(f) => e = f
  BY <1>t, <1>d DEF Tracked
<1>1. CASE EvictData(TRUE)
  <2>1. /\ disk' = disk \ {DataName(victim)} /\ at' = "evictMeta" /\ at = "evictData"
        /\ UNCHANGED <<nvs, table, victim>> /\ victim \in table
    BY <1>1, <1>t DEF EvictData, ram, VictimKnown, Evicting
  <2>2. \A e \in table : DataName(e) \in disk' <=> ~(Removed(e)')
    BY <1>t, <1>u, <2>1 DEF Tracked, Removed
  <2>3. DataFiles(disk') \subseteq DataFiles(disk)
    BY <2>1 DEF DataFiles
  <2> QED
    BY <1>t, <2>1, <2>2, <2>3 DEF Tracked
<1>2. ASSUME NEW ok \in BOOLEAN, EvictMeta(ok) PROVE Tracked'
  <2>1. /\ disk' = disk \ {NameOf(victim, "meta")} \/ disk' = disk
        /\ at = "evictMeta" /\ nvs' = nvs
        /\ victim \in table
        /\ \/ at' = "evictNote" /\ table' = table /\ victim' = victim
           \/ at' \in {"retention", "scan", "idle", "meta"} /\ table' = table \ {victim}
    BY <1>2, <1>t DEF EvictMeta, Drop, VictimKnown, Evicting
  <2>2. DataFiles(disk') = DataFiles(disk) /\ \A e \in table : DataName(e) \in disk' <=> DataName(e) \in disk
    BY <1>d, <2>1 DEF DataFiles, NameOf
  <2>3. ~(DataName(victim) \in disk)
    BY <1>t, <2>1 DEF Tracked, Removed
  <2>4. CASE at' = "evictNote" /\ table' = table /\ victim' = victim
    BY <1>t, <2>1, <2>2, <2>4 DEF Tracked, Removed
  <2>5. CASE at' \in {"retention", "scan", "idle", "meta"} /\ table' = table \ {victim}
    <3>1. \A n \in DataFiles(disk') : \E e \in table' : n = DataName(e)
      BY <1>t, <2>2, <2>3, <2>5 DEF Tracked, DataFiles
    <3> QED
      BY <1>t, <2>1, <2>2, <2>5, <3>1 DEF Tracked, Removed
  <2> QED
    BY <2>1, <2>4, <2>5
<1>3. CASE EvictNote
  <2>1. /\ disk' = disk /\ at = "evictNote" /\ nvs'.idx = nvs.idx
        /\ at' \in {"retention", "scan", "idle", "meta"}
        /\ victim \in table /\ table' = table \ {victim}
    BY <1>3, <1>t DEF EvictNote, Drop, VictimKnown, Evicting, TypeOK
  <2>2. ~(DataName(victim) \in disk)
    BY <1>t, <2>1 DEF Tracked, Removed
  <2>3. \A n \in DataFiles(disk') : \E e \in table' : n = DataName(e)
    BY <1>t, <2>1, <2>2 DEF Tracked, DataFiles
  <2> QED
    BY <1>t, <2>1, <2>3 DEF Tracked, Removed
<1>4. CASE TakeIndex(TRUE)
  <2>1. /\ UNCHANGED <<disk, table>> /\ nvs'.idx = nvs.idx + 1 /\ at = "index"
        /\ at' = "create" /\ number' = nvs.idx
    BY <1>4, <1>t DEF TakeIndex, ram, TypeOK
  <2>2. \A e \in table : e.index \in Nat
    BY <1>t DEF Entry
  <2> QED
    BY <1>t, <2>1, <2>2 DEF Tracked, Removed
<1>5. CASE CreatePart
  <2> DEFINE new == NameOf(NewEntry, "part")
  <2>0. at = "create" /\ \A e \in table : e.index \in Nat /\ e.index < number
    BY <1>5, <1>t DEF CreatePart, Tracked, Entry
  <2>1. /\ disk' = disk \cup {new} /\ table' = table \cup {NewEntry} /\ nvs' = nvs
        /\ at' \in {"idle", "meta", "evictData"}
    <3>1. {e \in table : e.index # number} = table
      BY <2>0, <1>t DEF TypeOK
    <3> QED
      BY <1>5, <3>1 DEF CreatePart
  <2>2. /\ new.index = number /\ NewEntry.index = number /\ DataName(NewEntry) = new
        /\ number = nvs.idx - 1 /\ number \in Nat
    BY <1>t, <2>0 DEF NameOf, NewEntry, DataName, Names, TypeOK
  <2>3. /\ \A e \in table : e.index # NewEntry.index /\ e.index < nvs.idx /\ DataName(e) # new
        /\ NewEntry.index < nvs.idx
    BY <1>t, <1>d, <2>0, <2>2
  <2> HIDE DEF new
  <2>4. \A e \in table' : DataName(e) \in disk'
    BY <1>t, <2>0, <2>1, <2>2 DEF Tracked, Removed
  <2>5. \A n \in DataFiles(disk') : \E e \in table' : n = DataName(e)
    BY <1>t, <2>1, <2>2 DEF Tracked, DataFiles
  <2>6. \A e, f \in table' : e.index = f.index => e = f
    BY <1>t, <2>1, <2>3 DEF Tracked
  <2> QED
    BY <2>1, <2>2, <2>3, <2>4, <2>5, <2>6 DEF Tracked, Removed
<1>6. ASSUME NEW ok \in BOOLEAN, WriteMeta(ok) PROVE Tracked'
  <2>1. /\ disk' = disk \/ disk' = disk \cup {NameOf(Closing, "meta")}
        /\ UNCHANGED <<nvs, table>> /\ at = "meta" /\ at' = "rename"
    BY <1>6 DEF WriteMeta, ram
  <2>2. /\ DataFiles(disk') = DataFiles(disk)
        /\ \A e \in table : DataName(e) \in disk' <=> DataName(e) \in disk
    BY <1>d, <2>1 DEF DataFiles, NameOf
  <2> QED
    BY <1>t, <2>1, <2>2 DEF Tracked, Removed
<1>7. ASSUME Rename(TRUE) PROVE Tracked'
  <2> DEFINE part == NameOf(Closing, "part")
             log == NameOf(Closing, "log")
             k == Head(closing)
             old == OpenEntry(k)
             rest == {e \in table : e.index # Closing.index}
  <2>1. at = "rename"
    BY <1>7 DEF Rename
  <2>2. /\ Closing \in Entry /\ k \in Kind /\ open[k] \in Nat /\ open[k] = Closing.index
        /\ Closing.index < nvs.idx
    BY <2>1, ClosingEntry DEF StrongInv
  <2>3. old \in table
    BY <1>t, <2>2 DEF Writers, None
  <2>4. DataName(old) = part /\ old.index = Closing.index
    BY <2>2 DEF OpenEntry, DataName, NameOf, Closing
  <2>5. DataName(Closing) = log /\ log.index = Closing.index /\ log.ext = "log"
    BY DEF DataName, NameOf, Closing
  <2>6. part \in disk
    BY <1>t, <2>1, <2>3, <2>4 DEF Tracked, Removed
  <2>7. /\ disk' = (disk \ {part}) \cup {log} /\ table' = rest \cup {Closing}
        /\ nvs' = nvs /\ at' \in {"idle", "meta"}
    <3>1. nvs' = nvs /\ at' \in {"idle", "meta"} /\ table' = rest \cup {Closing}
      BY <1>7 DEF Rename
    <3>2. disk' = IF TRUE /\ part \in disk THEN (disk \ {part}) \cup {log} ELSE disk
      BY <1>7 DEF Rename
    <3> QED
      BY <2>6, <3>1, <3>2
  <2> HIDE DEF part, log, old, k
  <2>8. \A e \in rest : DataName(e) # part /\ DataName(e) \in disk
    BY <1>t, <1>d, <2>1, <2>3, <2>4 DEF Tracked, Removed
  <2>9. \A e \in table' : DataName(e) \in disk'
    BY <2>5, <2>7, <2>8
  <2>10. \A n \in DataFiles(disk') : \E e \in table' : n = DataName(e)
    <3> TAKE n \in DataFiles(disk')
    <3>1. CASE n = log
      BY <2>5, <2>7, <3>1
    <3>2. CASE n # log
      <4>1. n \in DataFiles(disk) /\ n # part
        BY <2>7, <3>2 DEF DataFiles
      <4>2. PICK e \in table : n = DataName(e)
        BY <1>t, <4>1 DEF Tracked
      <4>3. e # old
        BY <2>4, <4>1, <4>2
      <4>4. e.index # Closing.index
        BY <1>t, <2>3, <2>4, <4>3 DEF Tracked
      <4> QED
        BY <2>7, <4>2, <4>4
    <3> QED
      BY <3>1, <3>2
  <2>11. \A e, f \in table' : e.index = f.index => e = f
    BY <1>t, <2>7 DEF Tracked
  <2>12. \A e \in table' : e.index < nvs'.idx
    BY <1>t, <2>2, <2>7 DEF Tracked
  <2> QED
    BY <2>7, <2>9, <2>10, <2>11, <2>12 DEF Tracked, Removed
<1>8. CASE Restart
  <2>1. disk' = disk /\ table' = Scan(disk) /\ nvs'.idx = nvs.idx /\ at' = "scan"
    BY <1>8, <1>t DEF Restart, TypeOK
  <2> QED
    BY <1>t, <2>1, ScanTracks DEF Tracked, Removed
<1>9. CASE Quiet \/ filestoreAck \/ filestoreAckLoss
  <2>1. /\ UNCHANGED <<disk, table>> /\ nvs'.idx = nvs.idx /\ at' # "create"
        /\ at \notin {"evictMeta", "evictNote"} /\ at' \notin {"evictMeta", "evictNote"}
    BY <1>9, <1>t DEF Quiet, BeginOpen, BeginRetention, PickForEviction, RetentionDone,
       CreateFails, BeginClose, ScanEvict, ScanDone, filestoreAck, filestoreAckLoss, ram, op,
       TypeOK
  <2> QED
    BY <1>t, <2>1 DEF Tracked, Removed
<1>10. CASE SessionWrap
  <2>1. /\ UNCHANGED <<disk, table, at, victim>> /\ nvs'.idx = nvs.idx /\ at = "idle"
    BY <1>10, <1>t, SoundWrap DEF op, TypeOK
  <2> QED
    BY <1>t, <2>1 DEF Tracked, Removed
<1>11. CASE CreateUndone(TRUE)
  <2> DEFINE new == NameOf(NewEntry, "part")
  <2>1. /\ disk' = disk \ {new} /\ UNCHANGED <<nvs, table>> /\ at = "create" /\ at' = "idle"
    BY <1>11 DEF CreateUndone, ram
  <2>2. new.index = number /\ number \in Nat
    BY <1>t DEF NameOf, NewEntry, TypeOK
  <2> HIDE DEF new
  <2>3. \A n \in disk : n.index < number /\ n.index \in Nat
    BY <1>t, <2>1 DEF Names, TypeOK, Name
  <2>4. disk' = disk
    BY <2>1, <2>2, <2>3
  <2> QED
    BY <1>t, <2>1, <2>4 DEF Tracked, Removed
<1> QED
  BY <1>1, <1>2, <1>3, <1>4, <1>5, <1>6, <1>7, <1>8, <1>9, <1>10, <1>11, SoundSplit

LEMMA WritersKept ==
  ASSUME StrongInv, Next, sound'
  PROVE  Writers'
<1>t. /\ TypeOK /\ Tracked /\ Writers /\ VictimKnown /\ Closers
      /\ open \in [Kind -> Nat \cup {None}]
  BY DEF StrongInv, BaseInv, TypeOK
<1>1. CASE PickForEviction
  <2>1. PICK e \in Wanted \ {NoVictim} : victim' = e
    BY <1>1 DEF PickForEviction
  <2>2. ~victim'.active /\ UNCHANGED ram
    BY <1>1, <1>t, <2>1, WantedInTable DEF PickForEviction, Evictable
  <2> QED
    BY <1>t, <2>2 DEF Writers, ram, OpenEntry
<1>2. CASE EvictNote \/ \E ok \in BOOLEAN : EvictMeta(ok)
  <2>1. /\ table \ {victim} \subseteq table' /\ UNCHANGED <<open, boot>> /\ ~victim.active
        /\ (at' \in {"evictData", "evictMeta", "evictNote"} => victim' = victim)
    BY <1>2, <1>t DEF EvictMeta, EvictNote, Drop, Writers, Evicting, VictimKnown, TypeOK
  <2>2. \A k \in Kind : OpenEntry(k) # victim
    BY <2>1 DEF OpenEntry
  <2> QED
    BY <1>t, <2>1, <2>2 DEF Writers, OpenEntry, Evicting
<1>3. CASE CreatePart
  <2>0. \A e \in table : e.index # number
    <3>1. at = "create" /\ number \in Nat /\ \A e \in table : e.index \in Nat
      BY <1>3, <1>t DEF CreatePart, TypeOK, Entry
    <3> QED
      BY <1>t, <3>1 DEF Tracked
  <2>1. /\ table' = table \cup {NewEntry} /\ open' = [open EXCEPT ![opening] = NewEntry.index]
        /\ boot' = boot /\ opening \in Kind
    <3>1. {e \in table : e.index # number} = table /\ NewEntry.index = number
      BY <2>0 DEF NewEntry
    <3> QED
      BY <1>3, <1>t, <3>1 DEF CreatePart, Closers, TypeOK
  <2>5. Evicting' => ~victim'.active
    <3>1. Evicting' => GivesWay # {} /\ victim' = Oldest(GivesWay)
      BY <1>3 DEF CreatePart, Evicting
    <3> QED
      BY <1>t, <3>1, GivesWayInTable DEF Evictable
  <2>2. \A k \in Kind : k # opening => open'[k] = open[k]
    BY <1>t, <2>1
  <2>3. open'[opening] = NewEntry.index
    BY <1>t, <2>1
  <2>4. ASSUME NEW k \in Kind, open'[k] # None PROVE OpenEntry(k)' \in table'
    <3>1. CASE k = opening
      <4>1. NewEntry = [index |-> open'[k], kind |-> k, boot |-> boot', closed |-> FALSE,
                        active |-> TRUE]
        BY <2>1, <2>3, <3>1 DEF NewEntry
      <4> QED
        BY <2>1, <4>1 DEF OpenEntry
    <3>2. CASE k # opening
      BY <1>t, <2>1, <2>2, <2>4, <3>2 DEF OpenEntry, Writers
    <3> QED
      BY <3>1, <3>2
  <2> QED
    BY <2>4, <2>5 DEF Writers
<1>4. ASSUME Rename(TRUE) PROVE Writers'
  <2> DEFINE c == Head(closing)
  <2>1. /\ table' = {e \in table : e.index # Closing.index} \cup {Closing}
        /\ open' = [open EXCEPT ![c] = None] /\ boot' = boot
        /\ at' \in {"idle", "meta"} /\ at = "rename"
    BY <1>4 DEF Rename
  <2>2. c \in Kind /\ open[c] \in Nat /\ open[c] = Closing.index
    BY <2>1, ClosingEntry DEF StrongInv
  <2>3. OpenEntry(c) \in table
    BY <1>t, <2>2 DEF Writers, None
  <2> HIDE DEF c
  <2>4. ASSUME NEW k \in Kind, open'[k] # None PROVE OpenEntry(k)' \in table'
    <3>1. k # c /\ open'[k] = open[k] /\ open[k] # None
      BY <1>t, <2>1, <2>2, <2>4
    <3>2. OpenEntry(k) \in table /\ OpenEntry(k)' = OpenEntry(k)
      BY <1>t, <2>1, <3>1 DEF Writers, OpenEntry
    <3>3. OpenEntry(k).index # Closing.index
      <4>1. OpenEntry(k) # OpenEntry(c)
        BY <3>1 DEF OpenEntry
      <4>2. OpenEntry(c).index = Closing.index
        BY <2>2 DEF OpenEntry
      <4> QED
        BY <1>t, <2>3, <3>2, <4>1, <4>2 DEF Tracked
    <3> QED
      BY <2>1, <3>2, <3>3
  <2> QED
    BY <2>1, <2>4 DEF Writers, Evicting
<1>5. CASE Restart
  <2>1. (\A k \in Kind : open'[k] = None) /\ at' = "scan"
    BY <1>5 DEF Restart
  <2> QED
    BY <2>1 DEF Writers, Evicting, None
<1>6. CASE EvictData(TRUE)
  <2>1. UNCHANGED <<table, open, boot, victim>> /\ at = "evictData"
    BY <1>6 DEF EvictData, ram
  <2> QED
    BY <1>t, <2>1 DEF Writers, OpenEntry, Evicting
<1>7. CASE \/ TakeIndex(TRUE) \/ CreateUndone(TRUE) \/ \E ok \in BOOLEAN : WriteMeta(ok)
           \/ Quiet /\ ~PickForEviction /\ ~ScanEvict
           \/ filestoreAck \/ filestoreAckLoss
  <2>1. /\ UNCHANGED <<table, open, boot>>
        /\ at' \notin {"evictData", "evictMeta", "evictNote"}
    BY <1>7 DEF TakeIndex, CreateUndone, Quiet, BeginOpen, BeginRetention, RetentionDone,
       CreateFails, WriteMeta, BeginClose, ScanDone, filestoreAck, filestoreAckLoss, ram, op
  <2> QED
    BY <1>t, <2>1 DEF Writers, OpenEntry, Evicting
<1>8. CASE SessionWrap
  <2>1. (\A k \in Kind : open'[k] = None) /\ at' = "idle"
    BY <1>8, SoundWrap DEF op
  <2> QED
    BY <2>1 DEF Writers, Evicting, None
<1>9. CASE ScanEvict
  <2>1. ~victim'.active /\ UNCHANGED ram
    BY <1>9 DEF ScanEvict, Evictable
  <2> QED
    BY <1>t, <2>1 DEF Writers, ram, OpenEntry
<1> QED
  BY <1>1, <1>2, <1>3, <1>4, <1>5, <1>6, <1>7, <1>8, <1>9, SoundSplit

(* Each deletion before the ack is counted exactly once.                   *)
LEMMA AccountKept ==
  ASSUME StrongInv, Next, sound'
  PROVE  CountedOnce' /\ Owed'
<1> DEFINE owed == IF InFlight THEN 1 ELSE 0
<1>t. /\ TypeOK /\ Names /\ Tracked /\ Owed /\ VictimKnown /\ nvs.lost \in Nat /\ slips \in Nat
      /\ owed \in {0, 1} /\ IsFiniteSet(destroyed) /\ Cardinality(destroyed) \in Nat
      /\ nvs.lost + slips + owed = Cardinality(destroyed)
      /\ after \notin {"evictMeta", "evictNote"}
  BY FS_CardinalityType DEF StrongInv, BaseInv, TypeOK, CountedOnce
<1>1. CASE EvictData(TRUE)
  <2>1. /\ ~InFlight /\ nvs' = nvs /\ slips' = slips /\ victim' = victim
        /\ InFlight' <=> ~isAcked(victim, ackedThrough)
        /\ at = "evictData" /\ at' = "evictMeta" /\ victim \in table /\ victim \in Entry
    BY <1>1, <1>t DEF EvictData, InFlight, ackedThrough, VictimKnown, Evicting, TypeOK
  <2>2. DataName(victim) \in DataFiles(disk) /\ DataName(victim).index = victim.index
    BY <1>t, <2>1, DataNameFacts DEF Tracked, Removed, DataFiles
  <2>3. victim.index \notin destroyed
    BY <1>t, <2>2 DEF Names
  <2>4. destroyed' = IF isAcked(victim, ackedThrough) THEN destroyed
                     ELSE destroyed \cup {victim.index}
    BY <1>1, <2>2 DEF EvictData, DataFiles
  <2>5. /\ Cardinality(destroyed \cup {victim.index}) = Cardinality(destroyed) + 1
    BY <1>t, <2>3, FS_AddElement
  <2>6. CASE isAcked(victim, ackedThrough)
    BY <1>t, <2>1, <2>4, <2>6 DEF CountedOnce, Owed
  <2>7. CASE ~isAcked(victim, ackedThrough)
    BY <1>t, <2>1, <2>4, <2>5, <2>7 DEF CountedOnce, Owed
  <2> QED
    BY <2>6, <2>7
<1>2. ASSUME NEW ok \in BOOLEAN, EvictMeta(ok) PROVE CountedOnce' /\ Owed'
  <2>1. /\ UNCHANGED <<nvs, slips, destroyed>> /\ (InFlight' <=> InFlight)
        /\ at' = "evictNote" => victim' = victim /\ ~isAcked(victim, ackedThrough)
    BY <1>2, <1>t DEF EvictMeta, Drop, InFlight, ackedThrough
  <2> QED
    BY <1>t, <2>1 DEF CountedOnce, Owed, ackedThrough
<1>3. CASE EvictNote
  <2>1. /\ nvs'.lost = nvs.lost + 1 /\ ~InFlight' /\ InFlight /\ at' # "evictNote"
        /\ UNCHANGED <<slips, destroyed>>
    BY <1>3, <1>t DEF EvictNote, Drop, InFlight, history, TypeOK, Owed
  <2> QED
    BY <1>t, <2>1 DEF CountedOnce, Owed
<1>4. CASE Restart
  <2>1. /\ nvs'.lost = nvs.lost /\ ~InFlight' /\ destroyed' = destroyed
        /\ slips' = slips + owed /\ at' = "scan"
    BY <1>t, <1>4 DEF Restart, InFlight, TypeOK
  <2> QED
    BY <1>t, <2>1 DEF CountedOnce, Owed
<1>5. CASE \/ TakeIndex(TRUE) \/ CreateUndone(TRUE) \/ Rename(TRUE) \/ Quiet \/ CreatePart
           \/ filestoreAck \/ filestoreAckLoss \/ SessionWrap
           \/ \E ok \in BOOLEAN : WriteMeta(ok)
  <2>1. /\ ~InFlight /\ ~InFlight' /\ nvs'.lost = nvs.lost /\ at' # "evictNote"
        /\ UNCHANGED <<slips, destroyed>>
    BY <1>5, <1>t DEF Quiet, BeginOpen, BeginRetention, PickForEviction, RetentionDone,
       TakeIndex, CreatePart, CreateUndone, CreateFails, BeginClose, WriteMeta, Rename,
       filestoreAck, filestoreAckLoss, SessionWrap, ScanEvict, ScanDone, InFlight, history, op,
       TypeOK
  <2> QED
    BY <1>t, <2>1 DEF CountedOnce, Owed
<1> QED
  BY <1>1, <1>2, <1>3, <1>4, <1>5, SoundSplit

LEMMA StrongInit == Init => StrongInv
<1> SUFFICES ASSUME Init PROVE StrongInv
  OBVIOUS
<1>1. Tracked /\ Writers /\ Owed
  BY DEF Init, Idle, Tracked, Writers, Owed, Evicting, DataFiles, None
<1>2. CountedOnce
  BY FS_EmptySet DEF Init, Idle, CountedOnce, InFlight
<1> QED
  BY <1>1, <1>2, BaseInit DEF StrongInv, Init

LEMMA StrongStep ==
  StrongInv /\ [Next]_vars /\ sound' => StrongInv'
<1> SUFFICES ASSUME StrongInv, [Next]_vars, sound' PROVE StrongInv'
  OBVIOUS
<1>1. CASE Next
  BY <1>1, SoundBefore, BaseStep, TrackedKept, WritersKept, AccountKept DEF StrongInv
<1>2. CASE UNCHANGED vars
  <2>1. BaseInv'
    BY BaseStep DEF StrongInv
  <2>2. (puts /\ Tracked /\ Writers /\ Owed /\ CountedOnce)'
    BY <1>2 DEF StrongInv, vars, ram, op, history, Tracked, Removed, DataFiles, Writers,
       OpenEntry, Evicting, Owed, ackedThrough, CountedOnce, InFlight
  <2> QED
    BY <2>1, <2>2 DEF StrongInv
<1> QED
  BY <1>1, <1>2

LEMMA SoundHolds == Spec => []SoundInv
<1>1. Init => SoundInv
  BY StrongInit DEF SoundInv
<1>2. SoundInv /\ [Next]_vars => SoundInv'
  BY SoundBefore, StrongStep DEF SoundInv
<1> QED
  BY <1>1, <1>2, PTL DEF Spec

(* EVERY FILE ON DISK IS IN THE INDEX, and the index names nothing that is *)
(* not there, whatever power cut falls between two flash writes and        *)
(* whatever the index has no memory for: as long as NVS takes the indexes, *)
(* renames and removals succeed and no boot id moves on under an open file.*)
THEOREM IndexIsTheDirectory == Spec => []IndexMatchesDisk
<1>1. SoundInv => IndexMatchesDisk
  <2> SUFFICES ASSUME StrongInv, Settled PROVE DataFiles(disk) = {DataName(e) : e \in table}
    BY DEF IndexMatchesDisk, SoundInv
  <2>1. \A e \in table : DataName(e) \in disk /\ DataName(e).ext # "meta"
    BY DataNameFacts DEF StrongInv, BaseInv, TypeOK, Tracked, Removed, Settled
  <2>2. \A n \in DataFiles(disk) : \E e \in table : n = DataName(e)
    BY DEF StrongInv, Tracked
  <2> QED
    BY <2>1, <2>2 DEF DataFiles
<1> QED
  BY <1>1, SoundHolds, PTL

(* Every recording destroyed before its ack is in the loss count of NVS,   *)
(* but for one per power cut at most, whatever LittleFS refuses and for    *)
(* whichever reason it went, as long as NVS takes the indexes; and it is   *)
(* there only once as long as `sound' holds.                               *)
THEOREM EveryLossCounted == Spec => []LossAccounted
<1>1. BaseInv /\ SoundInv => LossAccounted
  BY DEF BaseInv, NoneUncounted, SoundInv, StrongInv, CountedOnce, LossAccounted, Counted
<1> QED
  BY <1>1, BaseHolds, SoundHolds, PTL

-----------------------------------------------------------------------------
(* The filestore implements Custody.                                       *)

Held == {n.index : n \in DataFiles(disk)}
Promise == <<nvs.idx, Held, nvs.ack, IF InFlight THEN 1 ELSE 0, nvs.lost, nvs.lostack>>

LEMMA HeldFacts ==
  ASSUME Names, NEW n \in DataFiles(disk)
  PROVE  {m.index : m \in DataFiles(disk) \ {n}} = Held \ {n.index}
BY DEF Held, Names

LEMMA CustodyStep ==
  ASSUME StrongInv, Next, sound'
  PROVE  CustodyOf!Next \/ UNCHANGED Promise
<1> USE DEF Held, Promise
<1>t. /\ TypeOK /\ Names /\ Tracked /\ Owed /\ VictimKnown
      /\ nvs.idx \in Nat /\ nvs.ack \in Int /\ nvs.lost \in Nat /\ nvs.lostack \in Nat
      /\ after \notin {"evictMeta", "evictNote"}
  BY DEF StrongInv, BaseInv, TypeOK
<1>1. CASE EvictData(TRUE)
  <2>1. /\ ~InFlight /\ nvs' = nvs /\ victim' = victim /\ at = "evictData"
        /\ InFlight' <=> ~isAcked(victim, ackedThrough)
        /\ disk' = disk \ {DataName(victim)} /\ victim \in table /\ victim \in Entry
    BY <1>1, <1>t DEF EvictData, InFlight, ackedThrough, VictimKnown, Evicting, TypeOK
  <2>2. DataName(victim) \in DataFiles(disk) /\ DataName(victim).index = victim.index
    BY <1>t, <2>1, DataNameFacts DEF Tracked, Removed, DataFiles
  <2>3. DataFiles(disk') = DataFiles(disk) \ {DataName(victim)}
    BY <2>1 DEF DataFiles
  <2>4. Held' = Held \ {victim.index} /\ victim.index \in Held
    BY <1>t, <2>2, <2>3, HeldFacts
  <2>5. CASE isAcked(victim, ackedThrough)
    <3>1. victim.index <= nvs.ack /\ ~InFlight'
      BY <1>t, <2>1, <2>5 DEF isAcked, ackedThrough
    <3>2. CustodyOf!Free
      BY <2>1, <2>4, <3>1 DEF CustodyOf!Free
    <3> QED
      BY <3>2 DEF CustodyOf!Next
  <2>6. CASE ~isAcked(victim, ackedThrough)
    <3>1. victim.index > nvs.ack /\ InFlight'
      BY <1>t, <2>1, <2>6 DEF isAcked, ackedThrough, Entry
    <3>2. CustodyOf!Lose
      BY <2>1, <2>4, <3>1 DEF CustodyOf!Lose
    <3> QED
      BY <3>2 DEF CustodyOf!Next
  <2> QED
    BY <2>5, <2>6
<1>2. ASSUME NEW ok \in BOOLEAN, EvictMeta(ok) PROVE UNCHANGED Promise
  <2>1. /\ nvs' = nvs /\ (InFlight' <=> InFlight)
        /\ disk' = disk \ {NameOf(victim, "meta")} \/ disk' = disk
    BY <1>2, <1>t DEF EvictMeta, Drop, InFlight, ackedThrough
  <2>2. DataFiles(disk') = DataFiles(disk)
    BY <2>1 DEF DataFiles, NameOf
  <2> QED
    BY <2>1, <2>2
<1>3. CASE EvictNote
  <2>1. /\ InFlight /\ ~InFlight' /\ disk' = disk /\ nvs' = [nvs EXCEPT !.lost = @ + 1]
    BY <1>3, <1>t DEF EvictNote, Drop, InFlight, Owed
  <2>2. CustodyOf!Count
    BY <1>t, <2>1 DEF CustodyOf!Count, TypeOK, DataFiles
  <2> QED
    BY <2>2 DEF CustodyOf!Next
<1>4. CASE TakeIndex(TRUE)
  <2>1. /\ ~InFlight /\ ~InFlight' /\ disk' = disk /\ nvs' = [nvs EXCEPT !.idx = @ + 1]
    BY <1>4 DEF TakeIndex, InFlight
  <2>2. CustodyOf!Issue
    BY <1>t, <2>1 DEF CustodyOf!Issue, TypeOK, DataFiles
  <2> QED
    BY <2>2 DEF CustodyOf!Next
<1>5. CASE CreatePart
  <2> DEFINE new == NameOf(NewEntry, "part")
  <2>1. /\ ~InFlight /\ ~InFlight' /\ disk' = disk \cup {new} /\ nvs' = nvs /\ at = "create"
    BY <1>5 DEF CreatePart, InFlight
  <2>2. new.index = nvs.idx - 1 /\ new.ext = "part"
    BY <1>t, <2>1 DEF NameOf, NewEntry, Names
  <2> HIDE DEF new
  <2>3. nvs.idx > 0 /\ \A n \in disk : n.index # new.index
    BY <1>t, <2>1, <2>2 DEF Names, TypeOK, Name
  <2>4. DataFiles(disk') = DataFiles(disk) \cup {new}
    BY <2>1, <2>2 DEF DataFiles
  <2>5. Held' = Held \cup {nvs.idx - 1} /\ nvs.idx - 1 \notin Held
    BY <2>2, <2>3, <2>4 DEF DataFiles
  <2>6. CustodyOf!Hold
    BY <2>1, <2>3, <2>5 DEF CustodyOf!Hold
  <2> QED
    BY <2>6 DEF CustodyOf!Next
<1>6. ASSUME NEW ok \in BOOLEAN, WriteMeta(ok) PROVE UNCHANGED Promise
  <2>1. /\ disk' = disk \/ disk' = disk \cup {NameOf(Closing, "meta")}
        /\ nvs' = nvs /\ ~InFlight /\ ~InFlight'
    BY <1>6 DEF WriteMeta, InFlight
  <2>2. DataFiles(disk') = DataFiles(disk)
    BY <2>1 DEF DataFiles, NameOf
  <2> QED
    BY <2>1, <2>2
<1>7. ASSUME Rename(TRUE) PROVE UNCHANGED Promise
  <2> DEFINE part == NameOf(Closing, "part")
             log == NameOf(Closing, "log")
  <2>1. /\ nvs' = nvs /\ ~InFlight /\ ~InFlight'
    BY <1>7 DEF Rename, InFlight
  <2>2. disk' = IF TRUE /\ part \in disk THEN (disk \ {part}) \cup {log} ELSE disk
    BY <1>7 DEF Rename
  <2>3. part.index = log.index /\ part.ext # "meta" /\ log.ext # "meta"
    BY DEF NameOf
  <2> HIDE DEF part, log
  <2>4. CASE part \in disk
    <3>1. DataFiles(disk') = (DataFiles(disk) \ {part}) \cup {log} /\ part \in DataFiles(disk)
      BY <2>2, <2>3, <2>4 DEF DataFiles
    <3>2. Held' = Held
      BY <2>3, <3>1
    <3> QED
      BY <2>1, <3>2
  <2>5. CASE ~(part \in disk)
    BY <2>1, <2>2, <2>5 DEF DataFiles
  <2> QED
    BY <2>4, <2>5
<1>8. CASE filestoreAck
  <2>1. PICK n \in nvs.ack + 1 .. AckBound : nvs' = [nvs EXCEPT !.ack = n]
    BY <1>8 DEF filestoreAck
  <2>2. disk' = disk /\ ~InFlight /\ ~InFlight'
    BY <1>8 DEF filestoreAck, InFlight, op
  <2>3. CustodyOf!Ack
    BY <1>t, <2>1, <2>2, FilestoreAssumption DEF AckBound, CustodyOf!Ack, TypeOK, DataFiles
  <2> QED
    BY <2>3 DEF CustodyOf!Next
<1>9. CASE filestoreAckLoss
  <2>1. PICK n \in nvs.lostack + 1 .. nvs.lost : nvs' = [nvs EXCEPT !.lostack = n]
    BY <1>9 DEF filestoreAckLoss
  <2>2. disk' = disk /\ ~InFlight /\ ~InFlight'
    BY <1>9 DEF filestoreAckLoss, InFlight, op
  <2>3. CustodyOf!AckLoss
    BY <1>t, <2>1, <2>2 DEF CustodyOf!AckLoss, TypeOK, DataFiles
  <2> QED
    BY <2>3 DEF CustodyOf!Next
<1>10. CASE Restart
  <2>1. disk' = disk /\ nvs' = [nvs EXCEPT !.boot = @ + 1] /\ ~InFlight'
    BY <1>10 DEF Restart, InFlight
  <2>2. CASE InFlight
    <3>1. CustodyOf!Forget
      BY <1>t, <2>1, <2>2 DEF CustodyOf!Forget, TypeOK, DataFiles
    <3> QED
      BY <3>1 DEF CustodyOf!Next
  <2>3. CASE ~InFlight
    BY <1>t, <2>1, <2>3 DEF TypeOK, DataFiles
  <2> QED
    BY <2>2, <2>3
<1>11. CASE Quiet
  <2>1. /\ UNCHANGED <<disk, nvs>> /\ ~InFlight /\ ~InFlight'
    BY <1>11 DEF Quiet, BeginOpen, BeginRetention, PickForEviction, RetentionDone, CreateFails,
       BeginClose, ScanEvict, ScanDone, InFlight
  <2> QED
    BY <2>1 DEF DataFiles
<1>12. CASE SessionWrap
  <2>1. disk' = disk /\ nvs' = [nvs EXCEPT !.boot = @ + 1] /\ ~InFlight /\ ~InFlight'
    BY <1>12, SoundWrap DEF InFlight, op
  <2> QED
    BY <1>t, <2>1 DEF TypeOK, DataFiles
<1>13. CASE CreateUndone(TRUE)
  <2> DEFINE new == NameOf(NewEntry, "part")
  <2>1. /\ disk' = disk \ {new} /\ nvs' = nvs /\ at = "create" /\ ~InFlight /\ ~InFlight'
    BY <1>13 DEF CreateUndone, InFlight
  <2>2. new.index = number /\ number \in Nat
    BY <1>t DEF NameOf, NewEntry, TypeOK
  <2> HIDE DEF new
  <2>3. disk' = disk
    BY <1>t, <2>1, <2>2 DEF Names, TypeOK, Name
  <2> QED
    BY <2>1, <2>3 DEF DataFiles
<1> QED
  BY <1>1, <1>2, <1>3, <1>4, <1>5, <1>6, <1>7, <1>8, <1>9, <1>10, <1>11, <1>12, <1>13, SoundSplit

(* The filestore keeps the promise of Custody: a number is given out once, *)
(* its data stays until the hub's watermark covers it or it is lost, and a *)
(* loss is counted unless a power cut comes between the two: in every step *)
(* as long as `sound' holds.                                               *)
THEOREM CustodyKept == Spec => KeepsCustody
<1>1. Init => CustodyOf!Init
  BY DEF Init, Idle, CustodyOf!Init, InFlight, DataFiles
<1>2. SoundInv /\ [Next]_vars => [sound' => [CustodyOf!Next]_(CustodyOf!vars)]_vars
  <2> SUFFICES ASSUME StrongInv, [Next]_vars, sound' PROVE [CustodyOf!Next]_(CustodyOf!vars)
    BY SoundBefore DEF SoundInv
  <2>1. CASE Next
    BY <2>1, CustodyStep DEF Promise, Held, CustodyOf!vars
  <2>2. CASE UNCHANGED vars
    BY <2>2 DEF vars, ram, op, history, CustodyOf!vars, DataFiles, InFlight, ackedThrough
  <2> QED
    BY <2>1, <2>2
<1> QED
  BY <1>1, <1>2, SoundHolds, PTL DEF Spec, KeepsCustody

-----------------------------------------------------------------------------
(* What a writer holds open stays on the partition and is never the file   *)
(* that retention picks, as long as `sound' holds.                         *)
THEOREM OpenFilesStay == Spec => []OpenFilesSafe
<1>1. ASSUME StrongInv, NEW k \in Kind, open[k] # None
      PROVE  /\ victim.index # open[k]
             /\ \E e \in Live(k) : e.active /\ e.kind = k
             /\ (at # "rename" => \E n \in disk : n.index = open[k] /\ n.ext = "part")
  <2> DEFINE e == OpenEntry(k)
  <2>1. /\ e \in table /\ e \in Entry /\ e.index = open[k] /\ e.active /\ e.kind = k
        /\ ~e.closed
    BY <1>1 DEF StrongInv, Writers, OpenEntry, BaseInv, TypeOK
  <2>2. DataName(e).index = open[k] /\ DataName(e).ext = "part"
    BY <2>1 DEF DataName, NameOf
  <2> HIDE DEF e
  <2>3. CASE Evicting
    <3>1. victim \in table /\ ~victim.active
      BY <1>1, <2>3 DEF StrongInv, BaseInv, VictimKnown, Writers
    <3>2. victim.index # open[k] /\ victim # e
      BY <1>1, <2>1, <3>1 DEF StrongInv, Tracked
    <3>3. DataName(e) \in disk
      BY <1>1, <2>1, <3>2 DEF StrongInv, Tracked, Removed
    <3> QED
      BY <2>1, <2>2, <3>2, <3>3 DEF Live
  <2>4. CASE ~Evicting
    <3>1. victim.index = None /\ DataName(e) \in disk
      BY <1>1, <2>1, <2>4 DEF StrongInv, BaseInv, VictimKnown, NoEntry, Tracked, Removed,
         Evicting
    <3> QED
      BY <1>1, <2>1, <2>2, <3>1 DEF Live
  <2> QED
    BY <2>3, <2>4
<1>2. SoundInv => OpenFilesSafe
  BY <1>1 DEF OpenFilesSafe, SoundInv
<1> QED
  BY <1>2, SoundHolds, PTL
=============================================================================
