------------------------------- MODULE Custody -------------------------------
(***************************************************************************)
(* What the filestore promises about the data it holds, with no files,     *)
(* tables or directories (src/firmware/include/filestore.h, protocol 2).   *)
(*                                                                         *)
(* Every recording gets a number that is never given out again.  It is     *)
(* held until the hub's watermark covers it, or it is lost; a loss is      *)
(* owed to the loss count the hub reads, and only a power cut between the  *)
(* deletion and the count can make the logger forget one, one at a time.   *)
(***************************************************************************)
EXTENDS Integers, FiniteSets

VARIABLES
  issued,      \* numbers given out so far: 0 .. issued - 1
  held,        \* numbers whose data is still here
  watermark,   \* highest number the hub has taken over
  owed,        \* losses not yet counted
  lost,        \* the loss count
  lostack      \* the part of it the hub has written down

vars == <<issued, held, watermark, owed, lost, lostack>>

TypeOK ==
  /\ issued \in Nat /\ held \subseteq Nat
  /\ watermark \in Int
  /\ owed \in {0, 1} /\ lost \in Nat /\ lostack \in Nat

Init ==
  /\ issued = 0 /\ held = {} /\ watermark = -1
  /\ owed = 0 /\ lost = 0 /\ lostack = 0

Issue ==
  /\ issued' = issued + 1
  /\ UNCHANGED <<held, watermark, owed, lost, lostack>>

\* Only the latest number can get data: an older one is burned for good.
Hold ==
  /\ issued > 0 /\ issued - 1 \notin held
  /\ held' = held \cup {issued - 1}
  /\ UNCHANGED <<issued, watermark, owed, lost, lostack>>

Free ==
  /\ \E i \in held : i <= watermark /\ held' = held \ {i}
  /\ UNCHANGED <<issued, watermark, owed, lost, lostack>>

Lose ==
  /\ owed = 0
  /\ \E i \in held : i > watermark /\ held' = held \ {i}
  /\ owed' = 1
  /\ UNCHANGED <<issued, watermark, lost, lostack>>

Count ==
  /\ owed = 1
  /\ owed' = 0 /\ lost' = lost + 1
  /\ UNCHANGED <<issued, held, watermark, lostack>>

Forget ==      \* the power cut
  /\ owed = 1
  /\ owed' = 0
  /\ UNCHANGED <<issued, held, watermark, lost, lostack>>

Ack ==
  /\ watermark' \in Int /\ watermark < watermark'
  /\ UNCHANGED <<issued, held, owed, lost, lostack>>

AckLoss ==
  /\ lostack < lostack' /\ lostack' <= lost
  /\ UNCHANGED <<issued, held, watermark, owed, lost>>

Next == Issue \/ Hold \/ Free \/ Lose \/ Count \/ Forget \/ Ack \/ AckLoss

Spec == Init /\ [][Next]_vars
==============================================================================
