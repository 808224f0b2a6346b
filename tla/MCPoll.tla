--------------------------------- MODULE MCPoll ---------------------------------
(***************************************************************************)
(* Six cars for Poll, each with what one part of it needs.                *)
(***************************************************************************)
EXTENDS Poll

Entry(pid, period) == [mode |-> 1, pid |-> pid, period |-> period]
Stored(p) == [ok |-> TRUE, plan |-> p]
Reply(m, pid, n, cfs) == [mode |-> m, pid |-> pid, n |-> n, cfs |-> cfs, mids |-> {}]
Bits(base, mids) == [mode |-> 6, pid |-> base, n |-> 0, cfs |-> 0, mids |-> mids]
Body(entries) == [ok |-> TRUE, entries |-> entries]

(* Three entries of different periods and an ECU that may be silent.        *)
Busy ==
  [stall |-> 2, fails |-> 1, ignition |-> FALSE, returns |-> FALSE, owner |-> FALSE, bodies |-> {},
   stored |-> {Stored(<<Entry(1, 2), Entry(2, 2), Entry(3, 4)>>)},
   answers |-> [e \in Ecus |-> IF e = 0 THEN {Reply(1, 1, 0, 0), Reply(1, 2, 0, 0)} ELSE {}]]

(* A hub and an owner.                                                       *)
Posting ==
  [stall |-> 1, fails |-> 1, ignition |-> FALSE, returns |-> FALSE, owner |-> TRUE,
   bodies |-> {Body(<<>>), Body(<<Entry(2, 3)>>),
               Body(<<Entry(2, 3), Entry(1, 2)>>), Body(<<Entry(2, 3), Entry(2, 2)>>),
               Body(<<Entry(1, 1)>>), [ok |-> FALSE, entries |-> <<>>]},
   stored |-> {Stored(<<>>), Stored(<<Entry(1, 2)>>),
               Stored(<<Entry(2, 2), Entry(1, 2)>>), [ok |-> FALSE, plan |-> <<>>]},
   answers |-> [e \in Ecus |-> IF e = 0 THEN {Reply(1, 1, 0, 0)} ELSE {}]]

(* Trips: the ignition goes off and comes back, the ECUs are terse.         *)
Trips ==
  [stall |-> 1, fails |-> 1, ignition |-> TRUE, returns |-> TRUE, owner |-> TRUE, bodies |-> {Body(<<>>)},
   stored |-> {Stored(<<Entry(1, 2)>>)},
   answers |-> [e \in Ecus |-> IF e = 0 THEN {Reply(1, 1, 0, 0), Reply(3, 0, 1, 0)} ELSE {}]]

(* The driver leaves: two ECUs that answer at key-off in several frames.     *)
Leaving ==
  [stall |-> 1, fails |-> 0, ignition |-> TRUE, returns |-> FALSE, owner |-> FALSE, bodies |-> {},
   stored |-> {Stored(<<Entry(1, 4)>>)},
   answers |-> [e \in Ecus |-> {Reply(3, 0, 1, 1)} \cup IF e = 0 THEN {Reply(1, 1, 0, 0)} ELSE {}]]

(* An ECU with long answers, of which frames are lost or spoilt.             *)
Noisy ==
  [stall |-> 1, fails |-> 1, ignition |-> FALSE, returns |-> FALSE, owner |-> FALSE, bodies |-> {},
   stored |-> {Stored(<<Entry(1, 2)>>)},
   answers |-> [e \in Ecus |-> IF e = 0 THEN {Reply(1, 1, 0, 0), Reply(3, 0, 2, 2)} ELSE {}]]

(* Two ECUs with long answers, one of them too long to be taken.             *)
Talking ==
  [stall |-> 1, fails |-> 0, ignition |-> FALSE, returns |-> FALSE, owner |-> FALSE, bodies |-> {},
   stored |-> {Stored(<<Entry(1, 2)>>)},
   answers |-> [e \in Ecus |-> IF e = 0
                  THEN {Reply(1, 1, 0, 0), Reply(3, 0, 2, 2), Bits(0, {1, 2}), Bits(2, {3}), Reply(6, 3, 1, 1)}
                  ELSE {Reply(3, 0, 1, 1), Reply(7, 0, 1, 3)}]]

MCCars == {Busy, Posting, Trips, Leaving, Noisy, Talking}
=============================================================================
