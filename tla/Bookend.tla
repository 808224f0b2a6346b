-------------------------------- MODULE Bookend --------------------------------
(***************************************************************************)
(* The trip-bookend reader (bookend.cpp, bookend.h): ISO-TP reassembly,    *)
(* one receiver for each responder, and the sequencer that reads 01/01,    *)
(* 03, 07 and Mode 06 one request at a time under a deadline.  The         *)
(* sequencer is a record s that its caller polls; times are ages in ticks. *)
(*                                                                         *)
(* A message is [mode, pid, n, cfs]: what it answers, how many DTCs or     *)
(* results it brings, and in how many Consecutive Frames beyond the first  *)
(* (0: a Single Frame).  The bits of a Mode 06 support reply are in mids.  *)
(* cut names how messages that are not in the record were lost (history).  *)
(***************************************************************************)
EXTENDS Integers, FiniteSets, FiniteSetsExt

CONSTANTS
  Ecus,                          \* the responders 0x7E8 .. 0x7EF; 0 is the engine
  Quiet, ReqMax, MinStart,       \* BookendTiming
  Cap,                           \* BOOKEND_MAX_STORED, _PENDING, _M06
  Span, MidTop,                  \* MIDs in a support range (0x20), the last MID (0xFF)
  MaxCfs,                        \* Consecutive Frames of the longest message taken (ISOTP_MAX)
  SnMod                          \* sequence numbers of ISO-TP (16)

ASSUME BookendAssumption ==
  /\ IsFiniteSet(Ecus) /\ Ecus \subseteq Nat
  /\ {Quiet, ReqMax, Cap, MaxCfs} \subseteq Nat /\ {MinStart, Span, MidTop, SnMod} \subseteq Nat \ {0}

NoMsg == [mode |-> 0, pid |-> 0, n |-> 0, cfs |-> 0, mids |-> {}]
NoRx == [active |-> FALSE, msg |-> NoMsg, got |-> 0, nextSn |-> 0]
NoReq == [mode |-> 0, pid |-> 0]

(* memset in bookendSeqStart, request and isoTpFeed's callers               *)
NoSeq ==
  [active |-> FALSE, kind |-> "start", left |-> 0, step |-> "pid01", inflight |-> FALSE, req |-> NoReq,
   sent |-> 0, quiet |-> 0, rx |-> [e \in Ecus |-> NoRx], fc |-> {}, support |-> {}, base |-> 0,
   next |-> 1, ecu0 |-> FALSE, done |-> 0, count |-> [m \in {3, 7, 6} |-> 0], given |-> [m \in {3, 7, 6} |-> 0],
   truncated |-> FALSE, complete |-> FALSE, outOfTime |-> FALSE, txFailed |-> FALSE,
   finished |-> FALSE, cut |-> {}]

bookendSeqStart(kind, budget) ==
  [NoSeq EXCEPT !.active = TRUE, !.kind = kind, !.left = budget]

finish(s) ==
  LET truncated == s.truncated \/ s.outOfTime \/ s.txFailed
  IN  [s EXCEPT !.truncated = truncated, !.complete = s.done = 4 /\ ~truncated, !.finished = TRUE,
                !.inflight = FALSE]

NextStep == [pid01 |-> "m03", m03 |-> "m07", m07 |-> "support", support |-> "mid", mid |-> "mid"]

(* The bit of the last MID of a range says that the next range exists.      *)
MoreRanges(s) == s.base + Span \in s.support /\ s.base + 2 * Span <= MidTop + 1

(* A request finished: on to the next.                                      *)
stepDone(s) ==
  CASE s.step \in {"pid01", "m03", "m07"} ->
         [s EXCEPT !.done = @ + 1, !.step = NextStep[@], !.base = 0]
    [] s.step = "support" /\ MoreRanges(s) -> [s EXCEPT !.base = @ + Span]
    [] s.step = "support" /\ ~MoreRanges(s) -> [s EXCEPT !.step = "mid", !.next = 1]
    [] s.step = "mid" -> [s EXCEPT !.next = s.req.pid + 1]

request(s, mode, pid) ==
  [s EXCEPT !.req = [mode |-> mode, pid |-> pid], !.inflight = TRUE, !.sent = 0, !.quiet = 0,
            !.rx = NoSeq.rx, !.fc = {}]

Assembling(s) == {e \in Ecus : s.rx[e].active}

(* MIDs still to read: supported, and no range bit.                         *)
MidsLeft(s) == {m \in s.support : m >= s.next /\ m % Span # 0}

(* bookendSeqPoll past its request: [seq, tx], tx = 0 when it is done.      *)
NextRead(s) ==
  IF s.left < MinStart THEN [seq |-> finish([s EXCEPT !.outOfTime = TRUE]), tx |-> 0]
  ELSE LET read == CASE s.step = "pid01"   -> request(s, 1, 1)
                     [] s.step = "m03"     -> request(s, 3, 0)
                     [] s.step = "m07"     -> request(s, 7, 0)
                     [] s.step = "support" -> request(s, 6, s.base)
                     [] s.step = "mid" /\ MidsLeft(s) # {} -> request(s, 6, Min(MidsLeft(s)))
                     [] OTHER -> finish([s EXCEPT !.done = @ + 1])
       IN  [seq |-> read, tx |-> IF read.finished THEN 0 ELSE 1]

Answered(s) == (s.quiet >= Quiet /\ Assembling(s) = {}) \/ s.sent >= ReqMax

(* How a request that ends leaves the messages still being assembled.       *)
Retire(s, why) ==
  [s EXCEPT !.inflight = FALSE, !.cut = IF Assembling(s) = {} THEN @ ELSE @ \cup {why}]

(* One poll of the sequencer.  tx: 0 nothing, 1 the request seq.req, 2 the  *)
(* Flow Control to responder to.                                           *)
bookendSeqPoll(s) ==
  CASE s.finished -> [seq |-> s, tx |-> 0, to |-> 0]
    [] ~s.finished /\ s.fc # {} ->
         [seq |-> [s EXCEPT !.fc = @ \ {Min(s.fc)}], tx |-> 2, to |-> Min(s.fc)]
    [] ~s.finished /\ s.fc = {} /\ s.inflight /\ ~Answered(s) ->
         [seq |-> IF s.left <= 0 THEN finish([Retire(s, "deadline") EXCEPT !.outOfTime = TRUE]) ELSE s,
          tx |-> 0, to |-> 0]
    [] OTHER ->
         LET over == IF s.inflight THEN stepDone(Retire(s, "cap")) ELSE s
             read == NextRead(over)
         IN  [seq |-> read.seq, tx |-> read.tx, to |-> 0]

\* Mutant: a list that fills up in the middle of a message is not noticed.
Overflows_WhenFull(s, list, n) == n > 0 /\ s.count[list] = Cap

Overflows(s, list, n) == s.count[list] + n > Cap

(* bookendParseDtcs and bookendParseM06Results: append up to the cap.       *)
Store(s, list, n) ==
  [s EXCEPT !.count[list] = IF @ + n > Cap THEN Cap ELSE @ + n,
            !.given[list] = IF @ + n > Cap THEN Cap + 1 ELSE @ + n,
            !.truncated = @ \/ Overflows(s, list, n)]

(* A message outside the time of its own request: ignored.                  *)
Late(s) == [s EXCEPT !.cut = @ \cup {"late"}]

handleMessage(s, e, m) ==
  CASE m.mode # s.req.mode -> Late(s)
    [] m.mode = s.req.mode /\ s.step = "pid01" ->
         [s EXCEPT !.ecu0 = @ \/ (e = 0 /\ m.pid = 1)]
    [] m.mode = s.req.mode /\ s.step \in {"m03", "m07"} -> Store(s, m.mode, m.n)
    [] m.mode = s.req.mode /\ s.step = "support" ->
         IF m.pid = s.base THEN [s EXCEPT !.support = @ \cup m.mids] ELSE Late(s)
    [] m.mode = s.req.mode /\ s.step = "mid" -> IF m.pid = s.req.pid THEN Store(s, 6, m.n) ELSE Late(s)

(* isoTpFeed and what bookendSeqOnFrame makes of it.  A frame is            *)
(* [from, kind, sn, msg]; a bad one has a length that no frame may have.    *)
bookendSeqOnFrame(s0, f) ==
  LET e == f.from
      s == [s0 EXCEPT !.quiet = 0]
      r == s.rx[e]
      listens == s0.inflight /\ ~s0.finished
      tooLong == f.kind = "ff" /\ f.msg.cfs > MaxCfs
      gap == IF r.active THEN {"frame"} ELSE {}
      Reset(why) == [s EXCEPT !.rx[e] = NoRx, !.cut = @ \cup why]
  IN  CASE ~listens -> Late(s0)
        [] listens /\ f.kind = "sf" -> handleMessage(Reset(gap), e, f.msg)
        [] listens /\ (f.kind = "bad" \/ tooLong) -> Reset({"frame"})
        [] listens /\ f.kind = "ff" /\ ~tooLong ->
             [s EXCEPT !.rx[e] = [active |-> TRUE, msg |-> f.msg, got |-> 0, nextSn |-> 1 % SnMod],
                       !.fc = @ \cup {e}, !.cut = @ \cup gap]
        [] listens /\ f.kind = "cf" /\ ~r.active -> s
        [] listens /\ f.kind = "cf" /\ r.active /\ f.sn # r.nextSn -> Reset({"frame"})
        [] OTHER ->
             IF r.got + 1 < r.msg.cfs
             THEN [s EXCEPT !.rx[e].got = @ + 1, !.rx[e].nextSn = (@ + 1) % SnMod]
             ELSE handleMessage(Reset({}), e, r.msg)

bookendSeqTxFailed(s) ==
  IF s.finished THEN s ELSE finish([Retire(s, "tx") EXCEPT !.txFailed = TRUE])

bookendSeqShouldWrite(s) == s.kind = "start" \/ s.done > 0

(* Ages of a running sequence after one more tick.  Time that is up stays   *)
(* up.                                                                     *)
SeqTick(s) ==
  IF ~s.active THEN s
  ELSE [s EXCEPT !.left = IF @ > 0 THEN @ - 1 ELSE @,
                 !.sent = IF s.inflight /\ @ < ReqMax THEN @ + 1 ELSE @,
                 !.quiet = IF s.inflight /\ @ < Quiet THEN @ + 1 ELSE @]
=============================================================================
