------------------------------ MODULE Nvs_proofs ------------------------------
(***************************************************************************)
(* The two components that keep their state in NVS across resets, one      *)
(* after the other: Boot, for every set of firmwares, every limit and any  *)
(* number of resets and requests, and Creds, for every order of fields,    *)
(* every limit, and any owner whose terminal sends what Sends says.        *)
(***************************************************************************)
EXTENDS Boot, Creds, FiniteSetTheorems, SequenceTheorems, TLAPS

LEMMA Constants ==
  /\ Limit \in Nat /\ Limit > 0 /\ MaxResets \in Nat /\ MaxRequests \in Nat /\ MaxFaults \in Nat
  /\ "garbage" \notin Builds
BY BootAssumption

(* What a write of NVS does to the count of those that failed              *)
LEMMA Puts ==
  ASSUME TypeOK, NEW ok \in BOOLEAN, Put(ok)
  PROVE  faults' \in 0 .. MaxFaults /\ faults <= faults' /\ (~ok => faults' = faults + 1)
BY Constants DEF TypeOK, Put

(* A bound grows with its last term.                                       *)
LEMMA Grows ==
  ASSUME NEW a \in Nat, NEW b \in Nat, NEW c \in Nat, NEW d \in Nat, c <= d
  PROVE  /\ a <= b + c => a <= b + d
         /\ a > d => a > c
OBVIOUS

LEMMA Sums ==
  ASSUME NEW a \in Nat, NEW b \in Nat, NEW c \in Nat
  PROVE  /\ 0 <= b + c /\ ~(0 > c)
         /\ b + c = c + b
         /\ a <= c => a <= b + c
         /\ a <= b + c => a < b + 1 + c
OBVIOUS

(* The count that decides is the larger of the valid ones, or none.        *)
LEMMA PriorIsLargest ==
  ASSUME TypeOK
  PROVE  /\ bgPriorAttempts \in Nat
         /\ bgValid(rtc) => rtc.attempts <= bgPriorAttempts
         /\ bgValid(nvs) => nvs.attempts <= bgPriorAttempts
         /\ \/ bgPriorAttempts = 0
            \/ bgValid(rtc) /\ bgPriorAttempts = rtc.attempts
            \/ bgValid(nvs) /\ bgPriorAttempts = nvs.attempts
<1> DEFINE counts == {r.attempts : r \in {q \in {rtc, nvs} : bgValid(q)}}
<1>1. rtc.attempts \in Nat /\ nvs.attempts \in Nat
  BY DEF TypeOK, Record, Garbage
<1>2. \A m \in counts : \/ bgValid(rtc) /\ m = rtc.attempts
                        \/ bgValid(nvs) /\ m = nvs.attempts
  OBVIOUS
<1>3. (bgValid(rtc) => rtc.attempts \in counts) /\ (bgValid(nvs) => nvs.attempts \in counts)
  OBVIOUS
<1> HIDE DEF counts
<1>4. \E n \in counts \cup {0} : \A m \in counts : m <= n
  <2>1. CASE bgValid(rtc) /\ (bgValid(nvs) => nvs.attempts <= rtc.attempts)
    BY <1>1, <1>2, <1>3, <2>1
  <2>2. CASE bgValid(nvs) /\ (bgValid(rtc) => rtc.attempts <= nvs.attempts)
    BY <1>1, <1>2, <1>3, <2>2
  <2>3. CASE ~bgValid(rtc) /\ ~bgValid(nvs)
    BY <1>2, <2>3
  <2> QED
    BY <1>1, <2>1, <2>2, <2>3
<1>5. bgPriorAttempts \in counts \cup {0} /\ \A m \in counts : m <= bgPriorAttempts
  BY <1>4 DEF bgPriorAttempts, counts
<1> QED
  BY <1>1, <1>2, <1>3, <1>5

-----------------------------------------------------------------------------
(* Types                                                                   *)

LEMMA TypeInit == Init => TypeOK
<1> SUFFICES ASSUME Init PROVE TypeOK
  OBVIOUS
<1>1. /\ resets \in 0 .. MaxResets /\ requests \in 0 .. MaxRequests
      /\ begun \in [Builds -> Nat] /\ unfinished \in [Builds -> Nat] /\ faults \in 0 .. MaxFaults
  BY Constants DEF Init
<1> QED
  BY <1>1 DEF Init, TypeOK, NoDump

LEMMA DeathTypes ==
  ASSUME TypeOK, Dies, rtc' \in {rtc, Garbage}, build' \in Builds, crashed' \in BOOLEAN,
         total' \in Nat, dump' \in Nat, stuck' \in Nat
  PROVE  TypeOK'
<1>0. Slip \in Nat
  BY DEF Slip
<1>1. /\ at' = "reset" /\ prior' = 0 /\ safe' \in BOOLEAN /\ restart' \in BOOLEAN /\ sha' = 0
      /\ UNCHANGED <<nvs, crashes, acked, requests, faults, begun, unfinished, held, erased, erases, formats>>
  BY DEF Dies, NoDump, eraseVars
<1>3. resets' \in 0 .. MaxResets /\ slips' \in Nat
  BY <1>0, Constants DEF Dies, TypeOK
<1>2. rtc' \in Record \cup {Garbage}
  BY DEF TypeOK
<1> QED
  BY <1>1, <1>2, <1>3 DEF TypeOK

LEMMA TypeStep == TypeOK /\ [Next]_vars => TypeOK'
<1> SUFFICES ASSUME TypeOK, [Next]_vars PROVE TypeOK'
  OBVIOUS
<1> USE DEF guardVars, dumpVars, bounds, startHistory, dumpHistory, eraseVars
<1>1. CASE \E ok \in BOOLEAN : coredumpBegin(ok)
  <2>1. PICK ok \in BOOLEAN : coredumpBegin(ok)
    BY <1>1
  <2>2. faults' \in 0 .. MaxFaults
    BY <2>1, Puts DEF coredumpBegin
  <2>3. crashes' \in Nat /\ slips' \in Nat /\ sha' \in Nat
    BY <2>1 DEF coredumpBegin, TypeOK, NoDump, Count, Slipped
  <2> QED
    BY <2>1, <2>2, <2>3 DEF coredumpBegin, TypeOK
<1>2. CASE bootguardBegin
  <2>1. prior' \in Nat /\ safe' \in BOOLEAN /\ at' \in {"run", "mark"}
    BY <1>2, PriorIsLargest DEF bootguardBegin, bgShouldSafeMode
  <2> QED
    BY <1>2, <2>1 DEF bootguardBegin, TypeOK
<1>3. CASE MarkRtc
  <2>1. rtc' \in Record /\ begun' \in [Builds -> Nat] /\ unfinished' \in [Builds -> Nat]
    BY <1>3 DEF MarkRtc, TypeOK, Record, bgMake, bgOnStart
  <2> QED
    BY <1>3, <2>1 DEF MarkRtc, TypeOK
<1>4. CASE \E ok \in BOOLEAN : MarkNvs(ok)
  <2>1. PICK ok \in BOOLEAN : MarkNvs(ok)
    BY <1>4
  <2>2. bgMake(bgOnStart(prior)) \in Record /\ stuck' \in Nat
    BY <2>1 DEF MarkNvs, TypeOK, Record, bgMake, bgOnStart
  <2>3. nvs' \in Record \cup {Garbage}
    BY <2>1, <2>2 DEF MarkNvs, TypeOK
  <2>4. faults' \in 0 .. MaxFaults
    BY <2>1, Puts DEF MarkNvs
  <2> QED
    BY <2>1, <2>2, <2>3, <2>4 DEF MarkNvs, TypeOK
<1>5. CASE filestoreBegin \/ MountFails
  <2>1. CASE filestoreBegin
    BY <2>1 DEF filestoreBegin, TypeOK
  <2>2. CASE MountFails
    BY <2>2 DEF MountFails, TypeOK
  <2> QED
    BY <1>5, <2>1, <2>2
<1>6. CASE ClearRtc
  <2>1. rtc' \in Record
    BY <1>6 DEF ClearRtc, TypeOK, Record, bgMake
  <2> QED
    BY <1>6, <2>1 DEF ClearRtc, TypeOK
<1>7. CASE \E ok \in BOOLEAN : ClearNvs(ok)
  <2>0. PICK ok \in BOOLEAN : ClearNvs(ok)
    BY <1>7
  <2>1. bgMake(0) \in Record /\ begun' \in [Builds -> Nat] /\ unfinished' \in [Builds -> Nat]
    BY <2>0 DEF ClearNvs, TypeOK, Record, bgMake
  <2>2. at' \in {"reset", "run"} /\ crashed' \in BOOLEAN /\ safe' \in BOOLEAN
    BY <2>0 DEF ClearNvs, TypeOK
  <2>3. nvs' \in Record \cup {Garbage}
    BY <2>0, <2>1 DEF ClearNvs, TypeOK
  <2>4. faults' \in 0 .. MaxFaults
    BY <2>0, Puts DEF ClearNvs
  <2> QED
    BY <2>0, <2>1, <2>2, <2>3, <2>4 DEF ClearNvs, TypeOK
<1>8. CASE handleRetry \/ (\E ok \in BOOLEAN : handleErase(ok))
  <2>2. CASE handleRetry
    <3>1. requests' \in 0 .. MaxRequests
      BY <2>2, Constants DEF handleRetry, safeModeGate, TypeOK
    <3> QED
      BY <2>2, <3>1 DEF handleRetry, TypeOK
  <2>3. CASE \E ok \in BOOLEAN : handleErase(ok)
    <3>1. PICK ok \in BOOLEAN : handleErase(ok)
      BY <2>3
    <3>2. requests' \in 0 .. MaxRequests /\ erases' \in Nat
      BY <3>1, Constants DEF handleErase, safeModeGate, TypeOK, Count
    <3>3. faults' \in 0 .. MaxFaults
      BY <3>1, Puts DEF handleErase
    <3> QED
      BY <3>1, <3>2, <3>3 DEF handleErase, TypeOK
  <2> QED
    BY <1>8, <2>2, <2>3
<1>9. CASE Format
  BY <1>9 DEF Format, TypeOK
<1>10. CASE handleGet
  BY <1>10 DEF handleGet, TypeOK
<1>11. CASE \E d \in held : handleAck(d)
  BY <1>11 DEF handleAck, TypeOK, NoDump
<1>12. CASE \E ok \in BOOLEAN : AckCounted(ok)
  <2>1. PICK ok \in BOOLEAN : AckCounted(ok)
    BY <1>12
  <2>2. acked' \in Nat /\ slips' \in Nat
    BY <2>1 DEF AckCounted, TypeOK, Count, Slipped
  <2>3. faults' \in 0 .. MaxFaults
    BY <2>1, Puts DEF AckCounted
  <2> QED
    BY <2>1, <2>2, <2>3 DEF AckCounted, TypeOK, NoDump
<1>13. CASE loop \/ UNCHANGED vars
  BY <1>13 DEF loop, vars, TypeOK
<1>14. CASE Crash
  BY <1>14, DeathTypes DEF Crash, TypeOK, NoDump
<1>15. CASE LosePower
  BY <1>15, DeathTypes DEF LosePower, TypeOK
<1>16. CASE \E b \in Builds : Flash(b)
  <2>1. PICK b \in Builds : Flash(b)
    BY <1>16
  <2>2. Dies /\ rtc' \in {rtc, Garbage} /\ build' \in Builds /\ crashed' = FALSE
        /\ total' = total /\ dump' = dump /\ stuck' = 0
    BY <2>1 DEF Flash
  <2>3. total \in Nat /\ dump \in Nat
    BY DEF TypeOK
  <2> QED
    BY <2>2, <2>3, DeathTypes
<1> QED
  BY <1>1, <1>2, <1>3, <1>4, <1>5, <1>6, <1>7, <1>8, <1>9, <1>10, <1>11, <1>12, <1>13, <1>14,
     <1>15, <1>16 DEF Next

(* Every variable of Boot keeps its type.                                  *)
THEOREM TypeCorrect == Spec => []TypeOK
BY TypeInit, TypeStep, PTL DEF Spec

-----------------------------------------------------------------------------
(* Erases                                                                  *)

EraseInv == IF at = "format" THEN formats < erases + faults ELSE formats <= erases + faults

LEMMA EraseStep == TypeOK /\ EraseInv /\ [Next]_vars => EraseInv'
<1> SUFFICES ASSUME TypeOK, EraseInv, [Next]_vars PROVE EraseInv'
  OBVIOUS
<1>0. formats \in Nat /\ erases \in Nat /\ faults \in Nat
  BY DEF TypeOK
<1> USE DEF guardVars, dumpVars, bounds, startHistory, dumpHistory, eraseVars
<1>1. CASE bootguardBegin \/ MarkRtc \/ filestoreBegin \/ MountFails \/ ClearRtc \/ handleRetry
           \/ (\E d \in held : handleAck(d))
  <2>1. at # "format" /\ at' # "format" /\ UNCHANGED <<formats, erases, faults>>
    BY <1>1 DEF bootguardBegin, MarkRtc, filestoreBegin, MountFails, ClearRtc, handleRetry, safeModeGate,
       handleAck
  <2> QED
    BY <2>1 DEF EraseInv
<1>2. CASE \E ok \in BOOLEAN : coredumpBegin(ok) \/ MarkNvs(ok) \/ ClearNvs(ok) \/ AckCounted(ok)
  <2>1. PICK ok \in BOOLEAN : coredumpBegin(ok) \/ MarkNvs(ok) \/ ClearNvs(ok) \/ AckCounted(ok)
    BY <1>2
  <2>2. at # "format" /\ at' # "format" /\ UNCHANGED <<formats, erases>> /\ Put(ok)
    BY <2>1 DEF coredumpBegin, MarkNvs, ClearNvs, AckCounted
  <2>3. faults' \in Nat /\ faults <= faults'
    BY <1>0, <2>2, Puts
  <2>4. formats <= erases + faults
    BY <2>2 DEF EraseInv
  <2>5. formats <= erases + faults'
    BY <1>0, <2>3, <2>4, Grows
  <2>6. formats' <= erases' + faults'
    BY <2>2, <2>5
  <2> QED
    BY <2>2, <2>6 DEF EraseInv
<1>3. CASE \E ok \in BOOLEAN : handleErase(ok)
  <2>1. PICK ok \in BOOLEAN : handleErase(ok)
    BY <1>3
  <2>2. formats' = formats /\ at = "run" /\ at' = "format" /\ erases' = Count(erases, ok) /\ Put(ok)
    BY <2>1 DEF handleErase, safeModeGate
  <2>3. faults' \in Nat /\ faults <= faults' /\ (~ok => faults' = faults + 1)
    BY <1>0, <2>2, Puts
  <2>4. formats <= erases + faults
    BY <2>2 DEF EraseInv
  <2>5. formats < Count(erases, ok) + faults'
    <3>1. CASE ok
      <4>1. formats <= erases + faults'
        BY <1>0, <2>3, <2>4, Grows
      <4> QED
        BY <1>0, <2>3, <3>1, <4>1, Sums DEF Count
    <3>2. CASE ~ok
      BY <1>0, <2>3, <2>4, <3>2 DEF Count
    <3> QED
      BY <3>1, <3>2
  <2>6. formats' < erases' + faults'
    BY <2>2, <2>5
  <2> QED
    BY <2>2, <2>6 DEF EraseInv
<1>4. CASE Format
  BY <1>0, <1>4 DEF Format, EraseInv
<1>5. CASE handleGet \/ loop \/ UNCHANGED vars
  BY <1>5 DEF handleGet, loop, vars, EraseInv
<1>6. CASE Crash \/ LosePower \/ (\E b \in Builds : Flash(b))
  <2>1. at' # "format" /\ UNCHANGED <<formats, erases, faults>>
    BY <1>6 DEF Crash, LosePower, Flash, Dies
  <2> QED
    BY <1>0, <2>1 DEF EraseInv
<1> QED
  BY <1>1, <1>2, <1>3, <1>4, <1>5, <1>6 DEF Next

(* No format goes uncounted, whatever reset follows it, but for those      *)
(* whose count NVS refused.                                                *)
THEOREM EveryFormatCounted == Spec => []FormatsCounted
<1>1. Init => EraseInv
  BY DEF Init, EraseInv
<1>2. TypeOK /\ EraseInv => FormatsCounted
  BY DEF TypeOK, EraseInv, FormatsCounted
<1> QED
  BY <1>1, <1>2, EraseStep, TypeCorrect, PTL DEF Spec

-----------------------------------------------------------------------------
(* The count of unfinished starts                                          *)

\* No record claims more starts of a build than were begun since its count was
\* last cleared.
Backed(r) == r.tag \in Builds => r.attempts <= begun[r.tag]

CountInv ==
  /\ Backed(rtc) /\ Backed(nvs)
  /\ safe => begun[build] >= Limit
  /\ at \in {"reset", "guard", "mark", "marked", "start"} => ~safe
  /\ at \in {"clear", "cleared"} /\ ~restart => ~safe
  /\ at \in {"mark", "marked"} => prior < Limit
  /\ at = "mark" => prior <= begun[build]
  /\ at = "marked" => prior + 1 <= begun[build]
  /\ at = "cleared" => rtc = bgMake(0)

LEMMA DeathCounts ==
  ASSUME TypeOK, CountInv, Dies, rtc' \in {rtc, Garbage}
  PROVE  CountInv'
<1>1. at' = "reset" /\ safe' = FALSE /\ UNCHANGED <<nvs, begun>>
  BY DEF Dies
<1>2. Backed(rtc)' /\ Backed(nvs)'
  BY <1>1, Constants DEF CountInv, Backed, Garbage
<1> QED
  BY <1>1, <1>2 DEF CountInv

LEMMA CountStep == TypeOK /\ CountInv /\ [Next]_vars => CountInv'
<1> SUFFICES ASSUME TypeOK, CountInv, [Next]_vars PROVE CountInv'
  OBVIOUS
<1>0. /\ build \in Builds /\ begun \in [Builds -> Nat] /\ prior \in Nat /\ begun[build] \in Nat
      /\ rtc.attempts \in Nat /\ nvs.attempts \in Nat /\ safe \in BOOLEAN
  BY DEF TypeOK, Record, Garbage
<1> USE DEF guardVars, dumpVars, bounds, startHistory, dumpHistory, eraseVars
<1>1. CASE \E ok \in BOOLEAN : coredumpBegin(ok)
  <2>1. at = "reset" /\ at' = "guard" /\ UNCHANGED <<build, rtc, nvs, prior, safe, restart, begun>>
    BY <1>1 DEF coredumpBegin
  <2> QED
    BY <2>1 DEF CountInv, Backed
<1>2. CASE bootguardBegin
  <2>1. prior' = bgPriorAttempts /\ (safe' <=> prior' >= Limit) /\ at' = (IF safe' THEN "run" ELSE "mark")
        /\ UNCHANGED <<build, rtc, nvs, restart, begun>>
    BY <1>2 DEF bootguardBegin, bgShouldSafeMode
  <2>2. prior' \in Nat /\ prior' <= begun[build]
    BY <1>0, <2>1, PriorIsLargest DEF CountInv, Backed, bgValid
  <2>3. Backed(rtc)' /\ Backed(nvs)'
    BY <2>1 DEF CountInv, Backed
  <2> QED
    BY <1>0, <2>1, <2>2, <2>3, Constants DEF CountInv
<1>3. CASE MarkRtc
  <2>1. /\ at = "mark" /\ at' = "marked" /\ UNCHANGED <<build, nvs, prior, safe, restart>>
        /\ rtc' = bgMake(prior + 1) /\ begun' = [begun EXCEPT ![build] = @ + 1]
    BY <1>3 DEF MarkRtc, bgOnStart
  <2>2. begun'[build] = begun[build] + 1 /\ \A b \in Builds : begun[b] <= begun'[b]
    BY <1>0, <2>1
  <2>3. Backed(rtc)'
    BY <1>0, <2>1, <2>2 DEF CountInv, Backed, bgMake
  <2>4. Backed(nvs)'
    <3> SUFFICES ASSUME nvs.tag \in Builds PROVE nvs.attempts <= begun'[nvs.tag]
      BY <2>1 DEF Backed
    <3>1. nvs.attempts <= begun[nvs.tag] /\ begun[nvs.tag] \in Nat /\ begun'[nvs.tag] \in Nat
      BY <1>0, <2>1 DEF CountInv, Backed
    <3> QED
      BY <1>0, <2>2, <3>1
  <2>5. prior' + 1 <= begun'[build']
    BY <1>0, <2>1, <2>2 DEF CountInv
  <2> QED
    BY <2>1, <2>3, <2>4, <2>5 DEF CountInv
<1>4. CASE \E ok \in BOOLEAN : MarkNvs(ok)
  <2>1. /\ at = "marked" /\ at' = "start" /\ UNCHANGED <<build, rtc, prior, safe, restart, begun>>
        /\ nvs' = bgMake(prior + 1) \/ nvs' = nvs
    BY <1>4 DEF MarkNvs, bgOnStart
  <2>2. Backed(rtc)' /\ Backed(nvs)'
    BY <1>0, <2>1 DEF CountInv, Backed, bgMake
  <2> QED
    BY <2>1, <2>2 DEF CountInv
<1>5. CASE filestoreBegin
  <2>1. at = "start" /\ at' = "clear" /\ UNCHANGED <<build, rtc, nvs, prior, safe, begun>>
    BY <1>5 DEF filestoreBegin
  <2> QED
    BY <2>1 DEF CountInv, Backed
<1>6. CASE MountFails
  <2>1. at = "start" /\ at' = "run" /\ UNCHANGED <<build, rtc, nvs, prior, safe, restart, begun>>
    BY <1>6 DEF MountFails
  <2> QED
    BY <2>1 DEF CountInv, Backed
<1>7. CASE ClearRtc
  <2>1. /\ at = "clear" /\ at' = "cleared" /\ rtc' = bgMake(0) /\ bgMake(0)' = bgMake(0)
        /\ UNCHANGED <<build, nvs, prior, safe, restart, begun>>
    BY <1>7 DEF ClearRtc, bgMake
  <2>2. Backed(rtc)' /\ Backed(nvs)'
    BY <1>0, <2>1 DEF CountInv, Backed, bgMake
  <2> QED
    BY <2>1, <2>2 DEF CountInv
<1>8. CASE \E ok \in BOOLEAN : ClearNvs(ok)
  <2>1. /\ at = "cleared" /\ rtc' = bgMake(0) /\ rtc' = rtc
        /\ \/ nvs' = bgMake(0) /\ begun' = [begun EXCEPT ![build] = 0]
           \/ nvs' = nvs /\ begun' = begun
        /\ at' \in {"reset", "run"} /\ build' = build
    BY <1>8 DEF ClearNvs, CountInv
  <2>2. safe' = FALSE
    BY <1>0, <1>8 DEF ClearNvs, CountInv
  <2>3. Backed(rtc)' /\ Backed(nvs)'
    <3>1. CASE nvs' = bgMake(0) /\ begun' = [begun EXCEPT ![build] = 0]
      BY <1>0, <2>1, <3>1 DEF Backed, bgMake
    <3>2. CASE nvs' = nvs /\ begun' = begun
      BY <2>1, <3>2 DEF Backed, CountInv
    <3> QED
      BY <2>1, <3>1, <3>2
  <2> QED
    BY <2>1, <2>2, <2>3 DEF CountInv
<1>9. CASE handleRetry
  <2>1. /\ at' = "clear" /\ restart' = TRUE
        /\ UNCHANGED <<build, rtc, nvs, prior, safe, begun>>
    BY <1>9 DEF handleRetry
  <2> QED
    BY <2>1 DEF CountInv, Backed
<1>10. CASE \E ok \in BOOLEAN : handleErase(ok)
  <2>1. at' = "format" /\ UNCHANGED <<build, rtc, nvs, prior, safe, restart, begun>>
    BY <1>10 DEF handleErase
  <2> QED
    BY <2>1 DEF CountInv, Backed
<1>11. CASE Format
  <2>1. /\ at' = "clear" /\ restart' = TRUE
        /\ UNCHANGED <<build, rtc, nvs, prior, safe, begun>>
    BY <1>11 DEF Format
  <2> QED
    BY <2>1 DEF CountInv, Backed
<1>12. CASE handleGet \/ loop \/ UNCHANGED vars
  <2>1. UNCHANGED <<at, build, rtc, nvs, prior, safe, restart, begun>>
    BY <1>12 DEF handleGet, loop, vars
  <2> QED
    BY <2>1 DEF CountInv, Backed, bgMake
<1>13. CASE (\E ok \in BOOLEAN : AckCounted(ok)) \/ (\E d \in held : handleAck(d))
  <2>1. at' \in {"ack", "run"} /\ UNCHANGED <<build, rtc, nvs, prior, safe, restart, begun>>
    BY <1>13 DEF AckCounted, handleAck
  <2> QED
    BY <2>1 DEF CountInv, Backed
<1>14. CASE Crash \/ LosePower \/ (\E b \in Builds : Flash(b))
  <2>1. Dies /\ rtc' \in {rtc, Garbage}
    BY <1>14 DEF Crash, LosePower, Flash
  <2> QED
    BY <2>1, DeathCounts
<1> QED
  BY <1>1, <1>2, <1>3, <1>4, <1>5, <1>6, <1>7, <1>8, <1>9, <1>10, <1>11, <1>12, <1>13, <1>14
     DEF Next

LEMMA CountInit == Init => CountInv
<1> SUFFICES ASSUME Init PROVE CountInv
  OBVIOUS
<1>1. Backed(rtc) /\ Backed(nvs)
  BY Constants DEF Init, Backed, Garbage
<1> QED
  BY <1>1 DEF Init, CountInv

(* Safe mode is only entered after Limit starts of this very firmware that *)
(* were never cleared.                                                     *)
THEOREM SafeModeIsEarned == Spec => []SafeModeEarned
<1>1. CountInv => SafeModeEarned
  BY DEF CountInv, SafeModeEarned
<1> QED
  BY <1>1, CountInit, CountStep, TypeCorrect, PTL DEF Spec

-----------------------------------------------------------------------------
(* The starts in a row                                                     *)

\* NVS, which no reset loses, knows of every marked start in the row but for
\* those whose write failed.
RowInv ==
  /\ stuck <= Limit + faults
  /\ stuck > faults => nvs.tag = build /\ stuck <= nvs.attempts + faults
  /\ at \in {"mark", "marked"} => stuck <= prior + faults
  /\ at \in {"clear", "cleared"} => stuck = 0

LEMMA RowStep == TypeOK /\ CountInv /\ RowInv /\ [Next]_vars => RowInv'
<1> SUFFICES ASSUME TypeOK, CountInv, RowInv, [Next]_vars PROVE RowInv'
  OBVIOUS
<1>0. prior \in Nat /\ stuck \in Nat /\ nvs.attempts \in Nat /\ faults \in Nat
  BY DEF TypeOK, Record, Garbage
<1> USE DEF guardVars, dumpVars, bounds, startHistory, dumpHistory, eraseVars
<1>1. CASE MountFails \/ (\E d \in held : handleAck(d))
  <2>1. at' \notin {"mark", "marked", "clear", "cleared"} /\ UNCHANGED <<build, nvs, stuck, faults>>
    BY <1>1 DEF MountFails, handleAck
  <2> QED
    BY <2>1 DEF RowInv
<1>2. CASE bootguardBegin
  <2>1. at' \in {"run", "mark"} /\ prior' = bgPriorAttempts /\ UNCHANGED <<build, nvs, stuck, faults>>
    BY <1>2 DEF bootguardBegin
  <2>2. prior' \in Nat /\ (bgValid(nvs) => nvs.attempts <= prior')
    BY <2>1, PriorIsLargest
  <2>3. stuck <= prior' + faults
    <3>1. CASE stuck <= faults
      BY <1>0, <2>2, <3>1, Sums
    <3>2. CASE stuck > faults
      <4>1. stuck <= nvs.attempts + faults /\ nvs.attempts <= prior'
        BY <2>2, <3>2 DEF RowInv, bgValid
      <4>2. stuck <= faults + nvs.attempts
        BY <1>0, <4>1
      <4>3. stuck <= faults + prior'
        BY <1>0, <2>2, <4>1, <4>2, Grows
      <4> QED
        BY <1>0, <2>2, <4>3, Sums
    <3> QED
      BY <1>0, <3>1, <3>2
  <2> QED
    BY <2>1, <2>3 DEF RowInv
<1>3. CASE MarkRtc
  BY <1>3 DEF MarkRtc, RowInv
<1>4. CASE \E ok \in BOOLEAN : MarkNvs(ok)
  <2>0. PICK ok \in BOOLEAN : MarkNvs(ok)
    BY <1>4
  <2>1. /\ at = "marked" /\ at' = "start" /\ stuck' = stuck + 1 /\ build' = build
        /\ nvs' = IF ok THEN bgMake(prior + 1) ELSE nvs
    BY <2>0 DEF MarkNvs, bgOnStart
  <2>2. prior < Limit /\ stuck <= prior + faults
    BY <2>1 DEF CountInv, RowInv
  <2>3. faults' \in Nat /\ faults <= faults' /\ (~ok => faults' = faults + 1)
    BY <1>0, <2>0, Puts DEF MarkNvs
  <2>4. stuck' <= Limit + faults'
    <3>1. stuck + 1 <= Limit + faults
      BY <1>0, <2>2, Constants
    <3>2. stuck + 1 \in Nat
      BY <1>0
    <3>3. stuck + 1 <= Limit + faults'
      BY <1>0, <2>3, <3>1, <3>2, Grows, Constants
    <3> QED
      BY <2>1, <3>3
  <2>5. CASE ok
    <3>1. nvs'.tag = build' /\ nvs'.attempts = prior + 1
      BY <2>1, <2>5 DEF bgMake
    <3> QED
      BY <1>0, <2>1, <2>2, <2>3, <2>4, <3>1 DEF RowInv
  <2>6. CASE ~ok
    <3>1. nvs' = nvs /\ faults' = faults + 1 /\ (stuck > faults => nvs.tag = build /\ stuck <= nvs.attempts + faults)
      BY <2>1, <2>3, <2>6 DEF RowInv
    <3> QED
      BY <1>0, <2>1, <2>4, <3>1 DEF RowInv
  <2> QED
    BY <2>5, <2>6
<1>5. CASE filestoreBegin \/ handleRetry \/ Format \/ ClearRtc \/ (\E b \in Builds : Flash(b))
  <2>1. stuck' = 0 /\ at' \notin {"mark", "marked"} /\ faults' = faults
    BY <1>5 DEF filestoreBegin, handleRetry, Format, ClearRtc, Flash, Dies, RowInv
  <2> QED
    BY <1>0, <2>1, Constants DEF RowInv
<1>6. CASE \E ok \in BOOLEAN : ClearNvs(ok)
  <2>1. PICK ok \in BOOLEAN : ClearNvs(ok)
    BY <1>6
  <2>2. stuck' = 0 /\ at' \notin {"mark", "marked"} /\ faults' \in Nat
    BY <1>0, <2>1, Puts DEF ClearNvs, RowInv
  <2>3. 0 <= Limit + faults' /\ ~(0 > faults')
    BY <2>2, Constants, Sums
  <2> QED
    BY <2>2, <2>3 DEF RowInv
<1>7. CASE handleGet \/ loop \/ UNCHANGED vars
  BY <1>7 DEF handleGet, loop, vars, RowInv
<1>8. CASE Crash \/ LosePower
  <2>1. at' = "reset" /\ UNCHANGED <<build, nvs, stuck, faults>>
    BY <1>8 DEF Crash, LosePower, Dies
  <2> QED
    BY <2>1 DEF RowInv
<1>9. CASE \E ok \in BOOLEAN : coredumpBegin(ok) \/ handleErase(ok) \/ AckCounted(ok)
  <2>1. PICK ok \in BOOLEAN : coredumpBegin(ok) \/ handleErase(ok) \/ AckCounted(ok)
    BY <1>9
  <2>2. at' \notin {"mark", "marked", "clear", "cleared"} /\ UNCHANGED <<build, nvs, stuck>> /\ Put(ok)
    BY <2>1 DEF coredumpBegin, handleErase, AckCounted
  <2>3. faults' \in Nat /\ faults <= faults'
    BY <1>0, <2>2, Puts
  <2>4. stuck <= Limit + faults /\ (stuck > faults => nvs.tag = build /\ stuck <= nvs.attempts + faults)
    BY DEF RowInv
  <2>5. stuck <= Limit + faults' /\ (stuck > faults' => nvs.tag = build /\ stuck <= nvs.attempts + faults')
    BY <1>0, <2>3, <2>4, Grows, Constants
  <2> QED
    BY <2>2, <2>5 DEF RowInv
<1> QED
  BY <1>1, <1>2, <1>3, <1>4, <1>5, <1>6, <1>7, <1>8, <1>9 DEF Next

(* After Limit starts in a row that did not finish there is no further     *)
(* one, but for one with every write of NVS that failed.                   *)
THEOREM NoFurtherStart == Spec => []NoThirdStart
<1>1. Init => RowInv
  BY Constants DEF Init, RowInv
<1>2. RowInv => NoThirdStart
  BY DEF RowInv, NoThirdStart
<1> QED
  BY <1>1, <1>2, RowStep, CountInit, CountStep, TypeCorrect, PTL DEF Spec

-----------------------------------------------------------------------------
(* Dumps                                                                   *)

Bit(b) == IF b THEN 1 ELSE 0

\* What is stored was not erased, what is offered is what is stored, and what
\* was erased the hub had.  Until a counter does not reach NVS,
\* the counters are the crashes there were and the dumps that were erased.
DumpInv ==
  /\ erased \subseteq held /\ erased \subseteq 1 .. total
  /\ dump \in 0 .. total /\ dump \notin erased
  /\ sha # NoDump /\ at # "ack" => sha = dump
  /\ at = "ack" => sha # NoDump
  /\ slips = 0 => crashes + Bit(at = "reset" /\ crashed) = total
  /\ slips = 0 => acked + Bit(at = "ack") = Cardinality(erased)

LEMMA IntervalSize ==
  ASSUME NEW n \in Nat
  PROVE  IsFiniteSet(1 .. n) /\ Cardinality(1 .. n) = n
<1>1. 1 \in Int /\ n \in Int
  OBVIOUS
<1>2. /\ IsFiniteSet(1 .. n)
      /\ Cardinality(1 .. n) = IF 1 > n THEN 0 ELSE n - 1 + 1
  BY <1>1, FS_Interval
<1>3. (IF 1 > n THEN 0 ELSE n - 1 + 1) = n
  OBVIOUS
<1> QED
  BY <1>2, <1>3

LEMMA ErasedFinite ==
  ASSUME TypeOK, DumpInv
  PROVE  IsFiniteSet(erased) /\ Cardinality(erased) \in Nat
<1>1. IsFiniteSet(1 .. total)
  BY FS_Interval DEF TypeOK
<1>2. IsFiniteSet(erased)
  BY <1>1, FS_Subset DEF DumpInv
<1> QED
  BY <1>2, FS_CardinalityType

LEMMA DumpDeath ==
  ASSUME TypeOK, DumpInv, Dies, total' \in {total, total + 1}, dump' \in 0 .. total', dump' \notin erased,
         total' = total + 1 <=> crashed'
  PROVE  DumpInv'
<1>0. total \in Nat /\ slips \in Nat /\ crashes \in Nat /\ acked \in Nat
  BY DEF TypeOK
<1>1. at' = "reset" /\ sha' = NoDump /\ slips' = slips + Slip /\ UNCHANGED <<crashes, acked, held, erased>>
  BY DEF Dies
<1>2. erased' \subseteq held' /\ erased' \subseteq 1 .. total' /\ dump' \in 0 .. total' /\ dump' \notin erased'
  BY <1>0, <1>1 DEF DumpInv
<1>3. slips' = 0 => slips = 0 /\ at # "ack" /\ ~(at = "reset" /\ crashed)
  BY <1>0, <1>1 DEF Slip
<1>4. slips' = 0 => crashes = total /\ acked = Cardinality(erased)
  BY <1>0, <1>3 DEF DumpInv, Bit
<1>5. slips' = 0 => crashes' + Bit(at = "reset" /\ crashed)' = total'
  BY <1>0, <1>1, <1>4 DEF Bit
<1>6. slips' = 0 => acked' + Bit(at = "ack")' = Cardinality(erased')
  BY <1>0, <1>1, <1>4 DEF Bit
<1> QED
  BY <1>1, <1>2, <1>5, <1>6 DEF DumpInv

LEMMA DumpStep == TypeOK /\ DumpInv /\ [Next]_vars => DumpInv'
<1> SUFFICES ASSUME TypeOK, DumpInv, [Next]_vars PROVE DumpInv'
  OBVIOUS
<1>0. /\ total \in Nat /\ slips \in Nat /\ crashes \in Nat /\ acked \in Nat /\ crashed \in BOOLEAN
      /\ dump \in Nat /\ erased \subseteq held /\ erased \subseteq 1 .. total
      /\ dump \in 0 .. total /\ dump \notin erased
  BY DEF TypeOK, DumpInv
<1> USE DEF guardVars, dumpVars, bounds, startHistory, dumpHistory, eraseVars
<1>1. CASE \E ok \in BOOLEAN : coredumpBegin(ok)
  <2>1. /\ at = "reset" /\ at' = "guard" /\ sha' \in {dump, NoDump}
        /\ slips' = 0 => slips = 0 /\ crashes' = crashes + Bit(crashed)
        /\ UNCHANGED <<crashed, dump, acked, total, held, erased>>
    BY <1>0, <1>1 DEF coredumpBegin, Bit, Count, Slipped
  <2>2. slips' = 0 => crashes' + Bit(at = "reset" /\ crashed)' = total'
    BY <1>0, <2>1 DEF DumpInv, Bit
  <2>3. slips' = 0 => acked' + Bit(at = "ack")' = Cardinality(erased')
    BY <2>1 DEF DumpInv, Bit
  <2> QED
    BY <1>0, <2>1, <2>2, <2>3 DEF DumpInv
<1>2. CASE \/ bootguardBegin \/ MarkRtc \/ filestoreBegin \/ MountFails \/ ClearRtc \/ handleRetry \/ Format
           \/ \E ok \in BOOLEAN : MarkNvs(ok) \/ handleErase(ok)
  <2>1. /\ at \notin {"reset", "ack"} /\ at' \notin {"reset", "ack"}
        /\ UNCHANGED <<dump, sha, crashes, acked, total, held, erased, slips>>
    BY <1>2 DEF bootguardBegin, MarkRtc, MarkNvs, filestoreBegin, MountFails, ClearRtc,
       handleRetry, handleErase, safeModeGate, Format
  <2> QED
    BY <2>1 DEF DumpInv, Bit
<1>3. CASE \E ok \in BOOLEAN : ClearNvs(ok)
  <2>1. /\ at \notin {"reset", "ack"} /\ at' # "ack" /\ (at' = "reset" => ~crashed')
        /\ UNCHANGED <<dump, sha, crashes, acked, total, held, erased, slips>>
    BY <1>3 DEF ClearNvs
  <2> QED
    BY <2>1 DEF DumpInv, Bit
<1>4. CASE handleGet
  <2>1. /\ at = "run" /\ held \subseteq held'
        /\ UNCHANGED <<at, crashed, dump, sha, crashes, acked, total, erased, slips>>
    BY <1>4 DEF handleGet
  <2> QED
    BY <2>1 DEF DumpInv, Bit
<1>5. CASE \E d \in held : handleAck(d)
  <2>1. /\ at = "run" /\ at' = "ack" /\ sha # NoDump /\ sha \in held /\ dump' = NoDump
        /\ erased' = erased \cup {dump} /\ UNCHANGED <<sha, crashes, acked, total, held, slips, crashed>>
    BY <1>5 DEF handleAck, ShaMatches
  <2>2. dump = sha /\ dump \in held /\ dump \in 1 .. total
    BY <1>0, <2>1 DEF DumpInv, NoDump
  <2>3. erased' \subseteq held' /\ erased' \subseteq 1 .. total' /\ dump' \in 0 .. total' /\ dump' \notin erased'
    BY <1>0, <2>1, <2>2 DEF NoDump
  <2>4. Cardinality(erased') = Cardinality(erased) + 1
    BY <1>0, <2>1, ErasedFinite, FS_AddElement
  <2>5. slips' = 0 => acked' + Bit(at = "ack")' = Cardinality(erased')
    BY <1>0, <2>1, <2>4, ErasedFinite DEF DumpInv, Bit
  <2>6. slips' = 0 => crashes' + Bit(at = "reset" /\ crashed)' = total'
    BY <2>1 DEF DumpInv, Bit
  <2> QED
    BY <2>1, <2>3, <2>5, <2>6 DEF DumpInv
<1>6. CASE \E ok \in BOOLEAN : AckCounted(ok)
  <2>1. /\ at = "ack" /\ at' = "run" /\ sha' = NoDump
        /\ slips' = 0 => slips = 0 /\ acked' = acked + 1
        /\ UNCHANGED <<dump, crashes, total, held, erased>>
    BY <1>0, <1>6 DEF AckCounted, Count, Slipped
  <2>2. slips' = 0 => acked' + Bit(at = "ack")' = Cardinality(erased')
    BY <1>0, <2>1 DEF DumpInv, Bit
  <2>3. slips' = 0 => crashes' + Bit(at = "reset" /\ crashed)' = total'
    BY <2>1 DEF DumpInv, Bit
  <2> QED
    BY <1>0, <2>1, <2>2, <2>3 DEF DumpInv
<1>7. CASE loop \/ UNCHANGED vars
  <2>1. UNCHANGED <<at, crashed, dump, sha, crashes, acked, total, held, erased, slips>>
    BY <1>7 DEF loop, vars
  <2> QED
    BY <2>1 DEF DumpInv, Bit
<1>8. CASE Crash
  <2>1. Dies /\ crashed' = TRUE /\ total' = total + 1 /\ dump' \in {total + 1, NoDump, dump}
    BY <1>8 DEF Crash
  <2>2. dump' \in 0 .. total' /\ dump' \notin erased
    BY <1>0, <2>1 DEF NoDump
  <2> QED
    BY <1>0, <2>1, <2>2, DumpDeath
<1>9. CASE LosePower \/ (\E b \in Builds : Flash(b))
  <2>1. Dies /\ crashed' = FALSE /\ total' = total /\ dump' = dump
    BY <1>9 DEF LosePower, Flash
  <2> QED
    BY <1>0, <2>1, DumpDeath
<1> QED
  BY <1>1, <1>2, <1>3, <1>4, <1>5, <1>6, <1>7, <1>8, <1>9 DEF Next

LEMMA DumpInit == Init => DumpInv
BY FS_EmptySet DEF Init, DumpInv, Bit, NoDump

(* A dump is only erased when the hub holds that dump.                     *)
THEOREM NewerIsSpared == Spec => []AckSparesNewer
<1>1. DumpInv => AckSparesNewer
  BY DEF DumpInv, AckSparesNewer
<1> QED
  BY <1>1, DumpInit, DumpStep, TypeCorrect, PTL DEF Spec

(* What a finite set has left without some of its elements.               *)
LEMMA SizeWithout ==
  ASSUME NEW S, NEW T \in SUBSET S, IsFiniteSet(S)
  PROVE  Cardinality(S \ T) = Cardinality(S) - Cardinality(T)
<1>1. S \cap T = T
  OBVIOUS
<1>2. Cardinality(S \ T) = Cardinality(S) - Cardinality(S \cap T)
  BY FS_Difference
<1> QED
  BY <1>1, <1>2

LEMMA Accounts ==
  ASSUME TypeOK, DumpInv
  PROVE  DumpsAccounted
<1> SUFFICES ASSUME at = "run", slips = 0
             PROVE  crashes - acked - (IF sha = NoDump THEN 0 ELSE 1)
                      = Cardinality((1 .. total) \ (erased \cup {sha}))
  BY DEF DumpsAccounted
<1>0. total \in Nat /\ crashes \in Nat /\ acked \in Nat /\ sha \in Nat /\ erased \subseteq 1 .. total
      /\ (sha # NoDump => sha \in 0 .. total /\ sha \notin erased)
  BY DEF DumpInv, TypeOK
<1>a. crashes + 0 = total /\ acked + 0 = Cardinality(erased)
  BY DEF DumpInv, Bit
<1>1. total \in Nat /\ crashes = total /\ acked = Cardinality(erased) /\ erased \subseteq 1 .. total
      /\ (sha # NoDump => sha \in 1 .. total /\ sha \notin erased) /\ crashes \in Nat /\ acked \in Nat
  <2>1. crashes = total /\ acked = Cardinality(erased)
    BY <1>0, <1>a
  <2>2. sha # NoDump => sha \in 1 .. total
    BY <1>0 DEF NoDump
  <2> QED
    BY <1>0, <2>1, <2>2
<1>2. IsFiniteSet(1 .. total) /\ Cardinality(1 .. total) = total
  BY <1>1, IntervalSize
<1>3. CASE sha = NoDump
  <2>1. (1 .. total) \ (erased \cup {sha}) = (1 .. total) \ erased
    BY <1>1, <1>3 DEF NoDump
  <2>2. erased \in SUBSET (1 .. total)
    BY <1>1
  <2>3. Cardinality((1 .. total) \ erased) = Cardinality(1 .. total) - Cardinality(erased)
    BY <1>2, <2>2, SizeWithout
  <2> QED
    BY <1>1, <1>2, <1>3, <2>1, <2>3
<1>4. CASE sha # NoDump
  <2> DEFINE gone == erased \cup {sha}
  <2>1. Cardinality(gone) = Cardinality(erased) + 1
    BY <1>1, <1>4, ErasedFinite, FS_AddElement
  <2>2. gone \in SUBSET (1 .. total)
    BY <1>1, <1>4
  <2> HIDE DEF gone
  <2>3. Cardinality((1 .. total) \ gone) = Cardinality(1 .. total) - Cardinality(gone)
    BY <1>2, <2>2, SizeWithout
  <2> QED
    BY <1>1, <1>2, <1>4, <2>1, <2>3 DEF gone
<1> QED
  BY <1>3, <1>4

(* Crashes less dumps acked less the one on offer are the crashes whose    *)
(* dump the hub will never see, until a counter does not reach NVS.        *)
THEOREM DumpsAreAccounted == Spec => []DumpsAccounted
BY Accounts, DumpInit, DumpStep, TypeCorrect, PTL DEF Spec

(***************************************************************************)
(* Creds: types.                                                           *)
(***************************************************************************)
AnyPiece == PieceOf({"none", "colon", "text", "eol"})
Typed == PieceOf({"colon", "text", "eol"})

CredsTypeOK ==
  /\ owner \in Owners /\ paste \in Seq(Typed)
  /\ field \in [Fields -> Value] /\ good \in [Fields -> Value] /\ staged \in [Fields -> Value]
  /\ flag \in {-1, 0, 1}
  /\ line \in AnyPiece /\ ca.len \in Nat /\ ca.text \in Texts
  /\ step \in 0 .. Marks
  /\ last \in {"none", "cut", "done"}

LEMMA CredsConstants ==
  /\ Len(Order) \in Nat /\ DOMAIN Order = 1 .. Len(Order)
  /\ {"ssid", "pass", "token", "ca"} \subseteq Fields
  /\ None \in Value /\ Keep \in Value /\ Clear \in Value
  /\ Nothing \in [Fields -> Value] /\ Unstaged \in [Fields -> Value]
  /\ NoLine \in AnyPiece
  /\ Marks \in Nat /\ Ends = Marks - 1 /\ Gen = Marks - 2 /\ Gen >= 2 /\ Begins = 1
  /\ NoCa.len = 0 /\ NoCa.text \in Texts
<1>1. Order \in Seq(STRING)
  BY CredsAssumption
<1>2. Len(Order) \in Nat /\ DOMAIN Order = 1 .. Len(Order)
  BY <1>1, LenProperties
<1>3. None \in Value /\ Keep \in Value /\ Clear \in Value
  BY DEF None, Keep, Clear, Value, Texts
<1>4. Nothing \in [Fields -> Value] /\ Unstaged \in [Fields -> Value]
  BY <1>3 DEF Nothing, Unstaged
<1>5. <<>> \in Seq(STRING)
  BY EmptySeq
<1>6. NoLine \in AnyPiece
  BY <1>3, <1>5 DEF NoLine, AnyPiece, PieceOf
<1> QED
  BY <1>2, <1>3, <1>4, <1>6, CredsAssumption DEF Marks, Ends, Gen, Begins, NoCa, Texts

LEMMA CredsTypeInit == CredsInit => CredsTypeOK
<1> SUFFICES ASSUME CredsInit
             PROVE  CredsTypeOK
  OBVIOUS
<1>1. field \in [Fields -> Value] /\ flag \in {-1, 0, 1} /\ good = field /\ owner \in Owners
  BY CredsAssumption DEF CredsInit
<1>2. paste \in Seq(Typed)
  BY EmptySeq DEF CredsInit
<1> QED
  BY <1>1, <1>2, CredsConstants DEF CredsInit, CredsTypeOK

(* A paste goes on by its tail, and its head is a piece.                   *)
LEMMA PasteTail ==
  ASSUME CredsTypeOK, paste # <<>>
  PROVE  Tail(paste) \in Seq(Typed) /\ Piece \in Typed /\ Piece \in AnyPiece
<1>1. Head(paste) \in Typed /\ Tail(paste) \in Seq(Typed)
  BY HeadTailProperties DEF CredsTypeOK
<1> QED
  BY <1>1 DEF Piece, Typed, AnyPiece, PieceOf

LEMMA StagedType ==
  ASSUME CredsTypeOK, NEW f \in Fields, NEW v \in Value, NEW ok \in BOOLEAN, stage(f, v, ok)
  PROVE  staged' \in [Fields -> Value]
BY DEF stage, Stage, ram, CredsTypeOK

LEMMA CredsTypeStep == CredsTypeOK /\ [CredsNext]_credsVars => CredsTypeOK'
<1> SUFFICES ASSUME CredsTypeOK, [CredsNext]_credsVars
             PROVE  CredsTypeOK'
  OBVIOUS
<1> USE CredsConstants
<1> USE DEF stored, ram, pem, limits, keys, ghosts
<1>1. CASE Types
  <2>1. paste' \in Seq(Typed)
    BY <1>1, CredsAssumption DEF Types, CredsTypeOK, Typed
  <2> QED
    BY <1>1, <2>1 DEF Types, CredsTypeOK
<1>2. CASE ToKeys
  <2>1. paste' \in Seq(Typed)
    BY <1>2, PasteTail DEF ToKeys, Reading
  <2> QED
    BY <1>2, <2>1 DEF ToKeys, CredsTypeOK
<1>3. CASE credsConsoleFeed
  <2>1. paste' \in Seq(Typed) /\ Piece \in AnyPiece
    BY <1>3, PasteTail DEF credsConsoleFeed, Reading
  <2>2. line' \in AnyPiece
    BY <1>3, <2>1 DEF credsConsoleFeed
  <2> QED
    BY <1>3, <2>1, <2>2 DEF credsConsoleFeed, CredsTypeOK
<1>4. CASE Idle
  BY <1>4 DEF Idle, CredsTypeOK
<1>5. CASE Reset
  <2>1. paste' \in Seq(Typed)
    BY <1>5, EmptySeq DEF Reset
  <2>2. last' \in {"none", "cut", "done"} /\ good' = good
    BY <1>5 DEF Reset, Interrupted, CredsTypeOK
  <2> QED
    BY <1>5, <2>1, <2>2 DEF Reset, CredsTypeOK
<1>6. ASSUME NEW on, EndLine(on), AtEol
      PROVE  paste' \in Seq(Typed) /\ line' \in AnyPiece
  BY <1>6, PasteTail DEF EndLine, AtEol, Reading
<1>7. CASE EndLong
  <2>1. paste' \in Seq(Typed) /\ line' \in AnyPiece
    BY <1>6, <1>7 DEF EndLong
  <2> QED
    BY <1>7, <2>1 DEF EndLong, CredsTypeOK
<1>8. CASE EndPem
  <2>1. paste' \in Seq(Typed) /\ line' \in AnyPiece
    BY <1>6, <1>8 DEF EndPem, StaysOn, CredsTypeOK, AnyPiece, PieceOf
  <2>2. Collected.len \in Nat /\ Collected.text \in Texts
    BY DEF Collected, CredsTypeOK, AnyPiece, PieceOf, Texts
  <2>3. [len |-> Collected.len, text |-> Collected.text] \in Value
    BY <2>2 DEF Value
  <2>4. staged' \in [Fields -> Value]
    <3>1. ASSUME NEW ok \in BOOLEAN, stage("ca", [len |-> Collected.len, text |-> Collected.text], ok)
          PROVE  staged' \in [Fields -> Value]
      BY <3>1, <2>3, StagedType
    <3>2. CASE line.end
      BY <1>8, <3>1, <3>2 DEF EndPem, CredsTypeOK
    <3>3. CASE ~line.end
      BY <1>8, <3>3 DEF EndPem, CredsTypeOK
    <3> QED
      BY <3>2, <3>3
  <2>5. ca'.len \in Nat /\ ca'.text \in Texts
    <3>1. CASE line.end
      BY <1>8, <3>1 DEF EndPem
    <3>2. CASE ~line.end
      BY <1>8, <2>2, <3>2 DEF EndPem, CredsTypeOK
    <3> QED
      BY <3>1, <3>2
  <2>6. UNCHANGED <<owner, field, flag, imported, step, importing, told, stray, good, last>>
    BY <1>8 DEF EndPem
  <2> QED
    BY <2>1, <2>4, <2>5, <2>6 DEF CredsTypeOK
<1>9. CASE EndEmpty
  <2>1. paste' \in Seq(Typed) /\ line' \in AnyPiece
    BY <1>6, <1>9 DEF EndEmpty, CredsTypeOK
  <2> QED
    BY <1>9, <2>1 DEF EndEmpty, CredsTypeOK
<1>10. ASSUME NEW cmd, Runs(cmd), NEW on, EndLine(on)
       PROVE  paste' \in Seq(Typed) /\ line' \in AnyPiece
  BY <1>6, <1>10 DEF Runs
<1>11. CASE NoEffect
  <2>1. paste' \in Seq(Typed) /\ line' \in AnyPiece
    BY <1>10, <1>11 DEF NoEffect
  <2> QED
    BY <1>11, <2>1 DEF NoEffect, CredsTypeOK
<1>12. CASE SetField
  <2>1. paste' \in Seq(Typed) /\ line' \in AnyPiece
    BY <1>10, <1>12 DEF SetField
  <2>2. credParseLine.field \in Fields /\ credParseLine.value \in Value
    BY <1>12 DEF SetField, Runs, credParseLine, CredsTypeOK, AnyPiece, PieceOf
  <2>3. staged' \in [Fields -> Value]
    BY <1>12, <2>2, StagedType DEF SetField
  <2> QED
    BY <1>12, <2>1, <2>3 DEF SetField, CredsTypeOK
<1>13. CASE PasteCa
  <2>1. paste' \in Seq(Typed) /\ line' \in AnyPiece
    BY <1>10, <1>13 DEF PasteCa
  <2> QED
    BY <1>13, <2>1 DEF PasteCa, CredsTypeOK
<1>14. CASE stageClear
  <2>1. paste' \in Seq(Typed) /\ line' \in AnyPiece
    BY <1>10, <1>14 DEF stageClear
  <2>2. staged' \in [Fields -> Value]
    BY <1>14 DEF stageClear, CredsTypeOK, KeepsPem
  <2> QED
    BY <1>14, <2>1, <2>2 DEF stageClear, CredsTypeOK
<1>15. CASE Abort
  <2>1. paste' \in Seq(Typed) /\ line' \in AnyPiece
    BY <1>10, <1>15 DEF Abort
  <2> QED
    BY <1>15, <2>1 DEF Abort, dropStage, CredsTypeOK
<1>16. CASE CommitLine
  <2>1. paste' \in Seq(Typed) /\ line' \in AnyPiece
    BY <1>10, <1>16 DEF CommitLine
  <2>2. step' \in 0 .. Marks
    BY <1>16 DEF CommitLine, Commit, CredsTypeOK
  <2> QED
    BY <1>16, <2>1, <2>2 DEF CommitLine, CredsTypeOK
<1>17. CASE Import
  <2>1. paste' \in Seq(Typed) /\ line' \in AnyPiece
    BY <1>10, <1>17 DEF Import
  <2>2. step' \in 0 .. Marks
    BY <1>17 DEF Import, Commit, CredsTypeOK
  <2>3. staged' \in [Fields -> Value]
    BY <1>17, CredsAssumption DEF Import, CredsTypeOK
  <2> QED
    BY <1>17, <2>1, <2>2, <2>3 DEF Import, CredsTypeOK
<1>18. CASE Write
  <2>1. step' \in 0 .. Marks /\ flag' \in {-1, 0, 1}
    BY <1>18 DEF Write, CredsTypeOK, Disowns
  <2>2. field' \in [Fields -> Value]
    BY <1>18 DEF Write, CredsTypeOK, FieldAt
  <2> QED
    BY <1>18, <2>1, <2>2 DEF Write, CredsTypeOK
<1>19. CASE Completes
  <2>1. step' \in 0 .. Marks
    BY <1>19 DEF Completes, CredsTypeOK
  <2> QED
    BY <1>19, <2>1 DEF Completes, CredsTypeOK, dropStage
<1>20. CASE WriteFails
  BY <1>20 DEF WriteFails, CredsTypeOK, dropStage, Interrupted
<1>21. CASE MarksImport
  BY <1>21 DEF MarksImport, CredsTypeOK
<1>22. CASE UNCHANGED credsVars
  BY <1>22 DEF credsVars, CredsTypeOK
<1> QED
  BY <1>1, <1>2, <1>3, <1>4, <1>5, <1>7, <1>8, <1>9, <1>11, <1>12, <1>13, <1>14, <1>15, <1>16, <1>17,
     <1>18, <1>19, <1>20, <1>21, <1>22 DEF CredsNext

(***************************************************************************)
(* The buffers.                                                            *)
(***************************************************************************)
LEMMA ValidIsSet ==
  ASSUME NEW f, NEW v, credValidate(f, v), CredsTypeOK
  PROVE  v.len >= 1 /\ IsSet(v)
<1>1. v.len \in 1 .. MaxLen[f]
  BY DEF credValidate
<1> QED
  BY <1>1 DEF IsSet, Keep, Clear

LEMMA BuffersStep == CredsTypeOK /\ BuffersInUse /\ [CredsNext]_credsVars => BuffersInUse'
<1> SUFFICES ASSUME CredsTypeOK, BuffersInUse, [CredsNext]_credsVars
             PROVE  BuffersInUse'
  OBVIOUS
<1> USE DEF stored, ram, pem, limits, keys, ghosts
<1>0. "ca" \in Fields
  BY CredsConstants
<1>a. ~IsSet(Keep) /\ ~IsSet(Clear) /\ ~IsSet(Unstaged["ca"])
  BY <1>0 DEF IsSet, Unstaged
<1>b. ASSUME UNCHANGED ram, UNCHANGED <<caBuf, caOn>>
      PROVE  BuffersInUse'
  BY <1>b DEF BuffersInUse
<1>c. ASSUME dropStage, UNCHANGED <<caBuf, caOn>>
      PROVE  BuffersInUse'
  BY <1>a, <1>c DEF BuffersInUse, dropStage
<1>1. CASE Types
  BY <1>1, <1>b DEF Types
<1>2. CASE ToKeys
  BY <1>2, <1>b DEF ToKeys
<1>3. CASE credsConsoleFeed
  BY <1>3, <1>b DEF credsConsoleFeed
<1>4. CASE Idle
  BY <1>4 DEF Idle, BuffersInUse
<1>5. CASE Reset
  BY <1>5, <1>a DEF Reset, BuffersInUse
<1>7. CASE EndLong
  BY <1>7 DEF EndLong, BuffersInUse
<1>8. CASE EndPem
  <2>1. ASSUME NEW v, NEW ok \in BOOLEAN, stage("ca", v, ok)
        PROVE  stBuf' <=> IsSet(staged'["ca"])
    <3>1. CASE credValidate("ca", v) /\ ok
      <4>1. staged'["ca"] = v /\ stBuf'
        BY <1>0, <2>1, <3>1 DEF stage, Stage, CredsTypeOK
      <4> QED
        BY <3>1, <4>1, ValidIsSet
    <3>2. CASE ~(credValidate("ca", v) /\ ok)
      BY <2>1, <3>2 DEF stage, BuffersInUse
    <3> QED
      BY <3>1, <3>2
  <2>2. CASE line.end
    <3>1. caOn' = FALSE /\ caBuf' = FALSE
      BY <1>8, <2>2 DEF EndPem
    <3>2. \/ UNCHANGED ram
          \/ \E ok \in BOOLEAN : stage("ca", [len |-> Collected.len, text |-> Collected.text], ok)
      BY <1>8, <2>2 DEF EndPem
    <3>3. stBuf' <=> IsSet(staged'["ca"])
      BY <2>1, <3>2 DEF BuffersInUse
    <3> QED
      BY <3>1, <3>3 DEF BuffersInUse
  <2>3. CASE ~line.end
    BY <1>8, <1>b, <2>3 DEF EndPem
  <2> QED
    BY <2>2, <2>3
<1>9. CASE EndEmpty
  BY <1>9, <1>b DEF EndEmpty
<1>11. CASE NoEffect
  BY <1>11, <1>b DEF NoEffect
<1>12. CASE SetField
  <2>1. credParseLine.field # "ca" /\ UNCHANGED <<caBuf, caOn>>
    BY <1>12 DEF SetField, Runs, credParseLine
  <2>2. staged'["ca"] = staged["ca"] /\ (stBuf' <=> stBuf)
    BY <1>0, <1>12, <2>1 DEF SetField, stage, Stage, CredsTypeOK
  <2> QED
    BY <2>1, <2>2 DEF BuffersInUse
<1>13. CASE PasteCa
  BY <1>13 DEF PasteCa, BuffersInUse
<1>14. CASE stageClear
  <2> DEFINE those == IF credParseLine.field = "all" THEN Fields ELSE {credParseLine.field}
  <2>0. staged' = [f \in Fields |-> IF f \in those THEN Clear ELSE staged[f]] /\ stBuf' = (stBuf /\ "ca" \notin those)
    BY <1>14 DEF stageClear, KeepsPem
  <2> HIDE DEF those
  <2>1. \/ staged'["ca"] = staged["ca"] /\ (stBuf' <=> stBuf)
        \/ staged'["ca"] = Clear /\ ~stBuf'
    BY <1>0, <2>0
  <2>2. UNCHANGED <<caBuf, caOn>>
    BY <1>14 DEF stageClear
  <2> QED
    BY <1>a, <2>1, <2>2 DEF BuffersInUse
<1>15. CASE Abort
  BY <1>15, <1>c DEF Abort
<1>16. CASE CommitLine
  BY <1>16, <1>b DEF CommitLine
<1>17. CASE Import
  <2>1. UNCHANGED <<stBuf, caBuf, caOn>>
    BY <1>17 DEF Import
  <2>2. CASE UNCHANGED staged
    BY <1>b, <2>1, <2>2
  <2>3. CASE staged = Unstaged /\ staged' = [f \in Fields |-> IF f \in Imports THEN Legacy[f] ELSE Keep]
    <3>1. staged'["ca"] = Keep
      BY <1>0, <2>3 DEF Imports
    <3> QED
      BY <1>a, <2>1, <2>3, <3>1 DEF BuffersInUse
  <2> QED
    BY <1>17, <2>2, <2>3 DEF Import
<1>18. CASE Write
  BY <1>18, <1>b DEF Write
<1>19. CASE Completes
  BY <1>19, <1>c DEF Completes
<1>20. CASE WriteFails
  BY <1>20, <1>c DEF WriteFails
<1>21. CASE MarksImport
  BY <1>21, <1>b DEF MarksImport
<1>22. CASE UNCHANGED credsVars
  BY <1>22, <1>b DEF credsVars
<1> QED
  BY <1>1, <1>2, <1>3, <1>4, <1>5, <1>7, <1>8, <1>9, <1>11, <1>12, <1>13, <1>14, <1>15, <1>16, <1>17,
     <1>18, <1>19, <1>20, <1>21, <1>22 DEF CredsNext

(***************************************************************************)
(* The commit: the flag is 0 while one writes and after one that was cut   *)
(* short, and a field differs from the last whole set only if a commit     *)
(* that was cut short wrote it, or this one has.                           *)
(***************************************************************************)
FlagFollows ==
  /\ step \in Begins + 1 .. Ends \/ last = "cut" => flag = 0
  /\ last = "done" /\ step \in {0, Begins, Marks} => flag = 1
  /\ step = Marks => last = "done"

Behind == torn \cup (IF step \in Begins .. Ends THEN Touched(step) ELSE {})
GoodUnlessTorn == \A f \in Fields : f \notin Behind => field[f] = good[f]

StoreInv == FlagFollows /\ GoodUnlessTorn

LEMMA TouchedGrows ==
  ASSUME CredsTypeOK
  PROVE  /\ Touched(Begins) = {} /\ Touched(Begins + 1) = {}
         /\ step \in Begins + 1 .. Gen - 1 =>
              Touched(step + 1) = Touched(step) \cup (IF staged[FieldAt(step)] = Keep THEN {} ELSE {FieldAt(step)})
         /\ Touched(Ends) = Touched(Gen)
         /\ Touched(Gen) = {f \in Fields : staged[f] # Keep}
<1>1. Touched(Begins) = {} /\ Touched(Begins + 1) = {} /\ Touched(Ends) = Touched(Gen)
  BY CredsConstants DEF Touched, Begins, Ends, Gen
<1>2. ASSUME step \in Begins + 1 .. Gen - 1
      PROVE  Touched(step + 1) = Touched(step) \cup (IF staged[FieldAt(step)] = Keep THEN {} ELSE {FieldAt(step)})
  BY <1>2, CredsConstants DEF Touched, Begins, Gen, FieldAt
<1>3. Touched(Gen) = {f \in Fields : staged[f] # Keep}
  BY CredsConstants DEF Touched, Gen, Fields
<1> QED
  BY <1>1, <1>2, <1>3

LEMMA StoreInit == CredsInit => StoreInv
BY DEF CredsInit, StoreInv, FlagFollows, GoodUnlessTorn, Begins, Ends, Marks

(* The set an action leaves alone, with its history.                       *)
LEMMA StoreUnchanged ==
  ASSUME StoreInv, UNCHANGED <<field, flag, good, torn, last, step>>,
         UNCHANGED staged \/ step = 0
  PROVE  StoreInv'
<1>1. FlagFollows'
  BY DEF StoreInv, FlagFollows, Begins, Ends, Marks
<1>2. Behind' = Behind
  BY DEF Behind, Touched, Begins, Ends
<1> QED
  BY <1>1, <1>2 DEF StoreInv, GoodUnlessTorn

LEMMA StoreStep == CredsTypeOK /\ StoreInv /\ [CredsNext]_credsVars => StoreInv'
<1> SUFFICES ASSUME CredsTypeOK, StoreInv, [CredsNext]_credsVars
             PROVE  StoreInv'
  OBVIOUS
<1> USE DEF stored, ram, pem, limits, keys, ghosts
<1>a. AtEol => step = 0
  BY DEF AtEol, Reading
<1>b. \A cmd : Runs(cmd) => step = 0
  BY <1>a DEF Runs
<1>c. step \in 0 .. Marks /\ Marks \in Nat /\ Ends = Marks - 1 /\ Gen = Marks - 2 /\ Gen >= 2 /\ Begins = 1
  BY CredsConstants DEF CredsTypeOK
<1>1. CASE Types
  BY <1>1, StoreUnchanged DEF Types
<1>2. CASE ToKeys
  BY <1>2, StoreUnchanged DEF ToKeys
<1>3. CASE credsConsoleFeed
  BY <1>3, StoreUnchanged DEF credsConsoleFeed
<1>4. CASE Idle
  BY <1>4, StoreUnchanged DEF Idle
<1>d. ASSUME Interrupted(step), UNCHANGED <<field, flag>>, step' = 0, step \in Begins .. Ends
      PROVE  StoreInv'
  <2>1. FlagFollows'
    BY <1>c, <1>d DEF Interrupted, StoreInv, FlagFollows
  <2>2. Behind' = Behind
    BY <1>c, <1>d DEF Interrupted, Behind
  <2> QED
    BY <1>d, <2>1, <2>2 DEF StoreInv, GoodUnlessTorn, Interrupted
<1>5. CASE Reset
  <2>1. CASE step \in Begins .. Ends
    BY <1>5, <1>d, <2>1 DEF Reset
  <2>2. CASE step \notin Begins .. Ends
    <3>1. FlagFollows'
      BY <1>5, <1>c, <2>2 DEF Reset, StoreInv, FlagFollows
    <3>2. Behind' = Behind
      BY <1>5, <1>c, <2>2 DEF Reset, Behind
    <3> QED
      BY <1>5, <2>2, <3>1, <3>2 DEF Reset, StoreInv, GoodUnlessTorn
  <2> QED
    BY <2>1, <2>2
<1>7. CASE EndLong
  BY <1>7, <1>a, StoreUnchanged DEF EndLong
<1>8. CASE EndPem
  BY <1>8, <1>a, StoreUnchanged DEF EndPem
<1>9. CASE EndEmpty
  BY <1>9, <1>a, StoreUnchanged DEF EndEmpty
<1>11. CASE NoEffect
  BY <1>11, <1>b, StoreUnchanged DEF NoEffect
<1>12. CASE SetField
  BY <1>12, <1>b, StoreUnchanged DEF SetField
<1>13. CASE PasteCa
  BY <1>13, <1>b, StoreUnchanged DEF PasteCa
<1>14. CASE stageClear
  BY <1>14, <1>b, StoreUnchanged DEF stageClear
<1>15. CASE Abort
  BY <1>15, <1>b, StoreUnchanged DEF Abort
<1>e. ASSUME step = 0, step' \in {0, Begins}, UNCHANGED <<field, flag, ghosts>>
      PROVE  StoreInv'
  <2>1. FlagFollows'
    BY <1>c, <1>e DEF StoreInv, FlagFollows
  <2>2. Behind' = torn' \cup (IF step' = Begins THEN Touched(Begins)' ELSE {})
    BY <1>c, <1>e DEF Behind
  <2>3. Touched(Begins)' = {}
    BY CredsConstants DEF Touched, Begins
  <2>4. Behind' = torn /\ Behind = torn
    BY <1>c, <1>e, <2>2, <2>3 DEF Behind
  <2> QED
    BY <1>e, <2>1, <2>4 DEF StoreInv, GoodUnlessTorn
<1>16. CASE CommitLine
  <2>1. step' \in {0, Begins} /\ step = 0
    BY <1>16, <1>b DEF CommitLine, Commit
  <2> QED
    BY <1>16, <1>e, <2>1 DEF CommitLine
<1>17. CASE Import
  <2>1. step' \in {0, Begins} /\ step = 0
    BY <1>17, <1>b DEF Import, Commit
  <2> QED
    BY <1>17, <1>e, <2>1 DEF Import
<1>18. CASE Write
  <2>0. step' = step + 1 /\ step \in Begins .. Gen /\ UNCHANGED <<staged, good, torn, last>>
    BY <1>18 DEF Write
  <2>1. FlagFollows'
    <3>1. flag' = 0
      BY <1>18, <1>c DEF Write, Disowns, StoreInv, FlagFollows
    <3>2. step # Begins => last' # "done" \/ last' = last
      BY <2>0
    <3> QED
      BY <1>c, <2>0, <3>1 DEF FlagFollows
  <2>2. Behind' = torn \cup Touched(step + 1) /\ Behind = torn \cup Touched(step)
    <3>1. step' \in Begins .. Ends /\ step \in Begins .. Ends
      BY <1>c, <2>0
    <3>2. Touched(step)' = Touched(step + 1)
      BY <2>0 DEF Touched
    <3>3. Behind' = torn' \cup Touched(step)'
      BY <3>1 DEF Behind, Begins, Ends
    <3> QED
      BY <2>0, <3>1, <3>2, <3>3 DEF Behind
  <2>3. CASE step = Begins
    BY <1>18, <1>c, <2>0, <2>1, <2>2, <2>3, TouchedGrows DEF Write, StoreInv, GoodUnlessTorn
  <2>4. CASE step \in Begins + 1 .. Gen - 1
    <3>1. FieldAt(step) \in Fields
      BY <1>c, <2>4, CredsConstants DEF FieldAt, Fields, Marks
    <3>2. \A f \in Fields : f # FieldAt(step) \/ staged[f] = Keep => field'[f] = field[f]
      <4> DEFINE value == CASE staged[FieldAt(step)] = Keep -> field[FieldAt(step)]
                            [] staged[FieldAt(step)] = Clear -> None
                            [] OTHER -> staged[FieldAt(step)]
      <4>1. field' = [field EXCEPT ![FieldAt(step)] = value]
        BY <1>18, <1>c, <2>4 DEF Write
      <4>2. staged[FieldAt(step)] = Keep => value = field[FieldAt(step)]
        BY DEF Keep, Clear
      <4> HIDE DEF value
      <4> QED
        BY <3>1, <4>1, <4>2 DEF CredsTypeOK
    <3>3. \A f \in Fields : f \notin Behind' => f \notin Behind /\ (f # FieldAt(step) \/ staged[f] = Keep)
      BY <2>2, <2>4, TouchedGrows
    <3> QED
      BY <2>0, <2>1, <3>2, <3>3 DEF StoreInv, GoodUnlessTorn
  <2>5. CASE step = Gen
    BY <1>18, <1>c, <2>0, <2>1, <2>2, <2>5, TouchedGrows DEF Write, StoreInv, GoodUnlessTorn
  <2> QED
    BY <1>c, <2>0, <2>3, <2>4, <2>5
<1>19. CASE Completes
  <2>0. step = Ends /\ flag' = 1 /\ step' \in {0, Marks} /\ last' = "done" /\ torn' = torn \ Touched(Gen)
        /\ field' = field
    BY <1>19 DEF Completes
  <2>1. FlagFollows'
    BY <1>c, <2>0 DEF FlagFollows
  <2>2. Behind' = torn' /\ Behind = torn \cup Touched(Gen)
    BY <1>c, <2>0, TouchedGrows DEF Behind
  <2>3. ASSUME NEW f \in Fields, f \notin Behind'
        PROVE  field'[f] = good'[f]
    <3>1. good'[f] = IF staged[f] = Keep THEN good[f] ELSE field[f]
      BY <1>19 DEF Completes
    <3>2. staged[f] = Keep => f \notin Behind
      BY <2>0, <2>2, <2>3, TouchedGrows
    <3> QED
      BY <2>0, <3>1, <3>2 DEF StoreInv, GoodUnlessTorn
  <2> QED
    BY <2>1, <2>3 DEF StoreInv, GoodUnlessTorn
<1>20. CASE WriteFails
  BY <1>20, <1>d DEF WriteFails
<1>21. CASE MarksImport
  <2>1. step = Marks /\ step' = 0 /\ UNCHANGED <<field, flag, ghosts>>
    BY <1>21 DEF MarksImport
  <2>2. FlagFollows'
    BY <1>c, <2>1 DEF StoreInv, FlagFollows
  <2>3. Behind' = Behind
    BY <1>c, <2>1 DEF Behind
  <2> QED
    BY <2>1, <2>2, <2>3 DEF StoreInv, GoodUnlessTorn
<1>22. CASE UNCHANGED credsVars
  BY <1>22, StoreUnchanged DEF credsVars
<1> QED
  BY <1>1, <1>2, <1>3, <1>4, <1>5, <1>7, <1>8, <1>9, <1>11, <1>12, <1>13, <1>14, <1>15, <1>16, <1>17,
     <1>18, <1>19, <1>20, <1>21, <1>22 DEF CredsNext

LEMMA StoreGivesLoads == CredsTypeOK /\ StoreInv => LoadsLast
<1> SUFFICES ASSUME CredsTypeOK, StoreInv
             PROVE  LoadsLast
  OBVIOUS
<1>c. step \in 0 .. Marks /\ Marks \in Nat /\ Ends = Marks - 1 /\ Gen = Marks - 2 /\ Gen >= 2 /\ Begins = 1
  BY CredsConstants DEF CredsTypeOK
<1>1. ASSUME step \in Begins + 1 .. Ends \/ (step = 0 /\ last = "cut")
      PROVE  credsBegin = Nothing
  <2>1. flag = 0
    BY <1>1 DEF StoreInv, FlagFollows
  <2> QED
    BY <2>1 DEF credsBegin, credCommitState
<1>2. ASSUME step = 0, last = "done", torn = {}
      PROVE  credsBegin = LoadSet(good)
  <2>1. flag = 1 /\ Behind = {}
    BY <1>2, <1>c DEF StoreInv, FlagFollows, Behind
  <2>2. field = good
    BY <2>1 DEF StoreInv, GoodUnlessTorn, CredsTypeOK
  <2> QED
    BY <2>1, <2>2 DEF credsBegin, credCommitState
<1> QED
  BY <1>1, <1>2 DEF LoadsLast

(***************************************************************************)
(* The console.  The board reads a paste that a terminal sends: while what *)
(* is left starts inside a line the board is in line mode, and while it    *)
(* starts inside a PEM the board collects one, unless it said otherwise.   *)
(***************************************************************************)
(* What the board has of the line that piece i ends.                       *)
HasLine(p, i) ==
  /\ p[i - 1].kind = "text" => line = p[i - 1]
  /\ p[i - 1].kind = "colon" => line \in {NoLine, p[i - 1]}
  /\ p[i - 1].kind = "eol" => line = NoLine

Follows(p, doing, i) ==
  /\ p \in Seq(Typed) /\ doing \in [1 .. Len(p) + 1 -> Stages] /\ Sends(p, doing)
  /\ i \in 1 .. Len(p) + 1 /\ paste = SubSeq(p, i, Len(p))
  /\ doing[i] # "keys" => lineOn /\ i > 1 /\ HasLine(p, i)
  /\ doing[i] = "pem" => caOn

KeysInv ==
  /\ stray => told
  /\ told \/ paste = <<>> \/ \E p, doing, i : Follows(p, doing, i)

(* The piece that is read next, and what is left after it.                 *)
LEMMA FollowsNext ==
  ASSUME NEW p, NEW doing, NEW i, Follows(p, doing, i), paste # <<>>
  PROVE  /\ i \in 1 .. Len(p) /\ i + 1 \in 1 .. Len(p) + 1 /\ Len(p) \in Nat
         /\ Piece = p[i] /\ Piece \in Typed
         /\ Tail(paste) = SubSeq(p, i + 1, Len(p))
         /\ i > 1 => p[i - 1] \in Typed
<1>0. Len(p) \in Nat /\ i \in 1 .. Len(p) + 1 /\ p \in Seq(Typed)
  BY LenProperties DEF Follows
<1>1. i \in 1 .. Len(p)
  BY <1>0, SubSeqEmpty DEF Follows
<1>2. Head(SubSeq(p, i, Len(p))) = p[i] /\ Tail(SubSeq(p, i, Len(p))) = SubSeq(p, i + 1, Len(p))
  BY <1>0, <1>1, HeadTailOfSubSeq
<1>3. p[i] \in Typed /\ (i > 1 => p[i - 1] \in Typed)
  BY <1>0, <1>1, ElementOfSeq
<1> QED
  BY <1>0, <1>1, <1>2, <1>3 DEF Follows, Piece

(* A piece that ends no line.                                              *)
LEMMA FollowsFeed ==
  ASSUME CredsTypeOK, NEW p, NEW doing, NEW i, Follows(p, doing, i), credsConsoleFeed
  PROVE  Follows(p, doing, i + 1)'
<1>1. /\ i \in 1 .. Len(p) /\ i + 1 \in 1 .. Len(p) + 1 /\ i + 1 > 1 /\ i + 1 - 1 = i
      /\ paste' = SubSeq(p, i + 1, Len(p)) /\ Piece = p[i]
  BY FollowsNext DEF credsConsoleFeed, Reading
<1>2. lineOn' = TRUE /\ line' = (IF lineOn THEN p[i] ELSE NoLine) /\ caOn' = caOn
      /\ IF lineOn THEN p[i].kind # "eol" ELSE p[i].kind = "colon"
  BY <1>1 DEF credsConsoleFeed, pem
<1>3. p[i].kind # "eol" /\ p[i].kind \in {"colon", "text", "eol"}
  BY <1>1, <1>2, FollowsNext DEF Typed, PieceOf, credsConsoleFeed, Reading
<1>4. \/ doing[i] = "keys" /\ p[i].kind = "colon" /\ doing[i + 1] = "line"
      \/ doing[i] = "line" /\ doing[i + 1] = "line" /\ lineOn
      \/ doing[i] = "pem" /\ doing[i + 1] = "pem" /\ lineOn /\ caOn
  BY <1>1, <1>3 DEF Follows, Sends
<1>5. HasLine(p, i + 1)'
  BY <1>1, <1>2, <1>3, <1>4 DEF HasLine
<1>6. doing[i + 1] = "pem" => caOn'
  BY <1>2, <1>4
<1> QED
  BY <1>1, <1>2, <1>5, <1>6 DEF Follows

(* The end of a line after which a PEM begins or goes on.                  *)
LEMMA PemNext ==
  ASSUME CredsTypeOK, NEW p, NEW doing, NEW i, Follows(p, doing, i), AtEol, doing[i + 1] = "pem"
  PROVE  \/ line.len \in 1 .. LineMax /\ line.words = <<"cred", "ca">> /\ ~line.end
         \/ caOn /\ ~(line.len \in 1 .. LineMax /\ line.end)
<1>1. /\ i \in 1 .. Len(p) /\ Piece = p[i] /\ p[i].kind = "eol"
      /\ (i > 1 => p[i - 1].kind \in {"colon", "text", "eol"})
  BY FollowsNext DEF AtEol, Reading, Typed, PieceOf
<1>2. \/ doing[i] = "line" /\ AsksCa(p[i - 1])
      \/ doing[i] = "pem" /\ ~EndsPem(p[i - 1])
  BY <1>1 DEF Follows, Sends
<1>3. HasLine(p, i) /\ i > 1
  BY <1>2 DEF Follows
<1>4. CASE doing[i] = "line" /\ AsksCa(p[i - 1])
  BY <1>3, <1>4 DEF AsksCa, HasLine
<1>5. CASE doing[i] = "pem" /\ ~EndsPem(p[i - 1])
  <2>1. caOn
    BY <1>5 DEF Follows
  <2>2. ~(line.len \in 1 .. LineMax /\ line.end)
    BY <1>1, <1>3, <1>5 DEF EndsPem, HasLine, NoLine
  <2> QED
    BY <2>1, <2>2
<1> QED
  BY <1>2, <1>4, <1>5

LEMMA FollowsEol ==
  ASSUME CredsTypeOK, NEW p, NEW doing, NEW i, Follows(p, doing, i), AtEol, NEW on, EndLine(on),
         doing[i + 1] = "pem" => on /\ caOn'
  PROVE  Follows(p, doing, i + 1)'
<1>1. /\ i \in 1 .. Len(p) /\ i + 1 \in 1 .. Len(p) + 1 /\ i + 1 > 1 /\ i + 1 - 1 = i
      /\ paste' = SubSeq(p, i + 1, Len(p)) /\ p[i].kind = "eol" /\ line' = NoLine /\ lineOn' = on
  BY FollowsNext DEF AtEol, Reading, EndLine
<1>2. doing[i + 1] \in {"keys", "pem"}
  BY <1>1 DEF Follows, Sends
<1>3. HasLine(p, i + 1)'
  BY <1>1 DEF HasLine
<1> QED
  BY <1>1, <1>2, <1>3 DEF Follows

LEMMA KeysStep == CredsTypeOK /\ KeysInv /\ [CredsNext]_credsVars => KeysInv'
<1> SUFFICES ASSUME CredsTypeOK, KeysInv, [CredsNext]_credsVars
             PROVE  KeysInv'
  OBVIOUS
<1> USE DEF stored, ram, pem, limits, keys, ghosts
<1>a. ASSUME UNCHANGED <<told, stray, paste, line, lineOn, caOn>>
      PROVE  KeysInv'
  BY <1>a DEF KeysInv, Follows, HasLine
<1>1. CASE Types
  <2>1. stray' = FALSE /\ paste' \in owner.pastes /\ owner \in Owners
    BY <1>1 DEF Types, CredsTypeOK
  <2>2. paste' \in Seq(Typed)
    BY <2>1, CredsAssumption DEF Typed
  <2>3. PICK doing \in [1 .. Len(paste') + 1 -> Stages] : Sends(paste', doing)
    BY <2>1, CredsAssumption
  <2>4. paste' = SubSeq(paste', 1, Len(paste')) /\ 1 \in 1 .. Len(paste') + 1
    BY <2>2, SubSeqFull, LenProperties
  <2>5. doing[1] = "keys"
    BY <2>3 DEF Sends
  <2>6. ASSUME NEW p, p = paste'
        PROVE  Follows(p, doing, 1)'
    BY <2>2, <2>3, <2>4, <2>5, <2>6 DEF Follows
  <2> QED
    BY <2>1, <2>6 DEF KeysInv
<1>2. CASE ToKeys
  <2>1. CASE told
    BY <1>2, <2>1 DEF ToKeys, KeysInv
  <2>2. CASE ~told
    <3>1. PICK p, doing, i : Follows(p, doing, i)
      BY <1>2, <2>2 DEF ToKeys, Reading, KeysInv
    <3>2. /\ i \in 1 .. Len(p) /\ i + 1 \in 1 .. Len(p) + 1 /\ Piece = p[i] /\ Piece \in Typed
          /\ paste' = SubSeq(p, i + 1, Len(p))
      BY <1>2, <3>1, FollowsNext DEF ToKeys, Reading
    <3>3. doing[i] = "keys"
      BY <1>2, <3>1 DEF ToKeys, Follows, Stages
    <3>4. Piece.kind = "eol" /\ doing[i + 1] = "keys"
      BY <1>2, <3>1, <3>2, <3>3 DEF ToKeys, Follows, Sends, Typed, PieceOf
    <3>5. Follows(p, doing, i + 1)'
      BY <3>1, <3>2, <3>4 DEF Follows
    <3>6. stray' = stray \/ ~stray'
      BY <1>2, <3>4 DEF ToKeys
    <3> QED
      BY <1>2, <3>4, <3>5 DEF ToKeys, KeysInv
  <2> QED
    BY <2>1, <2>2
<1>3. CASE credsConsoleFeed
  <2>1. CASE told
    BY <1>3, <2>1 DEF credsConsoleFeed, KeysInv
  <2>2. CASE ~told
    <3>1. PICK p, doing, i : Follows(p, doing, i)
      BY <1>3, <2>2 DEF credsConsoleFeed, Reading, KeysInv
    <3>2. Follows(p, doing, i + 1)'
      BY <1>3, <3>1, FollowsFeed
    <3> QED
      BY <1>3, <3>2 DEF credsConsoleFeed, KeysInv
  <2> QED
    BY <2>1, <2>2
<1>4. CASE Idle
  BY <1>4 DEF Idle, KeysInv
<1>5. CASE Reset
  BY <1>5 DEF Reset, KeysInv
<1>6. ASSUME AtEol, NEW on, EndLine(on), stray' = stray, told => told',
             \A p, doing, i : Follows(p, doing, i) /\ doing[i + 1] = "pem" => told' \/ (on /\ caOn')
      PROVE  KeysInv'
  <2>1. CASE told'
    BY <2>1 DEF KeysInv
  <2>2. CASE ~told'
    <3>1. PICK p, doing, i : Follows(p, doing, i)
      BY <1>6, <2>2 DEF AtEol, Reading, KeysInv
    <3>2. Follows(p, doing, i + 1)'
      BY <1>6, <2>2, <3>1, FollowsEol
    <3> QED
      BY <1>6, <2>2, <3>2 DEF KeysInv
  <2> QED
    BY <2>1, <2>2
<1>p. line.len \in Nat /\ LineMax \in Nat
  BY CredsAssumption DEF CredsTypeOK, AnyPiece, PieceOf
<1>7. CASE EndLong
  <2>1. ASSUME NEW p, NEW doing, NEW i, Follows(p, doing, i), doing[i + 1] = "pem"
        PROVE  told'
    <3>1. line.len \in 1 .. LineMax \/ caOn
      BY <1>7, <2>1, PemNext DEF EndLong
    <3>2. line.len > LineMax
      BY <1>7 DEF EndLong, Long
    <3>3. ~(line.len \in 1 .. LineMax)
      BY <1>p, <3>2, SMT
    <3>4. told' <=> told \/ caOn
      BY <1>7 DEF EndLong
    <3> QED
      BY <3>1, <3>3, <3>4, Zenon
  <2>2. AtEol /\ EndLine(FALSE) /\ stray' = stray /\ (told => told')
    BY <1>7 DEF EndLong
  <2> QED
    BY <1>6, <2>1, <2>2
<1>8. CASE EndPem
  <2>1. ASSUME NEW p, NEW doing, NEW i, Follows(p, doing, i), doing[i + 1] = "pem"
        PROVE  StaysOn /\ caOn'
    <3>1. ~line.end
      BY <1>8, <1>p, <2>1, PemNext DEF EndPem, Long
    <3> QED
      BY <1>8, <3>1 DEF EndPem, StaysOn
  <2>2. AtEol /\ EndLine(StaysOn) /\ stray' = stray /\ (told => told')
    BY <1>8 DEF EndPem
  <2> QED
    BY <1>6, <2>1, <2>2
<1>9. CASE EndEmpty
  <2>1. ASSUME NEW p, NEW doing, NEW i, Follows(p, doing, i), doing[i + 1] = "pem"
        PROVE  caOn /\ caOn'
    BY <1>9, <1>p, <2>1, PemNext DEF EndEmpty
  <2>2. AtEol /\ EndLine(caOn) /\ stray' = stray /\ (told => told')
    BY <1>9 DEF EndEmpty
  <2> QED
    BY <1>6, <2>1, <2>2
(* A command begins a PEM only when it is "cred ca".                       *)
<1>b. ASSUME NEW cmd, Runs(cmd), NEW p, NEW doing, NEW i, Follows(p, doing, i), doing[i + 1] = "pem"
      PROVE  cmd = "ca"
  <2>1. line.words = <<"cred", "ca">>
    BY <1>b, PemNext DEF Runs
  <2>2. credParseLine.cmd = "ca"
    BY <2>1 DEF credParseLine
  <2> QED
    BY <1>b, <2>2 DEF Runs
<1>c. ASSUME NEW cmd, Runs(cmd), cmd # "ca", EndLine(FALSE), UNCHANGED <<told, stray>>
      PROVE  KeysInv'
  <2>1. AtEol /\ ~(\E p, doing, i : Follows(p, doing, i) /\ doing[i + 1] = "pem")
    BY <1>b, <1>c DEF Runs
  <2> QED
    BY <1>6, <1>c, <2>1
<1>11. CASE NoEffect
  BY <1>11, <1>c DEF NoEffect
<1>12. CASE SetField
  BY <1>12, <1>c DEF SetField
<1>13. CASE PasteCa
  <2>1. PICK ok \in BOOLEAN : caOn' = ok /\ told' = (told \/ ~ok) /\ EndLine(ok)
    BY <1>13 DEF PasteCa
  <2>2. AtEol /\ stray' = stray
    BY <1>13 DEF PasteCa, Runs
  <2>3. told' \/ (ok /\ caOn')
    BY <2>1
  <2> QED
    BY <1>6, <2>1, <2>2, <2>3
<1>14. CASE stageClear
  BY <1>14, <1>c DEF stageClear
<1>15. CASE Abort
  BY <1>15, <1>c DEF Abort
<1>16. CASE CommitLine
  BY <1>16, <1>c DEF CommitLine
<1>17. CASE Import
  BY <1>17, <1>c DEF Import
<1>18. CASE Write
  BY <1>18, <1>a DEF Write
<1>19. CASE Completes
  BY <1>19, <1>a DEF Completes
<1>20. CASE WriteFails
  BY <1>20, <1>a DEF WriteFails
<1>21. CASE MarksImport
  BY <1>21, <1>a DEF MarksImport
<1>22. CASE UNCHANGED credsVars
  BY <1>22, <1>a DEF credsVars
<1> QED
  BY <1>1, <1>2, <1>3, <1>4, <1>5, <1>7, <1>8, <1>9, <1>11, <1>12, <1>13, <1>14, <1>15, <1>16, <1>17,
     <1>18, <1>19, <1>20, <1>21, <1>22 DEF CredsNext

(* What the NVS, the staged values, the line and the commit hold keeps its *)
(* type, for any terminal, any failed write and any reset.                 *)
THEOREM CredsTypes == CredsSpec => []CredsTypeOK
BY CredsTypeInit, CredsTypeStep, PTL DEF CredsSpec

(* A reset while a commit writes, or after one that was cut short, loads   *)
(* nothing; after a whole one, and none cut short before it that it did    *)
(* not overwrite, exactly the values committed.                            *)
THEOREM LoadsWhatWasStored == CredsSpec => []LoadsLast
BY CredsTypes, StoreInit, StoreStep, StoreGivesLoads, PTL DEF CredsSpec

(* Whatever a terminal pastes, in lines and PEMs of any length, the rest   *)
(* of it reaches the single-key handler only after the board said that it  *)
(* dropped the line or the PEM.                                            *)
THEOREM KeysStayClean == CredsSpec => []NoStrayKeys
<1>1. CredsInit => KeysInv
  BY DEF CredsInit, KeysInv
<1>2. KeysInv => NoStrayKeys
  BY DEF KeysInv, NoStrayKeys
<1> QED
  BY <1>1, <1>2, CredsTypes, KeysStep, PTL DEF CredsSpec

(* Every way to end a paste frees its buffer, and every way to drop or     *)
(* clear a staged PEM the other.                                           *)
THEOREM BuffersFollow == CredsSpec => []BuffersInUse
<1>1. CredsInit => BuffersInUse
  BY CredsConstants DEF CredsInit, BuffersInUse, Unstaged, IsSet
<1> QED
  BY <1>1, CredsTypes, BuffersStep, PTL DEF CredsSpec
=============================================================================
