---------------------------------- MODULE Boot ----------------------------------
(***************************************************************************)
(* What the board remembers from one boot to the next: the count of        *)
(* filestore starts that never finished and the safe mode it leads to      *)
(* (bootguard.cpp, setup), the stored core dump (coredump.cpp) and the     *)
(* erase of the partition (filestore.cpp).  A reset falls between any two  *)
(* writes of RTC memory, NVS and flash, and a write of NVS may fail: no    *)
(* caller looks at its result.                                             *)
(***************************************************************************)
EXTENDS Integers, FiniteSets

CONSTANTS
  Builds,              \* firmware identities (appTag)
  Limit,               \* BG_FAIL_LIMIT
  MaxResets,           \* bound: resets nobody asked for
  MaxRequests,         \* bound: retries and erases of the hub
  MaxFaults            \* bound: writes of NVS that fail

ASSUME BootAssumption ==
  /\ Limit \in Nat \ {0} /\ MaxResets \in Nat /\ MaxRequests \in Nat /\ MaxFaults \in Nat
  /\ Builds # {} /\ "garbage" \notin Builds

VARIABLES
  build,               \* the firmware flashed
  at,                  \* where setup() is; "run" in loop(), "reset" before setup()
  crashed,             \* the reset reason is one of crashReasonName
  rtc, nvs,            \* the BgRecords in RTC memory and in NVS
  prior,               \* s_prior
  safe,                \* g_st.safeMode
  restart,             \* ESP.restart() follows the bootguardClear in progress
  dump,                \* the image in the core dump partition, NoDump or its crash
  sha,                 \* s_sha: the image the handlers offer, NoDump when not s_present
  crashes, acked,      \* the lifetime counters in NVS
  erases,
  resets, requests,
  faults,              \* writes of NVS that failed
  begun,               \* history: starts of a build since its count was last cleared in NVS
  unfinished,          \* history: starts of a build since the last bootguardClear
  stuck,               \* history: marked starts in a row of this build, none finished
  total,               \* history: crashes there were
  held, erased,        \* history: dumps the hub has whole, dumps erased
  slips,               \* history: crashes and acks whose counter did not reach NVS
  formats              \* history: formats of the partition

guardVars == <<rtc, nvs, prior, safe, restart>>
dumpVars == <<dump, sha, crashes, acked>>
bounds == <<resets, requests>>
startHistory == <<begun, unfinished, stuck>>
dumpHistory == <<total, held, erased, slips>>
eraseVars == <<erases, formats>>
vars == <<build, at, crashed, rtc, nvs, prior, safe, restart, dump, sha, crashes, acked, erases,
          resets, requests, faults, begun, unfinished, stuck, total, held, erased, slips, formats>>

NoDump == 0
Record == [tag : Builds, attempts : Nat]
Garbage == [tag |-> "garbage", attempts |-> 255]     \* RTC memory after a power-on

bgMake(n) == [tag |-> build, attempts |-> n]

TypeOK ==
  /\ build \in Builds
  /\ at \in {"reset", "guard", "mark", "marked", "start", "clear", "cleared", "run", "format", "ack"}
  /\ crashed \in BOOLEAN /\ safe \in BOOLEAN /\ restart \in BOOLEAN
  /\ rtc \in Record \cup {Garbage} /\ nvs \in Record \cup {Garbage}
  /\ prior \in Nat
  /\ dump \in Nat /\ sha \in Nat /\ crashes \in Nat /\ acked \in Nat /\ erases \in Nat
  /\ resets \in 0 .. MaxResets /\ requests \in 0 .. MaxRequests
  /\ faults \in 0 .. MaxFaults
  /\ begun \in [Builds -> Nat] /\ unfinished \in [Builds -> Nat] /\ stuck \in Nat
  /\ total \in Nat /\ slips \in Nat /\ formats \in Nat
  /\ held \subseteq Nat /\ erased \subseteq Nat

Init ==
  /\ build \in Builds
  /\ at = "reset" /\ crashed = FALSE
  /\ rtc = Garbage /\ nvs = Garbage /\ prior = 0 /\ safe = FALSE /\ restart = FALSE
  /\ dump = NoDump /\ sha = NoDump /\ crashes = 0 /\ acked = 0 /\ erases = 0
  /\ resets = 0 /\ requests = 0 /\ faults = 0
  /\ begun = [b \in Builds |-> 0] /\ unfinished = begun /\ stuck = 0
  /\ total = 0 /\ held = {} /\ erased = {} /\ slips = 0 /\ formats = 0

\* A write of NVS, whose failure nobody notices
Put(ok) ==
  /\ ok \/ faults < MaxFaults
  /\ faults' = IF ok THEN faults ELSE faults + 1

\* A counter written with another one added, and the ones that were lost
Count(n, ok) == IF ok THEN n + 1 ELSE n
Slipped(ok) == slips' = IF ok THEN slips ELSE slips + 1

-----------------------------------------------------------------------------
(* setup() *)

\* Mutant: a crash that left no dump is not counted.
coredumpBegin_IfPresent(ok) ==
  /\ at = "reset"
  /\ Put(ok) /\ (~ok => crashed)
  /\ crashes' = IF crashed /\ dump # NoDump THEN Count(crashes, ok) ELSE crashes
  /\ Slipped(ok)
  /\ sha' \in {dump, NoDump}
  /\ at' = "guard"
  /\ UNCHANGED <<build, crashed, guardVars, dump, acked, bounds, startHistory, total, held, erased,
                 eraseVars>>

\* An image that cannot be hashed is not offered.
coredumpBegin(ok) ==
  /\ at = "reset"
  /\ Put(ok) /\ (~ok => crashed)
  /\ crashes' = IF crashed THEN Count(crashes, ok) ELSE crashes
  /\ Slipped(ok)
  /\ sha' \in {dump, NoDump}
  /\ at' = "guard"
  /\ UNCHANGED <<build, crashed, guardVars, dump, acked, bounds, startHistory, total, held, erased,
                 eraseVars>>

\* Mutant: the record of any firmware counts.
bgValid_AnyBuild(r) == r.tag # "garbage"

bgValid(r) == r.tag = build

\* Mutant: the copy in NVS is not read.
bgPriorAttempts_RtcOnly == IF bgValid(rtc) THEN rtc.attempts ELSE 0

bgPriorAttempts ==
  LET counts == {r.attempts : r \in {q \in {rtc, nvs} : bgValid(q)}}
  IN CHOOSE n \in counts \cup {0} : \A m \in counts : m <= n

bgShouldSafeMode(n) == n >= Limit

bgOnStart(n) == n + 1

bootguardBegin ==
  /\ at = "guard"
  /\ prior' = bgPriorAttempts
  /\ safe' = bgShouldSafeMode(prior')
  /\ at' = IF safe' THEN "run" ELSE "mark"
  /\ UNCHANGED <<build, crashed, rtc, nvs, restart, dumpVars, bounds, faults, startHistory,
                 dumpHistory, eraseVars>>

\* bootguardMarkStart, its write of RTC memory and its write of NVS
MarkRtc ==
  /\ at = "mark"
  /\ rtc' = bgMake(bgOnStart(prior))
  /\ begun' = [begun EXCEPT ![build] = @ + 1]
  /\ unfinished' = [unfinished EXCEPT ![build] = @ + 1]
  /\ at' = "marked"
  /\ UNCHANGED <<build, crashed, nvs, prior, safe, restart, dumpVars, bounds, faults, stuck,
                 dumpHistory, eraseVars>>

MarkNvs(ok) ==
  /\ at = "marked"
  /\ Put(ok)
  /\ nvs' = IF ok THEN bgMake(bgOnStart(prior)) ELSE nvs
  /\ stuck' = stuck + 1
  /\ at' = "start"
  /\ UNCHANGED <<build, crashed, rtc, prior, safe, restart, dumpVars, bounds, begun, unfinished,
                 dumpHistory,
                 eraseVars>>

filestoreBegin ==
  /\ at = "start"
  /\ stuck' = 0
  /\ restart' = FALSE
  /\ at' = "clear"
  /\ UNCHANGED <<build, crashed, rtc, nvs, prior, safe, dumpVars, bounds, faults, begun,
                 unfinished, dumpHistory, eraseVars>>

MountFails ==
  /\ at = "start"
  /\ at' = "run"
  /\ UNCHANGED <<build, crashed, guardVars, dumpVars, bounds, faults, startHistory, dumpHistory,
                 eraseVars>>

\* bootguardClear, its write of RTC memory and its write of NVS
ClearRtc ==
  /\ at = "clear"
  /\ rtc' = bgMake(0)
  /\ at' = "cleared"
  /\ UNCHANGED <<build, crashed, nvs, prior, safe, restart, dumpVars, bounds, faults, startHistory,
                 dumpHistory, eraseVars>>

ClearNvs(ok) ==
  /\ at = "cleared"
  /\ Put(ok)
  /\ nvs' = IF ok THEN bgMake(0) ELSE nvs
  /\ begun' = IF ok THEN [begun EXCEPT ![build] = 0] ELSE begun
  /\ unfinished' = [unfinished EXCEPT ![build] = 0]
  /\ at' = IF restart THEN "reset" ELSE "run"
  /\ crashed' = IF restart THEN FALSE ELSE crashed
  /\ safe' = IF restart THEN FALSE ELSE safe
  /\ UNCHANGED <<build, rtc, prior, restart, dumpVars, bounds, stuck, dumpHistory, eraseVars>>

-----------------------------------------------------------------------------
(* The hub's requests *)

safeModeGate == at = "run" /\ safe /\ requests < MaxRequests

handleRetry ==
  /\ safeModeGate
  /\ requests' = requests + 1 /\ stuck' = 0
  /\ restart' = TRUE /\ at' = "clear"
  /\ UNCHANGED <<build, crashed, rtc, nvs, prior, safe, dumpVars, resets, faults, begun,
                 unfinished, dumpHistory, eraseVars>>

handleErase(ok) ==
  /\ safeModeGate
  /\ Put(ok)
  /\ requests' = requests + 1
  /\ erases' = Count(erases, ok)
  /\ at' = "format"
  /\ UNCHANGED <<build, crashed, guardVars, dumpVars, resets, startHistory, dumpHistory, formats>>

\* Whether it succeeds or not, the count is cleared and the board restarts.
Format ==
  /\ at = "format"
  /\ formats' = formats + 1
  /\ stuck' = 0
  /\ restart' = TRUE /\ at' = "clear"
  /\ UNCHANGED <<build, crashed, rtc, nvs, prior, safe, dumpVars, bounds, faults, begun,
                 unfinished, dumpHistory, erases>>

\* A body cut short fails the hub's check of the sha, and is not held.
handleGet ==
  /\ at = "run" /\ sha # NoDump
  /\ held' = held \cup {dump}
  /\ UNCHANGED <<build, at, crashed, guardVars, dumpVars, bounds, faults, startHistory, total,
                 erased, slips, eraseVars>>

\* Mutant: whatever dump is stored is erased.
ShaMatches_Any(d) == TRUE

ShaMatches(d) == d = sha

\* For any dump the hub has ever fetched: acks are late, and sent again.
handleAck(d) ==
  /\ at = "run" /\ sha # NoDump /\ d \in held
  /\ ShaMatches(d)
  /\ dump' = NoDump /\ erased' = erased \cup {dump}
  /\ at' = "ack"
  /\ UNCHANGED <<build, crashed, guardVars, sha, crashes, acked, bounds, faults, startHistory,
                 total, held, slips, eraseVars>>

AckCounted(ok) ==
  /\ at = "ack"
  /\ Put(ok)
  /\ acked' = Count(acked, ok)
  /\ Slipped(ok)
  /\ sha' = NoDump
  /\ at' = "run"
  /\ UNCHANGED <<build, crashed, guardVars, dump, crashes, bounds, startHistory, total, held,
                 erased, eraseVars>>

\* Nothing asked
loop == at = "run" /\ UNCHANGED vars

-----------------------------------------------------------------------------
(* Resets nobody asked for *)

Slip == IF at = "ack" \/ (at = "reset" /\ crashed) THEN 1 ELSE 0

Dies ==
  /\ resets < MaxResets /\ resets' = resets + 1
  /\ at' = "reset"
  /\ prior' = 0 /\ safe' = FALSE /\ restart' = FALSE /\ sha' = NoDump
  /\ slips' = slips + Slip
  /\ UNCHANGED <<nvs, crashes, acked, requests, faults, begun, unfinished, held, erased, eraseVars>>

\* A panic or a watchdog.  The dump it leaves replaces the stored one; the
\* write may not complete, and an RTC watchdog leaves no dump.
Crash ==
  /\ Dies
  /\ crashed' = TRUE
  /\ total' = total + 1
  /\ dump' \in {total + 1, NoDump, dump}
  /\ UNCHANGED <<build, rtc, stuck>>

\* A power cut or a brownout
LosePower ==
  /\ Dies
  /\ crashed' = FALSE
  /\ rtc' \in {rtc, Garbage}
  /\ UNCHANGED <<build, dump, total, stuck>>

Flash(b) ==
  /\ Dies
  /\ crashed' = FALSE
  /\ build' = b
  /\ rtc' \in {rtc, Garbage}
  /\ stuck' = 0
  /\ UNCHANGED <<dump, total>>

Next ==
  \/ bootguardBegin \/ MarkRtc \/ filestoreBegin \/ MountFails \/ ClearRtc
  \/ (\E ok \in BOOLEAN : coredumpBegin(ok) \/ MarkNvs(ok) \/ ClearNvs(ok) \/ handleErase(ok) \/ AckCounted(ok))
  \/ handleRetry \/ Format \/ handleGet \/ (\E d \in held : handleAck(d))
  \/ loop \/ Crash \/ LosePower \/ (\E b \in Builds : Flash(b))

Spec == Init /\ [][Next]_vars

-----------------------------------------------------------------------------
\* Safe mode is only entered after Limit starts of this very firmware since its
\* count was last cleared in NVS: no count of another build, no garbage of RTC
\* memory and no half-written clear takes the recorder away (bootguard.h:18).
SafeModeEarned == safe => begun[build] >= Limit

\* After Limit starts in a row that were marked and did not finish, whether by
\* a hang, a crash or a mount that failed, there is no further start, not even
\* when the power is lost with each; every write of NVS that fails may give
\* away one (bootguard.h:18, main.cpp:691).
NoThirdStart == stuck <= Limit + faults

\* A dump is only erased when the hub holds that dump: a late or repeated ack
\* never erases the dump of a newer crash (coredump.h:22).
AckSparesNewer == erased \subseteq held

\* crashes_total - dumps_acked - present is the number of crashes whose dump the
\* hub will never see (coredump.h:47), until a counter does not reach NVS: the
\* power went before its write, or the write failed.
DumpsAccounted ==
  (at = "run" /\ slips = 0) =>
     crashes - acked - (IF sha = NoDump THEN 0 ELSE 1)
       = Cardinality((1 .. total) \ (erased \cup {sha}))

\* No format goes uncounted, whatever reset follows it, but for those whose
\* count NVS refused (filestore.cpp:1427).
FormatsCounted == formats <= erases + faults

-----------------------------------------------------------------------------
(* What the comments say and a refused write of NVS breaks: each is        *)
(* violated (README, section 8).                                           *)

\* "Two consecutive filestore starts that never finished => SAFE MODE"
\* (bootguard.h:18), and no other: but a clear that NVS refuses leaves the count
\* standing for starts that did finish.
OnlyUnfinishedCount == safe => unfinished[build] >= Limit

\* ... and never a third
NeverAThird == stuck <= Limit
=============================================================================
