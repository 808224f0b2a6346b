# A verification project for the cardiag firmware

cardiag is a CAN-bus logger for a car: an ESP32-S3 board that listens to the bus, keeps
decoded snapshots, a change log and trip bookends as files on a small flash partition, and
serves them over Wi-Fi to a hub, which fetches and acknowledges them. The TLA+ modules in
this directory model the *control* of `src/firmware`: what is on flash, in NVS, in RTC
memory and in RAM, and in which order tasks, callbacks, operators and power cuts change it.
TLC checks them on small instances; TLAPS proves the safety properties of the runs for every
value of the constants.

Contents: 1 the system · 2 conventions · 3 the modules · 4 the runs · 5 fairness ·
6 the proofs · 7 what is only model-checked · 8 disagreements between code and comments ·
9 what is not modelled, and why · 10 the plan.

## 1. The system

### 1.1 Tasks and what they share

Three tasks share core 1 and pre-empt each other by priority: `canTask` (5) blocks in
`twai_receive` for up to 100 ms and handles every frame; `selfTestTask` (3) sends synthetic
frames in SELFTEST mode; the Arduino `loop()` (1) does everything else, one stage after the
other: ignition and sleep, console keys, button, hub, CAN recovery, filestore, poller. The
Wi-Fi and mDNS stacks run on core 0 and call back. Between `canTask` and `loop()` the state
shared is the change ring, the sniffer table, the raw ring, the pause flags, the time of the
last frame and the idle-closed flag. Resets (watchdog, brown-out, the switched supply going
away) may come anywhere; NVS and LittleFS outlive them, RTC memory outlives all but the
last.

### 1.2 Inventory

| component (src/firmware) | state | operations | what is hard | what makes it correct |
|---|---|---|---|---|
| Retention policy (`fsindex.cpp`) | none; chooses over the table | pick a victim, tier A victim, leftover; enforce four limits in phases | phases interact; a budget per call; opens, acks and hydration between calls | count bounded; a passed limit stays met; no needless deletion; the long record goes last; the backlog is worked off |
| Filestore (`filestore.cpp`) | directory, NVS record (next index, watermark, loss count and its ack), RAM table, open writers | open, write, close, evict, ack, ack a loss, boot; listing, fetch | a power cut between any two flash writes; a .meta, a rename, a removal or an NVS write that fails; no memory for the index; a changed boot id | a number is one file for ever; unacked data is kept or its loss counted and warned of; table = directory |
| Change log and drain (`recorder.cpp`, `filestore.cpp`) | ring, cursor, changes file | append, refuse, drain, compact, start, stop, clear, mode change | rows arrive between any two steps of a drain, and while the gate is shut; a refused file; a short write | each accepted row once, in order, under a header, in a file of its mode |
| SPSC ring (`spscring.h`) | head, tail, slots | reserve, publish, count, slot, consume | no lock; counters that wrap | a FIFO of whole rows |
| Power and sleep (`powerpolicy.h`, `power.cpp`, `sleepguard.h`, `transceiver.cpp`) | debounce, sleep timers, transceiver mode, idle-closed flag | sample, command, repeat, backstop, boot check, idle close | edges and frames between any two stages; wake windows; failed pin writes; reset | sleep never late; OFF never false; nothing reopens once it is safe to cut power |
| CAN recovery (`canrecov.h`) | recovery and back-off timers | one step a second: recover, restart or nothing | a bus that never goes recessive, late steps, a mode change in between | the transmitter comes back if a driver is left; retries keep the back-off; a healthy driver is left alone |
| Mode control and driver (`main.cpp`) | mode, pending and dropped mode, driver, pause handshake | keys, button, hub, ignition edges, recovery, all through `applyMode` | two tasks block in the driver that is uninstalled, which may refuse; restores over newer choices | driver never taken from under a task; passive while OFF; the mode is the one chosen |
| Boot guard (`bootguard.cpp`, `setup()`) | attempt count in RTC memory and NVS | begin, mark start, clear, safe mode, retry, erase | resets between any two writes, RTC memory lost, an NVS write that fails, another firmware flashed | a crash loop in the filestore ends in safe mode, and nothing else does; no format goes uncounted |
| Core dump custody (`coredump.cpp`) | dump partition, lifetime counters | count, fetch, ack | a newer crash over an unacked dump; a reset before a counter is written | a dump goes only by the ack of its own digest; the counters tell how many were lost |
| Session and clock (`session.cpp`, `rtc.cpp`) | boot id, anchor | new boot id, set anchor, tick | wrap of millis() | ids grow; an anchor never goes back to a worse source |
| Poll plan and scheduler (`pollplan.cpp`, `poller.cpp`) | the plan in RAM and NVS, due times, request in flight, reply queue | post, load, pick, sent, reply, time-out, back-off | stalls, late and missing replies, refused sends, a post while it runs | nobody starves, nobody is asked early, the plan vouched for is the stored one |
| Trip bookends, ISO-TP (`bookend.cpp`, `poller.cpp`) | reassembly per ECU, sequence, trip state | trigger, request, frame, deadline, write | interleaved multi-frame replies under two deadlines; an OFF edge that shuts the gate | a read cut by time, transmit or room is never called complete; a trip_end is over before the gate shuts |
| Hub link (`hublink.cpp`, `scansched.h`) | phase of the join, link, scan, last channel | scan, join, fall back, the key `w` | the Wi-Fi task changes the link between any two passes; the hub moves | a lost link is noticed; a hub that stays is found |
| Hub address and query (`hubaddr.h`, `hubquery.h`, `hubresolve.cpp`) | the one mDNS query, its schedule, address sources | start, poll, cancel, park, reap, kick | a link drop at any stage; a refused delete; a clock that wraps | each query freed once, none leaked, the next one never held up for good |
| Live stream (`hubstream.cpp`, `hubchunk.cpp`) | watermarks, pacing, sequence numbers, fast list | full, changed and fast snapshots, requests, link up and down | `canTask` writes rows between the clock and the copy; refused datagrams | a hub without a gap has the table; every change gets into a list |
| Hub API, web UI (`hubapi.cpp`, `webui.cpp`) | none of their own | HTTP handlers on `loop()` | – | the operations they call |
| Credentials (`creds.cpp`, `credstore.cpp`) | line and PEM being typed, staged set, NVS keys, flag | stage, clear, paste, commit, import, load | resets and failed writes in a commit of many keys; lost line ends, failed allocations | no half-written set counts as provisioned; no password reaches the key handler |
| Sniffer table (`sniffer.cpp`), raw ring (`recorder.cpp`) | rows and when each changed; frames | note, rows changed since, export | a reader that keeps a mark; overflow | no change missed by a reader that keeps its mark |
| Log queue, diagnostics, self-test profile, host tools | counters, tables | – | – | no control of their own |

How they interact: `canTask` feeds the ring, the sniffer and the raw ring, and marks bus
activity; `loop()` drains the ring into files, takes snapshots, enforces retention before
each open and on a timer, and closes all files when power may go. The power stage asks the
filestore to close, and drops or restores the mode; each mode change closes the files and
takes the driver away from both other tasks. The hub's requests arrive as HTTP on `loop()`.

The hazards this code is exposed to are listed, with their lines and the properties that
would catch them, under `hazards` in `PROJECT.json`.

## 2. Conventions

- An action is named after the function, handler or step it models; a variable keeps the
  name of the code's variable or states it in a comment.
- What runs on `loop()` alone and touches only RAM is one step. Each flash or NVS write is a
  step of its own where a power cut can separate it from the next, and each load or store is
  where another task can come between.
- A timestamp is the number of ticks since it was taken, capped at a bound beyond which the
  code cannot tell ages apart.
- `\* history:` marks a variable the code does not have; none guards an action, but where a bound
  counts one (rows, items on flash, failures, and in `Filestore` the numbers left once one has
  been given out again).
- `\* bound:` and `\* assumption:` mark constants that are not the code's.
- An operator commented `\* Mutant:` is a plausible mistake in the definition below it; each
  property of a passing run is violated once its mutant takes the place of the original.


## 3. The modules

| module | models | extends / refines |
|---|---|---|
| `FsPolicy` | the pure choices of `fsindex.cpp`: tiers, victims, leftovers | – |
| `Retention` (`MCRetention`) | `fsEnforceRetention`, one eviction a step, among opens, writes, closes, hydration, acks, reboots | `FsPolicy` |
| `Filestore` | directory, NVS and table through every flash write and power cut | `FsPolicy`; implements `Custody` |
| `Custody` | abstract: numbers issued, data held, watermark, losses owed and counted | – |
| `ChangeLog` | ring, drain, changes file | – |
| `SpscRing` | the ring at each load, store and slot write | implements `Fifo` |
| `Fifo` | abstract: a bounded queue of whole rows | – |
| `Power` | ignition debounce, sleep, close rules, wake and reset, under either policy | – |
| `CanRecov` | `canRecovStep` and `canRecoveryTick` | – |
| `Modes` | every mode change, the driver and the two tasks that use it | – |
| `Boot` | `setup()` from reset to `loop()`: safe mode, core dump, erase | – |
| `HubResolve` | the hub's address: sources, query schedule, life of the one query | – |
| `HubLink` | the Wi-Fi link, composed with the query | `HubResolve` |
| `Bookend` | ISO-TP reassembly and the bookend sequencer, as operators on a record | – |
| `Poll` (`MCPoll`) | MODE_POLL: plan, scheduler, triggers, ECUs | `Bookend` |
| `Creds` (`MCCreds`) | console lines, staging, commit, import, load | – |
| `Stream` | sniffer table and the datagrams made of it | – |

The theorems are in `FsPolicy_proofs`, `Filestore_proofs`, `ChangeLog_proofs`, `Power_proofs`,
`Loop_proofs` (`Retention` and `Poll`, which `loop()` runs alone), `Can_proofs` (`Modes`,
`CanRecov` and `SpscRing`, which `canTask` shares), `Nvs_proofs` (`Boot` and `Creds`, which
writes to NVS may leave half done) and `Hub_proofs` (`HubLink` and `Stream`). `map` in
`PROJECT.json` gives the lines each definition stands for.

**FsPolicy, Retention.** The C array is sorted by a unique index, so the table is a set of
entries and "first" is the least index. `phase` is where the call is among the four limits;
`reserve` is 1 when `openActive` called, which then adds its file, and 0 from the timer, the
drain and the ack. `closed`, `active` and `hydrated` are the entry's flags: a size is unknown
until the lazy hydration reads it, so the tier A cap works on part of the sizes. Sizes are
blocks; the partition's usage is the sum of all sizes (the cached usage estimate of
`fsusage.h` is abstracted away). A boot may find more files than the cap, as `fsindex.h` says
of old images. Every removal succeeds here and every file finds room in the index; where they do
not is `Filestore`'s matter.

**Filestore, Custody.** `disk` is the set of names in the directory, `nvs` the keys, `table`,
`open` and `boot` what RAM holds. `at` is the flash or NVS write the operation under way does
next; `Restart` is enabled at each of them and forgets RAM. `openActive` burns a number in
NVS before the file exists; `closeActive` writes the .meta, then renames; an eviction removes
the data, the .meta, then writes the loss count. The order of the code is kept in all three.
`Faulty` names what may fail – the .meta that does not open, a rename, a removal, the put of the
next index, each of whose results the code ignores – and `MaxFaults` how often; the other puts
(ack, losses, boot id) are taken to succeed. `Room` is the number of entries the index surely has
memory for: beyond it `trackEntry` may have to evict before it appends, at an open and in the boot
scan (`GivesWay`, `ScanEvict`), and a creation that fails gives its entry back. The history `puts` is
TRUE while NVS took every index, `sound` while in addition no rename or removal failed and no boot
id moved under an open file, and the properties that a fault breaks are claimed while they are.
An ack may name any number: the code has no upper limit. Byte counts are `Retention`'s matter: here either byte
limit may or may not be exceeded whenever it is asked. `Custody` has none of this: numbers are
issued once, their data is held until the watermark covers it, a loss is owed and then
counted, and only a power cut can forget one.

**ChangeLog.** Row n is the n-th row accepted; the ring holds `tail+1 .. head`; `flash` is
everything written to changes files end to end, with `FileStart` and `Header` items. A drain
is split at each flash call, and `recorderNoteChange` may come between any two of its steps.
Keys, requests and mode changes run on `loop()` and so only between drains. `gate` stands for a
mounted, enabled filestore that power lets record: while it is shut no drain begins and rows stay
in the ring, until the ring is full. Rows that refill a cleared ring up to exactly the old cursor
hide the clear from the next drain; the history `skipped` is what it then passes over. A short write
stores part of its bytes without advancing the cursor, as `writeActive` returns failure; the
part that reached the file is not in the digest.

**SpscRing, Fifo.** `LoadHead`, `spscReserve`, the two slot writes (the record and its mask
live in parallel arrays), `spscPublish` on one side; `spscCount`, the two slot reads and
`spscConsume` on the other. Counters wrap at `Wrap`. The consumer's callers serialise on a
lock, so they are one process. Acquire and release are taken as given: a step sees the steps
before it. `spscPow2Floor` is a choice among the divisors of `Wrap`, a power of two: they are
the powers of two up to it.

**Power.** A pass of `loop()` is six steps – sample the input and debounce, decide on sleep,
handle keys and record, filestore tick, idle close, mark idle-closed – with frames, ticks,
input edges and resets between any two. `policy` is chosen at the start and never changes:
a board is built with the ignition input or without. Rows being drained, snapshots and polls
are one `Record` step that may open a file; the mode an OFF edge drops is only the close it
causes (see `Modes`). A failed write to the transceiver's pins leaves the recorded mode, as in
`transceiver.cpp`. A frame may come at any point, between the idle close and the store that marks
it too, and setup() may outlast the debounces.

**CanRecov.** One `canRecovStep` per transition of the loop, `late` ticks after the one
before; the bus faults, goes error-passive, clears or sees its recessive bits in between. A restart
goes through `applyMode`, which ignores a refused stop or uninstall: it may end with no driver
running (`bus = "none"`, `g_twaiUp` FALSE), and then nothing is stepped until someone chooses a
mode. `wait` is the signed 32-bit difference the code takes, and wraps at `Half`.

**Modes.** The ignition policy, where the gate exists. `at` walks the five stages that may
change the mode and the three parts of `applyMode` (pause, start, blink); `canTask` and
`selfTestTask` are stepped where they block, since `loop()` has the lowest priority and no
step of theirs is interrupted by it. A key waiting to confirm a transmitting mode is
`pending`; `handleKeys` takes keys until there is none. Stop, uninstall, install and start may each
be refused (`LetGo`, `Start`): a driver that is not let go of keeps the mode it was given. The stored
mode is passive at boot.

**Boot.** `at` is the next write of `setup()` or of a request: the crash counter, the mark of
the start in RTC memory, then in NVS, the mount, the clear in both. `Crash`, `LosePower` and
`Flash` may come at any of them and send the board back to `"reset"`; RTC memory survives a
crash and is kept or garbage after a power cut or a flash, since a brownout keeps it. A dump is
the number of its crash; a crash may leave its dump, none, or the older one. `held` is what the
hub has fetched whole, so an ack may come late, twice, or for a dump since replaced. Each NVS write
may fail, and no caller looks: `faults` counts them.

**HubResolve, HubLink.** An operator of `hubquery.h` maps a query record to the set of its
successors, because the mdns component may refuse to delete a finished search; a pass of
`hublinkLoop` first reaps and then does one step of the join, of the search or of the query.
Between two passes the link may come and go, with its event delivered any time later, and the
key `w` may switch the radio. `SeesLink` and `Joined` split the one pass in which the event
handler's view changes, as the Wi-Fi task can run in between. Ages of the schedule are capped
where no comparison tells them apart, unless `LongUp` asks for the clock's wrap.

**Bookend, Poll.** A pass is its stages: ignition, keys and requests, the queue, the triggers,
then the bookend sequence or the plan. The clock moves between passes only, because
`pollerTick` reads it once. A message is what it answers, how much it brings and in how many
frames; an ECU sends it frame by frame, each of which may be lost or find the queue full, waits
for its Flow Control and may give up. The history `cut` says how messages a record lacks were
lost: `frame` (spoilt, too many or out of order), `late` (an answer outside the time of its own
request), `cap`, and those that must not be found in a complete record. A Consecutive Frame that is
shorter than its place allows, which shifts the bytes after it, is not told from a good one. A
person confirms POLL in a later pass than they ask for it (`Ask`, `Choose`, `Cancel`), and the gate
is not looked at again. POLL always finds a driver here; that it may not is in `Modes`. The history
`overtime` is what held up the read of a trip_end: the longest stall, and the passes it spent on
Flow Controls once its time was up. The queue is drained a frame at a time, so that `canTask`
may queue another in between, and `bookendTick` polls the sequencer up to `MaxPolls` = 4 times a
pass. A plan is parsed to the arrangement of its entries by key. `late` is now less the due
time. `car` names the board's surroundings – its ECUs, hub, owner and faults – and never changes.

**Creds.** A paste is a sequence of pieces – colon, text, end of line – so that a lost line
end, an overlong line or a line typed too slowly leaves line mode where the code does. A value
is its length and what the validation tells apart in its text. A commit is one step per NVS
write under the flag `complete`; a reset or a failed write may come at each. What a terminal
sends is assumed to be lines and PEMs as the prompts ask for them (`Sends`), cut off anywhere.

**Stream.** `canTask` notes a frame at any point; a pass of `hubstreamLoop` reads the clock,
then copies rows under the lock, serialises and sends. Any of the datagrams of a list may be refused
and leave a gap in the numbers: `beginPacket()` ends the list, the result of `endPacket()` is ignored
and costs one datagram, so what goes is any subset. A row's age is that of its last change and
counts up to `Half`, half of the 32-bit clock, where the signed comparison with the watermark turns.
A frame of another length with the same bytes (`Resized`) and cleared marks change a row and not its
age. The history `stale` holds the ids whose change is in no list yet, `raced` those of them that the
watermark hides – they changed in the millisecond of a snapshot, behind its copy, or `Half` after
it –, `lost` those whose datagram was refused and that have not changed since, `odd` those whose
length or mask is in no list. Two things of the clock are left out: a row older than `Half` that turns
newer than the watermark again and is sent once more, and the turn back after 49.7 days.

## 4. The runs

| run | question | checked |
|---|---|---|
| `Retention` | does the policy give reasons, spare the long record, and finish? | `NoNeedlessDeletion`, `LongRecordLast`, `BacklogDrains` |
| `Filestore` | with power cuts and faults: is the index the directory, are numbers unique and losses counted, and until when? | `IndexMatchesDisk`, `IndexesUnique`, `LossAccounted`, `KeepsCustody` (refinement) |
| `ChangeLog` | is each row on flash once, in order, and does it get there once the gate stays open? | `NothingLost`, `NothingTwice`, `RowsReachFlash` |
| `SpscRing` | is the ring a FIFO of whole rows? | `KeepsFifo` (refinement) |
| `Power` | never late, never false, nothing reopens, under either policy | `SleepsInTime`, `SafeStaysSafe`, `NoFalseOff`, `WakeWindowKept`, `SleepsWhenOff`, `RecordsWhenOn`, `NoFalseIdleClose` |
| `CanRecov` | does the transmitter come back while a driver is left, without hammering the bus? | `RecoversSpaced`, `ComesBack` |
| `Modes` | is the driver safe, the gate kept and the choice held? | `HandsOff`, `GateKept`, `ChoiceHolds` |
| `Boot` | is safe mode earned and final, is each crash dump accounted for? | `SafeModeEarned`, `NoThirdStart`, `AckSparesNewer`, `DumpsAccounted` |
| `HubLink` | is the query owned, a lost link noticed, the hub found? | `SearchOwned`, `ServesAgain`, `FindsHub` |
| `Poll` | is the plan the one vouched for, polled fairly and not too fast; what may a complete bookend lack, and what makes one late? | `VouchedPlan`, `EachOnce`, `NeverFaster`, `CompleteIsHonest`, `EndBeforeOff` |
| `Creds` | what would a reset load, what reaches the key handler, who holds the buffers? | `LoadsLast`, `NoStrayKeys`, `BuffersInUse` |
| `Stream` | does the hub have the table, and does every change get into a list? | `HubHasTable`, `NothingStarves` |

The comment above each property says what it claims and of which code. Type invariants are
theorems (section 6) rather than properties of these runs.

### Bounds

- `Retention`: 3 files (the code: 96, against 3 writers), caps 1 and 2 blocks, 2 evictions a
  call (8), files of 1 block, 6 indexes, two boot tables of 4 files. Every limit can be
  exceeded alone and with the others, a call can run out of budget in each phase, a table can
  be over the cap at boot, and the three writers can pin the whole table.
- `Filestore`: 2 files, 2 evictions, memory for 1 sure, 3 numbers, 3 boots, one failure of any kind
  but the .meta. Three boots are one power cut, and one in the boot that repairs it.
- `ChangeLog`: 3 rows of ring (the code rounds to a power of two), 2 a chunk, files of 3 items,
  3 rows, compaction from 1%, mode changes, refused files and short writes. The ring fills, is
  compacted under an arriving row and is drained into a rotated file. From `MaxFlash` = 3 items on
  no write falls short. `ChangeLogBig.cfg` checks its safety with 4 rows of ring
  and 5 rows, and `StartsWithHeader`, in about 3 minutes.
- `SpscRing`: 5 slots asked for and 4 given (the code rounds down to a power of two),
  counters of 4 bits, 40 rows: both wrap twice, at every fill level.
- `Power`: debounce 1 and 2 ticks, off-sleep 1, idle close 2, wake window 4, repeat 5, backstop
  6, ages up to 8; the code has 200 ms, 2 s, 0, 3 s, 10 s, 5 s and 300 s. The order is kept but
  for the repeat, which is longer than the window here so that a repeated command cannot stand
  in for a first one that is missing; the theorems hold for every order they do not name. One
  reset, one failed pin write, a setup() of up to 3 ticks, longer than the debounce, and passes of at
  most a tick, so `now` is old when it is used.
- `CanRecov`: windows of 3 ticks, back-off 1 to 6, stable 8, steps up to 2 ticks apart, 3
  faults, 1 mode change, 1 restart that leaves no driver, half a clock of 8 ticks, so that it wraps:
  the back-off doubles to its maximum and is reset once.
- `Modes`: a task blocks 1 tick, the pause waits 3 (the code: 100 and 300 ms), 2 refused driver
  calls: one at an OFF edge and one at the restore after it.
- `Boot`: 2 firmwares, the limit of the code (2), 4 resets, 2 requests, 1 failed NVS write: two failed starts, the
  safe mode they lead to and a reset in the retry, or two crashes with a fetch between them.
- `HubLink`: 2 addresses, 2 channels, a gap of 1 tick, back-off 1 to 2, silence 2, one refused
  delete, one trouble (the hub moves, the link is lost or `w` is pressed), after a boot with
  the hub there or away. A second trouble is the first again once the board has recovered from
  it, which is what the two liveness properties say it does.
- `Poll`: six boards: a plan of three periods and an ECU that may be silent; a hub and an owner;
  trips; a driver who leaves while two ECUs answer in several frames; an ECU whose frames are lost
  or spoilt; two long-winded ECUs, one of them beyond what is taken. Replies time out after 2 ticks,
  periods are 2 to 4, back-off up to 4, the OFF debounce 5 with a margin of 1, a sequence 8, two
  polls in a pass, one failure of any kind, a queue of 2. The leaving car's trip_end gets two
  Flow Controls in a pass, all the pass has, as four responders take all of the code's four. Each
  board has what its part needs: all at once is beyond TLC.
- `Creds`: fields ssid, passphrase, token, CA, an NVS that two hubs and a CA nearly fill, a line
  as long as the longest field, one failure, two commits: one cut short and one that has to cope
  with it.
- `Stream`: three ids for a table of two, one record per datagram, a fast list of one id or
  none, snapshots every 2 ticks and fast ones every tick, half a clock of 5 ticks: a snapshot period
  and three longest passes, so that a busy table stays this side of it and an idle one crosses it.
  One id may change its length or mask alone.

`CHECK_DEADLOCK FALSE` is set for `ChangeLog` and `SpscRing` only, whose bounds on rows end
every behaviour.

## 5. Fairness

- `Retention`: `loop()` goes on with a call it began and its timer comes round. The property
  asks for nothing while the board keeps resetting. While the ignition is believed OFF or the
  filestore is disabled the timer does not come round; nothing is written then either, so the
  backlog waits for the next pass that may record.
- `ChangeLog`: a drain that may start starts, and finishes. It may only while the gate is open, and
  nothing makes the gate open: `RowsReachFlash` is about behaviours in which it stays open in the
  end (`<>[]gate`), and then also covers the rows that came while it was shut. Strong fairness on opening a file
  and on a full write says that neither is refused for ever; with the flash broken for good no
  row could reach it. Nothing is assumed of the operator.
- `Power`: `loop()` runs (a task watchdog resets the board otherwise), time passes, and the
  switched supply, once on, starts the board. Nothing is assumed of the bus or the input.
- `CanRecov`: the step is called while a driver is up. `ComesBack` is about behaviours in which one is
  up in the end (`<>[]Up`): after a restart that leaves none `loop()` no longer calls the step, and
  only a person or the hub brings the bus back (section 8). Nothing is assumed of the bus: even its
  recessive bits may never come.
- `HubLink`: `loop()` and time go on, events are delivered, a query ends. Of the radio,
  `FindsHub` assumes that what may succeed again and again – a sweep that starts, a scan that
  sees the hub, an association, a pass that sees the link, an answer – does not fail for ever;
  a hub out of reach is never found. `ServesAgain` needs only the first group.
- `Stream`: `loop()` and the clock go on. Nothing is assumed of `canTask`, or of the transport:
  `NothingStarves` says that a change is put in a list for the hub, not that its datagram went.
- `Modes`: the tasks run and time passes (used by an extra check only).

## 6. The proofs

Every safety property that a run checks is a theorem. Each theorem module EXTENDS its
components. The assumptions on constants are the ASSUMEs of the component, no stronger than
what `config.h` and its static assertions give; two say what the provers cannot compute, that a
power of two is a positive number and that the powers of two up to `Wrap` are its divisors, and
TLC evaluates them. Each component has its type invariant among the theorems.

- **Filestore_proofs.** As long as NVS takes each next index (`puts`), whatever else fails: no index
  twice, every loss counted but for one per power cut; and the warning stays until the hub acks it,
  unconditionally. While `sound`: the index is the directory, each loss is counted once, the open
  files stay (`OpenFilesSafe`), and the filestore implements `Custody` (init and every step).
  The inductive invariant adds, for each value of `at`, what the
  operation has already done: which name it is between, that a victim is in the table and not
  active, that open writers are distinct. Without it an eviction could remove a file another
  step holds.
- **FsPolicy_proofs.** A victim is a table entry, is not active, and comes in the stated order.
  `BytesOf`, a fold over a set, is the sum of the sizes whichever file is taken first, and fewer
  files have no more bytes.
- **Loop_proofs, Retention.** `CountBounded` (the index stays within the cap, or what the boot
  found), `PassedLimitsHold` (a limit a call has passed stays met until it ends),
  `LongRecordLast` and `NoNeedlessDeletion`: the tier A cap works on the sizes read so far, which
  are part of the sum. The invariant adds that writers hold at most one file per kind, that
  indexes are unique and below the next one, and that a call that reserved a slot has it when
  it gets past the count.
- **Loop_proofs, Poll.** For any plans, bodies, answers, losses and refused transmits:
  - `VouchedPlan`. The plan a body is parsed to is a choice among the arrangements of its
    entries, so the proof builds one: an entry goes where the number of smaller keys puts it.
    No two have the same number, and a pigeonhole gives every place an entry.
  - `CompleteIsHonest`: unless the record under way is marked truncated, no message was lost but to the
    cap on a request, outside its request's time or with its frames, and all that was given is
    counted (`Honest`). Each step of the
    sequencer keeps it.
  - `NeverFaster`: an entry sent t ticks ago is due no sooner than its period less t from now;
    with its request in flight, t is the age of the request (`Spaced`).
  - `EachOnce`: an entry served while another waited overdue is due later than that other, or
    still in flight and sent when the other was already due (`Behind`).
  - `EndBeforeOff`, for any ECUs and any stalls: while a trip_end is read, what is left of its time
    and what has run of the debounce make no more than the debounce less the margin, and it is
    overdue by no more than its longest stall, once for the pass that finds the time up and once
    more for each pass before it whose polls all went into Flow Controls (`EndingInv`). So one that
    is still read at OFF was held up for longer than the margin.
- **ChangeLog_proofs.** `NothingTwice` and `NothingLost`, for any rows at any point and a gate that
  opens and shuts: a row that is neither on flash nor in the ring was cleared, or was `skipped`,
  which the refill of a cleared ring to exactly the old cursor does to the rows then in it and to no
  others. The invariant ties the cursor to the last row on flash at each step of a drain.
- **Power_proofs.** For every value of the timers and either policy: `SafeStaysSafe`,
  `NoFalseOff`, `NoFalseIdleClose`; with a repeat no longer than the backstop `SleepsInTime`;
  with a wake window no longer than the backstop, and a setup() of any length, `WakeWindowKept`,
  whose one way out is the check that ends a setup() longer than the debounce; without it
  (`WindowIsWhole`) only for boards whose setup() is shorter, which is not all of them (section 8);
  and that the rail never falls on an open file unless a pin write failed (`RailFindsNothingOpen`).
  Each has an invariant of its own: after SAFE TO CUT POWER neither the filter is on nor a file
  open; the age of the last ON sample is no less than the age of the edge; the age of the last
  frame is no less than that the idle test reads.
- **Can_proofs, Modes.** For every waiting time longer than a task blocks: `HandsOff` (a task in
  the driver has been there for as long as the pause has waited), `GateKept` (a driver
  `applyMode` brought up while OFF was given listen-only; one it could not let go of is left out), `ChoiceHolds` (what is to be restored is what was
  chosen, and only while OFF).
- **Can_proofs, CanRecov.** `RecoversSpaced`: what is owed of the announced wait is no more than
  the timer still has to run, and no more than the back-off during a recovery, after which a
  restart sets the timer anew. The timer may wrap and a restart may leave no driver.
- **Can_proofs, SpscRing.** For every capacity and width of the counters: a row is read as it was
  written (`ReadsWhole`), and the ring implements `Fifo`, step by step. The counters are the
  numbers of rows modulo `Wrap`; no more than `Cap` rows lie between them, so their difference
  is the true one and two rows in the ring never share a slot, because `Cap` divides `Wrap`.
- **Nvs_proofs, Boot.** For any firmwares, any limit, any number of resets and of NVS writes that
  fail: all four properties of the run – each failed write may give away one start – and that no
  format goes uncounted but for those whose count NVS refused (`FormatsCounted`). The count in either record is
  at most the starts of that firmware since it was last cleared; at each write of `setup()` one
  of the two records holds at least the starts that did not finish, less the writes that failed; between a dump and its
  counter the books are off by exactly the step that is outstanding.
- **Nvs_proofs, Creds.** For any fields, limits, legacy values and resets: `LoadsLast` (the flag is
  down while a commit writes and after one that was cut short, and a field differs from the last
  whole set only if such a commit, or this one, has written it), `BuffersInUse`, and
  `NoStrayKeys` for a terminal that sends lines and PEMs: as long as nothing was dropped, the
  board is in the line or PEM the terminal is in, or has ended it at the same end of line.
- **Hub_proofs, HubLink.** For any hubs and channels, any link drops and refused deletes:
  `SearchOwned`. At most one of `active`, `parked` and `undeleted` is taken, by the one search
  there is, in a state that goes with the slot; each operator of `hubquery.h` keeps that. And,
  while no query is half a wrap of the clock old, `AsksSoon`: no kick, failure or pass sets the
  next query beyond the longest back-off and the minimal gap.
- **Hub_proofs, Stream.** For any ids, table, datagram size and periods: `HubHasTable`. A row the
  hub lacks, unless `raced`, changed after the watermark of the last snapshot and is no older than
  the time since then, a bound for each stage of a pass (`Oldest`); the bound keeps a busy table this
  side of `Half`, and it is larger than it looks: a snapshot period and three longest passes. While
  no datagram was refused nothing is lost (`LostInv`).

Induction over data has no theorem the provers can use, since they cannot instantiate an
operator. Where it is needed – sums over sets, the powers of two, the oldest file – a proof
takes the smallest counterexample instead, which the well-foundedness theorems of the library
provide (`OldestIsOldest`, `SmallestSet`, `Least`).

## 7. What is only model-checked

Liveness and ENABLED are outside TLAPS: `BacklogDrains`, `RowsReachFlash`, `SleepsWhenOff`,
`RecordsWhenOn`, `ComesBack`, `ServesAgain`, `FindsHub`, `NothingStarves`. `StartsWithHeader`
is checked in `ChangeLogBig.cfg` and not proved. Atomicity, acquire/release order and the behaviour of ESP-IDF, LittleFS and NVS are taken as described in section 3.

## 8. Disagreements between code and comments

Each can be seen with `tlc -config X.cfg M`. Where the table names a run, X is the run's .cfg with
the property named here in place of its own – an `INVARIANT`, or a `PROPERTY` if it begins with
`[][` or says what happens in the end (`AlwaysComesBack`, `RefusedIsRepeated`); the others have a
.cfg with other constants, so that nothing but the cause named can violate the property:

| .cfg | module | violates | because |
|---|---|---|---|
| `ChangeLogModes` | `ChangeLog` | `ModesNeverMix` | `filestoreSetMode` closes the files but leaves undrained rows in the ring, and the next drain writes them into a file of the new mode; `filestore.cpp:1001` says "a file must not contain rows from two modes" |
| `PowerIdle` | `Power` | `IdleClosedMeansClosed` | under the bus-quiet policy the next snapshot after an idle close reopens a file while `filestoreIdleClosed()` stays true; `filestore.h:251` says every open file has been closed |
| run `Poll` | `MCPoll` | `TripIsThisCycle` | leaving POLL stops `bookendTriggers`, which alone clears `g_tripStarted`: a trip that starts after the mode was left and the ignition cycled has no trip_start (`poller.cpp:155`) |
| run `HubLink` | `HubLink` | `NeverInApSta` | the key `w` brings up the access point between two passes of a join, whose `begin()` then adds the station; `hublink.cpp:44` says never AP_STA |
| `HubLongUp` | `HubLink` | `AsksSoon` | a difference of the 32-bit clock is compared as signed: a kick more than 24.8 days after the last query sets the next one weeks ahead (`hubaddr.h:15`) |
| run `Creds` | `MCCreds` | `CompleteIsWhole` | a commit after one that was cut short keeps the values that one had written, and marks them complete (`creds.cpp:16`) |
| run `Filestore` | `Filestore` | `NumbersNeverReused` | `nextIndex` ignores that NVS did not take the next index, and a reset gives the number out again (`filestore.cpp:544`) |
| `FilestoreMetaFails` | `Filestore` | `LogHasMeta` | the rename is done although the .meta did not open |
| `FilestoreRenameFails` | `Filestore` | `IndexAlwaysMatches` | the entry is marked closed although the rename failed |
| `ChangeLogRefill` | `ChangeLog` | `NothingSkipped` | a cleared ring refilled up to the old cursor looks uncleared, and the next drain passes over its rows |
| `ChangeLogDigest` | `ChangeLog` | `DigestIsContent` | the stored part of a short write is not hashed |
| `PowerWake` | `Power` | `WakeWindowWhole` | the check that ends setup() knows no wake window and finds the debounce over if setup() outlasted it, as 4,094 ms do (`config.h:530`, `powerpolicy.h`) |
| `PowerPins` | `Power` | `RailNeverCutsAFile` | a failed pin write at the ON edge is not repeated |
| `PowerRace` | `Power` | `KeyOffCloses` | a frame between the idle close and its mark loses its re-arm |
| run `CanRecov` | `CanRecov` | `AlwaysComesBack` | a restart that ends with no driver running clears `g_twaiUp`, and `loop()` then never steps the recovery again (`main.cpp:1114`) |
| run `CanRecov` | `CanRecov` | `BackoffBoundsWait` | the back-off timer is compared by a signed difference: 24.8 days after the last action it lies in the future again (`canrecov.h:114`) |
| run `CanRecov` | `CanRecov` | `OnlyStuckRestarts` | a recovery is remembered over a mode change |
| run `Modes` | `Modes` | `AskedIsFinal` | choosing the current mode again does not cancel the restore |
| `ModesDead` | `Modes` | `DriverComesBack` | a start that fails is not tried again |
| run `Modes` | `Modes` | `GateKeptByDriver` | a refused stop or uninstall is ignored at the OFF edge: the driver runs on in the mode it was given (`main.cpp:237`) |
| run `Boot` | `Boot` | `NeverAThird` | a mark NVS refuses is not noticed: with RTC memory lost too, a third start in a row is made (`bootguard.h:18`) |
| run `Boot` | `Boot` | `OnlyUnfinishedCount` | a clear NVS refuses is not noticed: starts that finished lead to safe mode (`bootguard.h:18`) |
| run `Poll` | `MCPoll` | `CapIsTruncated` | the cap on a request sets no flag: a record whose list it cut is marked complete; `protocol.md:91` and `:131` and `config.h:642` say that whatever did not fit sets truncated |
| run `Poll` | `MCPoll` | `EndAlwaysBeforeOff` | a loop that is held up longer than the margin – once, or in each pass that only sends Flow Controls – reads a trip_end when OFF is confirmed; `config.h:639` keeps the margin back so that it does not. 300 ms is less than the file-system walk of `config.h:489` takes |
| run `Stream` | `Stream` | `HubHasAll` | `sniffer.cpp:326` skips a row that changed in the very millisecond of the watermark, behind the copy |
| run `Stream` | `Stream` | `HubHasRecord` | a new length or a cleared mask does not move `changedAtMs`: the record the hub holds differs from the row |
| run `Stream` | `Stream` | `RefusedIsRepeated` | the watermark moves whatever the transport did (`hubstream.cpp:133`, `:139`): a refused row is sent again only when it changes, or with a full snapshot |
| run `Poll` | `MCPoll` | `DipDropsEnd` | a dip that ends in the pass in which the read completes: the trip_end is written although the ignition is back ON |

Met while modelling, without a property of their own:

- `creds.h:45` says that a line being collected never reaches the single-key handler. A PEM
  that ends early – no memory, an overlong line, half a minute of silence – lets its remaining
  lines through; the board announces it, which is what `NoStrayKeys` asks.
- A deletion on flash and its counter in NVS are two writes, and so are a dump and what is noted of
  it: a reset in between, or a write NVS refuses, leaves a loss, a crash or an ack uncounted. The
  `slips` of `Filestore` and `Boot` are those.
- An answer that comes after the quiet window of its request (a 7F..78 extends
  it once, like any frame) is dropped by `handleMessage`, which sets no flag (`bookend.cpp:284`, `:329`): the
  record is marked complete without it. `CompleteIsHonest` names it.
- `bookendSeqPoll` sends the Flow Controls it owes before it looks at the deadline, and
  `bookendTick` polls four times a pass: four or more responders that owe the board a multi-frame
  answer as the time of a trip_end runs out cost it a pass or more. `EndBeforeOff` counts them.
- 24.8 days after a watermark last moved, `snifferRowsChangedSince` takes newer rows for older ones
  (`raced` holds those too): the watermark of a still bus moves only when a row changes.
- A boot id that moves while a pass is under way: `sessionTick` runs after `hubstreamLoop`, so
  one datagram may carry the old id with an uptime that has wrapped.

## 9. What is not modelled, and why

- **Hub API and web UI**: HTTP handlers on `loop()`. What they change (ack, loss ack, passive
  mode, plan, recorder on and off, erase, dumps) are actions above; parsing and JSON are I/O.
- **Session and clock**: the boot id is in `Filestore`; the anchor is one guarded assignment on
  `loop()`, and the RTC chip is I/O.
- **Raw ring**: `canTask` tries its mutex and drops the frame when it is held, and a download
  freezes the ring first; what a download sees is not stated yet.
- **Log queue, diagnostics, self-test profile**: counters, printing, a FreeRTOS buffer used as
  is, a table.
- **Old OBD poller** (`obd.cpp`): nothing calls it.
- **Host tools, analysis, bench scripts**: offline checks of captured logs.
- Of the components that are modelled: bytes and text (names, JSON, ELF, record layouts, digests
  of dumps, PEM), the sorted array of `fsindex.cpp`, listing and fetch of files, statistics.

## 10. The plan

1. Proofs: `StartsWithHeader`; `LogHasMeta` as long as nothing fails.
2. The filestore's listing and fetch against a close and an eviction between two requests; the
   raw ring's freeze and export.
3. The composition of `Modes` and `Poll` with `Power`: one ignition, one pass.
