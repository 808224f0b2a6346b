--------------------------------- MODULE Creds ---------------------------------
(***************************************************************************)
(* The credential store (creds.cpp, credstore.cpp): the ':' lines of the   *)
(* serial console, the values they stage, the commit that writes them to   *)
(* NVS key by key under the flag "complete", the import of a legacy        *)
(* secrets.h, and the load at boot.  Everything runs on the loop task; the *)
(* power may go between any two NVS writes.                                *)
(*                                                                         *)
(* A value is [len, text], text being what the validation tells apart.     *)
(***************************************************************************)
EXTENDS Integers, Sequences, FiniteSetsExt

CONSTANTS
  Order,                 \* the fields in the order of CredField
  Owners,                \* [pastes, stores]: what an owner's terminal may send, what
                         \* the NVS may hold at the first boot
  Legacy,                \* secrets.h: the value of each field, None if not defined
  MaxLen,                \* kFields[].max
  PassMin, Psk,          \* CRED_PASS_MIN, and the 64 digits of a raw PSK
  LineMax,               \* CRED_LINE_MAX
  Capacity, Entry,       \* NVS entries for this namespace, bytes in an entry (32)
  Reserve,               \* CREDS_NVS_RESERVE_ENTRIES
  MaxFails, MaxCommits   \* bounds: failed allocations and writes, commits

Fields == {Order[i] : i \in DOMAIN Order}
Texts ==
  {"none", "keep", "clear", "control", "spaced", "placeholder", "hex", "label", "word", "address", "pem", "junk"}
Value == [len : Nat, text : Texts]
PieceOf(kinds) ==
  [kind : kinds, len : Nat, words : Seq(STRING), value : Value, ok : BOOLEAN, end : BOOLEAN]

None == [len |-> 0, text |-> "none"]
Keep == [len |-> 0, text |-> "keep"]
Clear == [len |-> 0, text |-> "clear"]
Nothing == [f \in Fields |-> None]
Unstaged == [f \in Fields |-> Keep]
NoLine == [kind |-> "none", len |-> 0, words |-> <<>>, value |-> None, ok |-> FALSE, end |-> FALSE]
NoCa == [len |-> 0, text |-> "pem", over |-> FALSE]

VARIABLES
  field, flag, imported, \* the NVS namespace: field values, "complete" (-1: no key), "imported"
  staged,                \* g_op with g_stv: Keep, Clear or the value
  stBuf, caBuf,          \* g_stCa and g_ca are allocated
  line, lineOn,          \* g_line, g_lineOn
  caOn, ca,              \* g_caOn, the PEM collected so far
  step,                  \* 0: no commit; else the next write of the commit
  importing,             \* the commit is doImport's
  owner,                 \* which of Owners this is; never changes
  paste,                 \* what the terminal has still to send
  fails, commits,
  told, stray,           \* history, see NoStrayKeys
  good, torn, last       \* history, see LoadsLast

stored == <<field, flag, imported>>
ram == <<staged, stBuf>>
pem == <<caBuf, caOn, ca>>
limits == <<fails, commits>>
keys == <<told, stray>>
ghosts == <<good, torn, last>>
credsVars == <<field, flag, imported, staged, stBuf, caBuf, line, lineOn, caOn, ca, step, importing, owner, paste,
          fails, commits, told, stray, good, torn, last>>

----------------------------------------------------------------------------
(* Validation.                                                              *)

Printable(text) == text \notin {"control", "none"}

credValidate(f, v) ==
  /\ v.len \in 1 .. MaxLen[f]
  /\ CASE f = "ssid" -> Printable(v.text)
       [] f = "pass" -> /\ v.len >= PassMin
                        /\ IF v.len = Psk THEN v.text = "hex" ELSE v.text \notin {"control", "placeholder"}
       [] f = "mqtt_user" -> v.text \notin {"control", "spaced"}
       [] f = "mqtt_pass" -> v.text \notin {"control", "placeholder"}
       [] f = "token" -> v.len >= PassMin /\ v.text \notin {"control", "spaced", "placeholder"}
       [] f = "hub_addr" -> v.text = "address"
       [] f \in {"hub_name", "logger_name"} -> v.text \in {"label", "hex"}
       [] f = "ca" -> v.text = "pem"

Pairs == {<<"ssid", "pass">>, <<"mqtt_user", "mqtt_pass">>}

(* A set is whole when a field goes with its pair or not at all.            *)
credCheckSet(present) == \A p \in Pairs : p[1] \in present <=> p[2] \in present

credCommitState ==
  IF flag = 1 THEN "complete" ELSE IF flag = -1 /\ field = Nothing THEN "none" ELSE "incomplete"

----------------------------------------------------------------------------
(* Boot.                                                                     *)

loadActive(set) == [f \in Fields |-> IF f # "ca" /\ credValidate(f, set[f]) THEN set[f] ELSE None]

HaveHubWifi(set) == set["ssid"] # None /\ set["pass"] # None

LoadSet(values) ==
  LET set == loadActive(values)
  IN  IF HaveHubWifi(set) THEN set ELSE [set EXCEPT !["ssid"] = None, !["pass"] = None]

credsBegin == IF credCommitState = "complete" THEN LoadSet(field) ELSE Nothing

CredsInit ==
  /\ owner \in Owners
  /\ \E s \in owner.stores : field = s.field /\ flag = s.flag
  /\ good = field /\ torn = {} /\ last = "none"
  /\ imported = FALSE
  /\ staged = Unstaged /\ stBuf = FALSE /\ caBuf = FALSE
  /\ line = NoLine /\ lineOn = FALSE /\ caOn = FALSE /\ ca = NoCa
  /\ step = 0 /\ importing = FALSE
  /\ paste = <<>> /\ fails = 0 /\ commits = 0 /\ told = FALSE /\ stray = FALSE

----------------------------------------------------------------------------
(* The console.  A paste is a sequence of pieces, each the colon, the text   *)
(* or the end of a line: [kind, len, words, value, ok, end], where words    *)
(* and value are what a command line says, ok that the text may stand in a *)
(* PEM, end that it is -----END CERTIFICATE-----.                          *)

AsksCa(p) == p.kind = "text" /\ p.words = <<"cred", "ca">> /\ p.len \in 1 .. LineMax /\ ~p.end
EndsPem(p) == p.kind # "eol" /\ p.len \in 1 .. LineMax /\ p.end

(* What a terminal is at before each piece it sends: single keys, a line, or *)
(* the PEM that "cred ca" announced.                                        *)
Sends(pieces, doing) ==
  /\ doing[1] = "keys"
  /\ \A i \in 1 .. Len(pieces) :
       \/ /\ doing[i] = "keys" /\ pieces[i].kind # "text"
          /\ doing[i + 1] = IF pieces[i].kind = "colon" THEN "line" ELSE "keys"
       \/ /\ doing[i] = "line"
          /\ doing[i + 1] = IF pieces[i].kind # "eol" THEN "line"
                            ELSE IF AsksCa(pieces[i - 1]) THEN "pem" ELSE "keys"
       \/ /\ doing[i] = "pem"
          /\ doing[i + 1] = IF pieces[i].kind = "eol" /\ EndsPem(pieces[i - 1]) THEN "keys" ELSE "pem"

Stages == {"keys", "line", "pem"}

ASSUME CredsAssumption ==
  /\ Order \in Seq(STRING) /\ \A i, j \in DOMAIN Order : Order[i] = Order[j] => i = j
  /\ LineMax \in Nat /\ {"ssid", "pass", "token", "ca"} \subseteq Fields /\ Legacy \in [Fields -> Value]
  /\ \A o \in Owners :
       /\ \A s \in o.stores : s.field \in [Fields -> Value] /\ s.flag \in {-1, 0, 1}
       /\ \A p \in o.pastes :
            /\ p \in Seq(PieceOf({"colon", "text", "eol"}))
            /\ \E doing \in [1 .. Len(p) + 1 -> Stages] : Sends(p, doing)

Reading == step = 0 /\ paste # <<>>
Piece == Head(paste)

(* A character that starts no line goes to the single-key handler.          *)
ToKeys ==
  /\ Reading /\ ~lineOn /\ Piece.kind # "colon"
  /\ stray' = (stray \/ Piece.kind # "eol") /\ paste' = Tail(paste)
  /\ UNCHANGED <<owner, stored, ram, line, lineOn, pem, step, importing, limits, told, ghosts>>

credsConsoleFeed ==
  /\ Reading /\ IF lineOn THEN Piece.kind # "eol" ELSE Piece.kind = "colon"
  /\ lineOn' = TRUE /\ line' = IF lineOn THEN Piece ELSE NoLine
  /\ paste' = Tail(paste)
  /\ UNCHANGED <<owner, stored, ram, pem, step, importing, limits, keys, ghosts>>

(* credsConsoleTick: half a minute without a character drops the line.      *)
Idle ==
  /\ step = 0 /\ lineOn
  /\ lineOn' = FALSE /\ line' = NoLine
  /\ caOn' = FALSE /\ caBuf' = FALSE /\ ca' = NoCa /\ told' = TRUE
  /\ UNCHANGED <<owner, stored, ram, step, importing, paste, limits, stray, ghosts>>

AtEol == Reading /\ lineOn /\ Piece.kind = "eol"

(* endLine: line mode goes on while a PEM is collected.                      *)
EndLine(collecting) == paste' = Tail(paste) /\ line' = NoLine /\ lineOn' = collecting

Long == line.len > LineMax

EndLong ==
  /\ AtEol /\ Long
  /\ caOn' = FALSE /\ caBuf' = FALSE /\ ca' = NoCa
  /\ told' = (told \/ caOn) /\ EndLine(FALSE)
  /\ UNCHANGED <<owner, stored, ram, step, importing, limits, stray, ghosts>>

(* An allocation, or a write, that may fail.                                 *)
Try(ok) == (ok \/ fails < MaxFails) /\ fails' = IF ok THEN fails ELSE fails + 1

Stage(f, v) == [staged EXCEPT ![f] = v]

(* stage: what it leaves of the staged values when memory is ok or not.     *)
stage(f, v, ok) ==
  IF credValidate(f, v) /\ ok
  THEN staged' = Stage(f, v) /\ stBuf' = (stBuf \/ f = "ca")
  ELSE UNCHANGED ram

(* caLine: one line of the PEM; the last one stages it.                      *)
Collected ==
  LET over == ca.over \/ ca.len + line.len + 1 > MaxLen["ca"]
  IN  [over |-> over, len |-> IF over THEN ca.len ELSE ca.len + line.len + 1,
       text |-> IF ca.text = "pem" /\ line.ok THEN "pem" ELSE "junk"]

\* Mutant: every line of a PEM ends line mode.
StaysOn_Never == FALSE

StaysOn == ~line.end

EndPem ==
  /\ AtEol /\ ~Long /\ caOn /\ line.len > 0
  /\ IF line.end
     THEN /\ \E ok \in BOOLEAN : Try(ok) /\ IF Collected.over THEN UNCHANGED ram
                                            ELSE stage("ca", [len |-> Collected.len, text |-> Collected.text], ok)
          /\ caOn' = FALSE /\ caBuf' = FALSE /\ ca' = NoCa
     ELSE ca' = Collected /\ UNCHANGED <<caOn, caBuf, ram, fails>>
  /\ EndLine(StaysOn)
  /\ UNCHANGED <<owner, stored, step, importing, commits, keys, ghosts>>

EndEmpty ==
  /\ AtEol /\ ~Long /\ line.len = 0 /\ UNCHANGED pem /\ EndLine(caOn)
  /\ UNCHANGED <<owner, stored, ram, step, importing, limits, keys, ghosts>>

(* credParseLine: [cmd, field, value] of the words of a line.                *)
credParseLine ==
  LET w == line.words
      arg == IF Len(w) > 2 THEN w[3] ELSE "none"
      Cmd(c) == [cmd |-> c, field |-> arg, value |-> line.value]
      Bare == {"help", "show", "ca", "import", "commit", "abort"}
  IN  IF w = <<>> \/ w[1] # "cred" THEN [cmd |-> "none"]
      ELSE IF Len(w) = 1 THEN [cmd |-> "help"]
      ELSE IF Len(w) = 2 /\ w[2] \in Bare THEN Cmd(w[2])
      ELSE IF Len(w) = 3 /\ w[2] = "clear" /\ arg \in Fields \cup {"all"} THEN Cmd("clear")
      ELSE IF Len(w) = 3 /\ w[2] = "set" /\ arg \in Fields \ {"ca"} THEN Cmd("set")
      ELSE [cmd |-> "bad"]

(* runLine is for a line that is whole and no part of a PEM.                 *)
Runs(cmd) == AtEol /\ ~Long /\ ~caOn /\ line.len > 0 /\ credParseLine.cmd = cmd

NoEffect ==
  /\ \E cmd \in {"none", "bad", "help", "show"} : Runs(cmd)
  /\ EndLine(FALSE)
  /\ UNCHANGED <<owner, stored, ram, pem, step, importing, limits, keys, ghosts>>

SetField ==
  /\ Runs("set") /\ EndLine(FALSE) /\ stage(credParseLine.field, credParseLine.value, TRUE)
  /\ UNCHANGED <<owner, stored, pem, step, importing, limits, keys, ghosts>>

PasteCa ==
  /\ Runs("ca")
  /\ \E ok \in BOOLEAN : /\ Try(ok) /\ caOn' = ok /\ caBuf' = ok /\ ca' = NoCa
                         /\ told' = (told \/ ~ok) /\ EndLine(ok)
  /\ UNCHANGED <<owner, stored, ram, step, importing, commits, stray, ghosts>>

\* Mutant: the buffer of a cleared PEM is kept.
KeepsPem_Always(those) == stBuf

KeepsPem(those) == stBuf /\ "ca" \notin those

stageClear ==
  /\ Runs("clear") /\ EndLine(FALSE)
  /\ LET those == IF credParseLine.field = "all" THEN Fields ELSE {credParseLine.field}
     IN  /\ staged' = [f \in Fields |-> IF f \in those THEN Clear ELSE staged[f]]
         /\ stBuf' = KeepsPem(those)
  /\ UNCHANGED <<owner, stored, pem, step, importing, limits, keys, ghosts>>

dropStage == staged' = Unstaged /\ stBuf' = FALSE

Abort ==
  /\ Runs("abort") /\ EndLine(FALSE) /\ dropStage
  /\ UNCHANGED <<owner, stored, pem, step, importing, limits, keys, ghosts>>

----------------------------------------------------------------------------
(* The commit.  Its writes: "complete" to 0, the fields in order, the        *)
(* generation, "complete" to 1; for an import then "imported".              *)

Begins == 1
FieldAt(n) == Order[n - 1]
Gen == Len(Order) + 2
Ends == Len(Order) + 3
Marks == Len(Order) + 4

(* NVS entries a value takes: its data, and a header for it and its index.   *)
Taken(v) == IF v = None THEN 0 ELSE (v.len + Entry - 1) \div Entry + 2
FreeEntries ==
  Capacity - (IF flag = -1 THEN 0 ELSE 2) - (IF imported THEN 1 ELSE 0)
    - MapThenSumSet(LAMBDA f : Taken(field[f]), Fields)

IsSet(v) == v \notin {Keep, Clear}
Present(st) == {f \in Fields : IsSet(st[f]) \/ (st[f] = Keep /\ field[f] # None)}
\* Flag, generation and headroom, and the data entries of each blob plus its index and header.
Need(st) == 4 + MapThenSumSet(LAMBDA f : IF IsSet(st[f]) THEN st[f].len \div Entry + 3 ELSE 0, Fields)

Allowed(st) ==
  /\ st # Unstaged
  /\ credCheckSet(Present(st)) /\ FreeEntries >= Need(st) + Reserve

(* commit: refused, nothing is written and the values stay staged; else the  *)
(* first write is next.  It is refused while the recorder runs.             *)
Commit(st) ==
  \/ UNCHANGED <<step, commits>>
  \/ Allowed(st) /\ step' = Begins /\ commits < MaxCommits /\ commits' = commits + 1

CommitLine ==
  /\ Runs("commit") /\ EndLine(FALSE) /\ Commit(staged)
  /\ UNCHANGED <<owner, stored, ram, pem, importing, fails, keys, ghosts>>

(* doImport: an empty store, once; ssid and passphrase or neither.           *)
Real(f) == Legacy[f].text # "placeholder" /\ credValidate(f, Legacy[f])
WifiReal == Real("pass") /\ credValidate("ssid", Legacy["ssid"])
Imports == {f \in {"ssid", "pass", "token"} : Real(f) /\ (f # "token" => WifiReal)}

Import ==
  /\ Runs("import") /\ EndLine(FALSE)
  /\ IF staged # Unstaged \/ imported \/ field # Nothing
     THEN UNCHANGED <<staged, step, commits, importing>>
     ELSE /\ staged' = [f \in Fields |-> IF f \in Imports THEN Legacy[f] ELSE Keep]
          /\ Commit(staged') /\ importing' = (step' # 0)
  /\ UNCHANGED <<owner, stored, stBuf, pem, fails, keys, ghosts>>

Touched(n) == {Order[i] : i \in {j \in DOMAIN Order : j < n - 1 /\ staged[Order[j]] # Keep}}

(* A commit that stops before write n leaves these values behind it.         *)
Interrupted(n) ==
  /\ torn' = torn \cup Touched(n) /\ UNCHANGED good
  /\ last' = IF n > Begins THEN "cut" ELSE last

\* Mutant: the old flag stands until the last write.
Disowns_Never == flag

Disowns == 0

Write ==
  /\ step \in Begins .. Gen
  /\ step' = step + 1
  /\ \/ step = Begins /\ flag' = Disowns /\ UNCHANGED field
     \/ /\ step \in Begins + 1 .. Gen - 1
        /\ field' = [field EXCEPT ![FieldAt(step)] = CASE staged[FieldAt(step)] = Keep -> @
                                                     [] staged[FieldAt(step)] = Clear -> None
                                                     [] OTHER -> staged[FieldAt(step)]]
        /\ UNCHANGED flag
     \/ step = Gen /\ UNCHANGED <<field, flag>>
  /\ UNCHANGED <<owner, imported, ram, line, lineOn, pem, importing, paste, limits, keys, ghosts>>

Completes ==
  /\ step = Ends /\ flag' = 1 /\ dropStage
  /\ step' = IF importing THEN Marks ELSE 0
  /\ good' = [f \in Fields |-> IF staged[f] = Keep THEN good[f] ELSE field[f]]
  /\ torn' = torn \ Touched(Gen) /\ last' = "done"
  /\ UNCHANGED <<owner, field, imported, line, lineOn, pem, importing, paste, limits, keys>>

(* A field that stays, or is cleared and not there, is not written.         *)
NoWrite(f) == staged[f] = Keep \/ (staged[f] = Clear /\ field[f] = None)

WriteFails ==
  /\ step \in Begins .. Ends /\ Try(FALSE)
  /\ step \in Begins + 1 .. Gen - 1 => ~NoWrite(FieldAt(step))
  /\ step' = 0 /\ importing' = FALSE /\ dropStage /\ Interrupted(step)
  /\ UNCHANGED <<owner, stored, line, lineOn, pem, paste, commits, keys>>

MarksImport ==
  /\ step = Marks /\ \E ok \in BOOLEAN : Try(ok) /\ imported' = (imported \/ ok)
  /\ step' = 0 /\ importing' = FALSE
  /\ UNCHANGED <<owner, field, flag, ram, line, lineOn, pem, paste, commits, keys, ghosts>>

----------------------------------------------------------------------------
(* Around it: the owner and the power.                                       *)

Types ==
  /\ paste = <<>> /\ step = 0 /\ paste' \in owner.pastes
  /\ told' = FALSE /\ stray' = FALSE
  /\ UNCHANGED <<owner, stored, ram, line, lineOn, pem, step, importing, limits, ghosts>>

Reset ==
  /\ staged' = Unstaged /\ stBuf' = FALSE /\ caBuf' = FALSE
  /\ line' = NoLine /\ lineOn' = FALSE /\ caOn' = FALSE /\ ca' = NoCa
  /\ step' = 0 /\ importing' = FALSE
  /\ paste' = <<>> /\ told' = FALSE /\ stray' = FALSE
  /\ IF step \in Begins .. Ends THEN Interrupted(step) ELSE UNCHANGED ghosts
  /\ UNCHANGED <<owner, stored, limits>>

CredsNext ==
  \/ Types \/ ToKeys \/ credsConsoleFeed \/ Idle \/ Reset
  \/ EndLong \/ EndPem \/ EndEmpty \/ NoEffect \/ SetField \/ PasteCa \/ stageClear \/ Abort
  \/ CommitLine \/ Import \/ Write \/ Completes \/ WriteFails \/ MarksImport

CredsSpec == CredsInit /\ [][CredsNext]_credsVars

----------------------------------------------------------------------------
(* What a reset now would load.  While a commit writes, and after one that   *)
(* was cut short by a reset or a failed write, nothing; after one that      *)
(* completed, the set it left, except for what an earlier one that was cut  *)
(* short had written and nothing has rewritten since.                      *)
LoadsLast ==
  /\ step \in Begins + 1 .. Ends \/ (step = 0 /\ last = "cut") => credsBegin = Nothing
  /\ step = 0 /\ last = "done" /\ torn = {} => credsBegin = LoadSet(good)

(* Rest of a ':' line or of a PEM reaches the single-key handler, where a    *)
(* '3' in a password starts SELFTEST, only after the board said it dropped *)
(* the line or the PEM.                                                    *)
NoStrayKeys == stray => told

(* The heap buffer of a PEM is held while one is pasted, the other while     *)
(* one is staged.                                                          *)
BuffersInUse == (caBuf <=> caOn) /\ (stBuf <=> IsSet(staged["ca"]))

(* A set marked complete holds nothing of a commit that was cut short.       *)
CompleteIsWhole == flag = 1 => torn = {}
=============================================================================
