# HydraBridge, modelled in TLA+

HydraBridge (`src/cmd/hrbridge`, `src/internal/agent`) is an HTTP agent that
runs next to HR Neo on a Keenetic router. It reads and edits HR Neo's three
configuration files, backs them up and restores them, keeps GeoData files,
restarts HR Neo and reports on the router. This directory holds TLA+ modules of
its stateful core, TLC configurations that check them on small instances, and
TLAPS proofs for every value of their constants.

## 1. Inventory

`net/http` serves every request in a goroutine of its own. **No handler takes a
lock.** All state is in files, in the HR Neo process, in the router, and in one
Go string, `s.cfg.AuthToken`.

| Component | State | Operations | Talks to | Hard behaviour |
|---|---|---|---|---|
| Atomic file writes (`fs.go`) | target, `path.tmp.<ns>` | `atomicWriteFile` | every writer | short writes, kills, power loss, two writers of one path |
| Configuration handlers (`config_files.go`, `*_handlers.go`, `hrneo_metadata.go`, `revision.go`) | `hrneo.conf`, `domain.conf`, `ip.list` | raw and structured GET/PUT, generate-default, rule patches | fs, backup, audit, service | check-then-act on `If-Match`, read-modify-write, ETag from a second read |
| Backup (`backup.go`) | one directory per backup | create, list, restore | fs | three files one by one; partial backups and restores |
| Import/export (`import_export.go`) | the rule files | CSV and text preview and apply, CSV export | backup, fs | two files in one request |
| Targets (`targets.go`) | `PolicyOrder`; the router's policies | order, inventory, create/delete policy | hrneo.conf, RCI | running against saved router configuration, timeouts |
| Service (`service.go`) | HR Neo process, pid file | start, stop, restart, reload, status | init script | restart against concurrent writes; no timeout |
| Token (`auth.go`, `config.go`, `server.go`) | token in memory and in `hrbridge.conf` | load or create, authenticate, rotate | fs | data race, memory before file |
| GeoData (`geodata.go`, `hrneo_text_patch.go`) | `geofile/*.dat`, their lines in `hrneo.conf` | upload, download, list, tags, references, validate | fs, backup, network | two files in one request, lost answers and retries, stat and read of different versions |
| Audit, logs (`audit.go`, `logs.go`) | append-only JSON lines | write (best effort), tail | all handlers | entries that are lost or not true |
| Text editing (`patch_text.go`), formats (`*_config.go`), `validation.go` | none | parse, render, patch, merge | handlers | long sequences of edits; round trips |
| Diagnostics, views, `.dat` readers, reports | none | read | files, commands | precedence, varints, ring buffer |

What makes each correct, and where it is stated:

- a reader never sees a torn file, whatever fails — `NeverTornByPowerLoss`,
  `ImplementsRegister`; no error path forgets its temporary file —
  `NoOrphanTmp`; the end of a log is what a reader is given — `AnswerIsTail`;
- a write replaces the revision its client named — `CheckedWrite`; a narrow
  write changes only its entries, or besides only what parsing does not keep —
  `NarrowWrite`; an ETag names the content it comes with — `TagNamesContent`;
- an error answer means that nothing was written — `ErrorsWriteNothing`; the
  audit log is true — `AuditTellsTheTruth`; `applied` is true —
  `AppliedIsLoaded`;
- what is replaced is in the backup — `ReplacedIsSaved`; a restore brings it
  back — `RestoreBringsBack`;
- the token that is accepted is known to somebody — `LockedOutOnlyByFailure`;
  a replaced token stays dead — `ReplacedTokenStaysDead`, `OldTokenStaysDead`; a
  restart changes nothing — `FileTokenIsAccepted`;
- a policy that was saved stays — `SavedAnswerSurvives`; a silent router holds
  no request — `Answered`;
- a rule patch changes the rule it names and nothing else —
  `PatchesTouchOnlyTheRule`, `UnrelatedLinesStay`, `PatchesKeepRulesUnique`; it
  can be undone and repeated — `AddThenDelete`, `RetryChangesNothing`; writing a
  file from its parsed form keeps every rule, as a domain or as the tag it is
  spelled like — `RewritesKeepRules`, `ExportKeepsView`;
- a write of `hrneo.conf` changes the settings it names —
  `PutChangesOnlyWhatItNames`, `OrderIsNarrow` — and reaches a form
  that further rewrites keep — `RewritesSettle`;
- a listed GeoData file exists and is listed once — `ListedIsStored`,
  `ListedOnce`; an answer is about the stored data — `ReportIsCurrent`; the edit
  of `hrneo.conf` is one line, saved before — `AddsItsLine`;
- a `.dat` file is read as it was meant or refused, by two readers that agree —
  `DecodeIsExact`, `ReadersAgree`, `VarintIsExact`;
- a diagnosis names the first target in order and changes only with the rules
  concerned — `AddressGoesToFirst`, `AnswersMoveWithTheirRules`; validation and
  inventory agree with it — `WarningsAreConflicts`, `TargetsAgree`.

`PROJECT.json` has the same list from the other side: every hazard, at its line,
with the properties that would catch it.

## 2. Modules

| Module | What it is |
|---|---|
| `AtomicRegister` | what callers of `atomicWriteFile` rely on: a register |
| `AtomicFile` | `atomicWriteFile`, one action per system call; implements `AtomicRegister` |
| `AuditLog` | `writeAudit`, `readAudit` and `tailFile`: lines appended while the end of the file is read |
| `MCFiles` | the run of both |
| `ConfigWrites`, `MCConfigWrites` | the handlers that read and write the three configuration files, one action per file operation |
| `TokenRotation`, `MCTokenRotation` | the bearer token |
| `PolicyRCI`, `MCPolicyRCI` | policy requests, the commands they send, the router's running and saved configuration |
| `GeoDataStore`, `MCGeoDataStore` | GeoData files and their lines in `hrneo.conf` |
| `RuleFormats` | lines of `domain.conf` and `ip.list`, their parse and render, the grouped view, CSV: operators only |
| `RuleText`, `MCRuleText` | the rule patches and the requests that rewrite a rule file from its parsed form |
| `HRNeoSettings`, `MCHRNeoSettings` | `hrneo.conf`: parse, merge, render, validation, edits in place, compatibility report |
| `GeoDat` | the two readers of `.dat` files, byte by byte |
| `Diagnosis`, `MCDiagnosis` | diagnoses, warnings, inventory over the parsed rules; extends `GeoDat` |
| `FilesProofs` | the theorems of `AtomicFile`, `AuditLog` and `TokenRotation` |
| `DiagnosisProofs` | the theorems of `GeoDat` and `Diagnosis` |
| `ConfigWritesProofs`, `GeoDataStoreProofs`, `PolicyRCIProofs`, `HRNeoSettingsProofs`, `RuleTextProofs` | the theorems of the module each is named for |
| `ListFacts` | lemmas about sequences that are flattened, mapped or put together, about numbers and finite sets, and induction as statements about sets |

`AtomicFile` justifies the grain of the others: it shows that a call of
`atomicWriteFile` takes effect in one step or not at all, so `ConfigWrites`,
`TokenRotation` and `GeoDataStore` take a write as one action that may fail.
`ConfigWrites` has the interleavings of handlers over opaque contents;
`RuleText` and `HRNeoSettings` have what one request does to a text.

### AtomicFile

A payload has `Blocks` blocks; of a file, `len` blocks are visible and `dur`
survive a power loss. `Write` may stop anywhere (then `writeErr` is set), `Sync`
makes the visible part durable or fails, `Close` looks at the three errors and
goes to the rename or to the removal, as `fs.go` does. The directory is never
synced: `disk`, what the path names on the disk, follows `target` at any later
moment (`Flush`). `PowerLoss` falls back to it, keeps any length between `dur`
and `len`, and any subset of the temporary files. `Kill` ends every call. Two
calls in flight have different temporary names: the names carry a nanosecond
clock. The refinement mapping shows `Shown(target)` as the register's value,
`Shown(disk)` as its persistent value and `data` as the pending calls.

### AuditLog

A line is the entries that stand on it. `WriteAudit` is one write with
`O_APPEND`, which the kernel places whole at the end; a full disk leaves part of
the line, or all but its newline, and the next entry continues that line. The
reader is `OpenLog`, one `Scan` per line, `ScanTooLong` (a line over 1 MB makes
the request fail) and `AtEnd`; a line without a newline is returned as the last
one, as `bufio.Scanner` does. `Effective` is the limit the two handlers make of
a query. The service's own log is read as lines, the audit log as entries
(`IsEvent`: what is no JSON is left out).

### ConfigWrites

A file's content is the set of entries in it, or `Missing`; its revision is a
function of the content (SHA-256 is taken as injective). Some entries are
`Loose`: notes, all but the last line of a repeated unknown key, values that do
not parse. `Typed` is a content after it is parsed and rendered again, which
differs in loose entries only. A rule patch and a target order edit the text they
have read, a structured PUT of `hrneo.conf` and a text import edit what parsing
made of it, and that PUT starts from `Defaults` when there is no file
(`EditedFrom`, `hrneo_handlers.go:51`). A request has a kind
and a flow: the order in which the handler of that kind takes its steps, read
off the handler (`PutFlow`, `PatchFlow`, ...). `PutFlow` stands for
`handlePutConfig`, the structured PUTs of the rule files and generate-default,
which have the same steps. Each step is one action (`Check`, `Read`, `Copy`,
`Write`, `Etag`, `Apply`, ...) with its failure beside it (`Refuse`,
`BackupFails`, `WriteFails`, `ApplyFails`). A backup copies the files in any
order (Go map), and its copies stay when it fails. `ver` counts the replacements
of a file and `loaded` remembers which version the running HR Neo has read.
`Kill` ends all requests in flight. `Serial` selects between requests served
one at a time and requests interleaved at every step.

### TokenRotation

`mem`, the token in memory, is two words, `ptr` and `len`: the assignment at
`auth.go:19` races with its readers, and Go stores a string as two words in an
order the compiler chooses. `Enter` is the check of `auth`, `Copy` the value
argument of `writeConfig`, `WriteToken` the rename and the answer. `Load` and
`Create` are the two outcomes of `LoadOrCreateConfig`, `KillServer` the end of
the process at any step. `raced` is a history variable: two rotations have been in
flight at once. Generated tokens have one length; a hand-written one may
have another. Before they rotate, clients know only tokens of earlier answers
and of the file.

### PolicyRCI

A handler sends a command and, if it was asked to save and the answer is 200, a
second command that saves (`Receive`). It gives up after ten seconds, five for
the listing, or when its client goes (`GiveUp`): it answers 500, and what it has
sent may still arrive. `wire` holds commands on their way, in no order, which may
be lost. On the router's side, `Run` changes the running configuration, `Save`
copies it to the saved one, `Reject` is another status, `Reboot` falls back to
the saved one and ends HydraBridge with it. `at` and `savedAt` number the
executed commands, so that a property can say that a later command has changed a
policy back. That the router answers 200 only to a command it has executed is an
assumption: the code looks at the status alone.

### GeoDataStore

A data file is the number of times it has been replaced. `hrneo.conf` is the
sequence of its lines; those that are not about GeoData are one line `other`.
An upload is `Decode`, `Store`, `Read`, `Backup`, `Write`, `Stat`, `Sum`; a
download has `Fetch` and `Verify` before `Store`; the listing is `ReadListing`
and one `Stat`, `Sum` per file. `Fails` is any I/O error of these. `Replace` is
another handler's write of `hrneo.conf`, which lists no data file
(`PlainAssumption`), or the restore of a backup that an upload made. `alone[r]` is a history variable:
nobody else has taken a step since request r began. It lets one run state what
holds always and what holds undisturbed.

### RuleFormats and RuleText

A line is a record of its kind: blank, note (`# ...`, or in `domain.conf` a line
without a slash), comment (`##...`), disabled target (`#/t`), a line of rules
(`domain.conf`), header and entry (`ip.list`). `Parse` is both parsers, `Render`
both renderers, `View` the grouped views, `Export` and `Import` the CSV
conversions. Spelling is kept where the code looks at it (`Lower`): the domain
parser lowers domains and keeps tags, the CIDR parser keeps everything, and
patches compare without case. The prefix `geosite:` is told with its case
(`domain_config.go:85`), so `GEOSITE:x` is a domain (`Disguised`) that is written
`geosite:x` and read as a tag from then on; in `ip.list` no such value is valid
(`Sound`), patches and structured PUTs with one are refused, and only people put
it there. A `Text` is the lines and whether the last one is
terminated; `Join` says what is read back after a write, where a newline can be
lost. White space inside a line, an empty comment, a target without a name and
lines over 1 MB are left out.

The loops of `patch_text.go` edit the slice they walk over. `Added` and
`Deleted` state their result on the whole text: lines taken out never change
the group of a line the loop still has to visit, because a group is only the
comments right above it and these go with their block.

`RuleText` serves requests one at a time (the read-modify-write window is in
`ConfigWrites`): `AddRule`, `AddRefused` (409), `DeleteRule`, `PatchInvalid` (400); `PutBack`, the
structured PUT of what the structured GET returned; `ExportImport`; `ImportText`.

### HRNeoSettings

A line is a key and a value; comments, blank lines and lines without `=` are one
`Note`. The 27 known keys differ only in their kind, so seven stand for them, one
or more of each kind. `Parse` takes `SetLine` line by line, `Rendered` and
`Preserved` write the result, `Merge` is the patch of a structured PUT, `Valid`
its validation; `Replaced` and `Linked` are the two edits in place. Trimming, line
breaks and separators inside values are constants that say which words have them,
and `Pieces` what a word with a line break is once it is in a file: a value and
further lines. `Missing`, `Unknown` and `Compatible` are the report's three
findings about the file. Requests come one at a time.

The module follows the code where documents say less: of a repeated key that
HydraBridge does not know only the last line stays (`api/openapi.yaml:265`:
"unknown existing keys are preserved"); a line `=x`, a key without a name, is
reported as preserved and dropped by the next structured PUT; `GeoIPFile=` is
read as one empty path, which a GET returns and a PUT of the same body refuses; a
number that does not parse is read as 0 and written so; comments are lost by a
structured PUT and kept by a target order.

### GeoDat and Diagnosis

`GeoDat` scales the widths: a byte has four bits, of which a varint uses three,
and a number eight, so that the longest varint has three bytes and its last bit
does not fit, as the tenth byte of a 64-bit varint does not. Addresses have four
or eight bits. `ScanTags` is the index, which streams, `PrefixesContaining` the
search, which slices; each has its own varint reader, as in the code. A loop that
takes one entry or one field off the front until nothing is left is `Parts`, over
`Frame` or `Field`: what it returns is refused when one part is. Both readers get
their entries from `Frames`; that the index reads the tag of an entry from what
the stream still holds, and the search from a slice, is in `EntryTag` and
`EntryCode`. An entry longer than `MaxBody` is refused by both. Whoever makes the
file is external: `AddEntry`, then `Cut`, `Damage`, or bytes of no protobuf at all
(`AddByte`). What such a maker writes is an entry that a number can hold the length
of, with fields beyond the known ones that parse and are no prefixes
(`EntriesAssumption`); everything else a file may hold is `AddByte` and `Damage`. Field numbers from 16 need a second tag byte, which
both readers of the code take for a wire type of the first; neither reader knows
such fields, and the model has one-byte tags only.

`Diagnosis` reads the parsed groups of both rule files, `PolicyOrder` and the
bytes of a `.dat` file. `DomainCandidates`, `CIDRCandidates` and
`GeoIPCandidates` collect (a set: candidates equal in what the sort looks at are
one rule of one target), `Winner` is the first (place in the order first, then
the more specific), `DiagnoseIP` puts the runtime evidence of the kernel's ipsets
before it. A domain is the sequence of its labels from the right. Validation is
`DomainIssues` and `CIDRIssues`, the inventory `Inventory`. The entries of
`ip.list` are prefixes (`BlocksAssumption`): `validateIPOrPrefix` refuses any other
when HydraBridge writes the file, and of a file edited by hand validation reports
such an entry as an error and gives it no warnings. A target of `domain.conf` that
is switched off has no rules (`SwitchedOff`: its line has none); a block of
`ip.list` keeps them. The inventory counts the rules of all groups and the overview
those of enabled ones (`targets.go:198`, `overview.go:66`), so `TargetsAgree` says
that they agree about `domain.conf` and differ for `ip.list` by the rules of its
disabled blocks. Without `domain.conf`
a domain diagnosis is refused (400), without `ip.list` that of an address. In
`Spec` the file and the rules change in any order; the run's `McSpec` keeps one at
rest while the other changes.

## 3. Runs

| Run | Checks | Instance and why it is enough |
|---|---|---|
| `files` | `NeverTornByPowerLoss`, `NoOrphanTmp`, `ImplementsRegister`; `AnswerIsTail` | two writers, two payloads, two blocks: part of a payload and parts of two can occur; four log entries, one too long, limits of one to three: the ring goes round and a line is cut short in any place |
| `serial_writes` | `CheckedWrite`, `TagNamesContent`, `NarrowWrite`, `ReplacedIsSaved`, `RestoreBringsBack` | two requests of nine kinds; three entries: one to edit, one of the default configuration, and a note that parsing loses; two contents to put; `If-Match` absent, current or stale; files missing or not, so a backup, complete or cut short, and its restore |
| `concurrent_writes` | `ErrorsWriteNothing`, `AuditTellsTheTruth`, `AppliedIsLoaded` | two handlers of five kinds at every interleaving, with restarts of HR Neo and kills |
| `lost_update` | **violated** `CheckedWrite` | two concurrent PUTs, both with the ETag of the first content |
| `rotate` | `LockedOutOnlyByFailure`, `ReplacedTokenStaysDead`, `FileTokenIsAccepted` | three rotations, in sequence and interleaved, four generated tokens and a hand-written one of another length |
| `revived_token` | **violated** `OldTokenStaysDead` | two concurrent rotations and a restart |
| `policies` | `SavedAnswerSurvives`, `Answered` | a creation, a listing and a third request of any kind on one policy, with losses, refusals, late commands, kills and reboots |
| `geodata` | `ListedIsStored`, `ListedOnce`, `ReportIsCurrent`, `AddsItsLine` | two requests of three kinds, two files, two kinds of GeoData, `hrneo.conf` missing, plain or default |
| `geodata_listing` | **violated** `ListingAnswers` | one upload, one listing |
| `rule_text` | seven properties of the rule files | every `domain.conf` of up to three lines, of ten kinds, and every `ip.list` of up to four, of nine kinds (up to three with a value in capitals that is like a tag), terminated or not; every patch of a rule in two spellings, a tag and a value like it, two targets, two comments or none |
| `settings` | `RewritesSettle`, `PutChangesOnlyWhatItNames`, `OrderIsNarrow` | every `hrneo.conf` of up to three lines of every kind of key, unknown keys, notes and values that do not parse; every PUT that names two settings or fewer |
| `diagnosis` | `DecodeIsExact`, `ReadersAgree`, `VarintIsExact`; `AddressGoesToFirst`, `WarningsAreConflicts`, `TargetsAgree`, `AnswersMoveWithTheirRules` | files of up to two entries of six kinds, one of them too large, each cut at every byte and damaged at every byte, and all files of up to four other bytes; every rule set of up to three groups of three targets, two orders, one `.dat` file |

The bounds are the number of requests (each ends, so nothing else grows: the
version counters are bounded by it) and the sizes of the constant sets. Two
requests are the smallest instance with an interleaving, a retry, or a backup and
its restore; the rotations have three, so that a late writer can follow two
others, and the policies three, so that a change can be saved by a later request
and changed back by another. `rule_text` and `settings` need one request only:
their properties are about one step, or about a step and its inverse or
repetition, and the first text is any text, which is also what people who edit
the files leave. Four lines hold two blocks of one target, or a block with its
comment and one neighbour; three lines of `hrneo.conf` hold a repeated key with
another between. The exceptions that the properties of `rule_text` name are the
states in which they fail: a comment or an empty block that the rule joins, notes
between a comment and its group, blank lines before an unterminated last line.
In `diagnosis` the bytes of a file change while there are no rules and the rules
change over one file, which is what the readers and the diagnoses share.
Symmetry is used only in runs without liveness.

What the violated runs show:

- `lost_update`: both PUTs carry the valid ETag of the file and pass `If-Match`
  before either writes (`config_files.go:64` and `:75`). `docs/en/API.md:22` promises that
  `If-Match` avoids overwriting another client's update. The same window makes a
  concurrent rule patch lose a rule, makes a backup differ from what was
  replaced, and lets an ETag name another content than the body.
- `revived_token`: memory and file are written by two rotations in opposite
  orders; after a restart the server accepts a token that a successful rotation
  has replaced, against `SECURITY.md:24`.
- `geodata_listing`: `writeRepeatString` renders an empty list as `GeoIPFile=`,
  the parser reads that line back as one file with an empty path, and
  `GET /geodata/files` answers 500 until the line is removed by hand.

More things the code does that a reader of the models should know, without a run
of their own: `validatePathValue` and `validateTargetName` trim a value before they
look for a line break (`validation.go:297`, `:308`), and `renderHRNeoConfig` writes
it untrimmed, so a `GeoIPFile` entry that begins with a line break is accepted and
starts a line of its own, which may set a key the body omits although
`api/openapi.yaml:266` says that omitted fields keep their values
(`PutChangesOnlyWhatItNames` excepts such bodies, `BrokenBody`, and TLC finds the
changed setting without the exception); `auth.go:19` changes memory before the write that may fail, so
after a failed write no token that anybody has is accepted until a restart (the
`failed` of `LockedOutOnlyByFailure`); a domain `GEOSITE:x` becomes a tag when its
file is rewritten, as `RewritesKeepRules` and `ExportKeepsView` say; rules of a
disabled block of `ip.list` become active when a CSV export is imported again and
another block of the target is enabled, which the grouped view does not show; and
a diagnosis of an address that names a
target from the runtime evidence keeps the prefix that the configuration found.

**Fairness.** Only `Answered` needs it: weak fairness of `Handle(r)`, receiving an
answer or giving up. The context's timer is enough, and nothing makes the router
take a command or answer. Nothing forces a client to send a request or a process
to die. `ConfigWrites` states no liveness: its flows are straight lines, and the
one step that may last for ever, the init script that `runCommand`
(`service.go:71`) runs without a timeout, does so in the code.

## 4. Proofs

Every theorem is for all values of the constants, under the named assumptions of
the modules (markers differ from data, subsets are subsets).

- **FilesProofs, AtomicFile.** The invariant adds to the type invariant that a
  temporary file in flight carries its call's payload and is as long and as
  durable as its step and its `failed` flag say, that two calls in flight have
  different names, and that `target` and `disk` are whole and durable. It gives
  `NeverTorn`, `NeverTornByPowerLoss`, `NoOrphanTmp`; with it every step of
  `AtomicFile` is a step of `AtomicRegister` or a stutter (`WriteFileIsAtomic`).
- **ConfigWritesProofs.** `ErrorsWriteNothing`, `AuditTellsTheTruth` and
  `AppliedIsLoaded` speak of answered requests; the invariant says for every step
  of every flow what has been written by then (`NotWrittenYet`, `StillToWrite`,
  `WrittenByNow`), ties answers and audit entries to it (`HonestAnswer`,
  `HonestAudit`), and bounds versions (`VersionsInOrder`). It holds for any
  number of concurrent requests. The theorems about what the code promises only
  while requests do not overlap assume `Serial`. `SerialWritesAreChecked` adds to
  the invariant that at most one request is in flight and that a content it has
  read or checked is still current (`SerialIInv`); `SerialTagsAreTrue`,
  `SerialWritesAreNarrow`, `SerialWritesAreSaved` and `SerialRestoresBringBack`
  add what the request holds at each step of its flow (`AloneIInv`): its tag, the
  text it edits, the copies of its backup, and how far a restore has come. Of
  parsing they assume only that it changes loose entries alone.
- **FilesProofs, TokenRotation.** `LockedOutByFailureAlone` holds for any number of
  concurrent rotations: while a rotation is between its two stores nothing is
  quiet, and what remains when all have ended was stored and handed out.
  `OldTokensStayDead` and `FileTokensAreAccepted` hold until two rotations
  overlap (`raced`): the invariant follows the single rotation and says that the
  file, the copy and the token in memory are fresh, never retired.
- **FilesProofs, AuditLog.** The invariant says that the last lines read are in the ring
  at their number modulo the limit, and that they are closed, so later writes do
  not change them. `RingPlaces` is the arithmetic: two numbers less than the limit
  apart have different places. `AnswersAreTails` follows for any limit, log and
  writes.
- **GeoDataStoreProofs.** Every copy of `hrneo.conf`, in a request, a backup or
  the file, lists stored files once (`Listing`): a copy may become the file again.
  `Upload` says of each step of a request what it has written and, while it is
  alone, what it has read. The listing of `GET /geodata/files` (`SelectSeq`) is
  left out of the types: no invariant is about it. The assumptions are the
  module's two.
- **PolicyRCIProofs.** The invariant follows a change: once executed, the running
  configuration shows it or a later command has changed it back (`Shown`); once
  saved after, the saved one too (`ShownSaved`), so a reboot takes nothing away
  that it does not bring back. An answer with `saved=true` comes after both
  (`OnItsWay`). The router, the network and the number of requests are arbitrary.

- **HRNeoSettingsProofs.** The invariant is the type alone (`TypeCorrect`: whatever
  a request brings, the file is text made of lines): the properties are about what
  one step does to any text, so the work is in lemmas about the operators.
  `ParseIs` says what the parser's loop computes: of each key the values of its
  lines, in order. `RenderedSays` and `PreservedSays` say which values the written
  lines give each key, `WrittenReads` that they read as they were meant, and
  `ReadSettled` that what was read is written as it reads. `PutIsExact`,
  `RewritesAreSettled` and `OrderStaysNarrow` follow for any keys, words, files and
  bodies. The assumptions say what trimming does (twice is once, no line break
  comes from it), that one key has the kind of `PolicyOrder`, that markers differ,
  and that the default configuration has nothing to trim and empty lists.
- **DiagnosisProofs.** The invariant has four parts: the types (`TypeCorrect`),
  that the bytes of a file are those of its entries or, after a cut, the first of
  them (`FileAsWritten`, the theorem `FilesHoldWhatWasWritten`), that the blocks
  of `ip.list` hold prefixes (`BlocksAreValid`), and that disabled targets of
  `domain.conf` have no rules (`OffIsEmpty`). The assumptions are the types,
  that a name is in `Names` once, `EntriesAssumption` and `BlocksAssumption`.
  - `VarintsAreRead`, `IndexAndSearchAgree` are about any bytes. The first is
    arithmetic: the bytes of a number, one case for each length, and at most one
    place where a number may end (`NumberIs`, `ReadersOfVarints`). The second needs
    what `Parts` returns (`FramesFacts`, by induction on the bytes left) and
    `SameTag`: the two readers take an entry's code by different routes, the search
    refuses less than the index, and they find the same code.
  - `FilesAreReadAsMeant` is about the bytes that entries were encoded to. By
    induction over the entries, `Frames` of a file has one part for each
    (`OneMore`, `WrittenEntries`). A cut lies between two entries or within one
    (`CutPlace`), and part of an entry is either refused or marked as cut short
    (`PartOfEntry`, `Broken`). Within an entry, fields put one after the other read
    back one after the other (`FieldsConcat`, `KnownFields`, `RangesFields`), so the
    index has its tag (`IndexIsExact`) and the search its prefixes, each once
    (`SearchIsExact`).
  - `AddressesGoToTheFirst`: candidates from `ip.list` and, by `SearchIsExact`, from
    the `.dat` file are exactly the rules that hold the address; when there is one,
    one of them wins (`SomeoneWins`), and a winner is before all others
    (`WinnerIsFirst`).
  - `ConflictsAreWarnedOf`: two prefixes overlap, as validation computes it from
    their ends, exactly when some address is in both, since blocks of powers of two
    are nested or apart (`Powers`, `RoundedDown`, `Nested`, `OverlapMeansShared`).
    `ConflictOfKey` and `EntryConflicts` carry this from pairs of entries to the
    warnings about a whole file.
  - `PagesAgree`: the inventory has each target once, in the order of the names,
    with the counts of its groups (`InventoryFacts`, `OnceFacts`, `CountByTarget`),
    so it agrees with what a diagnosis can answer. Its counts of all targets together
    are those of all groups (`CountByNames`), which are those of the enabled and of
    the disabled ones (`CountByState`); in `domain.conf` the latter have no rules
    (`OffIsEmpty`, a part of the invariant).
  - `AnswersStay` rests on the order: dropping or adding targets keeps the order of
    those that remain (`OrderStays`), a winner is before all others and two winners
    of the same candidates are the same rule (`WinnerFacts`, `SpecificRules`), so of
    two different winners that both match before and after a change each would be
    before the other.
- **RuleTextProofs.** The invariant is the type: whatever the requests, the file is
  text made of its lines (`TypeCorrect`). `RulesStayUnique` is about one patch of any
  such text. Two rules of the parsed file are two places of the text
  (`RulesSlots`), so a duplicate is a clash of two places
  (`DuplicatesAreClashes`, `DomainClash`, `CidrClash`), and the proof maps the
  places of the new text to those of the old one. A patch that leaves lines or
  rules out keeps the owner of every place (`WithoutFacts`, `CidrWithout`,
  `CidrLeft`, `EntriesApart`, `EmptyBlocksApart`); one that adds a rule adds one place
  (`DomainOneMore`, `CidrOneMore`), and what `Duplicate` looked at says that no
  other place of the target has the rule (`DomainLacks`, `CidrLacks`); joining
  the lines adds no rule (`JoinNoClash`). `RetriesChangeNothing` rests on what the
  first patch leaves in the groups it was about: after an add its rule is there and
  in no other group of the target (`AddedSettled`), after a delete it is not
  (`DomainQuiet`, `CidrQuiet`), which is when an add, or a delete, changes nothing.
  A group is told by the comments above a line, so the proof shows that lines which
  go take all of their comments with them (`WholeTied`), that then every other line
  keeps its own (`RunsStay`, `GroupsStay`), and that joining what was joined changes
  at most a file of one newline (`JoinTwice`). `UnrelatedLinesAreKept` is about the
  places that are of no block of the target (`OthersAre`). A patch either puts its
  lines after all others (`AppendedStays`) or changes and leaves out places of the
  target only; then the other places stay in their order with the same lines
  (`OthersSame`), provided that a block which goes has no lines left and takes its
  comments along, so that nothing falls to a neighbour (`BlocksStay`, `OthersLeft`).
  An inserted entry is the same case seen from the new text (`InsertWithout`), and
  joining cuts blank lines at the end only (`OthersCut`, `OthersJoined`). The
  assumptions are the types, that first texts consist of lines `splitConfigLines`
  can yield, and that `Lower` keeps what it has lowered and lowers a tag to a tag.
- **ListFacts.** The induction theorems of the library take an operator. Stated of
  a set (`NatSetInduction`, `SeqSetInduction`: a set of sequences that has the
  empty one, and with each sequence the longer ones, has all), they can be used
  with the set of those for which the claim holds. This is how the facts about
  `FlattenSeq`, and `ParseIs`, are proved.

Only model-checked:

- `Answered` of `PolicyRCI`: liveness under fairness;
- the other four properties of `RuleText`: they compare parsed texts before and
  after, or what two conversions give one after the other, and each needs an
  argument of its own about all lines of a text.

The type invariant of `GeoDataStore` documents its module; those of `RuleText` and
of `Diagnosis`, with that of `GeoDat`, are theorems and part of no run.

## 5. What is not modelled

- start, stop and reload of HR Neo: they run the init script or send one signal,
  and leave no state of the agent; the pid file belongs to the init script.
- Keys of `hrbridge.conf` other than the token, TLS, CORS, sizes of bodies, path,
  URL and public-address checks beyond the fact that a request may be refused.
- GeoData references, tags and validate: they only read, and join `GeoDat`'s index
  to the parsed rules.
- The spelling of single domains, tags and prefixes in validation; malformed rows
  of a CSV import, which is refused as a whole.
- Loss of an answer: a client whose connection ends sees no code; the state is
  the one after the answer, and its retry is another request of the same kind.
- The clock: two temporary files or two backups made in the same nanosecond have
  different names here.
- The rest of the read-only reports (`overview`, `doctor`, `compatibility`,
  `runtime`, status): they put the output of commands and the presence of files
  into an answer.
- Generated types, packaging and scripts.

## 6. What could come next

1. The other properties of `RuleText` as theorems: the proofs have the
   places of rules, comments and other lines before and after a patch; what remains
   is the order and spelling of parsed rules.
2. A serial abstract store that `ConfigWrites` implements when `Serial`.
3. The disagreement of patch and parser about notes as a run of its own, against
   `api/openapi.yaml`'s description of a rule's group.
