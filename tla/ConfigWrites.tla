----------------------------- MODULE ConfigWrites -----------------------------
(***************************************************************************)
(* The HTTP handlers that read and write HR Neo's three configuration      *)
(* files.  net/http serves every request in a goroutine of its own and the *)
(* handlers hold no lock, so between any two file operations of one        *)
(* request another request may run.  A file operation is one step here:    *)
(* AtomicFile shows that atomicWriteFile is one, and os.ReadFile reads one *)
(* open file.                                                              *)
(*                                                                         *)
(* A file's content is the set of entries (rules, settings) in it; its     *)
(* revision is the SHA-256 of its bytes.  A handler is a sequence of       *)
(* steps, its flow; pc[r] is the step request r is about to take.          *)
(***************************************************************************)
EXTENDS Naturals

CONSTANTS
  Requests,      \* the requests that reach the server
  Marks,         \* entries a file can hold
  Loose,         \* entries that only a text has: notes, repeated keys, broken values
  Typed,         \* Typed[c]: content c after it is parsed and rendered again
  Defaults,      \* hrneo.conf as defaultHRNeoConfig has it
  Missing,       \* content of a file that does not exist
  NoTag,         \* no ETag / no If-Match header
  None,          \* a backup directory without a copy of the file
  Kinds,         \* which handlers the requests are for
  InitContents,  \* what the files may hold before the first request
  Puts,          \* the contents that PUT requests bring
  Wants,         \* the If-Match headers requests carry
  Applies,       \* the values of the apply flag requests carry
  Serial         \* TRUE: a request starts only when no other is in flight

Files == {"hrneo.conf", "domain.conf", "ip.list"}
AllKinds == {"get", "put", "patch", "merge", "order", "csv", "text",
             "restore", "backup", "restart"}

Contents == SUBSET Marks

(* fileRevision: none for a file that cannot be read. *)
Revision(c) == IF c = Missing THEN NoTag ELSE <<"sha256", c>>
Tags == {<<"sha256", c>> : c \in Contents} \cup {NoTag}

Changed(old, new) == (old \ new) \cup (new \ old)

ASSUME ConstantsAssumption ==
  /\ Typed \in [Contents -> Contents]
  /\ \A c \in Contents : Changed(c, Typed[c]) \subseteq Loose
  /\ Defaults \in Contents
  /\ \A c \in Contents : Missing # c /\ None # c
  /\ \A c \in Contents : NoTag # <<"sha256", c>>
  /\ Kinds \subseteq AllKinds
  /\ InitContents \subseteq [Files -> {Missing} \cup Contents]
  /\ Puts \subseteq Contents
  /\ Wants \subseteq Tags
  /\ Applies \subseteq BOOLEAN
  /\ Serial \in BOOLEAN

-----------------------------------------------------------------------------
(* Requests.                                                                *)

(* The file a request names. *)
FilesOf(k) ==
  CASE k \in {"merge", "order"} -> {"hrneo.conf"}
    [] k \in {"patch", "text"}  -> {"domain.conf", "ip.list"}
    [] k \in {"get", "put"}     -> Files
    [] OTHER                    -> {"none"}

(* What the request does to the content: replace it, add or delete entries, *)
(* which are rules and settings, nothing loose.                             *)
OpsOf(k) ==
  CASE k \in {"patch", "merge", "order"} -> {"add", "delete"}
    [] k = "text"                        -> {"add"}
    [] OTHER                             -> {"set"}

Bodies(k) ==
  CASE k \in {"patch", "order", "text"} -> {{m} : m \in Marks \ Loose}
    [] k \in {"merge", "csv"}           -> SUBSET (Marks \ Loose)
    [] k = "put"                        -> Puts
    [] OTHER                            -> {{}}

ArgsOf(k) ==
  [kind  : {k},
   file  : FilesOf(k),
   op    : OpsOf(k),
   body  : Bodies(k),
   want  : IF k \in {"put", "patch", "merge"} THEN Wants ELSE {NoTag},
   apply : IF k \in {"get", "backup"} THEN {FALSE} ELSE IF k = "restart" THEN {TRUE} ELSE Applies,
   from  : IF k = "restore" THEN Requests ELSE {None}]

Args == UNION {ArgsOf(k) : k \in Kinds}

VARIABLES
  content,   \* content[f]: what a reader of file f gets
  ver,       \* ver[f]: how often f has been replaced
  loaded,    \* loaded[f]: the version of f the running HR Neo read
  backups,   \* requests whose backup directory exists
  copies,    \* copies[r][f]: the copy of f in the backup request r makes
  audit,     \* audit[r]: the entry request r left in the audit log
  arg,       \* arg[r]: what request r asks for
  pc,        \* pc[r]: the next step of request r
  base,      \* base[r]: the content request r read
  todo,      \* todo[r]: files request r has yet to copy or to write
  wrote,     \* wrote[r][f]: the version of f request r installed, 0 if none
  tag,       \* tag[r]: the ETag of r's response
  code       \* code[r]: the status of r's response, 0 before it

vars == <<content, ver, loaded, backups, copies, audit, arg, pc, base, todo, wrote, tag, code>>

Steps == {"new", "decode", "check", "read", "backup", "copy", "write", "restore", "etag",
          "apply", "audit", "done", "dead"}
Codes == {0, 200, 202, 400, 409, 412, 500}

TypeOK ==
  /\ content \in [Files -> {Missing} \cup Contents]
  /\ ver \in [Files -> Nat]
  /\ loaded \in [Files -> Nat]
  /\ backups \subseteq Requests
  /\ copies \in [Requests -> [Files -> {None} \cup Contents]]
  /\ audit \in [Requests -> {"none", "ok", "failed"}]
  /\ arg \in [Requests -> Args]
  /\ pc \in [Requests -> Steps]
  /\ base \in [Requests -> {Missing} \cup Contents]
  /\ todo \in [Requests -> SUBSET Files]
  /\ wrote \in [Requests -> [Files -> Nat]]
  /\ tag \in [Requests -> Tags]
  /\ code \in [Requests -> Codes]

Init ==
  /\ content \in InitContents
  /\ ver = [f \in Files |-> 0]
  /\ loaded = [f \in Files |-> 0]
  /\ backups = {}
  /\ copies = [r \in Requests |-> [f \in Files |-> None]]
  /\ audit = [r \in Requests |-> "none"]
  /\ arg \in {a \in [Requests -> Args] : \A r \in Requests : a[r].from # r}
  /\ pc = [r \in Requests |-> "new"]
  /\ base = [r \in Requests |-> Missing]
  /\ todo = [r \in Requests |-> {}]
  /\ wrote = [r \in Requests |-> [f \in Files |-> 0]]
  /\ tag = [r \in Requests |-> NoTag]
  /\ code = [r \in Requests |-> 0]

Kind(r) == arg[r].kind
InFlight(r) == pc[r] \notin {"new", "done", "dead"}

-----------------------------------------------------------------------------
(* The flows: for each step of a handler, the step that follows it.         *)

(* handleGetConfig and the structured reads: the body, then its ETag. *)
GetFlow == [new |-> "read", read |-> "etag", etag |-> "done"]

PutFlowEtagFirst ==
  [new |-> "decode", decode |-> "check", check |-> "etag", etag |-> "backup",
   backup |-> "copy", copy |-> "write", write |-> "apply", apply |-> "audit"]

(* Raw and structured PUT, generate-default: replace one file. *)
PutFlow ==
  [new |-> "decode", decode |-> "check", check |-> "backup", backup |-> "copy",
   copy |-> "write", write |-> "etag", etag |-> "apply", apply |-> "audit"]

(* handlePatchDomainRule, handlePatchCIDRRule: read, change one rule, write. *)
PatchFlow ==
  [new |-> "check", check |-> "decode", decode |-> "read", read |-> "backup",
   backup |-> "copy", copy |-> "write", write |-> "etag", etag |-> "apply", apply |-> "audit"]

(* handlePutHRNeoStructured: merge the request into the parsed file. *)
MergeFlow ==
  [new |-> "decode", decode |-> "check", check |-> "read", read |-> "backup",
   backup |-> "copy", copy |-> "write", write |-> "etag", etag |-> "apply", apply |-> "audit"]

(* handlePutTargetOrder: no If-Match, no ETag. *)
OrderFlow ==
  [new |-> "decode", decode |-> "read", read |-> "backup", backup |-> "copy",
   copy |-> "write", write |-> "apply", apply |-> "audit"]

(* handleImportCSVApply: domain.conf, then ip.list. *)
CSVFlow ==
  [new |-> "decode", decode |-> "backup", backup |-> "copy", copy |-> "write",
   write |-> "apply", apply |-> "audit"]

(* handleImportTextApply: reads the file it extends after the backup. *)
TextFlow ==
  [new |-> "decode", decode |-> "backup", backup |-> "copy", copy |-> "read",
   read |-> "write", write |-> "apply", apply |-> "audit"]

(* handleRestoreBackup: a safety backup, then the files of the chosen one. *)
RestoreFlow ==
  [new |-> "decode", decode |-> "backup", backup |-> "copy", copy |-> "restore",
   restore |-> "apply", apply |-> "audit"]

(* handleCreateBackup. *)
BackupFlow == [new |-> "backup", backup |-> "copy", copy |-> "audit"]

(* handleService("restart"). *)
RestartFlow == [new |-> "apply", apply |-> "audit"]

Flow ==
  [get |-> GetFlow, put |-> PutFlow, patch |-> PatchFlow, merge |-> MergeFlow,
   order |-> OrderFlow, csv |-> CSVFlow, text |-> TextFlow, restore |-> RestoreFlow,
   backup |-> BackupFlow, restart |-> RestartFlow]

After(r) == Flow[Kind(r)][pc[r]]
Advance(r) == pc' = [pc EXCEPT ![r] = After(r)]

(* writeAudit is best effort: the entry may be lost. *)
Record(r, entry) ==
  \/ audit' = [audit EXCEPT ![r] = entry]
  \/ UNCHANGED audit

Respond(r, status) ==
  /\ pc' = [pc EXCEPT ![r] = "done"]
  /\ code' = [code EXCEPT ![r] = status]

(* Errors before the backup are not audited by the patch handlers, a        *)
(* precondition failure by none.                                            *)
Refuse(r, status) ==
  /\ Respond(r, status)
  /\ IF Kind(r) \in {"patch", "get"} \/ status = 412 THEN UNCHANGED audit ELSE Record(r, "failed")

Fail(r) == Respond(r, 500) /\ Record(r, "failed")

files == <<content, ver>>
saves == <<backups, copies>>
mine  == <<base, todo, wrote, tag>>

-----------------------------------------------------------------------------
(* The steps.                                                               *)

Issue(r) ==
  /\ pc[r] = "new"
  /\ Serial => \A q \in Requests : ~InFlight(q)
  /\ Advance(r)
  /\ UNCHANGED <<files, loaded, saves, audit, arg, mine, code>>

(* Decoding and validating the request body. *)
Decode(r) ==
  /\ pc[r] = "decode"
  /\ \/ Advance(r) /\ UNCHANGED <<audit, code>>
     \/ Refuse(r, 400)
  /\ UNCHANGED <<files, loaded, saves, arg, mine>>

CheckAlways(r) ==
  /\ pc[r] = "check"
  /\ Advance(r)
  /\ UNCHANGED <<files, loaded, saves, audit, arg, mine, code>>

(* checkRevisionPrecondition. *)
Check(r) ==
  /\ pc[r] = "check"
  /\ IF arg[r].want \in {NoTag, Revision(content[arg[r].file])}
       THEN Advance(r) /\ UNCHANGED <<audit, code>>
       ELSE Refuse(r, 412)
  /\ UNCHANGED <<files, loaded, saves, arg, mine>>

(* A raw GET answers for a missing file, a structured PUT of hrneo.conf     *)
(* starts from the defaults; the other readers give up.  A patch may also   *)
(* be refused for what the file says: a rule in another group (409), text   *)
(* that does not parse (400).                                               *)
Read(r) ==
  /\ pc[r] = "read"
  /\ LET found == content[arg[r].file] IN
     \/ /\ found # Missing \/ Kind(r) \in {"get", "merge"}
        /\ base' = [base EXCEPT ![r] = found]
        /\ Advance(r)
        /\ UNCHANGED <<audit, code>>
     \/ Refuse(r, 500) /\ UNCHANGED base
     \/ /\ found # Missing /\ Kind(r) = "patch"
        /\ \E status \in {400, 409} : Refuse(r, status)
        /\ UNCHANGED base
  /\ UNCHANGED <<files, loaded, saves, arg, todo, wrote, tag>>

(* createBackup: a directory of its own, ... *)
Backup(r) ==
  /\ pc[r] = "backup"
  /\ backups' = backups \cup {r}
  /\ todo' = [todo EXCEPT ![r] = Files]
  /\ Advance(r)
  /\ UNCHANGED <<files, loaded, copies, audit, arg, base, wrote, tag, code>>

(* The files the handler goes on to write. *)
Targets(r) ==
  CASE Kind(r) = "csv"     -> {"domain.conf", "ip.list"}
    [] Kind(r) = "restore" -> Files
    [] Kind(r) = "backup"  -> {}
    [] OTHER               -> {arg[r].file}

CopyStopsAtMissing(r, f) ==
  /\ pc[r] = "copy"
  /\ f \in todo[r]
  /\ copies' = [copies EXCEPT ![r][f] = IF content[f] = Missing THEN None ELSE content[f]]
  /\ IF todo[r] = {f} \/ content[f] = Missing THEN Advance(r) /\ todo' = [todo EXCEPT ![r] = Targets(r)]
     ELSE todo' = [todo EXCEPT ![r] = @ \ {f}] /\ UNCHANGED pc
  /\ UNCHANGED <<files, loaded, backups, audit, arg, base, wrote, tag, code>>

(* ... then a copy of each file there is, in the order of a Go map. *)
Copy(r, f) ==
  /\ pc[r] = "copy"
  /\ f \in todo[r]
  /\ copies' = [copies EXCEPT ![r][f] = IF content[f] = Missing THEN None ELSE content[f]]
  /\ IF todo[r] = {f} THEN Advance(r) /\ todo' = [todo EXCEPT ![r] = Targets(r)]
     ELSE todo' = [todo EXCEPT ![r] = @ \ {f}] /\ UNCHANGED pc
  /\ UNCHANGED <<files, loaded, backups, audit, arg, base, wrote, tag, code>>

(* Creating the directory or copying a file fails; copies made so far stay. *)
BackupFails(r) ==
  /\ pc[r] \in {"backup", "copy"}
  /\ Fail(r)
  /\ UNCHANGED <<files, loaded, saves, arg, mine>>

(* A successful atomicWriteFile of content c. *)
Install(r, f, c) ==
  /\ content' = [content EXCEPT ![f] = c]
  /\ ver' = [ver EXCEPT ![f] = @ + 1]
  /\ wrote' = [wrote EXCEPT ![r][f] = ver[f] + 1]

(* The file is done: go on to the next, or to the next step. *)
Tick(r, f) ==
  /\ todo' = [todo EXCEPT ![r] = @ \ {f}]
  /\ IF todo[r] = {f} THEN Advance(r) ELSE UNCHANGED pc

EditedFromDefaults(r) ==
  CASE Kind(r) = "merge" -> Defaults
    [] base[r] = Missing -> Defaults
    [] OTHER             -> base[r]

(* What a handler edits: the text it read (a rule patch, a target order),   *)
(* the parsed file, which is all that a structured PUT of hrneo.conf and a  *)
(* text import know of it, or, for the former, the defaults if there is no  *)
(* file.                                                                    *)
EditedFrom(r) ==
  CASE base[r] = Missing                                     -> Defaults
    [] base[r] # Missing /\ Kind(r) \in {"merge", "text"}    -> Typed[base[r]]
    [] base[r] # Missing /\ Kind(r) \notin {"merge", "text"} -> base[r]

(* What a handler writes: the request's content, or what it edits with the  *)
(* request's entries added or deleted.                                      *)
Edited(r) ==
  CASE arg[r].op = "set"    -> arg[r].body
    [] arg[r].op = "add"    -> EditedFrom(r) \cup arg[r].body
    [] arg[r].op = "delete" -> EditedFrom(r) \ arg[r].body

Write(r, f) ==
  /\ pc[r] = "write"
  /\ f \in todo[r]
  /\ f = "ip.list" => "domain.conf" \notin todo[r]
  /\ Install(r, f, Edited(r))
  /\ Tick(r, f)
  /\ UNCHANGED <<loaded, saves, audit, arg, base, tag, code>>

RestoreStopsAtMissing(r, f) ==
  LET b == arg[r].from IN
  /\ pc[r] = "restore"
  /\ b \in backups
  /\ f \in todo[r]
  /\ IF copies[b][f] = None THEN UNCHANGED <<files, todo, wrote>> /\ Advance(r)
     ELSE Install(r, f, copies[b][f]) /\ Tick(r, f)
  /\ UNCHANGED <<loaded, saves, audit, arg, base, tag, code>>

(* restoreBackup: the files of the chosen directory, in the order of a Go   *)
(* map; a file without a copy is left alone.                                *)
Restore(r, f) ==
  LET b == arg[r].from IN
  /\ pc[r] = "restore"
  /\ b \in backups
  /\ f \in todo[r]
  /\ IF copies[b][f] = None THEN UNCHANGED <<files, wrote>> ELSE Install(r, f, copies[b][f])
  /\ Tick(r, f)
  /\ UNCHANGED <<loaded, saves, audit, arg, base, tag, code>>

WriteFailsGoesOn(r) ==
  /\ pc[r] \in {"write", "restore"}
  /\ Advance(r)
  /\ UNCHANGED <<files, loaded, saves, audit, arg, mine, code>>

(* No such backup, or an I/O error; files written so far stay written. *)
WriteFails(r) ==
  /\ pc[r] \in {"write", "restore"}
  /\ Fail(r)
  /\ UNCHANGED <<files, loaded, saves, arg, mine>>

(* setRevisionHeader(fileRevision(path)): the file is read once more. *)
Etag(r) ==
  /\ pc[r] = "etag"
  /\ tag' = [tag EXCEPT ![r] = Revision(content[arg[r].file])]
  /\ IF After(r) = "done" THEN Respond(r, 200) ELSE Advance(r) /\ UNCHANGED code
  /\ UNCHANGED <<files, loaded, saves, audit, arg, base, todo, wrote>>

ApplyNothing(r) ==
  /\ pc[r] = "apply"
  /\ arg[r].apply
  /\ Advance(r)
  /\ UNCHANGED <<files, loaded, saves, audit, arg, mine, code>>

(* runService("restart"): HR Neo reads its files when it starts. *)
Apply(r) ==
  /\ pc[r] = "apply"
  /\ arg[r].apply
  /\ loaded' = ver
  /\ Advance(r)
  /\ UNCHANGED <<files, saves, audit, arg, mine, code>>

SkipApply(r) ==
  /\ pc[r] = "apply"
  /\ ~arg[r].apply
  /\ Advance(r)
  /\ UNCHANGED <<files, loaded, saves, audit, arg, mine, code>>

ApplyFailsAsError(r) ==
  /\ pc[r] = "apply"
  /\ arg[r].apply
  /\ Fail(r)
  /\ UNCHANGED <<files, loaded, saves, arg, mine>>

(* The init script fails: the handler still reports what it saved. *)
ApplyFails(r) ==
  /\ pc[r] = "apply"
  /\ arg[r].apply
  /\ Respond(r, IF Kind(r) = "restart" THEN 500 ELSE 202)
  /\ Record(r, "failed")
  /\ UNCHANGED <<files, loaded, saves, arg, mine>>

(* The last step of a handler that changed something. *)
Audit(r) ==
  /\ pc[r] = "audit"
  /\ Record(r, "ok")
  /\ Respond(r, 200)
  /\ UNCHANGED <<files, loaded, saves, arg, mine>>

(* main.go: the process exits with requests in flight, and is started again.*)
Kill ==
  /\ \E r \in Requests : InFlight(r)
  /\ pc' = [r \in Requests |-> IF InFlight(r) THEN "dead" ELSE pc[r]]
  /\ UNCHANGED <<files, loaded, saves, audit, arg, mine, code>>

(* Every request has been answered or died with the process. *)
Idle ==
  /\ \A r \in Requests : pc[r] \in {"done", "dead"}
  /\ UNCHANGED vars

Serve(r) ==
  \/ Decode(r) \/ Check(r) \/ Read(r)
  \/ Backup(r) \/ (\E f \in Files : Copy(r, f)) \/ BackupFails(r)
  \/ (\E f \in Files : Write(r, f)) \/ (\E f \in Files : Restore(r, f)) \/ WriteFails(r)
  \/ Etag(r) \/ Apply(r) \/ SkipApply(r) \/ ApplyFails(r) \/ Audit(r)

Next ==
  \/ \E r \in Requests : Issue(r) \/ Serve(r)
  \/ Kill
  \/ Idle

Spec == Init /\ [][Next]_vars

-----------------------------------------------------------------------------
(* Properties that hold however requests interleave.                        *)

Wrote(r) == {f \in Files : wrote[r][f] # 0}
Installs(r, f) == wrote'[r][f] # wrote[r][f]

(* A request answered with an error has changed no configuration file; the  *)
(* handlers that write several files (csv import, restore) may have written *)
(* some of them when they answer 500.                                       *)
ErrorsWriteNothing ==
  \A r \in Requests :
    (code[r] \in {400, 409, 412} \/ (code[r] = 500 /\ Kind(r) \notin {"csv", "restore"}))
      => Wrote(r) = {}

(* The audit log tells the truth: an entry "ok" stands for a request that   *)
(* wrote every file it was for, and an entry "failed" of a single-file      *)
(* request for one that wrote nothing or could only not restart HR Neo.     *)
AuditTellsTheTruth ==
  \A r \in Requests :
    /\ audit[r] = "ok" /\ Kind(r) \notin {"restore", "restart"} => Targets(r) \subseteq Wrote(r)
    /\ audit[r] = "failed" /\ Kind(r) \notin {"csv", "restore"} => Wrote(r) = {} \/ code[r] = 202

(* When a handler answers 200 with applied set, the running HR Neo has read *)
(* every file the request wrote at the version it wrote or a later one,     *)
(* whatever other requests wrote and restarted meanwhile.                   *)
AppliedIsLoaded ==
  \A r \in Requests :
    code[r] = 200 /\ arg[r].apply => \A f \in Files : loaded[f] >= wrote[r][f]

-----------------------------------------------------------------------------
(* Properties that hold when requests are served one at a time.             *)

(* A handler that honours If-Match replaces the revision the client named   *)
(* and no other (README.en.md: optimistic concurrency with If-Match).       *)
CheckedWrite ==
  [][\A r \in Requests, f \in Files :
       Installs(r, f) /\ Kind(r) \in {"put", "patch", "merge"} /\ arg[r].want # NoTag
         => arg[r].want = Revision(content[f])]_vars

(* The ETag of a read names the content in its body, the ETag of a write    *)
(* the content it wrote.                                                    *)
TagNamesContent ==
  \A r \in Requests :
    tag[r] # NoTag => tag[r] = Revision(IF Kind(r) = "get" THEN base[r] ELSE Edited(r))

(* A write that edits a file changes the entries it is about and no others: *)
(* a rule patch and a target order none at all (README.en.md: narrow writes *)
(* preserve unrelated config bytes), a structured PUT of hrneo.conf and a   *)
(* text import only loose ones, which their parser does not keep.  Where    *)
(* there is no hrneo.conf, a structured PUT writes the default settings     *)
(* and differs from them in what it names.                                  *)
NarrowWrite ==
  [][\A r \in Requests, f \in Files :
       Installs(r, f) =>
         /\ Kind(r) \in {"patch", "order"} => Changed(content[f], content'[f]) \subseteq arg[r].body
         /\ Kind(r) \in {"merge", "text"} /\ content[f] # Missing =>
              Changed(content[f], content'[f]) \subseteq arg[r].body \cup Loose
         /\ Kind(r) = "merge" /\ content[f] = Missing =>
              Changed(Defaults, content'[f]) \subseteq arg[r].body]_vars

(* What a write replaces is in the backup the write made.                   *)
ReplacedIsSaved ==
  [][\A r \in Requests, f \in Files :
       Installs(r, f) /\ content[f] # Missing => copies[r][f] = content[f]]_vars

(* A restore that answers 200 leaves every file as its backup has it.       *)
RestoreBringsBack ==
  [][\A r \in Requests :
       Kind(r) = "restore" /\ code'[r] = 200 /\ code[r] # 200 =>
         \A f \in Files : copies[arg[r].from][f] # None =>
                            content'[f] = copies[arg[r].from][f]]_vars

=============================================================================
