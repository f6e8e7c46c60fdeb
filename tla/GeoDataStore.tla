----------------------------- MODULE GeoDataStore -----------------------------
(***************************************************************************)
(* GeoData: the .dat files in geofile/ and the lines of hrneo.conf that    *)
(* list them.  An upload or download first replaces the data file, then,   *)
(* if asked to, reads hrneo.conf, saves it and writes it back with one     *)
(* line more, and last reports on the file it finds.  GET /geodata/files   *)
(* reports on every listed file.  Handlers hold no lock; each step is one  *)
(* file operation, and the process may die between any two.                *)
(*                                                                         *)
(* A data file is the number of times it has been replaced; 0 is "no file".*)
(***************************************************************************)
EXTENDS Naturals, Sequences

CONSTANTS
  Requests,      \* the requests that reach the server
  Kinds,         \* what they may be
  Paths,         \* files inside geofile/
  GeoKinds,      \* the kinds of GeoData they hold
  InitConfs,     \* what hrneo.conf may hold before the first request
  Replacements,  \* what other handlers may replace hrneo.conf with
  Empty,         \* the value of a line "GeoIPFile=" that lists nothing
  Missing        \* there is no hrneo.conf

AllKinds == {"upload", "download", "list"}
Keys == {"GeoIPFile", "GeoSiteFile"}

Line(key, value) == [key |-> key, value |-> value]
Lines == [key : Keys \cup {"other"}, value : Paths \cup {Empty}]
Confs == Seq(Lines)

ASSUME ConstantsAssumption ==
  /\ Kinds \subseteq AllKinds
  /\ GeoKinds \subseteq {"geoip", "geosite"}
  /\ Empty \notin Paths
  /\ Missing \notin Confs
  /\ InitConfs \subseteq Confs \cup {Missing}
  /\ Replacements \subseteq Confs

(* Only uploads list data files: what people and other handlers bring lists *)
(* none.                                                                    *)
ASSUME PlainAssumption ==
  \A c \in (InitConfs \cup Replacements) \ {Missing} :
    \A i \in DOMAIN c : c[i].value = Empty

(* saveGeoData's key for a kind. *)
KeyOf(kind) == IF kind = "geoip" THEN "GeoIPFile" ELSE "GeoSiteFile"

(* renderHRNeoConfig(defaultHRNeoConfig()): writeRepeatString writes a key  *)
(* without values as one line with an empty value.                          *)
Default == <<Line("other", Empty), Line("GeoIPFile", Empty), Line("GeoSiteFile", Empty)>>

Holds(conf, line) == \E i \in DOMAIN conf : conf[i] = line

AppendAlways(conf, line) == Append(conf, line)

(* appendHRNeoRepeatValue. *)
AppendRepeat(conf, line) == IF Holds(conf, line) THEN conf ELSE Append(conf, line)

(* The files parseHRNeoConfigFile finds, those for geoip first. *)
Listed(conf) ==
  LET isIP(line) == line.key = "GeoIPFile"
      isSite(line) == line.key = "GeoSiteFile"
  IN  SelectSeq(conf, isIP) \o SelectSeq(conf, isSite)

Args == [kind : Kinds, geo : GeoKinds, path : Paths, add : BOOLEAN]

VARIABLES
  stored,   \* stored[p]: how often data file p has been replaced
  conf,     \* hrneo.conf
  arg,      \* arg[r]: what request r asks for
  pc,       \* pc[r]: the next step of request r
  base,     \* base[r]: the hrneo.conf that r read
  saved,    \* saved[r]: the copy of hrneo.conf in the backup r made
  left,     \* left[r]: lines GET /geodata/files has yet to report on
  wrote,    \* wrote[r]: the version of its data file r installed, 0 before
  updated,  \* updated[r]: configUpdated of r's response
  size,     \* size[r]: the version r took the size of, 0 if there was no file
  sha,      \* sha[r]: the version r took the checksum of, 0 for none
  code,     \* code[r]: the status of r's response, 0 before it
  audit,    \* audit[r]: the entry r left in the audit log
  broken,   \* broken[r]: an I/O operation or the network failed on r
  alone     \* alone[r]: nobody else has taken a step since r began

vars == <<stored, conf, arg, pc, base, saved, left, wrote, updated, size, sha, code, audit, broken, alone>>

Steps == {"new", "decode", "fetch", "verify", "store", "read", "backup", "write",
          "stat", "sum", "done", "dead"}

TypeOK ==
  /\ stored \in [Paths -> Nat]
  /\ conf \in Confs \cup {Missing}
  /\ arg \in [Requests -> Args]
  /\ pc \in [Requests -> Steps]
  /\ base \in [Requests -> Confs]
  /\ saved \in [Requests -> Confs \cup {Missing}]
  /\ left \in [Requests -> Confs]
  /\ wrote \in [Requests -> Nat]
  /\ updated \in [Requests -> BOOLEAN]
  /\ size \in [Requests -> Nat]
  /\ sha \in [Requests -> Nat]
  /\ code \in [Requests -> {0, 200, 400, 500}]
  /\ audit \in [Requests -> {"none", "ok", "failed"}]
  /\ broken \in [Requests -> BOOLEAN]
  /\ alone \in [Requests -> BOOLEAN]

Init ==
  /\ stored = [p \in Paths |-> 0]
  /\ conf \in InitConfs
  /\ arg \in [Requests -> Args]
  /\ pc = [r \in Requests |-> "new"]
  /\ base = [r \in Requests |-> <<>>]
  /\ saved = [r \in Requests |-> Missing]
  /\ left = [r \in Requests |-> <<>>]
  /\ wrote = [r \in Requests |-> 0]
  /\ updated = [r \in Requests |-> FALSE]
  /\ size = [r \in Requests |-> 0]
  /\ sha = [r \in Requests |-> 0]
  /\ code = [r \in Requests |-> 0]
  /\ audit = [r \in Requests |-> "none"]
  /\ broken = [r \in Requests |-> FALSE]
  /\ alone = [r \in Requests |-> TRUE]

Kind(r) == arg[r].kind
InFlight(r) == pc[r] \notin {"new", "done", "dead"}
Mine(r) == Line(KeyOf(arg[r].geo), arg[r].path)

-----------------------------------------------------------------------------
(* How a step ends.                                                         *)

Goto(r, step) == pc' = [pc EXCEPT ![r] = step] /\ UNCHANGED <<code, audit, broken>>

(* writeAudit is best effort; GET /geodata/files is not audited. *)
Respond(r, status, entry) ==
  /\ pc' = [pc EXCEPT ![r] = "done"]
  /\ code' = [code EXCEPT ![r] = status]
  /\ IF Kind(r) = "list" THEN UNCHANGED audit
     ELSE \E e \in {entry, "none"} : audit' = [audit EXCEPT ![r] = e]

Answer(r) == Respond(r, 200, "ok") /\ UNCHANGED broken
Refuse(r) == Respond(r, 400, "failed") /\ UNCHANGED broken
Reject(r) == Respond(r, 500, "failed") /\ UNCHANGED broken
Break(r)  == Respond(r, 500, "failed") /\ broken' = [broken EXCEPT ![r] = TRUE]

known  == <<base, saved, left, wrote, updated>>
report == <<size, sha>>

-----------------------------------------------------------------------------
(* The steps of the handlers.                                               *)

Begin(r) ==
  /\ pc[r] = "new"
  /\ Goto(r, IF Kind(r) = "list" THEN "read" ELSE "decode")
  /\ UNCHANGED <<stored, conf, arg, known, report>>

(* The body, the path, the URL or the encoded content may be refused. *)
Decode(r) ==
  /\ pc[r] = "decode"
  /\ Refuse(r) \/ Goto(r, IF Kind(r) = "download" THEN "fetch" ELSE "store")
  /\ UNCHANGED <<stored, conf, arg, known, report>>

(* downloadGeoData: another status than 200, too many bytes, a timeout. *)
Fetch(r) ==
  /\ pc[r] = "fetch"
  /\ Break(r) \/ Goto(r, "verify")
  /\ UNCHANGED <<stored, conf, arg, known, report>>

(* The checksum the request gives, if any, may not be the data's. *)
Verify(r) ==
  /\ pc[r] = "verify"
  /\ Refuse(r) \/ Goto(r, "store")
  /\ UNCHANGED <<stored, conf, arg, known, report>>

StoreNotInstalled(r) ==
  /\ pc[r] = "store"
  /\ wrote' = [wrote EXCEPT ![r] = stored[arg[r].path] + 1]
  /\ Goto(r, IF arg[r].add THEN "read" ELSE "stat")
  /\ UNCHANGED <<stored, conf, arg, base, saved, left, updated, report>>

StoreRetried(r) ==
  LET p == arg[r].path IN
  /\ pc[r] = "store"
  /\ stored' = [stored EXCEPT ![p] = @ + 2]
  /\ wrote' = [wrote EXCEPT ![r] = stored[p] + 1]
  /\ Goto(r, IF arg[r].add THEN "read" ELSE "stat")
  /\ UNCHANGED <<conf, arg, base, saved, left, updated, report>>

(* atomicWriteFile(path, data). *)
Store(r) ==
  LET p == arg[r].path IN
  /\ pc[r] = "store"
  /\ stored' = [stored EXCEPT ![p] = @ + 1]
  /\ wrote' = [wrote EXCEPT ![r] = stored[p] + 1]
  /\ Goto(r, IF arg[r].add THEN "read" ELSE "stat")
  /\ UNCHANGED <<conf, arg, base, saved, left, updated, report>>

(* saveGeoData reads hrneo.conf, or starts from the default one: there may  *)
(* be nothing to add.                                                       *)
Read(r) ==
  LET found == IF conf = Missing THEN Default ELSE conf IN
  /\ pc[r] = "read" /\ Kind(r) # "list"
  /\ base' = [base EXCEPT ![r] = found]
  /\ Goto(r, IF AppendRepeat(found, Mine(r)) = found THEN "stat" ELSE "backup")
  /\ UNCHANGED <<stored, conf, arg, saved, left, wrote, updated, report>>

(* geoDataFiles parses hrneo.conf; a missing one lists no files. *)
ReadListing(r) ==
  LET found == IF conf = Missing THEN <<>> ELSE conf IN
  /\ pc[r] = "read" /\ Kind(r) = "list"
  /\ base' = [base EXCEPT ![r] = found]
  /\ left' = [left EXCEPT ![r] = Listed(found)]
  /\ IF Listed(found) = <<>> THEN Answer(r) ELSE Goto(r, "stat")
  /\ UNCHANGED <<stored, conf, arg, saved, wrote, updated, report>>

BackupNothing(r) ==
  /\ pc[r] = "backup"
  /\ Goto(r, "write")
  /\ UNCHANGED <<stored, conf, arg, known, report>>

(* createBackup's copy of hrneo.conf; the other two files play no part. *)
Backup(r) ==
  /\ pc[r] = "backup"
  /\ saved' = [saved EXCEPT ![r] = conf]
  /\ Goto(r, "write")
  /\ UNCHANGED <<stored, conf, arg, base, left, wrote, updated, report>>

(* The second atomicWriteFile, of what was read before the backup. *)
Write(r) ==
  /\ pc[r] = "write"
  /\ conf' = AppendRepeat(base[r], Mine(r))
  /\ updated' = [updated EXCEPT ![r] = TRUE]
  /\ Goto(r, "stat")
  /\ UNCHANGED <<stored, arg, base, saved, left, wrote, report>>

(* Any of these fails; what has been written stays. *)
Fails(r) ==
  /\ pc[r] \in {"store", "read", "backup", "write", "stat"}
  /\ Break(r)
  /\ UNCHANGED <<stored, conf, arg, known, report>>

(* The file geoDataFileInfo is to report on. *)
Subject(r) == IF Kind(r) = "list" THEN Head(left[r]).value ELSE arg[r].path

(* On to the next file of the listing, or to the response. *)
Reported(r) ==
  IF Kind(r) = "list" /\ Len(left[r]) > 1
    THEN left' = [left EXCEPT ![r] = Tail(@)] /\ Goto(r, "stat")
    ELSE UNCHANGED left /\ Answer(r)

(* geoDataFileInfo: a path that is not inside geofile/ is an error, a file  *)
(* that is not there is not.                                                *)
Stat(r) ==
  /\ pc[r] = "stat"
  /\ IF Subject(r) = Empty THEN Reject(r) /\ UNCHANGED <<left, size, sha>>
     ELSE /\ size' = [size EXCEPT ![r] = stored[Subject(r)]]
          /\ sha' = [sha EXCEPT ![r] = 0]
          /\ IF stored[Subject(r)] = 0 THEN Reported(r) ELSE Goto(r, "sum") /\ UNCHANGED left
  /\ UNCHANGED <<stored, conf, arg, base, saved, wrote, updated>>

(* The checksum is of a second look at the file; an error leaves it out. *)
Sum(r) ==
  /\ pc[r] = "sum"
  /\ \/ sha' = [sha EXCEPT ![r] = stored[Subject(r)]]
     \/ UNCHANGED sha
  /\ Reported(r)
  /\ UNCHANGED <<stored, conf, arg, base, saved, wrote, updated, size>>

Serve(r) ==
  \/ Begin(r) \/ Decode(r) \/ Fetch(r) \/ Verify(r) \/ Store(r) \/ Read(r) \/ ReadListing(r)
  \/ Backup(r) \/ Write(r) \/ Fails(r) \/ Stat(r) \/ Sum(r)

(* r's step is seen by the requests in flight. *)
Step(r) ==
  /\ Serve(r)
  /\ alone' = [q \in Requests |-> alone[q] /\ (q = r \/ ~InFlight(q))]

(* Another handler replaces hrneo.conf: generate-default, a raw PUT, or the *)
(* restore of a backup that an upload made; ConfigWrites has their steps.   *)
Replace(c) ==
  /\ conf' = c
  /\ alone' = [q \in Requests |-> alone[q] /\ ~InFlight(q)]
  /\ UNCHANGED <<stored, arg, pc, known, report, code, audit, broken>>

(* The process ends with requests in flight. *)
Kill ==
  /\ \E r \in Requests : InFlight(r)
  /\ pc' = [r \in Requests |-> IF InFlight(r) THEN "dead" ELSE pc[r]]
  /\ UNCHANGED <<stored, conf, arg, known, report, code, audit, broken, alone>>

(* Every request has been answered or died with the process. *)
Idle ==
  /\ \A r \in Requests : pc[r] \in {"done", "dead"}
  /\ UNCHANGED vars

Next ==
  \/ \E r \in Requests : Step(r)
  \/ \E c \in Replacements : Replace(c)
  \/ \E r \in Requests : saved[r] # Missing /\ Replace(saved[r])
  \/ Kill
  \/ Idle

Spec == Init /\ [][Next]_vars

-----------------------------------------------------------------------------
(* Properties.                                                              *)

(* No upload makes hrneo.conf list a data file that is not there, which     *)
(* validateGeoDataConfig would report, whatever fails and whenever the      *)
(* process dies.                                                            *)
ListedIsStored ==
  conf # Missing =>
    \A i \in DOMAIN conf : conf[i].value # Empty => stored[conf[i].value] # 0

(* However often an upload is repeated, and whatever runs beside it, a file *)
(* is listed once.                                                          *)
ListedOnce ==
  conf # Missing =>
    \A i, j \in DOMAIN conf : conf[i] = conf[j] /\ conf[i].value # Empty => i = j

(* The size in an answer is of the data the request stored or of later      *)
(* data, and the checksum of data at least as late (geoDataFileInfo looks   *)
(* at the file twice); with nobody else at work both are of the very data   *)
(* it stored.                                                               *)
ReportIsCurrent ==
  \A r \in Requests :
    code[r] = 200 /\ Kind(r) # "list" =>
      /\ 0 < wrote[r] /\ wrote[r] <= size[r]
      /\ sha[r] # 0 => size[r] <= sha[r]
      /\ alone[r] => size[r] = wrote[r] /\ sha[r] \in {0, wrote[r]}

(* With nobody else at work a request with addToConfig leaves its file      *)
(* listed, even one that repeats an earlier request; what it writes is one  *)
(* line more than was there (docs/HRNEO_PARITY.md: a minimal patch), and    *)
(* what it replaces is in its backup.                                       *)
AddsItsLine ==
  [][\A r \in Requests : alone[r] /\ Kind(r) # "list" =>
       /\ updated'[r] # updated[r] =>
            /\ saved[r] = conf
            /\ conf' = Append(IF conf = Missing THEN Default ELSE conf, Mine(r))
       /\ code'[r] = 200 /\ code[r] = 0 /\ arg[r].add =>
            conf' # Missing /\ Holds(conf', Mine(r))]_vars

(* GET /geodata/files answers unless the files themselves cannot be read    *)
(* (geodata_test.go: TestGeoDataFilesEndpoint; openapi.yaml: 200).          *)
ListingAnswers ==
  \A r \in Requests : Kind(r) = "list" /\ code[r] = 500 => broken[r]

=============================================================================
