-------------------------- MODULE ConfigWritesProofs --------------------------
(***************************************************************************)
(* Proofs about ConfigWrites for any set of requests and entries, any      *)
(* selection of handlers and headers: the invariants of the run            *)
(* ConcurrentWrites and, for requests that are served one at a time, those *)
(* of SerialWrites.  The invariant IInv says of each request what it has   *)
(* written by the step it is at (Consistent), and orders the versions of   *)
(* the files that requests install and HR Neo loads; AloneIInv adds what a *)
(* request can rely on while it is served alone: the revision it checked,  *)
(* the content it read, the copies it made and the files it restored.      *)
(***************************************************************************)
EXTENDS ConfigWrites, TLAPS

(* The steps a handler of kind k has before it answers. *)
FlowOf(k) == DOMAIN Flow[k]

(* What follows each step, and in which handlers the step occurs. *)
NextOf(k, s, t) ==
  /\ t \in FlowOf(k) \cup {"audit", "done"}
  /\ s \in Steps \ {"audit", "done", "dead"}
  /\ t = "audit" => k # "get"
  /\ s = "new" => /\ t \in {"decode", "check", "read", "backup", "apply"}
                  /\ t = "read" => k = "get"
                  /\ t = "apply" => k = "restart"
                  /\ t = "backup" => k = "backup"
                  /\ k \in {"put", "patch", "merge"} => t \in {"decode", "check"}
                  /\ k = "patch" => t = "check"
  /\ s = "decode" => /\ k \notin {"get", "backup", "restart"}
                     /\ t \in {"check", "read", "backup"}
                     /\ k \in {"put", "merge"} => t = "check"
                     /\ t = "read" => k # "text"
                     /\ t = "backup" => k \in {"csv", "text", "restore"}
  /\ s = "check" => /\ k \in {"put", "patch", "merge"}
                    /\ t \in {"decode", "read", "backup"}
                    /\ t = "backup" => k = "put"
  /\ s = "read" => /\ k \in {"get", "patch", "merge", "order", "text"}
                   /\ t \in {"etag", "backup", "write"}
                   /\ t = "etag" <=> k = "get"
                   /\ t = "write" <=> k = "text"
  /\ s = "backup" => k \notin {"get", "restart"} /\ t = "copy"
  /\ s = "copy" => /\ k \notin {"get", "restart"}
                   /\ t \in {"write", "read", "restore", "audit"}
                   /\ t = "read" <=> k = "text"
                   /\ t = "restore" <=> k = "restore"
                   /\ t = "audit" <=> k = "backup"
  /\ s = "write" => /\ k \in {"put", "patch", "merge", "order", "csv", "text"}
                    /\ t \in {"etag", "apply"}
                    /\ t = "etag" => k \in {"put", "patch", "merge"}
  /\ s = "restore" => k = "restore" /\ t = "apply"
  /\ s = "etag" => /\ k \in {"get", "put", "patch", "merge"}
                   /\ t \in {"done", "apply"}
                   /\ t = "done" <=> k = "get"
  /\ s = "apply" => k \notin {"get", "backup"} /\ t = "audit"

LEMMA FlowNext ==
  ASSUME NEW k \in AllKinds, NEW s \in FlowOf(k)
  PROVE  NextOf(k, s, Flow[k][s])
<1>1. CASE k = "get"
  BY <1>1 DEF NextOf, FlowOf, Steps, Flow, GetFlow
<1>2. CASE k = "put"
  BY <1>2 DEF NextOf, FlowOf, Steps, Flow, PutFlow
<1>3. CASE k = "patch"
  BY <1>3 DEF NextOf, FlowOf, Steps, Flow, PatchFlow
<1>4. CASE k = "merge"
  BY <1>4 DEF NextOf, FlowOf, Steps, Flow, MergeFlow
<1>5. CASE k = "order"
  BY <1>5 DEF NextOf, FlowOf, Steps, Flow, OrderFlow
<1>6. CASE k = "csv"
  BY <1>6 DEF NextOf, FlowOf, Steps, Flow, CSVFlow
<1>7. CASE k = "text"
  BY <1>7 DEF NextOf, FlowOf, Steps, Flow, TextFlow
<1>8. CASE k = "restore"
  BY <1>8 DEF NextOf, FlowOf, Steps, Flow, RestoreFlow
<1>9. CASE k = "backup"
  BY <1>9 DEF NextOf, FlowOf, Steps, Flow, BackupFlow
<1>10. CASE k = "restart"
  BY <1>10 DEF NextOf, FlowOf, Steps, Flow, RestartFlow
<1> QED
  BY <1>1, <1>2, <1>3, <1>4, <1>5, <1>6, <1>7, <1>8, <1>9, <1>10 DEF AllKinds

LEMMA ArgFacts ==
  ASSUME NEW a \in Args
  PROVE  /\ a.kind \in Kinds
         /\ a.kind \in AllKinds
         /\ a.kind \notin {"csv", "restore", "backup", "restart"} => a.file \in Files
         /\ a.op \in {"set", "add", "delete"}
         /\ a.body \in Contents
         /\ a.want \in Tags
         /\ a.apply \in BOOLEAN
         /\ a.kind \in {"get", "backup"} => a.apply = FALSE
         /\ a.kind = "restore" => a.from \in Requests
<1>1. PICK k \in Kinds : a \in ArgsOf(k)
  BY DEF Args
<1>2. k \in AllKinds
  BY ConstantsAssumption
<1>3. a.kind = k
  BY <1>1 DEF ArgsOf
<1>4. a.file \in FilesOf(k)
  BY <1>1 DEF ArgsOf
<1>5. k \notin {"csv", "restore", "backup", "restart"} => FilesOf(k) \subseteq Files
  BY <1>2 DEF FilesOf, Files, AllKinds
<1>6. a.op \in {"set", "add", "delete"}
  BY <1>1, <1>2 DEF ArgsOf, OpsOf, AllKinds
<1>7. a.body \in Bodies(k)
  BY <1>1 DEF ArgsOf
<1>8. Bodies(k) \subseteq Contents
  BY <1>2, ConstantsAssumption DEF Bodies, Contents, AllKinds
<1>9. a.want \in Tags
  BY <1>1, ConstantsAssumption DEF ArgsOf, Tags
<1>10. a.apply \in BOOLEAN /\ (k \in {"get", "backup"} => a.apply = FALSE)
  BY <1>1, ConstantsAssumption DEF ArgsOf
<1>11. k = "restore" => a.from \in Requests
  BY <1>1 DEF ArgsOf
<1> QED
  BY <1>2, <1>3, <1>4, <1>5, <1>6, <1>7, <1>8, <1>9, <1>10, <1>11

LEMMA EditedIsContent ==
  ASSUME TypeOK, NEW r \in Requests
  PROVE  Edited(r) \in Contents
<1>1. arg[r] \in Args /\ base[r] \in {Missing} \cup Contents
  BY DEF TypeOK
<1>2. arg[r].op \in {"set", "add", "delete"} /\ arg[r].body \in Contents
  BY <1>1, ArgFacts
<1>3. EditedFrom(r) \in Contents
  BY <1>1, ConstantsAssumption DEF EditedFrom
<1>4. CASE arg[r].op = "set"
  BY <1>2, <1>4 DEF Edited
<1>5. CASE arg[r].op = "add"
  BY <1>2, <1>3, <1>5 DEF Edited, Contents
<1>6. CASE arg[r].op = "delete"
  BY <1>2, <1>3, <1>6 DEF Edited, Contents
<1> QED
  BY <1>2, <1>4, <1>5, <1>6

LEMMA TargetsAreFiles ==
  ASSUME TypeOK, NEW r \in Requests, Kind(r) # "restart"
  PROVE  /\ Targets(r) \subseteq Files
         /\ Kind(r) \notin {"csv", "restore", "backup"} => Targets(r) = {arg[r].file}
         /\ Kind(r) = "backup" => Targets(r) = {}
<1>1. arg[r] \in Args
  BY DEF TypeOK
<1>2. Kind(r) \notin {"csv", "restore", "backup"} => arg[r].file \in Files
  BY <1>1, ArgFacts DEF Kind
<1>3. CASE Kind(r) = "csv"
  BY <1>3 DEF Targets, Files
<1>4. CASE Kind(r) = "restore"
  BY <1>4 DEF Targets
<1>5. CASE Kind(r) = "backup"
  BY <1>5 DEF Targets
<1>6. CASE Kind(r) \notin {"csv", "restore", "backup"}
  BY <1>2, <1>6 DEF Targets
<1> QED
  BY <1>3, <1>4, <1>5, <1>6

-----------------------------------------------------------------------------
(* How far a request is, by its next step: what it has written so far, and  *)
(* what it has still to write.                                              *)
OnItsWay(r) == pc[r] \in FlowOf(Kind(r)) \cup {"audit", "done", "dead"}

NotWrittenYet(r) ==
  /\ pc[r] \in {"new", "decode", "check", "read", "backup", "copy"} => Wrote(r) = {}
  /\ pc[r] = "write" /\ Kind(r) # "csv" => Wrote(r) = {}
  /\ Kind(r) \in {"get", "backup", "restart"} => Wrote(r) = {}

StillToWrite(r) ==
  /\ pc[r] = "read" /\ Kind(r) = "text" => todo[r] = Targets(r)
  /\ pc[r] = "write" => todo[r] \subseteq Targets(r) /\ Targets(r) \ todo[r] \subseteq Wrote(r)

WrittenByNow(r) ==
  /\ pc[r] = "audit" => Kind(r) # "get"
  /\ pc[r] \in {"etag", "apply", "audit"} /\ Kind(r) \notin {"get", "restore", "restart"}
       => Targets(r) \subseteq Wrote(r)

NotAnsweredYet(r) == pc[r] # "done" => code[r] = 0 /\ audit[r] = "none"

(* HR Neo never runs, and no request installed, a version yet to come. *)
VersionsInOrder ==
  \A f \in Files : loaded[f] <= ver[f] /\ \A r \in Requests : wrote[r][f] <= ver[f]

AuditedIsLoaded ==
  \A r \in Requests :
    pc[r] = "audit" /\ arg[r].apply => \A f \in Files : loaded[f] >= wrote[r][f]

(* What the answer and the audit entry of one request say. *)
HonestAnswer(r) ==
  (code[r] \in {400, 409, 412} \/ (code[r] = 500 /\ Kind(r) \notin {"csv", "restore"}))
    => Wrote(r) = {}

HonestAudit(r) ==
  /\ audit[r] = "ok" /\ Kind(r) \notin {"restore", "restart"} => Targets(r) \subseteq Wrote(r)
  /\ audit[r] = "failed" /\ Kind(r) \notin {"csv", "restore"} => Wrote(r) = {} \/ code[r] = 202

Consistent(r) ==
  /\ OnItsWay(r)
  /\ NotWrittenYet(r)
  /\ StillToWrite(r)
  /\ WrittenByNow(r)
  /\ NotAnsweredYet(r)
  /\ HonestAnswer(r)
  /\ HonestAudit(r)

IInv ==
  /\ TypeOK
  /\ \A r \in Requests : Consistent(r)
  /\ VersionsInOrder
  /\ AuditedIsLoaded
  /\ AppliedIsLoaded

-----------------------------------------------------------------------------
LEMMA KindIsKind ==
  ASSUME TypeOK, NEW r \in Requests
  PROVE  Kind(r) \in AllKinds
  BY ArgFacts DEF TypeOK, Kind

LEMMA InitTypeOK == Init => TypeOK
  BY ConstantsAssumption DEF Init, TypeOK, Steps, Codes, Tags

LEMMA FlowSteps ==
  ASSUME NEW k \in AllKinds
  PROVE  "new" \in FlowOf(k) /\ FlowOf(k) \subseteq Steps
  BY DEF FlowOf, AllKinds, Steps, Flow, GetFlow, PutFlow, PatchFlow, MergeFlow, OrderFlow,
         CSVFlow, TextFlow, RestoreFlow, BackupFlow, RestartFlow

(* The step a handler goes on to. *)
LEMMA AfterIs ==
  ASSUME TypeOK, NEW r \in Requests, OnItsWay(r), pc[r] \notin {"audit", "done", "dead"}
  PROVE  /\ Kind(r) \in AllKinds
         /\ NextOf(Kind(r), pc[r], After(r))
         /\ After(r) \in Steps
<1>1. Kind(r) \in AllKinds
  BY KindIsKind
<1>2. pc[r] \in FlowOf(Kind(r))
  BY DEF OnItsWay
<1>3. NextOf(Kind(r), pc[r], Flow[Kind(r)][pc[r]])
  BY <1>1, <1>2, FlowNext
<1>4. Flow[Kind(r)][pc[r]] \in FlowOf(Kind(r)) \cup {"audit", "done"}
  BY <1>3 DEF NextOf
<1>5. Flow[Kind(r)][pc[r]] \in Steps
  BY <1>1, <1>4, FlowSteps DEF Steps
<1> QED
  BY <1>1, <1>3, <1>5 DEF After

LEMMA InstallTypes ==
  ASSUME TypeOK, NEW r \in Requests, NEW f \in Files, NEW c \in Contents, Install(r, f, c)
  PROVE  /\ content' \in [Files -> {Missing} \cup Contents]
         /\ ver' \in [Files -> Nat]
         /\ wrote' \in [Requests -> [Files -> Nat]]
         /\ wrote'[r][f] = ver[f] + 1 /\ ver'[f] = ver[f] + 1
         /\ \A g \in Files \ {f} : wrote'[r][g] = wrote[r][g] /\ ver'[g] = ver[g]
         /\ \A q \in Requests \ {r} : wrote'[q] = wrote[q]
<1> DEFINE w == [wrote[r] EXCEPT ![f] = ver[f] + 1]
<1>1. ver[f] + 1 \in Nat
  BY DEF TypeOK
<1>2. w \in [Files -> Nat] /\ w[f] = ver[f] + 1 /\ \A g \in Files \ {f} : w[g] = wrote[r][g]
  BY <1>1 DEF TypeOK
<1>3. wrote' = [wrote EXCEPT ![r] = w]
  BY DEF Install, TypeOK
<1>4. content' \in [Files -> {Missing} \cup Contents]
  BY DEF Install, TypeOK
<1>5. ver' \in [Files -> Nat] /\ ver'[f] = ver[f] + 1 /\ \A g \in Files \ {f} : ver'[g] = ver[g]
  BY <1>1 DEF Install, TypeOK
<1> HIDE DEF w
<1> QED
  BY <1>2, <1>3, <1>4, <1>5 DEF TypeOK

-----------------------------------------------------------------------------
(* What the ways a step can end do to the step, the status and the audit    *)
(* entry of its request, and that they leave the other requests alone.      *)
LEMMA AdvanceFacts ==
  ASSUME TypeOK, NEW r \in Requests, After(r) \in Steps, Advance(r)
  PROVE  /\ pc' \in [Requests -> Steps]
         /\ pc'[r] = After(r)
         /\ \A q \in Requests \ {r} : pc'[q] = pc[q]
  BY DEF Advance, TypeOK

LEMMA RespondFacts ==
  ASSUME TypeOK, NEW r \in Requests, NEW status \in Codes, Respond(r, status)
  PROVE  /\ pc' \in [Requests -> Steps] /\ code' \in [Requests -> Codes]
         /\ pc'[r] = "done" /\ code'[r] = status
         /\ \A q \in Requests \ {r} : pc'[q] = pc[q] /\ code'[q] = code[q]
  BY DEF Respond, TypeOK, Steps

LEMMA RecordFacts ==
  ASSUME TypeOK, NEW r \in Requests, NEW entry \in {"ok", "failed"}, Record(r, entry)
  PROVE  /\ audit' \in [Requests -> {"none", "ok", "failed"}]
         /\ audit'[r] \in {audit[r], entry}
         /\ \A q \in Requests \ {r} : audit'[q] = audit[q]
  BY DEF Record, TypeOK

LEMMA RefuseFacts ==
  ASSUME TypeOK, NEW r \in Requests, NEW status \in Codes, Refuse(r, status)
  PROVE  /\ pc' \in [Requests -> Steps] /\ code' \in [Requests -> Codes]
         /\ audit' \in [Requests -> {"none", "ok", "failed"}]
         /\ pc'[r] = "done" /\ code'[r] = status /\ audit'[r] \in {audit[r], "failed"}
         /\ \A q \in Requests \ {r} :
              pc'[q] = pc[q] /\ code'[q] = code[q] /\ audit'[q] = audit[q]
<1>1. Respond(r, status)
  BY DEF Refuse
<1>2. UNCHANGED audit \/ Record(r, "failed")
  BY DEF Refuse
<1>3. /\ audit' \in [Requests -> {"none", "ok", "failed"}]
      /\ audit'[r] \in {audit[r], "failed"}
      /\ \A q \in Requests \ {r} : audit'[q] = audit[q]
  <2>1. CASE UNCHANGED audit
    BY <2>1 DEF TypeOK
  <2>2. CASE Record(r, "failed")
    BY <2>2, RecordFacts
  <2> QED
    BY <1>2, <2>1, <2>2
<1> QED
  BY <1>1, <1>3, RespondFacts

LEMMA FailFacts ==
  ASSUME TypeOK, NEW r \in Requests, Fail(r)
  PROVE  /\ pc' \in [Requests -> Steps] /\ code' \in [Requests -> Codes]
         /\ audit' \in [Requests -> {"none", "ok", "failed"}]
         /\ pc'[r] = "done" /\ code'[r] = 500 /\ audit'[r] \in {audit[r], "failed"}
         /\ \A q \in Requests \ {r} :
              pc'[q] = pc[q] /\ code'[q] = code[q] /\ audit'[q] = audit[q]
<1>1. 500 \in Codes
  BY DEF Codes
<1> QED
  BY <1>1, RespondFacts, RecordFacts DEF Fail

(* A handler goes on to the next step of its flow, answers, or repeats a    *)
(* step for another file.                                                   *)
LEMMA Moves ==
  ASSUME TypeOK, NEW r \in Requests, OnItsWay(r), Issue(r) \/ Serve(r)
  PROVE  /\ pc[r] \notin {"done", "dead"}
         /\ pc'[r] \in {After(r), "done", pc[r]}
         /\ pc[r] = "audit" => Audit(r) /\ pc'[r] = "done"
         /\ pc'[r] = "audit" => Apply(r) \/ SkipApply(r) \/ Kind(r) \in {"get", "backup"}
<1>1. \/ pc[r] \in Steps \ {"audit", "done", "dead"}
      \/ pc[r] = "audit" /\ Audit(r)
  BY DEF Serve, Issue, Decode, Check, Read, Backup, Copy, BackupFails, Write, Restore, WriteFails,
         Etag, Apply, SkipApply, ApplyFails, Audit, Steps
<1>2. pc[r] # "audit" => NextOf(Kind(r), pc[r], After(r)) /\ After(r) \in Steps
  BY <1>1, AfterIs
<1>3. {200, 202, 400, 409, 412, 500} \subseteq Codes
  BY DEF Codes
<1>4. Audit(r) \/ ApplyFails(r) => pc'[r] = "done"
  BY <1>3, RespondFacts DEF Audit, ApplyFails
<1>5. pc'[r] \in {After(r), "done", pc[r]}
  BY <1>1, <1>2, <1>3, <1>4, AdvanceFacts, RespondFacts, RefuseFacts, FailFacts
  DEF Serve, Issue, Decode, Check, Read, Backup, Copy, BackupFails, Write, Restore, Tick,
      WriteFails, Etag, Apply, SkipApply
<1>6. pc'[r] = "audit" => pc[r] = "apply" \/ Kind(r) \in {"get", "backup"}
  BY <1>1, <1>2, <1>4, <1>5 DEF NextOf, Steps
<1>7. pc[r] = "apply" => Apply(r) \/ SkipApply(r) \/ ApplyFails(r)
  BY DEF Serve, Issue, Decode, Check, Read, Backup, Copy, BackupFails, Write, Restore, WriteFails,
         Etag, Audit
<1> QED
  BY <1>1, <1>4, <1>5, <1>6, <1>7

-----------------------------------------------------------------------------
(* Typing. *)

LEMMA ServeTypeOK ==
  ASSUME TypeOK, NEW r \in Requests, OnItsWay(r), Issue(r) \/ Serve(r)
  PROVE  TypeOK'
<1>1. pc[r] \notin {"audit", "done", "dead"} => After(r) \in Steps
  BY AfterIs
<1>2. CASE Issue(r)
  BY <1>1, <1>2 DEF Issue, Advance, TypeOK, files, saves, mine
<1>3. CASE Decode(r)
  <2>1. 400 \in Codes
    BY DEF Codes
  <2>2. CASE Advance(r) /\ UNCHANGED <<audit, code>>
    BY <1>1, <1>3, <2>2, AdvanceFacts DEF Decode, TypeOK, files, saves, mine
  <2>3. CASE Refuse(r, 400)
    BY <1>3, <2>1, <2>3, RefuseFacts DEF Decode, TypeOK, files, saves, mine
  <2> QED
    BY <1>3, <2>2, <2>3 DEF Decode
<1>4. CASE Check(r)
  <2>1. 412 \in Codes
    BY DEF Codes
  <2>2. CASE Advance(r) /\ UNCHANGED <<audit, code>>
    BY <1>1, <1>4, <2>2, AdvanceFacts DEF Check, TypeOK, files, saves, mine
  <2>3. CASE Refuse(r, 412)
    BY <1>4, <2>1, <2>3, RefuseFacts DEF Check, TypeOK, files, saves, mine
  <2> QED
    BY <1>4, <2>2, <2>3 DEF Check
<1>5. CASE Read(r)
  <2>1. Kind(r) \notin {"csv", "restore", "backup", "restart"}
    BY <1>5, AfterIs DEF Read, NextOf
  <2>2. content[arg[r].file] \in {Missing} \cup Contents
    BY <2>1, ArgFacts DEF TypeOK, Kind
  <2>3. {400, 409, 500} \subseteq Codes
    BY DEF Codes
  <2>4. CASE Advance(r) /\ UNCHANGED <<audit, code>> /\ base' = [base EXCEPT ![r] = content[arg[r].file]]
    BY <1>1, <1>5, <2>2, <2>4, AdvanceFacts DEF Read, TypeOK, files, saves
  <2>5. ASSUME NEW status \in {400, 409, 500}, Refuse(r, status), UNCHANGED base
        PROVE  TypeOK'
    BY <1>5, <2>3, <2>5, RefuseFacts DEF Read, TypeOK, files, saves
  <2> QED
    BY <1>5, <2>4, <2>5 DEF Read
<1>6. CASE Backup(r)
  BY <1>1, <1>6 DEF Backup, Advance, TypeOK, files
<1>7. ASSUME NEW f \in Files, Copy(r, f) PROVE TypeOK'
  <2> DEFINE c == IF content[f] = Missing THEN None ELSE content[f]
             k == [copies[r] EXCEPT ![f] = c]
  <2>1. k \in [Files -> {None} \cup Contents]
    BY DEF TypeOK
  <2>2. copies' = [copies EXCEPT ![r] = k]
    BY <1>7 DEF Copy, TypeOK
  <2>3. Targets(r) \subseteq Files
    BY <1>7, AfterIs, TargetsAreFiles DEF Copy, NextOf
  <2> HIDE DEF k
  <2>4. copies' \in [Requests -> [Files -> {None} \cup Contents]]
    BY <2>1, <2>2 DEF TypeOK
  <2>5. todo' \in [Requests -> SUBSET Files]
    <3>1. \/ todo' = [todo EXCEPT ![r] = Targets(r)]
          \/ todo' = [todo EXCEPT ![r] = todo[r] \ {f}]
      BY <1>7 DEF Copy
    <3>2. todo \in [Requests -> SUBSET Files]
      BY DEF TypeOK
    <3>3. Targets(r) \in SUBSET Files /\ todo[r] \ {f} \in SUBSET Files
      BY <2>3, <3>2
    <3> QED
      BY <3>1, <3>2, <3>3
  <2>6. pc' \in [Requests -> Steps]
    BY <1>1, <1>7, AdvanceFacts DEF Copy, TypeOK
  <2> QED
    BY <1>7, <2>4, <2>5, <2>6 DEF Copy, TypeOK, files
<1>8. CASE BackupFails(r)
  BY <1>8, FailFacts DEF BackupFails, TypeOK, files, saves, mine
<1>9. ASSUME NEW f \in Files, Write(r, f) PROVE TypeOK'
  <2>1. Edited(r) \in Contents
    BY EditedIsContent
  <2> QED
    BY <1>1, <1>9, <2>1, InstallTypes DEF Write, Tick, Advance, TypeOK, saves
<1>10. ASSUME NEW f \in Files, Restore(r, f) PROVE TypeOK'
  <2>1. CASE copies[arg[r].from][f] = None
    BY <1>1, <1>10, <2>1 DEF Restore, Tick, Advance, TypeOK, saves, files
  <2>2. CASE copies[arg[r].from][f] # None
    <3>1. Kind(r) = "restore"
      BY <1>10, AfterIs DEF Restore, NextOf
    <3>2. copies[arg[r].from][f] \in Contents
      BY <2>2, <3>1, ArgFacts DEF TypeOK, Kind
    <3> QED
      BY <1>1, <1>10, <2>2, <3>2, InstallTypes DEF Restore, Tick, Advance, TypeOK, saves
  <2> QED
    BY <2>1, <2>2
<1>11. CASE WriteFails(r)
  BY <1>11, FailFacts DEF WriteFails, TypeOK, files, saves, mine
<1>12. CASE Etag(r)
  <2>1. Kind(r) \notin {"csv", "restore", "backup", "restart"}
    BY <1>12, AfterIs DEF Etag, NextOf
  <2>2. content[arg[r].file] \in {Missing} \cup Contents
    BY <2>1, ArgFacts DEF TypeOK, Kind
  <2>3. Revision(content[arg[r].file]) \in Tags
    BY <2>2 DEF Revision, Tags
  <2>4. tag' \in [Requests -> Tags]
    BY <1>12, <2>3 DEF Etag, TypeOK
  <2>5. 200 \in Codes
    BY DEF Codes
  <2>6. pc' \in [Requests -> Steps] /\ code' \in [Requests -> Codes]
    BY <1>1, <1>12, <2>5, AdvanceFacts, RespondFacts DEF Etag, TypeOK
  <2> QED
    BY <1>12, <2>4, <2>6 DEF Etag, TypeOK, files, saves
<1>13. CASE Apply(r)
  BY <1>1, <1>13 DEF Apply, Advance, TypeOK, files, saves, mine
<1>14. CASE SkipApply(r)
  BY <1>1, <1>14 DEF SkipApply, Advance, TypeOK, files, saves, mine
<1>15. CASE ApplyFails(r)
  <2>1. 500 \in Codes /\ 202 \in Codes
    BY DEF Codes
  <2> QED
    BY <1>15, <2>1, RespondFacts, RecordFacts DEF ApplyFails, TypeOK, files, saves, mine
<1>16. CASE Audit(r)
  <2>1. 200 \in Codes
    BY DEF Codes
  <2> QED
    BY <1>16, <2>1, RespondFacts, RecordFacts DEF Audit, TypeOK, files, saves, mine
<1> QED
  BY <1>2, <1>3, <1>4, <1>5, <1>6, <1>7, <1>8, <1>9, <1>10, <1>11, <1>12, <1>13, <1>14, <1>15, <1>16
  DEF Serve

LEMMA NextTypeOK ==
  ASSUME TypeOK, \A r \in Requests : OnItsWay(r), [Next]_vars
  PROVE  TypeOK'
<1>1. CASE Kill
  BY <1>1 DEF Kill, TypeOK, Steps, files, saves, mine
<1>2. CASE UNCHANGED vars
  BY <1>2 DEF vars, TypeOK
<1> QED
  BY <1>1, <1>2, ServeTypeOK DEF Next, Idle

-----------------------------------------------------------------------------
(* Each request stays consistent. *)

(* What a request is for never changes. *)
LEMMA SameArg ==
  ASSUME NEW r \in Requests, arg'[r] = arg[r]
  PROVE  Kind(r)' = Kind(r) /\ Targets(r)' = Targets(r)
<1>1. Kind(r)' = Kind(r)
  BY DEF Kind
<1> QED
  BY <1>1 DEF Targets

LEMMA SameWrote ==
  ASSUME NEW r \in Requests, wrote'[r] = wrote[r]
  PROVE  Wrote(r)' = Wrote(r)
  BY DEF Wrote

(* A step of another request. *)
LEMMA Untouched ==
  ASSUME NEW r \in Requests, Consistent(r),
         arg'[r] = arg[r], pc'[r] = pc[r], todo'[r] = todo[r], wrote'[r] = wrote[r],
         code'[r] = code[r], audit'[r] = audit[r]
  PROVE  Consistent(r)'
<1>1. Kind(r)' = Kind(r) /\ Targets(r)' = Targets(r) /\ Wrote(r)' = Wrote(r)
  BY SameArg, SameWrote
<1> QED
  BY <1>1 DEF Consistent, OnItsWay, NotWrittenYet, StillToWrite, WrittenByNow, NotAnsweredYet,
              HonestAnswer, HonestAudit

(* A step that writes nothing and goes on to the next. *)
LEMMA GoesOn ==
  ASSUME TypeOK, NEW r \in Requests, Consistent(r),
         pc[r] \in {"new", "decode", "check", "read", "backup", "etag", "apply"},
         arg'[r] = arg[r], wrote'[r] = wrote[r], code'[r] = code[r], audit'[r] = audit[r],
         pc[r] # "backup" => todo'[r] = todo[r],
         pc'[r] = After(r), After(r) # "done"
  PROVE  Consistent(r)'
<1>1. Kind(r)' = Kind(r) /\ Targets(r)' = Targets(r) /\ Wrote(r)' = Wrote(r)
  BY SameArg, SameWrote
<1>2. Kind(r) \in AllKinds /\ NextOf(Kind(r), pc[r], After(r))
  BY AfterIs DEF Consistent
<1>3. OnItsWay(r)'
  BY <1>1, <1>2 DEF NextOf, OnItsWay
<1>4. NotWrittenYet(r)'
  BY <1>1, <1>2 DEF NextOf, Consistent, NotWrittenYet
<1>5. StillToWrite(r)'
  BY <1>1, <1>2 DEF NextOf, Consistent, StillToWrite
<1>6. WrittenByNow(r)'
  BY <1>1, <1>2 DEF NextOf, Consistent, WrittenByNow
<1>7. NotAnsweredYet(r)' /\ HonestAnswer(r)' /\ HonestAudit(r)'
  BY <1>1 DEF Consistent, NotAnsweredYet, HonestAnswer, HonestAudit
<1> QED
  BY <1>3, <1>4, <1>5, <1>6, <1>7 DEF Consistent

(* A step that answers with an error. *)
LEMMA GivesUp ==
  ASSUME TypeOK, NEW r \in Requests, Consistent(r),
         pc[r] \in {"decode", "check", "read", "backup", "copy", "write", "restore"},
         arg'[r] = arg[r], wrote'[r] = wrote[r],
         pc'[r] = "done", audit'[r] \in {audit[r], "failed"},
         code'[r] \in {400, 409, 412, 500},
         pc[r] \in {"write", "restore"} => code'[r] = 500
  PROVE  Consistent(r)'
<1>1. Kind(r)' = Kind(r) /\ Targets(r)' = Targets(r) /\ Wrote(r)' = Wrote(r)
  BY SameArg, SameWrote
<1>2. Kind(r) \in AllKinds /\ NextOf(Kind(r), pc[r], After(r))
  BY AfterIs DEF Consistent
<1>3. audit[r] = "none"
  BY DEF Consistent, NotAnsweredYet
<1>4. Wrote(r) = {} \/ (Kind(r) \in {"csv", "restore"} /\ code'[r] = 500)
  BY <1>2 DEF NextOf, Consistent, NotWrittenYet
<1>5. OnItsWay(r)' /\ StillToWrite(r)' /\ WrittenByNow(r)' /\ NotAnsweredYet(r)'
  BY DEF OnItsWay, StillToWrite, WrittenByNow, NotAnsweredYet
<1>6. NotWrittenYet(r)'
  BY <1>1 DEF Consistent, NotWrittenYet
<1>7. HonestAnswer(r)' /\ HonestAudit(r)'
  BY <1>1, <1>3, <1>4 DEF HonestAnswer, HonestAudit
<1> QED
  BY <1>5, <1>6, <1>7 DEF Consistent

(* A file is installed, or left alone by a restore, and ticked off. *)
LEMMA GetsOneDone ==
  ASSUME TypeOK, NEW r \in Requests, Consistent(r), NEW f \in Files,
         f \in todo[r],
         pc[r] \in {"write", "restore"},
         arg'[r] = arg[r], code'[r] = code[r], audit'[r] = audit[r],
         todo'[r] = todo[r] \ {f},
         IF todo[r] = {f} THEN pc'[r] = After(r) ELSE pc'[r] = pc[r],
         Wrote(r) \subseteq Wrote(r)',
         pc[r] = "write" => f \in Wrote(r)'
  PROVE  Consistent(r)'
<1>1. Kind(r)' = Kind(r) /\ Targets(r)' = Targets(r)
  BY SameArg
<1>2. Kind(r) \in AllKinds /\ NextOf(Kind(r), pc[r], After(r))
  BY AfterIs DEF Consistent
<1>3. pc[r] = "write" /\ Kind(r) # "csv" => todo[r] = {f}
  BY <1>2, TargetsAreFiles DEF NextOf, Consistent, StillToWrite
<1>4. OnItsWay(r)'
  BY <1>1, <1>2 DEF NextOf, Consistent, OnItsWay
<1>5. NotWrittenYet(r)'
  BY <1>1, <1>2, <1>3 DEF NextOf, NotWrittenYet
<1>6. StillToWrite(r)'
  BY <1>1, <1>2 DEF NextOf, Consistent, StillToWrite
<1>7. WrittenByNow(r)'
  BY <1>1, <1>2 DEF NextOf, Consistent, StillToWrite, WrittenByNow
<1>8. code[r] = 0 /\ audit[r] = "none"
  BY DEF Consistent, NotAnsweredYet
<1>9. NotAnsweredYet(r)' /\ HonestAnswer(r)' /\ HonestAudit(r)'
  BY <1>8 DEF NotAnsweredYet, HonestAnswer, HonestAudit
<1> QED
  BY <1>4, <1>5, <1>6, <1>7, <1>9 DEF Consistent

(* A step of request r leaves the other requests alone. *)
LEMMA OthersUntouched ==
  ASSUME TypeOK, NEW r \in Requests, OnItsWay(r), Issue(r) \/ Serve(r),
         NEW q \in Requests, q # r
  PROVE  /\ arg'[q] = arg[q] /\ pc'[q] = pc[q] /\ todo'[q] = todo[q]
         /\ wrote'[q] = wrote[q] /\ code'[q] = code[q] /\ audit'[q] = audit[q]
<1>1. CASE Issue(r)
  BY <1>1 DEF Issue, Advance, TypeOK, mine
<1>2. CASE Decode(r)
  BY <1>2 DEF Decode, Advance, Refuse, Respond, Record, TypeOK, mine
<1>3. CASE Check(r)
  BY <1>3 DEF Check, Advance, Refuse, Respond, Record, TypeOK, mine
<1>4. CASE Read(r)
  BY <1>4 DEF Read, Advance, Refuse, Respond, Record, TypeOK
<1>5. CASE Backup(r)
  BY <1>5 DEF Backup, Advance, TypeOK
<1>6. ASSUME NEW f \in Files, Copy(r, f)
      PROVE  /\ todo'[q] = todo[q] /\ pc'[q] = pc[q]
             /\ UNCHANGED <<arg, wrote, code, audit>>
  BY <1>6 DEF Copy, Advance, TypeOK
<1>7. CASE BackupFails(r)
  BY <1>7, FailFacts DEF BackupFails, mine
<1>8. ASSUME NEW f \in Files, Write(r, f)
      PROVE  /\ todo'[q] = todo[q] /\ pc'[q] = pc[q] /\ wrote'[q] = wrote[q]
             /\ UNCHANGED <<arg, code, audit>>
  BY <1>8, EditedIsContent, InstallTypes DEF Write, Tick, Advance, TypeOK
<1>9. ASSUME NEW f \in Files, Restore(r, f)
      PROVE  /\ todo'[q] = todo[q] /\ pc'[q] = pc[q] /\ wrote'[q] = wrote[q]
             /\ UNCHANGED <<arg, code, audit>>
  BY <1>9 DEF Restore, Install, Tick, Advance, TypeOK, files
<1>10. CASE WriteFails(r)
  BY <1>10, FailFacts DEF WriteFails, mine
<1>11. CASE Etag(r)
  BY <1>11 DEF Etag, Advance, Respond, TypeOK
<1>12. CASE Apply(r)
  BY <1>12 DEF Apply, Advance, TypeOK, mine
<1>13. CASE SkipApply(r)
  BY <1>13 DEF SkipApply, Advance, TypeOK, mine
<1>14. CASE ApplyFails(r)
  BY <1>14 DEF ApplyFails, Respond, Record, TypeOK, mine
<1>15. CASE Audit(r)
  BY <1>15 DEF Audit, Respond, Record, TypeOK, mine
<1> QED
  BY <1>1, <1>2, <1>3, <1>4, <1>5, <1>6, <1>7, <1>8, <1>9, <1>10, <1>11, <1>12, <1>13, <1>14, <1>15
  DEF Serve

(* What a step of request r does to r. *)
LEMMA StaysConsistent ==
  ASSUME TypeOK, NEW r \in Requests, Consistent(r), Issue(r) \/ Serve(r)
  PROVE  Consistent(r)'
<1>1. OnItsWay(r)
  BY DEF Consistent
<1>2. pc[r] \notin {"audit", "done", "dead"} =>
        /\ Kind(r) \in AllKinds
        /\ NextOf(Kind(r), pc[r], After(r))
        /\ After(r) \in Steps
  BY <1>1, AfterIs
<1>3. {200, 202, 400, 409, 412, 500} \subseteq Codes
  BY DEF Codes
<1>4. CASE Issue(r)
  <2>1. pc[r] = "new" /\ Advance(r) /\ UNCHANGED <<arg, todo, wrote, code, audit>>
    BY <1>4 DEF Issue, mine
  <2>2. pc'[r] = After(r) /\ After(r) # "done"
    BY <1>2, <2>1, AdvanceFacts DEF NextOf
  <2> QED
    BY <2>1, <2>2, GoesOn
<1>5. CASE Decode(r)
  <2>1. pc[r] = "decode" /\ UNCHANGED <<arg, todo, wrote>>
    BY <1>5 DEF Decode, mine
  <2>2. CASE Advance(r) /\ UNCHANGED <<audit, code>>
    BY <1>2, <2>1, <2>2, AdvanceFacts, GoesOn DEF NextOf
  <2>3. CASE Refuse(r, 400)
    BY <1>3, <2>1, <2>3, RefuseFacts, GivesUp
  <2> QED
    BY <1>5, <2>2, <2>3 DEF Decode
<1>6. CASE Check(r)
  <2>1. pc[r] = "check" /\ UNCHANGED <<arg, todo, wrote>>
    BY <1>6 DEF Check, mine
  <2>2. CASE Advance(r) /\ UNCHANGED <<audit, code>>
    BY <1>2, <2>1, <2>2, AdvanceFacts, GoesOn DEF NextOf
  <2>3. CASE Refuse(r, 412)
    BY <1>3, <2>1, <2>3, RefuseFacts, GivesUp
  <2> QED
    BY <1>6, <2>2, <2>3 DEF Check
<1>7. CASE Read(r)
  <2>1. pc[r] = "read" /\ UNCHANGED <<arg, todo, wrote>>
    BY <1>7 DEF Read
  <2>2. CASE Advance(r) /\ UNCHANGED <<audit, code>>
    BY <1>2, <2>1, <2>2, AdvanceFacts, GoesOn DEF NextOf
  <2>3. ASSUME NEW status \in {400, 409, 500}, Refuse(r, status)
        PROVE  Consistent(r)'
    BY <1>3, <2>1, <2>3, RefuseFacts, GivesUp
  <2> QED
    BY <1>7, <2>2, <2>3 DEF Read
<1>8. CASE Backup(r)
  <2>1. pc[r] = "backup" /\ Advance(r) /\ UNCHANGED <<arg, wrote, code, audit>>
    BY <1>8 DEF Backup
  <2>2. pc'[r] = After(r) /\ After(r) # "done"
    BY <1>2, <2>1, AdvanceFacts DEF NextOf
  <2> QED
    BY <2>1, <2>2, GoesOn
<1>9. ASSUME NEW f \in Files, Copy(r, f) PROVE Consistent(r)'
  <2>1. /\ pc[r] = "copy"
        /\ UNCHANGED <<arg, wrote, code, audit>>
        /\ \/ Advance(r) /\ todo' = [todo EXCEPT ![r] = Targets(r)]
           \/ UNCHANGED pc
    BY <1>9 DEF Copy
  <2>2. /\ Kind(r)' = Kind(r) /\ Targets(r)' = Targets(r) /\ Wrote(r)' = Wrote(r)
        /\ Wrote(r) = {}
    BY <2>1, SameArg, SameWrote DEF Consistent, NotWrittenYet
  <2>3. CASE Advance(r) /\ todo' = [todo EXCEPT ![r] = Targets(r)]
    <3>1. pc'[r] = After(r) /\ todo'[r] = Targets(r)
      BY <1>2, <2>1, <2>3, AdvanceFacts DEF TypeOK
    <3>2. After(r) = "audit" => Targets(r) = {}
      BY <1>2, <2>1, TargetsAreFiles DEF NextOf
    <3>3. OnItsWay(r)' /\ NotWrittenYet(r)'
      BY <1>2, <2>1, <2>2, <3>1 DEF NextOf, OnItsWay, NotWrittenYet
    <3>4. StillToWrite(r)' /\ WrittenByNow(r)'
      BY <1>2, <2>1, <2>2, <3>1, <3>2 DEF NextOf, StillToWrite, WrittenByNow
    <3>5. NotAnsweredYet(r)' /\ HonestAnswer(r)' /\ HonestAudit(r)'
      BY <2>1, <2>2 DEF Consistent, NotAnsweredYet, HonestAnswer, HonestAudit
    <3> QED
      BY <3>3, <3>4, <3>5 DEF Consistent
  <2>4. CASE UNCHANGED pc
    BY <2>1, <2>2, <2>4
    DEF Consistent, OnItsWay, NotWrittenYet, StillToWrite, WrittenByNow, NotAnsweredYet,
        HonestAnswer, HonestAudit
  <2> QED
    BY <2>1, <2>3, <2>4
<1>10. CASE BackupFails(r)
  <2>1. pc[r] \in {"backup", "copy"} /\ Fail(r) /\ UNCHANGED <<arg, wrote>>
    BY <1>10 DEF BackupFails, mine
  <2> QED
    BY <2>1, FailFacts, GivesUp
<1>11. ASSUME NEW f \in Files, Write(r, f) PROVE Consistent(r)'
  <2>1. /\ pc[r] = "write" /\ f \in todo[r] /\ Install(r, f, Edited(r)) /\ Tick(r, f)
        /\ UNCHANGED <<arg, code, audit>>
    BY <1>11 DEF Write
  <2>2. /\ wrote'[r][f] = ver[f] + 1 /\ ver[f] \in Nat
        /\ \A g \in Files \ {f} : wrote'[r][g] = wrote[r][g]
    BY <2>1, EditedIsContent, InstallTypes DEF TypeOK
  <2>3. Wrote(r) \subseteq Wrote(r)' /\ f \in Wrote(r)'
    BY <2>2 DEF Wrote
  <2>4. todo'[r] = todo[r] \ {f} /\ IF todo[r] = {f} THEN pc'[r] = After(r) ELSE pc'[r] = pc[r]
    BY <1>2, <2>1, AdvanceFacts DEF Tick, TypeOK
  <2> QED
    BY <2>1, <2>3, <2>4, GetsOneDone
<1>12. ASSUME NEW f \in Files, Restore(r, f) PROVE Consistent(r)'
  <2>1. /\ pc[r] = "restore" /\ f \in todo[r] /\ Tick(r, f)
        /\ UNCHANGED <<arg, code, audit>>
    BY <1>12 DEF Restore
  <2>2. Wrote(r) \subseteq Wrote(r)'
    <3>1. CASE UNCHANGED wrote
      BY <3>1, SameWrote
    <3>2. CASE copies[arg[r].from][f] # None
      <4>1. Kind(r) = "restore"
        BY <1>2, <2>1 DEF NextOf
      <4>2. copies[arg[r].from][f] \in Contents
        BY <3>2, <4>1, ArgFacts DEF TypeOK, Kind
      <4>3. Install(r, f, copies[arg[r].from][f])
        BY <1>12, <3>2 DEF Restore
      <4>4. /\ wrote'[r][f] = ver[f] + 1 /\ ver[f] \in Nat
            /\ \A g \in Files \ {f} : wrote'[r][g] = wrote[r][g]
        BY <4>2, <4>3, InstallTypes DEF TypeOK
      <4> QED
        BY <4>4 DEF Wrote
    <3> QED
      BY <1>12, <3>1, <3>2 DEF Restore
  <2>3. todo'[r] = todo[r] \ {f} /\ IF todo[r] = {f} THEN pc'[r] = After(r) ELSE pc'[r] = pc[r]
    BY <1>2, <2>1, AdvanceFacts DEF Tick, TypeOK
  <2> QED
    BY <2>1, <2>2, <2>3, GetsOneDone
<1>13. CASE WriteFails(r)
  <2>1. pc[r] \in {"write", "restore"} /\ Fail(r) /\ UNCHANGED <<arg, wrote>>
    BY <1>13 DEF WriteFails, mine
  <2> QED
    BY <2>1, FailFacts, GivesUp
<1>14. CASE Etag(r)
  <2>1. pc[r] = "etag" /\ UNCHANGED <<arg, todo, wrote, audit>>
    BY <1>14 DEF Etag
  <2>2. CASE After(r) = "done"
    <3>1. pc'[r] = "done" /\ code'[r] = 200
      BY <1>3, <1>14, <2>2, RespondFacts DEF Etag
    <3>2. Kind(r)' = Kind(r) /\ Targets(r)' = Targets(r) /\ Wrote(r)' = Wrote(r)
      BY <2>1, SameArg, SameWrote
    <3>3. audit'[r] = "none"
      BY <2>1 DEF Consistent, NotAnsweredYet
    <3> QED
      BY <3>1, <3>2, <3>3
      DEF Consistent, OnItsWay, NotWrittenYet, StillToWrite, WrittenByNow, NotAnsweredYet,
          HonestAnswer, HonestAudit
  <2>3. CASE After(r) # "done"
    BY <1>2, <1>14, <2>1, <2>3, AdvanceFacts, GoesOn DEF Etag
  <2> QED
    BY <2>2, <2>3
<1>15. CASE Apply(r)
  <2>1. pc[r] = "apply" /\ Advance(r) /\ UNCHANGED <<arg, todo, wrote, code, audit>>
    BY <1>15 DEF Apply, mine
  <2> QED
    BY <1>2, <2>1, AdvanceFacts, GoesOn DEF NextOf
<1>16. CASE SkipApply(r)
  <2>1. pc[r] = "apply" /\ Advance(r) /\ UNCHANGED <<arg, todo, wrote, code, audit>>
    BY <1>16 DEF SkipApply, mine
  <2> QED
    BY <1>2, <2>1, AdvanceFacts, GoesOn DEF NextOf
<1>17. CASE ApplyFails(r)
  <2>1. /\ pc[r] = "apply" /\ UNCHANGED <<arg, todo, wrote>>
        /\ Respond(r, IF Kind(r) = "restart" THEN 500 ELSE 202) /\ Record(r, "failed")
    BY <1>17 DEF ApplyFails, mine
  <2>2. /\ pc'[r] = "done" /\ code'[r] = (IF Kind(r) = "restart" THEN 500 ELSE 202)
        /\ audit'[r] \in {audit[r], "failed"}
    BY <1>3, <2>1, RespondFacts, RecordFacts
  <2>3. Kind(r)' = Kind(r) /\ Targets(r)' = Targets(r) /\ Wrote(r)' = Wrote(r)
    BY <2>1, SameArg, SameWrote
  <2>4. audit[r] = "none" /\ (Kind(r) = "restart" => Wrote(r) = {})
    BY <2>1 DEF Consistent, NotAnsweredYet, NotWrittenYet
  <2>5. HonestAnswer(r)' /\ HonestAudit(r)'
    BY <2>2, <2>3, <2>4 DEF HonestAnswer, HonestAudit
  <2> QED
    BY <2>2, <2>3, <2>5
    DEF Consistent, OnItsWay, NotWrittenYet, StillToWrite, WrittenByNow, NotAnsweredYet
<1>18. CASE Audit(r)
  <2>1. /\ pc[r] = "audit" /\ UNCHANGED <<arg, todo, wrote>>
        /\ Respond(r, 200) /\ Record(r, "ok")
    BY <1>18 DEF Audit, mine
  <2>2. pc'[r] = "done" /\ code'[r] = 200 /\ audit'[r] \in {"none", "ok"}
    BY <1>3, <2>1, RespondFacts, RecordFacts DEF Consistent, NotAnsweredYet
  <2>3. Kind(r)' = Kind(r) /\ Targets(r)' = Targets(r) /\ Wrote(r)' = Wrote(r)
    BY <2>1, SameArg, SameWrote
  <2>4. Kind(r) \notin {"restore", "restart"} => Targets(r) \subseteq Wrote(r)
    BY <2>1 DEF Consistent, WrittenByNow
  <2>5. HonestAnswer(r)' /\ HonestAudit(r)'
    BY <2>2, <2>3, <2>4 DEF HonestAnswer, HonestAudit
  <2> QED
    BY <2>2, <2>3, <2>5
    DEF Consistent, OnItsWay, NotWrittenYet, StillToWrite, WrittenByNow, NotAnsweredYet
<1> QED
  BY <1>4, <1>5, <1>6, <1>7, <1>8, <1>9, <1>10, <1>11, <1>12, <1>13, <1>14, <1>15, <1>16, <1>17, <1>18
  DEF Serve

-----------------------------------------------------------------------------
(* Versions. *)

(* What a step does to the versions of the files. *)
LEMMA VersionSteps ==
  ASSUME TypeOK, NEW r \in Requests, OnItsWay(r), Issue(r) \/ Serve(r)
  PROVE  /\ \A f \in Files : ver[f] <= ver'[f]
         /\ loaded' \in {loaded, ver}
         /\ \A f \in Files : wrote'[r][f] \in {wrote[r][f], ver'[f]}
<1>1. \A f \in Files : ver[f] \in Nat
  BY DEF TypeOK
<1>2. ASSUME NEW f \in Files, NEW c \in Contents, Install(r, f, c)
      PROVE  \A g \in Files : ver[g] <= ver'[g] /\ wrote'[r][g] \in {wrote[r][g], ver'[g]}
  BY <1>1, <1>2, InstallTypes
<1>3. CASE UNCHANGED <<ver, wrote, loaded>>
  BY <1>1, <1>3
<1>4. ASSUME NEW f \in Files, Write(r, f)
      PROVE  /\ loaded' = loaded
             /\ \A g \in Files : ver[g] <= ver'[g] /\ wrote'[r][g] \in {wrote[r][g], ver'[g]}
  <2>1. Install(r, f, Edited(r)) /\ loaded' = loaded
    BY <1>4 DEF Write
  <2> QED
    BY <1>2, <2>1, EditedIsContent
<1>5. ASSUME NEW f \in Files, Restore(r, f)
      PROVE  /\ loaded' = loaded
             /\ \A g \in Files : ver[g] <= ver'[g] /\ wrote'[r][g] \in {wrote[r][g], ver'[g]}
  <2>1. CASE UNCHANGED <<ver, wrote>>
    BY <1>1, <1>5, <2>1 DEF Restore
  <2>2. CASE copies[arg[r].from][f] # None
    <3>1. Kind(r) = "restore"
      BY <1>5, AfterIs DEF Restore, NextOf
    <3>2. copies[arg[r].from][f] \in Contents
      BY <2>2, <3>1, ArgFacts DEF TypeOK, Kind
    <3>3. Install(r, f, copies[arg[r].from][f]) /\ loaded' = loaded
      BY <1>5, <2>2 DEF Restore
    <3> QED
      BY <1>2, <3>2, <3>3
  <2> QED
    BY <1>5, <2>1, <2>2 DEF Restore, files
<1>6. CASE Apply(r)
  BY <1>1, <1>6 DEF Apply, files, mine
<1>7. \/ UNCHANGED <<ver, wrote, loaded>>
      \/ (\E f \in Files : Write(r, f) \/ Restore(r, f))
      \/ Apply(r)
  BY DEF Serve, Issue, Decode, Check, Read, Backup, Copy, BackupFails, WriteFails, Etag,
         SkipApply, ApplyFails, Audit, files, mine
<1> QED
  BY <1>3, <1>4, <1>5, <1>6, <1>7

LEMMA VersionsStayInOrder ==
  ASSUME TypeOK, VersionsInOrder, NEW r \in Requests, OnItsWay(r), Issue(r) \/ Serve(r), TypeOK'
  PROVE  VersionsInOrder'
<1> SUFFICES ASSUME NEW f \in Files, NEW q \in Requests
             PROVE  loaded'[f] <= ver'[f] /\ wrote'[q][f] <= ver'[f]
  BY DEF VersionsInOrder
<1>1. /\ ver[f] \in Nat /\ ver'[f] \in Nat /\ loaded[f] \in Nat /\ wrote[q][f] \in Nat
  BY DEF TypeOK
<1>2. loaded[f] <= ver[f] /\ wrote[q][f] <= ver[f]
  BY DEF VersionsInOrder
<1>3. ver[f] <= ver'[f] /\ loaded'[f] \in {loaded[f], ver[f]}
  BY VersionSteps
<1>4. wrote'[q][f] \in {wrote[q][f], ver'[f]}
  BY VersionSteps, OthersUntouched
<1> QED
  BY <1>1, <1>2, <1>3, <1>4

(* A handler that changes something answers 200 in its last step only. *)
LEMMA OnlyAuditSucceeds ==
  ASSUME TypeOK, NEW r \in Requests, OnItsWay(r), Issue(r) \/ Serve(r),
         Kind(r) # "get", code[r] # 200, code'[r] = 200
  PROVE  Audit(r)
<1>1. {200, 202, 400, 409, 412, 500} \subseteq Codes
  BY DEF Codes
<1>2. CASE Decode(r) \/ Check(r)
  BY <1>1, <1>2, RefuseFacts DEF Decode, Check
<1>3. CASE Read(r)
  BY <1>1, <1>3, RefuseFacts DEF Read
<1>4. CASE BackupFails(r) \/ WriteFails(r)
  BY <1>4, FailFacts DEF BackupFails, WriteFails
<1>5. CASE Etag(r)
  BY <1>5, AfterIs DEF Etag, NextOf
<1>6. CASE ApplyFails(r)
  BY <1>1, <1>6, RespondFacts DEF ApplyFails
<1> QED
  BY <1>2, <1>3, <1>4, <1>5, <1>6
  DEF Serve, Issue, Backup, Copy, Write, Restore, Apply, SkipApply

(* A request that comes to its audit step with apply set has just restarted *)
(* HR Neo; what HR Neo runs only gets newer.                                *)
LEMMA AuditedStaysLoaded ==
  ASSUME IInv, NEW r \in Requests, Issue(r) \/ Serve(r), TypeOK'
  PROVE  AuditedIsLoaded' /\ AppliedIsLoaded'
<1>1. TypeOK /\ Consistent(r) /\ OnItsWay(r)
  BY DEF IInv, Consistent
<1>2. ASSUME NEW f \in Files PROVE loaded[f] <= loaded'[f]
  <2>1. loaded[f] \in Nat /\ loaded[f] <= ver[f]
    BY DEF IInv, TypeOK, VersionsInOrder
  <2> QED
    BY <1>1, <2>1, VersionSteps
<1>3. ASSUME NEW q \in Requests, NEW f \in Files,
             wrote'[q][f] = wrote[q][f], loaded[f] >= wrote[q][f]
      PROVE  loaded'[f] >= wrote'[q][f]
  <2>1. loaded[f] \in Nat /\ loaded'[f] \in Nat /\ wrote[q][f] \in Nat
    BY <1>1 DEF TypeOK
  <2> QED
    BY <1>2, <1>3, <2>1
<1>4. ASSUME NEW q \in Requests, q # r
      PROVE  /\ (pc'[q] = "audit" \/ code'[q] = 200) /\ arg'[q].apply
                  => \A f \in Files : loaded'[f] >= wrote'[q][f]
  <2>1. /\ arg'[q] = arg[q] /\ pc'[q] = pc[q] /\ code'[q] = code[q] /\ wrote'[q] = wrote[q]
    BY <1>1, <1>4, OthersUntouched
  <2> QED
    BY <1>3, <2>1 DEF IInv, AuditedIsLoaded, AppliedIsLoaded
<1>5. arg' = arg
  BY DEF Serve, Issue, Decode, Check, Read, Backup, Copy, BackupFails, Write, Restore, WriteFails,
         Etag, Apply, SkipApply, ApplyFails, Audit
<1>6. Consistent(r)'
  BY <1>1, StaysConsistent
<1>7. pc[r] \notin {"audit", "done", "dead"} =>
        /\ Kind(r) \in AllKinds
        /\ NextOf(Kind(r), pc[r], After(r))
        /\ After(r) \in Steps
  BY <1>1, AfterIs
<1>8. {200, 202, 400, 409, 412, 500} \subseteq Codes
  BY DEF Codes
<1>9. ASSUME pc'[r] = "audit", arg[r].apply
      PROVE  \A f \in Files : loaded'[f] >= wrote'[r][f]
  <2>1. Kind(r) \notin {"get", "backup"}
    <3>1. arg[r] \in Args /\ arg[r].apply
      BY <1>1, <1>9 DEF TypeOK
    <3>2. arg[r].kind \notin {"get", "backup"}
      BY <3>1, ArgFacts
    <3> QED BY <3>2 DEF Kind
  <2>3. Apply(r)
    BY <1>1, <1>9, <2>1, Moves DEF SkipApply
  <2>4. loaded' = ver /\ wrote' = wrote
    BY <2>3 DEF Apply, mine
  <2> QED
    BY <2>4 DEF IInv, TypeOK, VersionsInOrder
<1>10. ASSUME code'[r] = 200, arg[r].apply
       PROVE  \A f \in Files : loaded'[f] >= wrote'[r][f]
  <2>1. Kind(r) \notin {"get", "backup"}
    <3>1. arg[r] \in Args /\ arg[r].apply
      BY <1>1, <1>10 DEF TypeOK
    <3>2. arg[r].kind \notin {"get", "backup"}
      BY <3>1, ArgFacts
    <3> QED BY <3>2 DEF Kind
  <2>2. CASE Audit(r)
    BY <1>3, <1>10, <2>2 DEF Audit, mine, IInv, AuditedIsLoaded
  <2>3. pc[r] # "done"
    BY <1>1, Moves
  <2>4. code[r] = 0
    BY <1>1, <2>3 DEF Consistent, NotAnsweredYet
  <2>5. Audit(r)
    BY <1>1, <1>10, <2>1, <2>4, OnlyAuditSucceeds
  <2> QED
    BY <2>2, <2>5
<1> QED
  BY <1>4, <1>5, <1>9, <1>10 DEF AuditedIsLoaded, AppliedIsLoaded

-----------------------------------------------------------------------------
(* The invariant and what follows from it. *)

LEMMA InitIInv == Init => IInv
<1> SUFFICES ASSUME Init PROVE IInv
  OBVIOUS
<1>1. TypeOK
  BY InitTypeOK
<1>2. ASSUME NEW r \in Requests PROVE Consistent(r)
  <2>1. pc[r] = "new" /\ code[r] = 0 /\ audit[r] = "none" /\ Wrote(r) = {}
    BY DEF Init, Wrote
  <2>2. "new" \in FlowOf(Kind(r))
    BY <1>1, KindIsKind, FlowSteps
  <2> QED
    BY <2>1, <2>2
    DEF Consistent, OnItsWay, NotWrittenYet, StillToWrite, WrittenByNow, NotAnsweredYet,
        HonestAnswer, HonestAudit
<1>3. VersionsInOrder /\ AuditedIsLoaded /\ AppliedIsLoaded
  BY DEF Init, VersionsInOrder, AuditedIsLoaded, AppliedIsLoaded
<1> QED
  BY <1>1, <1>2, <1>3 DEF IInv

LEMMA KillIInv ==
  ASSUME IInv, Kill, TypeOK'
  PROVE  IInv'
<1>1. \A r \in Requests : pc'[r] = IF InFlight(r) THEN "dead" ELSE pc[r]
  BY DEF Kill
<1>2. UNCHANGED <<content, ver, loaded, arg, todo, wrote, code, audit>>
  BY DEF Kill, files, mine
<1>3. ASSUME NEW r \in Requests PROVE Consistent(r)'
  <2>1. Consistent(r)
    BY DEF IInv
  <2>2. CASE pc'[r] = pc[r]
    BY <1>2, <2>1, <2>2, Untouched
  <2>3. CASE pc'[r] = "dead" /\ InFlight(r)
    <3>1. Kind(r)' = Kind(r) /\ Targets(r)' = Targets(r) /\ Wrote(r)' = Wrote(r)
      BY <1>2, SameArg, SameWrote
    <3>2. pc[r] # "done"
      BY <2>3 DEF InFlight
    <3> QED
      BY <1>2, <2>1, <2>3, <3>1, <3>2
      DEF Consistent, OnItsWay, NotWrittenYet, StillToWrite, WrittenByNow, NotAnsweredYet,
          HonestAnswer, HonestAudit
  <2> QED
    BY <1>1, <2>2, <2>3
<1>4. VersionsInOrder' /\ AuditedIsLoaded' /\ AppliedIsLoaded'
  BY <1>1, <1>2 DEF IInv, VersionsInOrder, AuditedIsLoaded, AppliedIsLoaded
<1> QED
  BY <1>3, <1>4 DEF IInv

LEMMA NextIInv == IInv /\ [Next]_vars => IInv'
<1> SUFFICES ASSUME IInv, [Next]_vars PROVE IInv'
  OBVIOUS
<1>1. TypeOK /\ \A r \in Requests : Consistent(r) /\ OnItsWay(r)
  BY DEF IInv, Consistent
<1>2. TypeOK'
  BY <1>1, NextTypeOK
<1>3. ASSUME NEW r \in Requests, Issue(r) \/ Serve(r) PROVE IInv'
  <2>1. \A q \in Requests : Consistent(q)'
    <3> SUFFICES ASSUME NEW q \in Requests PROVE Consistent(q)'
      OBVIOUS
    <3>1. CASE q = r
      BY <1>1, <1>3, <3>1, StaysConsistent
    <3>2. CASE q # r
      <4>1. /\ arg'[q] = arg[q] /\ pc'[q] = pc[q] /\ todo'[q] = todo[q]
            /\ wrote'[q] = wrote[q] /\ code'[q] = code[q] /\ audit'[q] = audit[q]
        BY <1>1, <1>3, <3>2, OthersUntouched
      <4> QED
        BY <1>1, <4>1, Untouched
    <3> QED
      BY <3>1, <3>2
  <2>2. VersionsInOrder'
    BY <1>1, <1>2, <1>3, VersionsStayInOrder DEF IInv
  <2>3. AuditedIsLoaded' /\ AppliedIsLoaded'
    BY <1>2, <1>3, AuditedStaysLoaded
  <2> QED
    BY <1>2, <2>1, <2>2, <2>3 DEF IInv
<1>4. CASE Kill
  BY <1>2, <1>4, KillIInv
<1>5. CASE UNCHANGED vars
  <2>1. ASSUME NEW r \in Requests PROVE Consistent(r)'
    BY <1>1, <1>5, Untouched DEF vars
  <2>2. VersionsInOrder' /\ AuditedIsLoaded' /\ AppliedIsLoaded'
    BY <1>5 DEF IInv, vars, VersionsInOrder, AuditedIsLoaded, AppliedIsLoaded
  <2> QED
    BY <1>2, <2>1, <2>2 DEF IInv
<1> QED
  BY <1>3, <1>4, <1>5 DEF Next, Idle

LEMMA Inductive == Spec => []IInv
  BY InitIInv, NextIInv, PTL DEF Spec

(* The variables of the request handlers keep their types: a handler goes   *)
(* on to a step of its own flow, and it copies and writes no other files    *)
(* than the three configuration files.                                      *)
THEOREM TypeCorrect == Spec => []TypeOK
<1>1. IInv => TypeOK
  BY DEF IInv
<1> QED
  BY <1>1, Inductive, PTL

(* However requests interleave and wherever the process is killed, a        *)
(* handler that answers with an error has changed no file.                  *)
THEOREM ErrorsAreHarmless == Spec => []ErrorsWriteNothing
<1>1. IInv => ErrorsWriteNothing
  BY DEF IInv, Consistent, HonestAnswer, ErrorsWriteNothing
<1> QED
  BY <1>1, Inductive, PTL

(* The entries of the audit log are true, although they are written last    *)
(* and may be lost.                                                         *)
THEOREM AuditIsTrue == Spec => []AuditTellsTheTruth
<1>1. IInv => AuditTellsTheTruth
  BY DEF IInv, Consistent, HonestAudit, AuditTellsTheTruth
<1> QED
  BY <1>1, Inductive, PTL

(* A 200 with applied set means that HR Neo runs what the request wrote, or *)
(* something newer, whatever the other requests do.                         *)
THEOREM AppliedIsRunning == Spec => []AppliedIsLoaded
<1>1. IInv => AppliedIsLoaded
  BY DEF IInv
<1> QED
  BY <1>1, Inductive, PTL

-----------------------------------------------------------------------------
(* Requests served one at a time. *)

OneInFlight == \A q, r \in Requests : InFlight(q) /\ InFlight(r) => q = r

(* Between its check and its write a handler holds the revision it checked. *)
PastCheck(r) ==
  /\ Kind(r) \in {"put", "patch", "merge"}
  /\ pc[r] \in {"read", "backup", "copy", "write"} \/ (pc[r] = "decode" /\ Kind(r) = "patch")

StillCurrent(r) ==
  PastCheck(r) /\ arg[r].want # NoTag => arg[r].want = Revision(content[arg[r].file])

SerialIInv ==
  /\ IInv
  /\ OneInFlight
  /\ \A r \in Requests : StillCurrent(r)

LEMMA ArgNeverChanges == Next => arg' = arg
  BY DEF Next, Kill, Idle, vars, mine, Serve, Issue, Decode, Check, Read, Backup, Copy, BackupFails,
         Write, Restore, WriteFails, Etag, Apply, SkipApply, ApplyFails, Audit

(* Only the write and restore steps change a file. *)
LEMMA ContentChanges ==
  ASSUME NEW r \in Requests, Issue(r) \/ Serve(r), ~(\E f \in Files : Write(r, f) \/ Restore(r, f))
  PROVE  content' = content /\ wrote' = wrote
  BY DEF Serve, Issue, Decode, Check, Read, Backup, Copy, BackupFails, WriteFails, Etag,
         Apply, SkipApply, ApplyFails, Audit, files, mine

(* A handler that honours If-Match writes its last file at once. *)
LEMMA CheckedWritesOnce ==
  ASSUME TypeOK, NEW r \in Requests, Consistent(r), NEW f \in Files, Write(r, f),
         Kind(r) \in {"put", "patch", "merge"}
  PROVE  f = arg[r].file /\ pc'[r] \in {"etag", "apply"}
<1>1. Targets(r) = {arg[r].file} /\ todo[r] \subseteq Targets(r) /\ f \in todo[r]
  BY TargetsAreFiles DEF Write, Consistent, StillToWrite
<1>2. pc[r] = "write" /\ NextOf(Kind(r), pc[r], After(r)) /\ After(r) \in Steps
  BY AfterIs DEF Write, Consistent
<1>3. Advance(r)
  BY <1>1 DEF Write, Tick
<1> QED
  BY <1>1, <1>2, <1>3, AdvanceFacts DEF NextOf

(* The step of r: r passes its check with the revision in the file, and     *)
(* nobody else changes the file until r has written it.                     *)
LEMMA CheckHolds ==
  ASSUME TypeOK, NEW r \in Requests, Consistent(r), StillCurrent(r), Issue(r) \/ Serve(r),
         TypeOK', Consistent(r)'
  PROVE  StillCurrent(r)'
<1> SUFFICES ASSUME PastCheck(r)', arg'[r].want # NoTag
             PROVE  arg'[r].want = Revision(content'[arg'[r].file])
  BY DEF StillCurrent, Revision
<1>1. arg' = arg /\ Kind(r)' = Kind(r)
  BY ArgNeverChanges DEF Next, Kind
<1>2. Kind(r) \in {"put", "patch", "merge"} /\ pc'[r] \notin {"done", "dead", "etag", "apply", "check"}
  BY <1>1 DEF PastCheck
<1>3. pc[r] \notin {"audit", "done", "dead"} =>
        /\ Kind(r) \in AllKinds
        /\ NextOf(Kind(r), pc[r], After(r))
        /\ After(r) \in Steps
  BY AfterIs DEF Consistent
<1>4. ~(\E f \in Files : Write(r, f) \/ Restore(r, f))
  BY <1>2, <1>3, CheckedWritesOnce DEF Restore, NextOf
<1>5. content' = content
  BY <1>4, ContentChanges
<1>6. CASE Check(r)
  <2>1. 412 \in Codes
    BY DEF Codes
  <2>2. ~Refuse(r, 412)
    BY <1>2, <2>1, RefuseFacts
  <2> QED
    BY <1>1, <1>5, <1>6, <2>2 DEF Check
<1>7. CASE ~Check(r)
  <2>1. pc[r] \notin {"new", "check"} /\ (pc[r] = "decode" => Kind(r) = "patch")
    <3>1. CASE Issue(r)
      BY <1>1, <1>3, <3>1, AdvanceFacts DEF Issue, PastCheck, NextOf
    <3>2. CASE Decode(r)
      <4>1. 400 \in Codes
        BY DEF Codes
      <4>2. Advance(r)
        BY <1>2, <3>2, <4>1, RefuseFacts DEF Decode
      <4> QED
        BY <1>1, <1>3, <3>2, <4>2, AdvanceFacts DEF Decode, PastCheck, NextOf
    <3> QED
      BY <1>7, <3>1, <3>2 DEF Serve, Read, Backup, Copy, BackupFails, Write, Restore, WriteFails,
         Etag, Apply, SkipApply, ApplyFails, Audit
  <2>2. pc[r] \in {"decode", "read", "backup", "copy", "write"}
    <3>1. /\ pc'[r] \in {After(r), "done", pc[r]}
          /\ pc[r] \notin {"audit", "done", "dead"}
      BY <1>2, Moves DEF Consistent
    <3>2. pc'[r] \in {"decode", "read", "backup", "copy", "write"}
      BY DEF PastCheck
    <3>3. pc[r] \in Steps
      BY DEF TypeOK
    <3> QED
      BY <1>2, <1>3, <2>1, <3>1, <3>2, <3>3 DEF NextOf, Steps
  <2>3. PastCheck(r)
    BY <1>2, <2>1, <2>2 DEF PastCheck
  <2> QED
    BY <1>1, <1>5, <2>3 DEF StillCurrent
<1> QED
  BY <1>6, <1>7

(* While a request takes a step the others are not in flight. *)
LEMMA AloneSteps ==
  ASSUME Serial, SerialIInv, NEW r \in Requests, Issue(r) \/ Serve(r), NEW q \in Requests, q # r
  PROVE  ~InFlight(q) /\ pc'[q] = pc[q]
<1>1. TypeOK /\ OnItsWay(r)
  BY DEF SerialIInv, IInv, Consistent
<1>2. pc'[q] = pc[q]
  BY <1>1, OthersUntouched
<1>3. CASE Issue(r)
  BY <1>2, <1>3 DEF Issue
<1>4. CASE Serve(r)
  <2>1. InFlight(r)
    BY <1>1, <1>4, Moves DEF InFlight, Serve, Decode, Check, Read, Backup, Copy,
       BackupFails, Write, Restore, WriteFails, Etag, Apply, SkipApply, ApplyFails, Audit
  <2> QED
    BY <1>2, <2>1 DEF SerialIInv, OneInFlight
<1> QED
  BY <1>3, <1>4

LEMMA NextSerialIInv ==
  ASSUME Serial, SerialIInv, [Next]_vars
  PROVE  SerialIInv'
<1>1. IInv /\ IInv' /\ TypeOK /\ TypeOK'
  BY NextIInv DEF SerialIInv, IInv
<1>2. \A r \in Requests : Consistent(r) /\ Consistent(r)' /\ OnItsWay(r)
  BY <1>1 DEF IInv, Consistent
<1>3. ASSUME NEW r \in Requests, Issue(r) \/ Serve(r)
      PROVE  OneInFlight' /\ \A q \in Requests : StillCurrent(q)'
  <2>1. ASSUME NEW q \in Requests, q # r
        PROVE  ~InFlight(q) /\ pc'[q] = pc[q]
    BY <1>3, <2>1, AloneSteps
  <2>2. OneInFlight'
    BY <2>1 DEF OneInFlight, InFlight
  <2>3. StillCurrent(r)'
    BY <1>1, <1>2, <1>3, CheckHolds DEF SerialIInv
  <2>4. ASSUME NEW q \in Requests, q # r PROVE StillCurrent(q)'
    <3>1. pc'[q] \in {"new", "done", "dead"}
      BY <2>1, <2>4 DEF InFlight
    <3> QED
      BY <3>1 DEF StillCurrent, PastCheck
  <2> QED
    BY <2>2, <2>3, <2>4
<1>4. CASE Kill
  <2>1. \A r \in Requests : pc'[r] \in {"new", "done", "dead"}
    BY <1>4 DEF Kill, InFlight
  <2> QED
    BY <1>1, <2>1 DEF SerialIInv, OneInFlight, InFlight, StillCurrent, PastCheck
<1>5. CASE UNCHANGED vars
  <2>1. \A r \in Requests : StillCurrent(r)'
    BY <1>5 DEF SerialIInv, StillCurrent, PastCheck, Kind, Revision, vars
  <2> QED
    BY <1>1, <1>5, <2>1 DEF SerialIInv, OneInFlight, InFlight, vars
<1> QED
  BY <1>1, <1>3, <1>4, <1>5 DEF SerialIInv, Next, Idle

LEMMA InitSerialIInv == Init => SerialIInv
<1> SUFFICES ASSUME Init PROVE SerialIInv
  OBVIOUS
<1>1. \A r \in Requests : pc[r] = "new"
  BY DEF Init
<1> QED
  BY <1>1, InitIInv DEF SerialIInv, OneInFlight, InFlight, StillCurrent, PastCheck

(* Requests served one at a time honour If-Match: raw and structured PUTs   *)
(* and the patches replace only the revision the client named.  The run     *)
(* LostUpdate shows that the assumption cannot be dropped.                  *)
THEOREM SerialWritesAreChecked ==
  ASSUME Serial
  PROVE  Spec => CheckedWrite
<1>1. Init => SerialIInv
  BY InitSerialIInv
<1>2. SerialIInv /\ [Next]_vars => SerialIInv'
  BY NextSerialIInv
<1>3. SerialIInv /\ [Next]_vars
        => [\A r \in Requests, f \in Files :
              Installs(r, f) /\ Kind(r) \in {"put", "patch", "merge"} /\ arg[r].want # NoTag
                => arg[r].want = Revision(content[f])]_vars
  <2> SUFFICES ASSUME SerialIInv, Next, NEW r \in Requests, NEW f \in Files,
                      Installs(r, f), Kind(r) \in {"put", "patch", "merge"}, arg[r].want # NoTag
               PROVE  arg[r].want = Revision(content[f])
    BY DEF Installs, Revision
  <2>1. TypeOK /\ \A q \in Requests : Consistent(q) /\ OnItsWay(q)
    BY DEF SerialIInv, IInv, Consistent
  <2>2. wrote'[r][f] # wrote[r][f]
    BY DEF Installs
  <2>3. PICK q \in Requests : Issue(q) \/ Serve(q)
    BY <2>2 DEF Next, Kill, Idle, vars, mine
  <2>4. q = r
    BY <2>1, <2>2, <2>3, OthersUntouched
  <2>5. PICK g \in Files : Write(r, g) \/ Restore(r, g)
    BY <2>2, <2>3, <2>4, ContentChanges
  <2>6. ~Restore(r, g)
    BY <2>1, AfterIs DEF Restore, NextOf
  <2>7. Write(r, g) /\ g = arg[r].file
    BY <2>1, <2>5, <2>6, CheckedWritesOnce
  <2>8. f = g
    BY <2>1, <2>2, <2>7, EditedIsContent, InstallTypes DEF Write
  <2>9. PastCheck(r)
    BY <2>7 DEF Write, PastCheck
  <2> QED
    BY <2>7, <2>8, <2>9 DEF SerialIInv, StillCurrent
<1> QED
  BY <1>1, <1>2, <1>3, PTL DEF Spec, CheckedWrite

-----------------------------------------------------------------------------
(* What a request served alone can rely on: nobody changes a file between   *)
(* its steps, so what it read, copied or restored is what the files hold.   *)

(* The content a request's ETag is of. *)
Tagged(r) == IF Kind(r) = "get" THEN base[r] ELSE Edited(r)

TagHeld(r) ==
  /\ tag[r] # NoTag => pc[r] \in {"apply", "audit", "done", "dead"} /\ tag[r] = Revision(Tagged(r))
  /\ pc[r] = "etag" => content[arg[r].file] = Tagged(r)

(* From its read to its write a handler that edits holds the content, and   *)
(* only a structured PUT of hrneo.conf goes on without one.                 *)
Based(r) == base[r] = content[arg[r].file] /\ (base[r] = Missing => Kind(r) = "merge")

BaseHeld(r) ==
  /\ Kind(r) \in {"patch", "order", "merge"} /\ pc[r] \in {"backup", "copy", "write"} => Based(r)
  /\ Kind(r) = "text" /\ pc[r] = "write" => Based(r)

Copied(r, f) == copies[r][f] = IF content[f] = Missing THEN None ELSE content[f]

(* The files that are copied and not written yet are as their copies. *)
CopyHeld(r) ==
  /\ pc[r] = "copy" => \A f \in Files \ todo[r] : Copied(r, f)
  /\ pc[r] \in {"write", "restore"} \/ (pc[r] = "read" /\ Kind(r) = "text")
       => \A f \in todo[r] : Copied(r, f)

Back(r, f) == copies[arg[r].from][f] # None => content[f] = copies[arg[r].from][f]

(* The files a restore is done with are as they are in its backup. *)
BackHeld(r) ==
  Kind(r) = "restore" =>
    /\ pc[r] = "restore" => \A f \in Files \ todo[r] : Back(r, f)
    /\ pc[r] \in {"apply", "audit"} => \A f \in Files : Back(r, f)

Held(r) == TagHeld(r) /\ BaseHeld(r) /\ CopyHeld(r) /\ BackHeld(r)

AloneIInv == SerialIInv /\ \A r \in Requests : Held(r)

(* The other requests keep what they read, copied and were told. *)
LEMMA OthersKeep ==
  ASSUME TypeOK, NEW r \in Requests, Issue(r) \/ Serve(r)
  PROVE  \A q \in Requests \ {r} :
           base'[q] = base[q] /\ tag'[q] = tag[q] /\ copies'[q] = copies[q]
  BY DEF TypeOK, Serve, Issue, Decode, Check, Read, Backup, Copy, BackupFails, Write, Restore,
         WriteFails, Etag, Apply, SkipApply, ApplyFails, Audit, mine, saves

(* The steps that neither read nor write a file, and the read of the ETag. *)
Quiet(r) ==
  \/ Issue(r) \/ Decode(r) \/ Check(r) \/ BackupFails(r) \/ WriteFails(r)
  \/ Apply(r) \/ SkipApply(r) \/ ApplyFails(r) \/ Audit(r)

LEMMA QuietKeeps ==
  ASSUME NEW r \in Requests, Quiet(r)
  PROVE  UNCHANGED <<content, copies, arg, base, todo, tag>>
  BY DEF Quiet, Issue, Decode, Check, BackupFails, WriteFails, Apply, SkipApply, ApplyFails, Audit,
         files, saves, mine

(* The steps of a serial request leave it with what it can rely on. *)
LEMMA QuietHeld ==
  ASSUME TypeOK, NEW r \in Requests, OnItsWay(r), Held(r), Quiet(r)
  PROVE  Held(r)'
<1>1. UNCHANGED <<content, copies, arg, base, todo, tag>>
  BY QuietKeeps
<1>2. Kind(r)' = Kind(r) /\ Tagged(r)' = Tagged(r)
  BY <1>1 DEF Kind, Tagged, Edited, EditedFrom
<1>3. Issue(r) \/ Serve(r)
  BY DEF Quiet, Serve
<1>4. pc[r] \notin {"done", "dead"} /\ pc'[r] \in {After(r), "done", pc[r]}
  BY <1>3, Moves
<1>5. pc[r] \in {"new", "decode", "check", "backup", "copy", "write", "restore", "apply", "audit"}
  BY DEF Quiet, Issue, Decode, Check, BackupFails, WriteFails, Apply, SkipApply, ApplyFails, Audit
<1>6. pc[r] # "audit" => NextOf(Kind(r), pc[r], After(r))
  BY <1>4, AfterIs
<1>7. pc[r] \in {"backup", "copy", "write", "restore", "audit"} => pc'[r] = "done"
  <2>1. {200, 202, 400, 409, 412, 500} \subseteq Codes
    BY DEF Codes
  <2> QED
    BY <2>1, FailFacts, RespondFacts DEF Quiet, Issue, Decode, Check, BackupFails, WriteFails,
       Apply, SkipApply, ApplyFails, Audit
<1>8. CASE pc'[r] = "done"
  <2>1. TagHeld(r)'
    BY <1>1, <1>2, <1>8 DEF Held, TagHeld, Revision
  <2> QED
    BY <1>8, <2>1 DEF Held, BaseHeld, CopyHeld, BackHeld
<1>9. CASE pc'[r] = pc[r]
  BY <1>1, <1>2, <1>9 DEF Held, TagHeld, BaseHeld, Based, CopyHeld, BackHeld, Copied, Back, Revision
<1>10. CASE pc[r] \in {"new", "decode", "check", "apply"} /\ pc'[r] = After(r)
  <2>1. TagHeld(r)'
    BY <1>1, <1>2, <1>6, <1>10 DEF NextOf, Held, TagHeld, Revision
  <2>2. BaseHeld(r)' /\ CopyHeld(r)'
    BY <1>2, <1>6, <1>10 DEF NextOf, BaseHeld, CopyHeld
  <2>3. BackHeld(r)'
    BY <1>1, <1>2, <1>6, <1>10 DEF NextOf, Held, BackHeld, Back
  <2> QED
    BY <2>1, <2>2, <2>3 DEF Held
<1> QED
  BY <1>4, <1>5, <1>7, <1>8, <1>9, <1>10

(* Before the ETag no step of a request has set one. *)
LEMMA NoTagYet ==
  ASSUME NEW r \in Requests, Held(r), pc[r] \notin {"apply", "audit", "done", "dead"}
  PROVE  tag[r] = NoTag
  BY DEF Held, TagHeld

LEMMA ReadHeld ==
  ASSUME TypeOK, NEW r \in Requests, OnItsWay(r), Held(r), Read(r)
  PROVE  Held(r)'
<1>1. UNCHANGED <<content, copies, arg, todo, tag>> /\ pc[r] = "read"
  BY DEF Read, files, saves
<1>2. Kind(r)' = Kind(r) /\ NextOf(Kind(r), pc[r], After(r)) /\ After(r) \in Steps
  BY <1>1, AfterIs DEF Kind
<1>3. tag'[r] = NoTag
  BY <1>1, NoTagYet
<1>4. CASE /\ content[arg[r].file] # Missing \/ Kind(r) \in {"get", "merge"}
           /\ base' = [base EXCEPT ![r] = content[arg[r].file]]
           /\ Advance(r)
  <2>1. base'[r] = content[arg[r].file] /\ pc'[r] = After(r)
    BY <1>2, <1>4, AdvanceFacts DEF TypeOK
  <2>2. TagHeld(r)'
    BY <1>1, <1>2, <1>3, <2>1 DEF NextOf, TagHeld, Tagged
  <2>3. BaseHeld(r)'
    BY <1>1, <1>2, <1>4, <2>1 DEF BaseHeld, Based
  <2>4. CopyHeld(r)'
    BY <1>1, <1>2, <2>1 DEF NextOf, Held, CopyHeld, Copied
  <2>5. BackHeld(r)'
    BY <1>1, <1>2, <2>1 DEF NextOf, BackHeld
  <2> QED
    BY <2>2, <2>3, <2>4, <2>5 DEF Held
<1>5. ASSUME NEW status \in {400, 409, 500}, Refuse(r, status)
      PROVE  Held(r)'
  <2>1. {400, 409, 500} \subseteq Codes
    BY DEF Codes
  <2>2. pc'[r] = "done"
    BY <1>5, <2>1, RefuseFacts
  <2> QED
    BY <1>3, <2>2 DEF Held, TagHeld, BaseHeld, CopyHeld, BackHeld
<1> QED
  BY <1>4, <1>5 DEF Read

LEMMA BackupHeld ==
  ASSUME TypeOK, NEW r \in Requests, OnItsWay(r), Held(r), Backup(r)
  PROVE  Held(r)'
<1>1. UNCHANGED <<content, copies, arg, base, tag>> /\ pc[r] = "backup"
  BY DEF Backup, files
<1>2. Kind(r)' = Kind(r) /\ NextOf(Kind(r), pc[r], After(r)) /\ After(r) \in Steps
  BY <1>1, AfterIs DEF Kind
<1>3. tag'[r] = NoTag /\ pc'[r] = "copy" /\ todo'[r] = Files
  BY <1>1, <1>2, NoTagYet, AdvanceFacts DEF Backup, NextOf, TypeOK
<1>4. BaseHeld(r)'
  BY <1>1, <1>2, <1>3 DEF Held, BaseHeld, Based
<1> QED
  BY <1>3, <1>4 DEF Held, TagHeld, CopyHeld, BackHeld

LEMMA CopyHolds ==
  ASSUME TypeOK, NEW r \in Requests, OnItsWay(r), Held(r), NEW f \in Files, Copy(r, f)
  PROVE  Held(r)'
<1>1. UNCHANGED <<content, arg, base, tag>> /\ pc[r] = "copy" /\ f \in todo[r]
  BY DEF Copy, files
<1>2. Kind(r)' = Kind(r) /\ NextOf(Kind(r), pc[r], After(r)) /\ After(r) \in Steps
  BY <1>1, AfterIs DEF Kind
<1>3. tag'[r] = NoTag
  BY <1>1, NoTagYet
<1>4. Targets(r) \subseteq Files
  BY <1>1, <1>2, TargetsAreFiles DEF NextOf
<1>5. Copied(r, f)' /\ \A g \in Files \ {f} : Copied(r, g) => Copied(r, g)'
  <2> DEFINE c == IF content[f] = Missing THEN None ELSE content[f]
             k == [copies[r] EXCEPT ![f] = c]
  <2>1. copies' = [copies EXCEPT ![r] = k]
    BY DEF Copy, TypeOK
  <2>2. copies'[r][f] = c /\ \A g \in Files \ {f} : copies'[r][g] = copies[r][g]
    BY <2>1 DEF TypeOK
  <2> QED
    BY <1>1, <2>2 DEF Copied
<1>6. \A g \in Files \ todo[r] : Copied(r, g)
  BY <1>1 DEF Held, CopyHeld
<1>7. CASE todo[r] = {f} /\ Advance(r) /\ todo' = [todo EXCEPT ![r] = Targets(r)]
  <2>1. pc'[r] = After(r) /\ todo'[r] = Targets(r)
    BY <1>2, <1>7, AdvanceFacts DEF TypeOK
  <2>2. \A g \in Files : Copied(r, g)'
    BY <1>5, <1>6, <1>7
  <2>3. TagHeld(r)'
    BY <1>1, <1>2, <1>3, <2>1 DEF NextOf, TagHeld
  <2>4. BaseHeld(r)'
    BY <1>1, <1>2, <2>1 DEF NextOf, Held, BaseHeld, Based
  <2>5. CopyHeld(r)'
    BY <1>4, <2>1, <2>2 DEF CopyHeld
  <2>6. BackHeld(r)'
    <3>1. pc'[r] = "restore" => todo'[r] = Files
      BY <1>1, <1>2, <2>1 DEF NextOf, Targets
    <3> QED
      BY <1>1, <1>2, <2>1, <3>1 DEF NextOf, BackHeld
  <2> QED
    BY <2>3, <2>4, <2>5, <2>6 DEF Held
<1>8. CASE todo' = [todo EXCEPT ![r] = @ \ {f}] /\ UNCHANGED pc
  <2>1. pc'[r] = "copy" /\ todo'[r] = todo[r] \ {f}
    BY <1>1, <1>8 DEF TypeOK
  <2>2. CopyHeld(r)'
    BY <1>5, <1>6, <2>1 DEF CopyHeld
  <2>3. BaseHeld(r)'
    BY <1>1, <1>2, <2>1 DEF Held, BaseHeld, Based
  <2> QED
    BY <1>3, <2>1, <2>2, <2>3 DEF Held, TagHeld, BackHeld
<1> QED
  BY <1>7, <1>8 DEF Copy

(* Writing f is the end of the request for f, and f is what it wrote. *)
LEMMA InstallFacts ==
  ASSUME TypeOK, NEW r \in Requests, NEW f \in Files, NEW c, Install(r, f, c)
  PROVE  content'[f] = c /\ \A g \in Files \ {f} : content'[g] = content[g]
  BY DEF Install, TypeOK

LEMMA TickFacts ==
  ASSUME TypeOK, NEW r \in Requests, NEW f \in Files, After(r) \in Steps, Tick(r, f)
  PROVE  /\ todo'[r] = todo[r] \ {f}
         /\ pc'[r] = IF todo[r] = {f} THEN After(r) ELSE pc[r]
  BY DEF Tick, Advance, TypeOK

(* Any handler with one file to write writes it at once. *)
LEMMA WritesItsFile ==
  ASSUME TypeOK, NEW r \in Requests, Consistent(r), NEW f \in Files, Write(r, f), Kind(r) # "csv"
  PROVE  f = arg[r].file /\ pc'[r] = After(r)
<1>1. pc[r] = "write" /\ NextOf(Kind(r), pc[r], After(r)) /\ After(r) \in Steps
  BY AfterIs DEF Write, Consistent
<1>2. Targets(r) = {arg[r].file} /\ todo[r] \subseteq Targets(r) /\ f \in todo[r]
  BY <1>1, TargetsAreFiles DEF Write, Consistent, StillToWrite, NextOf
<1> QED
  BY <1>1, <1>2, TickFacts DEF Write

LEMMA WriteHolds ==
  ASSUME TypeOK, NEW r \in Requests, Consistent(r), Held(r), NEW f \in Files, Write(r, f)
  PROVE  Held(r)'
<1>1. UNCHANGED <<copies, arg, base, tag>> /\ pc[r] = "write"
  BY DEF Write, saves
<1>2. /\ Kind(r)' = Kind(r) /\ Tagged(r)' = Tagged(r)
      /\ NextOf(Kind(r), pc[r], After(r)) /\ After(r) \in Steps
  BY <1>1, AfterIs DEF Kind, Tagged, Edited, EditedFrom, Consistent
<1>3. tag'[r] = NoTag
  BY <1>1, NoTagYet
<1>4. content'[f] = Edited(r) /\ \A g \in Files \ {f} : content'[g] = content[g]
  BY InstallFacts DEF Write
<1>5. todo'[r] = todo[r] \ {f} /\ pc'[r] = IF todo[r] = {f} THEN After(r) ELSE pc[r]
  BY <1>2, TickFacts DEF Write
<1>6. Kind(r) # "csv" => f = arg[r].file /\ pc'[r] = After(r)
  BY WritesItsFile
<1>7. todo[r] \subseteq Files
  BY DEF TypeOK
<1>8. TagHeld(r)'
  <2>1. pc'[r] = "etag" => Kind(r) \in {"put", "patch", "merge"}
    BY <1>1, <1>2, <1>5 DEF NextOf
  <2> QED
    BY <1>1, <1>2, <1>3, <1>4, <1>5, <1>6, <2>1 DEF TagHeld, Tagged
<1>9. BaseHeld(r)'
  BY <1>1, <1>2, <1>6 DEF NextOf, BaseHeld
<1>10. CopyHeld(r)'
  BY <1>1, <1>2, <1>4, <1>5, <1>7 DEF NextOf, Held, CopyHeld, Copied
<1>11. BackHeld(r)'
  BY <1>1, <1>2 DEF NextOf, BackHeld
<1> QED
  BY <1>8, <1>9, <1>10, <1>11 DEF Held

LEMMA RestoreHolds ==
  ASSUME TypeOK, NEW r \in Requests, OnItsWay(r), Held(r), NEW f \in Files, Restore(r, f)
  PROVE  Held(r)'
<1>1. UNCHANGED <<copies, arg, base, tag>> /\ pc[r] = "restore" /\ f \in todo[r]
  BY DEF Restore, saves
<1>2. /\ Kind(r)' = Kind(r) /\ Kind(r) = "restore"
      /\ NextOf(Kind(r), pc[r], After(r)) /\ After(r) \in Steps
  BY <1>1, AfterIs DEF Kind, NextOf
<1>3. tag'[r] = NoTag
  BY <1>1, NoTagYet
<1>4. /\ \A g \in Files \ {f} : content'[g] = content[g]
      /\ Back(r, f)'
  BY <1>1, InstallFacts DEF Restore, Back, files
<1>5. todo'[r] = todo[r] \ {f} /\ pc'[r] = IF todo[r] = {f} THEN After(r) ELSE pc[r]
  BY <1>2, TickFacts DEF Restore
<1>6. todo[r] \subseteq Files
  BY DEF TypeOK
<1>7. CopyHeld(r)'
  BY <1>1, <1>2, <1>4, <1>5, <1>6 DEF NextOf, Held, CopyHeld, Copied
<1>8. BackHeld(r)'
  BY <1>1, <1>2, <1>4, <1>5 DEF NextOf, Held, BackHeld, Back
<1> QED
  BY <1>1, <1>2, <1>3, <1>5, <1>7, <1>8 DEF NextOf, Held, TagHeld, BaseHeld

LEMMA EtagHeld ==
  ASSUME TypeOK, NEW r \in Requests, OnItsWay(r), Held(r), Etag(r)
  PROVE  Held(r)'
<1>1. UNCHANGED <<content, copies, arg, base, todo>> /\ pc[r] = "etag"
  BY DEF Etag, files, saves
<1>2. /\ Kind(r)' = Kind(r) /\ Tagged(r)' = Tagged(r)
      /\ NextOf(Kind(r), pc[r], After(r)) /\ After(r) \in Steps
  BY <1>1, AfterIs DEF Kind, Tagged, Edited, EditedFrom
<1>3. pc'[r] \in {"done", "apply"}
  <2>1. 200 \in Codes
    BY DEF Codes
  <2> QED
    BY <1>1, <1>2, <2>1, AdvanceFacts, RespondFacts DEF Etag, NextOf
<1>4. tag'[r] = Revision(Tagged(r))
  BY <1>1 DEF Etag, Held, TagHeld, TypeOK
<1>5. TagHeld(r)'
  BY <1>2, <1>3, <1>4 DEF TagHeld, Revision
<1>6. Kind(r) # "restore"
  BY <1>1, <1>2 DEF NextOf
<1> QED
  BY <1>2, <1>3, <1>5, <1>6 DEF Held, BaseHeld, CopyHeld, BackHeld

LEMMA StepHeld ==
  ASSUME TypeOK, NEW r \in Requests, Consistent(r), Held(r), Issue(r) \/ Serve(r)
  PROVE  Held(r)'
<1>1. OnItsWay(r)
  BY DEF Consistent
<1> QED
  BY <1>1, QuietHeld, ReadHeld, BackupHeld, CopyHolds, WriteHolds, RestoreHolds, EtagHeld
  DEF Serve, Quiet

(* A request that is not in flight relies on nothing but its own answer. *)
LEMMA RestingHeld ==
  ASSUME NEW r \in Requests, Held(r), pc'[r] \in {"new", "done", "dead"},
         pc'[r] = "new" => pc[r] = "new",
         arg'[r] = arg[r], base'[r] = base[r], tag'[r] = tag[r]
  PROVE  Held(r)'
<1>1. Kind(r)' = Kind(r) /\ Tagged(r)' = Tagged(r)
  BY DEF Kind, Tagged, Edited, EditedFrom
<1>2. TagHeld(r)'
  BY <1>1 DEF Held, TagHeld, Revision
<1> QED
  BY <1>2 DEF Held, BaseHeld, CopyHeld, BackHeld

LEMMA NextAlone ==
  ASSUME Serial, AloneIInv, [Next]_vars
  PROVE  AloneIInv'
<1>1. SerialIInv' /\ TypeOK /\ \A r \in Requests : Consistent(r) /\ OnItsWay(r) /\ Held(r)
  BY NextSerialIInv DEF AloneIInv, SerialIInv, IInv, Consistent
<1>2. ASSUME NEW r \in Requests, Issue(r) \/ Serve(r), NEW q \in Requests
      PROVE  Held(q)'
  <2>1. CASE q = r
    BY <1>1, <1>2, <2>1, StepHeld
  <2>2. CASE q # r
    <3>1. /\ pc'[q] = pc[q] /\ arg'[q] = arg[q] /\ base'[q] = base[q] /\ tag'[q] = tag[q]
      BY <1>1, <1>2, <2>2, OthersUntouched, OthersKeep
    <3>2. ~InFlight(q)
      BY <1>1, <1>2, <2>2, AloneSteps DEF AloneIInv
    <3> QED
      BY <1>1, <3>1, <3>2, RestingHeld DEF InFlight
  <2> QED
    BY <2>1, <2>2
<1>3. CASE Kill
  <2>1. ASSUME NEW q \in Requests PROVE Held(q)'
    BY <1>1, <1>3, RestingHeld DEF Kill, InFlight, mine
  <2> QED
    BY <1>1, <2>1 DEF AloneIInv
<1>4. CASE UNCHANGED vars
  <2>1. ASSUME NEW q \in Requests PROVE Held(q)'
    <3>1. Kind(q)' = Kind(q) /\ Tagged(q)' = Tagged(q)
      BY <1>4 DEF Kind, Tagged, Edited, EditedFrom, vars
    <3> QED
      BY <1>1, <1>4, <3>1
      DEF Held, TagHeld, BaseHeld, Based, CopyHeld, BackHeld, Copied, Back, Revision, vars
  <2> QED
    BY <1>1, <2>1 DEF AloneIInv
<1> QED
  BY <1>1, <1>2, <1>3, <1>4 DEF AloneIInv, Next, Idle

LEMMA InitAlone == Init => AloneIInv
<1> SUFFICES ASSUME Init PROVE AloneIInv
  OBVIOUS
<1>1. \A r \in Requests : pc[r] = "new" /\ tag[r] = NoTag
  BY DEF Init
<1> QED
  BY <1>1, InitSerialIInv DEF AloneIInv, Held, TagHeld, BaseHeld, CopyHeld, BackHeld

LEMMA AloneInductive ==
  ASSUME Serial
  PROVE  Spec => []AloneIInv
<1>1. AloneIInv /\ [Next]_vars => AloneIInv'
  BY NextAlone
<1> QED
  BY <1>1, InitAlone, PTL DEF Spec

(* Requests served one at a time get the ETag of what they read or wrote.   *)
THEOREM SerialTagsAreTrue ==
  ASSUME Serial
  PROVE  Spec => []TagNamesContent
<1>1. AloneIInv => TagNamesContent
  BY DEF AloneIInv, Held, TagHeld, Tagged, TagNamesContent
<1> QED
  BY <1>1, AloneInductive, PTL

(* The file that a step writes: its own one, or one of a restore. *)
LEMMA InstallsBy ==
  ASSUME AloneIInv, Next, NEW r \in Requests, NEW f \in Files, Installs(r, f)
  PROVE  \/ Write(r, f) /\ Install(r, f, Edited(r))
         \/ Restore(r, f) /\ Install(r, f, copies[arg[r].from][f])
<1>1. TypeOK /\ \A q \in Requests : Consistent(q) /\ OnItsWay(q)
  BY DEF AloneIInv, SerialIInv, IInv, Consistent
<1>2. wrote'[r][f] # wrote[r][f]
  BY DEF Installs
<1>3. PICK q \in Requests : Issue(q) \/ Serve(q)
  BY <1>2 DEF Next, Kill, Idle, vars, mine
<1>4. q = r
  BY <1>1, <1>2, <1>3, OthersUntouched
<1>5. \E g \in Files : Write(r, g) \/ Restore(r, g)
  BY <1>2, <1>3, <1>4, ContentChanges
<1>6. ASSUME NEW g \in Files, Write(r, g) \/ Restore(r, g) PROVE g = f
  <2>1. \/ UNCHANGED wrote
        \/ wrote' = [wrote EXCEPT ![r][g] = ver[g] + 1]
    BY <1>6 DEF Write, Restore, Install
  <2> QED
    BY <1>1, <1>2, <2>1 DEF TypeOK
<1>7. Write(r, f) \/ Restore(r, f)
  BY <1>5, <1>6
<1>8. Restore(r, f) => copies[arg[r].from][f] # None
  BY <1>2 DEF Restore
<1> QED
  BY <1>7, <1>8 DEF Write, Restore

(* What a request writes differs from what it edits in what it names. *)
LEMMA EditsWhatItNames ==
  ASSUME NEW r \in Requests, arg[r].op \in {"add", "delete"}
  PROVE  Changed(EditedFrom(r), Edited(r)) \subseteq arg[r].body
  BY DEF Changed, Edited

(* Two changes one after the other. *)
LEMMA ChangedTwice ==
  ASSUME NEW a, NEW b, NEW c, NEW D, NEW E,
         Changed(a, b) \subseteq D, Changed(b, c) \subseteq E
  PROVE  Changed(a, c) \subseteq E \cup D
  BY DEF Changed

(* Requests served one at a time: a rule patch and a target order change    *)
(* the entries they are about and no others, a structured PUT of hrneo.conf *)
(* and a text import besides only loose ones, and a structured PUT without  *)
(* a file writes the defaults but for what it names.                        *)
THEOREM SerialWritesAreNarrow ==
  ASSUME Serial
  PROVE  Spec => NarrowWrite
<1> DEFINE Narrow(r, f) ==
      /\ Kind(r) \in {"patch", "order"} => Changed(content[f], content'[f]) \subseteq arg[r].body
      /\ Kind(r) \in {"merge", "text"} /\ content[f] # Missing =>
           Changed(content[f], content'[f]) \subseteq arg[r].body \cup Loose
      /\ Kind(r) = "merge" /\ content[f] = Missing =>
           Changed(Defaults, content'[f]) \subseteq arg[r].body
<1>1. ASSUME AloneIInv, Next, NEW r \in Requests, NEW f \in Files, Installs(r, f)
      PROVE  Narrow(r, f)
  <2> SUFFICES ASSUME Kind(r) \in {"patch", "order", "merge", "text"}
               PROVE  Narrow(r, f)
    OBVIOUS
  <2>1. TypeOK /\ Consistent(r) /\ OnItsWay(r) /\ Held(r)
    BY <1>1 DEF AloneIInv, SerialIInv, IInv, Consistent
  <2>2. ~Restore(r, f)
    BY <2>1, AfterIs DEF Restore, NextOf
  <2>3. Write(r, f) /\ Install(r, f, Edited(r))
    BY <1>1, <2>2, InstallsBy
  <2>4. f = arg[r].file
    BY <2>1, <2>3, WritesItsFile
  <2>5. base[r] = content[f] /\ base[r] \in {Missing} \cup Contents
    BY <2>1, <2>3, <2>4 DEF Held, BaseHeld, Based, Write, TypeOK
  <2>6. content'[f] = Edited(r)
    BY <1>1, <2>1, <2>3, InstallFacts
  <2>7. arg[r].op \in {"add", "delete"}
    <3>1. PICK k \in Kinds : arg[r] \in ArgsOf(k)
      BY <2>1 DEF TypeOK, Args
    <3>2. k = Kind(r) /\ arg[r].op \in OpsOf(k)
      BY <3>1 DEF ArgsOf, Kind
    <3> QED
      BY <3>2 DEF OpsOf
  <2>8. Changed(EditedFrom(r), Edited(r)) \subseteq arg[r].body
    BY <2>7, EditsWhatItNames
  <2>9. CASE content[f] = Missing
    <3>1. EditedFrom(r) = Defaults
      BY <2>5, <2>9 DEF EditedFrom
    <3>2. Kind(r) = "merge"
      BY <2>1, <2>3, <2>5, <2>9 DEF Held, BaseHeld, Based, Write
    <3> QED
      BY <2>6, <2>8, <2>9, <3>1, <3>2
  <2>10. CASE content[f] # Missing /\ Kind(r) \in {"patch", "order"}
    <3>1. EditedFrom(r) = content[f]
      BY <2>5, <2>10 DEF EditedFrom
    <3> QED
      BY <2>6, <2>8, <2>10, <3>1
  <2>11. CASE content[f] # Missing /\ Kind(r) \in {"merge", "text"}
    <3>1. EditedFrom(r) = Typed[content[f]]
      BY <2>5, <2>11 DEF EditedFrom
    <3>2. Changed(content[f], EditedFrom(r)) \subseteq Loose
      BY <2>5, <2>11, <3>1, ConstantsAssumption
    <3> QED
      BY <2>6, <2>8, <2>11, <3>2, ChangedTwice
  <2> QED
    BY <2>9, <2>10, <2>11
<1>2. AloneIInv /\ [Next]_vars
        => [\A r \in Requests, f \in Files : Installs(r, f) => Narrow(r, f)]_vars
  BY <1>1
<1> QED
  BY <1>2, AloneInductive, PTL DEF Spec, NarrowWrite

(* Requests served one at a time: what a write or a restore replaces is in  *)
(* the backup it made before.                                               *)
THEOREM SerialWritesAreSaved ==
  ASSUME Serial
  PROVE  Spec => ReplacedIsSaved
<1>1. AloneIInv /\ [Next]_vars
        => [\A r \in Requests, f \in Files :
              Installs(r, f) /\ content[f] # Missing => copies[r][f] = content[f]]_vars
  <2> SUFFICES ASSUME AloneIInv, Next, NEW r \in Requests, NEW f \in Files,
                      Installs(r, f), content[f] # Missing
               PROVE  copies[r][f] = content[f]
    BY DEF Installs
  <2>1. Write(r, f) \/ Restore(r, f)
    BY InstallsBy
  <2>2. Copied(r, f)
    BY <2>1 DEF AloneIInv, Held, CopyHeld, Write, Restore
  <2> QED
    BY <2>2 DEF Copied
<1> QED
  BY <1>1, AloneInductive, PTL DEF Spec, ReplacedIsSaved

(* Requests served one at a time: after a restore that answers 200 every    *)
(* file that is in the backup is as it is there.                            *)
THEOREM SerialRestoresBringBack ==
  ASSUME Serial
  PROVE  Spec => RestoreBringsBack
<1>1. AloneIInv /\ [Next]_vars
        => [\A r \in Requests :
              Kind(r) = "restore" /\ code'[r] = 200 /\ code[r] # 200 =>
                \A f \in Files : copies[arg[r].from][f] # None =>
                                   content'[f] = copies[arg[r].from][f]]_vars
  <2> SUFFICES ASSUME AloneIInv, Next, NEW r \in Requests,
                      Kind(r) = "restore", code'[r] = 200, code[r] # 200
               PROVE  \A f \in Files : copies[arg[r].from][f] # None =>
                                         content'[f] = copies[arg[r].from][f]
    OBVIOUS
  <2>1. TypeOK /\ Held(r) /\ \A q \in Requests : Consistent(q) /\ OnItsWay(q)
    BY DEF AloneIInv, SerialIInv, IInv, Consistent
  <2>2. PICK q \in Requests : Issue(q) \/ Serve(q)
    BY DEF Next, Kill, Idle, vars
  <2>3. q = r
    BY <2>1, <2>2, OthersUntouched
  <2>4. Audit(r)
    BY <2>1, <2>2, <2>3, OnlyAuditSucceeds
  <2>5. \A f \in Files : Back(r, f)
    BY <2>1, <2>4 DEF Held, BackHeld, Audit
  <2> QED
    BY <2>4, <2>5 DEF Back, Audit, files
<1> QED
  BY <1>1, AloneInductive, PTL DEF Spec, RestoreBringsBack

=============================================================================
