----------------------------- MODULE FilesProofs -----------------------------
(***************************************************************************)
(* Proofs about AtomicFile, for any set of writers, payloads and temporary *)
(* names and any payload size: its invariants and the refinement of        *)
(* AtomicRegister; about AuditLog: the ring buffer returns the end of the  *)
(* file, for any limit, any number of requests and any of their writes cut *)
(* short; and about TokenRotation, for any number of rotations and any     *)
(* tokens: which token the server accepts.                                 *)
(***************************************************************************)
EXTENDS AtomicFile, AuditLog, TokenRotation, SequenceTheorems, TLAPS

(* A call has a payload from its first step to its return. *)
CallHasData == \A w \in Writers : pc[w] = "idle" <=> data[w] = None

(* A call in flight owns its temporary file, alone. *)
TmpOwned ==
  \A w \in Writers :
    InFlight(w) => /\ name[w] \in Names
                   /\ tmp[name[w]] # None
                   /\ tmp[name[w]].data = data[w]

TmpUnshared ==
  \A v, w \in Writers :
    InFlight(v) /\ InFlight(w) /\ name[v] = name[w] => v = w

(* How far the temporary file is when no error has been recorded. *)
Progress ==
  \A w \in Writers :
    /\ pc[w] = "sync" /\ ~failed[w] => Whole(tmp[name[w]])
    /\ pc[w] = "close" /\ ~failed[w] => Whole(tmp[name[w]]) /\ Durable(tmp[name[w]])
    /\ pc[w] = "rename" => Whole(tmp[name[w]]) /\ Durable(tmp[name[w]])

Sound(f) == f # None => Whole(f) /\ Durable(f)

IInv ==
  /\ TypeOK
  /\ CallHasData
  /\ TmpOwned
  /\ TmpUnshared
  /\ Progress
  /\ Sound(target)
  /\ Sound(disk)
  /\ NoOrphanTmp

-----------------------------------------------------------------------------
LEMMA InitIInv == Init => IInv
  BY NoneAssumption, BlocksAssumption
  DEF Init, IInv, TypeOK, CallHasData, TmpOwned, TmpUnshared, Progress, Sound,
      NoOrphanTmp, InFlight, Complete, Whole, Durable, File, Lengths, Steps

LEMMA CallIInv ==
  ASSUME IInv, NEW w \in Writers, NEW d \in Data, Call(w, d)
  PROVE  IInv'
  BY NoneAssumption, BlocksAssumption
  DEF Call, Goto, IInv, TypeOK, CallHasData, TmpOwned, TmpUnshared, Progress, Sound,
      NoOrphanTmp, InFlight, Whole, Durable, Steps

LEMMA OpenFailsIInv ==
  ASSUME IInv, NEW w \in Writers, OpenFails(w)
  PROVE  IInv'
  BY NoneAssumption, BlocksAssumption
  DEF OpenFails, Return, IInv, TypeOK, CallHasData, TmpOwned, TmpUnshared, Progress, Sound,
      NoOrphanTmp, InFlight, Whole, Durable, Steps

LEMMA OpenIInv ==
  ASSUME IInv, NEW w \in Writers, NEW n \in Names, Open(w, n)
  PROVE  IInv'
  BY NoneAssumption, BlocksAssumption
  DEF Open, FreeName, Goto, IInv, TypeOK, CallHasData, TmpOwned, TmpUnshared, Progress, Sound,
      NoOrphanTmp, InFlight, Whole, Durable, Steps, File, Lengths

(* Changing one field of a file changes no other. *)
LEMMA FileFields ==
  ASSUME NEW f \in File, NEW k \in Lengths
  PROVE  /\ [f EXCEPT !.len = k] \in File
         /\ [f EXCEPT !.len = k].len = k
         /\ [f EXCEPT !.len = k].data = f.data
         /\ [f EXCEPT !.dur = k] \in File
         /\ [f EXCEPT !.dur = k].dur = k
         /\ [f EXCEPT !.dur = k].data = f.data
         /\ [f EXCEPT !.dur = k].len = f.len
  BY DEF File

LEMMA WriteIInv ==
  ASSUME IInv, NEW w \in Writers, Write(w)
  PROVE  IInv'
  <1> DEFINE n == name[w]
  <1>1. PICK k \in Lengths :
          /\ tmp' = [tmp EXCEPT ![n] = [tmp[n] EXCEPT !.len = k]]
          /\ failed' = [failed EXCEPT ![w] = k < Blocks]
    BY DEF Write
  <1>2. n \in Names /\ tmp[n] \in File
    BY DEF IInv, TypeOK, TmpOwned, InFlight, Write
  <1>3. /\ tmp'[n] \in File /\ tmp'[n] # None
        /\ tmp'[n].len = k /\ tmp'[n].data = tmp[n].data
        /\ \A m \in Names \ {n} : tmp'[m] = tmp[m]
        /\ tmp' \in [Names -> File \cup {None}]
    <2> DEFINE g == [tmp[n] EXCEPT !.len = k]
    <2>1. g \in File /\ g # None /\ g.len = k /\ g.data = tmp[n].data
      BY <1>2, FileFields, NoneAssumption
    <2>2. tmp' = [tmp EXCEPT ![n] = g] /\ tmp \in [Names -> File \cup {None}]
      BY <1>1 DEF IInv, TypeOK
    <2> HIDE DEF g
    <2> QED BY <1>2, <2>1, <2>2
  <1>4. failed' \in [Writers -> BOOLEAN] /\ (~failed'[w] => k = Blocks)
    <2>1. CASE k < Blocks
      BY <1>1, <2>1 DEF IInv, TypeOK
    <2>2. CASE ~(k < Blocks)
      <3>1. k = Blocks
        BY <2>2, BlocksAssumption DEF Lengths
      <3>2. failed' = [failed EXCEPT ![w] = FALSE]
        <4>1. (k < Blocks) = FALSE
          BY <2>2
        <4> QED BY <1>1, <4>1, Zenon
      <3> QED BY <3>1, <3>2 DEF IInv, TypeOK
    <2> QED BY <2>1, <2>2
  <1>5. \A v \in Writers \ {w} : InFlight(v) => name[v] \in Names \ {n}
    BY DEF IInv, TmpOwned, TmpUnshared, Write, InFlight
  <1>6. /\ pc' = [pc EXCEPT ![w] = "sync"]
        /\ UNCHANGED <<target, disk, data, name, result, leaked>>
        /\ pc[w] = "write"
    BY DEF Write, Goto
  <1>7. \A v \in Writers \ {w} : pc'[v] = pc[v] /\ failed'[v] = failed[v]
    BY <1>1, <1>6 DEF IInv, TypeOK
  <1> QED
    BY <1>2, <1>3, <1>4, <1>5, <1>6, <1>7
    DEF IInv, TypeOK, CallHasData, TmpOwned, TmpUnshared, Progress, Sound,
      NoOrphanTmp, InFlight, Whole, Durable, Steps

LEMMA SyncIInv ==
  ASSUME IInv, NEW w \in Writers, Sync(w)
  PROVE  IInv'
  <1> DEFINE n == name[w]
  <1>1. n \in Names /\ tmp[n] \in File /\ tmp[n].len \in Lengths
    BY DEF IInv, TypeOK, TmpOwned, InFlight, Sync, File
  <1>2. \A v \in Writers \ {w} : InFlight(v) => name[v] \in Names \ {n}
    BY DEF IInv, TmpOwned, TmpUnshared, Sync, InFlight
  <1>3. /\ pc' = [pc EXCEPT ![w] = "close"]
        /\ UNCHANGED <<target, disk, data, name, result, leaked>>
        /\ pc[w] = "sync"
    BY DEF Sync, Goto
  <1>4. CASE tmp' = [tmp EXCEPT ![n] = [tmp[n] EXCEPT !.dur = tmp[n].len]] /\ failed' = failed
    <2>1. /\ tmp'[n] \in File /\ tmp'[n] # None
          /\ tmp'[n].len = tmp[n].len /\ tmp'[n].dur = tmp[n].len /\ tmp'[n].data = tmp[n].data
          /\ \A m \in Names \ {n} : tmp'[m] = tmp[m]
          /\ tmp' \in [Names -> File \cup {None}]
      <3> DEFINE g == [tmp[n] EXCEPT !.dur = tmp[n].len]
      <3>1. g \in File /\ g # None /\ g.len = tmp[n].len /\ g.dur = tmp[n].len /\ g.data = tmp[n].data
        BY <1>1, FileFields, NoneAssumption
      <3>2. tmp' = [tmp EXCEPT ![n] = g] /\ tmp \in [Names -> File \cup {None}]
        BY <1>4 DEF IInv, TypeOK
      <3> HIDE DEF g
      <3> QED BY <1>1, <3>1, <3>2
    <2> QED
      BY <1>1, <1>2, <1>3, <1>4, <2>1
      DEF IInv, TypeOK, CallHasData, TmpOwned, TmpUnshared, Progress, Sound,
        NoOrphanTmp, InFlight, Whole, Durable, Steps
  <1>5. CASE tmp' = tmp /\ failed' = [failed EXCEPT ![w] = TRUE]
    BY <1>1, <1>2, <1>3, <1>5
    DEF IInv, TypeOK, CallHasData, TmpOwned, TmpUnshared, Progress, Sound,
      NoOrphanTmp, InFlight, Whole, Durable, Steps
  <1> QED
    BY <1>4, <1>5 DEF Sync

LEMMA CloseIInv ==
  ASSUME IInv, NEW w \in Writers, Close(w)
  PROVE  IInv'
  BY NoneAssumption, BlocksAssumption
  DEF Close, Goto, IInv, TypeOK, CallHasData, TmpOwned, TmpUnshared, Progress, Sound,
      NoOrphanTmp, InFlight, Whole, Durable, Steps

LEMMA RenameIInv ==
  ASSUME IInv, NEW w \in Writers, Rename(w)
  PROVE  IInv'
  BY NoneAssumption, BlocksAssumption
  DEF Rename, Return, IInv, TypeOK, CallHasData, TmpOwned, TmpUnshared, Progress, Sound,
      NoOrphanTmp, InFlight, Whole, Durable, Steps

LEMMA RenameFailsIInv ==
  ASSUME IInv, NEW w \in Writers, RenameFails(w)
  PROVE  IInv'
  BY NoneAssumption, BlocksAssumption
  DEF RenameFails, Goto, IInv, TypeOK, CallHasData, TmpOwned, TmpUnshared, Progress, Sound,
      NoOrphanTmp, InFlight, Whole, Durable, Steps

LEMMA RemoveIInv ==
  ASSUME IInv, NEW w \in Writers, Remove(w)
  PROVE  IInv'
  BY NoneAssumption, BlocksAssumption
  DEF Remove, Return, IInv, TypeOK, CallHasData, TmpOwned, TmpUnshared, Progress, Sound,
      NoOrphanTmp, InFlight, Whole, Durable, Steps

LEMMA FlushIInv == IInv /\ Flush => IInv'
  BY DEF Flush, IInv, TypeOK, CallHasData, TmpOwned, TmpUnshared, Progress, Sound,
      NoOrphanTmp, InFlight, Whole, Durable

LEMMA KillIInv == IInv /\ Kill => IInv'
  BY NoneAssumption DEF Kill, Abandon, IInv, TypeOK, CallHasData, TmpOwned, TmpUnshared,
      Progress, Sound, NoOrphanTmp, InFlight, Whole, Durable, Steps

(* What a power loss leaves of a file is a file with the same payload. *)
LEMMA RemainsFile ==
  ASSUME NEW f \in File \cup {None}, NEW g \in Remains(f)
  PROVE  /\ g \in File \cup {None}
         /\ f = None <=> g = None
         /\ f # None => g.data = f.data /\ g.len = g.dur
         /\ Sound(f) => Sound(g)
  BY NoneAssumption, BlocksAssumption DEF Remains, File, Lengths, Sound, Whole, Durable

LEMMA PowerLossIInv == IInv /\ PowerLoss => IInv'
  <1> SUFFICES ASSUME IInv, PowerLoss PROVE IInv'
    OBVIOUS
  <1>1. target' \in File \cup {None} /\ Sound(target')
    BY RemainsFile DEF PowerLoss, IInv, TypeOK
  <1>2. tmp' \in [Names -> File \cup {None}]
    <2>1. \A n \in Names : tmp'[n] \in File \cup {None}
      BY RemainsFile DEF PowerLoss, IInv, TypeOK
    <2>2. tmp' = [n \in Names |-> tmp'[n]]
      BY DEF PowerLoss
    <2> QED BY <2>1, <2>2
  <1> QED
    BY <1>1, <1>2 DEF PowerLoss, Abandon, IInv, TypeOK, CallHasData, TmpOwned, TmpUnshared,
      Progress, Sound, NoOrphanTmp, InFlight, Steps

LEMMA NextIInv == IInv /\ [Next]_vars => IInv'
  <1> SUFFICES ASSUME IInv, [Next]_vars PROVE IInv'
    OBVIOUS
  <1>1. ASSUME NEW w \in Writers, Step(w) PROVE IInv'
    BY <1>1, CallIInv, OpenFailsIInv, OpenIInv, WriteIInv, SyncIInv, CloseIInv, RenameIInv,
       RenameFailsIInv, RemoveIInv DEF Step
  <1>2. CASE UNCHANGED vars
    BY <1>2 DEF vars, IInv, TypeOK, CallHasData, TmpOwned, TmpUnshared, Progress, Sound,
      NoOrphanTmp, InFlight, Whole, Durable
  <1> QED
    BY <1>1, <1>2, FlushIInv, KillIInv, PowerLossIInv DEF Next

LEMMA Inductive == Spec => []IInv
  BY InitIInv, NextIInv, PTL DEF Spec

-----------------------------------------------------------------------------
(* The variables of atomicWriteFile keep their types.                       *)
THEOREM TypeCorrect == Spec => []TypeOK
  <1>1. IInv => TypeOK
    BY DEF IInv
  <1> QED BY <1>1, Inductive, PTL

(* No reader of a path ever sees a partial payload, for any number of       *)
(* concurrent atomicWriteFile calls, I/O errors, kills and power losses.    *)
THEOREM ReadersSeeWholeFiles == Spec => []NeverTorn
  <1>1. IInv => NeverTorn
    BY DEF IInv, NeverTorn, Sound
  <1> QED BY <1>1, Inductive, PTL

(* The file a power loss would leave at the path is always complete.        *)
THEOREM PowerLossKeepsWholeFiles == Spec => []NeverTornByPowerLoss
  <1>1. IInv => NeverTornByPowerLoss
    BY DEF IInv, NeverTornByPowerLoss, Sound
  <1> QED BY <1>1, Inductive, PTL

(* Every temporary file belongs to a call in flight or was left by a crash  *)
(* or by an os.Remove that failed.                                          *)
THEOREM TmpFilesAccountedFor == Spec => []NoOrphanTmp
  <1>1. IInv => NoOrphanTmp
    BY DEF IInv
  <1> QED BY <1>1, Inductive, PTL

-----------------------------------------------------------------------------
(* Refinement of AtomicRegister: each step maps to a register step or a stutter. *)
LEMMA InitRegister == Init => Register!Init
  BY NoneAssumption, BlocksAssumption
  DEF Init, Register!Init, Register!NoPending, Register!NoResult, Shown, Complete, File, Lengths

LEMMA StepRegister ==
  ASSUME IInv, NEW w \in Writers, Step(w)
  PROVE  [Register!Next]_Register!vars
  <1> USE DEF Register!vars, Shown
  <1>0. [v \in Writers |-> data[v]] = data /\ [v \in Writers |-> data'[v]] = data'
    BY DEF IInv, TypeOK, Step, Call, OpenFails, Return, Open, Write, Sync, Close, Rename,
       RenameFails, Remove
  <1>1. ASSUME NEW d \in Data, Call(w, d) PROVE Register!Call(w, d)
    BY <1>0, <1>1 DEF Register!Call, Call, Goto, IInv, CallHasData, TypeOK
  <1>2. ASSUME OpenFails(w) \/ Remove(w) PROVE Register!Fail(w)
    BY <1>0, <1>2 DEF Register!Fail, OpenFails, Remove, Return, IInv, CallHasData, TypeOK
  <1>3. ASSUME NEW n \in Names, Open(w, n) PROVE UNCHANGED Register!vars
    BY <1>3 DEF Open
  <1>4. ASSUME Write(w) \/ Sync(w) \/ Close(w) \/ RenameFails(w) PROVE UNCHANGED Register!vars
    BY <1>4 DEF Write, Sync, Close, RenameFails
  <1>5. ASSUME Rename(w) PROVE Register!Install(w)
    <2>1. pc[w] = "rename" /\ tmp[name[w]] # None /\ tmp[name[w]].data = data[w]
      BY <1>5 DEF Rename, IInv, TmpOwned, InFlight
    <2> QED
      BY <1>0, <1>5, <2>1 DEF Register!Install, Rename, Return, IInv, CallHasData, TypeOK
  <1> QED
    BY <1>1, <1>2, <1>3, <1>4, <1>5 DEF Step, Register!Next

LEMMA NextRegister == IInv /\ [Next]_vars => [Register!Next]_Register!vars
  <1> SUFFICES ASSUME IInv, [Next]_vars PROVE [Register!Next]_Register!vars
    OBVIOUS
  <1>1. CASE Flush
    BY <1>1 DEF Flush, Register!Next, Register!Persist, Shown
  <1>2. CASE Kill
    BY <1>2 DEF Kill, Abandon, Register!Next, Register!Kill, Register!NoPending,
       Register!NoResult, Shown
  <1>3. CASE PowerLoss
    <2>1. Shown(target)' = Shown(disk) /\ Shown(disk)' = Shown(disk)
      BY <1>3, RemainsFile DEF PowerLoss, IInv, TypeOK, Shown
    <2> QED
      BY <1>3, <2>1 DEF PowerLoss, Abandon, Register!Next, Register!PowerLoss,
         Register!NoPending, Register!NoResult
  <1>4. CASE UNCHANGED vars
    BY <1>4 DEF vars, Register!vars, Shown
  <1> QED
    BY <1>1, <1>2, <1>3, <1>4, StepRegister DEF Next

(* atomicWriteFile implements the register AtomicRegister promises: for any *)
(* number of concurrent writers, a call installs its whole payload in one   *)
(* step and returns ok, or installs nothing and returns an error, and a     *)
(* power loss falls back to a payload that had been installed.              *)
THEOREM WriteFileIsAtomic == Spec => ImplementsRegister
  BY InitRegister, NextRegister, Inductive, PTL DEF Spec, ImplementsRegister, Register!Spec

-----------------------------------------------------------------------------
(* The audit log.  The invariant is that the places of the last lines read  *)
(* hold them: line k is at place k - 1 modulo the limit.  A line the reader *)
(* has put there ends in a newline, so no later write changes it.           *)

(* Two positions that are less than n apart do not share a place in a ring  *)
(* of n.                                                                    *)
LEMMA RingPlaces ==
  ASSUME NEW n \in Nat \ {0}, NEW i \in Nat, NEW j \in Nat, i < j, j < i + n
  PROVE  i % n # j % n
<1> DEFINE q == i \div n
           p == j \div n
<1>1. i = n * q + (i % n) /\ j = n * p + (j % n)
  OBVIOUS
<1>2. q \in Int /\ p \in Int /\ i % n \in 0..(n - 1) /\ j % n \in 0..(n - 1)
  OBVIOUS
<1> SUFFICES ASSUME i % n = j % n PROVE FALSE
  OBVIOUS
<1> HIDE DEF q, p
<1>3. j - i = n * p - n * q
  BY <1>1, <1>2
<1>4. n * p - n * q = n * (p - q)
  BY <1>2
<1>5. CASE p - q <= 0
  <2>1. n * (p - q) <= 0
    BY <1>2, <1>5
  <2> QED
    BY <1>2, <1>3, <1>4, <2>1
<1>6. CASE p - q >= 1
  <2>1. n * (p - q) >= n
    BY <1>2, <1>6
  <2> QED
    BY <1>2, <1>3, <1>4, <2>1
<1> QED
  BY <1>2, <1>5, <1>6

LEMMA RingPlace ==
  ASSUME NEW n \in Nat \ {0}, NEW i \in Nat
  PROVE  i % n \in 0..(n - 1)
OBVIOUS

(* The lines read, up to the limit, are in their places and ended. *)
RingHolds ==
  \A k \in 1..count : /\ k > count - limit => ring[(k - 1) % limit] = log[k]
                      /\ reader = "scan" => log[k].ended

InRange ==
  /\ reader = "new" => count = 0
  /\ reader \in {"new", "scan"} => count <= Len(log) /\ RingHolds

(* Lines are closed before the next one starts. *)
OnlyLastOpen == \A k \in 1..(Len(log) - 1) : log[k].ended

RingInv == LogTypeOK /\ InRange /\ OnlyLastOpen

-----------------------------------------------------------------------------
LEMMA NoLineTyped == NoLine \in Lines
BY DEF NoLine, Lines

LEMMA InitTyped == LogInit => LogTypeOK
<1> SUFFICES ASSUME LogInit PROVE LogTypeOK
  OBVIOUS
<1>1. limit \in Nat \ {0}
  BY LogAssumption DEF LogInit, Effective
<1> QED
  BY <1>1, NoLineTyped DEF LogInit, LogTypeOK

LEMMA ExtendedTyped ==
  ASSUME LogTypeOK, NEW piece \in Pieces, NEW newline \in BOOLEAN
  PROVE  /\ Extended(piece, newline) \in Seq(Lines)
         /\ Len(Extended(piece, newline)) >= Len(log)
         /\ \A k \in DOMAIN log : log[k].ended => Extended(piece, newline)[k] = log[k]
         /\ OnlyLastOpen => \A k \in 1..(Len(Extended(piece, newline)) - 1) :
                               Extended(piece, newline)[k].ended
<1>1. CASE log = <<>> \/ log[Len(log)].ended
  <2>1. [text |-> <<piece>>, ended |-> newline] \in Lines
    BY DEF Lines
  <2> QED
    BY <1>1, <2>1 DEF Extended, LogTypeOK, OnlyLastOpen
<1>2. CASE ~(log = <<>> \/ log[Len(log)].ended)
  <2>1. log[Len(log)] \in Lines /\ Len(log) \in DOMAIN log
    BY <1>2 DEF LogTypeOK
  <2>2. Append(log[Len(log)].text, piece) \in Seq(Pieces)
    BY <2>1 DEF Lines
  <2>3. [text |-> Append(log[Len(log)].text, piece), ended |-> newline] \in Lines
    BY <2>2 DEF Lines
  <2> QED
    BY <1>2, <2>1, <2>3 DEF Extended, LogTypeOK, OnlyLastOpen
<1> QED
  BY <1>1, <1>2

LEMMA NextTyped == LogTypeOK /\ [LogNext]_logVars => LogTypeOK'
<1> SUFFICES ASSUME LogTypeOK, [LogNext]_logVars PROVE LogTypeOK'
  OBVIOUS
<1>1. ASSUME NEW w \in Callers, NEW how \in {"part", "data", "line"}, WriteAudit(w, how)
      PROVE  LogTypeOK'
  <2>1. [by |-> w, whole |-> how # "part"] \in Pieces /\ (how = "line") \in BOOLEAN
    BY DEF Pieces
  <2>2. log' \in Seq(Lines)
    BY <1>1, <2>1, ExtendedTyped DEF WriteAudit
  <2> QED
    BY <1>1, <2>2 DEF LogTypeOK, WriteAudit, readVars
<1>2. ASSUME OpenLog PROVE LogTypeOK'
  BY <1>2 DEF OpenLog, LogTypeOK, fileVars
<1>3. ASSUME Scan PROVE LogTypeOK'
  <2>1. /\ ring' \in [0..(limit - 1) -> Lines] /\ count' \in Nat
        /\ limit' = limit /\ log' = log /\ what' = what /\ written' = written
    <3>1. log[count + 1] \in Lines
      BY <1>3 DEF Scan, LogTypeOK
    <3> QED
      BY <1>3, <3>1 DEF Scan, Put, LogTypeOK, fileVars
  <2>3. reader' \in {"new", "scan", "done", "failed"}
    BY <1>3 DEF Scan, Done, LogTypeOK
  <2> QED
    BY <2>1, <2>3 DEF LogTypeOK
<1>4. ASSUME ScanTooLong PROVE LogTypeOK'
  BY <1>4 DEF ScanTooLong, LogTypeOK, fileVars
<1>5. ASSUME AtEnd PROVE LogTypeOK'
  BY <1>5 DEF AtEnd, Done, LogTypeOK, fileVars
<1>6. ASSUME UNCHANGED logVars PROVE LogTypeOK'
  BY <1>6 DEF logVars, fileVars, readVars, LogTypeOK
<1> QED
  BY <1>1, <1>2, <1>3, <1>4, <1>5, <1>6 DEF LogNext

(* Every variable but the answer keeps its type. *)
THEOREM LogTypeCorrect == LogSpec => []LogTypeOK
<1>1. LogInit => LogTypeOK
  BY InitTyped
<1>2. LogTypeOK /\ [LogNext]_logVars => LogTypeOK'
  BY NextTyped
<1> QED
  BY <1>1, <1>2, PTL DEF LogSpec

-----------------------------------------------------------------------------
(* A write leaves alone what the reader has read. *)
LEMMA WriteKeeps ==
  ASSUME RingInv, NEW w \in Callers, NEW how \in {"part", "data", "line"}, WriteAudit(w, how)
  PROVE  InRange' /\ OnlyLastOpen'
<1>1. /\ Len(log') >= Len(log)
      /\ \A k \in DOMAIN log : log[k].ended => log'[k] = log[k]
      /\ OnlyLastOpen'
      /\ UNCHANGED <<reader, limit, ring, count>>
  BY ExtendedTyped DEF RingInv, WriteAudit, Pieces, readVars, OnlyLastOpen
<1>2. ASSUME reader \in {"new", "scan"}
      PROVE  count <= Len(log') /\ RingHolds'
  <2>1. count <= Len(log) /\ RingHolds /\ count \in Nat /\ limit \in Nat
    BY <1>2 DEF RingInv, InRange, LogTypeOK
  <2>2. count <= Len(log')
    BY <1>1, <2>1 DEF RingInv, LogTypeOK
  <2>3. \A k \in 1..count : reader = "scan"
    BY <1>2 DEF RingInv, InRange
  <2>4. \A k \in 1..count : k \in DOMAIN log /\ log'[k] = log[k]
    <3> SUFFICES ASSUME NEW k \in 1..count PROVE k \in DOMAIN log /\ log'[k] = log[k]
      OBVIOUS
    <3>1. k \in DOMAIN log
      BY <2>1 DEF RingInv, LogTypeOK
    <3>2. log[k].ended
      BY <2>1, <2>3 DEF RingHolds
    <3> QED
      BY <1>1, <3>1, <3>2
  <2> QED
    BY <1>1, <2>1, <2>2, <2>4 DEF RingHolds
<1> QED
  BY <1>1, <1>2 DEF RingInv, InRange

(* One more line in the ring, over the one that is limit lines older.      *)
LEMMA PutHolds ==
  ASSUME RingInv, reader = "scan", count < Len(log),
         NEW buffer, buffer = Put(log[count + 1]), NEW c, c = count + 1
  PROVE  \A k \in 1..c : k > c - limit => buffer[(k - 1) % limit] = log[k]
<1>1. /\ limit \in Nat \ {0} /\ count \in Nat /\ ring \in [0..(limit - 1) -> Lines]
      /\ RingHolds
  BY DEF RingInv, LogTypeOK, InRange
<1> SUFFICES ASSUME NEW k \in 1..c, k > c - limit
             PROVE  buffer[(k - 1) % limit] = log[k]
  OBVIOUS
<1>2. (k - 1) % limit \in 0..(limit - 1) /\ count % limit \in 0..(limit - 1)
  <2>1. k - 1 \in Nat
    BY <1>1
  <2> QED
    BY <1>1, <2>1, RingPlace
<1>3. CASE k = count + 1
  BY <1>1, <1>2, <1>3 DEF Put
<1>4. CASE k \in 1..count
  <2>1. (k - 1) % limit # count % limit
    <3>1. k - 1 \in Nat /\ k - 1 < count /\ count < (k - 1) + limit
      BY <1>1, <1>4
    <3> QED
      BY <1>1, <3>1, RingPlaces
  <2>2. ring[(k - 1) % limit] = log[k]
    BY <1>1, <1>4 DEF RingHolds
  <2> QED
    BY <1>1, <1>2, <2>1, <2>2 DEF Put
<1> QED
  BY <1>1, <1>3, <1>4

LEMMA ScanKeeps ==
  ASSUME RingInv, Scan
  PROVE  InRange' /\ OnlyLastOpen'
<1>1. /\ reader = "scan" /\ count < Len(log) /\ count' = count + 1
      /\ ring' = Put(log[count + 1]) /\ UNCHANGED <<limit, log>>
      /\ log[count + 1].ended \/ reader' = "done"
      /\ reader' \in {"scan", "done"}
  BY DEF Scan, Done, fileVars
<1>2. count \in Nat /\ Len(log) \in Nat /\ RingHolds
  BY <1>1 DEF RingInv, LogTypeOK, InRange
<1>3. \A k \in 1..count' : k > count' - limit => ring'[(k - 1) % limit] = log[k]
  BY <1>1, PutHolds
<1>4. reader' = "scan" => \A k \in 1..count' : log[k].ended
  <2> SUFFICES ASSUME reader' = "scan", NEW k \in 1..count' PROVE log[k].ended
    OBVIOUS
  <2>1. CASE k \in 1..count
    BY <1>1, <1>2, <2>1 DEF RingHolds
  <2>2. CASE k = count + 1
    BY <1>1, <2>2
  <2> QED
    BY <1>1, <1>2, <2>1, <2>2
<1>5. RingHolds'
  <2>1. limit' = limit /\ log' = log /\ count' = count + 1
    BY <1>1
  <2> QED
    BY <1>3, <1>4, <2>1, Zenon DEF RingHolds
<1>6. OnlyLastOpen'
  BY <1>1 DEF RingInv, OnlyLastOpen
<1>7. count' <= Len(log')
  BY <1>1, <1>2
<1> QED
  BY <1>1, <1>5, <1>6, <1>7 DEF InRange

LEMMA NextRingInv == RingInv /\ [LogNext]_logVars => RingInv'
<1> SUFFICES ASSUME RingInv, [LogNext]_logVars PROVE RingInv'
  OBVIOUS
<1>1. LogTypeOK'
  BY NextTyped DEF RingInv
<1>2. ASSUME OpenLog \/ ScanTooLong \/ AtEnd \/ UNCHANGED logVars PROVE InRange' /\ OnlyLastOpen'
  <2>1. UNCHANGED <<log, limit, ring, count>> /\ (reader' = reader \/ reader' \in {"scan", "done", "failed"})
    BY <1>2 DEF OpenLog, ScanTooLong, AtEnd, Done, logVars, fileVars, readVars
  <2>2. reader' \in {"new", "scan"} => reader \in {"new", "scan"} /\ (reader' # reader => count = 0)
    BY <1>2 DEF RingInv, InRange, OpenLog, ScanTooLong, AtEnd, Done, logVars, fileVars, readVars
  <2>3. OnlyLastOpen' /\ (reader' = "new" => count' = 0)
    BY <1>2, <2>1 DEF RingInv, InRange, OnlyLastOpen, OpenLog, ScanTooLong, AtEnd, Done, logVars, fileVars, readVars
  <2>4. ASSUME reader' \in {"new", "scan"} PROVE count' <= Len(log') /\ RingHolds'
    <3>1. CASE reader' # reader
      BY <2>1, <2>2, <2>4, <3>1 DEF RingInv, InRange, RingHolds, LogTypeOK
    <3>2. CASE reader' = reader
      BY <2>1, <2>2, <2>4, <3>2, Zenon DEF RingInv, InRange, RingHolds
    <3> QED
      BY <3>1, <3>2
  <2> QED
    BY <2>3, <2>4 DEF InRange
<1> QED
  BY <1>1, <1>2, WriteKeeps, ScanKeeps DEF LogNext, RingInv

LEMMA RingInductive == LogSpec => []RingInv
<1>1. LogInit => RingInv
  BY InitTyped DEF LogInit, RingInv, InRange, RingHolds, OnlyLastOpen
<1>2. RingInv /\ [LogNext]_logVars => RingInv'
  BY NextRingInv
<1> QED
  BY <1>1, <1>2, PTL DEF LogSpec

(* What FromRing returns when the places of the last lines hold them. *)
LEMMA FromRingIsTail ==
  ASSUME NEW n \in Nat \ {0}, NEW buffer, log \in Seq(Lines),
         \A k \in 1..Len(log) : k > Len(log) - n => buffer[(k - 1) % n] = log[k]
  PROVE  FromRing(n, buffer, Len(log)) = LastLines(n)
<1> DEFINE size == IF n > Len(log) THEN Len(log) ELSE n
           start == Len(log) - size
<1>1. /\ size \in Nat /\ start \in Nat /\ Len(log) \in Nat
      /\ size <= n /\ start + size = Len(log)
      /\ start = IF n > Len(log) THEN 0 ELSE Len(log) - n
  OBVIOUS
<1>2. FromRing(n, buffer, Len(log)) = [i \in 1..size |-> buffer[(start + i - 1) % n]]
  BY DEF FromRing
<1>3. LastLines(n) = SubSeq(log, start + 1, Len(log))
  BY <1>1 DEF LastLines
<1> HIDE DEF size, start
<1>4. SubSeq(log, start + 1, Len(log)) = [i \in 1..size |-> log[start + i]]
  <2>1. start + 1 \in 1..(Len(log) + 1) /\ Len(log) \in (start + 1 - 1)..Len(log)
    BY <1>1
  <2>2. SubSeq(log, start + 1, Len(log))
          = [i \in 1..(Len(log) - (start + 1) + 1) |-> log[(start + 1) + i - 1]]
    BY <2>1, SubSeqProperties
  <2>3. Len(log) - (start + 1) + 1 = size /\ \A i \in 1..size : (start + 1) + i - 1 = start + i
    BY <1>1
  <2> QED
    BY <2>2, <2>3
<1>5. \A i \in 1..size : buffer[(start + i - 1) % n] = log[start + i]
  <2> TAKE i \in 1..size
  <2>1. start + i \in 1..Len(log) /\ start + i > Len(log) - n
    BY <1>1
  <2>2. PICK k \in 1..Len(log) : k = start + i /\ k > Len(log) - n
    BY <2>1
  <2>3. buffer[(k - 1) % n] = log[k]
    BY <2>2
  <2>4. start + i - 1 = k - 1
    BY <1>1, <2>2
  <2> QED
    BY <2>2, <2>3, <2>4
<1> QED
  BY <1>2, <1>3, <1>4, <1>5

(* The reader's answer is the end of the file at the instant it ends.      *)
THEOREM AnswersAreTails == LogSpec => AnswerIsTail
<1> DEFINE Ends == reader # "done" /\ reader' = "done" => answer' = Report(LastLines(limit))
<1>1. RingInv /\ [LogNext]_logVars => Ends
  <2> SUFFICES ASSUME RingInv, LogNext, reader # "done", reader' = "done"
               PROVE  answer' = Report(LastLines(limit))
    BY DEF logVars, readVars
  <2>1. limit \in Nat \ {0} /\ log \in Seq(Lines) /\ count \in Nat /\ Len(log) \in Nat
    BY DEF RingInv, LogTypeOK
  <2>2. CASE AtEnd
    <3>1. /\ count = Len(log) /\ RingHolds
          /\ answer' = Report(FromRing(limit, ring, Len(log)))
      BY <2>2 DEF AtEnd, Done, RingInv, InRange
    <3>2. FromRing(limit, ring, Len(log)) = LastLines(limit)
      BY <2>1, <3>1, FromRingIsTail DEF RingHolds
    <3> QED
      BY <3>1, <3>2
  <2>3. CASE Scan
    <3>1. /\ reader = "scan" /\ count < Len(log) /\ ring' = Put(log[count + 1])
          /\ ~log[count + 1].ended /\ answer' = Report(FromRing(limit, ring', count + 1))
      BY <2>3 DEF Scan, Done
    <3>2. count + 1 = Len(log)
      <4>1. log[count + 1].ended \/ count + 1 >= Len(log)
        BY <2>1, <3>1 DEF RingInv, OnlyLastOpen
      <4> QED
        BY <2>1, <3>1, <4>1
    <3>3. \A k \in 1..Len(log) : k > Len(log) - limit => ring'[(k - 1) % limit] = log[k]
      BY <3>1, <3>2, PutHolds
    <3>4. FromRing(limit, ring', Len(log)) = LastLines(limit)
      BY <2>1, <3>3, FromRingIsTail
    <3> QED
      BY <3>1, <3>2, <3>4
  <2> QED
    BY <2>2, <2>3 DEF LogNext, WriteAudit, OpenLog, ScanTooLong, readVars
<1>2. RingInv /\ [LogNext]_logVars => [Ends]_logVars
  BY <1>1
<1> QED
  BY <1>2, RingInductive, PTL DEF AnswerIsTail, LogSpec

-----------------------------------------------------------------------------
(* TokenRotation.  TokenIInv holds however rotations interleave;            *)
(* UnracedIInv adds what holds as long as no two of them have overlapped.   *)

(* The steps at which r has assigned half of s.cfg.AuthToken, and those at  *)
(* which it has assigned the pointer but not yet answered.                  *)
Halfway(r) == step[r] \in {"storePtr", "storeLen"}
Pointed(r) == step[r] \in {"storeLen", "copy", "write"}

Generated == Tokens \ Short

(* Only a running server has rotations in flight. *)
DownIsIdle ==
  /\ up => ptr \in Tokens /\ file # NoToken
  /\ ~up => ptr = NoToken /\ len = "zero" /\ Quiet

(* What r has generated, and the words it has stored. *)
Assigned ==
  \A r \in Requests :
    /\ Rotating(r) /\ step[r] # "generate" => fresh[r] \in Generated
    /\ step[r] = "storePtr" => len = "full"
    /\ step[r] = "storeLen" => ptr \in Generated
    /\ step[r] \in {"copy", "write"} => ptr \in Generated /\ len = "full"
    /\ step[r] = "write" => snap[r] \in Generated

TornIsHalfway == mem = Torn => \E r \in Requests : Halfway(r)

KnownPointer ==
  up /\ ~unsaved =>
    \/ ptr \in handed
    \/ \E r \in Requests : Pointed(r) /\ ptr = fresh[r]
    \/ ptr = file /\ \A r \in Requests : ~Pointed(r)

TokensUsed ==
  /\ ptr \in used \cup {NoToken}
  /\ file \in used \cup {NoToken}
  /\ \A r \in Requests : fresh[r] \in used \cup {NoToken}
  /\ \A r \in Requests : snap[r] \in used \cup {NoToken}
  /\ \A r \in Requests : step[r] \in {"storeLen", "copy", "write"} => replaced[r] \in used

TokenIInv ==
  /\ TokenTypeOK
  /\ DownIsIdle
  /\ Assigned
  /\ TornIsHalfway
  /\ KnownPointer
  /\ TokensUsed

LEMMA InitTokenIInv == TokenInit => TokenIInv
<1> SUFFICES ASSUME TokenInit PROVE TokenIInv
  OBVIOUS
<1>1. used \subseteq Tokens /\ file \in used \cup {NoToken} /\ ptr \in used \cup {NoToken}
  BY TokensAssumption DEF TokenInit
<1>2. TokenTypeOK
  BY <1>1, TokensAssumption DEF TokenInit, TokenTypeOK
<1>3. mem # Torn
  BY TokensAssumption DEF TokenInit, mem, Size
<1> QED
  BY <1>1, <1>2, <1>3
  DEF TokenInit, TokenIInv, DownIsIdle, Assigned, TornIsHalfway, KnownPointer, TokensUsed, Quiet, Rotating,
      Pointed

LEMMA NextTokenIInv == TokenIInv /\ [TokenNext]_tokenVars => TokenIInv'
<1> SUFFICES ASSUME TokenIInv, [TokenNext]_tokenVars PROVE TokenIInv'
  OBVIOUS
<1> USE TokensAssumption
        DEF TokenIInv, TokenTypeOK, DownIsIdle, Assigned, TornIsHalfway, KnownPointer, TokensUsed, Quiet,
            Rotating, Halfway, Pointed, mem, Size, Generated, StepTo, Respond, Set
<1>1. CASE Load
  BY <1>1 DEF Load
<1>2. ASSUME NEW t \in Tokens, Create(t) PROVE TokenIInv'
  BY <1>2 DEF Create
<1>3. CASE KillServer
  BY <1>3 DEF KillServer
<1>4. ASSUME NEW r \in Requests, NEW t \in Tokens, Enter(r, t) PROVE TokenIInv'
  <2>1. raced' \in BOOLEAN
    BY <1>4 DEF Enter
  <2>2. step' = [step EXCEPT ![r] = "generate"] \/ step' = [step EXCEPT ![r] = "done"]
    BY <1>4 DEF Enter
  <2>3. /\ code' = code \/ code' = [code EXCEPT ![r] = 403]
        /\ step[r] = "new"
        /\ up
        /\ UNCHANGED <<ptr, len, file, up, unsaved, used, handed, retired, fresh, snap, replaced>>
    BY <1>4 DEF Enter
  <2> QED
    BY <2>1, <2>2, <2>3
<1>5. ASSUME NEW r \in Requests, NEW t \in Tokens, Generate(r, t) PROVE TokenIInv'
  BY <1>5 DEF Generate
<1>6. ASSUME NEW r \in Requests, GenerateFails(r) PROVE TokenIInv'
  BY <1>6 DEF GenerateFails
<1>7. ASSUME NEW r \in Requests, BeginStore(r) PROVE TokenIInv'
  BY <1>7 DEF BeginStore, StorePtr, StoreLen
<1>8. ASSUME NEW r \in Requests, EndStore(r) PROVE TokenIInv'
  BY <1>8 DEF EndStore, StorePtr, StoreLen
<1>9. ASSUME NEW r \in Requests, Copy(r) PROVE TokenIInv'
  BY <1>9 DEF Copy
<1>10. ASSUME NEW r \in Requests, WriteToken(r) PROVE TokenIInv'
  BY <1>10 DEF WriteToken
<1>11. ASSUME NEW r \in Requests, WriteFails(r) PROVE TokenIInv'
  BY <1>11 DEF WriteFails
<1>12. CASE UNCHANGED tokenVars
  BY <1>12 DEF tokenVars
<1> QED
  BY <1>1, <1>2, <1>3, <1>4, <1>5, <1>6, <1>7, <1>8, <1>9, <1>10, <1>11, <1>12 DEF TokenNext, Rotate

LEMMA TokenInductive == TokenSpec => []TokenIInv
  BY InitTokenIInv, NextTokenIInv, PTL DEF TokenSpec

(* The variables keep their types; above all, a handler never writes half   *)
(* an assignment of s.cfg.AuthToken to hrbridge.conf, although it copies    *)
(* s.cfg while others may be assigning it.                                  *)
THEOREM TokenTypeCorrect == TokenSpec => []TokenTypeOK
<1>1. TokenIInv => TokenTypeOK
  BY DEF TokenIInv
<1> QED
  BY <1>1, TokenInductive, PTL

(* The token the server accepts is known to its users whenever no rotation  *)
(* is in flight, unless one has failed to write hrbridge.conf.              *)
THEOREM LockedOutByFailureAlone == TokenSpec => []LockedOutOnlyByFailure
<1>1. TokenIInv => LockedOutOnlyByFailure
  <2> SUFFICES ASSUME TokenIInv, up, Quiet, ~unsaved PROVE mem \in handed \cup {file}
    BY DEF LockedOutOnlyByFailure
  <2>1. mem # Torn
    BY DEF TokenIInv, TornIsHalfway, Quiet, Rotating, Halfway
  <2>2. mem = ptr
    BY <2>1 DEF mem
  <2>3. \A r \in Requests : ~Pointed(r)
    BY DEF Quiet, Rotating, Pointed
  <2> QED
    BY <2>2, <2>3 DEF TokenIInv, KnownPointer
<1> QED
  BY <1>1, TokenInductive, PTL

-----------------------------------------------------------------------------
(* As long as no two rotations have overlapped. *)

OneInFlight == \A q, r \in Requests : Rotating(q) /\ Rotating(r) => q = r

(* A token that is about to be accepted has not been retired, and the one   *)
(* it replaces is another.                                                  *)
FreshIsFresh ==
  \A r \in Requests :
    /\ Rotating(r) /\ step[r] # "generate" => fresh[r] \notin retired
    /\ step[r] \in {"store", "storePtr"} => ptr # fresh[r]
    /\ Pointed(r) => ptr = fresh[r] /\ replaced[r] # fresh[r]
    /\ step[r] = "write" => snap[r] = fresh[r]

NothingRevived == file \notin retired /\ ptr \notin retired

SavedWhenIdle ==
  up /\ ~unsaved /\ (\A r \in Requests : ~Pointed(r)) => ptr = file

Unraced ==
  /\ OneInFlight
  /\ FreshIsFresh
  /\ NothingRevived
  /\ SavedWhenIdle

UnracedIInv == TokenIInv /\ (~raced => Unraced)

LEMMA InitUnraced == TokenInit => UnracedIInv
  BY InitTokenIInv
  DEF TokenInit, UnracedIInv, Unraced, OneInFlight, FreshIsFresh, NothingRevived, SavedWhenIdle, Rotating, Pointed

LEMMA NextUnraced ==
  ASSUME TokenIInv, Unraced, [TokenNext]_tokenVars, ~raced'
  PROVE  Unraced'
<1>1. TokenIInv /\ TokenIInv'
  BY NextTokenIInv
<1>2. used \subseteq Tokens /\ retired \subseteq used /\ NoToken \notin used
  BY <1>1, TokensAssumption DEF TokenIInv, TokenTypeOK
<1> USE <1>1, <1>2, TokensAssumption
        DEF Unraced, OneInFlight, FreshIsFresh, NothingRevived, SavedWhenIdle, TokenIInv, TokenTypeOK,
            DownIsIdle, TokensUsed, Quiet, Rotating, Pointed, StepTo, Respond, Set
<1>3. CASE Load
  BY <1>3 DEF Load
<1>4. ASSUME NEW t \in Tokens, Create(t) PROVE Unraced'
  BY <1>4 DEF Create
<1>5. CASE KillServer
  BY <1>5 DEF KillServer
<1>6. ASSUME NEW r \in Requests, NEW t \in Tokens, Enter(r, t) PROVE Unraced'
  BY <1>6 DEF Enter
<1>7. ASSUME NEW r \in Requests, NEW t \in Tokens, Generate(r, t) PROVE Unraced'
  BY <1>7 DEF Generate
<1>8. ASSUME NEW r \in Requests, GenerateFails(r) PROVE Unraced'
  BY <1>8 DEF GenerateFails
<1>9. ASSUME NEW r \in Requests, BeginStore(r) PROVE Unraced'
  BY <1>9 DEF BeginStore, StorePtr, StoreLen
<1>10. ASSUME NEW r \in Requests, EndStore(r) PROVE Unraced'
  BY <1>10 DEF EndStore, StorePtr, StoreLen
<1>11. ASSUME NEW r \in Requests, Copy(r) PROVE Unraced'
  <2>1. mem = ptr
    BY <1>11 DEF Copy, Assigned, Generated, mem, Size
  <2> QED
    BY <1>11, <2>1 DEF Copy
<1>12. ASSUME NEW r \in Requests, WriteToken(r) PROVE Unraced'
  BY <1>12 DEF WriteToken
<1>13. ASSUME NEW r \in Requests, WriteFails(r) PROVE Unraced'
  BY <1>13 DEF WriteFails
<1>14. CASE UNCHANGED tokenVars
  BY <1>14 DEF tokenVars
<1> QED
  BY <1>3, <1>4, <1>5, <1>6, <1>7, <1>8, <1>9, <1>10, <1>11, <1>12, <1>13, <1>14 DEF TokenNext, Rotate

(* Once two rotations have overlapped, they have. *)
LEMMA RacedStays == raced /\ [TokenNext]_tokenVars => raced'
  BY DEF TokenNext, tokenVars, Rotate, Load, Create, KillServer, Enter, Generate, GenerateFails, BeginStore,
         EndStore, Copy, WriteToken, WriteFails

LEMMA UnracedInductive == TokenSpec => []UnracedIInv
<1>1. UnracedIInv /\ [TokenNext]_tokenVars => UnracedIInv'
  BY NextTokenIInv, NextUnraced, RacedStays DEF UnracedIInv, TokenIInv, TokenTypeOK
<1> QED
  BY <1>1, InitUnraced, PTL DEF TokenSpec

(* While no two rotations overlap, what SECURITY.md promises holds for good *)
(* and for any number of rotations, failures and restarts: no run of the    *)
(* server accepts a replaced token.                                         *)
THEOREM OldTokensStayDead == TokenSpec => []ReplacedTokenStaysDead
<1>1. UnracedIInv => ReplacedTokenStaysDead
  BY TokensAssumption
  DEF UnracedIInv, Unraced, TokenIInv, TokenTypeOK, NothingRevived, ReplacedTokenStaysDead,
      OldTokenStaysDead, mem
<1> QED
  BY <1>1, UnracedInductive, PTL

(* ... and a restart accepts the same token as before.                      *)
THEOREM FileTokensAreAccepted == TokenSpec => []FileTokenIsAccepted
<1>1. UnracedIInv => FileTokenIsAccepted
  <2> SUFFICES ASSUME UnracedIInv, ~raced, up, Quiet, ~unsaved PROVE mem = file
    BY DEF FileTokenIsAccepted
  <2>1. mem = ptr
    BY DEF UnracedIInv, TokenIInv, TornIsHalfway, Quiet, Rotating, Halfway, mem
  <2> QED
    BY <2>1 DEF UnracedIInv, Unraced, SavedWhenIdle, Quiet, Rotating, Pointed
<1> QED
  BY <1>1, UnracedInductive, PTL

=============================================================================
