-------------------------- MODULE GeoDataStoreProofs --------------------------
(***************************************************************************)
(* Theorems about GeoDataStore, for any requests, files and replacements   *)
(* of hrneo.conf.  The listing of files (SelectSeq) is left out of the     *)
(* types: no invariant is about what a listing has yet to report on.       *)
(***************************************************************************)
EXTENDS GeoDataStore, SequenceTheorems, TLAPS

(* The types of what uploads read and write. *)
Types ==
  /\ stored \in [Paths -> Nat]
  /\ conf \in Confs \cup {Missing}
  /\ arg \in [Requests -> Args]
  /\ pc \in [Requests -> Steps]
  /\ base \in [Requests -> Confs]
  /\ saved \in [Requests -> Confs \cup {Missing}]
  /\ wrote \in [Requests -> Nat]
  /\ updated \in [Requests -> BOOLEAN]
  /\ code \in [Requests -> {0, 200, 400, 500}]
  /\ alone \in [Requests -> BOOLEAN]
  /\ size = [r \in Requests |-> size[r]]
  /\ sha = [r \in Requests |-> sha[r]]

-----------------------------------------------------------------------------
(* What is listed.                                                          *)

(* Every data file that c lists is there, of the files s. *)
Stored(c, s) == \A i \in DOMAIN c : c[i].value # Empty => s[c[i].value] # 0

(* No data file is listed twice in c. *)
Once(c) == \A i, j \in DOMAIN c : c[i] = c[j] /\ c[i].value # Empty => i = j

Sound(c, s) == c # Missing => Stored(c, s) /\ Once(c)

(* Every copy of hrneo.conf, wherever it is, lists files that are there,    *)
(* once: it may become hrneo.conf again.                                    *)
Listing ==
  /\ Sound(conf, stored)
  /\ \A r \in Requests : Sound(base[r], stored) /\ Sound(saved[r], stored)

(* r has stored its data file and has not answered. *)
HasStored(r) == pc[r] \in {"read", "backup", "write", "stat", "sum"}

Found == IF conf = Missing THEN Default ELSE conf

(* The report of an answer, or the part of it there is after Stat. *)
Report(r) ==
  /\ size[r] \in Nat /\ sha[r] \in Nat
  /\ 0 < wrote[r] /\ wrote[r] <= size[r]
  /\ sha[r] # 0 => size[r] <= sha[r]
  /\ alone[r] => size[r] = wrote[r] /\ sha[r] \in {0, wrote[r]}

(* What holds of an upload or download at each of its steps. *)
Upload(r) ==
  /\ pc[r] # "done" => code[r] = 0
  /\ HasStored(r) => /\ 0 < wrote[r] /\ wrote[r] <= stored[arg[r].path]
                     /\ alone[r] => wrote[r] = stored[arg[r].path]
  /\ pc[r] \in {"read", "backup", "write"} => arg[r].add
  /\ pc[r] \in {"backup", "write"} => /\ ~Holds(base[r], Mine(r))
                                      /\ alone[r] => base[r] = Found
  /\ pc[r] = "write" /\ alone[r] => saved[r] = conf
  /\ pc[r] \in {"stat", "sum"} /\ arg[r].add /\ alone[r] => conf # Missing /\ Holds(conf, Mine(r))
  /\ pc[r] = "sum" => Report(r) /\ sha[r] = 0 /\ size[r] <= stored[arg[r].path]
  /\ code[r] = 200 => Report(r)

(* ... and of any request. *)
Request(r) ==
  IF Kind(r) = "list" THEN pc[r] \in {"new", "read", "stat", "sum", "done", "dead"} ELSE Upload(r)

IInv ==
  /\ Types
  /\ Listing
  /\ \A r \in Requests : Request(r)

-----------------------------------------------------------------------------
(* Facts about hrneo.conf.                                                  *)

(* A request's line lists its file. *)
LEMMA MineIsLine ==
  ASSUME NEW r \in Requests, Types
  PROVE  Mine(r) \in Lines /\ Mine(r).value = arg[r].path /\ arg[r].path \in Paths /\ arg[r].path # Empty
BY ConstantsAssumption DEF Types, Mine, Line, Lines, KeyOf, Keys, Args

(* The default configuration lists no file. *)
LEMMA DefaultIsPlain ==
  /\ Default \in Confs
  /\ DOMAIN Default = 1..3
  /\ \A i \in DOMAIN Default : Default[i].value = Empty
BY DEF Default, Confs, Lines, Line, Keys

(* Appending a line keeps what is there, and adds nothing that is.          *)
LEMMA AppendedLine ==
  ASSUME NEW c \in Confs, NEW l \in Lines
  PROVE  /\ AppendRepeat(c, l) \in Confs
         /\ Holds(AppendRepeat(c, l), l)
         /\ Holds(c, l) <=> AppendRepeat(c, l) = c
         /\ ~Holds(c, l) =>
              /\ AppendRepeat(c, l) = Append(c, l)
              /\ DOMAIN AppendRepeat(c, l) = 1 .. Len(c) + 1
              /\ \A i \in 1 .. Len(c) : AppendRepeat(c, l)[i] = c[i]
              /\ AppendRepeat(c, l)[Len(c) + 1] = l
<1>1. /\ Append(c, l) \in Confs /\ Len(Append(c, l)) = Len(c) + 1
      /\ \A i \in 1 .. Len(c) : Append(c, l)[i] = c[i]
      /\ Append(c, l)[Len(c) + 1] = l
      /\ DOMAIN c = 1 .. Len(c) /\ DOMAIN Append(c, l) = 1 .. Len(c) + 1
      /\ Len(c) \in Nat
  BY AppendProperties, LenProperties DEF Confs
<1>2. Append(c, l) # c
  <2> SUFFICES ASSUME Append(c, l) = c PROVE FALSE
    OBVIOUS
  <2>1. Len(c) = Len(c) + 1
    BY <1>1
  <2> QED
    BY <2>1, <1>1
<1>3. Holds(Append(c, l), l)
  BY <1>1 DEF Holds
<1>4. Holds(c, l) => AppendRepeat(c, l) = c
  BY DEF AppendRepeat
<1>5. ~Holds(c, l) => AppendRepeat(c, l) = Append(c, l)
  BY DEF AppendRepeat
<1> QED
  BY <1>1, <1>2, <1>3, <1>4, <1>5

(* The line of a data file that is there keeps a configuration sound. *)
LEMMA AppendIsSound ==
  ASSUME Types, NEW c \in Confs, Sound(c, stored), NEW l \in Lines, l.value # Empty, stored[l.value] # 0
  PROVE  Sound(AppendRepeat(c, l), stored)
<1>1. CASE Holds(c, l)
  BY <1>1, AppendedLine
<1>2. CASE ~Holds(c, l)
  <2>1. c # Missing
    BY ConstantsAssumption
  <2> DEFINE d == AppendRepeat(c, l)
  <2>2. /\ DOMAIN d = 1 .. Len(c) + 1
        /\ \A i \in 1 .. Len(c) : d[i] = c[i]
        /\ d[Len(c) + 1] = l
        /\ DOMAIN c = 1 .. Len(c) /\ Len(c) \in Nat
    BY <1>2, AppendedLine, LenProperties DEF Confs
  <2>3. \A i \in 1 .. Len(c) : c[i] # l
    BY <1>2, <2>2 DEF Holds
  <2> HIDE DEF d
  <2>4. Stored(d, stored)
    BY <2>1, <2>2 DEF Sound, Stored
  <2>5. Once(d)
    <3> SUFFICES ASSUME NEW i \in DOMAIN d, NEW j \in DOMAIN d, d[i] = d[j], d[i].value # Empty
                 PROVE  i = j
      BY DEF Once
    <3>1. CASE i \in 1 .. Len(c) /\ j \in 1 .. Len(c)
      BY <3>1, <2>1, <2>2 DEF Sound, Once
    <3>2. CASE i = Len(c) + 1 \/ j = Len(c) + 1
      BY <3>2, <2>2, <2>3
    <3> QED
      BY <3>1, <3>2, <2>2
  <2> QED
    BY <2>4, <2>5 DEF Sound, d
<1> QED
  BY <1>1, <1>2

(* An update of a function leaves a function on the same domain. *)
LEMMA Updated ==
  ASSUME NEW f, f = [q \in Requests |-> f[q]], NEW r \in Requests, NEW e
  PROVE  [f EXCEPT ![r] = e] = [q \in Requests |-> [f EXCEPT ![r] = e][q]]
OBVIOUS

-----------------------------------------------------------------------------
(* The types.                                                               *)

LEMMA InitTypes == Init => Types
BY ConstantsAssumption, SMT DEF Init, Types, Steps, Confs

(* Where a step may leave a request. *)
LEMMA EndTypes ==
  ASSUME Types, NEW r \in Requests,
         (\E step \in Steps : Goto(r, step)) \/ Answer(r) \/ Reject(r)
  PROVE  pc' \in [Requests -> Steps] /\ code' \in [Requests -> {0, 200, 400, 500}]
BY DEF Types, Goto, Answer, Reject, Respond, Steps

LEMMA StepTypes ==
  ASSUME Types, NEW r \in Requests, Step(r)
  PROVE  Types'
<1> USE DEF Types, Goto, Respond, Break, Answer, Refuse, Reject, known, report
<1>0. alone' \in [Requests -> BOOLEAN]
  BY DEF Step, InFlight
<1>1. CASE Begin(r)
  BY <1>0, <1>1 DEF Begin, Steps
<1>2. CASE Decode(r)
  BY <1>0, <1>2 DEF Decode, Steps
<1>3. CASE Fetch(r)
  BY <1>0, <1>3 DEF Fetch, Steps
<1>4. CASE Verify(r)
  BY <1>0, <1>4 DEF Verify, Steps
<1>5. CASE Store(r)
  <2>1. arg[r].path \in Paths
    BY DEF Args
  <2> QED
    BY <1>0, <1>5, <2>1 DEF Store, Steps
<1>6. CASE Read(r)
  <2>1. (IF conf = Missing THEN Default ELSE conf) \in Confs
    BY DefaultIsPlain
  <2> QED
    BY <1>0, <1>6, <2>1 DEF Read, Steps
<1>7. CASE ReadListing(r)
  <2>1. base' \in [Requests -> Confs]
    BY <1>7 DEF ReadListing, Confs
  <2>2. Answer(r) \/ Goto(r, "stat")
    BY <1>7, Zenon DEF ReadListing
  <2>3. pc' \in [Requests -> Steps] /\ code' \in [Requests -> {0, 200, 400, 500}]
    <3> HIDE DEF Types, Goto, Answer
    <3> QED
      BY <2>2, EndTypes DEF Steps
  <2> QED
    BY <1>0, <1>7, <2>1, <2>3 DEF ReadListing
<1>8. CASE Backup(r)
  BY <1>0, <1>8 DEF Backup, Steps
<1>9. CASE Write(r)
  <2>1. AppendRepeat(base[r], Mine(r)) \in Confs
    BY AppendedLine, MineIsLine
  <2> QED
    BY <1>0, <1>9, <2>1 DEF Write, Steps
<1>10. CASE Fails(r)
  BY <1>0, <1>10 DEF Fails, Steps
<1>11. CASE Stat(r)
  <2>1. pc' \in [Requests -> Steps] /\ code' \in [Requests -> {0, 200, 400, 500}]
    <3> HIDE DEF Types, Goto, Answer, Reject
    <3>1. Reject(r) \/ Answer(r) \/ Goto(r, "stat") \/ Goto(r, "sum")
      BY <1>11, Zenon DEF Stat, Reported
    <3> QED
      BY <3>1, EndTypes DEF Steps
  <2>2. size' = [q \in Requests |-> size'[q]] /\ sha' = [q \in Requests |-> sha'[q]]
    BY <1>11, Updated DEF Stat
  <2> QED
    BY <1>0, <1>11, <2>1, <2>2 DEF Stat
<1>12. CASE Sum(r)
  <2>1. pc' \in [Requests -> Steps] /\ code' \in [Requests -> {0, 200, 400, 500}]
    <3> HIDE DEF Types, Goto, Answer
    <3>1. Answer(r) \/ Goto(r, "stat")
      BY <1>12, Zenon DEF Sum, Reported
    <3> QED
      BY <3>1, EndTypes DEF Steps
  <2>2. sha' = [q \in Requests |-> sha'[q]]
    BY <1>12, Updated DEF Sum
  <2> QED
    BY <1>0, <1>12, <2>1, <2>2 DEF Sum
<1> QED
  BY <1>1, <1>2, <1>3, <1>4, <1>5, <1>6, <1>7, <1>8, <1>9, <1>10, <1>11, <1>12 DEF Step, Serve

-----------------------------------------------------------------------------
(* What a step leaves alone.                                                *)

(* Data files only become newer, and the other requests only notice that    *)
(* they are not alone.                                                      *)
Frame(r) ==
  /\ arg' = arg
  /\ \A p \in Paths : stored[p] <= stored'[p]
  /\ \A q \in Requests \ {r} :
       /\ pc'[q] = pc[q] /\ base'[q] = base[q] /\ saved'[q] = saved[q]
       /\ wrote'[q] = wrote[q] /\ updated'[q] = updated[q]
       /\ size'[q] = size[q] /\ sha'[q] = sha[q] /\ code'[q] = code[q]
       /\ alone'[q] = (alone[q] /\ ~InFlight(q))

LEMMA StepFrame ==
  ASSUME Types, NEW r \in Requests, Step(r)
  PROVE  Frame(r)
<1> USE DEF Goto, Respond, Break, Answer, Refuse, Reject, known, report
<1>1. arg' = arg
  BY DEF Step, Serve, Begin, Decode, Fetch, Verify, Store, Read, ReadListing, Backup, Write, Fails, Stat, Sum
<1>2. ASSUME NEW p \in Paths
      PROVE  stored[p] <= stored'[p]
  <2>1. CASE Store(r)
    <3>1. arg[r].path \in Paths
      BY DEF Types, Args
    <3> QED
      BY <2>1, <3>1 DEF Store, Types
  <2>2. CASE ~Store(r)
    <3>1. stored' = stored
      BY <2>2 DEF Step, Serve, Begin, Decode, Fetch, Verify, Read, ReadListing, Backup, Write, Fails, Stat, Sum
    <3> QED
      BY <3>1 DEF Types
  <2> QED
    BY <2>1, <2>2
<1>3. ASSUME NEW q \in Requests \ {r}
      PROVE  /\ pc'[q] = pc[q] /\ base'[q] = base[q] /\ saved'[q] = saved[q]
             /\ wrote'[q] = wrote[q] /\ updated'[q] = updated[q]
             /\ size'[q] = size[q] /\ sha'[q] = sha[q] /\ code'[q] = code[q]
             /\ alone'[q] = (alone[q] /\ ~InFlight(q))
  <2>1. pc'[q] = pc[q] /\ code'[q] = code[q]
    BY DEF Types, Step, Serve, Begin, Decode, Fetch, Verify, Store, Read, ReadListing, Backup, Write, Fails, Stat, Sum, Reported
  <2>2. base'[q] = base[q] /\ saved'[q] = saved[q] /\ wrote'[q] = wrote[q] /\ updated'[q] = updated[q]
    BY DEF Types, Step, Serve, Begin, Decode, Fetch, Verify, Store, Read, ReadListing, Backup, Write, Fails, Stat, Sum
  <2>3. size'[q] = size[q] /\ sha'[q] = sha[q]
    BY DEF Types, Step, Serve, Begin, Decode, Fetch, Verify, Store, Read, ReadListing, Backup, Write, Fails, Stat, Sum
  <2>4. alone'[q] = (alone[q] /\ ~InFlight(q))
    BY DEF Types, Step
  <2> QED
    BY <2>1, <2>2, <2>3, <2>4
<1> QED
  BY <1>1, <1>2, <1>3 DEF Frame

(* What is there stays there. *)
LEMMA SoundStays ==
  ASSUME NEW s \in [Paths -> Nat], NEW t \in [Paths -> Nat], \A p \in Paths : s[p] <= t[p],
         NEW c \in Confs \cup {Missing}, Sound(c, s)
  PROVE  Sound(c, t)
<1> SUFFICES ASSUME c # Missing, NEW i \in DOMAIN c, c[i].value # Empty
             PROVE  t[c[i].value] # 0
  BY DEF Sound, Stored
<1>1. c[i] \in Lines
  BY DEF Confs
<1>2. c[i].value \in Paths /\ s[c[i].value] # 0
  BY <1>1 DEF Lines, Sound, Stored
<1> QED
  BY <1>2

(* A configuration that lists no file is sound. *)
LEMMA PlainIsSound ==
  ASSUME NEW c, \A i \in DOMAIN c : c[i].value = Empty, NEW s
  PROVE  Sound(c, s)
BY DEF Sound, Stored, Once

-----------------------------------------------------------------------------
(* Every copy of hrneo.conf stays sound.                                    *)

LEMMA StepListing ==
  ASSUME Types, Types', Listing, NEW r \in Requests, Request(r), Step(r)
  PROVE  Listing'
<1> USE DEF known
<1>1. Frame(r)
  BY StepFrame
<1>2. ASSUME NEW c \in Confs \cup {Missing}, Sound(c, stored)
      PROVE  Sound(c, stored')
  BY <1>1, <1>2, SoundStays DEF Types, Frame
<1>3. Sound(conf', stored')
  <2>1. CASE Write(r)
    <3>1. arg[r].path \in Paths /\ Mine(r) \in Lines /\ Mine(r).value = arg[r].path /\ arg[r].path # Empty
      BY MineIsLine
    <3>2. stored[arg[r].path] # 0
      <4>1. 0 < wrote[r] /\ wrote[r] <= stored[arg[r].path]
        BY <2>1 DEF Write, Request, Upload, HasStored
      <4> QED
        BY <4>1, <3>1 DEF Types
    <3>3. Sound(AppendRepeat(base[r], Mine(r)), stored)
      BY <3>1, <3>2, AppendIsSound DEF Types, Listing
    <3> QED
      BY <2>1, <3>3 DEF Write
  <2>2. CASE ~Write(r)
    <3>1. conf' = conf
      BY <2>2 DEF Step, Serve, Begin, Decode, Fetch, Verify, Store, Read, ReadListing, Backup, Fails, Stat, Sum
    <3> QED
      BY <3>1, <1>2 DEF Types, Listing
  <2> QED
    BY <2>1, <2>2
<1>4. ASSUME NEW q \in Requests
      PROVE  Sound(base'[q], stored')
  <2>1. CASE q # r
    BY <2>1, <1>1, <1>2 DEF Frame, Types, Listing
  <2>2. CASE q = r /\ base'[q] = base[q]
    BY <2>2, <1>2 DEF Types, Listing
  <2>3. CASE q = r /\ Read(r)
    <3>1. base'[r] = IF conf = Missing THEN Default ELSE conf
      BY <2>3 DEF Read, Types
    <3>2. Sound(Default, stored')
      BY DefaultIsPlain, PlainIsSound
    <3> QED
      BY <2>3, <3>1, <3>2, <1>2 DEF Types, Listing
  <2>4. CASE q = r /\ ReadListing(r)
    <3>1. base'[r] = IF conf = Missing THEN <<>> ELSE conf
      BY <2>4 DEF ReadListing, Types
    <3>2. Sound(<<>>, stored')
      BY PlainIsSound
    <3> QED
      BY <2>4, <3>1, <3>2, <1>2 DEF Types, Listing
  <2>5. Read(r) \/ ReadListing(r) \/ base' = base
    BY DEF Step, Serve, Begin, Decode, Fetch, Verify, Store, Backup, Write, Fails, Stat, Sum
  <2> QED
    BY <2>1, <2>2, <2>3, <2>4, <2>5
<1>5. ASSUME NEW q \in Requests
      PROVE  Sound(saved'[q], stored')
  <2>1. CASE q # r
    BY <2>1, <1>1, <1>2 DEF Frame, Types, Listing
  <2>2. CASE q = r /\ Backup(r)
    <3>1. saved'[r] = conf
      BY <2>2 DEF Backup, Types
    <3> QED
      BY <2>2, <3>1, <1>2 DEF Types, Listing
  <2>3. CASE saved' = saved
    BY <2>3, <1>2 DEF Types, Listing
  <2>4. Backup(r) \/ saved' = saved
    BY DEF Step, Serve, Begin, Decode, Fetch, Verify, Store, Read, ReadListing, Write, Fails, Stat, Sum
  <2> QED
    BY <2>1, <2>2, <2>3, <2>4
<1> QED
  BY <1>3, <1>4, <1>5 DEF Listing

-----------------------------------------------------------------------------
(* Every request knows what it has stored and read.                         *)

(* The step of another request. *)
LEMMA OthersStep ==
  ASSUME Types, Types', NEW r \in Requests, NEW q \in Requests \ {r}, Frame(r), Request(q)
  PROVE  Request(q)'
<1>1. /\ arg'[q] = arg[q] /\ arg[q].path \in Paths /\ stored[arg[q].path] <= stored'[arg[q].path]
      /\ stored[arg[q].path] \in Nat /\ stored'[arg[q].path] \in Nat /\ wrote[q] \in Nat
      /\ pc'[q] = pc[q] /\ base'[q] = base[q] /\ saved'[q] = saved[q] /\ wrote'[q] = wrote[q]
      /\ size'[q] = size[q] /\ sha'[q] = sha[q] /\ code'[q] = code[q]
      /\ alone'[q] => alone[q] /\ ~InFlight(q)
  BY DEF Frame, Types, Args
<1>2. Kind(q)' = Kind(q) /\ Mine(q)' = Mine(q)
  BY <1>1 DEF Kind, Mine
<1>3. CASE Kind(q) = "list"
  BY <1>1, <1>2, <1>3 DEF Request
<1>4. CASE Kind(q) # "list"
  <2> SUFFICES Upload(q)'
    BY <1>2, <1>4 DEF Request
  <2>1. Report(q) => Report(q)'
    BY <1>1 DEF Report
  <2>2. InFlight(q) => ~alone'[q]
    BY <1>1
  <2>3. Upload(q)
    BY <1>4 DEF Request
  <2>4. ~Holds(base[q], Mine(q)) => ~Holds(base'[q], Mine(q)')
    BY <1>1, <1>2
  <2>5. CASE InFlight(q)
    <3>1. pc[q] # "done" /\ ~alone'[q]
      BY <2>2, <2>5 DEF InFlight
    <3>2. pc[q] = "sum" => size'[q] <= stored'[arg[q].path]
      BY <1>1, <2>3 DEF Upload, Report
    <3> QED
      BY <1>1, <2>1, <2>3, <2>4, <3>1, <3>2 DEF Upload, HasStored
  <2>6. CASE ~InFlight(q)
    BY <1>1, <2>1, <2>3, <2>6 DEF Upload, HasStored, InFlight
  <2> QED
    BY <2>5, <2>6
<1> QED
  BY <1>3, <1>4

(* Its own steps. *)
LEMMA OwnStep ==
  ASSUME Types, Types', NEW r \in Requests, Request(r), Step(r)
  PROVE  Request(r)'
<1>1. arg' = arg /\ alone'[r] = alone[r] /\ arg[r].path \in Paths /\ arg[r].path # Empty
  <2>1. alone'[r] = alone[r]
    BY DEF Step, Types
  <2> QED
    BY <2>1, StepFrame, MineIsLine DEF Frame
<1>2. Kind(r)' = Kind(r) /\ Mine(r)' = Mine(r)
  BY <1>1 DEF Kind, Mine
<1>3. CASE Kind(r) = "list"
  <2>1. pc'[r] \in {"new", "read", "stat", "sum", "done", "dead"}
    BY <1>3 DEF Request, Step, Serve, Begin, Decode, Fetch, Verify, Store, Read, ReadListing, Backup, Write,
               Fails, Stat, Sum, Reported, Types, Goto, Answer, Refuse, Reject, Break, Respond
  <2> QED
    BY <1>2, <1>3, <2>1 DEF Request
<1>4. CASE Kind(r) # "list"
  <2> SUFFICES Upload(r)'
    BY <1>2, <1>4 DEF Request
  <2>0. Upload(r)
    BY <1>4 DEF Request
  <2>1. ASSUME Refuse(r) \/ Reject(r) \/ Break(r)
        PROVE  Upload(r)'
    BY <2>1 DEF Refuse, Reject, Break, Respond, Upload, HasStored, Types
  <2>2. ASSUME NEW step \in {"decode", "fetch", "verify", "store"}, pc[r] # "done", Goto(r, step)
        PROVE  Upload(r)'
    <3>1. pc'[r] = step /\ code'[r] = 0
      BY <2>0, <2>2 DEF Goto, Types, Upload
    <3> QED
      BY <3>1 DEF Upload, HasStored
  <2>3. CASE Begin(r)
    BY <2>2, <2>3, <1>4 DEF Begin
  <2>4. CASE Decode(r)
    BY <2>1, <2>2, <2>4 DEF Decode
  <2>5. CASE Fetch(r)
    BY <2>1, <2>2, <2>5 DEF Fetch
  <2>6. CASE Verify(r)
    BY <2>1, <2>2, <2>6 DEF Verify
  <2>7. CASE Store(r)
    <3>1. /\ pc'[r] = IF arg[r].add THEN "read" ELSE "stat"
          /\ code'[r] = 0
          /\ wrote'[r] = stored[arg[r].path] + 1
          /\ stored'[arg[r].path] = stored[arg[r].path] + 1
          /\ stored[arg[r].path] \in Nat
      BY <1>1, <2>0, <2>7 DEF Store, Goto, Types, Upload
    <3> QED
      BY <1>1, <3>1 DEF Upload, HasStored
  <2>8. CASE Read(r)
    <3>1. /\ pc'[r] = IF AppendRepeat(Found, Mine(r)) = Found THEN "stat" ELSE "backup"
          /\ code'[r] = 0 /\ base'[r] = Found
          /\ UNCHANGED <<stored, conf, wrote>>
          /\ arg[r].add
          /\ HasStored(r)
      BY <2>0, <2>8 DEF Read, Goto, Types, Upload, Found, HasStored
    <3>2. Found \in Confs /\ Found' = Found
      BY <3>1, DefaultIsPlain DEF Types, Found
    <3>3. Holds(Found, Mine(r)) <=> AppendRepeat(Found, Mine(r)) = Found
      BY <3>2, AppendedLine, MineIsLine
    <3>4. Holds(Found, Mine(r)) => conf # Missing /\ Holds(conf, Mine(r))
      <4>1. ~Holds(Default, Mine(r))
        BY DefaultIsPlain, MineIsLine DEF Holds
      <4> QED
        BY <4>1 DEF Found
    <3> QED
      BY <1>1, <1>2, <2>0, <3>1, <3>2, <3>3, <3>4 DEF Upload, HasStored
  <2>9. CASE Backup(r)
    <3>1. /\ pc[r] = "backup" /\ pc'[r] = "write"
          /\ code'[r] = 0 /\ saved'[r] = conf
          /\ UNCHANGED <<stored, conf, base, wrote>>
      BY <2>0, <2>9 DEF Backup, Goto, Types, Upload
    <3>2. Found' = Found
      BY <3>1 DEF Found
    <3> QED
      BY <1>1, <1>2, <2>0, <3>1, <3>2 DEF Upload, HasStored
  <2>10. CASE Write(r)
    <3>1. /\ pc[r] = "write" /\ pc'[r] = "stat"
          /\ code'[r] = 0
          /\ conf' = AppendRepeat(base[r], Mine(r))
          /\ UNCHANGED <<stored, wrote>>
      BY <2>0, <2>10 DEF Write, Goto, Types, Upload
    <3>2. conf' # Missing /\ Holds(conf', Mine(r))
      <4>1. base[r] \in Confs
        BY DEF Types
      <4> QED
        BY <3>1, <4>1, AppendedLine, MineIsLine, ConstantsAssumption
    <3> QED
      BY <1>1, <1>2, <2>0, <3>1, <3>2 DEF Upload, HasStored
  <2>11. CASE Fails(r)
    BY <2>1, <2>11 DEF Fails
  <2>12. CASE Stat(r)
    <3>1. Subject(r) = arg[r].path
      BY <1>4 DEF Subject
    <3>2. stored[arg[r].path] # 0 /\ stored[arg[r].path] \in Nat
      BY <1>1, <2>0, <2>12 DEF Stat, Upload, HasStored, Types
    <3>3. /\ pc[r] = "stat" /\ pc'[r] = "sum"
          /\ code'[r] = 0 /\ size'[r] = stored[arg[r].path] /\ sha'[r] = 0
          /\ UNCHANGED <<stored, conf, wrote>>
      BY <1>1, <2>0, <2>12, <3>1, <3>2 DEF Stat, Goto, Types, Upload
    <3> QED
      BY <1>1, <1>2, <2>0, <3>2, <3>3 DEF Upload, HasStored, Report, Types
  <2>13. CASE Sum(r)
    <3>1. Subject(r) = arg[r].path
      BY <1>4 DEF Subject
    <3>2. /\ pc[r] = "sum" /\ pc'[r] = "done" /\ code'[r] = 200
          /\ sha'[r] \in {sha[r], stored[arg[r].path]}
          /\ UNCHANGED <<stored, conf, wrote, size>>
      BY <1>4, <2>13, <3>1 DEF Sum, Reported, Answer, Respond, Types
    <3> QED
      BY <1>1, <2>0, <3>2 DEF Upload, HasStored, Report, Types
  <2>14. ~ReadListing(r)
    BY <1>4 DEF ReadListing
  <2> QED
    BY <2>3, <2>4, <2>5, <2>6, <2>7, <2>8, <2>9, <2>10, <2>11, <2>12, <2>13, <2>14 DEF Step, Serve
<1> QED
  BY <1>3, <1>4

-----------------------------------------------------------------------------
(* The invariant.                                                           *)

LEMMA InitInv == Init => IInv
<1> SUFFICES ASSUME Init PROVE IInv
  OBVIOUS
<1>1. Types
  BY InitTypes
<1>2. Listing
  <2>1. Sound(conf, stored)
    BY PlainAssumption, PlainIsSound DEF Init, Sound
  <2>2. ASSUME NEW r \in Requests
        PROVE  Sound(base[r], stored) /\ Sound(saved[r], stored)
    <3>1. base[r] = <<>> /\ saved[r] = Missing
      BY DEF Init
    <3> QED
      BY <3>1, PlainIsSound DEF Sound
  <2> QED
    BY <2>1, <2>2 DEF Listing
<1>3. ASSUME NEW r \in Requests
      PROVE  Request(r)
  <2>1. pc[r] = "new" /\ code[r] = 0
    BY DEF Init
  <2> QED
    BY <2>1 DEF Request, Upload, HasStored
<1> QED
  BY <1>1, <1>2, <1>3 DEF IInv

(* Another handler, or the end of the process: no request takes a step. *)
LEMMA OutsideStep ==
  ASSUME IInv, Kill \/ (\E c \in Replacements : Replace(c))
                 \/ (\E r \in Requests : saved[r] # Missing /\ Replace(saved[r]))
  PROVE  IInv'
<1> USE DEF IInv, known, report
<1>1. CASE Kill
  <2>1. Types'
    BY <1>1 DEF Kill, Types, Steps
  <2>2. Listing'
    BY <1>1 DEF Kill, Listing
  <2>3. ASSUME NEW q \in Requests
        PROVE  Request(q)'
    <3>1. pc'[q] \in {pc[q], "dead"}
      BY <1>1 DEF Kill, Types
    <3>2. /\ Report(q)' = Report(q) /\ Kind(q)' = Kind(q) /\ Mine(q)' = Mine(q) /\ Found' = Found
          /\ pc[q] = "done" => pc'[q] = "done"
      BY <1>1 DEF Kill, Report, Kind, Mine, Found, InFlight, Types
    <3> QED
      BY <1>1, <3>1, <3>2 DEF Kill, Request, Upload, HasStored
  <2> QED
    BY <2>1, <2>2, <2>3
<1>2. ASSUME NEW c \in Confs, Sound(c, stored), Replace(c)
      PROVE  IInv'
  <2>1. Types'
    BY <1>2 DEF Replace, Types
  <2>2. Listing'
    BY <1>2 DEF Replace, Listing
  <2>3. ASSUME NEW q \in Requests
        PROVE  Request(q)'
    <3>1. alone'[q] => alone[q] /\ ~InFlight(q)
      BY <1>2 DEF Replace, Types
    <3>2. /\ Report(q) => Report(q)'
          /\ Kind(q)' = Kind(q) /\ Mine(q)' = Mine(q)
      BY <1>2, <3>1 DEF Replace, Report, Kind, Mine
    <3> QED
      BY <1>2, <3>1, <3>2 DEF Replace, Request, Upload, HasStored, InFlight
  <2> QED
    BY <2>1, <2>2, <2>3
<1>3. ASSUME NEW c \in Replacements, Replace(c)
      PROVE  IInv'
  <2>1. c \in Confs /\ Sound(c, stored)
    BY ConstantsAssumption, PlainAssumption, PlainIsSound DEF Sound
  <2> QED
    BY <1>2, <1>3, <2>1
<1>4. ASSUME NEW r \in Requests, saved[r] # Missing, Replace(saved[r])
      PROVE  IInv'
  <2>1. saved[r] \in Confs /\ Sound(saved[r], stored)
    BY <1>4 DEF Types, Listing
  <2> QED
    BY <1>2, <1>4, <2>1
<1> QED
  BY <1>1, <1>3, <1>4

LEMMA NextInv == IInv /\ [Next]_vars => IInv'
<1> SUFFICES ASSUME IInv, [Next]_vars PROVE IInv'
  OBVIOUS
<1>1. ASSUME NEW r \in Requests, Step(r)
      PROVE  IInv'
  <2>1. Types' /\ Frame(r)
    BY <1>1, StepTypes, StepFrame DEF IInv
  <2>2. Listing'
    BY <1>1, <2>1, StepListing DEF IInv
  <2>3. ASSUME NEW q \in Requests
        PROVE  Request(q)'
    <3>1. CASE q = r
      BY <1>1, <2>1, <3>1, OwnStep DEF IInv
    <3>2. CASE q # r
      BY <2>1, <3>2, OthersStep DEF IInv
    <3> QED
      BY <3>1, <3>2
  <2> QED
    BY <2>1, <2>2, <2>3 DEF IInv
<1>2. CASE UNCHANGED vars
  <2>1. Types' = Types /\ Listing' = Listing
    BY <1>2 DEF vars, Types, Listing
  <2>2. ASSUME NEW q \in Requests
        PROVE  Request(q)' = Request(q)
    BY <1>2 DEF vars, Request, Upload, HasStored, Report, Kind, Mine, Found
  <2> QED
    BY <2>1, <2>2 DEF IInv
<1> QED
  BY <1>1, <1>2, OutsideStep DEF Next, Idle

THEOREM Invariance == Spec => []IInv
BY InitInv, NextInv, PTL DEF Spec

-----------------------------------------------------------------------------
(* What follows.                                                            *)

(* No data file is listed that is not there: whatever fails, wherever the   *)
(* process dies, whichever backup is restored (saveGeoData).                *)
THEOREM ListedFilesAreStored == Spec => []ListedIsStored
<1>1. IInv => ListedIsStored
  BY DEF IInv, Listing, Sound, Stored, ListedIsStored
<1> QED
  BY <1>1, Invariance, PTL

(* No data file is listed twice, however often it is uploaded               *)
(* (appendHRNeoRepeatValue).                                                *)
THEOREM ListedFilesAreListedOnce == Spec => []ListedOnce
<1>1. IInv => ListedOnce
  BY DEF IInv, Listing, Sound, Once, ListedOnce
<1> QED
  BY <1>1, Invariance, PTL

(* The answer of an upload or download is about the data it stored or later *)
(* data, and about its own with nobody else at work (geoDataFileInfo).      *)
THEOREM ReportsAreCurrent == Spec => []ReportIsCurrent
<1>1. IInv => ReportIsCurrent
  BY DEF IInv, Request, Upload, Report, ReportIsCurrent
<1> QED
  BY <1>1, Invariance, PTL

(* With nobody else at work, addToConfig adds one line, has saved what it   *)
(* replaces, and leaves the file listed (saveGeoData).                      *)
LEMMA OwnLine ==
  ASSUME IInv, [Next]_vars, NEW r \in Requests, alone[r], Kind(r) # "list"
  PROVE  /\ updated'[r] # updated[r] =>
              /\ saved[r] = conf
              /\ conf' = Append(Found, Mine(r))
         /\ code'[r] = 200 /\ code[r] = 0 /\ arg[r].add =>
              conf' # Missing /\ Holds(conf', Mine(r))
<1> USE DEF IInv
<1>0. Upload(r)
  BY DEF Request
<1>1. CASE updated'[r] = updated[r] /\ code'[r] = code[r]
  BY <1>1
<1>2. CASE Step(r) /\ Write(r)
  <2>1. code'[r] = code[r]
    BY <1>2 DEF Write, Goto
  <2>2. saved[r] = conf /\ base[r] = Found /\ ~Holds(base[r], Mine(r))
    BY <1>0, <1>2 DEF Write, Upload
  <2>3. conf' = Append(Found, Mine(r))
    BY <1>2, <2>2, AppendedLine, MineIsLine DEF Write, Types
  <2> QED
    BY <1>0, <2>1, <2>2, <2>3
<1>3. CASE Step(r) /\ ~Write(r)
  <2>1. updated' = updated
    BY <1>3 DEF Step, Serve, Begin, Decode, Fetch, Verify, Store, Read, ReadListing, Backup, Fails, Stat, Sum, known
  <2>2. CASE Stat(r) \/ Sum(r)
    <3>1. pc[r] \in {"stat", "sum"} /\ conf' = conf
      BY <2>2 DEF Stat, Sum
    <3> QED
      BY <1>0, <2>1, <3>1 DEF Upload
  <2>3. CASE ~(Stat(r) \/ Sum(r))
    <3>1. ~ReadListing(r)
      BY DEF ReadListing
    <3>2. code'[r] # 200 \/ code'[r] = code[r]
      BY <1>3, <2>3, <3>1 DEF Step, Serve, Begin, Decode, Fetch, Verify, Store, Read, Backup, Fails,
         Goto, Refuse, Break, Respond, Types
    <3> QED
      BY <2>1, <3>2
  <2> QED
    BY <2>2, <2>3
<1>4. ASSUME NEW q \in Requests \ {r}, Step(q)
      PROVE  updated'[r] = updated[r] /\ code'[r] = code[r]
  BY <1>4, StepFrame DEF Frame
<1>5. ASSUME ~\E q \in Requests : Step(q)
      PROVE  updated'[r] = updated[r] /\ code'[r] = code[r]
  BY <1>5 DEF Next, Replace, Kill, Idle, vars, known
<1> QED
  BY <1>1, <1>2, <1>3, <1>4, <1>5

THEOREM OwnLinesAreAdded == Spec => AddsItsLine
<1>1. IInv /\ [Next]_vars =>
        \A r \in Requests : alone[r] /\ Kind(r) # "list" =>
          /\ updated'[r] # updated[r] =>
               /\ saved[r] = conf
               /\ conf' = Append(IF conf = Missing THEN Default ELSE conf, Mine(r))
          /\ code'[r] = 200 /\ code[r] = 0 /\ arg[r].add =>
               conf' # Missing /\ Holds(conf', Mine(r))
  BY OwnLine DEF Found
<1> QED
  BY <1>1, Invariance, PTL DEF Spec, AddsItsLine

=============================================================================
