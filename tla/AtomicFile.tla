------------------------------ MODULE AtomicFile ------------------------------
(***************************************************************************)
(* atomicWriteFile (internal/agent/fs.go), the only way HydraBridge writes *)
(* a file: create path.tmp.<nanoseconds>, write, fsync, close, rename over *)
(* the path, and remove the temporary file on every failed step.  Several  *)
(* goroutines may write the same path at once; nothing locks it.           *)
(*                                                                         *)
(* A file's contents are Blocks blocks of one payload; len of them are     *)
(* visible to a reader and dur of them are sure to survive a power loss.   *)
(* The directory is not fsynced, so the entry of the path on disk may lag  *)
(* behind what readers see.                                                *)
(***************************************************************************)
EXTENDS Naturals

CONSTANTS
  Writers,   \* goroutines inside atomicWriteFile for this path
  Data,      \* payloads
  Names,     \* temporary names: the path with a nanosecond time stamp
  Blocks,    \* blocks in a payload
  None       \* no such file

Lengths == 0 .. Blocks
File == [data : Data, len : Lengths, dur : Lengths]

ASSUME NoneAssumption == None \notin Data /\ None \notin Names /\ None \notin File
ASSUME BlocksAssumption == Blocks \in Nat

VARIABLES
  target,    \* the file a reader of the path opens
  disk,      \* the file the path's directory entry names on the disk
  tmp,       \* tmp[n]: the temporary file n
  pc,        \* pc[w]: the next step of w's call, "idle" outside one
  data,      \* data[w]: the payload of w's call
  name,      \* name[w]: the temporary name of w's call
  failed,    \* failed[w]: writeErr, syncErr or closeErr of w's call is set
  result,    \* result[w]: how w's last call returned
  leaked     \* names a crash or a failed os.Remove left behind

vars == <<target, disk, tmp, pc, data, name, failed, result, leaked>>

Steps == {"idle", "open", "write", "sync", "close", "rename", "remove"}

(* A file whose payload is complete, and one that survives a power loss. *)
Whole(f)   == f.len = Blocks
Durable(f) == f.dur = Blocks

Complete(d) == [data |-> d, len |-> Blocks, dur |-> Blocks]

(* The time stamp of an open file is its own: no other call in flight has it. *)
InFlight(w) == pc[w] \in {"write", "sync", "close", "rename", "remove"}
FreeName(n) == \A w \in Writers : InFlight(w) => name[w] # n

TypeOK ==
  /\ target \in File \cup {None}
  /\ disk \in File \cup {None}
  /\ tmp \in [Names -> File \cup {None}]
  /\ pc \in [Writers -> Steps]
  /\ data \in [Writers -> Data \cup {None}]
  /\ name \in [Writers -> Names \cup {None}]
  /\ failed \in [Writers -> BOOLEAN]
  /\ result \in [Writers -> {"none", "ok", "error"}]
  /\ leaked \subseteq Names

Init ==
  /\ target \in {Complete(d) : d \in Data} \cup {None}
  /\ disk = target
  /\ tmp = [n \in Names |-> None]
  /\ pc = [w \in Writers |-> "idle"]
  /\ data = [w \in Writers |-> None]
  /\ name = [w \in Writers |-> None]
  /\ failed = [w \in Writers |-> FALSE]
  /\ result = [w \in Writers |-> "none"]
  /\ leaked = {}

-----------------------------------------------------------------------------
(* One action per system call.  Goto(w, s) moves w's call to step s, and    *)
(* Return(w, r) leaves the function.                                        *)

Goto(w, s) == pc' = [pc EXCEPT ![w] = s]

Return(w, r) ==
  /\ pc' = [pc EXCEPT ![w] = "idle"]
  /\ data' = [data EXCEPT ![w] = None]
  /\ name' = [name EXCEPT ![w] = None]
  /\ failed' = [failed EXCEPT ![w] = FALSE]
  /\ result' = [result EXCEPT ![w] = r]

Call(w, d) ==
  /\ pc[w] = "idle"
  /\ Goto(w, "open")
  /\ data' = [data EXCEPT ![w] = d]
  /\ result' = [result EXCEPT ![w] = "none"]
  /\ UNCHANGED <<target, disk, tmp, name, failed, leaked>>

(* os.MkdirAll or os.OpenFile fails. *)
OpenFails(w) ==
  /\ pc[w] = "open"
  /\ Return(w, "error")
  /\ UNCHANGED <<target, disk, tmp, leaked>>

(* O_CREATE|O_TRUNC: a leftover of the same name is truncated. *)
Open(w, n) ==
  /\ pc[w] = "open"
  /\ FreeName(n)
  /\ tmp' = [tmp EXCEPT ![n] = [data |-> data[w], len |-> 0, dur |-> 0]]
  /\ name' = [name EXCEPT ![w] = n]
  /\ leaked' = leaked \ {n}
  /\ Goto(w, "write")
  /\ UNCHANGED <<target, disk, data, failed, result>>

(* f.Write returns an error exactly when it wrote less than the payload. *)
Write(w) ==
  /\ pc[w] = "write"
  /\ \E k \in Lengths :
       /\ tmp' = [tmp EXCEPT ![name[w]].len = k]
       /\ failed' = [failed EXCEPT ![w] = k < Blocks]
  /\ Goto(w, "sync")
  /\ UNCHANGED <<target, disk, data, name, result, leaked>>

SyncSkipped(w) ==
  /\ pc[w] = "sync"
  /\ Goto(w, "close")
  /\ UNCHANGED <<target, disk, tmp, data, name, failed, result, leaked>>

(* f.Sync runs even after a failed Write; its own failure is remembered. *)
Sync(w) ==
  /\ pc[w] = "sync"
  /\ \/ /\ tmp' = [tmp EXCEPT ![name[w]].dur = tmp[name[w]].len]
        /\ UNCHANGED failed
     \/ /\ failed' = [failed EXCEPT ![w] = TRUE]
        /\ UNCHANGED tmp
  /\ Goto(w, "close")
  /\ UNCHANGED <<target, disk, data, name, result, leaked>>

(* The three errors are looked at after Close, in one sequence of tests. *)
Close(w) ==
  /\ pc[w] = "close"
  /\ \E closeErr \in BOOLEAN :
       IF failed[w] \/ closeErr THEN Goto(w, "remove") ELSE Goto(w, "rename")
  /\ UNCHANGED <<target, disk, tmp, data, name, failed, result, leaked>>

Rename(w) ==
  /\ pc[w] = "rename"
  /\ target' = tmp[name[w]]
  /\ tmp' = [tmp EXCEPT ![name[w]] = None]
  /\ Return(w, "ok")
  /\ UNCHANGED <<disk, leaked>>

RenameFails(w) ==
  /\ pc[w] = "rename"
  /\ Goto(w, "remove")
  /\ UNCHANGED <<target, disk, tmp, data, name, failed, result, leaked>>

RemoveReportingOk(w) ==
  /\ pc[w] = "remove"
  /\ tmp' = [tmp EXCEPT ![name[w]] = None]
  /\ Return(w, "ok")
  /\ UNCHANGED <<target, disk, leaked>>

RemoveForgotten(w) ==
  /\ pc[w] = "remove"
  /\ Return(w, "error")
  /\ UNCHANGED <<target, disk, tmp, leaked>>

(* os.Remove of the temporary file; its own error is dropped. *)
Remove(w) ==
  /\ pc[w] = "remove"
  /\ \/ /\ tmp' = [tmp EXCEPT ![name[w]] = None]
        /\ UNCHANGED leaked
     \/ /\ leaked' = leaked \cup {name[w]}
        /\ UNCHANGED tmp
  /\ Return(w, "error")
  /\ UNCHANGED <<target, disk>>

-----------------------------------------------------------------------------
(* The operating system.  Nothing in fs.go syncs the directory.            *)

Flush ==
  /\ disk' = target
  /\ UNCHANGED <<target, tmp, pc, data, name, failed, result, leaked>>

(* The process ends with calls in flight (main.go exits 5 s after SIGTERM). *)
Abandon ==
  /\ pc' = [w \in Writers |-> "idle"]
  /\ data' = [w \in Writers |-> None]
  /\ name' = [w \in Writers |-> None]
  /\ failed' = [w \in Writers |-> FALSE]
  /\ result' = [w \in Writers |-> "none"]
  /\ leaked' = {n \in Names : tmp'[n] # None}

Kill ==
  /\ UNCHANGED <<target, disk, tmp>>
  /\ Abandon

(* What a power loss leaves of file f: any length that is at least durable. *)
Remains(f) ==
  IF f = None THEN {None}
  ELSE {[data |-> f.data, len |-> k, dur |-> k] : k \in f.dur .. f.len}

PowerLoss ==
  /\ target' \in Remains(disk)
  /\ disk' = target'
  /\ tmp' \in [Names -> UNION {Remains(tmp[n]) : n \in Names} \cup {None}]
  /\ \A n \in Names : tmp'[n] \in Remains(tmp[n]) \cup {None}
  /\ Abandon

-----------------------------------------------------------------------------
Step(w) ==
  \/ \E d \in Data : Call(w, d)
  \/ OpenFails(w)
  \/ \E n \in Names : Open(w, n)
  \/ Write(w)
  \/ Sync(w)
  \/ Close(w)
  \/ Rename(w)
  \/ RenameFails(w)
  \/ Remove(w)

Next ==
  \/ \E w \in Writers : Step(w)
  \/ Flush
  \/ Kill
  \/ PowerLoss

Spec == Init /\ [][Next]_vars

-----------------------------------------------------------------------------
(* A reader of the path never sees part of a payload, or parts of two, in   *)
(* whatever order concurrent atomicWriteFile calls, I/O errors, kills and   *)
(* power losses come.                                                       *)
NeverTorn == target # None => Whole(target)

(* What the path's directory entry names on the disk survives a power loss  *)
(* whole, although only the file and never its directory is fsynced.        *)
NeverTornByPowerLoss == disk # None => Durable(disk)

(* A temporary file belongs to a call in flight, or was left by a crash or  *)
(* by an os.Remove that failed: no error path of atomicWriteFile forgets it.*)
NoOrphanTmp ==
  \A n \in Names :
    tmp[n] # None => n \in leaked \/ (\E w \in Writers : InFlight(w) /\ name[w] = n)

(* The file is a register: see AtomicRegister.                              *)
Shown(f) == IF f = None THEN None ELSE f.data

Register == INSTANCE AtomicRegister WITH
  value <- Shown(target),
  saved <- Shown(disk),
  pending <- [w \in Writers |-> data[w]]

(* atomicWriteFile implements the atomic register: a call that returns nil  *)
(* installed its payload in one step, one that returns an error installed   *)
(* nothing, and a power loss falls back to a payload that was installed.    *)
ImplementsRegister == Register!Spec

=============================================================================
