------------------------------ MODULE AuditLog ------------------------------
(***************************************************************************)
(* The audit log: requests append one line each, without a lock, and a     *)
(* reader returns the last lines through a ring buffer while they do.  The *)
(* service's own log is read in the same way, but as lines and not as      *)
(* entries.                                                                *)
(*                                                                         *)
(* A line is one write to a file opened with O_APPEND, which the kernel    *)
(* places whole at the end (external).  A disk that is full cuts the write *)
(* short: the rest of the line, or only its newline, is missing, and the   *)
(* next entry continues that line.                                         *)
(***************************************************************************)
EXTENDS Integers, Sequences

CONSTANTS
  Callers,       \* requests that leave an entry
  Long,          \* those whose entry is longer than a line the reader takes
  Asked,         \* values of the limit query; 0 for none or for no number
  DefaultLimit,
  MaxLimit

ASSUME LogAssumption ==
  /\ Long \subseteq Callers
  /\ Asked \subseteq Int
  /\ MaxLimit \in Nat /\ DefaultLimit \in Nat \ {0}

VARIABLES
  log,      \* the lines of the file
  written,  \* written[w]: how the write of w went
  what,     \* what is read: the audit log, or a log of plain lines
  reader,   \* what the reader does
  limit,    \* lines it is to return
  ring, count, \* its buffer, and the lines it has read
  answer    \* what it returns

fileVars == <<log, written>>
readVars == <<what, reader, limit, ring, count, answer>>
logVars == <<fileVars, readVars>>

(* A line: the entries on it, and whether it ends in a newline. *)
Pieces == [by : Callers, whole : BOOLEAN]
Lines == [text : Seq(Pieces), ended : BOOLEAN]

(* The answer is missing here: AnswerIsTail says all of it. *)
LogTypeOK ==
  /\ log \in Seq(Lines)
  /\ written \in [Callers -> {"no", "part", "data", "line"}]
  /\ what \in {"audit", "log"}
  /\ reader \in {"new", "scan", "done", "failed"}
  /\ limit \in Nat \ {0}
  /\ ring \in [0..(limit - 1) -> Lines]
  /\ count \in Nat

NoLine == [text |-> <<>>, ended |-> FALSE]

(* handleAudit, handleLogs: a limit that is out of range counts for none. *)
Effective(asked) == IF asked \in 1..MaxLimit THEN asked ELSE DefaultLimit

LogInit ==
  /\ log = <<>>
  /\ written = [w \in Callers |-> "no"]
  /\ what \in {"audit", "log"}
  /\ reader = "new"
  /\ limit \in {Effective(n) : n \in Asked}
  /\ ring = [i \in 0..(limit - 1) |-> NoLine]
  /\ count = 0
  /\ answer = <<>>

(* More text at the end of the file: on its last line, if that is open.     *)
Extended(piece, newline) ==
  IF log = <<>> \/ log[Len(log)].ended
    THEN Append(log, [text |-> <<piece>>, ended |-> newline])
    ELSE [log EXCEPT ![Len(log)] = [text |-> Append(@.text, piece), ended |-> newline]]

(* writeAudit: all of the line, only the first part of it, all but the      *)
(* newline; or nothing, when the file does not open.  Nobody is told.       *)
WriteAudit(w, how) ==
  /\ written[w] = "no"
  /\ written' = [written EXCEPT ![w] = how]
  /\ log' = Extended([by |-> w, whole |-> how # "part"], how = "line")
  /\ UNCHANGED readVars

-----------------------------------------------------------------------------
(* tailFile.                                                                *)

OpenLog ==
  /\ reader = "new"
  /\ reader' = "scan"
  /\ UNCHANGED <<what, limit, ring, count, answer, fileVars>>

(* Plausible bug: the oldest line looked for where the next would go. *)
FromRingStartingAtCount(last, buffer, n) ==
  LET size == IF n > last THEN last ELSE n
  IN  [i \in 1..size |-> buffer[(n + i - 1) % last]]

(* The lines the ring holds, oldest first. *)
FromRing(last, buffer, n) ==
  LET size == IF n > last THEN last ELSE n
      start == n - size
  IN  [i \in 1..size |-> buffer[(start + i - 1) % last]]

Fits(line) == \A i \in DOMAIN line.text : line.text[i].by \notin Long

Put(line) == [ring EXCEPT ![count % limit] = line]

(* readAudit: the lines that are one entry; what else is on a line is no    *)
(* JSON.                                                                    *)
IsEvent(line) == Len(line.text) = 1 /\ line.text[1].whole
Report(ls) == IF what = "audit" THEN SelectSeq(ls, IsEvent) ELSE ls

Done(buffer, n) ==
  /\ reader' = "done"
  /\ answer' = Report(FromRing(limit, buffer, n))

(* The scanner finds the next line.  A line without its newline is one when *)
(* the file ends there, and then it is the last.                            *)
Scan ==
  /\ reader = "scan"
  /\ count < Len(log)
  /\ LET line == log[count + 1]
     IN  /\ Fits(line)
         /\ ring' = Put(line)
         /\ count' = count + 1
         /\ IF line.ended THEN UNCHANGED <<reader, answer>> ELSE Done(ring', count')
  /\ UNCHANGED <<what, limit, fileVars>>

(* It does not fit the scanner's buffer: the request is answered 500. *)
ScanTooLong ==
  /\ reader = "scan"
  /\ count < Len(log)
  /\ ~Fits(log[count + 1])
  /\ reader' = "failed"
  /\ UNCHANGED <<what, limit, ring, count, answer, fileVars>>

AtEnd ==
  /\ reader = "scan"
  /\ count = Len(log)
  /\ Done(ring, count)
  /\ UNCHANGED <<what, limit, ring, count, fileVars>>

LogNext ==
  \/ \E w \in Callers, how \in {"part", "data", "line"} : WriteAudit(w, how)
  \/ OpenLog \/ Scan \/ ScanTooLong \/ AtEnd

LogSpec == LogInit /\ [][LogNext]_logVars

-----------------------------------------------------------------------------
(* Properties.                                                              *)

(* The last n lines, or all when there are fewer. *)
LastLines(n) == SubSeq(log, (IF n > Len(log) THEN 0 ELSE Len(log) - n) + 1, Len(log))

(* A reader answers with the end of the file as it is at the instant it     *)
(* ends: exactly as many lines as asked for, or all when there are fewer,   *)
(* in their order, although requests add entries while it reads, the ring   *)
(* goes round, and writes are cut short.                                    *)
AnswerIsTail ==
  [][reader # "done" /\ reader' = "done" => answer' = Report(LastLines(limit))]_logVars

=============================================================================
