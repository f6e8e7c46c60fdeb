------------------------------- MODULE MCFiles -------------------------------
(* The two ways the program writes a file, replacing it whole and appending *)
(* to it, each explored while the other rests.                              *)
EXTENDS AtomicFile, AuditLog

VARIABLE part \* which of the two moves

FileInit == part = "file" /\ Init /\ LogInit /\ limit = DefaultLimit /\ what = "log"
AuditInit == part = "audit" /\ Init /\ LogInit /\ target = None
FilesInit == FileInit \/ AuditInit

FilesNext ==
  \/ part = "file" /\ Next /\ UNCHANGED <<logVars, part>>
  \/ part = "audit" /\ LogNext /\ UNCHANGED <<vars, part>>

FilesSpec == FilesInit /\ [][FilesNext]_<<vars, logVars, part>>
=============================================================================
