---------------------------- MODULE TokenRotation ----------------------------
(***************************************************************************)
(* The bearer token: hrbridge.conf holds it, LoadOrCreateConfig reads it   *)
(* when the server starts, auth compares every request with the copy in    *)
(* s.cfg, and handleRotateToken replaces first that copy and then the      *)
(* file.  Handlers share s.cfg without a lock, and the assignment of a Go  *)
(* string is two stores, of a pointer and of a length, in an order the     *)
(* compiler chooses: a reader between them sees a pointer with another     *)
(* string's length.  Tokens that generateToken returns have one length.    *)
(***************************************************************************)
EXTENDS Naturals

CONSTANTS
  Requests,   \* rotation requests
  Tokens,     \* tokens that can be generated or written by hand
  Short,      \* hand-written tokens of another length than generated ones
  NoToken,    \* no authToken= line, or no file
  Torn        \* bytes of one token with the length of another

ASSUME TokensAssumption ==
  /\ NoToken \notin Tokens /\ Torn \notin Tokens /\ NoToken # Torn
  /\ Short \subseteq Tokens

(* The length of a token, as far as it matters. *)
Size(t) == IF t = NoToken THEN "zero" ELSE IF t \in Short THEN "short" ELSE "full"

VARIABLES
  ptr, len,   \* the two words of s.cfg.AuthToken
  file,       \* authToken in hrbridge.conf
  up,         \* the server is running
  unsaved,    \* a rotation has failed to write the file since the start
  used,       \* tokens that exist
  handed,     \* tokens sent in a 200 response
  retired,    \* tokens that a successful rotation has replaced
  step,       \* step[r]: what rotation r does next
  fresh,      \* fresh[r]: the token r generated
  snap,       \* snap[r]: the token in r's copy of s.cfg, made by the call of writeConfig
  replaced,   \* replaced[r]: the token that r's assignment overwrote
  code,       \* code[r]: status of r's response, 0 before it
  raced       \* two rotations have been in flight at once

tokenVars == <<ptr, len, file, up, unsaved, used, handed, retired, step, fresh, snap, replaced, code, raced>>

(* What a reader of s.cfg.AuthToken gets. *)
mem == IF len = Size(ptr) THEN ptr ELSE Torn

TokenTypeOK ==
  /\ ptr \in Tokens \cup {NoToken}
  /\ len \in {"zero", "short", "full"}
  /\ file \in Tokens \cup {NoToken}
  /\ up \in BOOLEAN /\ unsaved \in BOOLEAN
  /\ used \subseteq Tokens /\ handed \subseteq used /\ retired \subseteq used
  /\ step \in [Requests -> {"new", "generate", "store", "storePtr", "storeLen", "copy", "write", "done", "dead"}]
  /\ fresh \in [Requests -> Tokens \cup {NoToken}]
  /\ snap \in [Requests -> Tokens \cup {NoToken}]
  /\ replaced \in [Requests -> Tokens \cup {NoToken}]
  /\ code \in [Requests -> {0, 200, 403, 500}]
  /\ raced \in BOOLEAN

TokenInit ==
  /\ ptr = NoToken /\ len = "zero"
  /\ file \in Short \cup {NoToken}
  /\ up = FALSE
  /\ unsaved = FALSE
  /\ used = IF file = NoToken THEN {} ELSE {file}
  /\ handed = {}
  /\ retired = {}
  /\ step = [r \in Requests |-> "new"]
  /\ fresh = [r \in Requests |-> NoToken]
  /\ snap = [r \in Requests |-> NoToken]
  /\ replaced = [r \in Requests |-> NoToken]
  /\ code = [r \in Requests |-> 0]
  /\ raced = FALSE

Rotating(r) == step[r] \in {"generate", "store", "storePtr", "storeLen", "copy", "write"}
Quiet == \A r \in Requests : ~Rotating(r)

-----------------------------------------------------------------------------
(* main and LoadOrCreateConfig.                                             *)

Set(t) == ptr' = t /\ len' = Size(t)

(* The file has a token: use it. *)
Load ==
  /\ ~up
  /\ file # NoToken
  /\ up' = TRUE
  /\ Set(file)
  /\ UNCHANGED <<file, unsaved, used, handed, retired, step, fresh, snap, replaced, code, raced>>

CreateUnsaved(t) ==
  /\ ~up
  /\ file = NoToken
  /\ t \in Tokens \ (used \cup Short)
  /\ used' = used \cup {t}
  /\ file' \in {t, file}
  /\ Set(t)
  /\ up' = TRUE
  /\ UNCHANGED <<unsaved, handed, retired, step, fresh, snap, replaced, code, raced>>

(* It has none: generate one and write it; if that fails, main exits and    *)
(* nothing has changed.                                                     *)
Create(t) ==
  /\ ~up
  /\ file = NoToken
  /\ t \in Tokens \ (used \cup Short)
  /\ used' = used \cup {t}
  /\ file' = t
  /\ Set(t)
  /\ up' = TRUE
  /\ UNCHANGED <<unsaved, handed, retired, step, fresh, snap, replaced, code, raced>>

(* The process ends, in whatever step its handlers are. *)
KillServer ==
  /\ up
  /\ up' = FALSE
  /\ Set(NoToken)
  /\ unsaved' = FALSE
  /\ step' = [r \in Requests |-> IF Rotating(r) THEN "dead" ELSE step[r]]
  /\ UNCHANGED <<file, used, handed, retired, fresh, snap, replaced, code, raced>>

-----------------------------------------------------------------------------
(* handleRotateToken.                                                       *)

StepTo(r, s) == step' = [step EXCEPT ![r] = s]

Respond(r, status) ==
  /\ StepTo(r, "done")
  /\ code' = [code EXCEPT ![r] = status]

(* auth: the request carries a token its sender was given, or has read in   *)
(* hrbridge.conf.                                                           *)
Enter(r, bearer) ==
  /\ up
  /\ step[r] = "new"
  /\ bearer \in handed \cup ({file} \ {NoToken})
  /\ IF bearer = mem
       THEN StepTo(r, "generate") /\ raced' = (raced \/ ~Quiet) /\ UNCHANGED code
       ELSE Respond(r, 403) /\ UNCHANGED raced
  /\ UNCHANGED <<ptr, len, file, up, unsaved, used, handed, retired, fresh, snap, replaced>>

Generate(r, t) ==
  /\ step[r] = "generate"
  /\ t \in Tokens \ (used \cup Short)
  /\ used' = used \cup {t}
  /\ fresh' = [fresh EXCEPT ![r] = t]
  /\ StepTo(r, "store")
  /\ UNCHANGED <<ptr, len, file, up, unsaved, handed, retired, snap, replaced, code, raced>>

GenerateFails(r) ==
  /\ step[r] = "generate"
  /\ Respond(r, 500)
  /\ UNCHANGED <<ptr, len, file, up, unsaved, used, handed, retired, fresh, snap, replaced, raced>>

StorePtr(r) ==
  /\ ptr' = fresh[r]
  /\ replaced' = [replaced EXCEPT ![r] = ptr]

StoreLen(r) == len' = Size(fresh[r])

(* s.cfg.AuthToken = token: one word ...                                    *)
BeginStore(r) ==
  /\ step[r] = "store"
  /\ \/ StorePtr(r) /\ UNCHANGED len /\ StepTo(r, "storeLen")
     \/ StoreLen(r) /\ UNCHANGED <<ptr, replaced>> /\ StepTo(r, "storePtr")
  /\ UNCHANGED <<file, up, unsaved, used, handed, retired, fresh, snap, code, raced>>

(* ... and the other.                                                       *)
EndStore(r) ==
  /\ \/ step[r] = "storePtr" /\ StorePtr(r) /\ UNCHANGED len
     \/ step[r] = "storeLen" /\ StoreLen(r) /\ UNCHANGED <<ptr, replaced>>
  /\ StepTo(r, "copy")
  /\ UNCHANGED <<file, up, unsaved, used, handed, retired, fresh, snap, code, raced>>

CopyOfFile(r) ==
  /\ step[r] = "copy"
  /\ snap' = [snap EXCEPT ![r] = file]
  /\ StepTo(r, "write")
  /\ UNCHANGED <<ptr, len, file, up, unsaved, used, handed, retired, fresh, replaced, code, raced>>

(* writeConfig(s.cfg.ConfigPath, s.cfg): the argument is a copy. *)
Copy(r) ==
  /\ step[r] = "copy"
  /\ snap' = [snap EXCEPT ![r] = mem]
  /\ StepTo(r, "write")
  /\ UNCHANGED <<ptr, len, file, up, unsaved, used, handed, retired, fresh, replaced, code, raced>>

WriteNothing(r) ==
  /\ step[r] = "write"
  /\ Respond(r, 200)
  /\ handed' = handed \cup {fresh[r]}
  /\ retired' = retired \cup {replaced[r]}
  /\ UNCHANGED <<ptr, len, file, up, unsaved, used, fresh, snap, replaced, raced>>

(* atomicWriteFile succeeds, and the response carries the token. *)
WriteToken(r) ==
  /\ step[r] = "write"
  /\ file' = snap[r]
  /\ Respond(r, 200)
  /\ handed' = handed \cup {fresh[r]}
  /\ retired' = retired \cup {replaced[r]}
  /\ UNCHANGED <<ptr, len, up, unsaved, used, fresh, snap, replaced, raced>>

(* It fails: s.cfg keeps the token that nobody has been told. *)
WriteFails(r) ==
  /\ step[r] = "write"
  /\ Respond(r, 500)
  /\ unsaved' = TRUE
  /\ UNCHANGED <<ptr, len, file, up, used, handed, retired, fresh, snap, replaced, raced>>

Rotate(r) ==
  \/ \E t \in Tokens : Enter(r, t) \/ Generate(r, t)
  \/ GenerateFails(r) \/ BeginStore(r) \/ EndStore(r) \/ Copy(r) \/ WriteToken(r) \/ WriteFails(r)

TokenNext ==
  \/ \E r \in Requests : Rotate(r)
  \/ Load
  \/ \E t \in Tokens : Create(t)
  \/ KillServer

TokenSpec == TokenInit /\ [][TokenNext]_tokenVars

-----------------------------------------------------------------------------
(* With no rotation under way, the token the server accepts is one that its *)
(* users can know, sent to one of them or in hrbridge.conf, unless a        *)
(* rotation has failed.                                                     *)
LockedOutOnlyByFailure ==
  up /\ Quiet /\ ~unsaved => mem \in handed \cup {file}

(* A token that a successful rotation has replaced is never accepted again, *)
(* not even by a later run of the server (SECURITY.md).                     *)
OldTokenStaysDead == up => mem \notin retired

(* ... which the code keeps as long as no two rotations have overlapped,    *)
(* whatever fails and whenever the server is killed and started.            *)
ReplacedTokenStaysDead == ~raced => OldTokenStaysDead

(* Restarting the server changes nothing: it accepts the token that is in   *)
(* hrbridge.conf, as long as no two rotations have overlapped.              *)
FileTokenIsAccepted == ~raced /\ up /\ Quiet /\ ~unsaved => mem = file

=============================================================================
