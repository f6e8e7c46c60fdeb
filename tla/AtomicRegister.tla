---------------------------- MODULE AtomicRegister ----------------------------
(***************************************************************************)
(* What a caller of atomicWriteFile (internal/agent/fs.go) may rely on,    *)
(* whatever the steps behind it: the file behaves as one register.  A call *)
(* either installs its whole payload in one step and returns ok, or        *)
(* installs nothing and returns an error.  The installed value reaches the *)
(* disk at some later moment; a power loss falls back to a value that did. *)
(***************************************************************************)

CONSTANTS
  Writers,   \* goroutines that may be inside a call for this path
  Data,      \* payloads a caller can pass
  None       \* "the path does not exist"

VARIABLES
  value,     \* the payload a reader of the path gets now
  saved,     \* the payload a reader would get after a power loss
  pending,   \* pending[w]: the payload w is writing, None outside a call
  result     \* result[w]: how w's last call returned

vars == <<value, saved, pending, result>>

NoPending == [w \in Writers |-> None]
NoResult  == [w \in Writers |-> "none"]

Init ==
  /\ value \in Data \cup {None}
  /\ saved = value
  /\ pending = NoPending
  /\ result = NoResult

(* A caller enters with payload d. *)
Call(w, d) ==
  /\ pending[w] = None
  /\ pending' = [pending EXCEPT ![w] = d]
  /\ result' = [result EXCEPT ![w] = "none"]
  /\ UNCHANGED <<value, saved>>

(* The linearization point of a successful call. *)
Install(w) ==
  /\ pending[w] # None
  /\ value' = pending[w]
  /\ pending' = [pending EXCEPT ![w] = None]
  /\ result' = [result EXCEPT ![w] = "ok"]
  /\ UNCHANGED saved

(* A call that fails leaves the register alone. *)
Fail(w) ==
  /\ pending[w] # None
  /\ pending' = [pending EXCEPT ![w] = None]
  /\ result' = [result EXCEPT ![w] = "error"]
  /\ UNCHANGED <<value, saved>>

Persist ==
  /\ saved' = value
  /\ UNCHANGED <<value, pending, result>>

(* The process dies: its calls never return, what they installed stays. *)
Kill ==
  /\ pending' = NoPending
  /\ result' = NoResult
  /\ UNCHANGED <<value, saved>>

PowerLoss ==
  /\ value' = saved
  /\ pending' = NoPending
  /\ result' = NoResult
  /\ UNCHANGED saved

Next ==
  \/ \E w \in Writers : \/ \E d \in Data : Call(w, d)
                        \/ Install(w)
                        \/ Fail(w)
  \/ Persist
  \/ Kill
  \/ PowerLoss

Spec == Init /\ [][Next]_vars

=============================================================================
