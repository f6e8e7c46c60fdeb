------------------------------ MODULE PolicyRCI ------------------------------
(***************************************************************************)
(* The policies of the router.  HydraBridge lists, creates and deletes     *)
(* them with commands it posts to the router's RCI interface, one HTTP     *)
(* request per command.  The router keeps two configurations: the running  *)
(* one, which commands change, and the saved one, which it boots from and  *)
(* which a second command, the save, replaces with all of the running one. *)
(*                                                                         *)
(* A handler waits ten seconds for its commands together.  When it gives   *)
(* up it answers 500, and a command it has sent may still arrive.  The     *)
(* router's side (Run, Save, Reject, Lose, Reboot) is external; it is      *)
(* taken to answer 200 to a command when it has executed it.               *)
(***************************************************************************)
EXTENDS Naturals

CONSTANTS
  Requests,  \* requests of clients to HydraBridge
  Policies,  \* names of policies
  Asked      \* what the requests may ask for

Args == [op : {"create"}, name : Policies, save : BOOLEAN]
          \cup [op : {"delete"}, name : Policies, save : {TRUE}]
          \cup [op : {"list"}, name : Policies, save : {FALSE}]

ASSUME AskedAssumption == Asked \subseteq [Requests -> Args]

VARIABLES
  running,   \* policies in the running configuration
  saved,     \* policies in the configuration the router boots from
  wire,      \* commands sent to the router that it has not taken
  reply,     \* reply[r]: the router's status for r's command, as r may read it
  pc,        \* pc[r]: what handler r waits for
  arg,       \* arg[r]: what request r asks for
  code,      \* code[r]: status of r's answer, 0 before it
  audit,     \* audit[r]: the outcome r gave to the audit log, which may lose it
  executed,  \* commands executed so far that create or delete
  at,        \* at[r]: the number of r's command among them; 0: none, or undone by a reboot
  savedAt    \* the commands executed when the configuration was last saved

router == <<running, saved, executed, at, savedAt>>
answers == <<code, audit>>
vars == <<router, wire, reply, pc, arg, answers>>

Waiting == {"command", "save"}
Message(r, what) == [from |-> r, what |-> what]
Messages == [from : Requests, what : Waiting]
InFlight(r) == pc[r] \in Waiting

TypeOK ==
  /\ running \subseteq Policies /\ saved \subseteq Policies
  /\ wire \subseteq Messages
  /\ reply \in [Requests -> {"none", "ok", "error"}]
  /\ pc \in [Requests -> {"new", "done", "dead"} \cup Waiting]
  /\ arg \in [Requests -> Args]
  /\ code \in [Requests -> {0, 200, 400, 500}]
  /\ audit \in [Requests -> {"none", "ok", "failed"}]
  /\ executed \in Nat /\ savedAt \in 0..executed
  /\ at \in [Requests -> 0..executed]

Init ==
  /\ running \in SUBSET Policies /\ saved = running
  /\ wire = {}
  /\ reply = [r \in Requests |-> "none"]
  /\ pc = [r \in Requests |-> "new"]
  /\ arg \in Asked
  /\ code = [r \in Requests |-> 0]
  /\ audit = [r \in Requests |-> "none"]
  /\ executed = 0 /\ savedAt = 0
  /\ at = [r \in Requests |-> 0]

-----------------------------------------------------------------------------
(* The handlers.                                                            *)

(* rciPost: the command goes out, and the handler waits. *)
Send(r, what) ==
  /\ wire' = wire \cup {Message(r, what)}
  /\ reply' = [reply EXCEPT ![r] = "none"]
  /\ pc' = [pc EXCEPT ![r] = what]

(* The answer and, for what changes policies, the audit entry. *)
Respond(r, status) ==
  /\ pc' = [pc EXCEPT ![r] = "done"]
  /\ reply' = [reply EXCEPT ![r] = "none"]
  /\ code' = [code EXCEPT ![r] = status]
  /\ audit' = [audit EXCEPT ![r] =
       IF arg[r].op = "list" THEN "none" ELSE IF status = 200 THEN "ok" ELSE "failed"]

Begin(r) ==
  /\ pc[r] = "new"
  /\ Send(r, "command")
  /\ UNCHANGED <<router, arg, answers>>

(* The body or the name is not valid. *)
Refuse(r) ==
  /\ pc[r] = "new"
  /\ Respond(r, 400)
  /\ UNCHANGED <<router, wire, arg>>

ReceiveNotWaiting(r) ==
  /\ InFlight(r)
  /\ reply[r] # "none"
  /\ IF reply[r] = "ok" /\ arg[r].save
       THEN wire' = wire \cup {Message(r, "save")} /\ Respond(r, 200)
       ELSE Respond(r, IF reply[r] = "ok" THEN 200 ELSE 500) /\ UNCHANGED wire
  /\ UNCHANGED <<router, arg>>

(* rciExecuteCommands: after the command, the save if it was asked for. *)
Receive(r) ==
  /\ InFlight(r)
  /\ reply[r] # "none"
  /\ IF reply[r] = "ok" /\ pc[r] = "command" /\ arg[r].save
       THEN Send(r, "save") /\ UNCHANGED answers
       ELSE Respond(r, IF reply[r] = "ok" THEN 200 ELSE 500) /\ UNCHANGED wire
  /\ UNCHANGED <<router, arg>>

GiveUpCommandOnly(r) ==
  /\ pc[r] = "command"
  /\ Respond(r, 500)
  /\ UNCHANGED <<router, wire, arg>>

(* The ten seconds (five for the list) are over, the connection failed, or  *)
(* the client has gone, which cancels the request's context.                *)
GiveUp(r) ==
  /\ InFlight(r)
  /\ Respond(r, 500)
  /\ UNCHANGED <<router, wire, arg>>

(* The agent is killed: what it has sent stays on its way. *)
Dead == [r \in Requests |-> IF InFlight(r) THEN "dead" ELSE pc[r]]
Kill ==
  /\ \E r \in Requests : InFlight(r)
  /\ pc' = Dead
  /\ UNCHANGED <<router, wire, reply, arg, answers>>

-----------------------------------------------------------------------------
(* The router.                                                              *)

(* It takes a command and answers; nobody reads an answer nobody waits for. *)
Take(r, what, status) ==
  /\ Message(r, what) \in wire
  /\ wire' = wire \ {Message(r, what)}
  /\ reply' = IF pc[r] = what THEN [reply EXCEPT ![r] = status] ELSE reply
  /\ UNCHANGED <<pc, arg, answers>>

(* A listing shows the running configuration and changes nothing. *)
RunList(r) ==
  /\ arg[r].op = "list"
  /\ Take(r, "command", "ok")
  /\ UNCHANGED router

(* "ip policy <name>" and "no ip policy <name>". *)
Run(r) ==
  /\ arg[r].op # "list"
  /\ Take(r, "command", "ok")
  /\ running' = IF arg[r].op = "create" THEN running \cup {arg[r].name}
                ELSE running \ {arg[r].name}
  /\ executed' = executed + 1
  /\ at' = [at EXCEPT ![r] = executed + 1]
  /\ UNCHANGED <<saved, savedAt>>

Save(r) ==
  /\ Take(r, "save", "ok")
  /\ saved' = running
  /\ savedAt' = executed
  /\ UNCHANGED <<running, executed, at>>

Reject(r, what) ==
  /\ Take(r, what, "error")
  /\ UNCHANGED router

Lose(m) ==
  /\ m \in wire
  /\ wire' = wire \ {m}
  /\ UNCHANGED <<router, reply, pc, arg, answers>>

(* The router boots, and with it HydraBridge, which runs on it. *)
Reboot ==
  /\ running' = saved
  /\ at' = [r \in Requests |-> IF at[r] > savedAt THEN 0 ELSE at[r]]
  /\ wire' = {}
  /\ pc' = Dead
  /\ UNCHANGED <<saved, executed, savedAt, reply, arg, answers>>

Handle(r) == Receive(r) \/ GiveUp(r)

Next ==
  \/ \E r \in Requests : Begin(r) \/ Refuse(r) \/ Handle(r)
  \/ Kill
  \/ \E r \in Requests : RunList(r) \/ Run(r) \/ Save(r)
  \/ \E r \in Requests, what \in Waiting : Reject(r, what)
  \/ \E m \in Messages : Lose(m)
  \/ Reboot

Spec == Init /\ [][Next]_vars

(* The Go scheduler runs every handler, and its clock does not stop.        *)
(* Nothing makes the router answer.                                         *)
FairSpec == Spec /\ \A r \in Requests : WF_vars(Handle(r))

-----------------------------------------------------------------------------
(* Properties.                                                              *)

(* The configuration is as r's command left it. *)
Done(r, config) == (arg[r].op = "create") <=> (arg[r].name \in config)

(* Another request has changed the policy back since, among the first n     *)
(* commands.                                                                *)
Overridden(r, n) ==
  \E q \in Requests :
    /\ arg[q].op \in {"create", "delete"} \ {arg[r].op} /\ arg[q].name = arg[r].name
    /\ at[r] < at[q] /\ at[q] <= n

Promised(r) == code[r] = 200 /\ arg[r].save

(* A policy that was created or deleted with saved=true stays created or    *)
(* deleted, in the running and in the saved configuration, through losses,  *)
(* late commands, kills and reboots, until a later command changes it back. *)
(* So a client that was answered 500, whose change may be nowhere, running  *)
(* but not saved, or yet to come, repeats its request until this is so.     *)
(* The audit entry "ok" says the same.                                      *)
SavedAnswerSurvives ==
  \A r \in Requests :
    Promised(r) \/ (audit[r] = "ok" /\ arg[r].save) =>
      /\ Done(r, running) \/ Overridden(r, executed)
      /\ Done(r, saved) \/ Overridden(r, savedAt)

(* Every request is answered or dies with the agent, even if the router     *)
(* never says a word (the timeouts of rciExecuteCommands, listRCIPolicies). *)
Answered == \A r \in Requests : InFlight(r) ~> ~InFlight(r)

=============================================================================
