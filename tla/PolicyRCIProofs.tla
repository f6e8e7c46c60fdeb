--------------------------- MODULE PolicyRCIProofs ---------------------------
(***************************************************************************)
(* A policy change that was answered with saved=true survives, for any     *)
(* requests and policies and any number of losses, late commands, kills    *)
(* and reboots.                                                            *)
(*                                                                         *)
(* The invariant follows a change on its way: once the router has run it,  *)
(* the running configuration shows it or a later command has changed it    *)
(* back; once the router has saved after it, the saved configuration does  *)
(* so too, and nothing a reboot undoes can be what it is shown by.  An     *)
(* answer with saved=true is only given after both.                        *)
(***************************************************************************)
EXTENDS PolicyRCI, TLAPS

Shown == \A r \in Requests :
  at[r] # 0 => Done(r, running) \/ Overridden(r, executed)

ShownSaved == \A r \in Requests :
  at[r] \in 1..savedAt => Done(r, saved) \/ Overridden(r, savedAt)

(* A command that is still on its way, or not sent, has not been executed. *)
NotYet == \A r \in Requests :
  /\ pc[r] = "new" \/ Message(r, "command") \in wire => at[r] = 0
  /\ Message(r, "command") \in wire => pc[r] # "new"

(* How far the change of a handler has come when it waits or has answered. *)
OnItsWay == \A r \in Requests :
  /\ pc[r] = "command" /\ reply[r] = "ok" /\ arg[r].op # "list" => at[r] # 0
  /\ pc[r] = "save" => at[r] # 0
  /\ pc[r] = "save" /\ reply[r] = "ok" => at[r] \in 1..savedAt
  /\ Promised(r) => at[r] \in 1..savedAt

(* Answers are given once, and the audit log says no more than they do. *)
AnsweredOnce == \A r \in Requests :
  /\ pc[r] = "new" \/ InFlight(r) => code[r] = 0
  /\ pc[r] = "new" => reply[r] = "none"
  /\ audit[r] = "ok" => code[r] = 200

IInv == TypeOK /\ Shown /\ ShownSaved /\ NotYet /\ OnItsWay /\ AnsweredOnce

(* What a request asks for: a listing saves nothing. *)
LEMMA AskedTyped ==
  ASSUME TypeOK, NEW r \in Requests
  PROVE  /\ arg[r].name \in Policies
         /\ arg[r].op \in {"create", "delete", "list"}
         /\ arg[r].save => arg[r].op # "list"
<1>1. arg[r] \in Args
  BY DEF TypeOK
<1> QED
  BY <1>1 DEF Args

LEMMA InitTyped == Init => TypeOK
  BY AskedAssumption DEF Init, TypeOK

LEMMA NextTyped == TypeOK /\ [Next]_vars => TypeOK'
<1> SUFFICES ASSUME TypeOK, [Next]_vars PROVE TypeOK'
  OBVIOUS
<1> USE DEF TypeOK
<1>1. ASSUME NEW r \in Requests, Begin(r) PROVE TypeOK'
  BY <1>1 DEF Begin, Send, Message, Messages, Waiting, router, answers, vars
<1>2. ASSUME NEW r \in Requests, Refuse(r) PROVE TypeOK'
  BY <1>2 DEF Refuse, Respond, router, answers, vars
<1>3. ASSUME NEW r \in Requests, Receive(r) PROVE TypeOK'
  BY <1>3 DEF Receive, Respond, Send, Message, Messages, Waiting, InFlight, router, answers, vars
<1>4. ASSUME NEW r \in Requests, GiveUp(r) PROVE TypeOK'
  BY <1>4 DEF GiveUp, Respond, router, answers, vars
<1>5. ASSUME Kill PROVE TypeOK'
  BY <1>5 DEF Kill, Dead, InFlight, router, answers, vars
<1>6. ASSUME NEW r \in Requests, RunList(r) PROVE TypeOK'
  BY <1>6 DEF RunList, Take, router, answers, vars
<1>7. ASSUME NEW r \in Requests, Run(r) PROVE TypeOK'
  <2>1. /\ wire' \subseteq Messages /\ reply' \in [Requests -> {"none", "ok", "error"}]
        /\ UNCHANGED <<pc, arg, code, audit, saved, savedAt>>
    BY <1>7 DEF Run, Take, answers
  <2>2. executed' = executed + 1 /\ at' = [at EXCEPT ![r] = executed + 1]
    BY <1>7 DEF Run
  <2>3. at' \in [Requests -> 0..executed'] /\ executed' \in Nat /\ savedAt' \in 0..executed'
    BY <2>1, <2>2
  <2>4. running' \subseteq Policies
    BY <1>7, AskedTyped DEF Run
  <2> QED
    BY <2>1, <2>3, <2>4
<1>8. ASSUME NEW r \in Requests, Save(r) PROVE TypeOK'
  BY <1>8 DEF Save, Take, router, answers, vars
<1>9. ASSUME NEW r \in Requests, NEW what \in Waiting, Reject(r, what) PROVE TypeOK'
  BY <1>9 DEF Reject, Take, router, answers, vars
<1>10. ASSUME NEW m \in Messages, Lose(m) PROVE TypeOK'
  BY <1>10 DEF Lose, router, answers, vars
<1>11. ASSUME Reboot PROVE TypeOK'
  BY <1>11 DEF Reboot, Dead, InFlight, router, answers, vars
<1>12. ASSUME UNCHANGED vars PROVE TypeOK'
  BY <1>12 DEF router, answers, vars
<1> QED
  BY <1>1, <1>2, <1>3, <1>4, <1>5, <1>6, <1>7, <1>8, <1>9, <1>10, <1>11, <1>12
  DEF Next, Handle

(* Every variable keeps its type. *)
THEOREM TypeCorrect == Spec => []TypeOK
<1>1. Init => TypeOK
  BY InitTyped
<1>2. TypeOK /\ [Next]_vars => TypeOK'
  BY NextTyped
<1> QED
  BY <1>1, <1>2, PTL DEF Spec

-----------------------------------------------------------------------------
LEMMA InitIInv == Init => IInv
<1> SUFFICES ASSUME Init PROVE IInv
  OBVIOUS
<1>1. TypeOK
  BY InitTyped
<1>2. Shown /\ ShownSaved /\ NotYet
  BY DEF Init, Shown, ShownSaved, NotYet
<1>3. OnItsWay /\ AnsweredOnce
  BY DEF Init, OnItsWay, AnsweredOnce, Promised
<1> QED
  BY <1>1, <1>2, <1>3 DEF IInv

(* What the router keeps is as before when only handlers step. *)
LEMMA RouterUntouched ==
  ASSUME IInv, UNCHANGED <<router, arg>>
  PROVE  Shown' /\ ShownSaved'
BY DEF IInv, Shown, ShownSaved, Done, Overridden, router

(* A change that the router had run and saved is not lost by a later save,  *)
(* command or reboot, because whatever it is shown by is older than those.  *)
LEMMA RunKeeps ==
  ASSUME IInv, NEW r \in Requests, Run(r)
  PROVE  Shown' /\ ShownSaved'
<1> USE DEF IInv, Done, Overridden
<1>1. /\ at[r] = 0
      /\ at' = [at EXCEPT ![r] = executed + 1]
      /\ executed' = executed + 1 /\ executed \in Nat
      /\ at \in [Requests -> 0..executed]
      /\ savedAt \in 0..executed
      /\ UNCHANGED <<saved, savedAt, arg>>
      /\ arg[r].op # "list"
      /\ running' = IF arg[r].op = "create" THEN running \cup {arg[r].name}
                    ELSE running \ {arg[r].name}
  BY DEF Run, Take, NotYet, TypeOK
<1>2. ASSUME NEW q \in Requests, at'[q] # 0
      PROVE  Done(q, running') \/ Overridden(q, executed)'
  <2>1. CASE q = r
    BY <1>1, <2>1, AskedTyped
  <2>2. CASE q # r /\ arg[q].name = arg[r].name /\ arg[q].op = arg[r].op
    BY <1>1, <2>2, AskedTyped
  <2>3. CASE q # r /\ arg[q].name = arg[r].name /\ arg[q].op # arg[r].op
    <3>1. /\ arg'[r].op \in {"create", "delete"} \ {arg'[q].op}
          /\ arg'[r].name = arg'[q].name
      BY <1>1, <2>3, AskedTyped
    <3>2. at'[q] < at'[r] /\ at'[r] <= executed'
      BY <1>1, <2>3
    <3> QED
      BY <3>1, <3>2
  <2>4. CASE q # r /\ arg[q].name # arg[r].name
    <3>1. at[q] # 0 /\ (Done(q, running) <=> Done(q, running'))
      BY <1>1, <1>2, <2>4
    <3>2. CASE Done(q, running)
      BY <3>1, <3>2
    <3>3. CASE Overridden(q, executed)
      <4>1. PICK o \in Requests :
              /\ arg[o].op \in {"create", "delete"} \ {arg[q].op} /\ arg[o].name = arg[q].name
              /\ at[q] < at[o] /\ at[o] <= executed
        BY <3>3
      <4>2. o # r
        BY <4>1, <2>4
      <4>3. at'[q] < at'[o] /\ at'[o] <= executed'
        BY <4>1, <4>2, <2>4, <1>1
      <4> QED
        BY <4>1, <4>3, <1>1
    <3> QED
      BY <3>1, <3>2, <3>3 DEF Shown
  <2> QED
    BY <2>1, <2>2, <2>3, <2>4
<1>3. ASSUME NEW q \in Requests, at'[q] \in 1..savedAt'
      PROVE  Done(q, saved') \/ Overridden(q, savedAt)'
  <2>1. q # r /\ at[q] \in 1..savedAt
    BY <1>1, <1>3
  <2>2. CASE Done(q, saved)
    BY <1>1, <2>2
  <2>3. CASE Overridden(q, savedAt)
    <3>1. PICK o \in Requests :
            /\ arg[o].op \in {"create", "delete"} \ {arg[q].op} /\ arg[o].name = arg[q].name
            /\ at[q] < at[o] /\ at[o] <= savedAt
      BY <2>3
    <3>2. o # r
      BY <3>1, <2>1, <1>1
    <3> QED
      BY <3>1, <3>2, <2>1, <1>1
  <2> QED
    BY <2>1, <2>2, <2>3 DEF ShownSaved
<1> QED
  BY <1>1, <1>2, <1>3 DEF Shown, ShownSaved

LEMMA SaveKeeps ==
  ASSUME IInv, NEW r \in Requests, Save(r)
  PROVE  Shown' /\ ShownSaved'
<1>1. /\ saved' = running /\ savedAt' = executed
      /\ UNCHANGED <<running, executed, at, arg>>
      /\ executed \in Nat /\ at \in [Requests -> 0..executed]
  BY DEF Save, Take, IInv, TypeOK
<1> QED
  BY <1>1 DEF IInv, Shown, ShownSaved, Done, Overridden

LEMMA RebootKeeps ==
  ASSUME IInv, Reboot
  PROVE  Shown' /\ ShownSaved'
<1> USE DEF IInv, Done, Overridden
<1>1. /\ running' = saved
      /\ at' = [r \in Requests |-> IF at[r] > savedAt THEN 0 ELSE at[r]]
      /\ UNCHANGED <<saved, executed, savedAt, arg>>
      /\ executed \in Nat /\ at \in [Requests -> 0..executed] /\ savedAt \in 0..executed
  BY DEF Reboot, TypeOK
<1>2. ASSUME NEW q \in Requests, at'[q] # 0
      PROVE  Done(q, saved) \/ Overridden(q, savedAt)'
  <2>1. at[q] \in 1..savedAt /\ at'[q] = at[q]
    BY <1>1, <1>2
  <2>2. CASE Overridden(q, savedAt)
    <3>1. PICK o \in Requests :
            /\ arg[o].op \in {"create", "delete"} \ {arg[q].op} /\ arg[o].name = arg[q].name
            /\ at[q] < at[o] /\ at[o] <= savedAt
      BY <2>2
    <3>2. at'[o] = at[o]
      BY <3>1, <1>1
    <3> QED
      BY <3>1, <3>2, <2>1, <1>1
  <2> QED
    BY <2>1, <2>2, <1>1 DEF ShownSaved
<1>3. \A q \in Requests : Overridden(q, savedAt)' => Overridden(q, executed)'
  BY <1>1
<1>4. \A q \in Requests : at'[q] \in 1..savedAt' => at'[q] # 0
  BY <1>1
<1> QED
  BY <1>1, <1>2, <1>3, <1>4 DEF Shown, ShownSaved

-----------------------------------------------------------------------------
(* The rest of the invariant, about what handlers know. *)
LEMMA NextFollows ==
  ASSUME IInv, [Next]_vars
  PROVE  NotYet' /\ OnItsWay' /\ AnsweredOnce'
<1> USE DEF IInv, TypeOK, NotYet, OnItsWay, AnsweredOnce, Promised, InFlight
<1> DEFINE Follows == NotYet' /\ OnItsWay' /\ AnsweredOnce'
<1>1. ASSUME NEW r \in Requests, Begin(r) PROVE Follows
  BY <1>1 DEF Begin, Send, Message, Waiting, router, answers
<1>2. ASSUME NEW r \in Requests, Refuse(r) PROVE Follows
  <2>1. /\ pc' = [pc EXCEPT ![r] = "done"] /\ code' = [code EXCEPT ![r] = 400]
        /\ reply' = [reply EXCEPT ![r] = "none"]
        /\ audit'[r] # "ok" /\ \A q \in Requests \ {r} : audit'[q] = audit[q]
        /\ UNCHANGED <<at, savedAt, wire, arg>>
    BY <1>2 DEF Refuse, Respond, router
  <2>2. NotYet' /\ OnItsWay'
    BY <2>1
  <2>3. AnsweredOnce'
    BY <2>1 DEF Waiting
  <2> QED
    BY <2>2, <2>3
<1>3. ASSUME NEW r \in Requests, Receive(r) PROVE Follows
  <2>1. CASE reply[r] = "ok" /\ pc[r] = "command" /\ arg[r].save
    BY <1>3, <2>1, AskedTyped DEF Receive, Send, Message, Waiting, router, answers
  <2>2. CASE ~(reply[r] = "ok" /\ pc[r] = "command" /\ arg[r].save)
    BY <1>3, <2>2, AskedTyped DEF Receive, Respond, Waiting, router, answers
  <2> QED
    BY <2>1, <2>2
<1>4. ASSUME NEW r \in Requests, GiveUp(r) PROVE Follows
  BY <1>4 DEF GiveUp, Respond, router, answers, Waiting
<1>5. ASSUME Kill PROVE Follows
  BY <1>5 DEF Kill, Dead, router, answers, Waiting
<1>6. ASSUME NEW r \in Requests, RunList(r) PROVE Follows
  BY <1>6 DEF RunList, Take, Message, router, answers, Waiting
<1>7. ASSUME NEW r \in Requests, Run(r) PROVE Follows
  <2>1. /\ UNCHANGED <<pc, arg, code, audit, savedAt>>
        /\ at[r] = 0 /\ pc[r] # "save" /\ pc[r] # "new" /\ ~Promised(r)
        /\ executed' = executed + 1 /\ at' = [at EXCEPT ![r] = executed + 1]
        /\ wire' = wire \ {Message(r, "command")}
        /\ reply' = IF pc[r] = "command" THEN [reply EXCEPT ![r] = "ok"] ELSE reply
    <3>1. Message(r, "command") \in wire /\ at[r] = 0
      BY <1>7 DEF Run, Take
    <3>2. pc[r] # "save" /\ pc[r] # "new" /\ ~Promised(r)
      BY <3>1
    <3> QED
      BY <1>7, <3>1, <3>2 DEF Run, Take, answers
  <2>2. at'[r] # 0 /\ \A q \in Requests \ {r} : at'[q] = at[q] /\ reply'[q] = reply[q]
    BY <2>1
  <2>3. pc[r] \in {"command", "done", "dead"}
    BY <2>1 DEF Waiting
  <2>4. NotYet'
    <3>1. \A q \in Requests : Message(q, "command") \in wire' => q # r /\ Message(q, "command") \in wire
      BY <2>1
    <3> QED
      BY <2>1, <2>2, <3>1
  <2>5. OnItsWay'
    BY <2>1, <2>2
  <2>6. AnsweredOnce'
    BY <2>1, <2>2
  <2> QED
    BY <2>4, <2>5, <2>6
<1>8. ASSUME NEW r \in Requests, Save(r) PROVE Follows
  <2>1. /\ UNCHANGED <<pc, arg, code, audit, executed, at>>
        /\ savedAt' = executed /\ wire' \subseteq wire
        /\ \A q \in Requests : reply'[q] # reply[q] => q = r /\ pc[q] = "save"
    BY <1>8 DEF Save, Take, answers
  <2>2. \A q \in Requests : at[q] # 0 => at'[q] \in 1..savedAt'
    BY <2>1
  <2>3. \A q \in Requests : pc[q] = "save" \/ Promised(q) => at[q] # 0
    OBVIOUS
  <2> QED
    BY <2>1, <2>2, <2>3
<1>9. ASSUME NEW r \in Requests, NEW what \in Waiting, Reject(r, what) PROVE Follows
  BY <1>9 DEF Reject, Take, router, answers, Waiting
<1>10. ASSUME NEW m \in Messages, Lose(m) PROVE Follows
  BY <1>10 DEF Lose, router, answers
<1>11. ASSUME Reboot PROVE Follows
  BY <1>11 DEF Reboot, Dead, answers, Waiting
<1>12. ASSUME UNCHANGED vars PROVE Follows
  BY <1>12 DEF router, answers, vars
<1> QED
  BY <1>1, <1>2, <1>3, <1>4, <1>5, <1>6, <1>7, <1>8, <1>9, <1>10, <1>11, <1>12
  DEF Next, Handle

LEMMA NextIInv == IInv /\ [Next]_vars => IInv'
<1> SUFFICES ASSUME IInv, [Next]_vars PROVE IInv'
  OBVIOUS
<1>1. TypeOK'
  BY NextTyped DEF IInv
<1>2. Shown' /\ ShownSaved'
  <2>1. CASE UNCHANGED <<router, arg>>
    BY <2>1, RouterUntouched
  <2>2. CASE ~UNCHANGED <<router, arg>>
    <3>1. \/ \E r \in Requests : Run(r) \/ Save(r)
          \/ Reboot
      BY <2>2 DEF Next, vars, router, Handle, Begin, Refuse, Receive, GiveUp, Kill, RunList,
                  Reject, Lose, Take, Respond, Send
    <3> QED
      BY <3>1, RunKeeps, SaveKeeps, RebootKeeps
  <2> QED
    BY <2>1, <2>2
<1> QED
  BY <1>1, <1>2, NextFollows DEF IInv

LEMMA IInvSurvives == IInv => SavedAnswerSurvives
<1> SUFFICES ASSUME IInv, NEW r \in Requests,
                    Promised(r) \/ (audit[r] = "ok" /\ arg[r].save)
             PROVE  /\ Done(r, running) \/ Overridden(r, executed)
                    /\ Done(r, saved) \/ Overridden(r, savedAt)
  BY DEF SavedAnswerSurvives
<1>1. Promised(r)
  BY DEF IInv, AnsweredOnce, Promised
<1>2. at[r] \in 1..savedAt /\ at[r] # 0
  BY <1>1 DEF IInv, OnItsWay
<1> QED
  BY <1>2 DEF IInv, Shown, ShownSaved

LEMMA Inductive == Spec => []IInv
<1>1. Init => IInv
  BY InitIInv
<1>2. IInv /\ [Next]_vars => IInv'
  BY NextIInv
<1> QED
  BY <1>1, <1>2, PTL DEF Spec

(* A policy change that rciExecuteCommands has run and saved, and that the  *)
(* handlers have answered or audited as such, is lost by nothing but a      *)
(* later change of the same policy.                                         *)
THEOREM SavedAnswersSurvive == Spec => []SavedAnswerSurvives
<1>1. IInv => SavedAnswerSurvives
  BY IInvSurvives
<1> QED
  BY <1>1, Inductive, PTL
=============================================================================
