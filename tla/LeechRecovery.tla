---------------------------- MODULE LeechRecovery ----------------------------
(***************************************************************************)
(* The owner's state machine of the leech recovery: one visit per pump     *)
(* drives a claimed request through qualification, the native Finish       *)
(* recipe, the native recreation of the session, its publication and the   *)
(* metadata check, with deadlines, a bounded queue of records on reserved  *)
(* credit, callbacks that the game makes inside and outside our calls, and *)
(* native exceptions that cross us at any call.                            *)
(*                                                                         *)
(* Native calls and everything read from the game are outcomes the         *)
(* environment picks: a call returns with its lease intact, is refused     *)
(* (wrong value, or the lease lost), or unwinds.  The clock is two flags'  *)
(* worth: before the Finish deadline, past it, past the attempt's.  The    *)
(* control endpoint is LeechControl, whose owner this module refines.      *)
(***************************************************************************)
EXTENDS Integers, Sequences, FiniteSets

CONSTANTS
    Schema, ConsoleRequested,   \* of LeechControl
    RecordCap,                  \* records a recipe may queue (9)
    MaxRequests,                \* bound on operationSequence
    Hazards                     \* what the environment does besides refusing

ASSUME RecoveryAssumption ==
    /\ RecordCap \in Nat /\ RecordCap >= 9 /\ MaxRequests \in Nat \ {0}
    /\ Hazards \subseteq {"throw", "unsupported", "clock", "foreign", "pause", "revoke"}

VARIABLES
    \* LeechControl
    enabled, started, stop, result, latched, registration, wpc, verdict, opc,
    owner, served, spoiled,
    \* the attempt: phase, terminal, flags, fault and the queue of records
    v,
    \* what the recipe did to the game
    nat,
    requested, op,
    rpc,          \* the owner's place inside a visit or a callback
    quota,        \* the recovery's reservation, NoQuota when inactive
    suspended,    \* Runtime.bindingSuspended
    task,         \* the heartbeat binding: Armed, Retired or Inert
    transport,    \* Running; Gated by the worker; Paused by the owner; Revoked
    late,         \* 0 in time, 1 past the Finish deadline, 2 past the attempt's
    foreign,      \* foreignFault
    recipes, forwards   \* history: recipes entered, native successes forwarded

C == INSTANCE LeechControl WITH
         Schema <- Schema, ConsoleRequested <- ConsoleRequested,
         enabled <- enabled, started <- started, stop <- stop, result <- result,
         latched <- latched, registration <- registration, wpc <- wpc, verdict <- verdict,
         spoiled <- spoiled, opc <- opc, owner <- owner, served <- served

cvars == <<enabled, started, stop, result, latched, registration, wpc, verdict, opc,
           owner, served, spoiled>>
world == <<transport, late, foreign>>
count == <<recipes, forwards>>
rvars == <<v, nat, requested, op, rpc, quota, suspended, task, world, count>>
vars  == <<cvars, rvars>>

NoQuota == -1
Phases == {"Disabled", "Armed", "Requested", "Qualifying", "FinishSubmitted",
           "FinishAccepted", "Recreating", "Published", "Observed", "Failed", "Rejected"}
Flags == {"Enabled", "Terminal", "Console", "Retryable", "Recipe", "Cancelled", "Exception",
          "Restart", "CreateObserved", "ForwardEntered", "ForwardDone", "Published",
          "Attempted", "Coherent", "Unverified"}

Blank == [phase |-> "Armed", terminal |-> FALSE, final |-> FALSE, exc |-> FALSE,
          flags |-> {"Enabled"}, reason |-> "None", outcome |-> "None", pending |-> <<>>]
Untouched == [recipe |-> FALSE, resource |-> "None", bind |-> "no", cancel |-> FALSE,
              returned |-> FALSE, observed |-> FALSE, accepted |-> FALSE,
              create |-> "none", head |-> "none"]

Init ==
    /\ C!Init
    /\ v = [Blank EXCEPT !.phase = "Disabled", !.flags = {}]
    /\ nat = Untouched
    /\ requested = FALSE /\ op = 0 /\ rpc = "idle" /\ quota = NoQuota
    /\ suspended = FALSE /\ task = "Armed"
    /\ transport = "Running" /\ late = 0 /\ foreign = FALSE
    /\ recipes = 0 /\ forwards = 0
-----------------------------------------------------------------------------
(* Fault, Queue, Transition, Flush: scalar bookkeeping of the attempt w.   *)

\* A published session is a fact that only a native unwind or a changed identity
\* can still turn into a restart.
Spared(w, native) == "Published" \in w.flags /\ ~native
Doubt(w) == IF "Coherent" \in w.flags THEN {} ELSE {"Unverified"}

Fault(w, reason, outcome, restart) ==
    LET native == \/ reason \in {"NativeException", "InverseUnavailable", "IdentityChanged"}
                  \/ "Exception" \in w.flags \/ w.reason = "IdentityChanged"
                  \/ w.outcome = "NativeUnwind"
        was    == "Retryable" \in w.flags
        closes == restart \/ native
        spared == Spared(w, native)
        again  == restart /\ ~spared
        first  == ~w.terminal
        label  == \/ first \/ (was /\ again) \/ reason = "NativeException"
                  \/ reason = "InverseUnavailable" /\ "Exception" \notin w.flags
    IN  [w EXCEPT
           !.terminal = TRUE,
           !.final    = @ \/ first \/ (was /\ closes),
           !.flags    = (@ \ (IF closes THEN {"Retryable"} ELSE {}))
                          \cup (IF again THEN {"Restart"} ELSE {})
                          \cup (IF spared THEN Doubt(w) ELSE {}),
           !.reason   = IF label THEN reason ELSE @,
           !.outcome  = IF ~label THEN @ ELSE IF spared THEN "NotDelivered" ELSE outcome]

Refused(w, restart) == Fault(w, "Other", "Mechanics", restart)
Excepted(w) ==
    Fault([w EXCEPT !.flags = @ \cup {"Exception"}, !.exc = TRUE],
          "NativeException", "NativeUnwind", TRUE)
InverseForgiven(w) ==                               \* mutant
    Fault(w, "InverseUnavailable", "NativeUnwind", FALSE)
InverseLost(w) == Fault(w, "InverseUnavailable", "NativeUnwind", TRUE)
ClockFault(w) == Fault(w, "ClockFault", "Mechanics", nat.cancel)

Queue(w, event) ==
    IF Len(w.pending) = RecordCap THEN Refused(w, TRUE)
    ELSE [w EXCEPT !.pending = Append(@, [event |-> event, phase |-> w.phase,
                                          restart |-> "Restart" \in w.flags])]
Transition(w, phase) ==
    IF w.phase = phase THEN w ELSE Queue([w EXCEPT !.phase = phase], "Transition")

\* In a pause only the last word on a failed attempt may still be recorded.
Emitted(w) ==
    {i \in DOMAIN w.pending : transport # "Paused" \/
        LET x == w.pending[i] IN
        x.phase = "Failed" /\ x.restart /\ x.event \in {"Transition", "Final"}}
Flushes(w, q) ==
    w.pending = <<>> \/ (transport # "Revoked" /\ q > 0 /\ Cardinality(Emitted(w)) <= q)
Flushed(w) == [w EXCEPT !.pending = <<>>]

ReleaseCapture(q) == NoQuota

CaptureAdmission == transport = "Running"

\* Lease: nothing the attempt rests on has changed; refusing is always possible.
LeaseMayHold(w) ==
    /\ ~w.terminal /\ CaptureAdmission
    /\ late < IF nat.create = "none" THEN 1 ELSE 2

\* A refusal may hide a failed clock, which revokes and gives the credit back.
Refuses(restart) ==
    \/ /\ v' = Refused(v, restart)
       /\ UNCHANGED <<quota, transport>>
    \/ /\ "clock" \in Hazards
       /\ v' = Refused(IF v.terminal THEN v ELSE ClockFault(v), restart)
       /\ quota' = ReleaseCapture(quota) /\ transport' = "Revoked"

TerminalPhase(w) ==
    IF "Published" \in w.flags /\ "Restart" \notin w.flags THEN "Observed"
    ELSE IF nat.cancel \/ "Restart" \in w.flags THEN "Failed" ELSE "Rejected"

\* Only an untouched heartbeat goes back to ordinary binding.
StillSuspendedAlways(w, safe) == suspended /\ ~safe       \* mutant
StillSuspended(w, safe) ==
    suspended /\ (nat.cancel \/ "Restart" \in w.flags \/ ~safe \/ task = "Inert")
-----------------------------------------------------------------------------
(* Control, environment and time.                                          *)

Arm ==
    /\ rpc = "idle" /\ C!StartControl
    /\ v' = IF enabled' THEN Blank ELSE v
    /\ UNCHANGED <<nat, requested, op, rpc, quota, suspended, task, world, count>>

ControlSteps ==
    /\ \/ C!WorkerNext \/ C!ClientNext \/ C!StopControl
       \/ rpc = "idle" /\ C!InitializeControl
       \/ rpc = "idle" /\ ~requested /\ C!RegisterConsole
       \/ rpc = "idle" /\ (C!ConsoleGuards \/ C!ConsoleClaims \/ C!ConsoleWithdrawn)
    /\ UNCHANGED rvars

Tick ==
    /\ requested /\ ~v.terminal /\ late < 2 /\ late' = late + 1
    /\ UNCHANGED <<cvars, v, nat, requested, op, rpc, quota, suspended, task, transport,
                   foreign, count>>

\* The worker gates capture at any time; the owner turns that into a pause, or
\* resumes, between visits, and never while the binding is suspended.
TransportChanges ==
    /\ \/ "pause" \in Hazards /\ transport = "Running" /\ transport' = "Gated"
       \/ transport = "Gated" /\ rpc = "idle" /\ transport' \in {"Running", "Paused"}
       \/ /\ transport = "Paused" /\ rpc = "idle" /\ ~suspended /\ quota <= 0
          /\ transport' = "Running"
       \/ "revoke" \in Hazards /\ transport # "Revoked" /\ transport' = "Revoked"
    /\ UNCHANGED <<cvars, v, nat, requested, op, rpc, quota, suspended, task, late,
                   foreign, count>>

\* A callback of ours is run by some other thread.
ForeignCallback ==
    /\ "foreign" \in Hazards /\ (nat.returned \/ nat.resource = "Entered") /\ ~foreign
    /\ foreign' = TRUE
    /\ UNCHANGED <<cvars, v, nat, requested, op, rpc, quota, suspended, task, transport,
                   late, count>>

\* RecoveryOwnerClockFault from AfterPump.
PumpClockFails ==
    /\ "clock" \in Hazards /\ rpc = "idle" /\ opc = "idle" /\ requested /\ ~v.terminal
    /\ v' = ClockFault(v) /\ quota' = ReleaseCapture(quota) /\ transport' = "Revoked"
    /\ UNCHANGED <<cvars, nat, requested, op, rpc, suspended, task, late, foreign, count>>
-----------------------------------------------------------------------------
(* A visit: ServiceLeechRecovery up to the handler of the current phase.   *)

ServiceDueOnce ==                                   \* mutant
    /\ started /\ enabled /\ rpc = "idle" /\ opc = "idle"
    /\ IF requested THEN ~v.terminal \/ v.final \/ v.pending # <<>>
       ELSE latched # "None" \/ result # "Ready"
ServiceDue ==
    /\ started /\ enabled /\ rpc = "idle" /\ opc = "idle"
    /\ IF requested /\ "Retryable" \notin v.flags
       THEN ~v.terminal \/ v.final \/ v.pending # <<>>
       ELSE latched # "None" \/ result # "Ready"

ExpiredMildly(w) ==                                 \* mutant
    IF ~w.terminal /\ late = 2 THEN Refused(w, FALSE) ELSE w
ExpiredNever(w) == w                                \* mutant
Expired(w) == IF ~w.terminal /\ late = 2 THEN Refused(w, nat.cancel) ELSE w
Foreigned(w) == IF foreign THEN Refused(w, TRUE) ELSE w
Onward(w) == IF w.terminal THEN "terminal" ELSE "phase"

Continue ==
    /\ ServiceDue /\ requested /\ "Retryable" \notin v.flags
    /\ v' = Expired(Foreigned(v))
    /\ rpc' = Onward(v')
    /\ UNCHANGED <<cvars, nat, requested, op, quota, suspended, task, world, count>>

AnewStale(w) ==                                     \* mutant
    [w EXCEPT !.phase = "Armed", !.terminal = FALSE, !.final = FALSE]
Anew(w) == Blank

\* A first request, or a new one after a preflight rejection was given back.  Its
\* deadlines may not fit the clock; then it never leaves Armed.
NewRequest ==
    /\ ServiceDue /\ C!ServeRequest /\ op < MaxRequests
    /\ requested => result = "Ready" /\ ~stop
    /\ requested' = TRUE /\ op' = op + 1 /\ late' = 0
    /\ LET asked == IF latched = "Console"
                    THEN [Anew(v) EXCEPT !.flags = @ \cup {"Console"}] ELSE Anew(v)
       IN  \/ v' = Transition(asked, "Requested") /\ rpc' = "phase"
           \/ /\ "clock" \in Hazards
              /\ v' = Fault(asked, "ClockFault", "Mechanics", FALSE) /\ rpc' = "terminal"
    /\ UNCHANGED <<nat, quota, suspended, task, transport, foreign, count>>

\* The first visit finds no readable claim, or a returned request meets a closed
\* endpoint.
NoRequest ==
    /\ ServiceDue /\ C!RefuseRequest
    /\ IF requested
       THEN /\ result # "Ready" \/ stop
            /\ v' = [v EXCEPT !.flags = @ \ {"Retryable"}, !.reason = "Other",
                              !.final = TRUE]
       ELSE /\ ~C!ReadLatched
            /\ v' = Fault(v, "InvalidRequest", "Mechanics", FALSE)
    /\ requested' = TRUE /\ rpc' = "terminal"
    /\ UNCHANGED <<nat, op, quota, suspended, task, world, count>>

\* A capture that is not the normal pump: scalar bookkeeping only.
VisitUnsupported ==
    /\ "unsupported" \in Hazards /\ ServiceDue /\ requested
    /\ LET timed == v.phase \in {"Qualifying", "FinishSubmitted", "FinishAccepted"}
           w == Foreigned(v)
           x == IF ~w.terminal /\ (late = 2 \/ (timed /\ late = 1))
                THEN Refused(w, nat.cancel) ELSE w
           p == TerminalPhase(x)
       IN  IF x.terminal
           THEN /\ v' = [x EXCEPT !.phase = p, !.flags = @ \cup {"Terminal"},
                                  !.pending = <<>>,
                                  !.final = ~nat.recipe /\ p = "Rejected"]
                /\ quota' = ReleaseCapture(quota)
                /\ \E safe \in BOOLEAN : suspended' = StillSuspended(x, safe)
           ELSE v' = x /\ UNCHANGED <<quota, suspended>>
    /\ UNCHANGED <<cvars, nat, requested, op, rpc, task, world, count>>
-----------------------------------------------------------------------------
(* The handlers of Requested and Qualifying.                               *)

InPhase(p) == rpc = "phase" /\ v.phase = p /\ CaptureAdmission

NotAdmitted ==
    /\ rpc = "phase" /\ ~CaptureAdmission
    /\ v' = Fault(v, "Other", "Recording", nat.cancel)
    /\ rpc' = "terminal"
    /\ UNCHANGED <<cvars, nat, requested, op, quota, suspended, task, world, count>>

\* Each of the two records has a reservation of its own, of one credit.
Qualify ==
    /\ InPhase("Requested")
    /\ LET next == Transition(Flushed(v), "Qualifying") IN
         \/ v' = Flushed(next) /\ rpc' = "idle"
         \/ \E w \in {v, next} : v' = Refused(w, FALSE) /\ rpc' = "terminal"
    /\ UNCHANGED <<cvars, nat, requested, op, quota, suspended, task, world, count>>

\* The record is not yet observed, or the transport is not quiescent.
QualifyingWaits ==
    /\ InPhase("Qualifying") /\ late = 0
    /\ rpc' \in {"idle", "after"}
    /\ UNCHANGED <<cvars, v, nat, requested, op, quota, suspended, task, world, count>>

PreflightRefuses ==
    /\ InPhase("Qualifying")
    /\ Refuses(FALSE)
    /\ rpc' = "after"
    /\ UNCHANGED <<cvars, nat, requested, op, suspended, task, late, foreign, count>>

RecipeCreditPhases == 5                             \* mutant
RecipeCredit == RecordCap

SubmitFinish ==
    /\ InPhase("Qualifying") /\ LeaseMayHold(v)
    /\ C!SpendRequest
    /\ quota' = RecipeCredit
    /\ nat' = [nat EXCEPT !.recipe = TRUE]
    /\ v' = [v EXCEPT !.flags = @ \cup {"Recipe"}]
    /\ recipes' = recipes + 1
    /\ rpc' = "type"
    /\ UNCHANGED <<requested, op, suspended, task, world, forwards>>
-----------------------------------------------------------------------------
(* The Finish recipe, one native call at a time.                           *)

Following == [type |-> "init", init |-> "allocate", allocate |-> "bind",
              bind |-> "resolve", resolve |-> "copy", copy |-> "retire",
              verify |-> "cancel", cancel |-> "enqueue"]
Calls == DOMAIN Following
RestartOn == {"bind", "resolve", "cancel"}

Entered(s) == [nat EXCEPT !.bind = IF s = "bind" THEN "entered" ELSE @,
                          !.cancel = @ \/ s = "cancel"]
Done(s) == [Entered(s) EXCEPT !.bind = IF s = "bind" THEN "done" ELSE @,
                              !.resource = IF s = "allocate" THEN "Allocated"
                                           ELSE IF s = "bind" THEN "Bound" ELSE @]

RecipeReturns ==
    /\ rpc \in Calls /\ (rpc \notin {"init", "verify"} => LeaseMayHold(v))
    /\ nat' = Done(rpc)
    /\ v' = IF rpc = "cancel"
            THEN Transition([v EXCEPT !.flags = @ \cup {"Cancelled"}], "FinishSubmitted")
            ELSE v
    /\ rpc' = IF v'.terminal THEN "leave" ELSE Following[rpc]
    /\ UNCHANGED <<cvars, requested, op, quota, suspended, task, world, count>>

RecipeRefused ==
    /\ rpc \in Calls
    /\ \/ nat' = Done(rpc)
       \/ rpc = "allocate" /\ nat' = nat    \* no slot was handed out
    /\ Refuses(rpc \in RestartOn)
    /\ rpc' = "leave"
    /\ UNCHANGED <<cvars, requested, op, suspended, task, late, foreign, count>>

RecipeThrows ==
    /\ "throw" \in Hazards /\ rpc \in Calls \ {"verify"}
    /\ nat' = Entered(rpc)
    /\ v' = Excepted(v)
    /\ rpc' = "unwind"
    /\ UNCHANGED <<cvars, requested, op, quota, suspended, task, world, count>>

\* The wrapper leaves the heartbeat's builder slot before the task is cancelled.
Retire ==
    /\ rpc = "retire"
    /\ suspended' = TRUE
    /\ \/ /\ LeaseMayHold(v)
          /\ task' = "Retired" /\ rpc' = "verify" /\ UNCHANGED <<v, quota, transport>>
       \/ /\ task' \in {"Armed", "Retired", "Inert"}
          /\ Refuses(task' = "Inert") /\ rpc' = "leave"
    /\ UNCHANGED <<cvars, nat, requested, op, late, foreign, count>>

\* FinishObservation: the game's answer, right or wrong, in time or not.
AnswerTrue(w) == IF late = 0 THEN w ELSE Refused(w, TRUE)
Answered(n, good) == [n EXCEPT !.observed = TRUE, !.accepted = good /\ late = 0]

\* The game may answer inside the call that enqueues the request.
Enqueue ==
    /\ rpc = "enqueue"
    /\ \E answer \in {"none", "true", "false"}, id \in {"own", "other", "zero"} :
         LET n == [nat EXCEPT !.resource = "Entered", !.returned = TRUE]
             w == IF answer = "none" THEN v
                  ELSE IF answer = "true" THEN AnswerTrue(v) ELSE Refused(v, TRUE)
             bad == IF answer = "none" THEN id = "zero" ELSE id = "other"
         IN  /\ nat' = IF answer = "none" THEN n ELSE Answered(n, answer = "true")
             /\ v' = IF bad THEN Refused(w, TRUE) ELSE w
    /\ rpc' = "leave"
    /\ UNCHANGED <<cvars, requested, op, quota, suspended, task, world, count>>

EnqueueThrows ==
    /\ "throw" \in Hazards /\ rpc = "enqueue"
    /\ \E answered \in BOOLEAN :
         LET n == [nat EXCEPT !.resource = "Entered"] IN
         /\ nat' = IF answered THEN Answered(n, TRUE) ELSE n
         /\ v' = Excepted(IF answered THEN AnswerTrue(v) ELSE v)
    /\ rpc' = "unwind"
    /\ UNCHANGED <<cvars, requested, op, quota, suspended, task, world, count>>

\* ReleaseOwned in the __finally: the holder, or the slot that was never bound,
\* goes back once, unless the inverse cannot be proved or itself unwinds.
Owns == nat.resource \notin {"None", "Released"}
ReleaseOwned ==
    /\ rpc \in {"leave", "unwind"}
    /\ \/ ~Owns /\ UNCHANGED <<nat, v>>
       \/ Owns /\ v' = InverseLost(v) /\ nat' = nat
       \/ /\ Owns /\ nat.bind # "entered"
          /\ nat' = [nat EXCEPT !.resource = "Released"] /\ v' = v
    /\ IF rpc = "leave" THEN rpc' = "after" /\ quota' = quota
                        ELSE rpc' = "idle" /\ quota' = ReleaseCapture(quota)
    /\ UNCHANGED <<cvars, requested, op, suspended, task, world, count>>

\* It unwinds before the line that gives the credit back.
ReleaseThrows ==
    /\ "throw" \in Hazards /\ rpc \in {"leave", "unwind"}
    /\ Owns /\ nat.bind # "entered"
    /\ v' = Excepted(v) /\ rpc' = "idle"
    /\ UNCHANGED <<cvars, nat, requested, op, quota, suspended, task, world, count>>
-----------------------------------------------------------------------------
(* FinishSubmitted, FinishAccepted and the recreation.                     *)

\* The answer comes later, on the owner thread, between two visits.
FinishCallback ==
    /\ rpc = "idle" /\ opc = "idle" /\ ~v.terminal /\ v.phase = "FinishSubmitted"
    /\ \E good \in BOOLEAN :
         IF good /\ ~nat.observed
         THEN nat' = Answered(nat, TRUE) /\ v' = AnswerTrue(v)
         ELSE nat' = [nat EXCEPT !.observed = TRUE] /\ v' = Refused(v, TRUE)
    /\ UNCHANGED <<cvars, requested, op, rpc, quota, suspended, task, world, count>>

AwaitFinish ==
    /\ InPhase("FinishSubmitted")
    /\ \/ /\ LeaseMayHold(v)
          /\ v' = IF nat.observed /\ nat.accepted /\ nat.returned
                  THEN Transition(v, "FinishAccepted") ELSE v
          /\ UNCHANGED <<quota, transport>>
       \/ Refuses(TRUE)
    /\ rpc' = "after"
    /\ UNCHANGED <<cvars, nat, requested, op, suspended, task, late, foreign, count>>

\* On a later visit than the one that enqueued.
RecreateBegins ==
    /\ InPhase("FinishAccepted")
    /\ \/ /\ LeaseMayHold(v) /\ v' = Transition(v, "Recreating") /\ rpc' = "cleanup"
          /\ UNCHANGED <<quota, transport>>
       \/ Refuses(TRUE) /\ rpc' = "after"
    /\ UNCHANGED <<cvars, nat, requested, op, suspended, task, late, foreign, count>>

NextCreate == [cleanup |-> "start", start |-> "create", create |-> "guard",
               guard |-> "after"]
Recreate ==
    /\ rpc \in DOMAIN NextCreate
    /\ \/ /\ LeaseMayHold(v)
          /\ nat' = [nat EXCEPT !.create = IF rpc = "guard" THEN "installed" ELSE @]
          /\ rpc' = NextCreate[rpc] /\ UNCHANGED <<v, quota, transport>>
       \/ nat' = nat /\ Refuses(TRUE) /\ rpc' = "after"
    /\ UNCHANGED <<cvars, requested, op, suspended, task, late, foreign, count>>

RecreateThrows ==
    /\ "throw" \in Hazards /\ rpc \in DOMAIN NextCreate \ {"guard"}
    /\ v' = Excepted(v) /\ quota' = ReleaseCapture(quota) /\ rpc' = "idle"
    /\ UNCHANGED <<cvars, nat, requested, op, suspended, task, world, count>>

\* CreateSuccess: forwarded to the game's own callback at most once.
ForwardableAgain == nat.create \in {"installed", "returned"}      \* mutant
Forwardable == nat.create = "installed"

CreateCallback ==
    /\ rpc = "idle" /\ opc = "idle" /\ ~v.terminal /\ v.phase = "Recreating"
    /\ nat.create \in {"installed", "returned"}
    /\ \/ /\ Forwardable /\ LeaseMayHold(v)
          /\ v' = [v EXCEPT !.flags = @ \cup {"CreateObserved", "ForwardEntered"}]
          /\ nat' = [nat EXCEPT !.create = "forwarding"]
          /\ forwards' = forwards + 1 /\ rpc' = "forward" /\ transport' = transport
       \/ /\ v' = Refused(v, TRUE) /\ UNCHANGED <<nat, forwards, rpc, transport>>
       \/ LET seen == [v EXCEPT !.flags = @ \cup {"CreateObserved"}] IN
          /\ \/ v' = Refused(seen, TRUE) /\ transport' = transport
             \/ /\ "clock" \in Hazards
                /\ v' = Refused(ClockFault(seen), TRUE) /\ transport' = "Revoked"
          /\ UNCHANGED <<nat, forwards, rpc>>
    /\ UNCHANGED <<cvars, requested, op, quota, suspended, task, late, foreign, recipes>>

\* The game calls back again from inside the forwarded call.
NestedCallback ==
    /\ rpc = "forward" /\ ~v.terminal
    /\ v' = Refused(v, TRUE)
    /\ UNCHANGED <<cvars, nat, requested, op, rpc, quota, suspended, task, world, count>>

ForwardReturns ==
    /\ rpc = "forward" /\ rpc' = "idle"
    /\ nat' = [nat EXCEPT !.create = "returned"]
    /\ v' = [v EXCEPT !.flags = @ \cup {"ForwardDone"}]
    /\ UNCHANGED <<cvars, requested, op, quota, suspended, task, world, count>>

ForwardThrows ==
    /\ "throw" \in Hazards /\ rpc = "forward" /\ rpc' = "idle"
    /\ nat' = [nat EXCEPT !.create = "thrown"]
    /\ v' = Excepted(v)
    /\ UNCHANGED <<cvars, requested, op, quota, suspended, task, world, count>>

\* The new session is public once SDK, cache and a fresh heartbeat agree.
AwaitCreate ==
    /\ InPhase("Recreating")
    /\ \/ UNCHANGED <<v, quota, suspended, transport>>
       \/ /\ nat.create = "returned" /\ LeaseMayHold(v)
          /\ v' = Transition([v EXCEPT !.flags = @ \cup {"Published"}], "Published")
          /\ suspended' = FALSE /\ UNCHANGED <<quota, transport>>
       \/ nat.create = "returned" /\ Refuses(TRUE) /\ suspended' = suspended
    /\ rpc' = "after"
    /\ UNCHANGED <<cvars, nat, requested, op, task, late, foreign, count>>
-----------------------------------------------------------------------------
(* The metadata check of a published session.                              *)

Completed(w, coherent) ==
    LET x == [w EXCEPT !.flags = (@ \ (IF coherent THEN {"Unverified"} ELSE {})) \cup
                        {"Terminal", IF coherent THEN "Coherent" ELSE "Unverified"},
                       !.reason = "None", !.outcome = "NotDelivered"]
    IN  [Transition(x, "Observed") EXCEPT !.terminal = TRUE, !.final = TRUE]

\* A probe to be repeated leaves its reason in the status.
NotReady(w) == [w EXCEPT !.reason = "Other"]

\* MetadataInputs finds another session than the published one, or no clock.
InputsFault ==
    \/ /\ v' = Fault(v, "IdentityChanged", "Mechanics", TRUE)
       /\ UNCHANGED <<quota, transport>>
    \/ /\ "clock" \in Hazards
       /\ v' = ClockFault(v) /\ quota' = ReleaseCapture(quota) /\ transport' = "Revoked"

CheckMetadata ==
    /\ InPhase("Published")
    /\ \/ /\ v' \in {v, NotReady(v)}     \* not due yet, or inputs not ready yet
          /\ rpc' = "idle" /\ UNCHANGED <<nat, quota, transport>>
       \/ /\ \E coherent \in BOOLEAN : v' = Completed(v, coherent)
          /\ rpc' = "after" /\ UNCHANGED <<nat, quota, transport>>
       \/ InputsFault /\ rpc' = "after" /\ nat' = nat
       \/ /\ LeaseMayHold(v)
          /\ nat' = [nat EXCEPT !.head = "owned"] /\ rpc' = "update"
          /\ UNCHANGED <<v, quota, transport>>
       \/ /\ "throw" \in Hazards
          /\ v' = Excepted(v) /\ rpc' = "idle" /\ UNCHANGED <<nat, quota, transport>>
    /\ UNCHANGED <<cvars, requested, op, suspended, task, late, foreign, count>>

\* Fill, check again, update: each may stop the restoration or unwind.
UpdateMetadata ==
    /\ rpc = "update"
    /\ \/ v' = v /\ rpc' = "destroy" /\ UNCHANGED <<quota, transport>>
       \/ InputsFault /\ rpc' = "destroy"
       \/ /\ LeaseMayHold(v)
          /\ v' = [v EXCEPT !.flags = @ \cup {"Attempted"}] /\ rpc' = "destroyUpdated"
          /\ UNCHANGED <<quota, transport>>
       \/ /\ "throw" \in Hazards
          /\ \E f \in {{}, {"Attempted"}} :
               v' = Excepted([v EXCEPT !.flags = @ \cup f])
          /\ rpc' = "destroyUnwinding" /\ UNCHANGED <<quota, transport>>
    /\ UNCHANGED <<cvars, nat, requested, op, suspended, task, late, foreign, count>>

\* The property list that was built is destroyed once on every way out.
DestroyMetadata ==
    /\ rpc \in {"destroy", "destroyUpdated", "destroyUnwinding"}
    /\ \/ /\ v' = InverseLost(v) /\ nat' = nat
          /\ rpc' = IF rpc = "destroyUnwinding" THEN "idle" ELSE "after"
       \/ /\ nat' = [nat EXCEPT !.head = "none"]
          /\ v' = IF rpc = "destroy" /\ ~v.terminal THEN NotReady(v) ELSE v
          /\ rpc' = CASE rpc = "destroyUpdated" -> "recheck"
                      [] rpc = "destroy" /\ v.terminal -> "after"
                      [] OTHER -> "idle"
       \/ /\ rpc = "destroy" /\ ~v.terminal            \* past the metadata deadline
          /\ nat' = [nat EXCEPT !.head = "none"]
          /\ v' = Completed(v, FALSE) /\ rpc' = "after"
       \/ /\ "throw" \in Hazards
          /\ v' = Excepted(v) /\ rpc' = "idle" /\ nat' = [nat EXCEPT !.head = "lost"]
    /\ UNCHANGED <<cvars, requested, op, quota, suspended, task, world, count>>

RecheckMetadata ==
    /\ rpc = "recheck" /\ rpc' = "after"
    /\ \/ /\ \E coherent \in BOOLEAN : v' = Completed(v, coherent)
          /\ UNCHANGED <<quota, transport>>
       \/ InputsFault
    /\ UNCHANGED <<cvars, nat, requested, op, suspended, task, late, foreign, count>>
-----------------------------------------------------------------------------
(* The end of a visit.                                                     *)

EndVisit ==
    /\ rpc = "after"
    /\ IF v.terminal THEN rpc' = "terminal" /\ UNCHANGED <<v, quota>>
       ELSE /\ rpc' = "idle"
            /\ IF v.pending # <<>> /\ Flushes(v, quota)
               THEN v' = Flushed(v) /\ quota' = quota - Cardinality(Emitted(v))
               ELSE UNCHANGED <<v, quota>>
    /\ UNCHANGED <<cvars, nat, requested, op, suspended, task, world, count>>

\* RetryablePreflight: no trace of the recipe, and a rejection fully recorded.
RetryableTouched(w) ==                              \* mutant
    Schema = 2 /\ w.terminal /\ w.phase = "Rejected" /\ op > 0
RetryablePreflight(w) ==
    /\ Schema = 2 /\ nat = Untouched /\ ~foreign
    /\ w.flags \cap {"Recipe", "Exception", "Restart", "Published"} = {}
    /\ w.terminal /\ w.phase = "Rejected" /\ op > 0
    /\ w.outcome \in {"Mechanics", "Recording"}
    /\ w.reason \notin {"InvalidRequest", "ClockFault"}

FinishTerminal ==
    /\ rpc = "terminal"
    /\ \E credit, safe \in BOOLEAN :
         LET w1 == IF v.phase = TerminalPhase(v) THEN v
                   ELSE Transition([v EXCEPT !.flags = @ \cup {"Terminal"}], TerminalPhase(v))
             w2 == IF w1.exc /\ CaptureAdmission
                   THEN [Queue(w1, "Exception") EXCEPT !.exc = FALSE] ELSE w1
             w3 == IF w2.final THEN [Queue(w2, "Final") EXCEPT !.final = FALSE] ELSE w2
             q  == IF quota = NoQuota /\ w3.pending # <<>> /\ CaptureAdmission /\ credit
                   THEN Len(w3.pending) ELSE quota
             ok == Flushes(w3, q)
         IN  /\ v' = IF ok \/ transport = "Revoked" THEN Flushed(w3) ELSE w3
             /\ suspended' = StillSuspended(w3, safe)
             /\ IF /\ ok /\ CaptureAdmission /\ ~suspended'
                   /\ RetryablePreflight(w3) /\ C!ReleaseAllowed
                THEN opc' = "release" /\ rpc' = "release"
                ELSE opc' = opc /\ rpc' = "idle"
    /\ quota' = ReleaseCapture(quota)
    /\ UNCHANGED <<enabled, started, stop, result, latched, registration, wpc, verdict,
                   owner, served, spoiled, nat, requested, op, task, world, count>>

\* ReleasePreflightClaim's exchange; then the rejection may be retried.
GiveBack ==
    /\ rpc = "release" /\ rpc' = "idle"
    /\ C!ReleaseClaim
    /\ v' = [v EXCEPT !.flags = @ \cup {"Retryable"}]
    /\ UNCHANGED <<nat, requested, op, quota, suspended, task, world, count>>
-----------------------------------------------------------------------------
VisitNext ==
    \/ Continue \/ NewRequest \/ NoRequest
    \/ NotAdmitted \/ Qualify \/ QualifyingWaits \/ PreflightRefuses \/ SubmitFinish
    \/ RecipeReturns \/ RecipeRefused \/ RecipeThrows \/ Retire \/ Enqueue
    \/ EnqueueThrows \/ ReleaseOwned \/ ReleaseThrows
    \/ AwaitFinish \/ RecreateBegins \/ Recreate \/ RecreateThrows \/ AwaitCreate
    \/ ForwardReturns \/ ForwardThrows
    \/ CheckMetadata \/ UpdateMetadata \/ DestroyMetadata \/ RecheckMetadata
    \/ EndVisit \/ FinishTerminal \/ GiveBack
GameNext ==
    \/ FinishCallback \/ CreateCallback \/ NestedCallback \/ ForeignCallback
    \/ VisitUnsupported \/ PumpClockFails \/ TransportChanges

Next == Arm \/ ControlSteps \/ Tick \/ VisitNext \/ GameNext

\* The game keeps pumping with normal captures, whatever commands run between
\* two pumps, and time passes.  Nothing is assumed of the pipe's clients, of the
\* console's or of the game's callbacks.
CommandEnds == C!ConsoleClaims /\ UNCHANGED rvars

Spec == Init /\ [][Next]_vars
FairSpec == Spec /\ SF_vars(VisitNext) /\ WF_vars(Tick) /\ WF_vars(CommandEnds)
-----------------------------------------------------------------------------
(* Properties.                                                             *)

TypeOK ==
    /\ v \in [phase : Phases, terminal : BOOLEAN, final : BOOLEAN, exc : BOOLEAN,
              flags : SUBSET Flags,
              reason : {"None", "Other", "NativeException", "InverseUnavailable",
                        "IdentityChanged", "ClockFault", "InvalidRequest"},
              outcome : {"None", "Mechanics", "Recording", "NativeUnwind", "NotDelivered"},
              pending : Seq([event : {"Transition", "Exception", "Final"}, phase : Phases,
                             restart : BOOLEAN])]
    /\ nat.bind \in {"no", "entered", "done"} /\ nat.head \in {"none", "owned", "lost"}
    /\ nat.resource \in {"None", "Allocated", "Bound", "Entered", "Released"}
    /\ nat.create \in {"none", "installed", "forwarding", "returned", "thrown"}
    /\ op \in 0..MaxRequests /\ quota \in {NoQuota} \cup 0..RecordCap
    /\ recipes \in Nat /\ forwards \in Nat

\* A process enters one native recovery recipe in its life and forwards one
\* native success, whatever was rejected, retried, faulted or answered twice
\* before (RetryablePreflight, CreateSuccess).
NativeOnce == recipes <= 1 /\ forwards <= 1

\* Once the heartbeat may have been cancelled and no new session is public, the
\* ordinary binding stays off: nothing rebinds a wrapper to a dead task
\* (bindingSuspended in SubmitFinish, FinishTerminal and the unsupported visit).
CancelledStaysSuspended ==
    nat.cancel /\ "Published" \notin v.flags => suspended

\* An attempt that ended after its cancellation without a public session always
\* asks for the restart, by whichever of the many faults it ended; and, since
\* "publication is a positively observed local fact", after a publication only a
\* native unwind, a lost inverse or a changed identity asks for it (Fault).
RestartTold ==
    /\ v.terminal /\ nat.cancel /\ "Published" \notin v.flags => "Restart" \in v.flags
    /\ {"Published", "Restart"} \subseteq v.flags =>
           \/ "Exception" \in v.flags
           \/ v.reason \in {"IdentityChanged", "InverseUnavailable", "NativeException"}

\* Between visits nothing native is borrowed any more: a holder, a request slot
\* or a property list that could not be given back is reported by a restart.
NothingLeaks ==
    rpc = "idle" /\ (Owns \/ nat.head # "none") => "Restart" \in v.flags

\* A claim is given back only for an attempt that left no trace: no native call,
\* no credit, no unwritten record (RetryablePreflight, FinishTerminal).
RetryIsClean ==
    "Retryable" \in v.flags =>
        /\ nat = Untouched /\ recipes = 0 /\ ~suspended
        /\ quota = NoQuota /\ v.pending = <<>> /\ owner = "open"

\* The nine credits reserved on entry to the recipe pay for every record that
\* the attempt still queues, to its last one (Queue, Flush, ReserveCapture).
CreditSuffices ==
    /\ Len(v.pending) < RecordCap
    /\ quota # NoQuota => Len(v.pending) < quota

\* What Publish hands to the status page is what a reader of it accepts
\* (RecoveryPayloadValid): otherwise publication itself would be a fault.
PayloadValid ==
    /\ "ForwardDone" \in v.flags => "ForwardEntered" \in v.flags
    /\ "ForwardEntered" \in v.flags => "CreateObserved" \in v.flags
    /\ v.flags \cap {"Attempted", "Coherent", "Unverified"} # {} => "Published" \in v.flags
    /\ ~ {"Coherent", "Unverified"} \subseteq v.flags
    /\ "Console" \in v.flags => op > 0
    /\ "Retryable" \in v.flags =>
          /\ v.phase = "Rejected" /\ op > 0 /\ v.outcome \in {"Mechanics", "Recording"}
          /\ {"Enabled", "Terminal"} \subseteq v.flags
          /\ v.flags \subseteq {"Enabled", "Terminal", "Console", "Retryable"}

\* The recovery never fails by its own doing: its credit pays for its records,
\* and its status is one that a reader accepts (Queue, Publish).
SelfSufficient == TypeOK /\ CreditSuffices /\ PayloadValid

\* The recovery uses the control endpoint as LeechControl's owner may: it serves
\* what it read, and releases or spends exactly that.
ImplementsControl == C!Spec

\* Every attempt ends, and its credit comes back, even when the game never
\* answers: the deadlines are checked on every visit (ServiceLeechRecovery).
AttemptEnds ==
    /\ requested ~> v.terminal
    /\ quota # NoQuota ~> quota = NoQuota

\* A pipe request that found the latch free is served or visibly refused, also
\* after earlier ones were rejected and given back (RecoveryServiceDue).
PipeClaimConsumed ==
    (latched = "Pipe" /\ owner = "open") ~> (owner # "open" \/ op = MaxRequests)

\* "The single reader below either accepts the immutable claim or consumes an
\* invalid value visibly; do not strand a nonzero invalid claim in Armed
\* forever" (comment in RecoveryServiceDue): of any claim, the console's too.
ClaimConsumed ==
    (latched # "None" /\ owner = "open") ~> (owner # "open" \/ op = MaxRequests)
=============================================================================
