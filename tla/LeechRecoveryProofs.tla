------------------------- MODULE LeechRecoveryProofs -------------------------
(***************************************************************************)
(* What the recovery keeps for every record capacity from nine up, every   *)
(* number of requests, either schema, and whatever the game, the clock,    *)
(* other threads and the transport do (any set of Hazards).                *)
(*                                                                         *)
(* The invariant has three layers.  Sound speaks of the attempt alone: its *)
(* flags, blame, publication and queue agree, and its records stay within  *)
(* a budget of one per step, one last and one for an exception, which is   *)
(* eight at most.  Every operator on the attempt keeps it (FaultIsSound,   *)
(* ExceptionIsSound, MoveIsRecorded, CompletedIsSound, ...), at whatever   *)
(* place it is used.  Places, Phased and Lent say what the owner's place   *)
(* and the phase say of the game; FaultKeeps and ThrowKeeps show once for  *)
(* all calls that a fault or an exception leaves them.  OwnerThread ties   *)
(* the recovery to the endpoint whose owner it is.                         *)
(***************************************************************************)
EXTENDS LeechRecovery, FiniteSetTheorems, SequenceTheorems, TLAPS

\* Places of the owner: in the Finish recipe, its end, the recreation, the
\* metadata check.
RecipePlaces == Calls \cup {"retire", "enqueue"}
Leaving      == {"leave", "unwind"}
CreatePlaces == {"cleanup", "start", "create", "guard"}
Destroying   == {"destroy", "destroyUpdated", "destroyUnwinding"}
Metadata     == {"update", "recheck"} \cup Destroying
RPlaces == {"idle", "phase", "terminal", "after", "release", "forward"}
             \cup RecipePlaces \cup Leaving \cup CreatePlaces \cup Metadata
Ended == {"Observed", "Rejected", "Failed"}

Reasons  == {"None", "Other", "NativeException", "InverseUnavailable",
             "IdentityChanged", "ClockFault", "InvalidRequest"}
Outcomes == {"None", "Mechanics", "Recording", "NativeUnwind", "NotDelivered"}
Records  == [event : {"Transition", "Exception", "Final"}, phase : Phases, restart : BOOLEAN]
Attempts ==
    [phase : Phases, terminal : BOOLEAN, final : BOOLEAN, exc : BOOLEAN,
     flags : SUBSET Flags, reason : Reasons, outcome : Outcomes, pending : Seq(Records)]
NatStates ==
    [recipe : BOOLEAN, resource : {"None", "Allocated", "Bound", "Entered", "Released"},
     bind : {"no", "entered", "done"}, cancel : BOOLEAN, returned : BOOLEAN,
     observed : BOOLEAN, accepted : BOOLEAN,
     create : {"none", "installed", "forwarding", "returned", "thrown"},
     head : {"none", "owned", "lost"}]

\* How far the phases have come, in records since the recipe's credit was taken.
Step(w) ==
    IF "Recipe" \in w.flags
    THEN CASE w.phase = "FinishSubmitted" -> 1 [] w.phase = "FinishAccepted" -> 2
           [] w.phase = "Recreating" -> 3 [] w.phase = "Published" -> 4
           [] w.phase \in {"Observed", "Rejected"} -> 5 [] w.phase = "Failed" -> 6
           [] OTHER -> 0
    ELSE CASE w.phase = "Requested" -> 1 [] w.phase = "Qualifying" -> 2
           [] w.phase \in {"Observed", "Rejected"} -> 3 [] w.phase = "Failed" -> 4
           [] OTHER -> 0
\* Records queued and still to be queued: one per step, one Final, one Exception.
FinalDue(w) == IF w.final THEN 1 ELSE 0
ExcDue(w)   == IF w.exc THEN 1 ELSE 0
Over(w)   == IF w.terminal THEN 1 ELSE 0
Thrown(w) == IF "Exception" \in w.flags THEN 1 ELSE 0
Earned(w) == Step(w) + Over(w) + Thrown(w)
Budget(w) == Len(w.pending) + FinalDue(w) + ExcDue(w) <= Earned(w)

\* What the parts of an attempt say of each other, whatever was done to the game.
Told == {"IdentityChanged", "InverseUnavailable", "NativeException"}
Ends(w) ==
    /\ w.flags \cap {"Restart", "Exception", "Coherent"} # {} => w.terminal
    /\ w.final => w.terminal
    /\ w.exc => "Exception" \in w.flags
    /\ w.phase \in Ended => w.terminal /\ "Terminal" \in w.flags
    /\ w.phase = "Failed" => "Restart" \in w.flags
Blames(w) ==
    /\ w.outcome = "NativeUnwind" =>
          w.terminal /\ w.reason \in {"NativeException", "InverseUnavailable"}
    /\ w.terminal \/ w.reason \in {"None", "Other"}
    /\ {"Published", "Restart"} \subseteq w.flags => "Exception" \in w.flags \/ w.reason \in Told
Publishes(w) ==
    /\ w.phase \in {"Published", "Observed"} => "Published" \in w.flags
    /\ "Published" \in w.flags => w.phase \in {"Published", "Observed", "Failed"}
    /\ "ForwardDone" \in w.flags => "ForwardEntered" \in w.flags
    /\ "ForwardEntered" \in w.flags => "CreateObserved" \in w.flags
    /\ w.flags \cap {"Attempted", "Coherent", "Unverified"} # {} => "Published" \in w.flags
    /\ ~ {"Coherent", "Unverified"} \subseteq w.flags
Sound(w) == Ends(w) /\ Blames(w) /\ Publishes(w) /\ Budget(w)

WorldType ==
    /\ nat \in NatStates
    /\ requested \in BOOLEAN /\ op \in 0..MaxRequests /\ rpc \in RPlaces
    /\ quota \in {NoQuota} \cup 0..RecordCap
    /\ suspended \in BOOLEAN /\ task \in {"Armed", "Retired", "Inert"}
    /\ transport \in {"Running", "Gated", "Paused", "Revoked"}
    /\ late \in 0..2 /\ foreign \in BOOLEAN
    /\ recipes \in 0..1 /\ forwards \in 0..1

\* Before the first request.
Resting ==
    ~requested =>
        /\ v \in {Blank, [Blank EXCEPT !.phase = "Disabled", !.flags = {}]}
        /\ nat = Untouched /\ op = 0 /\ rpc = "idle" /\ quota = NoQuota
        /\ ~suspended /\ ~foreign /\ owner = "open"

\* The recipe is entered once, by the request that is spent on it; without it
\* the game is untouched.
RecipeOnce ==
    /\ nat.recipe => owner = "spent" /\ recipes = 1 /\ "Recipe" \in v.flags
    /\ ~nat.recipe =>
          nat = Untouched /\ recipes = 0 /\ quota = NoQuota /\ ~suspended /\ ~foreign
    /\ "Recipe" \in v.flags => nat.recipe
    /\ nat.cancel => nat.recipe
    /\ v.flags \cap {"Cancelled", "CreateObserved", "Published"} # {} => nat.recipe
    /\ forwards = 1 <=> nat.create \in {"forwarding", "returned", "thrown"}
    /\ rpc \in RecipePlaces \cup Leaving \cup CreatePlaces \cup Metadata \cup {"forward"} =>
          nat.recipe

\* The owner's thread: inside a release, a claim or a visit; who is served.
OwnerThread ==
    /\ opc \in {"idle", "claim", "release"} /\ owner \in {"open", "serving", "spent"}
    /\ verdict \notin {"Uninitialized", "Ready"}
    /\ opc = "release" <=> rpc = "release"
    /\ opc = "claim" => rpc = "idle"
    /\ requested => started
    /\ started => result # "Uninitialized"
    /\ requested /\ owner = "open" => "Retryable" \in v.flags
    /\ owner = "spent" => nat.recipe \/ op = 0 \/ stop \/ result # "Ready"
    /\ rpc = "release" => owner = "serving"
    /\ owner = "serving" => requested
    /\ requested /\ op > 0 => "Enabled" \in v.flags
    /\ "Console" \in v.flags => op > 0

\* Which phase the attempt is in at which place.
Places ==
    /\ rpc \in {"phase", "update", "destroyUpdated", "recheck"} \cup RecipePlaces \cup CreatePlaces =>
          ~v.terminal
    /\ rpc \in {"terminal", "release", "unwind", "destroyUnwinding"} => v.terminal
    /\ rpc \in Calls \cup {"retire"} => v.phase = "Qualifying" /\ ~nat.cancel
    /\ rpc \in {"verify", "cancel", "enqueue"} => suspended
    /\ rpc = "enqueue" => v.phase = "FinishSubmitted"
    /\ rpc = "leave" /\ ~v.terminal => v.phase = "FinishSubmitted"
    /\ rpc \in Leaving => v.phase \in {"Qualifying", "FinishSubmitted"}
    /\ rpc \in CreatePlaces => v.phase = "Recreating" /\ nat.create = "none"
    /\ rpc = "forward" =>
          /\ v.phase = "Recreating" /\ nat.create = "forwarding"
          /\ "ForwardEntered" \in v.flags
    /\ rpc \in Metadata => v.phase = "Published"
    /\ rpc \in Leaving \cup Destroying /\ "Exception" \in v.flags => v.exc
    /\ rpc = "forward" => "Exception" \notin v.flags

\* What a phase says of the game.
Phased ==
    /\ v.phase \in {"Disabled", "Armed", "Requested", "Qualifying", "FinishSubmitted",
                   "FinishAccepted"} => nat.create = "none"
    /\ v.phase \in {"FinishSubmitted", "FinishAccepted", "Recreating", "Published",
                   "Observed"} => nat.cancel
    /\ v.phase \in {"Disabled", "Armed", "Requested"} => ~nat.recipe
    /\ v.phase = "Qualifying" /\ ~v.terminal =>
          /\ v.pending = <<>>
          /\ nat.recipe => rpc \in Calls \cup {"retire"}

\* What may be lent, and who will give it back.
Lent ==
    /\ Owns => rpc \in RecipePlaces \cup Leaving \/ "Restart" \in v.flags
    /\ nat.head # "none" => rpc \in {"update"} \cup Destroying \/ "Restart" \in v.flags

\* An attempt that was cancelled asks for the restart when it ends.
RestartAsked ==
    v.terminal /\ nat.cancel /\ "Published" \notin v.flags => "Restart" \in v.flags

\* An attempt that may be given back, and one that was.
Returnable ==
    /\ rpc = "release" =>
          /\ RetryablePreflight(v) /\ "Terminal" \in v.flags
          /\ v.pending = <<>> /\ quota = NoQuota /\ ~suspended
    /\ "Retryable" \in v.flags =>
          /\ rpc = "idle" /\ requested /\ v.terminal /\ ~nat.recipe
          /\ v.pending = <<>> /\ owner = "open"
          /\ v.phase = "Rejected" /\ op > 0 /\ v.outcome \in {"Mechanics", "Recording"}
          /\ {"Enabled", "Terminal"} \subseteq v.flags
          /\ v.flags \subseteq {"Enabled", "Terminal", "Console", "Retryable"}

Paid == quota # NoQuota => quota - Len(v.pending) >= RecordCap - Step(v)

RInv ==
    /\ v \in Attempts /\ Sound(v) /\ WorldType
    /\ Resting /\ RecipeOnce /\ OwnerThread /\ Places /\ Phased /\ Lent
    /\ CancelledStaysSuspended /\ RestartAsked /\ Returnable /\ Paid
-----------------------------------------------------------------------------
(* The operators on the attempt.                                           *)

\* What a fault leaves of the attempt, and what it may add.
Faulted(w, x, restart) ==
    /\ x \in Attempts /\ Sound(x)
    /\ x.terminal /\ x.phase = w.phase /\ x.pending = w.pending /\ x.exc = w.exc
    /\ w.flags \subseteq x.flags /\ x.flags \subseteq w.flags \cup {"Restart", "Unverified"}
    /\ restart /\ "Published" \notin w.flags => "Restart" \in x.flags
    /\ Step(x) = Step(w)

\* The fields of an attempt have their types, and an attempt is those fields.
LEMMA Fields ==
    ASSUME NEW w \in Attempts
    PROVE  /\ w.phase \in Phases /\ w.terminal \in BOOLEAN /\ w.final \in BOOLEAN
           /\ w.exc \in BOOLEAN /\ w.flags \subseteq Flags /\ w.reason \in Reasons
           /\ w.outcome \in Outcomes /\ w.pending \in Seq(Records)
           /\ Len(w.pending) \in Nat /\ Step(w) \in 0..6
<1>1. /\ w.phase \in Phases /\ w.terminal \in BOOLEAN /\ w.final \in BOOLEAN
      /\ w.exc \in BOOLEAN /\ w.flags \subseteq Flags /\ w.reason \in Reasons
      /\ w.outcome \in Outcomes /\ w.pending \in Seq(Records)
  BY DEF Attempts
<1>2. Len(w.pending) \in Nat
  BY <1>1
<1>3. Step(w) \in 0..6
  BY DEF Step
<1>4. QED
  BY <1>1, <1>2, <1>3

\* The terms of the budget are numbers.
Bits(w) ==
    /\ Len(w.pending) \in Nat /\ Step(w) \in Nat /\ Step(w) <= 6
    /\ Over(w) \in 0..1 /\ Thrown(w) \in 0..1
    /\ FinalDue(w) \in 0..1 /\ ExcDue(w) \in 0..1

\* An attempt's terms are such numbers.
LEMMA BitsAreBits == ASSUME NEW w \in Attempts PROVE Bits(w)
  BY Fields DEF Bits, Over, Thrown, FinalDue, ExcDue

\* A fault keeps an attempt sound, whatever was blamed before it (Fault).
LEMMA FaultIsSound ==
    ASSUME NEW w \in Attempts, Sound(w), "Retryable" \notin w.flags,
           NEW reason \in Reasons \ {"None"}, NEW outcome \in Outcomes,
           NEW restart \in BOOLEAN,
           outcome = "NativeUnwind" => reason \in {"NativeException", "InverseUnavailable"},
           reason = "IdentityChanged" => ~w.terminal
    PROVE  Faulted(w, Fault(w, reason, outcome, restart), restart)
<1> DEFINE x == Fault(w, reason, outcome, restart)
           native == \/ reason \in {"NativeException", "InverseUnavailable", "IdentityChanged"}
                     \/ "Exception" \in w.flags \/ w.reason = "IdentityChanged"
                     \/ w.outcome = "NativeUnwind"
           label == \/ ~w.terminal \/ reason = "NativeException"
                    \/ reason = "InverseUnavailable" /\ "Exception" \notin w.flags
           again == restart /\ ~Spared(w, native)
           spared == Spared(w, native)
<1>1. /\ x.phase = w.phase /\ x.terminal = TRUE /\ x.exc = w.exc /\ x.pending = w.pending
      /\ x.final = (w.final \/ ~w.terminal)
      /\ x.flags = (w.flags \cup (IF again THEN {"Restart"} ELSE {}))
                      \cup (IF spared THEN Doubt(w) ELSE {})
      /\ x.reason = IF label THEN reason ELSE w.reason
      /\ x.outcome = IF ~label THEN w.outcome ELSE IF spared THEN "NotDelivered" ELSE outcome
  BY DEF Fault, Attempts
<1>2. x \in Attempts
  <2>1. /\ x.final \in BOOLEAN /\ x.flags \in SUBSET Flags /\ x.reason \in Reasons
        /\ x.outcome \in Outcomes
    <3>1. x.final \in BOOLEAN /\ x.reason \in Reasons /\ x.outcome \in Outcomes
      BY <1>1, Fields DEF Outcomes
    <3>2. {"Restart", "Unverified"} \subseteq Flags
      BY DEF Flags
    <3>3. QED
      BY <1>1, Fields, <3>1, <3>2 DEF Doubt
  <2>2. QED
    BY <2>1 DEF Fault, Attempts
<1> HIDE DEF x
<1>3. /\ w.flags \subseteq x.flags /\ x.flags \subseteq w.flags \cup {"Restart", "Unverified"}
      /\ "Exception" \in x.flags <=> "Exception" \in w.flags
      /\ "Recipe" \in x.flags <=> "Recipe" \in w.flags
  BY <1>1 DEF Doubt
<1>4. "Restart" \in x.flags => "Restart" \in w.flags \/ again
  BY <1>1 DEF Doubt
<1>5. restart /\ "Published" \notin w.flags => "Restart" \in x.flags
  BY <1>1 DEF Spared
<1>6. Ends(x)
  BY <1>1, <1>3, <1>2 DEF Sound, Ends
<1>7. Blames(x)
  <2>1. x.outcome = "NativeUnwind" => x.reason \in {"NativeException", "InverseUnavailable"}
    BY <1>1 DEF Sound, Blames
  <2>2. ASSUME {"Published", "Restart"} \subseteq x.flags
        PROVE  "Exception" \in x.flags \/ x.reason \in Told
    <3>1. "Published" \in w.flags
      BY <2>2, <1>3
    <3>2. CASE "Restart" \in w.flags
      BY <3>1, <3>2, <1>1, <1>3 DEF Sound, Blames, Ends, Told
    <3>3. CASE again
      BY <3>1, <3>3, <1>1, <1>3 DEF Sound, Blames, Ends, Told, Spared
    <3>4. QED
      BY <2>2, <1>4, <3>2, <3>3
  <2>3. QED
    BY <1>1, <2>1, <2>2 DEF Blames
<1>8. Publishes(x)
  BY <1>1, <1>3 DEF Sound, Publishes, Doubt, Spared
<1>9. Budget(x)
  <2>1. Step(x) = Step(w)
    BY <1>1, <1>3 DEF Step
  <2>2. Thrown(x) = Thrown(w) /\ ExcDue(x) = ExcDue(w) /\ Len(x.pending) = Len(w.pending)
    BY <1>1, <1>3 DEF Thrown, ExcDue
  <2>3. FinalDue(x) + Over(w) <= FinalDue(w) + Over(x)
    <3>1. Over(x) = 1
      BY <1>1 DEF Over
    <3>2. CASE w.terminal
      BY <3>1, <3>2, <1>1, Fields DEF Over, FinalDue
    <3>3. CASE ~w.terminal
      BY <3>1, <3>3, <1>1, Fields DEF Over, FinalDue
    <3>4. QED
      BY <3>2, <3>3
  <2>4. Budget(w) /\ Bits(w) /\ Bits(x)
    BY BitsAreBits, <1>2 DEF Sound
  <2>5. QED
    BY <2>1, <2>2, <2>3, <2>4 DEF Budget, Bits, Earned
<1>10. Step(x) = Step(w)
  BY <1>1, <1>3 DEF Step
<1>11. QED
  BY <1>1, <1>2, <1>3, <1>5, <1>6, <1>7, <1>8, <1>9, <1>10 DEF x, Sound, Faulted

\* A native exception that crossed us is a fault that always asks for the restart.
Threw(w, x) ==
    /\ x \in Attempts /\ Sound(x)
    /\ x.terminal /\ x.phase = w.phase /\ x.pending = w.pending /\ x.exc
    /\ w.flags \subseteq x.flags /\ {"Exception", "Restart"} \subseteq x.flags
    /\ x.flags \subseteq w.flags \cup {"Exception", "Restart"}
    /\ Step(x) = Step(w)

\* An exception keeps an attempt sound, and asks for the restart.
LEMMA ExceptionIsSound ==
    ASSUME NEW w \in Attempts, Sound(w), "Retryable" \notin w.flags,
           "Exception" \in w.flags => w.exc
    PROVE  Threw(w, Excepted(w))
<1> DEFINE x == Excepted(w)
<1>1. /\ x.phase = w.phase /\ x.terminal = TRUE /\ x.exc = TRUE /\ x.pending = w.pending
      /\ x.final = (w.final \/ ~w.terminal)
      /\ x.flags = w.flags \cup {"Exception", "Restart"}
      /\ x.reason = "NativeException" /\ x.outcome = "NativeUnwind"
  BY DEF Excepted, Fault, Spared, Attempts
<1>2. x \in Attempts
  <2>1. /\ x.final \in BOOLEAN /\ x.flags \in SUBSET Flags /\ x.reason \in Reasons
        /\ x.outcome \in Outcomes
    <3>1. x.final \in BOOLEAN
      BY <1>1, Fields
    <3>2. x.reason \in Reasons /\ x.outcome \in Outcomes /\ {"Restart", "Exception"} \subseteq Flags
      BY <1>1 DEF Flags, Reasons, Outcomes
    <3>3. QED
      BY <1>1, Fields, <3>1, <3>2
  <2>2. [w EXCEPT !.flags = @ \cup {"Exception"}, !.exc = TRUE] \in Attempts
    <3>1. w.flags \cup {"Exception"} \in SUBSET Flags
      BY Fields DEF Flags
    <3>2. QED
      BY <3>1 DEF Attempts
  <2>3. QED
    BY <2>1, <2>2 DEF Excepted, Fault, Attempts
<1> HIDE DEF x
<1>3. Ends(x)
  BY <1>1 DEF Sound, Ends
<1>4. Blames(x)
  BY <1>1 DEF Blames, Told
<1>5. Publishes(x)
  BY <1>1 DEF Sound, Publishes
<1>6. Budget(x)
  <2>1. Step(x) = Step(w) /\ Len(x.pending) = Len(w.pending)
    BY <1>1 DEF Step
  <2>2. FinalDue(x) + Over(w) <= FinalDue(w) + Over(x)
    <3>1. Over(x) = 1
      BY <1>1 DEF Over
    <3>2. CASE w.terminal
      BY <3>1, <3>2, <1>1, Fields DEF Over, FinalDue
    <3>3. CASE ~w.terminal
      BY <3>1, <3>3, <1>1, Fields DEF Over, FinalDue
    <3>4. QED
      BY <3>2, <3>3
  <2>3. ExcDue(x) + Thrown(w) <= ExcDue(w) + Thrown(x)
    BY <1>1 DEF ExcDue, Thrown
  <2>4. Budget(w) /\ Bits(w) /\ Bits(x)
    BY BitsAreBits, <1>2 DEF Sound
  <2>5. QED
    BY <2>1, <2>2, <2>3, <2>4, SMTT(30) DEF Budget, Bits, Earned
<1>7. Step(x) = Step(w)
  BY <1>1 DEF Step
<1>8. QED
  BY <1>1, <1>2, <1>3, <1>4, <1>5, <1>6, <1>7 DEF x, Sound, Threw

\* A change of phase is recorded: the queue always has room for it.
Moved(w, x, p) ==
    /\ x \in Attempts /\ Budget(x)
    /\ x.phase = p /\ Len(x.pending) = Len(w.pending) + 1 /\ x.pending # <<>>
    /\ x.terminal = w.terminal /\ x.final = w.final /\ x.exc = w.exc
    /\ x.flags = w.flags /\ x.reason = w.reason /\ x.outcome = w.outcome
    /\ Step(x) > Step(w)

\* There is room for whatever the budget still allows.
LEMMA Room == ASSUME NEW w \in Attempts, Budget(w) PROVE Len(w.pending) < RecordCap
  BY BitsAreBits, RecoveryAssumption, SMTT(30) DEF Budget, Bits, Earned

\* With room in the queue, a record is appended and nothing else changes (Queue).
LEMMA QueueAppends ==
    ASSUME NEW w \in Attempts, Len(w.pending) < RecordCap,
           NEW event \in {"Transition", "Exception", "Final"}
    PROVE  LET x == Queue(w, event) IN
           /\ x \in Attempts /\ Len(x.pending) = Len(w.pending) + 1 /\ x.pending # <<>>
           /\ x.phase = w.phase /\ x.terminal = w.terminal /\ x.final = w.final
           /\ x.exc = w.exc /\ x.flags = w.flags /\ x.reason = w.reason
           /\ x.outcome = w.outcome
<1> DEFINE r == [event |-> event, phase |-> w.phase, restart |-> "Restart" \in w.flags]
<1>1. Queue(w, event) = [w EXCEPT !.pending = Append(@, r)]
  <2>1. Len(w.pending) # RecordCap
    BY Fields, RecoveryAssumption
  <2>2. QED
    BY <2>1 DEF Queue
<1>2. r \in Records
  BY Fields DEF Records
<1> HIDE DEF r
<1>3. /\ Append(w.pending, r) \in Seq(Records) /\ Append(w.pending, r) # <<>>
      /\ Len(Append(w.pending, r)) = Len(w.pending) + 1
  BY Fields, <1>2, AppendProperties
<1>4. QED
  BY <1>1, <1>3 DEF Attempts

\* A new phase is a step of the budget, and its record uses it up (Transition).
LEMMA MoveIsRecorded ==
    ASSUME NEW w \in Attempts, Budget(w), NEW p \in Phases, p # w.phase,
           Step([w EXCEPT !.phase = p]) > Step(w)
    PROVE  Moved(w, Transition(w, p), p)
<1> DEFINE y == [w EXCEPT !.phase = p]
           x == Queue(y, "Transition")
<1>1. /\ y \in Attempts /\ y.phase = p /\ y.pending = w.pending /\ y.terminal = w.terminal
      /\ y.final = w.final /\ y.exc = w.exc /\ y.flags = w.flags /\ y.reason = w.reason
      /\ y.outcome = w.outcome
  BY DEF Attempts
<1>2. Transition(w, p) = x
  BY DEF Transition
<1>3. Step(y) > Step(w)
  OBVIOUS
<1> HIDE DEF y
<1>4. Len(y.pending) < RecordCap
  BY Room, <1>1
<1>5. /\ x \in Attempts /\ Len(x.pending) = Len(y.pending) + 1 /\ x.pending # <<>>
      /\ x.phase = y.phase /\ x.terminal = y.terminal /\ x.final = y.final
      /\ x.exc = y.exc /\ x.flags = y.flags /\ x.reason = y.reason
      /\ x.outcome = y.outcome
  BY QueueAppends, <1>1, <1>4
<1> HIDE DEF x
<1>6. Budget(x)
  <2>1. Step(x) = Step(y)
    BY <1>5 DEF Step
  <2>2. /\ Thrown(x) = Thrown(w) /\ ExcDue(x) = ExcDue(w) /\ FinalDue(x) = FinalDue(w)
        /\ Over(x) = Over(w)
    BY <1>1, <1>5 DEF Thrown, ExcDue, FinalDue, Over
  <2>3. Bits(w) /\ Bits(x) /\ Len(x.pending) = Len(w.pending) + 1
    BY BitsAreBits, <1>1, <1>5
  <2>4. QED
    BY <1>3, <2>1, <2>2, <2>3, SMTT(30) DEF Budget, Bits, Earned
<1>7. Step(x) = Step(y)
  BY <1>5 DEF Step
<1>8. QED
  BY <1>1, <1>2, <1>3, <1>5, <1>6, <1>7 DEF Moved
-----------------------------------------------------------------------------
(* The steps of a visit.                                                   *)

\* Refusals, with or without a failed clock behind them.
LEMMA RefusesFaults ==
    ASSUME v \in Attempts, Sound(v), "Retryable" \notin v.flags, nat.cancel \in BOOLEAN,
           NEW restart \in BOOLEAN, Refuses(restart)
    PROVE  /\ Faulted(v, v', restart)
           /\ quota' \in {quota, NoQuota} /\ transport' \in {transport, "Revoked"}
<1>1. \A w \in Attempts : Sound(w) /\ "Retryable" \notin w.flags =>
         Faulted(w, Refused(w, restart), restart)
  BY FaultIsSound DEF Refused, Reasons, Outcomes
<1>2. CASE v' = Refused(v, restart) /\ UNCHANGED <<quota, transport>>
  BY <1>1, <1>2
<1>3. CASE /\ v' = Refused(IF v.terminal THEN v ELSE ClockFault(v), restart)
           /\ quota' = ReleaseCapture(quota) /\ transport' = "Revoked"
  <2>1. quota' = NoQuota /\ transport' = "Revoked"
    BY <1>3 DEF ReleaseCapture
  <2>2. CASE v.terminal
    BY <1>1, <1>3, <2>1, <2>2
  <2>3. CASE ~v.terminal
    <3>1. Faulted(v, ClockFault(v), nat.cancel)
      BY FaultIsSound DEF ClockFault, Reasons, Outcomes
    <3>2. Faulted(ClockFault(v), v', restart)
      BY <1>1, <1>3, <2>3, <3>1 DEF Faulted
    <3>3. QED
      BY <2>1, <3>1, <3>2 DEF Faulted
  <2>4. QED
    BY <2>2, <2>3
<1>4. QED
  BY <1>2, <1>3 DEF Refuses

\* What the metadata check refuses: another session, or a failed clock.
LEMMA InputsFaults ==
    ASSUME v \in Attempts, Sound(v), "Retryable" \notin v.flags, nat.cancel \in BOOLEAN,
           ~v.terminal, InputsFault
    PROVE  /\ Faulted(v, v', FALSE)
           /\ quota' \in {quota, NoQuota} /\ transport' \in {transport, "Revoked"}
<1>1. CASE /\ v' = Fault(v, "IdentityChanged", "Mechanics", TRUE)
           /\ UNCHANGED <<quota, transport>>
  <2>1. Faulted(v, v', TRUE)
    BY <1>1, FaultIsSound DEF Reasons, Outcomes
  <2>2. QED
    BY <1>1, <2>1 DEF Faulted
<1>2. CASE v' = ClockFault(v) /\ quota' = ReleaseCapture(quota) /\ transport' = "Revoked"
  <2>1. Faulted(v, v', nat.cancel)
    BY <1>2, FaultIsSound DEF ClockFault, Reasons, Outcomes
  <2>2. QED
    BY <1>2, <2>1 DEF Faulted, ReleaseCapture
<1>3. QED
  BY <1>1, <1>2 DEF InputsFault

\* Wherever a visit or a callback stops at a fault, it leaves the invariant: the
\* fault asks for the restart unless nothing was cancelled or all is public.
LEMMA FaultKeeps ==
    ASSUME RInv, requested, NEW restart \in BOOLEAN, Faulted(v, v', restart),
           "Retryable" \notin v.flags,
           nat.cancel /\ "Published" \notin v.flags => restart \/ v.terminal,
           rpc \notin RecipePlaces \cup Leaving \cup {"release"},
           \/ rpc' \in {"after", "terminal"} /\ rpc \notin {"idle", "update"} \cup Destroying
           \/ rpc' = "destroy" /\ rpc = "update"
           \/ rpc' = rpc /\ rpc \in {"idle", "forward"},
           quota' \in {quota, NoQuota}, transport' \in {transport, "Revoked"},
           UNCHANGED <<opc, started, stop, result, owner, verdict, nat, requested, op,
                       suspended, task, late, foreign, count>>
    PROVE  RInv'
<1> USE DEF RecipePlaces, Leaving, Destroying, Calls, Following, CreatePlaces,
   Metadata, count
<1>1. v' \in Attempts /\ Sound(v')
  BY DEF Faulted
<1>2. WorldType'
  BY DEF RInv, WorldType, RPlaces
<1>3. Resting'
  BY DEF Resting
<1>4. RecipeOnce'
  BY DEF RInv, RecipeOnce, Faulted
<1>5. OwnerThread'
  BY DEF RInv, OwnerThread, Faulted
<1>6. Places'
  BY DEF RInv, Places, Faulted, Sound, Ends
<1>7. Phased'
  BY DEF RInv, Phased, Faulted
<1>8. Lent'
  BY DEF RInv, Lent, Faulted, Owns
<1>9. CancelledStaysSuspended'
  BY DEF RInv, CancelledStaysSuspended, Faulted
<1>10. RestartAsked'
  BY DEF RInv, RestartAsked, Faulted
<1>11. Returnable'
  BY DEF RInv, Returnable, Faulted
<1>12. Paid'
  BY DEF RInv, Paid, Faulted
<1>13. QED
  BY <1>1, <1>2, <1>3, <1>4, <1>5, <1>6, <1>7, <1>8, <1>9, <1>10, <1>11, <1>12 DEF RInv

\* An exception asks for the restart in any case, and the visit is over but for
\* what is still to be given back.
LEMMA ThrowKeeps ==
    ASSUME RInv, requested, "Retryable" \notin v.flags, NEW w \in Attempts, Threw(w, v'),
           w.phase = v.phase, w.pending = v.pending, v.flags \subseteq w.flags,
           w.flags \subseteq v.flags \cup {"Attempted", "Restart", "Unverified"},
           nat' \in NatStates, nat.recipe, nat'.recipe, nat.cancel => nat'.cancel,
           nat'.cancel => suspended \/ "Published" \in v.flags,
           nat'.create = nat.create \/ (rpc = "forward" /\ nat'.create = "thrown"),
           \/ rpc' = "idle" /\ rpc # "release"
           \/ rpc' = "unwind" /\ rpc \in RecipePlaces
           \/ rpc' = "destroyUnwinding" /\ rpc = "update",
           quota' \in {quota, NoQuota},
           UNCHANGED <<opc, started, stop, result, owner, verdict, requested, op, suspended,
                       task, transport, late, foreign, count>>
    PROVE  RInv'
<1> USE DEF RecipePlaces, Leaving, Destroying, Calls, Following, CreatePlaces,
   Metadata, count
<1>1. v' \in Attempts /\ Sound(v')
  BY DEF Threw
<1>2. WorldType'
  BY DEF RInv, WorldType, RPlaces
<1>3. Resting'
  BY DEF Resting
<1>4. RecipeOnce'
  BY DEF RInv, RecipeOnce, Threw, Places
<1>5. OwnerThread'
  BY DEF RInv, OwnerThread, Threw
<1>6. Places'
  BY DEF RInv, Places, Threw
<1>7. Phased'
  BY DEF RInv, Phased, Threw, Places
<1>8. Lent'
  BY DEF Lent, Threw
<1>9. CancelledStaysSuspended'
  BY DEF RInv, CancelledStaysSuspended, Threw
<1>10. RestartAsked'
  BY DEF RestartAsked, Threw
<1>11. Returnable'
  BY DEF Returnable, Threw
<1>12. Paid'
  <2>1. Step(v') = Step(v)
    BY DEF Threw, Step
  <2>2. QED
    BY <2>1 DEF RInv, Paid, Threw
<1>13. QED
  BY <1>1, <1>2, <1>3, <1>4, <1>5, <1>6, <1>7, <1>8, <1>9, <1>10, <1>11, <1>12 DEF RInv

\* What every step may use: inside a visit a request is being served.
LEMMA Basics ==
    ASSUME RInv
    PROVE  /\ v \in Attempts /\ Sound(v) /\ nat \in NatStates
           /\ nat.cancel \in BOOLEAN /\ v.terminal \in BOOLEAN /\ v.flags \subseteq Flags
           /\ v.phase \in Phases /\ Len(v.pending) \in Nat
           /\ rpc # "idle" => requested = TRUE /\ "Retryable" \notin v.flags
           /\ rpc \notin {"idle", "release"} => opc = "idle"
           /\ ~v.terminal => "Retryable" \notin v.flags
           /\ "Retryable" \in v.flags => ~nat.recipe /\ ~foreign
<1>1. v \in Attempts /\ Sound(v) /\ nat \in NatStates /\ nat.cancel \in BOOLEAN
  BY DEF RInv, WorldType, NatStates
<1>2. /\ v.terminal \in BOOLEAN /\ v.flags \subseteq Flags /\ v.phase \in Phases
      /\ Len(v.pending) \in Nat
  BY <1>1, Fields
<1>3. rpc # "idle" => requested = TRUE /\ "Retryable" \notin v.flags
  BY DEF RInv, WorldType, Resting, Returnable
<1>4. /\ rpc \notin {"idle", "release"} => opc = "idle"
      /\ ~v.terminal => "Retryable" \notin v.flags
      /\ "Retryable" \in v.flags => ~nat.recipe /\ ~foreign
  BY DEF RInv, OwnerThread, Returnable, RecipeOnce
<1>5. QED
  BY <1>1, <1>2, <1>3, <1>4

\* A record queued for a step made leaves the credit paying for the rest.
LEMMA StillPaid ==
    ASSUME RInv, quota' = quota, Len(v'.pending) = Len(v.pending) + 1,
           Step(v') \in Nat, Step(v') > Step(v)
    PROVE  Paid'
<1>1. /\ quota # NoQuota => quota - Len(v.pending) >= RecordCap - Step(v)
      /\ quota \in Int /\ RecordCap \in Int /\ Len(v.pending) \in Int /\ Step(v) \in Int
  BY Basics, Fields, RecoveryAssumption DEF RInv, Paid, WorldType, NoQuota
<1>2. QED
  BY <1>1 DEF Paid

\* A visit with the transport closed to it is a fault (NotAdmitted).
LEMMA NotAdmittedKeeps == ASSUME RInv, NotAdmitted PROVE RInv'
<1>1. Faulted(v, v', nat.cancel)
  BY Basics, FaultIsSound DEF NotAdmitted, Reasons, Outcomes
<1>2. QED
  BY <1>1, Basics, FaultKeeps
     DEF NotAdmitted, RecipePlaces, Leaving, Destroying, Calls, Following, cvars, world

\* Before the recipe nothing was cancelled: a refusal is a rejection.
LEMMA PreflightRefusesKeeps == ASSUME RInv, PreflightRefuses PROVE RInv'
<1>1. /\ Faulted(v, v', FALSE)
      /\ quota' \in {quota, NoQuota} /\ transport' \in {transport, "Revoked"}
  BY Basics, RefusesFaults DEF PreflightRefuses, InPhase
<1>2. ~nat.cancel
  BY DEF PreflightRefuses, InPhase, RInv, Phased, RecipeOnce, Places, RecipePlaces,
     Calls, Following
<1>3. QED
  BY <1>1, <1>2, Basics, FaultKeeps
     DEF PreflightRefuses, InPhase, RecipePlaces, Leaving, Destroying, Calls,
        Following, cvars

\* The game answers a visit from inside the forwarded call (NestedCallback).
LEMMA NestedCallbackKeeps == ASSUME RInv, NestedCallback PROVE RInv'
<1>1. Faulted(v, v', TRUE)
  BY Basics, FaultIsSound DEF NestedCallback, Refused, Reasons, Outcomes
<1>2. QED
  BY <1>1, Basics, FaultKeeps
     DEF NestedCallback, RecipePlaces, Leaving, Destroying, Calls, Following, cvars,
        world

\* The clock of the pump fails between two visits (AfterPump).
LEMMA PumpClockFailsKeeps == ASSUME RInv, PumpClockFails PROVE RInv'
<1>1. Faulted(v, v', nat.cancel)
  BY Basics, FaultIsSound DEF PumpClockFails, ClockFault, Reasons, Outcomes
<1>2. QED
  BY <1>1, Basics, FaultKeeps
     DEF PumpClockFails, RecipePlaces, Leaving, Destroying, Calls, Following, cvars,
        ReleaseCapture

\* Waiting changes nothing but the place (QualifyingWaits).
LEMMA QualifyingWaitsKeeps == ASSUME RInv, QualifyingWaits PROVE RInv'
<1> USE DEF RecipePlaces, Leaving, Destroying, Calls, Following, CreatePlaces,
   Metadata, cvars, world, count
<1>1. v' = v /\ rpc = "phase" /\ requested = TRUE /\ opc = "idle"
  BY Basics DEF QualifyingWaits, InPhase
<1>2. WorldType'
  BY <1>1, Basics DEF RInv, WorldType, RPlaces, QualifyingWaits
<1>3. Resting'
  BY <1>1, Basics DEF RInv, Resting, Untouched, QualifyingWaits
<1>4. RecipeOnce'
  BY <1>1, Basics DEF RInv, RecipeOnce, QualifyingWaits
<1>5. OwnerThread'
  BY <1>1, Basics DEF RInv, OwnerThread, QualifyingWaits
<1>6. Places'
  BY <1>1, Basics DEF RInv, Places, Phased, RecipeOnce, QualifyingWaits
<1>7. Phased'
  BY <1>1, Basics DEF RInv, Phased, Places, QualifyingWaits
<1>8. Lent'
  BY <1>1, Basics DEF RInv, Lent, Owns, QualifyingWaits
<1>9. CancelledStaysSuspended'
  BY <1>1, Basics DEF RInv, CancelledStaysSuspended, QualifyingWaits
<1>10. RestartAsked'
  BY <1>1, Basics DEF RInv, RestartAsked, QualifyingWaits
<1>11. Returnable'
  BY <1>1, Basics DEF RInv, Returnable, RetryablePreflight, Untouched, QualifyingWaits
<1>12. Paid'
  BY <1>1, Basics DEF RInv, Paid, QualifyingWaits
<1>13. QED
  BY <1>1, <1>2, <1>3, <1>4, <1>5, <1>6, <1>7, <1>8, <1>9, <1>10, <1>11, <1>12 DEF
     RInv

\* Time passes (Tick).
LEMMA TickKeeps == ASSUME RInv, Tick PROVE RInv'
<1> USE DEF RecipePlaces, Leaving, Destroying, Calls, Following, CreatePlaces,
   Metadata, cvars, world, count
<1>1. v' = v /\ requested = TRUE
  BY DEF Tick, RInv, WorldType
<1>2. WorldType'
  BY <1>1, Basics DEF RInv, WorldType, RPlaces, Tick
<1>3. Resting'
  BY <1>1, Basics DEF RInv, Resting, Untouched, Tick
<1>4. RecipeOnce'
  BY <1>1, Basics DEF RInv, RecipeOnce, Tick
<1>5. OwnerThread'
  BY <1>1, Basics DEF RInv, OwnerThread, Tick
<1>6. Places'
  BY <1>1, Basics DEF RInv, Places, Tick
<1>7. Phased'
  BY <1>1, Basics DEF RInv, Phased, Tick
<1>8. Lent'
  BY <1>1, Basics DEF RInv, Lent, Owns, Tick
<1>9. CancelledStaysSuspended'
  BY <1>1, Basics DEF RInv, CancelledStaysSuspended, Tick
<1>10. RestartAsked'
  BY <1>1, Basics DEF RInv, RestartAsked, Tick
<1>11. Returnable'
  BY <1>1, Basics DEF RInv, Returnable, RetryablePreflight, Untouched, Tick
<1>12. Paid'
  BY <1>1, Basics DEF RInv, Paid, Tick
<1>13. QED
  BY <1>1, <1>2, <1>3, <1>4, <1>5, <1>6, <1>7, <1>8, <1>9, <1>10, <1>11, <1>12 DEF
     RInv

\* The worker gates, the owner pauses, resumes or loses the transport.
LEMMA TransportChangesKeeps == ASSUME RInv, TransportChanges PROVE RInv'
<1> USE DEF RecipePlaces, Leaving, Destroying, Calls, Following, CreatePlaces,
   Metadata, cvars, world, count
<1>1. UNCHANGED <<cvars, v, nat, requested, op, rpc, quota, suspended, task, late,
                  foreign, count>>
  BY DEF TransportChanges
<1>2. WorldType'
  BY <1>1, Basics DEF RInv, WorldType, RPlaces, TransportChanges
<1>3. Resting'
  BY <1>1, Basics DEF RInv, Resting, Untouched, TransportChanges
<1>4. RecipeOnce'
  BY <1>1, Basics DEF RInv, RecipeOnce, TransportChanges
<1>5. OwnerThread'
  BY <1>1, Basics DEF RInv, OwnerThread, TransportChanges
<1>6. Places'
  BY <1>1, Basics DEF RInv, Places, TransportChanges
<1>7. Phased'
  BY <1>1, Basics DEF RInv, Phased, TransportChanges
<1>8. Lent'
  BY <1>1, Basics DEF RInv, Lent, Owns, TransportChanges
<1>9. CancelledStaysSuspended'
  BY <1>1, Basics DEF RInv, CancelledStaysSuspended, TransportChanges
<1>10. RestartAsked'
  BY <1>1, Basics DEF RInv, RestartAsked, TransportChanges
<1>11. Returnable'
  BY <1>1, Basics DEF RInv, Returnable, RetryablePreflight, Untouched, TransportChanges
<1>12. Paid'
  BY <1>1, Basics DEF RInv, Paid, TransportChanges
<1>13. QED
  BY <1>1, <1>2, <1>3, <1>4, <1>5, <1>6, <1>7, <1>8, <1>9, <1>10, <1>11, <1>12 DEF
     RInv

\* A foreign thread is noted (ForeignCallback).
LEMMA ForeignCallbackKeeps == ASSUME RInv, ForeignCallback PROVE RInv'
<1> USE DEF RecipePlaces, Leaving, Destroying, Calls, Following, CreatePlaces,
   Metadata, cvars, world, count
<1>1. /\ UNCHANGED <<cvars, v, nat, requested, op, rpc, quota, suspended, task,
                     transport, late, count>>
      /\ nat.recipe
  BY DEF ForeignCallback, RInv, RecipeOnce, Untouched
<1>2. WorldType'
  BY <1>1, Basics DEF RInv, WorldType, RPlaces, ForeignCallback
<1>3. Resting'
  BY <1>1, Basics DEF RInv, Resting, Untouched, ForeignCallback
<1>4. RecipeOnce'
  BY <1>1, Basics DEF RInv, RecipeOnce, ForeignCallback
<1>5. OwnerThread'
  BY <1>1, Basics DEF RInv, OwnerThread, ForeignCallback
<1>6. Places'
  BY <1>1, Basics DEF RInv, Places, ForeignCallback
<1>7. Phased'
  BY <1>1, Basics DEF RInv, Phased, ForeignCallback
<1>8. Lent'
  BY <1>1, Basics DEF RInv, Lent, Owns, ForeignCallback
<1>9. CancelledStaysSuspended'
  BY <1>1, Basics DEF RInv, CancelledStaysSuspended, ForeignCallback
<1>10. RestartAsked'
  BY <1>1, Basics DEF RInv, RestartAsked, ForeignCallback
<1>11. Returnable'
  BY <1>1, Basics DEF RInv, Returnable, RetryablePreflight, Untouched, ForeignCallback
<1>12. Paid'
  BY <1>1, Basics DEF RInv, Paid, ForeignCallback
<1>13. QED
  BY <1>1, <1>2, <1>3, <1>4, <1>5, <1>6, <1>7, <1>8, <1>9, <1>10, <1>11, <1>12 DEF
     RInv

-----------------------------------------------------------------------------
(* The Finish recipe.                                                      *)

\* What an exception needs to know: nothing unwound before it unreported.
LEMMA Uncaught ==
    ASSUME RInv, ~v.terminal \/ rpc \in {"forward"} \cup Leaving \cup Destroying
    PROVE  "Exception" \in v.flags => v.exc
  BY DEF RInv, Places, Sound, Ends, Leaving, Destroying

\* A native call of the recipe unwinds.
LEMMA RecipeThrowsKeeps == ASSUME RInv, RecipeThrows PROVE RInv'
<1> USE DEF RecipePlaces, Leaving, Destroying, Calls, Following
<1>1. ~v.terminal /\ nat.recipe
  BY DEF RecipeThrows, RInv, Places, RecipeOnce
<1>2. Threw(v, v')
  BY <1>1, Basics, Uncaught, ExceptionIsSound DEF RecipeThrows
<1>3. /\ nat' \in NatStates /\ nat'.recipe /\ (nat.cancel => nat'.cancel)
      /\ nat'.create = nat.create
  BY <1>1, Basics DEF RecipeThrows, Entered, NatStates
<1>4. nat'.cancel => suspended \/ "Published" \in v.flags
  BY Basics DEF RecipeThrows, Entered, RInv, NatStates, Places, CancelledStaysSuspended
<1>5. /\ requested /\ "Retryable" \notin v.flags /\ v \in Attempts
      /\ rpc' = "unwind" /\ rpc \in RecipePlaces /\ quota' \in {quota, NoQuota}
      /\ UNCHANGED <<opc, started, stop, result, owner, verdict, requested, op, suspended,
                     task, transport, late, foreign, count>>
  BY Basics DEF RecipeThrows, cvars, world
<1>6. QED
  BY <1>1, <1>2, <1>3, <1>4, <1>5, ThrowKeeps

\* The request's own call unwinds, with or without an answer inside it.
LEMMA EnqueueThrowsKeeps == ASSUME RInv, EnqueueThrows PROVE RInv'
<1> USE DEF RecipePlaces, Leaving, Destroying, Calls, Following
<1>1. ~v.terminal /\ nat.recipe /\ suspended /\ rpc = "enqueue" /\ rpc' = "unwind"
  BY DEF EnqueueThrows, RInv, Places, RecipeOnce
<1>2. PICK answered \in BOOLEAN :
        /\ nat' = LET n == [nat EXCEPT !.resource = "Entered"] IN
                  IF answered THEN Answered(n, TRUE) ELSE n
        /\ v' = Excepted(IF answered THEN AnswerTrue(v) ELSE v)
  BY DEF EnqueueThrows
<1>3. /\ nat' \in NatStates /\ nat'.recipe /\ (nat.cancel => nat'.cancel)
      /\ nat'.create = nat.create
  BY <1>1, <1>2, Basics DEF Answered, NatStates
<1>7. /\ requested /\ "Retryable" \notin v.flags /\ v \in Attempts
      /\ rpc' = "unwind" /\ rpc \in RecipePlaces /\ quota' \in {quota, NoQuota}
      /\ UNCHANGED <<opc, started, stop, result, owner, verdict, requested, op, suspended,
                     task, transport, late, foreign, count>>
  BY <1>1, Basics DEF EnqueueThrows, cvars, world
<1>4. CASE ~answered \/ late = 0
  <2>1. Threw(v, v')
    BY <1>1, <1>2, <1>4, Basics, Uncaught, ExceptionIsSound DEF AnswerTrue
  <2>2. QED
    BY <1>1, <1>3, <1>7, <2>1, ThrowKeeps
<1>5. CASE answered /\ late # 0
  <2> DEFINE w == Refused(v, TRUE)
  <2>1. Faulted(v, w, TRUE)
    BY Basics, <1>1, FaultIsSound DEF Refused, Reasons, Outcomes
  <2>2. v' = Excepted(w)
    BY <1>2, <1>5 DEF AnswerTrue
  <2> HIDE DEF w
  <2>3. Threw(w, v')
    BY <1>1, <2>1, <2>2, Basics, Uncaught, ExceptionIsSound DEF Faulted
  <2>4. QED
    BY <1>1, <1>3, <1>7, <2>1, <2>3, ThrowKeeps DEF Faulted
<1>6. QED
  BY <1>4, <1>5

\* A refused call leaves the recipe, with what it did to the game.
LEMMA RecipeRefusedKeeps == ASSUME RInv, RecipeRefused PROVE RInv'
<1> USE DEF RecipePlaces, Leaving, Destroying, Calls, Following, CreatePlaces,
   Metadata, cvars, world, count
<1>1. /\ rpc \in Calls /\ rpc' = "leave" /\ ~v.terminal
      /\ Faulted(v, v', rpc \in RestartOn)
      /\ quota' \in {quota, NoQuota} /\ transport' \in {transport, "Revoked"}
      /\ nat' \in NatStates /\ nat'.recipe /\ nat.recipe /\ requested
      /\ nat'.create = nat.create /\ nat'.head = nat.head
      /\ nat'.cancel <=> rpc = "cancel"
      /\ UNCHANGED <<cvars, requested, op, suspended, task, late, foreign, count>>
  <2>1. rpc \in Calls /\ rpc' = "leave" /\ ~v.terminal /\ nat.recipe /\ ~nat.cancel
    BY DEF RecipeRefused, RInv, Places, RecipeOnce
  <2>2. /\ Faulted(v, v', rpc \in RestartOn)
        /\ quota' \in {quota, NoQuota} /\ transport' \in {transport, "Revoked"}
    <3>1. (rpc \in RestartOn) \in BOOLEAN
      OBVIOUS
    <3>2. QED
      BY <2>1, <3>1, Basics, RefusesFaults DEF RecipeRefused
  <2>3. /\ nat' \in NatStates /\ nat'.recipe /\ nat'.create = nat.create
        /\ nat'.head = nat.head /\ (nat'.cancel <=> rpc = "cancel")
    BY <2>1, Basics, ZenonT(40) DEF RecipeRefused, Done, Entered, NatStates
  <2>4. requested /\ UNCHANGED <<cvars, requested, op, suspended, task, late, foreign, count>>
    BY <2>1, Basics DEF RecipeRefused
  <2>5. QED
    BY <2>1, <2>2, <2>3, <2>4
<1>2. WorldType'
  BY <1>1, Basics DEF RInv, WorldType, RPlaces
<1>2a. v' \in Attempts /\ Sound(v')
  BY <1>1 DEF Faulted
<1>3. Resting'
  BY <1>1, Basics DEF RInv, Resting, Untouched
<1>4. RecipeOnce'
  BY <1>1, Basics DEF RInv, RecipeOnce, Places, Faulted
<1>5. OwnerThread'
  BY <1>1, Basics DEF RInv, OwnerThread, Faulted
<1>6. Places'
  BY <1>1, Basics DEF RInv, Places, Faulted, Sound, Ends
<1>7. Phased'
  BY <1>1, Basics DEF RInv, Phased, Faulted, Places, RestartOn
<1>8. Lent'
  BY <1>1, Basics DEF RInv, Lent, Faulted, Places, Owns
<1>9. CancelledStaysSuspended'
  BY <1>1, Basics DEF RInv, CancelledStaysSuspended, Faulted, Places
<1>10. RestartAsked'
  BY <1>1, Basics DEF RInv, RestartAsked, Faulted, Places, RestartOn
<1>11. Returnable'
  BY <1>1, Basics DEF RInv, Returnable, Faulted, RetryablePreflight, Untouched
<1>12. Paid'
  BY <1>1, Basics DEF RInv, Paid, Faulted
<1>13. QED
  BY <1>1, <1>2, <1>2a, <1>3, <1>4, <1>5, <1>6, <1>7, <1>8, <1>9, <1>10, <1>11, <1>12
     DEF
     RInv

\* The heartbeat is retired, and the binding suspended (Retire).
LEMMA RetireKeeps == ASSUME RInv, Retire PROVE RInv'
<1> USE DEF RecipePlaces, Leaving, Destroying, Calls, Following, CreatePlaces,
   Metadata, cvars, world, count
<1>1. /\ rpc = "retire" /\ ~v.terminal /\ suspended' = TRUE /\ nat.recipe /\ ~nat.cancel
      /\ nat' = nat /\ requested /\ task' \in {"Armed", "Retired", "Inert"}
      /\ \/ v' = v /\ rpc' = "verify" /\ UNCHANGED <<quota, transport>>
         \/ /\ \E restart \in BOOLEAN : Faulted(v, v', restart)
            /\ rpc' = "leave"
            /\ quota' \in {quota, NoQuota} /\ transport' \in {transport, "Revoked"}
      /\ UNCHANGED <<cvars, requested, op, late, foreign, count>>
      /\ v' \in Attempts /\ Sound(v')
  <2>1. rpc = "retire" /\ ~v.terminal /\ nat.recipe /\ ~nat.cancel
    BY DEF Retire, RInv, Places, RecipeOnce
  <2>2. CASE task' = "Retired" /\ rpc' = "verify" /\ UNCHANGED <<v, quota, transport>>
    BY <2>1, <2>2, Basics DEF Retire
  <2>3. CASE /\ task' \in {"Armed", "Retired", "Inert"}
             /\ Refuses(task' = "Inert") /\ rpc' = "leave"
    <3>1. (task' = "Inert") \in BOOLEAN
      OBVIOUS
    <3>2. /\ \E restart \in BOOLEAN : Faulted(v, v', restart)
          /\ quota' \in {quota, NoQuota} /\ transport' \in {transport, "Revoked"}
      BY <2>1, <2>3, <3>1, Basics, RefusesFaults
    <3>3. v' \in Attempts /\ Sound(v')
      BY <3>2 DEF Faulted
    <3>4. QED
      BY <2>1, <2>3, <3>2, <3>3, Basics DEF Retire
  <2>4. QED
    BY <2>2, <2>3 DEF Retire
<1>2. WorldType'
  BY <1>1, Basics DEF RInv, WorldType, RPlaces
<1>3. Resting'
  BY <1>1, Basics DEF RInv, Resting, Untouched
<1>4. RecipeOnce'
  BY <1>1, Basics DEF RInv, RecipeOnce, Places, Faulted
<1>5. OwnerThread'
  BY <1>1, Basics DEF RInv, OwnerThread, Faulted
<1>6. Places'
  BY <1>1, Basics DEF RInv, Places, Faulted, Sound, Ends
<1>7. Phased'
  BY <1>1, Basics DEF RInv, Phased, Faulted, Places, RestartOn
<1>8. Lent'
  BY <1>1, Basics DEF RInv, Lent, Faulted, Places, Owns
<1>9. CancelledStaysSuspended'
  BY <1>1, Basics DEF RInv, CancelledStaysSuspended, Faulted, Places
<1>10. RestartAsked'
  BY <1>1, Basics DEF RInv, RestartAsked, Faulted, Places, RestartOn
<1>11. Returnable'
  BY <1>1, Basics DEF RInv, Returnable, Faulted, RetryablePreflight, Untouched
<1>12. Paid'
  BY <1>1, Basics DEF RInv, Paid, Faulted
<1>13. QED
  BY <1>1, <1>2, <1>3, <1>4, <1>5, <1>6, <1>7, <1>8, <1>9, <1>10, <1>11, <1>12 DEF
     RInv

\* A move between two phases of an attempt that is under way.
LEMMA MoveIsSound ==
    ASSUME NEW w \in Attempts, Ends(w), Blames(w), Publishes(w), "Published" \notin w.flags,
           NEW p \in Phases \ ({"Published"} \cup Ended), NEW x, Moved(w, x, p)
    PROVE  Sound(x)
<1>1. Ends(x)
  BY DEF Moved, Ends, Ended
<1>2. Blames(x)
  BY DEF Moved, Blames
<1>3. Publishes(x)
  BY DEF Moved, Publishes, Ended
<1>4. QED
  BY <1>1, <1>2, <1>3 DEF Moved, Sound

\* A call returns, and the next one follows; the cancellation is recorded.
LEMMA RecipeReturnsKeeps == ASSUME RInv, RecipeReturns PROVE RInv'
<1> USE DEF RecipePlaces, Leaving, Destroying, Calls, Following, CreatePlaces,
   Metadata, cvars, world, count
<1>1. /\ rpc \in Calls /\ ~v.terminal /\ nat.recipe /\ requested = TRUE /\ ~nat.cancel
      /\ nat' \in NatStates /\ nat'.recipe /\ nat'.create = nat.create /\ nat'.head = nat.head
      /\ nat'.cancel <=> rpc = "cancel"
      /\ UNCHANGED <<cvars, requested, op, quota, suspended, task, world, count>>
  <2>1. rpc \in Calls /\ ~v.terminal /\ nat.recipe /\ ~nat.cancel
    BY DEF RecipeReturns, RInv, Places, RecipeOnce
  <2>2. /\ nat' \in NatStates /\ nat'.recipe /\ nat'.create = nat.create
        /\ nat'.head = nat.head
        /\ nat'.cancel <=> rpc = "cancel"
    BY <2>1, Basics DEF RecipeReturns, Done, Entered, NatStates
  <2>3. QED
    BY <2>1, <2>2, Basics DEF RecipeReturns
<1>2. CASE rpc = "cancel"
  <2> DEFINE w == [v EXCEPT !.flags = @ \cup {"Cancelled"}]
  <2>1. /\ w \in Attempts /\ w.phase = v.phase /\ w.flags = v.flags \cup {"Cancelled"}
        /\ w.terminal = v.terminal /\ w.final = v.final /\ w.exc = v.exc
        /\ w.reason = v.reason /\ w.outcome = v.outcome /\ w.pending = v.pending
    <3>1. v.flags \cup {"Cancelled"} \in SUBSET Flags
      BY Basics DEF Flags
    <3>2. QED
      BY <3>1, Basics DEF Attempts
  <2>2. v' = Transition(w, "FinishSubmitted") /\ rpc' = IF v'.terminal THEN "leave" ELSE "enqueue"
    BY <1>2 DEF RecipeReturns
  <2>3. v.phase = "Qualifying" /\ "Recipe" \in v.flags
    BY <1>1 DEF RInv, Places, RecipeOnce
  <2>4. Step([w EXCEPT !.phase = "FinishSubmitted"]) > Step(w)
    <3>1. /\ [w EXCEPT !.phase = "FinishSubmitted"].phase = "FinishSubmitted"
          /\ [w EXCEPT !.phase = "FinishSubmitted"].flags = w.flags
      BY <2>1 DEF Attempts
    <3>2. QED
      BY <2>1, <2>3, <3>1 DEF Step
  <2> HIDE DEF w
  <2>5. Step(w) = Step(v) /\ Budget(w)
    BY <2>1, Basics DEF Step, Budget, Earned, FinalDue, ExcDue, Over, Thrown, Sound
  <2>6. Moved(w, v', "FinishSubmitted")
    BY <2>1, <2>2, <2>3, <2>4, <2>5, MoveIsRecorded DEF Phases
  <2>7. "Published" \notin v.flags
    BY <2>3, Basics DEF Sound, Publishes
  <2>8. Ends(w) /\ Blames(w) /\ Publishes(w)
    BY <2>1, <2>3, Basics DEF Sound, Ends, Blames, Publishes
  <2>9. v' \in Attempts /\ Sound(v')
    BY <2>1, <2>6, <2>7, <2>8, MoveIsSound DEF Moved, Phases, Ended
  <2>10. /\ v'.phase = "FinishSubmitted" /\ v'.flags = v.flags \cup {"Cancelled"}
         /\ v'.terminal = v.terminal /\ Len(v'.pending) = Len(v.pending) + 1
         /\ Step(v') > Step(v) /\ rpc' = "enqueue"
    BY <1>1, <2>1, <2>2, <2>5, <2>6 DEF Moved
  <2>11. Step(v) \in Nat /\ Step(v') \in Nat /\ Len(v.pending) \in Nat
    BY Basics, <2>9, Fields
  <2>12. WorldType'
    BY <1>1, <1>2, <2>3, <2>7, <2>10, Basics DEF RInv, WorldType, RPlaces
  <2>13. Resting'
    BY <1>1, <1>2, <2>3, <2>7, <2>10, Basics DEF RInv, Resting, Untouched
  <2>14. RecipeOnce'
    BY <1>1, <1>2, <2>3, <2>7, <2>10, Basics DEF RInv, RecipeOnce
  <2>15. OwnerThread'
    BY <1>1, <1>2, <2>3, <2>7, <2>10, Basics DEF RInv, OwnerThread
  <2>16. Places'
    BY <1>1, <1>2, <2>3, <2>7, <2>10, Basics DEF RInv, Places
  <2>17. Phased'
    BY <1>1, <1>2, <2>3, <2>7, <2>10, Basics DEF RInv, Phased, Places
  <2>18. Lent'
    BY <1>1, <1>2, <2>3, <2>7, <2>10, Basics DEF RInv, Lent, Places, Owns
  <2>19. CancelledStaysSuspended'
    BY <1>1, <1>2, <2>3, <2>7, <2>10, Basics DEF RInv, CancelledStaysSuspended, Places
  <2>20. RestartAsked'
    BY <1>1, <1>2, <2>3, <2>7, <2>10, Basics DEF RInv, RestartAsked
  <2>21. Returnable'
    BY <1>1, <1>2, <2>3, <2>7, <2>10, Basics DEF RInv, Returnable,
       RetryablePreflight, Untouched
  <2>22. Paid'
    BY <1>1, <2>10, <2>11, StillPaid
  <2>23. QED
    BY <2>9, <2>12, <2>13, <2>14, <2>15, <2>16, <2>17, <2>18, <2>19, <2>20, <2>21,
       <2>22 DEF RInv
<1>3. CASE rpc # "cancel"
  <2>1. v' = v /\ rpc' = Following[rpc] /\ rpc' \in RecipePlaces
    BY <1>1, <1>3 DEF RecipeReturns
  <2>2. rpc' \notin {"cancel", "enqueue"} \/ rpc = "verify"
    BY <1>1, <1>3, <2>1
  <2>3. rpc' # "verify"
    BY <1>1, <2>1
  <2>4. WorldType'
    BY <1>1, <1>3, <2>1, <2>2, <2>3, Basics DEF RInv, WorldType, RPlaces
  <2>5. Resting'
    BY <1>1, <1>3, <2>1, <2>2, <2>3, Basics DEF RInv, Resting, Untouched
  <2>6. RecipeOnce'
    BY <1>1, <1>3, <2>1, <2>2, <2>3, Basics DEF RInv, RecipeOnce
  <2>7. OwnerThread'
    BY <1>1, <1>3, <2>1, <2>2, <2>3, Basics DEF RInv, OwnerThread
  <2>8. Places'
    BY <1>1, <1>3, <2>1, <2>2, <2>3, Basics DEF RInv, Places
  <2>9. Phased'
    BY <1>1, <1>3, <2>1, <2>2, <2>3, Basics DEF RInv, Phased, Places
  <2>10. Lent'
    BY <1>1, <1>3, <2>1, <2>2, <2>3, Basics DEF RInv, Lent, Places, Owns
  <2>11. CancelledStaysSuspended'
    BY <1>1, <1>3, <2>1, <2>2, <2>3, Basics DEF RInv, CancelledStaysSuspended
  <2>12. RestartAsked'
    BY <1>1, <1>3, <2>1, <2>2, <2>3, Basics DEF RInv, RestartAsked
  <2>13. Returnable'
    BY <1>1, <1>3, <2>1, <2>2, <2>3, Basics DEF RInv, Returnable, RetryablePreflight,
       Untouched
  <2>14. Paid'
    BY <1>1, <1>3, <2>1, <2>2, <2>3, Basics DEF RInv, Paid
  <2>15. QED
    BY <2>1, Basics, <2>4, <2>5, <2>6, <2>7, <2>8, <2>9, <2>10, <2>11, <2>12, <2>13,
       <2>14 DEF RInv
<1>4. QED
  BY <1>2, <1>3

\* The request is handed over; the game may answer at once (Enqueue).
LEMMA EnqueueKeeps == ASSUME RInv, Enqueue PROVE RInv'
<1> USE DEF RecipePlaces, Leaving, Destroying, Calls, Following, CreatePlaces,
   Metadata, cvars, world, count
<1>1. /\ rpc = "enqueue" /\ rpc' = "leave" /\ ~v.terminal /\ nat.recipe /\ requested = TRUE
      /\ v' = v \/ Faulted(v, v', TRUE)
      /\ v' \in Attempts /\ Sound(v')
      /\ nat' \in NatStates /\ nat'.recipe /\ nat'.create = nat.create /\ nat'.head = nat.head
      /\ nat'.cancel = nat.cancel
      /\ UNCHANGED <<cvars, requested, op, quota, suspended, task, world, count>>
  <2>1. rpc = "enqueue" /\ rpc' = "leave" /\ ~v.terminal /\ nat.recipe
    BY DEF Enqueue, RInv, Places, RecipeOnce
  <2>2. Faulted(v, Refused(v, TRUE), TRUE)
    BY <2>1, Basics, FaultIsSound DEF Refused, Reasons, Outcomes
  <2>3. \A w \in Attempts : Faulted(v, w, TRUE) => Faulted(v, Refused(w, TRUE), TRUE)
    <3>1. SUFFICES ASSUME NEW w \in Attempts, Faulted(v, w, TRUE)
                   PROVE  Faulted(v, Refused(w, TRUE), TRUE)
      OBVIOUS
    <3>2. "Retryable" \notin w.flags /\ Sound(w)
      BY <2>1, <3>1, Basics DEF Faulted
    <3>3. Faulted(w, Refused(w, TRUE), TRUE)
      BY <3>2, FaultIsSound DEF Refused, Reasons, Outcomes
    <3>4. QED
      BY <3>1, <3>3 DEF Faulted
  <2>4. v' = v \/ Faulted(v, v', TRUE)
    <3>1. v' = v \/ v' = Refused(v, TRUE) \/ v' = Refused(Refused(v, TRUE), TRUE)
      BY DEF Enqueue, AnswerTrue
    <3>2. Refused(v, TRUE) \in Attempts
      BY <2>2 DEF Faulted
    <3>3. QED
      BY <2>2, <2>3, <3>1, <3>2
  <2>5. /\ nat' \in NatStates /\ nat'.recipe /\ nat'.create = nat.create
        /\ nat'.head = nat.head /\ nat'.cancel = nat.cancel
    <3> DEFINE n == [nat EXCEPT !.resource = "Entered", !.returned = TRUE]
    <3>1. nat' = n \/ \E good \in BOOLEAN : nat' = Answered(n, good)
      BY DEF Enqueue
    <3>2. CASE nat' = n
      BY <2>1, <3>2, Basics DEF NatStates
    <3>3. CASE \E good \in BOOLEAN : nat' = Answered(n, good)
      BY <2>1, <3>3, Basics DEF Answered, NatStates
    <3>4. QED
      BY <3>1, <3>2, <3>3
  <2>6. v' \in Attempts /\ Sound(v')
    BY <2>4, Basics DEF Faulted
  <2>7. requested = TRUE /\ UNCHANGED <<cvars, requested, op, quota, suspended, task, world, count>>
    BY <2>1, Basics DEF Enqueue
  <2>8. QED
    BY <2>1, <2>4, <2>5, <2>6, <2>7
<1>2. WorldType'
  BY <1>1, Basics DEF RInv, WorldType, RPlaces
<1>3. Resting'
  BY <1>1, Basics DEF RInv, Resting, Untouched
<1>4. RecipeOnce'
  BY <1>1, Basics DEF RInv, RecipeOnce, Places, Faulted
<1>5. OwnerThread'
  BY <1>1, Basics DEF RInv, OwnerThread, Faulted
<1>6. Places'
  BY <1>1, Basics DEF RInv, Places, Faulted, Sound, Ends
<1>7. Phased'
  BY <1>1, Basics DEF RInv, Phased, Faulted, Places
<1>8. Lent'
  BY <1>1, Basics DEF RInv, Lent, Faulted, Places, Owns
<1>9. CancelledStaysSuspended'
  BY <1>1, Basics DEF RInv, CancelledStaysSuspended, Faulted, Places
<1>10. RestartAsked'
  BY <1>1, Basics DEF RInv, RestartAsked, Faulted, Places
<1>11. Returnable'
  BY <1>1, Basics DEF RInv, Returnable, Faulted, RetryablePreflight, Untouched
<1>12. Paid'
  BY <1>1, Basics DEF RInv, Paid, Faulted
<1>13. QED
  BY <1>1, <1>2, <1>3, <1>4, <1>5, <1>6, <1>7, <1>8, <1>9, <1>10, <1>11, <1>12 DEF
     RInv

\* The holder or the slot is given back, or the restart asked for.
LEMMA ReleaseOwnedKeeps == ASSUME RInv, ReleaseOwned PROVE RInv'
<1> USE DEF RecipePlaces, Leaving, Destroying, Calls, Following, CreatePlaces,
   Metadata, cvars, world, count
<1>1. /\ rpc \in Leaving /\ nat.recipe /\ requested = TRUE /\ ~(rpc = "leave" /\ rpc' = "idle")
      /\ \/ ~Owns /\ v' = v /\ nat' = nat
         \/ Faulted(v, v', TRUE) /\ nat' = nat
         \/ v' = v /\ nat' = [nat EXCEPT !.resource = "Released"] /\ nat'.resource = "Released"
      /\ v' \in Attempts /\ Sound(v')
      /\ nat' \in NatStates /\ nat'.recipe /\ nat'.create = nat.create /\ nat'.head = nat.head
      /\ nat'.cancel = nat.cancel
      /\ \/ rpc = "leave" /\ rpc' = "after" /\ quota' = quota
         \/ rpc = "unwind" /\ rpc' = "idle" /\ quota' = NoQuota
      /\ UNCHANGED <<cvars, requested, op, suspended, task, world, count>>
  <2>1. rpc \in Leaving /\ nat.recipe
    BY DEF ReleaseOwned, RInv, RecipeOnce
  <2>2. Faulted(v, InverseLost(v), TRUE)
    BY <2>1, Basics, FaultIsSound DEF InverseLost, Reasons, Outcomes
  <2>3. \/ ~Owns /\ v' = v /\ nat' = nat
        \/ Faulted(v, v', TRUE) /\ nat' = nat
        \/ v' = v /\ nat' = [nat EXCEPT !.resource = "Released"]
    BY <2>2 DEF ReleaseOwned
  <2>4. v' \in Attempts /\ Sound(v')
    BY <2>3, Basics DEF Faulted
  <2>5. /\ nat' \in NatStates /\ nat'.recipe /\ nat'.create = nat.create
        /\ nat'.head = nat.head /\ nat'.cancel = nat.cancel
    BY <2>1, <2>3, Basics DEF NatStates
  <2>6. /\ requested = TRUE
        /\ \/ rpc = "leave" /\ rpc' = "after" /\ quota' = quota
           \/ rpc = "unwind" /\ rpc' = "idle" /\ quota' = NoQuota
        /\ UNCHANGED <<cvars, requested, op, suspended, task, world, count>>
    BY <2>1, Basics DEF ReleaseOwned, ReleaseCapture
  <2>7. nat' = [nat EXCEPT !.resource = "Released"] => nat'.resource = "Released"
    BY Basics DEF NatStates
  <2>8. QED
    BY <2>1, <2>3, <2>4, <2>5, <2>6, <2>7
<1>2. WorldType'
  BY <1>1, Basics DEF RInv, WorldType, RPlaces
<1>3. Resting'
  BY <1>1, Basics DEF RInv, Resting, Untouched
<1>4. RecipeOnce'
  BY <1>1, Basics DEF RInv, RecipeOnce, Places, Faulted
<1>5. OwnerThread'
  BY <1>1, Basics DEF RInv, OwnerThread, Faulted
<1>6. Places'
  BY <1>1, Basics DEF RInv, Places, Faulted, Sound, Ends
<1>7. Phased'
  BY <1>1, Basics DEF RInv, Phased, Faulted, Places
<1>8. Lent'
  BY <1>1, Basics DEF RInv, Lent, Faulted, Places, Sound, Publishes, Owns
<1>9. CancelledStaysSuspended'
  BY <1>1, Basics DEF RInv, CancelledStaysSuspended, Faulted, Places
<1>10. RestartAsked'
  BY <1>1, Basics DEF RInv, RestartAsked, Faulted, Places
<1>11. Returnable'
  BY <1>1, Basics DEF RInv, Returnable, Faulted, RetryablePreflight, Untouched
<1>12. Paid'
  BY <1>1, Basics DEF RInv, Paid, Faulted
<1>13. QED
  BY <1>1, <1>2, <1>3, <1>4, <1>5, <1>6, <1>7, <1>8, <1>9, <1>10, <1>11, <1>12 DEF
     RInv

\* Giving a holder back unwinds; the restart is asked for.
LEMMA ReleaseThrowsKeeps == ASSUME RInv, ReleaseThrows PROVE RInv'
<1>1. nat.recipe /\ rpc \in Leaving /\ rpc' = "idle"
  BY DEF ReleaseThrows, RInv, RecipeOnce, Leaving
<1>2. Threw(v, v')
  BY <1>1, Basics, Uncaught, ExceptionIsSound DEF ReleaseThrows, Leaving
<1>3. /\ nat' \in NatStates /\ nat'.recipe /\ (nat.cancel => nat'.cancel)
      /\ nat'.create = nat.create /\ (nat'.cancel => suspended \/ "Published" \in v.flags)
  BY <1>1, Basics DEF ReleaseThrows, RInv, CancelledStaysSuspended
<1>4. /\ requested /\ "Retryable" \notin v.flags /\ v \in Attempts
      /\ rpc' = "idle" /\ rpc # "release" /\ quota' \in {quota, NoQuota}
      /\ UNCHANGED <<opc, started, stop, result, owner, verdict, requested, op, suspended,
                     task, transport, late, foreign, count>>
  BY <1>1, Basics DEF ReleaseThrows, cvars, world, Leaving
<1>5. QED
  BY <1>1, <1>2, <1>3, <1>4, ThrowKeeps

-----------------------------------------------------------------------------
(* The phases after the claim, and after the recipe.                       *)

\* The queue is written out.
LEMMA FlushIsSound ==
    ASSUME NEW w \in Attempts, Sound(w)
    PROVE  LET x == Flushed(w) IN
           /\ x \in Attempts /\ Sound(x) /\ x.pending = <<>> /\ Step(x) = Step(w)
           /\ x.phase = w.phase /\ x.terminal = w.terminal /\ x.final = w.final
           /\ x.exc = w.exc /\ x.flags = w.flags /\ x.reason = w.reason
           /\ x.outcome = w.outcome
<1> DEFINE x == Flushed(w)
<1>1. /\ x \in Attempts /\ x.pending = <<>>
      /\ x.phase = w.phase /\ x.terminal = w.terminal /\ x.final = w.final
      /\ x.exc = w.exc /\ x.flags = w.flags /\ x.reason = w.reason
      /\ x.outcome = w.outcome
  <2>1. <<>> \in Seq(Records)
    BY EmptySeq
  <2>2. QED
    BY <2>1 DEF Flushed, Attempts
<1> HIDE DEF x
<1>2. Step(x) = Step(w)
  BY <1>1 DEF Step
<1>3. Ends(x) /\ Blames(x) /\ Publishes(x)
  BY <1>1 DEF Sound, Ends, Blames, Publishes
<1>4. Budget(x)
  <2>1. /\ Thrown(x) = Thrown(w) /\ ExcDue(x) = ExcDue(w) /\ FinalDue(x) = FinalDue(w)
        /\ Over(x) = Over(w) /\ Len(x.pending) = 0
    BY <1>1 DEF Thrown, ExcDue, FinalDue, Over
  <2>2. Budget(w) /\ Bits(w)
    BY BitsAreBits DEF Sound
  <2>3. QED
    BY <1>2, <2>1, <2>2 DEF Budget, Bits, Earned
<1>5. QED
  BY <1>1, <1>2, <1>3, <1>4 DEF Sound, x

\* The claim is recorded and the qualification begun (Qualify).
LEMMA QualifyKeeps == ASSUME RInv, Qualify PROVE RInv'
<1> USE DEF RecipePlaces, Leaving, Destroying, Calls, Following, CreatePlaces,
   Metadata, cvars, world, count
<1>1. /\ rpc = "phase" /\ v.phase = "Requested" /\ ~nat.recipe /\ requested = TRUE /\ opc = "idle"
      /\ v' \in Attempts /\ Sound(v')
      /\ v'.phase \in {"Requested", "Qualifying"}
      /\ v.flags \subseteq v'.flags /\ v'.flags \subseteq v.flags \cup {"Restart", "Unverified"}
      /\ \/ ~v'.terminal /\ v'.pending = <<>> /\ rpc' = "idle"
         \/ v'.terminal /\ rpc' = "terminal"
      /\ UNCHANGED <<cvars, nat, requested, op, quota, suspended, task, world, count>>
  <2> DEFINE f == Flushed(v)
             next == Transition(f, "Qualifying")
  <2>1. rpc = "phase" /\ v.phase = "Requested" /\ ~nat.recipe /\ ~v.terminal
    BY DEF Qualify, InPhase, RInv, Phased, Places
  <2>2. "Recipe" \notin v.flags
    BY <2>1 DEF RInv, RecipeOnce
  <2>3. /\ f \in Attempts /\ Sound(f) /\ f.phase = v.phase /\ f.flags = v.flags
        /\ ~f.terminal
    BY <2>1, Basics, FlushIsSound
  <2>4. Step([f EXCEPT !.phase = "Qualifying"]) > Step(f)
    <3>1. /\ [f EXCEPT !.phase = "Qualifying"].phase = "Qualifying"
          /\ [f EXCEPT !.phase = "Qualifying"].flags = f.flags
      BY <2>3 DEF Attempts
    <3>2. QED
      BY <2>1, <2>2, <2>3, <3>1 DEF Step
  <2> HIDE DEF f
  <2>5. Moved(f, next, "Qualifying")
    BY <2>1, <2>3, <2>4, MoveIsRecorded DEF Sound, Phases
  <2>6. "Published" \notin f.flags
    BY <2>1, <2>3 DEF Sound, Publishes
  <2> HIDE DEF next
  <2>7. next \in Attempts /\ Sound(next) /\ next.phase = "Qualifying" /\ next.flags = v.flags
        /\ ~next.terminal
    BY <2>3, <2>5, <2>6, MoveIsSound DEF Moved, Sound, Phases, Ended
  <2>8. CASE v' = Flushed(next) /\ rpc' = "idle"
    BY <2>1, <2>7, <2>8, Basics, FlushIsSound DEF Qualify
  <2>9. ASSUME NEW w \in {v, next}, v' = Refused(w, FALSE), rpc' = "terminal"
        PROVE  /\ Faulted(w, v', FALSE) /\ w.phase \in {"Requested", "Qualifying"}
               /\ w.flags = v.flags
    <3>1. w \in Attempts /\ Sound(w) /\ "Retryable" \notin w.flags
      BY <2>1, <2>7, Basics
    <3>2. QED
      BY <2>1, <2>7, <2>9, <3>1, FaultIsSound DEF Refused, Reasons, Outcomes
  <2>10. (v' = Flushed(next) /\ rpc' = "idle")
           \/ \E w \in {v, next} : v' = Refused(w, FALSE) /\ rpc' = "terminal"
    BY DEF Qualify, next, f
  <2>11. CASE \E w \in {v, next} : v' = Refused(w, FALSE) /\ rpc' = "terminal"
    BY <2>1, <2>9, <2>11, Basics DEF Qualify, Faulted
  <2>12. QED
    BY <2>8, <2>10, <2>11
<1>2. WorldType'
  BY <1>1, Basics DEF RInv, WorldType, RPlaces
<1>3. Resting'
  BY <1>1, Basics DEF RInv, Resting, Untouched
<1>4. RecipeOnce'
  BY <1>1, Basics DEF RInv, RecipeOnce, Places, Faulted
<1>5. OwnerThread'
  BY <1>1, Basics DEF RInv, OwnerThread, Faulted
<1>6. Places'
  BY <1>1, Basics DEF RInv, Places, RecipeOnce
<1>7. Phased'
  BY <1>1, Basics DEF RInv, Phased, RecipeOnce, Untouched
<1>8. Lent'
  BY <1>1, Basics DEF RInv, Lent, RecipeOnce, Untouched, Owns
<1>9. CancelledStaysSuspended'
  BY <1>1, Basics DEF RInv, CancelledStaysSuspended, RecipeOnce
<1>10. RestartAsked'
  BY <1>1, Basics DEF RInv, RestartAsked, RecipeOnce
<1>11. Returnable'
  BY <1>1, Basics DEF RInv, Returnable, RetryablePreflight, Untouched
<1>12. Paid'
  BY <1>1, Basics DEF RInv, Paid, RecipeOnce
<1>13. QED
  BY <1>1, <1>2, <1>3, <1>4, <1>5, <1>6, <1>7, <1>8, <1>9, <1>10, <1>11, <1>12 DEF
     RInv

\* The recipe is entered, once, on credit of its own (SubmitFinish).
LEMMA SubmitFinishKeeps == ASSUME RInv, SubmitFinish PROVE RInv'
<1> USE DEF RecipePlaces, Leaving, Destroying, Calls, Following, CreatePlaces,
   Metadata, cvars, world, count
<1>1. /\ rpc = "phase" /\ v.phase = "Qualifying" /\ ~v.terminal /\ requested = TRUE
      /\ ~nat.recipe /\ nat = Untouched /\ owner = "serving" /\ owner' = "spent"
      /\ nat' = [Untouched EXCEPT !.recipe = TRUE] /\ nat' \in NatStates
      /\ v' \in Attempts /\ Sound(v') /\ v'.flags = v.flags \cup {"Recipe"}
      /\ v'.phase = v.phase /\ ~v'.terminal /\ v'.pending = <<>> /\ v'.exc = v.exc
      /\ Step(v') = 0 /\ Len(v'.pending) = 0 /\ recipes = 0
      /\ quota' = RecordCap /\ recipes' = recipes + 1 /\ rpc' = "type" /\ opc' = opc
      /\ UNCHANGED <<enabled, started, stop, result, latched, registration, wpc, verdict,
                     spoiled, served, requested, op, suspended, task, world, forwards>>
  <2>1. rpc = "phase" /\ v.phase = "Qualifying" /\ ~v.terminal /\ v.pending = <<>>
    BY DEF SubmitFinish, InPhase, RInv, Phased, Places
  <2>2. ~nat.recipe /\ nat = Untouched /\ "Recipe" \notin v.flags
    BY <2>1 DEF RInv, Phased, RecipeOnce
  <2>3. /\ v' \in Attempts /\ v'.flags = v.flags \cup {"Recipe"} /\ v'.phase = v.phase
        /\ v'.terminal = v.terminal /\ v'.pending = <<>> /\ v'.exc = v.exc
        /\ v'.final = v.final /\ v'.reason = v.reason /\ v'.outcome = v.outcome
    <3>1. v.flags \cup {"Recipe"} \in SUBSET Flags
      BY Basics DEF Flags
    <3>2. QED
      BY <2>1, <3>1, Basics DEF SubmitFinish, Attempts
  <2>4. Ends(v') /\ Blames(v') /\ Publishes(v')
    BY <2>1, <2>3, Basics DEF Sound, Ends, Blames, Publishes
  <2>5. Budget(v')
    <3>1. ~v'.final /\ ~v'.exc /\ Step(v') = 0 /\ Len(v'.pending) = 0
      BY <2>1, <2>3, <2>4 DEF Ends, Step
    <3>2. FinalDue(v') = 0 /\ ExcDue(v') = 0
      BY <3>1 DEF FinalDue, ExcDue
    <3>3. Bits(v')
      BY <2>3, BitsAreBits
    <3>4. QED
      BY <3>1, <3>2, <3>3 DEF Budget, Earned, Bits
  <2>6. nat' = [Untouched EXCEPT !.recipe = TRUE] /\ nat' \in NatStates
    BY <2>2 DEF SubmitFinish, Untouched, NatStates
  <2>7. /\ owner = "serving" /\ owner' = "spent" /\ quota' = RecordCap
        /\ recipes' = recipes + 1 /\ rpc' = "type" /\ opc' = opc
        /\ UNCHANGED <<enabled, started, stop, result, latched, registration, wpc, verdict,
                       spoiled, served, requested, op, suspended, task, world, forwards>>
    BY DEF SubmitFinish, C!SpendRequest, C!control, C!worker, RecipeCredit
  <2>8. Step(v') = 0 /\ Len(v'.pending) = 0
    BY <2>1, <2>3 DEF Step
  <2>9. recipes = 0
    BY <2>2 DEF RInv, RecipeOnce
  <2>10. QED
    BY <2>1, <2>2, <2>3, <2>4, <2>5, <2>6, <2>7, <2>8, <2>9, Basics DEF Sound
<1>2. WorldType'
  BY <1>1, Basics, RecoveryAssumption DEF RInv, WorldType, RPlaces
<1>3. Resting'
  BY <1>1, Basics DEF RInv, Resting, Untouched
<1>4. RecipeOnce'
  BY <1>1, Basics DEF RInv, RecipeOnce, Untouched
<1>5. OwnerThread'
  BY <1>1, Basics DEF RInv, OwnerThread, Faulted
<1>6. Places'
  BY <1>1, Basics DEF RInv, Places, Untouched, Sound, Ends
<1>7. Phased'
  BY <1>1, Basics DEF RInv, Phased, Untouched
<1>8. Lent'
  BY <1>1, Basics DEF RInv, Lent, Untouched, Owns
<1>9. CancelledStaysSuspended'
  BY <1>1, Basics DEF RInv, CancelledStaysSuspended, Untouched
<1>10. RestartAsked'
  BY <1>1, Basics DEF RInv, RestartAsked, Untouched
<1>11. Returnable'
  BY <1>1, Basics DEF RInv, Returnable, RetryablePreflight, Untouched
<1>12. Paid'
  BY <1>1, RecoveryAssumption DEF Paid
<1>13. QED
  BY <1>1, <1>2, <1>3, <1>4, <1>5, <1>6, <1>7, <1>8, <1>9, <1>10, <1>11, <1>12 DEF
     RInv

\* The game answers between two visits (FinishObservation).
LEMMA FinishCallbackKeeps == ASSUME RInv, FinishCallback PROVE RInv'
<1> USE DEF RecipePlaces, Leaving, Destroying, Calls, Following, CreatePlaces,
   Metadata, cvars, world, count
<1>1. /\ rpc = "idle" /\ ~v.terminal /\ v.phase = "FinishSubmitted" /\ requested = TRUE
      /\ nat.recipe /\ nat.cancel /\ rpc' = rpc /\ "Retryable" \notin v.flags
      /\ v' = v \/ Faulted(v, v', TRUE)
      /\ v' \in Attempts /\ Sound(v')
      /\ nat' \in NatStates /\ nat'.recipe /\ nat'.create = nat.create /\ nat'.head = nat.head
      /\ nat'.cancel = nat.cancel /\ nat'.resource = nat.resource
      /\ UNCHANGED <<cvars, requested, op, quota, suspended, task, world, count>>
  <2>1. /\ rpc = "idle" /\ ~v.terminal /\ v.phase = "FinishSubmitted" /\ nat.recipe
        /\ nat.cancel
    BY DEF FinishCallback, RInv, Phased, RecipeOnce
  <2>2. requested = TRUE
    BY <2>1 DEF RInv, WorldType, Resting, Untouched
  <2>3. Faulted(v, Refused(v, TRUE), TRUE)
    BY <2>1, Basics, FaultIsSound DEF Refused, Reasons, Outcomes
  <2>4. v' = v \/ Faulted(v, v', TRUE)
    BY <2>3 DEF FinishCallback, AnswerTrue
  <2>5. v' \in Attempts /\ Sound(v')
    BY <2>4, Basics DEF Faulted
  <2>6. /\ nat' \in NatStates /\ nat'.recipe /\ nat'.create = nat.create
        /\ nat'.head = nat.head /\ nat'.cancel = nat.cancel /\ nat'.resource = nat.resource
    BY <2>1, Basics, ZenonT(40) DEF FinishCallback, Answered, NatStates
  <2>7. UNCHANGED <<cvars, requested, op, quota, suspended, task, world, count>> /\ rpc' = rpc
    BY DEF FinishCallback
  <2>8. QED
    BY <2>1, <2>2, <2>4, <2>5, <2>6, <2>7, Basics
<1>2. WorldType'
  BY <1>1, Basics DEF RInv, WorldType, RPlaces
<1>3. Resting'
  BY <1>1, Basics DEF RInv, Resting, Untouched
<1>4. RecipeOnce'
  BY <1>1, Basics DEF RInv, RecipeOnce, Places, Faulted
<1>5. OwnerThread'
  BY <1>1, Basics DEF RInv, OwnerThread, Faulted
<1>6. Places'
  BY <1>1, Basics DEF RInv, Places, Faulted, Sound, Ends
<1>7. Phased'
  BY <1>1, Basics DEF RInv, Phased, Faulted, Places
<1>8. Lent'
  BY <1>1, Basics DEF RInv, Lent, Faulted, Places, Owns
<1>9. CancelledStaysSuspended'
  BY <1>1, Basics DEF RInv, CancelledStaysSuspended, Faulted, Places, Phased
<1>10. RestartAsked'
  BY <1>1, Basics DEF RInv, RestartAsked, Faulted, Places
<1>11. Returnable'
  BY <1>1, Basics DEF RInv, Returnable, Faulted, RetryablePreflight, Untouched
<1>12. Paid'
  BY <1>1, Basics DEF RInv, Paid, Faulted
<1>13. QED
  BY <1>1, <1>2, <1>3, <1>4, <1>5, <1>6, <1>7, <1>8, <1>9, <1>10, <1>11, <1>12 DEF
     RInv

\* A phase follows the one before it, once its deadline and lease allow it.
LEMMA MoveKeeps ==
    ASSUME RInv, NEW p \in {"FinishAccepted", "Recreating"}, Moved(v, v', p),
           rpc = "phase", nat.recipe, nat.cancel, nat.create = "none",
           "Published" \notin v.flags,
           rpc' = "after" \/ (rpc' = "cleanup" /\ p = "Recreating"),
           UNCHANGED <<opc, started, stop, result, owner, verdict, nat, requested, op,
                       quota, suspended, task, transport, late, foreign, count>>
    PROVE  RInv'
<1> USE DEF RecipePlaces, Leaving, Destroying, Calls, Following, CreatePlaces,
   Metadata, count
<1>1. /\ v' \in Attempts /\ Sound(v') /\ Step(v') > Step(v) /\ v'.phase = p
      /\ v'.flags = v.flags /\ v'.terminal = v.terminal /\ v'.exc = v.exc
      /\ Len(v'.pending) = Len(v.pending) + 1
      /\ Step(v) \in Nat /\ Step(v') \in Nat
  <2>1. Ends(v) /\ Blames(v) /\ Publishes(v) /\ p \in Phases \ ({"Published"} \cup Ended)
    BY Basics DEF Sound, Phases, Ended
  <2>2. Sound(v')
    BY <2>1, Basics, MoveIsSound
  <2>3. QED
    BY <2>2, Basics, Fields DEF Moved
<1>2. ~v.terminal /\ requested = TRUE /\ opc = "idle"
  BY Basics DEF RInv, Places
<1>3. WorldType'
  BY <1>1, <1>2, Basics DEF RInv, WorldType, RPlaces
<1>4. Resting'
  BY <1>1, <1>2, Basics DEF RInv, Resting, Untouched
<1>5. RecipeOnce'
  BY <1>1, <1>2, Basics DEF RInv, RecipeOnce
<1>6. OwnerThread'
  BY <1>1, <1>2, Basics DEF RInv, OwnerThread
<1>7. Places'
  BY <1>1, <1>2, Basics DEF RInv, Places
<1>8. Phased'
  BY <1>1, <1>2, Basics DEF RInv, Phased
<1>9. Lent'
  BY <1>1, <1>2, Basics DEF RInv, Lent, Owns
<1>10. CancelledStaysSuspended'
  BY <1>1, <1>2, Basics DEF RInv, CancelledStaysSuspended
<1>11. RestartAsked'
  BY <1>1, <1>2, Basics DEF RInv, RestartAsked
<1>12. Returnable'
  BY <1>1, <1>2, Basics DEF RInv, Returnable, RetryablePreflight, Untouched
<1>13. Paid'
  BY <1>1, StillPaid
<1>14. QED
  BY <1>1, <1>3, <1>4, <1>5, <1>6, <1>7, <1>8, <1>9, <1>10, <1>11, <1>12, <1>13 DEF
     RInv

\* What AwaitFinish, RecreateBegins and Recreate may refuse.
LEMMA RefusalKeeps ==
    ASSUME RInv, rpc \in {"phase"} \cup CreatePlaces, Refuses(TRUE), rpc' = "after",
           UNCHANGED <<cvars, nat, requested, op, suspended, task, late, foreign, count>>
    PROVE  RInv'
<1>1. /\ Faulted(v, v', TRUE)
      /\ quota' \in {quota, NoQuota} /\ transport' \in {transport, "Revoked"}
  BY Basics, RefusesFaults DEF CreatePlaces
<1>2. QED
  BY <1>1, Basics, FaultKeeps
     DEF CreatePlaces, RecipePlaces, Leaving, Destroying, Calls, Following, cvars

\* The game's answer is awaited, accepted or refused (AwaitFinish).
LEMMA AwaitFinishKeeps == ASSUME RInv, AwaitFinish PROVE RInv'
<1>1. CASE /\ LeaseMayHold(v)
           /\ v' = IF nat.observed /\ nat.accepted /\ nat.returned
                   THEN Transition(v, "FinishAccepted") ELSE v
           /\ UNCHANGED <<quota, transport>>
  <2>1. /\ rpc = "phase" /\ v.phase = "FinishSubmitted" /\ ~v.terminal /\ rpc' = "after"
        /\ UNCHANGED <<cvars, nat, requested, op, quota, suspended, task, world, count>>
    BY <1>1 DEF AwaitFinish, InPhase, RInv, Places, world
  <2>2. nat.cancel /\ nat.recipe /\ nat.create = "none" /\ "Recipe" \in v.flags
    BY <2>1 DEF RInv, Phased, RecipeOnce
  <2>3. CASE v' = Transition(v, "FinishAccepted")
    <3>1. Step([v EXCEPT !.phase = "FinishAccepted"]) > Step(v)
      <4>1. /\ [v EXCEPT !.phase = "FinishAccepted"].phase = "FinishAccepted"
            /\ [v EXCEPT !.phase = "FinishAccepted"].flags = v.flags
        BY Basics DEF Attempts
      <4>2. QED
        BY <2>1, <2>2, <4>1 DEF Step
    <3>2. Moved(v, v', "FinishAccepted")
      BY <2>1, <2>3, <3>1, Basics, MoveIsRecorded DEF Sound, Phases
    <3>3. "Published" \notin v.flags
      BY <2>1, Basics DEF Sound, Publishes
    <3>4. QED
      BY <2>1, <2>2, <3>2, <3>3, MoveKeeps DEF cvars, world
  <2>4. CASE v' = v
    <3> USE DEF RecipePlaces, Leaving, Destroying, Calls, Following, CreatePlaces,
       Metadata,
                cvars, world, count
    <3>1. WorldType'
      BY <2>1, <2>2, <2>4, Basics DEF RInv, WorldType, RPlaces
    <3>2. Resting'
      BY <2>1, <2>2, <2>4, Basics DEF RInv, Resting, Untouched
    <3>3. RecipeOnce'
      BY <2>1, <2>2, <2>4, Basics DEF RInv, RecipeOnce
    <3>4. OwnerThread'
      BY <2>1, <2>2, <2>4, Basics DEF RInv, OwnerThread
    <3>5. Places'
      BY <2>1, <2>2, <2>4, Basics DEF RInv, Places
    <3>6. Phased'
      BY <2>1, <2>2, <2>4, Basics DEF RInv, Phased
    <3>7. Lent'
      BY <2>1, <2>2, <2>4, Basics DEF RInv, Lent, Owns
    <3>8. CancelledStaysSuspended'
      BY <2>1, <2>2, <2>4, Basics DEF RInv, CancelledStaysSuspended
    <3>9. RestartAsked'
      BY <2>1, <2>2, <2>4, Basics DEF RInv, RestartAsked
    <3>10. Returnable'
      BY <2>1, <2>2, <2>4, Basics DEF RInv, Returnable, RetryablePreflight, Untouched
    <3>11. Paid'
      BY <2>1, <2>2, <2>4, Basics DEF RInv, Paid
    <3>12. QED
      BY <2>4, Basics, <3>1, <3>2, <3>3, <3>4, <3>5, <3>6, <3>7, <3>8, <3>9, <3>10,
         <3>11 DEF RInv
  <2>5. QED
    BY <1>1, <2>3, <2>4
<1>2. CASE Refuses(TRUE)
  BY <1>2, RefusalKeeps DEF AwaitFinish, InPhase
<1>3. QED
  BY <1>1, <1>2 DEF AwaitFinish

\* The recreation begins on a visit of its own (RecreateBegins).
LEMMA RecreateBeginsKeeps == ASSUME RInv, RecreateBegins PROVE RInv'
<1>1. CASE /\ LeaseMayHold(v) /\ v' = Transition(v, "Recreating") /\ rpc' = "cleanup"
           /\ UNCHANGED <<quota, transport>>
  <2>1. /\ rpc = "phase" /\ v.phase = "FinishAccepted" /\ ~v.terminal
        /\ UNCHANGED <<cvars, nat, requested, op, quota, suspended, task, world, count>>
    BY <1>1 DEF RecreateBegins, InPhase, RInv, Places, world
  <2>2. nat.cancel /\ nat.recipe /\ nat.create = "none" /\ "Recipe" \in v.flags
    BY <2>1 DEF RInv, Phased, RecipeOnce
  <2>3. Step([v EXCEPT !.phase = "Recreating"]) > Step(v)
    <3>1. /\ [v EXCEPT !.phase = "Recreating"].phase = "Recreating"
          /\ [v EXCEPT !.phase = "Recreating"].flags = v.flags
      BY Basics DEF Attempts
    <3>2. QED
      BY <2>1, <2>2, <3>1 DEF Step
  <2>4. Moved(v, v', "Recreating")
    BY <1>1, <2>1, <2>3, Basics, MoveIsRecorded DEF Sound, Phases
  <2>5. "Published" \notin v.flags
    BY <2>1, Basics DEF Sound, Publishes
  <2>6. QED
    BY <1>1, <2>1, <2>2, <2>4, <2>5, MoveKeeps DEF cvars, world
<1>2. CASE Refuses(TRUE) /\ rpc' = "after"
  BY <1>2, RefusalKeeps DEF RecreateBegins, InPhase
<1>3. QED
  BY <1>1, <1>2 DEF RecreateBegins

\* One native call of the recreation after the other, with the primary callback
\* installed last (Recreate).
LEMMA RecreateKeeps == ASSUME RInv, Recreate PROVE RInv'
<1> USE DEF NextCreate, CreatePlaces
<1>1. rpc \in CreatePlaces
  BY DEF Recreate
<1>2. CASE /\ LeaseMayHold(v)
           /\ nat' = [nat EXCEPT !.create = IF rpc = "guard" THEN "installed" ELSE @]
           /\ rpc' = NextCreate[rpc] /\ UNCHANGED <<v, quota, transport>>
  <2>1. /\ rpc' \in {"start", "create", "guard", "after"} /\ (rpc' = "after" <=> rpc = "guard")
    BY <1>1, <1>2
  <2>2. /\ nat.recipe /\ v.phase = "Recreating" /\ nat.create = "none" /\ ~v.terminal
        /\ requested = TRUE /\ opc = "idle"
    BY <1>1, Basics DEF RInv, Places, RecipeOnce
  <2>3. /\ nat' \in NatStates /\ nat'.recipe /\ nat'.cancel = nat.cancel
        /\ nat'.head = nat.head /\ nat'.resource = nat.resource
        /\ nat'.create = IF rpc = "guard" THEN "installed" ELSE "none"
    BY <1>2, <2>2, Basics DEF NatStates
  <2>4. UNCHANGED <<cvars, v, requested, op, quota, suspended, task, world, count>>
    BY <1>2 DEF Recreate, world
  <2> USE DEF RecipePlaces, Leaving, Destroying, Calls, Following, Metadata, cvars,
     world, count
  <2>5. WorldType'
    BY <1>1, <2>1, <2>2, <2>3, <2>4, Basics DEF RInv, WorldType, RPlaces
  <2>6. Resting'
    BY <1>1, <2>1, <2>2, <2>3, <2>4, Basics DEF RInv, Resting, Untouched
  <2>7. RecipeOnce'
    BY <1>1, <2>1, <2>2, <2>3, <2>4, Basics DEF RInv, RecipeOnce
  <2>8. OwnerThread'
    BY <1>1, <2>1, <2>2, <2>3, <2>4, Basics DEF RInv, OwnerThread
  <2>9. Places'
    BY <1>1, <2>1, <2>2, <2>3, <2>4, Basics DEF RInv, Places
  <2>10. Phased'
    BY <1>1, <2>1, <2>2, <2>3, <2>4, Basics DEF RInv, Phased
  <2>11. Lent'
    BY <1>1, <2>1, <2>2, <2>3, <2>4, Basics DEF RInv, Lent, Owns
  <2>12. CancelledStaysSuspended'
    BY <1>1, <2>1, <2>2, <2>3, <2>4, Basics DEF RInv, CancelledStaysSuspended
  <2>13. RestartAsked'
    BY <1>1, <2>1, <2>2, <2>3, <2>4, Basics DEF RInv, RestartAsked
  <2>14. Returnable'
    BY <1>1, <2>1, <2>2, <2>3, <2>4, Basics DEF RInv, Returnable, RetryablePreflight,
       Untouched
  <2>15. Paid'
    BY <1>1, <2>1, <2>2, <2>3, <2>4, Basics DEF RInv, Paid
  <2>16. QED
    BY <2>4, Basics, <2>5, <2>6, <2>7, <2>8, <2>9, <2>10, <2>11, <2>12, <2>13,
       <2>14, <2>15 DEF RInv
<1>3. CASE nat' = nat /\ Refuses(TRUE) /\ rpc' = "after"
  BY <1>1, <1>3, RefusalKeeps DEF Recreate
<1>4. QED
  BY <1>2, <1>3 DEF Recreate

\* A call of the recreation unwinds.
LEMMA RecreateThrowsKeeps == ASSUME RInv, RecreateThrows PROVE RInv'
<1>1. /\ rpc \in CreatePlaces /\ ~v.terminal /\ nat.recipe /\ rpc' = "idle"
  BY DEF RecreateThrows, NextCreate, CreatePlaces, RInv, Places, RecipeOnce
<1>2. Threw(v, v')
  BY <1>1, Basics, Uncaught, ExceptionIsSound DEF RecreateThrows, CreatePlaces
<1>3. /\ nat' \in NatStates /\ nat'.recipe /\ (nat.cancel => nat'.cancel)
      /\ nat'.create = nat.create /\ (nat'.cancel => suspended \/ "Published" \in v.flags)
  BY <1>1, Basics DEF RecreateThrows, RInv, CancelledStaysSuspended
<1>4. /\ requested /\ "Retryable" \notin v.flags /\ v \in Attempts
      /\ rpc' = "idle" /\ rpc # "release" /\ quota' \in {quota, NoQuota}
      /\ UNCHANGED <<opc, started, stop, result, owner, verdict, requested, op, suspended,
                     task, transport, late, foreign, count>>
  BY <1>1, Basics DEF RecreateThrows, cvars, world, CreatePlaces, ReleaseCapture
<1>5. QED
  BY <1>1, <1>2, <1>3, <1>4, ThrowKeeps

\* Another fact about an attempt that is under way: a callback seen or done.
LEMMA NoteIsSound ==
    ASSUME NEW w \in Attempts, Sound(w), ~w.terminal,
           NEW f \in SUBSET {"CreateObserved", "ForwardEntered", "ForwardDone", "Attempted"},
           "ForwardEntered" \in f => "CreateObserved" \in f \cup w.flags,
           "ForwardDone" \in f => "ForwardEntered" \in f \cup w.flags,
           "Attempted" \in f => "Published" \in w.flags
    PROVE  LET x == [w EXCEPT !.flags = @ \cup f] IN
           /\ x \in Attempts /\ Sound(x) /\ Step(x) = Step(w) /\ x.pending = w.pending
           /\ x.phase = w.phase /\ ~x.terminal /\ x.exc = w.exc /\ x.flags = w.flags \cup f
<1> DEFINE x == [w EXCEPT !.flags = @ \cup f]
<1>1. /\ x \in Attempts /\ x.pending = w.pending
      /\ x.phase = w.phase /\ x.terminal = w.terminal /\ x.final = w.final
      /\ x.exc = w.exc /\ x.flags = w.flags \cup f /\ x.reason = w.reason
      /\ x.outcome = w.outcome
  <2>1. w.flags \cup f \in SUBSET Flags
    BY Fields DEF Flags
  <2>2. QED
    BY <2>1 DEF Attempts
<1> HIDE DEF x
<1>2. Step(x) = Step(w)
  BY <1>1 DEF Step
<1>3. Ends(x) /\ Blames(x) /\ Publishes(x)
  BY <1>1 DEF Sound, Ends, Blames, Publishes
<1>4. Budget(x)
  BY <1>1, <1>2 DEF Sound, Budget, Earned, FinalDue, ExcDue, Over, Thrown
<1>5. QED
  BY <1>1, <1>2, <1>3, <1>4 DEF Sound, x

\* The recreated session is announced; forwarded at most once (CreateSuccess).
LEMMA CreateCallbackKeeps == ASSUME RInv, CreateCallback PROVE RInv'
<1> USE DEF RecipePlaces, Leaving, Destroying, Calls, Following, CreatePlaces,
   Metadata, cvars, world, count
<1>1. /\ rpc = "idle" /\ opc = "idle" /\ ~v.terminal /\ v.phase = "Recreating"
      /\ nat.create \in {"installed", "returned"}
      /\ UNCHANGED <<cvars, requested, op, quota, suspended, task, late, foreign, recipes>>
  BY DEF CreateCallback
<1>2. nat.cancel /\ nat.recipe /\ requested = TRUE /\ "Recipe" \in v.flags
  BY <1>1 DEF RInv, Phased, RecipeOnce, WorldType, Resting, Untouched
<1>3. CASE /\ Forwardable /\ LeaseMayHold(v)
           /\ v' = [v EXCEPT !.flags = @ \cup {"CreateObserved", "ForwardEntered"}]
           /\ nat' = [nat EXCEPT !.create = "forwarding"]
           /\ forwards' = forwards + 1 /\ rpc' = "forward" /\ transport' = transport
  <2>1. /\ v' \in Attempts /\ Sound(v') /\ Step(v') = Step(v) /\ v'.pending = v.pending
        /\ v'.phase = v.phase /\ ~v'.terminal /\ v'.exc = v.exc
        /\ v'.flags = v.flags \cup {"CreateObserved", "ForwardEntered"}
    BY <1>1, <1>3, Basics, NoteIsSound
  <2>2. /\ nat' \in NatStates /\ nat'.recipe /\ nat'.cancel /\ nat'.create = "forwarding"
        /\ nat'.head = nat.head /\ nat'.resource = nat.resource
    BY <1>2, <1>3, Basics DEF NatStates
  <2>3. forwards = 0 /\ forwards' = 1 /\ rpc' = "forward" /\ transport' = transport
    BY <1>3 DEF RInv, WorldType, RecipeOnce, Forwardable
  <2>4. WorldType'
    BY <1>1, <1>2, <2>1, <2>2, <2>3, Basics DEF RInv, WorldType, RPlaces
  <2>5. Resting'
    BY <1>1, <1>2, <2>1, <2>2, <2>3, Basics DEF RInv, Resting, Untouched
  <2>6. RecipeOnce'
    BY <1>1, <1>2, <2>1, <2>2, <2>3, Basics DEF RInv, RecipeOnce
  <2>7. OwnerThread'
    BY <1>1, <1>2, <2>1, <2>2, <2>3, Basics DEF RInv, OwnerThread
  <2>8. Places'
    BY <1>1, <1>2, <2>1, <2>2, <2>3, Basics DEF RInv, Places, Sound, Ends
  <2>9. Phased'
    BY <1>1, <1>2, <2>1, <2>2, <2>3, Basics DEF RInv, Phased
  <2>10. Lent'
    BY <1>1, <1>2, <2>1, <2>2, <2>3, Basics DEF RInv, Lent, Owns
  <2>11. CancelledStaysSuspended'
    BY <1>1, <1>2, <2>1, <2>2, <2>3, Basics DEF RInv, CancelledStaysSuspended
  <2>12. RestartAsked'
    BY <1>1, <1>2, <2>1, <2>2, <2>3, Basics DEF RInv, RestartAsked
  <2>13. Returnable'
    BY <1>1, <1>2, <2>1, <2>2, <2>3, Basics DEF RInv, Returnable, RetryablePreflight,
       Untouched
  <2>14. Paid'
    BY <1>1, <1>2, <2>1, <2>2, <2>3, Basics DEF RInv, Paid
  <2>15. QED
    BY <2>1, <2>4, <2>5, <2>6, <2>7, <2>8, <2>9, <2>10, <2>11, <2>12, <2>13, <2>14
       DEF RInv
<1>4. CASE v' = Refused(v, TRUE) /\ UNCHANGED <<nat, forwards, rpc, transport>>
  <2>1. Faulted(v, v', TRUE)
    BY <1>1, <1>4, Basics, FaultIsSound DEF Refused, Reasons, Outcomes
  <2>2. QED
    BY <1>1, <1>2, <1>4, <2>1, Basics, FaultKeeps
<1>5. ASSUME NEW seen, seen = [v EXCEPT !.flags = @ \cup {"CreateObserved"}],
             UNCHANGED <<nat, forwards, rpc>>, transport' \in {transport, "Revoked"},
             v' \in {Refused(seen, TRUE), Refused(ClockFault(seen), TRUE)}
      PROVE  RInv'
  <2>1. /\ seen \in Attempts /\ Sound(seen) /\ Step(seen) = Step(v)
        /\ seen.pending = v.pending /\ seen.phase = v.phase /\ ~seen.terminal
        /\ seen.exc = v.exc /\ seen.flags = v.flags \cup {"CreateObserved"}
    BY <1>1, <1>5, Basics, NoteIsSound
  <2>2. Faulted(seen, v', TRUE)
    <3>1. \A w \in Attempts : Sound(w) /\ "Retryable" \notin w.flags =>
             Faulted(w, Refused(w, TRUE), TRUE)
      BY FaultIsSound DEF Refused, Reasons, Outcomes
    <3>2. "Retryable" \notin seen.flags
      BY <1>1, <2>1, Basics
    <3>3. Faulted(seen, ClockFault(seen), nat.cancel)
      BY <2>1, <3>2, Basics, FaultIsSound DEF ClockFault, Reasons, Outcomes
    <3>4. Faulted(ClockFault(seen), Refused(ClockFault(seen), TRUE), TRUE)
      BY <3>1, <3>2, <3>3 DEF Faulted
    <3>5. Faulted(seen, Refused(ClockFault(seen), TRUE), TRUE)
      BY <3>3, <3>4 DEF Faulted
    <3>6. QED
      BY <1>5, <2>1, <3>1, <3>2, <3>5
  <2>3. /\ v' \in Attempts /\ Sound(v') /\ Step(v') = Step(v) /\ v'.pending = v.pending
        /\ v'.phase = v.phase /\ v'.terminal /\ v'.exc = v.exc
        /\ v.flags \subseteq v'.flags
        /\ v'.flags \subseteq v.flags \cup {"CreateObserved", "Restart", "Unverified"}
        /\ ("Published" \notin v.flags => "Restart" \in v'.flags)
    BY <2>1, <2>2 DEF Faulted
  <2>4. WorldType'
    BY <1>1, <1>2, <1>5, <2>3, Basics DEF RInv, WorldType, RPlaces
  <2>5. Resting'
    BY <1>1, <1>2, <1>5, <2>3, Basics DEF RInv, Resting, Untouched
  <2>6. RecipeOnce'
    BY <1>1, <1>2, <1>5, <2>3, Basics DEF RInv, RecipeOnce
  <2>7. OwnerThread'
    BY <1>1, <1>2, <1>5, <2>3, Basics DEF RInv, OwnerThread
  <2>8. Places'
    BY <1>1, <1>2, <1>5, <2>3, Basics DEF RInv, Places, Sound, Ends
  <2>9. Phased'
    BY <1>1, <1>2, <1>5, <2>3, Basics DEF RInv, Phased
  <2>10. Lent'
    BY <1>1, <1>2, <1>5, <2>3, Basics DEF RInv, Lent, Owns
  <2>11. CancelledStaysSuspended'
    BY <1>1, <1>2, <1>5, <2>3, Basics DEF RInv, CancelledStaysSuspended
  <2>12. RestartAsked'
    BY <1>1, <1>2, <1>5, <2>3, Basics DEF RInv, RestartAsked
  <2>13. Returnable'
    BY <1>1, <1>2, <1>5, <2>3, Basics DEF RInv, Returnable, RetryablePreflight,
       Untouched
  <2>14. Paid'
    BY <1>1, <1>2, <1>5, <2>3, Basics DEF RInv, Paid
  <2>15. QED
    BY <2>3, <2>4, <2>5, <2>6, <2>7, <2>8, <2>9, <2>10, <2>11, <2>12, <2>13, <2>14
       DEF RInv
<1>6. QED
  BY <1>3, <1>4, <1>5 DEF CreateCallback

\* The forwarded call returns (CreateSuccess).
LEMMA ForwardReturnsKeeps == ASSUME RInv, ForwardReturns PROVE RInv'
<1> USE DEF RecipePlaces, Leaving, Destroying, Calls, Following, CreatePlaces,
   Metadata, cvars, world, count
<1>1. /\ rpc = "forward" /\ rpc' = "idle" /\ requested = TRUE /\ opc = "idle" /\ nat.recipe
      /\ v' \in Attempts /\ Sound(v') /\ Step(v') = Step(v) /\ v'.pending = v.pending
      /\ v'.phase = v.phase /\ v'.terminal = v.terminal /\ v'.exc = v.exc
      /\ v'.flags = v.flags \cup {"ForwardDone"} /\ v.phase = "Recreating"
      /\ nat' \in NatStates /\ nat'.recipe /\ nat'.cancel = nat.cancel
      /\ nat.create = "forwarding" /\ nat'.create = "returned"
      /\ nat'.head = nat.head /\ nat'.resource = nat.resource
      /\ UNCHANGED <<cvars, requested, op, quota, suspended, task, world, count>>
  <2>1. /\ rpc = "forward" /\ nat.recipe /\ v.phase = "Recreating"
        /\ nat.create = "forwarding" /\ "ForwardEntered" \in v.flags
    BY DEF ForwardReturns, RInv, Places, RecipeOnce
  <2>2. /\ v' \in Attempts /\ v'.pending = v.pending /\ v'.final = v.final
        /\ v'.phase = v.phase /\ v'.terminal = v.terminal /\ v'.exc = v.exc
        /\ v'.flags = v.flags \cup {"ForwardDone"} /\ v'.reason = v.reason
        /\ v'.outcome = v.outcome
    <3>1. v.flags \cup {"ForwardDone"} \in SUBSET Flags
      BY Basics DEF Flags
    <3>2. QED
      BY <3>1, Basics DEF ForwardReturns, Attempts
  <2>3. Step(v') = Step(v)
    BY <2>2 DEF Step
  <2>4. Ends(v') /\ Blames(v') /\ Publishes(v')
    BY <2>1, <2>2, Basics DEF Sound, Ends, Blames, Publishes
  <2>5. Budget(v')
    BY <2>2, <2>3, Basics DEF Sound, Budget, Earned, FinalDue, ExcDue, Over, Thrown
  <2>6. /\ nat' \in NatStates /\ nat'.recipe /\ nat'.cancel = nat.cancel
        /\ nat'.create = "returned" /\ nat'.head = nat.head /\ nat'.resource = nat.resource
    BY <2>1, Basics DEF ForwardReturns, NatStates
  <2>7. /\ rpc' = "idle"
        /\ UNCHANGED <<cvars, requested, op, quota, suspended, task, world, count>>
    BY DEF ForwardReturns
  <2>8. QED
    BY <2>1, <2>2, <2>3, <2>4, <2>5, <2>6, <2>7, Basics DEF Sound
<1>2. WorldType'
  BY <1>1, Basics DEF RInv, WorldType, RPlaces
<1>3. Resting'
  BY <1>1, Basics DEF RInv, Resting, Untouched
<1>4. RecipeOnce'
  BY <1>1, Basics DEF RInv, RecipeOnce, Places, Faulted
<1>5. OwnerThread'
  BY <1>1, Basics DEF RInv, OwnerThread, Faulted
<1>6. Places'
  BY <1>1, Basics DEF RInv, Places, Faulted, Sound, Ends
<1>7. Phased'
  BY <1>1, Basics DEF RInv, Phased, Faulted, Places
<1>8. Lent'
  BY <1>1, Basics DEF RInv, Lent, Faulted, Places, Owns
<1>9. CancelledStaysSuspended'
  BY <1>1, Basics DEF RInv, CancelledStaysSuspended, Faulted, Places, Phased
<1>10. RestartAsked'
  BY <1>1, Basics DEF RInv, RestartAsked, Faulted, Places
<1>11. Returnable'
  BY <1>1, Basics DEF RInv, Returnable, Faulted, RetryablePreflight, Untouched
<1>12. Paid'
  BY <1>1, Basics DEF RInv, Paid, Faulted
<1>13. QED
  BY <1>1, <1>2, <1>3, <1>4, <1>5, <1>6, <1>7, <1>8, <1>9, <1>10, <1>11, <1>12 DEF
     RInv

\* The forwarded call unwinds.
LEMMA ForwardThrowsKeeps == ASSUME RInv, ForwardThrows PROVE RInv'
<1>1. rpc = "forward" /\ nat.recipe /\ rpc' = "idle"
  BY DEF ForwardThrows, RInv, RecipeOnce
<1>2. Threw(v, v')
  BY <1>1, Basics, Uncaught, ExceptionIsSound DEF ForwardThrows
<1>3. /\ nat' \in NatStates /\ nat'.recipe /\ (nat.cancel => nat'.cancel)
      /\ nat'.create = "thrown" /\ (nat'.cancel => suspended \/ "Published" \in v.flags)
  BY <1>1, Basics DEF ForwardThrows, RInv, CancelledStaysSuspended, NatStates
<1>4. /\ requested /\ "Retryable" \notin v.flags /\ v \in Attempts
      /\ rpc' = "idle" /\ rpc # "release" /\ quota' \in {quota, NoQuota}
      /\ UNCHANGED <<opc, started, stop, result, owner, verdict, requested, op, suspended,
                     task, transport, late, foreign, count>>
  BY <1>1, Basics DEF ForwardThrows, cvars, world
<1>5. QED
  BY <1>1, <1>2, <1>3, <1>4, ThrowKeeps

\* The new session is published, or refused, or not there yet (AwaitCreate).
LEMMA AwaitCreateKeeps == ASSUME RInv, AwaitCreate PROVE RInv'
<1> USE DEF RecipePlaces, Leaving, Destroying, Calls, Following, CreatePlaces,
   Metadata, cvars, world, count
<1>1. /\ rpc = "phase" /\ v.phase = "Recreating" /\ rpc' = "after" /\ ~v.terminal
      /\ nat.cancel /\ nat.recipe /\ requested = TRUE /\ opc = "idle" /\ "Recipe" \in v.flags
      /\ UNCHANGED <<cvars, nat, requested, op, task, late, foreign, count>>
  BY Basics DEF AwaitCreate, InPhase, RInv, Phased, Places, RecipeOnce
<1>2. CASE UNCHANGED <<v, quota, suspended, transport>>
  <2>1. WorldType'
    BY <1>1, <1>2, Basics DEF RInv, WorldType, RPlaces
  <2>2. Resting'
    BY <1>1, <1>2, Basics DEF RInv, Resting, Untouched
  <2>3. RecipeOnce'
    BY <1>1, <1>2, Basics DEF RInv, RecipeOnce
  <2>4. OwnerThread'
    BY <1>1, <1>2, Basics DEF RInv, OwnerThread
  <2>5. Places'
    BY <1>1, <1>2, Basics DEF RInv, Places
  <2>6. Phased'
    BY <1>1, <1>2, Basics DEF RInv, Phased
  <2>7. Lent'
    BY <1>1, <1>2, Basics DEF RInv, Lent, Owns
  <2>8. CancelledStaysSuspended'
    BY <1>1, <1>2, Basics DEF RInv, CancelledStaysSuspended
  <2>9. RestartAsked'
    BY <1>1, <1>2, Basics DEF RInv, RestartAsked
  <2>10. Returnable'
    BY <1>1, <1>2, Basics DEF RInv, Returnable, RetryablePreflight, Untouched
  <2>11. Paid'
    BY <1>1, <1>2, Basics DEF RInv, Paid
  <2>12. QED
    BY <1>2, Basics, <2>1, <2>2, <2>3, <2>4, <2>5, <2>6, <2>7, <2>8, <2>9, <2>10,
       <2>11 DEF RInv
<1>3. CASE nat.create = "returned" /\ Refuses(TRUE) /\ suspended' = suspended
  BY <1>1, <1>3, RefusalKeeps
<1>4. CASE /\ nat.create = "returned" /\ LeaseMayHold(v)
           /\ v' = Transition([v EXCEPT !.flags = @ \cup {"Published"}], "Published")
           /\ suspended' = FALSE /\ UNCHANGED <<quota, transport>>
  <2> DEFINE w == [v EXCEPT !.flags = @ \cup {"Published"}]
  <2>1. /\ w \in Attempts /\ w.phase = v.phase /\ w.flags = v.flags \cup {"Published"}
        /\ w.terminal = v.terminal /\ w.final = v.final /\ w.exc = v.exc
        /\ w.reason = v.reason /\ w.outcome = v.outcome /\ w.pending = v.pending
    <3>1. v.flags \cup {"Published"} \in SUBSET Flags
      BY Basics DEF Flags
    <3>2. QED
      BY <3>1, Basics DEF Attempts
  <2>2. v' = Transition(w, "Published")
    BY <1>4
  <2>3. Step([w EXCEPT !.phase = "Published"]) > Step(w)
    <3>1. /\ [w EXCEPT !.phase = "Published"].phase = "Published"
          /\ [w EXCEPT !.phase = "Published"].flags = w.flags
      BY <2>1 DEF Attempts
    <3>2. QED
      BY <1>1, <2>1, <3>1 DEF Step
  <2> HIDE DEF w
  <2>4. Step(w) = Step(v)
    BY <2>1 DEF Step
  <2>5. Budget(w)
    BY <2>1, <2>4, Basics DEF Budget, Earned, FinalDue, ExcDue, Over, Thrown, Sound
  <2>6. Moved(w, v', "Published")
    BY <1>1, <2>1, <2>2, <2>3, <2>5, MoveIsRecorded DEF Phases
  <2>7. /\ v' \in Attempts /\ v'.phase = "Published" /\ v'.flags = v.flags \cup {"Published"}
        /\ v'.terminal = v.terminal /\ v'.exc = v.exc /\ v'.final = v.final
        /\ v'.reason = v.reason /\ v'.outcome = v.outcome
        /\ Len(v'.pending) = Len(v.pending) + 1 /\ Step(v') > Step(v) /\ Budget(v')
    BY <2>1, <2>4, <2>6 DEF Moved
  <2>8. Sound(v')
    <3>1. Ends(v') /\ Blames(v')
      BY <1>1, <2>7, Basics DEF Sound, Ends, Blames, Ended
    <3>2. Publishes(v')
      BY <1>1, <2>7, Basics DEF Sound, Publishes
    <3>3. QED
      BY <2>7, <3>1, <3>2 DEF Sound
  <2>9. Step(v) \in Nat /\ Step(v') \in Nat
    BY Basics, <2>7, Fields
  <2>10. WorldType'
    BY <1>1, <1>4, <2>7, <2>9, Basics DEF RInv, WorldType, RPlaces
  <2>11. Resting'
    BY <1>1, <1>4, <2>7, <2>9, Basics DEF RInv, Resting, Untouched
  <2>12. RecipeOnce'
    BY <1>1, <1>4, <2>7, <2>9, Basics DEF RInv, RecipeOnce
  <2>13. OwnerThread'
    BY <1>1, <1>4, <2>7, <2>9, Basics DEF RInv, OwnerThread
  <2>14. Places'
    BY <1>1, <1>4, <2>7, <2>9, Basics DEF RInv, Places
  <2>15. Phased'
    BY <1>1, <1>4, <2>7, <2>9, Basics DEF RInv, Phased
  <2>16. Lent'
    BY <1>1, <1>4, <2>7, <2>9, Basics DEF RInv, Lent, Owns
  <2>17. CancelledStaysSuspended'
    BY <1>1, <1>4, <2>7, <2>9, Basics DEF RInv, CancelledStaysSuspended
  <2>18. RestartAsked'
    BY <1>1, <1>4, <2>7, <2>9, Basics DEF RInv, RestartAsked
  <2>19. Returnable'
    BY <1>1, <1>4, <2>7, <2>9, Basics DEF RInv, Returnable, RetryablePreflight,
       Untouched
  <2>20. Paid'
    BY <1>4, <2>7, <2>9, StillPaid
  <2>21. QED
    BY <2>7, <2>8, <2>10, <2>11, <2>12, <2>13, <2>14, <2>15, <2>16, <2>17, <2>18,
       <2>19, <2>20 DEF RInv
<1>5. QED
  BY <1>2, <1>3, <1>4 DEF AwaitCreate

-----------------------------------------------------------------------------
(* The metadata check of a published session.                              *)

\* Published metadata is judged: the attempt is observed, with its last record.
Judged(w, x) ==
    /\ x \in Attempts /\ Sound(x) /\ x.phase = "Observed" /\ x.terminal
    /\ x.exc = w.exc /\ w.flags \ {"Unverified"} \subseteq x.flags
    /\ x.flags \subseteq w.flags \cup {"Terminal", "Coherent", "Unverified"}
    /\ Len(x.pending) = Len(w.pending) + 1 /\ Step(x) = Step(w) + 1

\* Judging published metadata keeps an attempt sound (Completed).
LEMMA CompletedIsSound ==
    ASSUME NEW w \in Attempts, Sound(w), ~w.terminal, w.phase = "Published",
           "Recipe" \in w.flags, NEW coherent \in BOOLEAN
    PROVE  Judged(w, Completed(w, coherent))
<1> DEFINE x == [w EXCEPT !.flags = (@ \ (IF coherent THEN {"Unverified"} ELSE {})) \cup
                     {"Terminal", IF coherent THEN "Coherent" ELSE "Unverified"},
                   !.reason = "None", !.outcome = "NotDelivered"]
           y == Transition(x, "Observed")
           z == [y EXCEPT !.terminal = TRUE, !.final = TRUE]
<1>1. z = Completed(w, coherent)
  BY DEF Completed
<1>2. /\ x \in Attempts /\ x.phase = w.phase /\ x.terminal = w.terminal /\ x.final = w.final
      /\ x.exc = w.exc /\ x.pending = w.pending /\ x.reason = "None"
      /\ x.outcome = "NotDelivered"
      /\ x.flags = (w.flags \ (IF coherent THEN {"Unverified"} ELSE {})) \cup
                     {"Terminal", IF coherent THEN "Coherent" ELSE "Unverified"}
  <2>1. (w.flags \ (IF coherent THEN {"Unverified"} ELSE {})) \cup
          {"Terminal", IF coherent THEN "Coherent" ELSE "Unverified"} \in SUBSET Flags
    <3>1. {"Terminal", "Coherent", "Unverified"} \subseteq Flags
      BY DEF Flags
    <3>2. QED
      BY <3>1, Fields
  <2>2. "None" \in Reasons /\ "NotDelivered" \in Outcomes
    BY DEF Reasons, Outcomes
  <2>3. QED
    BY <2>1, <2>2 DEF Attempts
<1>3. /\ [x EXCEPT !.phase = "Observed"].phase = "Observed"
      /\ [x EXCEPT !.phase = "Observed"].flags = x.flags
  BY <1>2 DEF Attempts
<1> HIDE DEF x
<1>4. /\ Step([x EXCEPT !.phase = "Observed"]) = 5 /\ Step(x) = 4 /\ Step(w) = 4
  BY <1>2, <1>3 DEF Step
<1>5. Budget(x)
  <2>1. /\ Thrown(x) = Thrown(w) /\ ExcDue(x) = ExcDue(w) /\ FinalDue(x) = FinalDue(w)
        /\ Over(x) = Over(w) /\ Len(x.pending) = Len(w.pending) /\ Step(x) = Step(w)
    BY <1>2, <1>4 DEF Thrown, ExcDue, FinalDue, Over
  <2>2. QED
    BY <2>1 DEF Sound, Budget, Earned
<1>6. Moved(x, y, "Observed")
  <2>1. /\ "Observed" \in Phases /\ "Observed" # x.phase
        /\ Step([x EXCEPT !.phase = "Observed"]) > Step(x)
    BY <1>2, <1>4 DEF Phases
  <2> HIDE DEF z
  <2>2. QED
    BY <1>2, <1>5, <2>1, MoveIsRecorded
<1> HIDE DEF y
<1>7. /\ z \in Attempts /\ z.phase = "Observed" /\ z.terminal = TRUE /\ z.final = TRUE
      /\ z.exc = w.exc /\ z.flags = x.flags /\ z.reason = "None"
      /\ z.outcome = "NotDelivered" /\ z.pending = y.pending
      /\ Len(z.pending) = Len(w.pending) + 1
  BY <1>2, <1>6 DEF Moved, Attempts
<1> HIDE DEF z
<1>8. Step(z) = 5 /\ Step(y) = 5
  BY <1>2, <1>6, <1>7 DEF Step, Moved
<1>9. Budget(z)
  <2>1. Over(z) = 1 /\ Over(y) = 0 /\ FinalDue(z) = 1
    BY <1>2, <1>6, <1>7 DEF Over, FinalDue, Moved
  <2>2. Thrown(z) = Thrown(y) /\ ExcDue(z) = ExcDue(y)
    BY <1>2, <1>6, <1>7 DEF Thrown, ExcDue, Moved
  <2>3. Bits(y) /\ Bits(z) /\ Budget(y)
    BY <1>6, <1>7, BitsAreBits DEF Moved
  <2>4. QED
    BY <1>7, <1>8, <2>1, <2>2, <2>3 DEF Budget, Bits, Earned
<1>10. Ends(z) /\ Blames(z) /\ Publishes(z)
  BY <1>2, <1>7 DEF Sound, Ends, Blames, Publishes
<1>11. QED
  BY <1>1, <1>2, <1>4, <1>7, <1>8, <1>9, <1>10 DEF Judged, Sound

\* A probe that is to be repeated leaves its reason.
LEMMA NotReadyIsSound ==
    ASSUME NEW w \in Attempts, Sound(w), ~w.terminal
    PROVE  LET x == NotReady(w) IN
           /\ x \in Attempts /\ Sound(x) /\ Step(x) = Step(w) /\ x.pending = w.pending
           /\ x.phase = w.phase /\ x.terminal = w.terminal /\ x.exc = w.exc
           /\ x.flags = w.flags
<1> DEFINE x == NotReady(w)
<1>1. /\ x \in Attempts /\ x.pending = w.pending
      /\ x.phase = w.phase /\ x.terminal = w.terminal /\ x.final = w.final
      /\ x.exc = w.exc /\ x.flags = w.flags /\ x.reason = "Other"
      /\ x.outcome = w.outcome
  BY DEF NotReady, Attempts, Reasons
<1> HIDE DEF x
<1>2. Step(x) = Step(w)
  BY <1>1 DEF Step
<1>3. Ends(x) /\ Blames(x) /\ Publishes(x)
  BY <1>1 DEF Sound, Ends, Blames, Publishes
<1>4. Budget(x)
  BY <1>1, <1>2 DEF Sound, Budget, Earned, FinalDue, ExcDue, Over, Thrown
<1>5. QED
  BY <1>1, <1>2, <1>3, <1>4 DEF Sound, x

\* In the check a session is published, hence cancelled and recorded as such.
LEMMA InMetadata ==
    ASSUME RInv, rpc \in Metadata \/ (rpc = "phase" /\ v.phase = "Published")
    PROVE  /\ v.phase = "Published" /\ nat.recipe /\ nat.cancel /\ requested = TRUE
           /\ {"Published", "Recipe"} \subseteq v.flags /\ opc = "idle"
           /\ "Retryable" \notin v.flags
           /\ rpc \notin Destroying => ~v.terminal
<1>1. v.phase = "Published" /\ (rpc \notin Destroying => ~v.terminal)
  BY DEF RInv, Places, Metadata, Destroying
<1>2. nat.recipe /\ nat.cancel /\ {"Published", "Recipe"} \subseteq v.flags
  BY <1>1 DEF RInv, Phased, RecipeOnce, Sound, Publishes
<1>3. QED
  BY <1>1, <1>2, Basics DEF Metadata, Destroying

\* The steps of the check that are no fault: on within the check, or out of it
\* with the property list given back.
LEMMA MetadataKeeps ==
    ASSUME RInv, rpc \in Metadata \/ (rpc = "phase" /\ v.phase = "Published"),
           \/ /\ v' \in Attempts /\ Sound(v') /\ v'.phase = v.phase
              /\ v'.pending = v.pending /\ v'.terminal = v.terminal /\ v'.exc = v.exc
              /\ v.flags \subseteq v'.flags /\ v'.flags \subseteq v.flags \cup {"Attempted"}
              /\ Step(v') = Step(v)
              /\ rpc' \in {"idle", "after", "update", "destroy", "destroyUpdated", "recheck"}
           \/ ~v.terminal /\ Judged(v, v') /\ rpc' \in {"after"},
           rpc' \in {"update", "destroyUpdated", "recheck"} => ~v.terminal,
           rpc' \in Destroying => ~v.terminal \/ rpc \in Destroying,
           nat' \in NatStates, nat'.recipe, nat'.cancel, nat'.create = nat.create,
           nat'.resource = nat.resource,
           nat'.head # "none" => rpc' \in {"update"} \cup Destroying \/ "Restart" \in v.flags,
           UNCHANGED <<cvars, requested, op, quota, suspended, task, late, foreign, count>>,
           transport' = transport
    PROVE  RInv'
<1> USE DEF RecipePlaces, Leaving, Destroying, Calls, Following, CreatePlaces,
   Metadata, cvars, world, count
<1>1. /\ v.phase = "Published" /\ nat.recipe /\ nat.cancel /\ requested = TRUE
      /\ {"Published", "Recipe"} \subseteq v.flags /\ opc = "idle"
      /\ "Retryable" \notin v.flags
  BY InMetadata
<1>2. v' \in Attempts /\ Sound(v')
  BY DEF Judged
<1>3. WorldType'
  BY <1>1, Basics DEF RInv, WorldType, Judged, RPlaces
<1>4. Resting'
  BY <1>1, Basics DEF RInv, Resting, Judged, Untouched
<1>5. RecipeOnce'
  BY <1>1, Basics DEF RInv, RecipeOnce, Judged
<1>6. OwnerThread'
  BY <1>1, Basics DEF RInv, OwnerThread, Judged
<1>7. Places'
  BY <1>1, Basics DEF RInv, Places, Sound, Ends, Judged
<1>8. Phased'
  BY <1>1, Basics DEF RInv, Phased, Judged
<1>9. Lent'
  BY <1>1, Basics DEF RInv, Lent, Judged, Owns
<1>10. CancelledStaysSuspended'
  BY <1>1, Basics DEF RInv, CancelledStaysSuspended, Judged
<1>11. RestartAsked'
  BY <1>1, Basics DEF RInv, RestartAsked, Judged
<1>12. Returnable'
  BY <1>1, Basics DEF RInv, Returnable, Judged, RetryablePreflight, Untouched
<1>13. Paid'
  <2>1. \/ Len(v'.pending) = Len(v.pending) /\ Step(v') = Step(v)
        \/ Len(v'.pending) = Len(v.pending) + 1 /\ Step(v') = Step(v) + 1
    BY DEF Judged
  <2>2. quota' = quota /\ Step(v) \in Nat
    BY Basics, Fields
  <2>3. QED
    BY <2>1, <2>2, StillPaid DEF RInv, Paid
<1>14. QED
  BY <1>2, <1>3, <1>4, <1>5, <1>6, <1>7, <1>8, <1>9, <1>10, <1>11, <1>12, <1>13 DEF
     RInv

\* The check of a published session, up to the list it builds.
LEMMA CheckMetadataKeeps == ASSUME RInv, CheckMetadata PROVE RInv'
<1> USE DEF RecipePlaces, Leaving, Destroying, Calls, Following, CreatePlaces,
   Metadata, cvars, world, count
<1>1. /\ rpc = "phase" /\ v.phase = "Published" /\ ~v.terminal
      /\ UNCHANGED <<cvars, requested, op, suspended, task, late, foreign, count>>
  BY DEF CheckMetadata, InPhase, RInv, Places
<1>2. /\ nat.recipe /\ nat.cancel /\ requested = TRUE /\ opc = "idle"
      /\ {"Published", "Recipe"} \subseteq v.flags /\ "Retryable" \notin v.flags
      /\ nat.head = "none" \/ "Restart" \in v.flags
  BY <1>1, InMetadata DEF RInv, Lent
<1>3. CASE /\ v' \in {v, NotReady(v)} /\ rpc' = "idle"
           /\ UNCHANGED <<nat, quota, transport>>
  <2>1. /\ v' \in Attempts /\ Sound(v') /\ v'.phase = v.phase
        /\ v'.pending = v.pending /\ v'.terminal = v.terminal /\ v'.exc = v.exc
        /\ v'.flags = v.flags /\ Step(v') = Step(v)
    BY <1>1, <1>3, Basics, NotReadyIsSound
  <2>2. QED
    BY <1>1, <1>2, <1>3, <2>1, Basics, MetadataKeeps
<1>4. CASE /\ \E coherent \in BOOLEAN : v' = Completed(v, coherent)
           /\ rpc' = "after" /\ UNCHANGED <<nat, quota, transport>>
  <2>1. Judged(v, v')
    BY <1>1, <1>2, <1>4, Basics, CompletedIsSound
  <2>2. QED
    BY <1>1, <1>2, <1>4, <2>1, Basics, MetadataKeeps
<1>5. CASE InputsFault /\ rpc' = "after" /\ nat' = nat
  <2>1. /\ Faulted(v, v', FALSE)
        /\ quota' \in {quota, NoQuota} /\ transport' \in {transport, "Revoked"}
    BY <1>1, <1>5, Basics, InputsFaults
  <2>2. QED
    BY <1>1, <1>2, <1>5, <2>1, FaultKeeps
<1>6. CASE /\ LeaseMayHold(v) /\ nat' = [nat EXCEPT !.head = "owned"] /\ rpc' = "update"
           /\ UNCHANGED <<v, quota, transport>>
  <2>1. /\ nat' \in NatStates /\ nat'.recipe /\ nat'.cancel /\ nat'.create = nat.create
        /\ nat'.resource = nat.resource
    BY <1>2, <1>6, Basics DEF NatStates
  <2>2. QED
    BY <1>1, <1>2, <1>6, <2>1, Basics, MetadataKeeps
<1>7. CASE v' = Excepted(v) /\ rpc' = "idle" /\ UNCHANGED <<nat, quota, transport>>
  <2>1. Threw(v, v')
    BY <1>1, <1>7, Basics, Uncaught, ExceptionIsSound
  <2>2. QED
    BY <1>1, <1>2, <1>7, <2>1, Basics, ThrowKeeps
<1>8. QED
  BY <1>3, <1>4, <1>5, <1>6, <1>7 DEF CheckMetadata

\* The list is filled and handed over, or not.
LEMMA UpdateMetadataKeeps == ASSUME RInv, UpdateMetadata PROVE RInv'
<1> USE DEF RecipePlaces, Leaving, Destroying, Calls, Following, CreatePlaces,
   Metadata, cvars, world, count
<1>1. /\ rpc = "update" /\ v.phase = "Published" /\ ~v.terminal
      /\ UNCHANGED <<cvars, nat, requested, op, suspended, task, late, foreign, count>>
  BY DEF UpdateMetadata, RInv, Places
<1>2. /\ nat.recipe /\ nat.cancel /\ requested = TRUE /\ opc = "idle"
      /\ {"Published", "Recipe"} \subseteq v.flags /\ "Retryable" \notin v.flags
  BY <1>1, InMetadata
<1>3. CASE v' = v /\ rpc' = "destroy" /\ UNCHANGED <<quota, transport>>
  BY <1>1, <1>2, <1>3, Basics, MetadataKeeps
<1>4. CASE InputsFault /\ rpc' = "destroy"
  <2>1. /\ Faulted(v, v', FALSE)
        /\ quota' \in {quota, NoQuota} /\ transport' \in {transport, "Revoked"}
    BY <1>1, <1>4, Basics, InputsFaults
  <2>2. QED
    BY <1>1, <1>2, <1>4, <2>1, FaultKeeps
<1>5. ASSUME NEW f \in {{}, {"Attempted"}}
      PROVE  LET x == [v EXCEPT !.flags = @ \cup f] IN
             /\ x \in Attempts /\ Sound(x) /\ Step(x) = Step(v) /\ x.pending = v.pending
             /\ x.phase = v.phase /\ ~x.terminal /\ x.exc = v.exc /\ x.flags = v.flags \cup f
  <2>1. /\ f \in SUBSET {"CreateObserved", "ForwardEntered", "ForwardDone", "Attempted"}
        /\ "ForwardEntered" \notin f /\ "ForwardDone" \notin f
    BY <1>5
  <2>2. QED
    BY <1>1, <1>2, <2>1, Basics, NoteIsSound
<1>6. CASE /\ v' = [v EXCEPT !.flags = @ \cup {"Attempted"}] /\ rpc' = "destroyUpdated"
           /\ UNCHANGED <<quota, transport>>
  <2>1. /\ v' \in Attempts /\ Sound(v') /\ v'.phase = v.phase
        /\ v'.pending = v.pending /\ v'.terminal = v.terminal /\ v'.exc = v.exc
        /\ v'.flags = v.flags \cup {"Attempted"} /\ Step(v') = Step(v)
    BY <1>1, <1>5, <1>6, Basics
  <2>2. QED
    BY <1>1, <1>2, <1>6, <2>1, Basics, MetadataKeeps
<1>7. ASSUME NEW f \in {{}, {"Attempted"}}, v' = Excepted([v EXCEPT !.flags = @ \cup f]),
             rpc' = "destroyUnwinding", UNCHANGED <<quota, transport>>
      PROVE  RInv'
  <2> DEFINE w == [v EXCEPT !.flags = @ \cup f]
  <2>1. /\ w \in Attempts /\ Sound(w) /\ w.pending = v.pending
        /\ w.phase = v.phase /\ ~w.terminal /\ w.flags = v.flags \cup f
    BY <1>5, <1>7
  <2>2. v' = Excepted(w)
    BY <1>7
  <2> HIDE DEF w
  <2>3. "Exception" \notin w.flags /\ "Retryable" \notin w.flags
    BY <1>2, <1>7, <2>1 DEF Sound, Ends
  <2>4. Threw(w, v')
    BY <2>1, <2>2, <2>3, ExceptionIsSound
  <2>5. /\ v.flags \subseteq w.flags
        /\ w.flags \subseteq v.flags \cup {"Attempted", "Restart", "Unverified"}
    BY <1>7, <2>1
  <2>6. QED
    BY <1>1, <1>2, <1>7, <2>1, <2>4, <2>5, Basics, ThrowKeeps
<1>8. QED
  BY <1>3, <1>4, <1>6, <1>7 DEF UpdateMetadata

\* An inverse that cannot be proved always asks for the restart.
LEMMA LostIsTold ==
    ASSUME NEW w \in Attempts, Sound(w), "Retryable" \notin w.flags
    PROVE  Faulted(w, InverseLost(w), TRUE) /\ "Restart" \in InverseLost(w).flags
<1>1. Faulted(w, InverseLost(w), TRUE)
  BY FaultIsSound DEF InverseLost, Reasons, Outcomes
<1>2. "Restart" \in InverseLost(w).flags
  BY DEF InverseLost, Fault, Spared, Attempts
<1>3. QED
  BY <1>1, <1>2

\* The list is destroyed once, on every way out.
LEMMA DestroyMetadataKeeps == ASSUME RInv, DestroyMetadata PROVE RInv'
<1> USE DEF RecipePlaces, Leaving, Destroying, Calls, Following, CreatePlaces,
   Metadata, cvars, world, count
<1>1. /\ rpc \in Destroying /\ v.phase = "Published"
      /\ UNCHANGED <<cvars, requested, op, quota, suspended, task, world, count>>
  BY DEF DestroyMetadata, RInv, Places
<1>2. /\ nat.recipe /\ nat.cancel /\ requested = TRUE /\ opc = "idle"
      /\ {"Published", "Recipe"} \subseteq v.flags /\ "Retryable" \notin v.flags
  BY <1>1, InMetadata
<1>3. CASE /\ v' = InverseLost(v) /\ nat' = nat
           /\ rpc' = IF rpc = "destroyUnwinding" THEN "idle" ELSE "after"
  <2>1. Faulted(v, v', TRUE) /\ "Restart" \in v'.flags
    BY <1>2, <1>3, Basics, LostIsTold
  <2>2. v' \in Attempts /\ Sound(v')
    BY <2>1 DEF Faulted
  <2>3. WorldType'
    BY <1>1, <1>2, <1>3, <2>1, Basics DEF RInv, WorldType, Faulted, RPlaces
  <2>4. Resting'
    BY <1>1, <1>2, <1>3, <2>1, Basics DEF RInv, Resting, Faulted, Untouched
  <2>5. RecipeOnce'
    BY <1>1, <1>2, <1>3, <2>1, Basics DEF RInv, RecipeOnce, Faulted
  <2>6. OwnerThread'
    BY <1>1, <1>2, <1>3, <2>1, Basics DEF RInv, OwnerThread, Faulted
  <2>7. Places'
    BY <1>1, <1>2, <1>3, <2>1, Basics DEF RInv, Places, Sound, Ends, Faulted
  <2>8. Phased'
    BY <1>1, <1>2, <1>3, <2>1, Basics DEF RInv, Phased, Faulted
  <2>9. Lent'
    BY <1>1, <1>2, <1>3, <2>1, Basics DEF RInv, Lent, Faulted, Owns
  <2>10. CancelledStaysSuspended'
    BY <1>1, <1>2, <1>3, <2>1, Basics DEF RInv, CancelledStaysSuspended, Faulted
  <2>11. RestartAsked'
    BY <1>1, <1>2, <1>3, <2>1, Basics DEF RInv, RestartAsked, Faulted
  <2>12. Returnable'
    BY <1>1, <1>2, <1>3, <2>1, Basics DEF RInv, Returnable, Faulted,
       RetryablePreflight, Untouched
  <2>13. Paid'
    BY <1>1, <1>2, <1>3, <2>1, Basics DEF RInv, Paid, Faulted
  <2>14. QED
    BY <2>2, <2>3, <2>4, <2>5, <2>6, <2>7, <2>8, <2>9, <2>10, <2>11, <2>12, <2>13
       DEF RInv
<1>4. nat' = [nat EXCEPT !.head = "none"] =>
        /\ nat' \in NatStates /\ nat'.recipe /\ nat'.cancel /\ nat'.create = nat.create
        /\ nat'.resource = nat.resource /\ nat'.head = "none"
  BY <1>2, Basics DEF NatStates
<1>5. CASE /\ nat' = [nat EXCEPT !.head = "none"]
           /\ v' = IF rpc = "destroy" /\ ~v.terminal THEN NotReady(v) ELSE v
           /\ rpc' = CASE rpc = "destroyUpdated" -> "recheck"
                       [] rpc = "destroy" /\ v.terminal -> "after"
                       [] OTHER -> "idle"
  <2>1. /\ v' \in Attempts /\ Sound(v') /\ v'.phase = v.phase
        /\ v'.pending = v.pending /\ v'.terminal = v.terminal /\ v'.exc = v.exc
        /\ v'.flags = v.flags /\ Step(v') = Step(v)
    BY <1>5, Basics, NotReadyIsSound
  <2>2. rpc' \in {"idle", "after", "recheck"} /\ (rpc' = "recheck" => ~v.terminal)
    BY <1>5 DEF RInv, Places
  <2>3. QED
    BY <1>1, <1>2, <1>4, <1>5, <2>1, <2>2, Basics, MetadataKeeps
<1>6. CASE /\ rpc = "destroy" /\ ~v.terminal
           /\ nat' = [nat EXCEPT !.head = "none"]
           /\ v' = Completed(v, FALSE) /\ rpc' = "after"
  <2>1. Judged(v, v')
    BY <1>1, <1>2, <1>6, Basics, CompletedIsSound
  <2>2. QED
    BY <1>1, <1>2, <1>4, <1>6, <2>1, Basics, MetadataKeeps
<1>7. CASE v' = Excepted(v) /\ rpc' = "idle" /\ nat' = [nat EXCEPT !.head = "lost"]
  <2>1. Threw(v, v')
    BY <1>1, <1>2, <1>7, Basics, Uncaught, ExceptionIsSound
  <2>2. /\ nat' \in NatStates /\ nat'.recipe /\ nat'.cancel /\ nat'.create = nat.create
    BY <1>2, <1>7, Basics DEF NatStates
  <2>3. QED
    BY <1>1, <1>2, <1>7, <2>1, <2>2, Basics, ThrowKeeps
<1>8. QED
  BY <1>3, <1>5, <1>6, <1>7 DEF DestroyMetadata

\* The metadata is read again after the update.
LEMMA RecheckMetadataKeeps == ASSUME RInv, RecheckMetadata PROVE RInv'
<1> USE DEF RecipePlaces, Leaving, Destroying, Calls, Following, CreatePlaces,
   Metadata, cvars, world, count
<1>1. /\ rpc = "recheck" /\ v.phase = "Published" /\ ~v.terminal /\ rpc' = "after"
      /\ UNCHANGED <<cvars, nat, requested, op, suspended, task, late, foreign, count>>
  BY DEF RecheckMetadata, RInv, Places
<1>2. /\ nat.recipe /\ nat.cancel /\ requested = TRUE /\ opc = "idle"
      /\ {"Published", "Recipe"} \subseteq v.flags /\ "Retryable" \notin v.flags
      /\ nat.head = "none" \/ "Restart" \in v.flags
  BY <1>1, InMetadata DEF RInv, Lent
<1>3. CASE /\ \E coherent \in BOOLEAN : v' = Completed(v, coherent)
           /\ UNCHANGED <<quota, transport>>
  <2>1. Judged(v, v')
    BY <1>1, <1>2, <1>3, Basics, CompletedIsSound
  <2>2. QED
    BY <1>1, <1>2, <1>3, <2>1, Basics, MetadataKeeps
<1>4. CASE InputsFault
  <2>1. /\ Faulted(v, v', FALSE)
        /\ quota' \in {quota, NoQuota} /\ transport' \in {transport, "Revoked"}
    BY <1>1, <1>4, Basics, InputsFaults
  <2>2. QED
    BY <1>1, <1>2, <1>4, <2>1, FaultKeeps
<1>5. QED
  BY <1>3, <1>4 DEF RecheckMetadata

-----------------------------------------------------------------------------
(* The end of a visit, and its beginning.                                  *)

\* What is written of the queue is at most the queue.
LEMMA EmittedBounded ==
    ASSUME NEW w \in Attempts
    PROVE  Cardinality(Emitted(w)) \in Nat /\ Cardinality(Emitted(w)) <= Len(w.pending)
<1> DEFINE n == Len(w.pending)
<1>1. n \in Nat /\ DOMAIN w.pending = 1..n
  BY Fields
<1>2. IsFiniteSet(1..n) /\ Cardinality(1..n) = n
  BY <1>1, FS_Interval
<1>3. Emitted(w) \subseteq 1..n
  BY <1>1 DEF Emitted
<1>4. /\ IsFiniteSet(Emitted(w)) /\ Cardinality(Emitted(w)) <= Cardinality(1..n)
  BY <1>2, <1>3, FS_Subset
<1>5. QED
  BY <1>2, <1>4, FS_CardinalityType

\* A visit ends, and writes its records if the credit allows (Flush).
LEMMA EndVisitKeeps == ASSUME RInv, EndVisit PROVE RInv'
<1> USE DEF RecipePlaces, Leaving, Destroying, Calls, Following, CreatePlaces,
   Metadata, cvars, world, count
<1>1. /\ rpc = "after" /\ requested = TRUE /\ opc = "idle"
      /\ UNCHANGED <<cvars, nat, requested, op, suspended, task, world, count>>
      /\ rpc' = IF v.terminal THEN "terminal" ELSE "idle"
  BY Basics DEF EndVisit
<1>2. \/ v' = v /\ quota' = quota
      \/ /\ v' = Flushed(v) /\ quota' = quota - Cardinality(Emitted(v))
         /\ quota > 0 /\ Cardinality(Emitted(v)) <= quota
  BY DEF EndVisit, Flushes
<1>3. /\ v' \in Attempts /\ Sound(v') /\ v'.pending \in {v.pending, <<>>} /\ Step(v') = Step(v)
      /\ v'.phase = v.phase /\ v'.terminal = v.terminal /\ v'.exc = v.exc
      /\ v'.flags = v.flags /\ v'.outcome = v.outcome
  BY <1>2, Basics, FlushIsSound
<1>4. quota' \in {NoQuota} \cup 0..RecordCap /\ Paid'
  <2>1. /\ Cardinality(Emitted(v)) \in Nat /\ Cardinality(Emitted(v)) <= Len(v.pending)
        /\ Len(v.pending) \in Nat
    BY Basics, EmittedBounded
  <2>2. quota \in {NoQuota} \cup 0..RecordCap /\ Paid /\ RecordCap \in Nat /\ Step(v) \in Nat
    BY Basics, Fields, RecoveryAssumption DEF RInv, WorldType
  <2>3. CASE v' = v /\ quota' = quota
    BY <2>2, <2>3 DEF Paid
  <2>4. CASE /\ v' = Flushed(v) /\ quota' = quota - Cardinality(Emitted(v))
             /\ quota > 0 /\ Cardinality(Emitted(v)) <= quota
    <3>1. Len(v'.pending) = 0 /\ Step(v') = Step(v)
      BY <2>4, Basics, FlushIsSound
    <3>2. quota \in 1..RecordCap /\ quota - Len(v.pending) >= RecordCap - Step(v)
      BY <2>2, <2>4 DEF Paid, NoQuota
    <3>3. quota' \in 0..RecordCap /\ quota' - 0 >= RecordCap - Step(v)
      BY <2>1, <2>2, <2>4, <3>2
    <3>4. QED
      BY <3>1, <3>3 DEF Paid
  <2>5. QED
    BY <1>2, <2>3, <2>4
<1>5. quota = NoQuota => quota' = NoQuota
  BY <1>2 DEF NoQuota
<1>6. WorldType'
  BY <1>1, <1>3, <1>4, <1>5, Basics DEF RInv, WorldType, RPlaces
<1>7. Resting'
  BY <1>1, <1>3, <1>4, <1>5, Basics DEF RInv, Resting, Untouched
<1>8. RecipeOnce'
  BY <1>1, <1>3, <1>4, <1>5, Basics DEF RInv, RecipeOnce
<1>9. OwnerThread'
  BY <1>1, <1>3, <1>4, <1>5, Basics DEF RInv, OwnerThread
<1>10. Places'
  BY <1>1, <1>3, <1>4, <1>5, Basics DEF RInv, Places
<1>11. Phased'
  BY <1>1, <1>3, <1>4, <1>5, Basics DEF RInv, Phased
<1>12. Lent'
  BY <1>1, <1>3, <1>4, <1>5, Basics DEF RInv, Lent, Owns
<1>13. CancelledStaysSuspended'
  BY <1>1, <1>3, <1>4, <1>5, Basics DEF RInv, CancelledStaysSuspended
<1>14. RestartAsked'
  BY <1>1, <1>3, <1>4, <1>5, Basics DEF RInv, RestartAsked
<1>15. Returnable'
  BY <1>1, <1>3, <1>4, <1>5, Basics DEF RInv, Returnable, RetryablePreflight, Untouched
<1>16. Paid'
  BY <1>4
<1>17. QED
  BY <1>3, <1>6, <1>7, <1>8, <1>9, <1>10, <1>11, <1>12, <1>13, <1>14, <1>15, <1>16
     DEF RInv

\* A visit looks for a foreign callback and an expired attempt first.
LEMMA LateFaults ==
    ASSUME v \in Attempts, Sound(v), nat.cancel \in BOOLEAN, "Retryable" \notin v.flags,
           NEW late2 \in BOOLEAN
    PROVE  LET w == Foreigned(v)
               x == IF ~w.terminal /\ late2 THEN Refused(w, nat.cancel) ELSE w
           IN  x = v \/ Faulted(v, x, nat.cancel)
<1> DEFINE w == Foreigned(v)
           x == IF ~w.terminal /\ late2 THEN Refused(w, nat.cancel) ELSE w
<1>1. \A u \in Attempts, r \in BOOLEAN : Sound(u) /\ "Retryable" \notin u.flags =>
         Faulted(u, Refused(u, r), r)
  BY FaultIsSound DEF Refused, Reasons, Outcomes
<1>2. w = v \/ Faulted(v, w, TRUE)
  BY <1>1 DEF Foreigned
<1> HIDE DEF w
<1>3. x = w \/ (~w.terminal /\ x = Refused(w, nat.cancel))
  OBVIOUS
<1> HIDE DEF x
<1>4. Faulted(v, w, TRUE) => w.terminal /\ Faulted(v, w, nat.cancel)
  BY DEF Faulted
<1>5. x = v \/ Faulted(v, x, nat.cancel)
  BY <1>1, <1>2, <1>3, <1>4
<1>6. QED
  BY <1>5 DEF x, w

\* A visit begins on an attempt that is under way.
LEMMA ContinueKeeps == ASSUME RInv, Continue PROVE RInv'
<1> USE DEF RecipePlaces, Leaving, Destroying, Calls, Following, CreatePlaces,
   Metadata, cvars, world, count
<1>1. /\ rpc = "idle" /\ opc = "idle" /\ requested = TRUE /\ "Retryable" \notin v.flags
      /\ rpc' = IF v'.terminal THEN "terminal" ELSE "phase"
      /\ UNCHANGED <<cvars, nat, requested, op, quota, suspended, task, world, count>>
  BY DEF Continue, ServiceDue, Onward, RInv, WorldType
<1>2. v' = v \/ Faulted(v, v', nat.cancel)
  <2>1. v' = IF ~Foreigned(v).terminal /\ late = 2 THEN Refused(Foreigned(v), nat.cancel)
             ELSE Foreigned(v)
    BY DEF Continue, Expired
  <2>2. (late = 2) \in BOOLEAN
    OBVIOUS
  <2>3. QED
    BY <1>1, <2>1, <2>2, Basics, LateFaults
<1>3. v' \in Attempts /\ Sound(v')
  BY <1>2, Basics DEF Faulted
<1>4. WorldType'
  BY <1>1, <1>2, <1>3, Basics DEF RInv, WorldType, Faulted, RPlaces
<1>5. Resting'
  BY <1>1, <1>2, <1>3, Basics DEF RInv, Resting, Faulted, Untouched
<1>6. RecipeOnce'
  BY <1>1, <1>2, <1>3, Basics DEF RInv, RecipeOnce, Faulted
<1>7. OwnerThread'
  BY <1>1, <1>2, <1>3, Basics DEF RInv, OwnerThread, Faulted
<1>8. Places'
  BY <1>1, <1>2, <1>3, Basics DEF RInv, Places, Faulted, Sound, Ends, Phased
<1>9. Phased'
  BY <1>1, <1>2, <1>3, Basics DEF RInv, Phased, Faulted
<1>10. Lent'
  BY <1>1, <1>2, <1>3, Basics DEF RInv, Lent, Faulted, Owns
<1>11. CancelledStaysSuspended'
  BY <1>1, <1>2, <1>3, Basics DEF RInv, CancelledStaysSuspended, Faulted
<1>12. RestartAsked'
  BY <1>1, <1>2, <1>3, Basics DEF RInv, RestartAsked, Faulted
<1>13. Returnable'
  BY <1>1, <1>2, <1>3, Basics DEF RInv, Returnable, Faulted, RetryablePreflight,
     Untouched
<1>14. Paid'
  BY <1>1, <1>2, <1>3, Basics DEF RInv, Paid, Faulted
<1>15. QED
  BY <1>3, <1>4, <1>5, <1>6, <1>7, <1>8, <1>9, <1>10, <1>11, <1>12, <1>13, <1>14 DEF
     RInv

\* The end of an attempt: its last phase, with everything recorded or to be.
Closed(w, x) ==
    /\ x \in Attempts /\ Sound(x) /\ x.terminal /\ x.phase = TerminalPhase(w)
    /\ x.flags = w.flags \cup {"Terminal"} /\ x.reason = w.reason /\ x.outcome = w.outcome

\* The last phase agrees with what is public and what is asked for.
LEMMA LastPhase ==
    ASSUME NEW w \in Attempts, Sound(w), w.terminal, nat.cancel \in BOOLEAN,
           nat.cancel /\ "Published" \notin w.flags => "Restart" \in w.flags
    PROVE  LET p == TerminalPhase(w) IN
           /\ p \in Ended /\ p \in Phases
           /\ p = "Failed" <=> "Restart" \in w.flags
           /\ p = "Observed" => "Published" \in w.flags
           /\ "Published" \in w.flags => p \in {"Observed", "Failed"}
           /\ p = "Rejected" => ~nat.cancel
<1>1. TerminalPhase(w) \in Ended /\ TerminalPhase(w) \in Phases
  BY DEF TerminalPhase, Ended, Phases
<1>2. QED
  BY <1>1 DEF TerminalPhase

\* A capture that is not the normal pump (the unsupported visit).
LEMMA VisitUnsupportedKeeps == ASSUME RInv, VisitUnsupported PROVE RInv'
<1> USE DEF RecipePlaces, Leaving, Destroying, Calls, Following, CreatePlaces,
   Metadata, cvars, world, count
<1> DEFINE timed == v.phase \in {"Qualifying", "FinishSubmitted", "FinishAccepted"}
           w == Foreigned(v)
           x == IF ~w.terminal /\ (late = 2 \/ (timed /\ late = 1))
                THEN Refused(w, nat.cancel) ELSE w
           p == TerminalPhase(x)
<1>1. /\ rpc = "idle" /\ opc = "idle" /\ requested = TRUE /\ rpc' = rpc
      /\ UNCHANGED <<cvars, nat, requested, op, task, world, count>>
  BY DEF VisitUnsupported, ServiceDue, RInv, WorldType
<1>2. /\ x = v \/ (Faulted(v, x, nat.cancel) /\ "Retryable" \notin v.flags)
  <2>1. CASE "Retryable" \in v.flags
    BY <2>1, Basics DEF Foreigned, RInv, Returnable
  <2>2. CASE "Retryable" \notin v.flags
    <3> DEFINE b == late = 2 \/ (timed /\ late = 1)
    <3>1. x = IF ~Foreigned(v).terminal /\ b THEN Refused(Foreigned(v), nat.cancel)
              ELSE Foreigned(v)
      OBVIOUS
    <3>2. b \in BOOLEAN
      OBVIOUS
    <3> HIDE DEF b, x
    <3>3. QED
      BY <2>2, <3>1, <3>2, Basics, LateFaults
  <2>3. QED
    BY <2>1, <2>2
<1>3. CASE x.terminal
  <2>1. /\ v' = [x EXCEPT !.phase = p, !.flags = @ \cup {"Terminal"}, !.pending = <<>>,
                          !.final = ~nat.recipe /\ p = "Rejected"]
        /\ quota' = NoQuota
        /\ \E safe \in BOOLEAN : suspended' = StillSuspended(x, safe)
    BY <1>3 DEF VisitUnsupported, ReleaseCapture
  <2> HIDE DEF w, timed, x
  <2>2. /\ x \in Attempts /\ Sound(x) /\ x.phase = v.phase /\ x.exc = v.exc
        /\ v.flags \subseteq x.flags /\ x.flags \subseteq v.flags \cup {"Restart", "Unverified"}
        /\ nat.cancel /\ "Published" \notin x.flags => "Restart" \in x.flags
        /\ "Retryable" \in v.flags => x = v
    BY <1>2, <1>3, Basics DEF Faulted, RInv, RestartAsked
  <2>3. /\ p \in Ended /\ p \in Phases
        /\ p = "Failed" <=> "Restart" \in x.flags
        /\ p = "Observed" => "Published" \in x.flags
        /\ "Published" \in x.flags => p \in {"Observed", "Failed"}
        /\ p = "Rejected" => ~nat.cancel
    BY <1>3, <2>2, Basics, LastPhase
  <2> HIDE DEF p
  <2>4. /\ v' \in Attempts /\ v'.phase = p /\ v'.terminal = TRUE /\ v'.pending = <<>>
        /\ v'.final \in BOOLEAN /\ v'.exc = x.exc /\ v'.flags = x.flags \cup {"Terminal"}
        /\ v'.reason = x.reason /\ v'.outcome = x.outcome
    <3>1. x.flags \cup {"Terminal"} \in SUBSET Flags
      BY <2>2, Fields DEF Flags
    <3>2. (~nat.recipe /\ p = "Rejected") \in BOOLEAN
      OBVIOUS
    <3>3. <<>> \in Seq(Records)
      BY EmptySeq
    <3>4. QED
      BY <1>3, <2>1, <2>2, <2>3, <3>1, <3>2, <3>3 DEF Attempts
  <2>5. Sound(v')
    <3>1. Ends(v') /\ Blames(v') /\ Publishes(v')
      BY <1>3, <2>2, <2>3, <2>4 DEF Sound, Ends, Blames, Publishes, Ended
    <3>2. Budget(v')
      <4>1. Over(v') = 1 /\ Len(v'.pending) = 0 /\ ExcDue(v') <= Thrown(v')
        BY <2>4, <3>1 DEF Over, Ends, ExcDue, Thrown
      <4>2. QED
        BY <2>4, <4>1, BitsAreBits DEF Budget, Bits, Earned
    <3>3. QED
      BY <3>1, <3>2 DEF Sound
  <2>6. "Published" \in x.flags /\ "Restart" \notin x.flags => nat.cancel
    BY <2>2 DEF Sound, Publishes, Ends, RInv, Phased
  <2>7. /\ suspended' \in BOOLEAN /\ (suspended' => suspended)
        /\ nat.cancel /\ "Published" \notin x.flags => suspended'
    BY <1>1, <2>1, <2>2, Basics DEF StillSuspended, RInv, CancelledStaysSuspended,
       WorldType
  <2>8. WorldType'
    BY <1>1, <1>3, <2>2, <2>3, <2>4, <2>6, <2>7, <2>1, Basics DEF RInv, WorldType,
       RPlaces
  <2>9. Resting'
    BY <1>1, <1>3, <2>2, <2>3, <2>4, <2>6, <2>7, Basics DEF RInv, Resting, Untouched
  <2>10. RecipeOnce'
    BY <1>1, <1>3, <2>2, <2>3, <2>4, <2>6, <2>7, <2>1, Basics DEF RInv, RecipeOnce
  <2>11. OwnerThread'
    BY <1>1, <1>3, <2>2, <2>3, <2>4, <2>6, <2>7, Basics DEF RInv, OwnerThread
  <2>12. Places'
    BY <1>1, <1>3, <2>2, <2>3, <2>4, <2>6, <2>7, Basics DEF RInv, Places, Ended
  <2>13. Phased'
    BY <1>1, <1>3, <2>2, <2>3, <2>4, <2>6, <2>7, Basics DEF RInv, Phased, Ended
  <2>14. Lent'
    BY <1>1, <1>3, <2>2, <2>3, <2>4, <2>6, <2>7, Basics DEF RInv, Lent, Owns
  <2>15. CancelledStaysSuspended'
    BY <1>1, <1>3, <2>2, <2>3, <2>4, <2>6, <2>7, Basics DEF RInv,
       CancelledStaysSuspended
  <2>16. RestartAsked'
    BY <1>1, <1>3, <2>2, <2>3, <2>4, <2>6, <2>7, Basics DEF RInv, RestartAsked
  <2>17. Returnable'
    <3>1. "Retryable" \in v'.flags => "Retryable" \in v.flags
      BY <2>2, <2>4
    <3>2. ASSUME "Retryable" \in v.flags
          PROVE  /\ x = v /\ p = "Rejected" /\ v'.flags = v.flags /\ owner = "open" /\ op > 0
                 /\ ~nat.recipe /\ v.outcome \in {"Mechanics", "Recording"}
                 /\ {"Enabled", "Terminal"} \subseteq v.flags
                 /\ v.flags \subseteq {"Enabled", "Terminal", "Console", "Retryable"}
      BY <2>2, <2>3, <2>4, <3>2 DEF RInv, Returnable, Ended
    <3>3. QED
      BY <1>1, <2>4, <3>1, <3>2 DEF Returnable
  <2>18. Paid'
    BY <1>1, <1>3, <2>2, <2>3, <2>4, <2>6, <2>7, <2>1 DEF Paid
  <2>19. QED
    BY <2>4, <2>5, <2>8, <2>9, <2>10, <2>11, <2>12, <2>13, <2>14, <2>15, <2>16,
       <2>17, <2>18 DEF RInv
<1>4. CASE ~x.terminal
  <2>1. v' = v /\ UNCHANGED <<quota, suspended>>
    BY <1>2, <1>4 DEF VisitUnsupported, Faulted
  <2>2. WorldType'
    BY <1>1, <2>1, Basics DEF RInv, WorldType, RPlaces
  <2>3. Resting'
    BY <1>1, <2>1, Basics DEF RInv, Resting, Untouched
  <2>4. RecipeOnce'
    BY <1>1, <2>1, Basics DEF RInv, RecipeOnce
  <2>5. OwnerThread'
    BY <1>1, <2>1, Basics DEF RInv, OwnerThread
  <2>6. Places'
    BY <1>1, <2>1, Basics DEF RInv, Places
  <2>7. Phased'
    BY <1>1, <2>1, Basics DEF RInv, Phased
  <2>8. Lent'
    BY <1>1, <2>1, Basics DEF RInv, Lent, Owns
  <2>9. CancelledStaysSuspended'
    BY <1>1, <2>1, Basics DEF RInv, CancelledStaysSuspended
  <2>10. RestartAsked'
    BY <1>1, <2>1, Basics DEF RInv, RestartAsked
  <2>11. Returnable'
    BY <1>1, <2>1, Basics DEF RInv, Returnable, RetryablePreflight, Untouched
  <2>12. Paid'
    BY <1>1, <2>1, Basics DEF RInv, Paid
  <2>13. QED
    BY <2>1, Basics, <2>2, <2>3, <2>4, <2>5, <2>6, <2>7, <2>8, <2>9, <2>10, <2>11,
       <2>12 DEF RInv
<1>5. QED
  BY <1>3, <1>4

\* The record of an exception, and the last record, are queued once each.
LEMMA DuesAreQueued ==
    ASSUME NEW w \in Attempts, Sound(w)
    PROVE  /\ w.exc =>
                LET x == [Queue(w, "Exception") EXCEPT !.exc = FALSE] IN
                /\ x \in Attempts /\ Sound(x) /\ x.phase = w.phase /\ x.terminal = w.terminal
                /\ x.flags = w.flags /\ x.reason = w.reason /\ x.outcome = w.outcome
           /\ w.final =>
                LET x == [Queue(w, "Final") EXCEPT !.final = FALSE] IN
                /\ x \in Attempts /\ Sound(x) /\ x.phase = w.phase /\ x.terminal = w.terminal
                /\ x.flags = w.flags /\ x.reason = w.reason /\ x.outcome = w.outcome
<1> DEFINE e == Queue(w, "Exception")
           f == Queue(w, "Final")
           xe == [e EXCEPT !.exc = FALSE]
           xf == [f EXCEPT !.final = FALSE]
<1>1. Len(w.pending) < RecordCap
  BY Room DEF Sound
<1>2. /\ e \in Attempts /\ Len(e.pending) = Len(w.pending) + 1
      /\ e.phase = w.phase /\ e.terminal = w.terminal /\ e.final = w.final
      /\ e.flags = w.flags /\ e.reason = w.reason /\ e.outcome = w.outcome
  BY <1>1, QueueAppends
<1>3. /\ f \in Attempts /\ Len(f.pending) = Len(w.pending) + 1
      /\ f.phase = w.phase /\ f.terminal = w.terminal /\ f.exc = w.exc
      /\ f.flags = w.flags /\ f.reason = w.reason /\ f.outcome = w.outcome
  BY <1>1, QueueAppends
<1> HIDE DEF e, f
<1>4. /\ xe \in Attempts /\ Len(xe.pending) = Len(w.pending) + 1 /\ xe.exc = FALSE
      /\ xe.phase = w.phase /\ xe.terminal = w.terminal /\ xe.final = w.final
      /\ xe.flags = w.flags /\ xe.reason = w.reason /\ xe.outcome = w.outcome
  BY <1>2 DEF Attempts
<1>5. /\ xf \in Attempts /\ Len(xf.pending) = Len(w.pending) + 1 /\ xf.final = FALSE
      /\ xf.phase = w.phase /\ xf.terminal = w.terminal /\ xf.exc = w.exc
      /\ xf.flags = w.flags /\ xf.reason = w.reason /\ xf.outcome = w.outcome
  BY <1>3 DEF Attempts
<1> HIDE DEF xe, xf
<1>6. Step(xe) = Step(w) /\ Step(xf) = Step(w)
  BY <1>4, <1>5 DEF Step
<1>7. Ends(xe) /\ Blames(xe) /\ Publishes(xe) /\ Ends(xf) /\ Blames(xf) /\ Publishes(xf)
  BY <1>4, <1>5 DEF Sound, Ends, Blames, Publishes
<1>8. ASSUME w.exc PROVE Budget(xe)
  <2>1. /\ Over(xe) = Over(w) /\ Thrown(xe) = Thrown(w) /\ FinalDue(xe) = FinalDue(w)
        /\ ExcDue(xe) = 0 /\ ExcDue(w) = 1
    BY <1>4, <1>8 DEF Over, Thrown, FinalDue, ExcDue
  <2>2. Budget(w) /\ Bits(w) /\ Bits(xe)
    BY <1>4, BitsAreBits DEF Sound
  <2>3. QED
    BY <1>4, <1>6, <2>1, <2>2 DEF Budget, Bits, Earned
<1>9. ASSUME w.final PROVE Budget(xf)
  <2>1. /\ Over(xf) = Over(w) /\ Thrown(xf) = Thrown(w) /\ ExcDue(xf) = ExcDue(w)
        /\ FinalDue(xf) = 0 /\ FinalDue(w) = 1
    BY <1>5, <1>9 DEF Over, Thrown, FinalDue, ExcDue
  <2>2. Budget(w) /\ Bits(w) /\ Bits(xf)
    BY <1>5, BitsAreBits DEF Sound
  <2>3. QED
    BY <1>5, <1>6, <2>1, <2>2 DEF Budget, Bits, Earned
<1>10. QED
  BY <1>4, <1>5, <1>7, <1>8, <1>9 DEF Sound, xe, xf, e, f

\* The end of an attempt keeps what was found out, and adds its last phase.
LEMMA LastMove ==
    ASSUME v \in Attempts, Sound(v), v.terminal, nat.cancel \in BOOLEAN,
           nat.cancel /\ "Published" \notin v.flags => "Restart" \in v.flags
    PROVE  LET w == IF v.phase = TerminalPhase(v) THEN v
                    ELSE Transition([v EXCEPT !.flags = @ \cup {"Terminal"}], TerminalPhase(v))
           IN  Closed(v, w)
<1> DEFINE p == TerminalPhase(v)
           u == [v EXCEPT !.flags = @ \cup {"Terminal"}]
           w == IF v.phase = p THEN v ELSE Transition(u, p)
<1>1. /\ p \in Ended /\ p \in Phases
      /\ p = "Failed" <=> "Restart" \in v.flags
      /\ p = "Observed" => "Published" \in v.flags
      /\ "Published" \in v.flags => p \in {"Observed", "Failed"}
  BY LastPhase
<1>2. /\ u \in Attempts /\ u.phase = v.phase /\ u.terminal = v.terminal /\ u.final = v.final
      /\ u.exc = v.exc /\ u.pending = v.pending /\ u.reason = v.reason
      /\ u.outcome = v.outcome /\ u.flags = v.flags \cup {"Terminal"}
  <2>1. v.flags \cup {"Terminal"} \in SUBSET Flags
    BY Fields DEF Flags
  <2>2. QED
    BY <2>1 DEF Attempts
<1>3. p = TerminalPhase(v)
  OBVIOUS
<1> HIDE DEF p
<1>4. /\ [u EXCEPT !.phase = p].phase = p /\ [u EXCEPT !.phase = p].flags = u.flags
  BY <1>2 DEF Attempts
<1> HIDE DEF u
<1>5. CASE v.phase = p
  <2>1. "Terminal" \in v.flags
    BY <1>1, <1>5 DEF Sound, Ends
  <2>2. v.flags \cup {"Terminal"} = v.flags
    BY <2>1
  <2>3. QED
    BY <1>3, <1>5, <2>2 DEF Closed
<1>6. CASE v.phase # p
  <2>1. v.phase = "Observed" => p = "Failed"
    BY <1>1, <1>6 DEF Sound, Publishes, Ended
  <2>2. v.phase # "Failed"
    BY <1>1, <1>6 DEF Sound, Ends
  <2>3. v.phase = "Rejected" => p = "Failed"
    BY <1>1, <1>6 DEF Sound, Publishes, Ended
  <2>4. Step([u EXCEPT !.phase = p]) > Step(u)
    BY <1>1, <1>2, <1>4, <1>6, <2>1, <2>2, <2>3 DEF Step, Ended
  <2>5. Step(u) = Step(v)
    BY <1>2 DEF Step
  <2>6. Budget(u)
    BY <1>2, <2>5 DEF Sound, Budget, Earned, FinalDue, ExcDue, Over, Thrown
  <2>7. Moved(u, Transition(u, p), p)
    BY <1>1, <1>2, <1>6, <2>4, <2>6, MoveIsRecorded
  <2> DEFINE y == Transition(u, p)
  <2>8. /\ y \in Attempts /\ Budget(y) /\ y.phase = p /\ y.terminal = v.terminal
        /\ y.final = v.final /\ y.exc = v.exc /\ y.flags = v.flags \cup {"Terminal"}
        /\ y.reason = v.reason /\ y.outcome = v.outcome
    BY <1>2, <2>7 DEF Moved
  <2> HIDE DEF y
  <2>9. Ends(y) /\ Blames(y) /\ Publishes(y)
    BY <1>1, <2>8 DEF Sound, Ends, Blames, Publishes, Ended
  <2>10. Closed(v, y)
    BY <1>3, <2>8, <2>9 DEF Closed, Sound
  <2>11. QED
    BY <1>6, <2>10 DEF y, p, u
<1>7. QED
  BY <1>5, <1>6 DEF p, u

\* The last visit (FinishTerminal): what is left of the attempt, and whether its
\* request may be given back.
LEMMA FinishTerminalShape ==
    ASSUME RInv, FinishTerminal
    PROVE  /\ Closed(v, v')
           /\ quota' = NoQuota /\ rpc' \in {"idle", "release"}
           /\ suspended' \in BOOLEAN /\ (suspended' => suspended)
           /\ nat.cancel /\ "Published" \notin v.flags => suspended'
           /\ IF rpc' = "release"
              THEN /\ opc' = "release" /\ v'.pending = <<>> /\ ~suspended'
                   /\ RetryablePreflight(v') /\ C!ReleaseAllowed
              ELSE opc' = opc
<1>1. /\ rpc = "terminal" /\ v.terminal /\ v \in Attempts /\ Sound(v) /\ nat.cancel \in BOOLEAN
      /\ nat.cancel /\ "Published" \notin v.flags => "Restart" \in v.flags
  BY Basics DEF FinishTerminal, RInv, Places, RestartAsked
<1> DEFINE w1 == IF v.phase = TerminalPhase(v) THEN v
                 ELSE Transition([v EXCEPT !.flags = @ \cup {"Terminal"}], TerminalPhase(v))
           w2 == IF w1.exc /\ CaptureAdmission
                 THEN [Queue(w1, "Exception") EXCEPT !.exc = FALSE] ELSE w1
           w3 == IF w2.final THEN [Queue(w2, "Final") EXCEPT !.final = FALSE] ELSE w2
           q(credit) == IF quota = NoQuota /\ w3.pending # <<>> /\ CaptureAdmission /\ credit
                        THEN Len(w3.pending) ELSE quota
           ok(credit) == Flushes(w3, q(credit))
<1>2. PICK credit \in BOOLEAN, safe \in BOOLEAN :
        /\ v' = IF ok(credit) \/ transport = "Revoked" THEN Flushed(w3) ELSE w3
        /\ suspended' = StillSuspended(w3, safe)
        /\ IF /\ ok(credit) /\ CaptureAdmission /\ ~suspended'
              /\ RetryablePreflight(w3) /\ C!ReleaseAllowed
           THEN opc' = "release" /\ rpc' = "release"
           ELSE opc' = opc /\ rpc' = "idle"
  BY DEF FinishTerminal
<1>3. Closed(v, w1)
  BY <1>1, LastMove
<1> HIDE DEF w1
<1>4. Closed(v, w2)
  BY <1>3, DuesAreQueued DEF Closed
<1> HIDE DEF w2
<1>5. Closed(v, w3)
  BY <1>4, DuesAreQueued DEF Closed
<1> HIDE DEF w3
<1>6. /\ Flushed(w3) \in Attempts /\ Sound(Flushed(w3)) /\ Flushed(w3).pending = <<>>
      /\ Flushed(w3).phase = w3.phase /\ Flushed(w3).terminal = w3.terminal
      /\ Flushed(w3).flags = w3.flags /\ Flushed(w3).reason = w3.reason
      /\ Flushed(w3).outcome = w3.outcome
  BY <1>5, FlushIsSound DEF Closed
<1>7. Closed(v, v')
  BY <1>2, <1>5, <1>6 DEF Closed
<1>8. /\ suspended' \in BOOLEAN /\ (suspended' => suspended)
      /\ nat.cancel /\ "Published" \notin v.flags => suspended'
  BY <1>2 DEF StillSuspended, RInv, CancelledStaysSuspended, WorldType
<1>9. quota' = NoQuota
  BY DEF FinishTerminal, ReleaseCapture
<1>10. rpc' = "release" =>
          /\ opc' = "release" /\ v'.pending = <<>> /\ ~suspended'
          /\ RetryablePreflight(v') /\ C!ReleaseAllowed
  <2>1. RetryablePreflight(w3) => RetryablePreflight(Flushed(w3))
    BY <1>6 DEF RetryablePreflight
  <2>2. QED
    BY <1>2, <1>6, <2>1
<1>11. QED
  BY <1>2, <1>7, <1>8, <1>9, <1>10

\* The terminal visit keeps the invariant (FinishTerminal).
LEMMA FinishTerminalKeeps == ASSUME RInv, FinishTerminal PROVE RInv'
<1> USE DEF RecipePlaces, Leaving, Destroying, Calls, Following, CreatePlaces,
   Metadata, cvars, world, count
<1>1. /\ rpc = "terminal" /\ v.terminal /\ requested = TRUE /\ opc = "idle"
      /\ "Retryable" \notin v.flags
      /\ UNCHANGED <<enabled, started, stop, result, latched, registration, wpc, verdict,
                     owner, served, spoiled, nat, requested, op, task, world, count>>
  BY Basics DEF FinishTerminal, RInv, Places
<1>2. /\ v' \in Attempts /\ Sound(v') /\ v'.terminal /\ v'.phase = TerminalPhase(v)
      /\ v'.flags = v.flags \cup {"Terminal"}
      /\ quota' = NoQuota /\ rpc' \in {"idle", "release"}
      /\ suspended' \in BOOLEAN /\ (suspended' => suspended)
      /\ nat.cancel /\ "Published" \notin v.flags => suspended'
      /\ rpc' = "release" =>
           /\ opc' = "release" /\ v'.pending = <<>> /\ ~suspended'
           /\ RetryablePreflight(v') /\ C!ReleaseAllowed
      /\ rpc' # "release" => opc' = opc
  BY FinishTerminalShape DEF Closed
<1>3. nat.cancel /\ "Published" \notin v.flags => "Restart" \in v.flags
  BY <1>1 DEF RInv, RestartAsked
<1>4. /\ v'.phase \in Ended
      /\ v'.phase = "Failed" <=> "Restart" \in v.flags
      /\ v'.phase = "Observed" => "Published" \in v.flags
      /\ v'.phase = "Rejected" => ~nat.cancel
  BY <1>1, <1>2, <1>3, Basics, LastPhase
<1>5. "Published" \in v.flags /\ "Restart" \notin v.flags => nat.cancel
  BY Basics DEF Sound, Publishes, Ends, RInv, Phased
<1>6. rpc' = "release" => ~nat.recipe /\ op > 0 /\ owner = "serving" /\ RetryablePreflight(v)'
  <2>1. ASSUME rpc' = "release"
        PROVE  /\ ~nat.recipe /\ op > 0 /\ ~stop /\ result = "Ready" /\ Schema = 2
               /\ nat = Untouched /\ ~foreign
               /\ v'.flags \cap {"Recipe", "Exception", "Restart", "Published"} = {}
               /\ v'.terminal /\ v'.phase = "Rejected"
               /\ v'.outcome \in {"Mechanics", "Recording"}
               /\ v'.reason \notin {"InvalidRequest", "ClockFault"}
    BY <1>2, <2>1 DEF RetryablePreflight, Untouched, C!ReleaseAllowed
  <2>2. ASSUME rpc' = "release" PROVE RetryablePreflight(v)'
    BY <1>1, <2>1, <2>2 DEF RetryablePreflight, Untouched
  <2>3. QED
    BY <1>1, <2>1, <2>2 DEF RInv, OwnerThread
<1>7. WorldType'
  BY <1>1, <1>2, <1>3, <1>4, <1>5, <1>6, Basics DEF RInv, WorldType, RPlaces
<1>8. Resting'
  BY <1>1, <1>2, <1>3, <1>4, <1>5, <1>6, Basics DEF RInv, Resting, Untouched
<1>9. RecipeOnce'
  BY <1>1, <1>2, <1>3, <1>4, <1>5, <1>6, Basics DEF RInv, RecipeOnce
<1>10. OwnerThread'
  BY <1>1, <1>2, <1>3, <1>4, <1>5, <1>6, Basics DEF RInv, OwnerThread
<1>11. Places'
  BY <1>1, <1>2, <1>3, <1>4, <1>5, <1>6, Basics DEF RInv, Places, Ended
<1>12. Phased'
  BY <1>1, <1>2, <1>3, <1>4, <1>5, <1>6, Basics DEF RInv, Phased, Ended
<1>13. Lent'
  BY <1>1, <1>2, <1>3, <1>4, <1>5, <1>6, Basics DEF RInv, Lent, Owns
<1>14. CancelledStaysSuspended'
  BY <1>1, <1>2, <1>3, <1>4, <1>5, <1>6, Basics DEF RInv, CancelledStaysSuspended
<1>15. RestartAsked'
  BY <1>1, <1>2, <1>3, <1>4, <1>5, <1>6, Basics DEF RInv, RestartAsked
<1>16. Returnable'
  BY <1>1, <1>2, <1>3, <1>4, <1>5, <1>6, Basics DEF Returnable
<1>17. Paid'
  BY <1>1, <1>2, <1>3, <1>4, <1>5, <1>6 DEF Paid
<1>18. QED
  BY <1>2, <1>7, <1>8, <1>9, <1>10, <1>11, <1>12, <1>13, <1>14, <1>15, <1>16, <1>17
     DEF RInv

\* The request goes back to the endpoint, and its rejection may be retried.
LEMMA GiveBackKeeps == ASSUME RInv, GiveBack PROVE RInv'
<1> USE DEF RecipePlaces, Leaving, Destroying, Calls, Following, CreatePlaces,
   Metadata, cvars, world, count
<1>1. /\ rpc = "release" /\ rpc' = "idle" /\ opc' = "idle" /\ owner' = "open"
      /\ requested = TRUE /\ "Retryable" \notin v.flags
      /\ UNCHANGED <<enabled, started, stop, result, verdict,
                     nat, requested, op, quota, suspended, task, world, count>>
  BY Basics DEF GiveBack, C!ReleaseClaim, C!worker
<1>2. /\ nat = Untouched /\ ~nat.recipe /\ ~nat.cancel /\ ~foreign /\ v.terminal
      /\ v.phase = "Rejected" /\ op > 0 /\ v.pending = <<>> /\ quota = NoQuota /\ ~suspended
      /\ v.outcome \in {"Mechanics", "Recording"} /\ "Terminal" \in v.flags
      /\ v.flags \cap {"Recipe", "Exception", "Restart", "Published"} = {}
  BY <1>1 DEF RInv, Returnable, RetryablePreflight, Untouched
<1>3. /\ v' \in Attempts /\ v'.pending = <<>> /\ v'.final = v.final /\ v'.exc = v.exc
      /\ v'.phase = "Rejected" /\ v'.terminal = TRUE /\ v'.reason = v.reason
      /\ v'.outcome = v.outcome /\ v'.flags = v.flags \cup {"Retryable"}
  <2>1. v.flags \cup {"Retryable"} \in SUBSET Flags
    BY Basics DEF Flags
  <2>2. QED
    BY <1>2, <2>1, Basics DEF GiveBack, Attempts
<1>4. /\ {"Enabled", "Terminal"} \subseteq v'.flags
      /\ v'.flags \subseteq {"Enabled", "Terminal", "Console", "Retryable"}
  <2>1. "Enabled" \in v.flags
    BY <1>1, <1>2 DEF RInv, OwnerThread
  <2>2. v.flags \cap {"Cancelled", "CreateObserved"} = {}
    BY <1>2 DEF RInv, RecipeOnce
  <2>3. v.flags \cap {"ForwardEntered", "ForwardDone", "Attempted", "Coherent", "Unverified"} = {}
    BY <1>2, <2>2, Basics DEF Sound, Publishes
  <2>4. QED
    BY <1>2, <1>3, <2>1, <2>2, <2>3, Basics DEF Flags
<1>5. Sound(v')
  <2>1. Ends(v') /\ Blames(v') /\ Publishes(v')
    BY <1>2, <1>3, Basics DEF Sound, Ends, Blames, Publishes, Ended
  <2>2. Budget(v')
    <3>1. Over(v') = 1 /\ Len(v'.pending) = 0 /\ ExcDue(v') <= Thrown(v')
      BY <1>3, <2>1 DEF Over, Ends, ExcDue, Thrown
    <3>2. QED
      BY <1>3, <3>1, BitsAreBits DEF Budget, Bits, Earned
  <2>3. QED
    BY <2>1, <2>2 DEF Sound
<1>6. WorldType'
  BY <1>1, <1>2, <1>3, <1>4, Basics DEF RInv, WorldType, RPlaces
<1>7. Resting'
  BY <1>1, <1>2, <1>3, <1>4, Basics DEF RInv, Resting, Untouched
<1>8. RecipeOnce'
  BY <1>1, <1>2, <1>3, <1>4, Basics DEF RInv, RecipeOnce, Untouched
<1>9. OwnerThread'
  BY <1>1, <1>2, <1>3, <1>4, Basics DEF RInv, OwnerThread
<1>10. Places'
  BY <1>1, <1>2, <1>3, <1>4, Basics DEF RInv, Places
<1>11. Phased'
  BY <1>1, <1>2, <1>3, <1>4, Basics DEF RInv, Phased, Untouched
<1>12. Lent'
  BY <1>1, <1>2, <1>3, <1>4, Basics DEF RInv, Lent, Untouched, Owns
<1>13. CancelledStaysSuspended'
  BY <1>1, <1>2, <1>3, <1>4, Basics DEF RInv, CancelledStaysSuspended
<1>14. RestartAsked'
  BY <1>1, <1>2, <1>3, <1>4, Basics DEF RInv, RestartAsked
<1>15. Returnable'
  BY <1>1, <1>2, <1>3, <1>4, Basics DEF RInv, Returnable, RetryablePreflight, Untouched
<1>16. Paid'
  BY <1>1, <1>2, <1>3, <1>4, Basics DEF RInv, Paid
<1>17. QED
  BY <1>3, <1>5, <1>6, <1>7, <1>8, <1>9, <1>10, <1>11, <1>12, <1>13, <1>14, <1>15,
     <1>16 DEF RInv

-----------------------------------------------------------------------------
(* Requests, and the endpoint.                                             *)

\* An attempt on which nothing has happened yet.
Unused(x) ==
    /\ x \in Attempts /\ Sound(x) /\ ~x.terminal /\ x.pending = <<>>
    /\ x.phase \in {"Disabled", "Armed"} /\ x.flags \subseteq {"Enabled", "Console"}

\* A blank attempt is sound.
LEMMA FreshIsSound ==
    ASSUME NEW x \in Attempts, x.phase \in {"Disabled", "Armed"},
           x.flags \subseteq {"Enabled", "Console"}, ~x.terminal, ~x.final, ~x.exc,
           x.pending = <<>>, x.reason = "None", x.outcome = "None"
    PROVE  Unused(x)
<1>1. Ends(x) /\ Blames(x) /\ Publishes(x)
  BY DEF Ends, Blames, Publishes, Ended
<1>2. Budget(x)
  <2>1. Len(x.pending) = 0 /\ FinalDue(x) = 0 /\ ExcDue(x) = 0
    BY DEF FinalDue, ExcDue
  <2>2. QED
    BY <2>1, BitsAreBits DEF Budget, Bits, Earned
<1>3. QED
  BY <1>1, <1>2 DEF Sound, Unused

\* The attempts the recovery starts with.
LEMMA BlankIsUnused ==
    /\ Unused(Blank) /\ Blank.phase = "Armed" /\ Blank.flags = {"Enabled"}
    /\ LET d == [Blank EXCEPT !.phase = "Disabled", !.flags = {}] IN
       Unused(d) /\ d.phase = "Disabled" /\ d.flags = {}
    /\ LET c == [Blank EXCEPT !.flags = @ \cup {"Console"}] IN
       Unused(c) /\ c.phase = "Armed" /\ c.flags = {"Enabled", "Console"}
<1> DEFINE d == [Blank EXCEPT !.phase = "Disabled", !.flags = {}]
           c == [Blank EXCEPT !.flags = @ \cup {"Console"}]
<1>1. /\ Blank \in Attempts /\ Blank.phase = "Armed" /\ Blank.flags = {"Enabled"}
      /\ ~Blank.terminal /\ ~Blank.final /\ ~Blank.exc /\ Blank.pending = <<>>
      /\ Blank.reason = "None" /\ Blank.outcome = "None"
  <2>1. <<>> \in Seq(Records)
    BY EmptySeq
  <2>2. /\ {"Enabled"} \in SUBSET Flags /\ "Armed" \in Phases
        /\ "None" \in Reasons /\ "None" \in Outcomes
    BY DEF Flags, Phases, Reasons, Outcomes
  <2>3. QED
    BY <2>1, <2>2 DEF Blank, Attempts
<1>2. /\ d \in Attempts /\ d.phase = "Disabled" /\ d.flags = {}
      /\ ~d.terminal /\ ~d.final /\ ~d.exc /\ d.pending = <<>>
      /\ d.reason = "None" /\ d.outcome = "None"
  BY <1>1 DEF Attempts, Phases
<1>3. /\ c \in Attempts /\ c.phase = "Armed" /\ c.flags = {"Enabled", "Console"}
      /\ ~c.terminal /\ ~c.final /\ ~c.exc /\ c.pending = <<>>
      /\ c.reason = "None" /\ c.outcome = "None"
  <2>1. {"Enabled", "Console"} \in SUBSET Flags
    BY DEF Flags
  <2>2. QED
    BY <1>1, <2>1 DEF Attempts
<1> HIDE DEF c, d
<1>4. Unused(Blank) /\ Unused(d) /\ Unused(c)
  BY <1>1, <1>2, <1>3, FreshIsSound
<1>5. QED
  BY <1>1, <1>2, <1>3, <1>4 DEF c, d

\* Before the first request, and for one that was given back, the game is untouched.
LEMMA Between ==
    ASSUME RInv, owner = "open", rpc = "idle"
    PROVE  /\ nat = Untouched /\ ~nat.recipe /\ ~nat.cancel /\ nat.create = "none"
           /\ nat.head = "none" /\ nat.resource = "None" /\ quota = NoQuota
           /\ ~suspended /\ ~foreign
           /\ requested => "Retryable" \in v.flags
<1>1. requested => "Retryable" \in v.flags
  BY DEF RInv, OwnerThread
<1>2. ~nat.recipe
  BY DEF RInv, RecipeOnce
<1>3. nat = Untouched /\ quota = NoQuota /\ ~suspended /\ ~foreign
  BY <1>2 DEF RInv, RecipeOnce
<1>4. QED
  BY <1>1, <1>2, <1>3 DEF Untouched

\* A request is taken up on a fresh attempt (NewRequest).
LEMMA NewRequestKeeps == ASSUME RInv, NewRequest PROVE RInv'
<1> USE DEF RecipePlaces, Leaving, Destroying, Calls, Following, CreatePlaces,
   Metadata, cvars, world, count
<1>1. /\ rpc = "idle" /\ opc = "idle" /\ opc' = "idle" /\ started
      /\ owner = "open" /\ owner' = "serving" /\ requested' = TRUE /\ op \in Nat
      /\ op < MaxRequests /\ op' = op + 1 /\ late' = 0
      /\ UNCHANGED <<enabled, started, stop, result, verdict, nat, quota, suspended, task,
                     transport, foreign, count>>
  BY DEF NewRequest, ServiceDue, C!ServeRequest, C!control, C!worker, RInv, WorldType
<1>2. /\ nat = Untouched /\ ~nat.recipe /\ ~nat.cancel /\ nat.create = "none"
      /\ nat.head = "none" /\ nat.resource = "None" /\ quota = NoQuota
      /\ ~suspended /\ ~foreign
  BY <1>1, Between
<1>3. PICK x \in {Blank, [Blank EXCEPT !.flags = @ \cup {"Console"}]} :
        \/ v' = Transition(x, "Requested") /\ rpc' = "phase"
        \/ v' = Fault(x, "ClockFault", "Mechanics", FALSE) /\ rpc' = "terminal"
  BY DEF NewRequest, Anew
<1>4. /\ Unused(x) /\ x.phase = "Armed" /\ "Enabled" \in x.flags
  BY BlankIsUnused
<1>5. /\ x \in Attempts /\ Sound(x) /\ x.phase = "Armed" /\ "Enabled" \in x.flags
      /\ x.flags \subseteq {"Enabled", "Console"} /\ ~x.terminal
  BY <1>4 DEF Unused
<1>6. /\ v' \in Attempts /\ Sound(v') /\ "Enabled" \in v'.flags
      /\ v'.flags \subseteq {"Enabled", "Console", "Restart", "Unverified"}
      /\ v'.flags \cap {"Published", "Recipe", "Cancelled", "Retryable"} = {}
      /\ \/ rpc' = "phase" /\ v'.phase = "Requested" /\ ~v'.terminal
         \/ rpc' = "terminal" /\ v'.phase = "Armed" /\ v'.terminal
  <2>1. CASE v' = Transition(x, "Requested") /\ rpc' = "phase"
    <3>1. Step([x EXCEPT !.phase = "Requested"]) > Step(x)
      <4>1. /\ [x EXCEPT !.phase = "Requested"].phase = "Requested"
            /\ [x EXCEPT !.phase = "Requested"].flags = x.flags
        BY <1>5 DEF Attempts
      <4>2. "Recipe" \notin x.flags
        BY <1>5
      <4>3. QED
        BY <1>5, <4>1, <4>2 DEF Step
    <3>2. Moved(x, v', "Requested")
      BY <2>1, <1>5, <3>1, MoveIsRecorded DEF Sound, Phases
    <3>3. /\ v' \in Attempts /\ v'.phase = "Requested" /\ v'.flags = x.flags /\ ~v'.terminal
          /\ Ends(v') /\ Blames(v') /\ Publishes(v') /\ Budget(v')
      <4>1. Ends(x) /\ Blames(x) /\ Publishes(x)
        BY <1>5 DEF Sound
      <4>2. QED
        BY <1>5, <3>2, <4>1, Fields DEF Moved, Ends, Blames, Publishes, Ended
    <3>4. QED
      BY <1>5, <2>1, <3>3 DEF Sound
  <2>2. CASE v' = Fault(x, "ClockFault", "Mechanics", FALSE) /\ rpc' = "terminal"
    <3>1. Faulted(x, v', FALSE)
      BY <1>5, <2>2, FaultIsSound DEF Reasons, Outcomes
    <3>2. QED
      BY <1>5, <2>2, <3>1 DEF Faulted
  <2>3. QED
    BY <1>3, <2>1, <2>2
<1>7. WorldType'
  BY <1>1, <1>2, <1>6, Basics, RecoveryAssumption DEF RInv, WorldType, Untouched,
     RPlaces
<1>8. Resting'
  BY <1>1, <1>2, <1>6, Basics DEF RInv, Resting, Untouched
<1>9. RecipeOnce'
  BY <1>1, <1>2, <1>6, Basics DEF RInv, RecipeOnce, Untouched
<1>10. OwnerThread'
  BY <1>1, <1>2, <1>6, Basics DEF RInv, OwnerThread, Untouched
<1>11. Places'
  BY <1>1, <1>2, <1>6, Basics DEF RInv, Places, Untouched
<1>12. Phased'
  BY <1>1, <1>2, <1>6, Basics DEF RInv, Phased, Untouched
<1>13. Lent'
  BY <1>1, <1>2, <1>6, Basics DEF RInv, Lent, Untouched, Owns
<1>14. CancelledStaysSuspended'
  BY <1>1, <1>2, <1>6, Basics DEF RInv, CancelledStaysSuspended, Untouched
<1>15. RestartAsked'
  BY <1>1, <1>2, <1>6, Basics DEF RInv, RestartAsked, Untouched
<1>16. Returnable'
  BY <1>1, <1>2, <1>6, Basics DEF RInv, Returnable, RetryablePreflight, Untouched
<1>17. Paid'
  BY <1>1, <1>2, <1>6, Basics DEF RInv, Paid
<1>18. QED
  BY <1>6, <1>7, <1>8, <1>9, <1>10, <1>11, <1>12, <1>13, <1>14, <1>15,
     <1>16, <1>17 DEF RInv

\* The endpoint can no longer serve: the attempt ends here (NoRequest).
LEMMA NoRequestKeeps == ASSUME RInv, NoRequest PROVE RInv'
<1> USE DEF RecipePlaces, Leaving, Destroying, Calls, Following, CreatePlaces,
   Metadata, cvars, world, count
<1>1. /\ rpc = "idle" /\ rpc' = "terminal" /\ opc = "idle" /\ opc' = "idle" /\ started
      /\ owner = "open" /\ owner' = "spent" /\ requested' = TRUE
      /\ UNCHANGED <<enabled, started, stop, result, verdict, nat, op, quota, suspended, task,
                     world, count>>
  BY DEF NoRequest, ServiceDue, C!RefuseRequest, C!control, C!worker
<1>2. /\ nat = Untouched /\ ~nat.recipe /\ ~nat.cancel /\ nat.create = "none"
      /\ nat.head = "none" /\ nat.resource = "None" /\ quota = NoQuota
      /\ ~suspended /\ ~foreign /\ (requested => "Retryable" \in v.flags)
  BY <1>1, Between
<1>3. /\ v' \in Attempts /\ Sound(v') /\ v'.terminal /\ v'.phase = v.phase
      /\ v'.phase \in {"Disabled", "Armed", "Rejected"}
      /\ v'.flags \subseteq v.flags \cup {"Restart", "Unverified"}
      /\ v.flags \ {"Retryable"} \subseteq v'.flags /\ "Retryable" \notin v'.flags
      /\ op = 0 \/ stop \/ result # "Ready"
  <2>1. CASE requested
    <3>1. /\ stop \/ result # "Ready"
          /\ v' = [v EXCEPT !.flags = @ \ {"Retryable"}, !.reason = "Other", !.final = TRUE]
      BY <2>1 DEF NoRequest
    <3>2. /\ v.terminal /\ v.pending = <<>> /\ v.phase = "Rejected"
          /\ v.outcome \in {"Mechanics", "Recording"}
          /\ v.flags \subseteq {"Enabled", "Terminal", "Console", "Retryable"}
      BY <1>2, <2>1 DEF RInv, Returnable
    <3>3. /\ v' \in Attempts /\ v'.terminal = TRUE /\ v'.phase = v.phase /\ v'.final = TRUE
          /\ v'.exc = v.exc /\ v'.pending = <<>> /\ v'.reason = "Other"
          /\ v'.outcome = v.outcome /\ v'.flags = v.flags \ {"Retryable"}
      <4>1. "Other" \in Reasons
        BY DEF Reasons
      <4>2. QED
        BY <3>1, <3>2, <4>1, Basics DEF Attempts
    <3>4. Ends(v') /\ Blames(v') /\ Publishes(v')
      BY <3>2, <3>3, Basics DEF Sound, Ends, Blames, Publishes
    <3>5. Budget(v')
      <4>1. Over(v') = 1 /\ Len(v'.pending) = 0 /\ ExcDue(v') <= Thrown(v')
        BY <3>3, <3>4 DEF Over, Ends, ExcDue, Thrown
      <4>2. QED
        BY <3>3, <4>1, BitsAreBits DEF Budget, Bits, Earned
    <3>6. QED
      BY <3>1, <3>2, <3>3, <3>4, <3>5 DEF Sound
  <2>2. CASE ~requested
    <3>1. /\ v.phase \in {"Disabled", "Armed"} /\ "Retryable" \notin v.flags /\ op = 0
          /\ v \in Attempts /\ Sound(v)
      BY <2>2, Basics, BlankIsUnused DEF RInv, Resting
    <3>2. v' = Fault(v, "InvalidRequest", "Mechanics", FALSE)
      BY <2>2 DEF NoRequest
    <3>3. Faulted(v, v', FALSE)
      BY <3>1, <3>2, FaultIsSound DEF Reasons, Outcomes
    <3>4. QED
      BY <3>1, <3>3 DEF Faulted
  <2>3. QED
    BY <2>1, <2>2 DEF RInv, WorldType
<1>4. WorldType'
  BY <1>1, <1>2, <1>3, Basics DEF RInv, WorldType, Untouched, RPlaces
<1>5. Resting'
  BY <1>1, <1>2, <1>3, Basics DEF RInv, Resting, Untouched
<1>6. RecipeOnce'
  BY <1>1, <1>2, <1>3, Basics DEF RInv, RecipeOnce, Untouched
<1>7. OwnerThread'
  BY <1>1, <1>2, <1>3, Basics DEF RInv, OwnerThread, Untouched, Resting
<1>8. Places'
  BY <1>1, <1>2, <1>3, Basics DEF RInv, Places, Untouched
<1>9. Phased'
  BY <1>1, <1>2, <1>3, Basics DEF RInv, Phased, Untouched
<1>10. Lent'
  BY <1>1, <1>2, <1>3, Basics DEF RInv, Lent, Untouched, Owns
<1>11. CancelledStaysSuspended'
  BY <1>1, <1>2, <1>3, Basics DEF RInv, CancelledStaysSuspended, Untouched
<1>12. RestartAsked'
  BY <1>1, <1>2, <1>3, Basics DEF RInv, RestartAsked, Untouched
<1>13. Returnable'
  BY <1>1, <1>2, <1>3, Basics DEF RInv, Returnable, RetryablePreflight, Untouched
<1>14. Paid'
  BY <1>1, <1>2, <1>3, Basics DEF RInv, Paid
<1>15. QED
  BY <1>3, <1>4, <1>5, <1>6, <1>7, <1>8, <1>9, <1>10, <1>11, <1>12, <1>13, <1>14 DEF
     RInv

\* The endpoint opens (Arm).
LEMMA ArmKeeps == ASSUME RInv, Arm PROVE RInv'
<1> USE DEF RecipePlaces, Leaving, Destroying, Calls, Following, CreatePlaces,
   Metadata, cvars, world, count
<1>1. /\ rpc = "idle" /\ ~started /\ started' = TRUE /\ stop' = stop /\ opc' = opc
      /\ opc = "idle" /\ owner' = owner /\ verdict' = verdict /\ result' # "Uninitialized"
      /\ UNCHANGED <<nat, requested, op, rpc, quota, suspended, task, world, count>>
  BY DEF Arm, C!StartControl, C!request
<1>2. requested = FALSE
  BY <1>1 DEF RInv, OwnerThread, WorldType
<1>3. /\ v \in {Blank, [Blank EXCEPT !.phase = "Disabled", !.flags = {}]}
      /\ nat = Untouched /\ op = 0 /\ quota = NoQuota /\ ~suspended /\ ~foreign
      /\ owner = "open"
  BY <1>2 DEF RInv, Resting
<1>4. /\ v' \in {Blank, [Blank EXCEPT !.phase = "Disabled", !.flags = {}]}
  BY <1>3 DEF Arm
<1>5. /\ v' \in Attempts /\ Sound(v') /\ v'.phase \in {"Disabled", "Armed"}
      /\ v'.flags \subseteq {"Enabled"} /\ ~v'.terminal
  BY <1>4, BlankIsUnused DEF Unused
<1>6. WorldType'
  BY <1>1, <1>2, <1>3, <1>4, <1>5 DEF RInv, WorldType, Untouched, RPlaces
<1>7. Resting'
  BY <1>1, <1>2, <1>3, <1>4, <1>5 DEF RInv, Resting, Untouched
<1>8. RecipeOnce'
  BY <1>1, <1>2, <1>3, <1>4, <1>5 DEF RInv, RecipeOnce, Untouched
<1>9. OwnerThread'
  BY <1>1, <1>2, <1>3, <1>4, <1>5 DEF RInv, OwnerThread, Untouched
<1>10. Places'
  BY <1>1, <1>2, <1>3, <1>4, <1>5 DEF RInv, Places, Untouched
<1>11. Phased'
  BY <1>1, <1>2, <1>3, <1>4, <1>5 DEF RInv, Phased, Untouched
<1>12. Lent'
  BY <1>1, <1>2, <1>3, <1>4, <1>5 DEF RInv, Lent, Untouched, Owns
<1>13. CancelledStaysSuspended'
  BY <1>1, <1>2, <1>3, <1>4, <1>5 DEF RInv, CancelledStaysSuspended, Untouched
<1>14. RestartAsked'
  BY <1>1, <1>2, <1>3, <1>4, <1>5 DEF RInv, RestartAsked, Untouched
<1>15. Returnable'
  BY <1>1, <1>2, <1>3, <1>4, <1>5 DEF RInv, Returnable, RetryablePreflight, Untouched
<1>16. Paid'
  BY <1>1, <1>2, <1>3, <1>4, <1>5 DEF RInv, Paid
<1>17. QED
  BY <1>5, <1>6, <1>7, <1>8, <1>9, <1>10, <1>11, <1>12, <1>13, <1>14, <1>15, <1>16
     DEF RInv

\* What the pipe, a client and a stop can change of what the owner relies on.
LEMMA EndpointSteps ==
    ASSUME C!WorkerNext \/ C!ClientNext \/ C!StopControl,
           verdict \notin {"Uninitialized", "Ready"}
    PROVE  /\ UNCHANGED <<started, opc, owner>> /\ (stop => stop')
           /\ verdict' \notin {"Uninitialized", "Ready"} /\ result' \in {result, verdict}
<1> USE DEF C!control, C!worker, C!request, C!Ends, C!OrStopped, C!LostVerdict
<1>1. CASE C!StopControl
  BY <1>1 DEF C!StopControl
<1>2. CASE C!ClientNext
  BY <1>2 DEF C!ClientNext, C!ClientConnects, C!ConnectFails
<1>3. CASE C!ConnectStopped \/ C!MessageArrives \/ C!ReadFails \/ C!CheckStopped
  BY <1>3 DEF C!ConnectStopped, C!MessageArrives, C!ReadFails, C!CheckStopped
<1>4. CASE C!PeerRejected \/ C!PeerAccepted \/ C!PipeGuards \/ C!PipeClaims \/ C!PipeLost
  BY <1>4 DEF C!PeerRejected, C!PeerAccepted, C!PipeGuards, C!PipeClaims, C!PipeLost
<1>5. CASE C!Disconnect \/ C!DisconnectFails \/ C!WorkerEnds \/ C!WorkerPosts
  BY <1>5 DEF C!Disconnect, C!DisconnectFails, C!WorkerEnds, C!WorkerPosts
<1>6. QED
  BY <1>1, <1>2, <1>3, <1>4, <1>5 DEF C!WorkerNext

\* The endpoint works beside the recovery, and the console between visits.
LEMMA ControlStepsKeeps == ASSUME RInv, ControlSteps PROVE RInv'
<1> USE DEF RecipePlaces, Leaving, Destroying, Calls, Following, CreatePlaces,
   Metadata, world, count, rvars
<1>1. /\ UNCHANGED rvars
      /\ UNCHANGED <<started, owner>> /\ (stop => stop')
      /\ verdict' \notin {"Uninitialized", "Ready"}
      /\ \/ result' = result \/ (result' # "Uninitialized" /\ result' # "Ready")
         \/ (result = "Uninitialized" /\ result' # "Uninitialized")
      /\ opc' = opc \/ (rpc = "idle" /\ opc \in {"idle", "claim"} /\ opc' \in {"idle", "claim"})
  <2>1. CASE C!WorkerNext \/ C!ClientNext \/ C!StopControl
    BY <2>1, EndpointSteps DEF ControlSteps, RInv, OwnerThread
  <2>2. CASE rpc = "idle" /\ (C!InitializeControl \/ C!RegisterConsole)
    BY <2>2 DEF ControlSteps, C!InitializeControl, C!RegisterConsole, C!worker,
       C!request, RInv, OwnerThread
  <2>3. CASE rpc = "idle" /\ (C!ConsoleGuards \/ C!ConsoleClaims \/ C!ConsoleWithdrawn)
    BY <2>3 DEF ControlSteps, C!ConsoleGuards, C!ConsoleClaims, C!ConsoleWithdrawn,
       C!control, C!worker, C!request, RInv, OwnerThread
  <2>4. QED
    BY <2>1, <2>2, <2>3 DEF ControlSteps
<1>2. WorldType'
  BY <1>1, Basics DEF RInv, WorldType, RPlaces
<1>3. Resting'
  BY <1>1, Basics DEF RInv, Resting, Untouched
<1>4. RecipeOnce'
  BY <1>1, Basics DEF RInv, RecipeOnce
<1>5. OwnerThread'
  BY <1>1, Basics DEF RInv, OwnerThread, Resting, Untouched
<1>6. Places'
  BY <1>1, Basics DEF RInv, Places
<1>7. Phased'
  BY <1>1, Basics DEF RInv, Phased
<1>8. Lent'
  BY <1>1, Basics DEF RInv, Lent, Owns
<1>9. CancelledStaysSuspended'
  BY <1>1, Basics DEF RInv, CancelledStaysSuspended
<1>10. RestartAsked'
  BY <1>1, Basics DEF RInv, RestartAsked
<1>11. Returnable'
  BY <1>1, Basics DEF RInv, Returnable, RetryablePreflight, Untouched
<1>12. Paid'
  BY <1>1, Basics DEF RInv, Paid
<1>13. QED
  BY <1>1, Basics, <1>2, <1>3, <1>4, <1>5, <1>6, <1>7, <1>8, <1>9, <1>10, <1>11,
     <1>12 DEF RInv

-----------------------------------------------------------------------------
(* The invariant.                                                          *)

\* A step that changes nothing.
LEMMA StutterKeeps == ASSUME RInv, UNCHANGED vars PROVE RInv'
<1> USE DEF RecipePlaces, Leaving, Destroying, Calls, Following, CreatePlaces,
   Metadata, cvars, world, count
<1>1. UNCHANGED <<cvars, v, nat, requested, op, rpc, quota, suspended, task, world, count>>
  BY DEF vars, rvars
<1>2. WorldType'
  BY <1>1 DEF RInv, WorldType, RPlaces
<1>3. Resting'
  BY <1>1 DEF RInv, Resting, Untouched
<1>4. RecipeOnce'
  BY <1>1 DEF RInv, RecipeOnce
<1>5. OwnerThread'
  BY <1>1 DEF RInv, OwnerThread
<1>6. Places'
  BY <1>1 DEF RInv, Places
<1>7. Phased'
  BY <1>1 DEF RInv, Phased
<1>8. Lent'
  BY <1>1 DEF RInv, Lent, Owns
<1>9. CancelledStaysSuspended'
  BY <1>1 DEF RInv, CancelledStaysSuspended
<1>10. RestartAsked'
  BY <1>1 DEF RInv, RestartAsked
<1>11. Returnable'
  BY <1>1 DEF RInv, Returnable, RetryablePreflight, Untouched
<1>12. Paid'
  BY <1>1 DEF RInv, Paid
<1>13. QED
  BY <1>1, Basics, <1>2, <1>3, <1>4, <1>5, <1>6, <1>7, <1>8, <1>9, <1>10, <1>11,
     <1>12 DEF RInv

\* Every step keeps the invariant.
LEMMA NextKeeps == ASSUME RInv, [Next]_vars PROVE RInv'
<1>1. CASE Arm \/ ControlSteps \/ Tick
  BY <1>1, ArmKeeps, ControlStepsKeeps, TickKeeps
<1>2. CASE VisitNext
  BY <1>2, ContinueKeeps, NewRequestKeeps, NoRequestKeeps, NotAdmittedKeeps,
     QualifyKeeps, QualifyingWaitsKeeps, PreflightRefusesKeeps, SubmitFinishKeeps,
     RecipeReturnsKeeps, RecipeRefusedKeeps, RecipeThrowsKeeps, RetireKeeps,
     EnqueueKeeps, EnqueueThrowsKeeps, ReleaseOwnedKeeps, ReleaseThrowsKeeps,
     AwaitFinishKeeps, RecreateBeginsKeeps, RecreateKeeps, RecreateThrowsKeeps,
     AwaitCreateKeeps, ForwardReturnsKeeps, ForwardThrowsKeeps, CheckMetadataKeeps,
     UpdateMetadataKeeps, DestroyMetadataKeeps, RecheckMetadataKeeps, EndVisitKeeps,
     FinishTerminalKeeps, GiveBackKeeps DEF VisitNext
<1>3. CASE GameNext
  BY <1>3, FinishCallbackKeeps, CreateCallbackKeeps, NestedCallbackKeeps,
     ForeignCallbackKeeps, VisitUnsupportedKeeps, PumpClockFailsKeeps,
     TransportChangesKeeps DEF GameNext
<1>4. CASE UNCHANGED vars
  BY <1>4, StutterKeeps
<1>5. QED
  BY <1>1, <1>2, <1>3, <1>4 DEF Next

\* The recovery starts in the invariant.
LEMMA InitHolds == ASSUME Init PROVE RInv
<1> USE DEF RecipePlaces, Leaving, Destroying, Calls, Following, CreatePlaces,
   Metadata, cvars, world, count
<1>1. /\ v = [Blank EXCEPT !.phase = "Disabled", !.flags = {}]
      /\ nat = Untouched
      /\ requested = FALSE /\ op = 0 /\ rpc = "idle" /\ quota = NoQuota
      /\ suspended = FALSE /\ task = "Armed"
      /\ transport = "Running" /\ late = 0 /\ foreign = FALSE
      /\ recipes = 0 /\ forwards = 0
      /\ opc = "idle" /\ owner = "open" /\ started = FALSE /\ verdict = "Latched"
  BY DEF Init, C!Init
<1>2. /\ v \in Attempts /\ Sound(v) /\ ~v.terminal /\ v.phase = "Disabled" /\ v.flags = {}
  BY <1>1, BlankIsUnused DEF Unused
<1>3. /\ ~nat.recipe /\ ~nat.cancel /\ nat.create = "none" /\ nat.head = "none"
      /\ nat.resource = "None" /\ nat \in NatStates
  BY <1>1 DEF Untouched, NatStates
<1>4. WorldType
  <2>1. requested \in BOOLEAN /\ suspended \in BOOLEAN /\ foreign \in BOOLEAN
    BY <1>1, Zenon
  <2>2. /\ op \in 0..MaxRequests /\ rpc \in RPlaces /\ quota \in {NoQuota} \cup 0..RecordCap
        /\ task \in {"Armed", "Retired", "Inert"}
        /\ transport \in {"Running", "Gated", "Paused", "Revoked"}
        /\ late \in 0..2 /\ recipes \in 0..1 /\ forwards \in 0..1
    BY <1>1, RecoveryAssumption DEF RPlaces
  <2>3. QED
    BY <1>3, <2>1, <2>2 DEF WorldType
<1>5. Resting
  BY <1>1, <1>2, <1>3, RecoveryAssumption DEF Resting
<1>6. RecipeOnce
  BY <1>1, <1>2, <1>3, RecoveryAssumption DEF RecipeOnce
<1>7. OwnerThread
  BY <1>1, <1>2, <1>3, RecoveryAssumption DEF OwnerThread
<1>8. Places
  BY <1>1, <1>2, <1>3, RecoveryAssumption DEF Places
<1>9. Phased
  BY <1>1, <1>2, <1>3, RecoveryAssumption DEF Phased
<1>10. Lent
  BY <1>1, <1>2, <1>3, RecoveryAssumption DEF Lent, Owns
<1>11. CancelledStaysSuspended
  BY <1>1, <1>2, <1>3, RecoveryAssumption DEF CancelledStaysSuspended
<1>12. RestartAsked
  BY <1>1, <1>2, <1>3, RecoveryAssumption DEF RestartAsked
<1>13. Returnable
  BY <1>1, <1>2, <1>3, RecoveryAssumption DEF Returnable
<1>14. Paid
  BY <1>1, <1>2, <1>3, RecoveryAssumption DEF Paid
<1>15. QED
  BY <1>2, <1>4, <1>5, <1>6, <1>7, <1>8, <1>9, <1>10, <1>11, <1>12, <1>13, <1>14 DEF
     RInv

\* The invariant of the recovery, for every record capacity from nine up, every
\* number of requests, either schema and whatever the environment may do.
THEOREM RecoveryInvariant == Spec => []RInv
<1>1. Init => RInv
  BY InitHolds
<1>2. RInv /\ [Next]_vars => RInv'
  BY NextKeeps
<1>3. QED
  BY <1>1, <1>2, PTL DEF Spec

\* A process enters the recipe once and forwards one native success.
THEOREM OneRecipe == Spec => []NativeOnce
<1>1. RInv => NativeOnce
  BY DEF RInv, WorldType, NativeOnce
<1>2. QED
  BY <1>1, RecoveryInvariant, PTL

\* Ordinary binding stays off from the cancellation to the publication.
THEOREM BindingStaysOff == Spec => []CancelledStaysSuspended
<1>1. RInv => CancelledStaysSuspended
  BY DEF RInv
<1>2. QED
  BY <1>1, RecoveryInvariant, PTL

\* What could not be given back to the game is reported by a restart.
THEOREM NothingStaysLent == Spec => []NothingLeaks
<1>1. RInv => NothingLeaks
  BY DEF RInv, Lent, NothingLeaks, RecipePlaces, Leaving, Destroying, Calls, Following
<1>2. QED
  BY <1>1, RecoveryInvariant, PTL

\* The restart is asked for after every cancelled attempt without a session, and
\* after a publication only for a native cause.
THEOREM RestartIsAsked == Spec => []RestartTold
<1>1. RInv => RestartTold
  BY DEF RInv, RestartAsked, Sound, Blames, RestartTold, Told
<1>2. QED
  BY <1>1, RecoveryInvariant, PTL

\* A claim is given back only for an attempt that left no trace.
THEOREM RetryLeavesNoTrace == Spec => []RetryIsClean
<1>1. RInv => RetryIsClean
  BY DEF RInv, Returnable, RecipeOnce, RetryIsClean
<1>2. QED
  BY <1>1, RecoveryInvariant, PTL

\* The credit reserved on entry pays for every record, and the status that is
\* published is one that a reader accepts.
THEOREM NeedsNoHelp == Spec => []SelfSufficient
<1>1. ASSUME RInv PROVE SelfSufficient
  <2>1. TypeOK
    <3>1. v \in Attempts /\ nat \in NatStates /\ WorldType
      BY <1>1, Basics DEF RInv
    <3>2. /\ nat.bind \in {"no", "entered", "done"} /\ nat.head \in {"none", "owned", "lost"}
          /\ nat.resource \in {"None", "Allocated", "Bound", "Entered", "Released"}
          /\ nat.create \in {"none", "installed", "forwarding", "returned", "thrown"}
      BY <3>1 DEF NatStates
    <3>3. recipes \in Nat /\ forwards \in Nat
      BY <3>1 DEF WorldType
    <3>4. QED
      BY <3>1, <3>2, <3>3 DEF TypeOK, WorldType, Attempts, Records, Reasons, Outcomes
  <2>2. CreditSuffices
    <3>1. Len(v.pending) < RecordCap
      BY <1>1, Basics, Room DEF Sound
    <3>2. /\ Step(v) \in Nat /\ Step(v) <= 6 /\ Len(v.pending) \in Nat /\ RecordCap \in Nat
          /\ RecordCap >= 9
      BY <1>1, Basics, BitsAreBits, RecoveryAssumption DEF Bits
    <3>3. quota \in Int /\ (quota # NoQuota => quota - Len(v.pending) >= RecordCap - Step(v))
      BY <1>1, <3>2 DEF RInv, WorldType, Paid, NoQuota
    <3>4. QED
      BY <3>1, <3>2, <3>3 DEF CreditSuffices
  <2>3. PayloadValid
    BY <1>1, Basics DEF RInv, Sound, Publishes, OwnerThread, Returnable, PayloadValid
  <2>4. QED
    BY <2>1, <2>2, <2>3 DEF SelfSufficient
<1>2. QED
  BY <1>1, RecoveryInvariant, PTL
-----------------------------------------------------------------------------
(* The refinement.                                                         *)

\* Most steps of the recovery leave the endpoint alone.
LEMMA EndpointUntouched ==
    ASSUME Continue \/ NotAdmitted \/ Qualify \/ QualifyingWaits \/
           PreflightRefuses \/ RecipeReturns \/ RecipeRefused \/
           RecipeThrows \/ Retire \/ Enqueue \/ EnqueueThrows \/
           ReleaseOwned \/ ReleaseThrows \/ AwaitFinish \/
           RecreateBegins \/ Recreate \/ RecreateThrows \/ AwaitCreate
           \/ ForwardReturns \/ ForwardThrows \/ CheckMetadata \/
           UpdateMetadata \/ DestroyMetadata \/ RecheckMetadata \/
           EndVisit \/ FinishCallback \/ CreateCallback \/
           NestedCallback \/ ForeignCallback \/ VisitUnsupported \/
           PumpClockFails \/ TransportChanges \/ Tick
    PROVE  UNCHANGED C!vars
<1>1. UNCHANGED cvars
  BY DEF Continue, NotAdmitted, Qualify, QualifyingWaits, PreflightRefuses,
     RecipeReturns, RecipeRefused, RecipeThrows, Retire, Enqueue, EnqueueThrows,
     ReleaseOwned, ReleaseThrows, AwaitFinish, RecreateBegins, Recreate,
     RecreateThrows, AwaitCreate, ForwardReturns, ForwardThrows, CheckMetadata,
     UpdateMetadata, DestroyMetadata, RecheckMetadata, EndVisit, FinishCallback,
     CreateCallback, NestedCallback, ForeignCallback, VisitUnsupported,
     PumpClockFails, TransportChanges, Tick, rvars
<1>2. QED
  BY <1>1 DEF cvars, C!vars, C!control, C!worker, C!request

\* The terminal step that gives a request back is the release of the endpoint's
\* owner, who holds it (ReleasePreflightClaim).
LEMMA ReleaseIsTheOwners ==
    ASSUME RInv, RInv', FinishTerminal
    PROVE  C!ReleaseGuards \/ UNCHANGED C!vars
<1>1. /\ UNCHANGED <<enabled, started, stop, result, latched, registration, wpc, verdict,
                     owner, served, spoiled>>
      /\ opc = "idle"
  BY Basics DEF FinishTerminal
<1>2. IF rpc' = "release" THEN opc' = "release" /\ C!ReleaseAllowed ELSE opc' = opc
  BY FinishTerminalShape
<1>3. rpc' = "release" => owner = "serving"
  BY <1>1 DEF RInv, OwnerThread
<1>4. QED
  BY <1>1, <1>2, <1>3 DEF C!ReleaseGuards, C!vars, C!control, C!worker, C!request

\* The recovery is an owner as the endpoint expects one: it serves what it read
\* and spends or releases exactly that (LeechControl).
THEOREM Implements == Spec => ImplementsControl
<1>1. Init => C!Init
  BY DEF Init
<1>2. RInv /\ RInv' /\ [Next]_vars => [C!Next]_C!vars
  <2> SUFFICES ASSUME RInv, RInv', [Next]_vars PROVE C!Next \/ UNCHANGED C!vars
    OBVIOUS
  <2>1. CASE Arm
    BY <2>1 DEF Arm, C!Next, C!OwnerNext
  <2>2. CASE ControlSteps
    BY <2>2 DEF ControlSteps, C!Next, C!OwnerNext, C!ConsoleNext
  <2>3. CASE NewRequest \/ NoRequest
    BY <2>3 DEF NewRequest, NoRequest, C!Next, C!OwnerNext
  <2>4. CASE SubmitFinish \/ GiveBack
    BY <2>4 DEF SubmitFinish, GiveBack, C!Next, C!OwnerNext
  <2>5. CASE FinishTerminal
    BY <2>5, ReleaseIsTheOwners DEF C!Next, C!OwnerNext
  <2>6. CASE Continue \/ NotAdmitted \/ Qualify \/ QualifyingWaits \/
            PreflightRefuses \/ RecipeReturns \/ RecipeRefused \/
            RecipeThrows \/ Retire \/ Enqueue \/ EnqueueThrows \/
            ReleaseOwned \/ ReleaseThrows \/ AwaitFinish \/
            RecreateBegins \/ Recreate \/ RecreateThrows \/
            AwaitCreate \/ ForwardReturns \/ ForwardThrows \/
            CheckMetadata \/ UpdateMetadata \/ DestroyMetadata \/
            RecheckMetadata \/ EndVisit \/ FinishCallback \/
            CreateCallback \/ NestedCallback \/ ForeignCallback \/
            VisitUnsupported \/ PumpClockFails \/ TransportChanges \/
            Tick
    BY <2>6, EndpointUntouched
  <2>7. CASE UNCHANGED vars
    BY <2>7 DEF vars, cvars, C!vars, C!control, C!worker, C!request
  <2>8. QED
    BY <2>1, <2>2, <2>3, <2>4, <2>5, <2>6, <2>7 DEF Next, VisitNext, GameNext
<1>3. QED
  BY <1>1, <1>2, RecoveryInvariant, PTL DEF Spec, ImplementsControl, C!Spec
==============================================================================
