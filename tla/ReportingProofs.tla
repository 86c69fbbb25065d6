--------------------------- MODULE ReportingProofs ---------------------------
(***************************************************************************)
(* Proofs about the four parts of the reporting runtime, for every value   *)
(* of their constants: the SDK's Init, the task the owner is bound to, the *)
(* player-count producer and the transport's rest.  Each section states    *)
(* the inductive invariant of one part, one lemma per conjunct or per      *)
(* group of actions, and the property the part is checked for.             *)
(***************************************************************************)
EXTENDS SdkLifecycle, TaskBinding, Producer, Quiescence, TLAPS

-----------------------------------------------------------------------------
(***************************************************************************)
(* The SDK is used after one Init only. This is not inductive by itself: the*)
(* word has to count what was forwarded for as long as it is known, the idle*)
(* word has to be the one of a first Init, and what the owner has qualified*)
(* has to be an answer it was given.                                       *)
(***************************************************************************)

\* The word counts every call on its way to the SDK, or it is marked unknown.
WordCounts == ~unknown => forwarded = life.entered

\* Only the word of one finished Init is idle, and the client is qualified first.
IdleIsOne == sdk.ready => sdk.idle = Idle /\ sdk.qualified

\* What the owner's call carries as an answer was given to it.
AnswerGiven == calls[OwnerThread].result => initOk
QualifiesAnswer == calls[OwnerThread].at = "qualified" => calls[OwnerThread].result
QualifiedWasGiven == sdk.qualified => initOk

Inv == TypeOK /\ WordCounts /\ IdleIsOne /\ AnswerGiven /\ QualifiesAnswer /\ QualifiedWasGiven

\* Nothing was called, and the word is zero.
LEMMA InitInv == Init => Inv
<1> SUFFICES ASSUME Init PROVE Inv
  OBVIOUS
<1> USE LifecycleAssumption DEF Init
<1>1. Out \in Calls /\ ~Out.result /\ Out.at = "out"
  BY DEF Out, Calls, Places, Lives, Word
<1>2. sdk \in Sdks /\ life \in Lives
  BY DEF Sdks, Lives, Word
<1>3. TypeOK
  BY <1>1, <1>2 DEF TypeOK
<1>4. WordCounts /\ IdleIsOne /\ AnswerGiven /\ QualifiesAnswer /\ QualifiedWasGiven
  BY <1>1 DEF WordCounts, Word, IdleIsOne, AnswerGiven, QualifiesAnswer, QualifiedWasGiven
<1>5. QED
  BY <1>3, <1>4 DEF Inv

\* Moving a call to another from changes neither its answer nor its type.
LEMMA Moved ==
  ASSUME calls \in [Threads -> Calls], NEW t \in Threads, NEW q \in Places, Goes(t, q)
  PROVE  /\ calls' \in [Threads -> Calls]
         /\ \A u \in Threads : calls'[u].result = calls[u].result
         /\ calls'[t].at = q
         /\ \A u \in Threads : u # t => calls'[u] = calls[u]
<1>1. \A c \in Calls : [c EXCEPT !.at = q] \in Calls /\ [c EXCEPT !.at = q].result = c.result
                       /\ [c EXCEPT !.at = q].at = q
  BY DEF Calls
<1>2. calls' = [calls EXCEPT ![t] = [calls[t] EXCEPT !.at = q]]
  BY DEF Goes
<1>3. QED
  BY <1>1, <1>2

\* A call that begins has no answer.
LEMMA Begun ==
  ASSUME TypeOK, NEW t \in Threads, NEW kind \in {"Init", "Shutdown"}, NEW q \in Places, q # "qualified",
         Begins(t, kind, q)
  PROVE  /\ calls' \in [Threads -> Calls] /\ made' \in [Threads -> Nat]
         /\ ~calls'[t].result /\ calls'[t].at = q
         /\ \A u \in Threads : u # t => calls'[u] = calls[u]
<1>1. [Out EXCEPT !.kind = kind, !.at = q] \in Calls /\ ~[Out EXCEPT !.kind = kind, !.at = q].result
      /\ [Out EXCEPT !.kind = kind, !.at = q].at = q
  BY DEF Out, Calls, Places, Lives, Word
<1>2. QED
  BY <1>1 DEF Begins, TypeOK

\* The observer's wrappers, on any thread, keep the invariant.
LEMMA WrapperInv ==
  ASSUME Inv, NEW t \in Threads,
         \/ InitEntry(t) \/ ShutdownEntry(t) \/ ShutdownEntered(t) \/ LifecycleEnter(t)
         \/ ReadsWord(t) \/ SdkReturns(t) \/ LifecycleLeave(t) \/ ForeignInit(t)
  PROVE  Inv'
<1> USE LifecycleAssumption DEF Inv, WordCounts, IdleIsOne, AnswerGiven, QualifiesAnswer, QualifiedWasGiven
<1>0. TypeOK
  OBVIOUS
<1>p. {"out", "enter", "revoke", "sdk", "leave", "tellFinished"} \subseteq Places /\ "qualified" \in Places
  BY DEF Places
<1>1. CASE InitEntry(t)
  BY <1>1, <1>p, Begun DEF InitEntry, TypeOK
<1>2. CASE ShutdownEntry(t)
  BY <1>2, <1>p, Begun DEF ShutdownEntry, TypeOK
<1>3. CASE ShutdownEntered(t)
  <2>1. /\ calls' \in [Threads -> Calls]
        /\ calls'[OwnerThread].result = calls[OwnerThread].result
        /\ calls'[OwnerThread].at = "qualified" => calls[OwnerThread].at = "qualified"
    BY <1>3, <1>p, <1>0, Moved DEF ShutdownEntered, TypeOK
  <2>2. sdk' \in Sdks /\ (sdk'.ready => sdk.ready) /\ sdk'.idle = sdk.idle /\ sdk'.qualified = sdk.qualified
    BY <1>3 DEF ShutdownEntered, TypeOK, Sdks
  <2>3. QED
    BY <1>3, <2>1, <2>2 DEF ShutdownEntered, TypeOK
<1>4. CASE LifecycleEnter(t)
  <2>1. life' \in Lives /\ (Counts => life'.entered = life.entered + 1)
    BY <1>4 DEF LifecycleEnter, TypeOK, Lives, Word
  <2>2. /\ calls' \in [Threads -> Calls]
        /\ calls'[OwnerThread].result = calls[OwnerThread].result
        /\ calls'[OwnerThread].at = "qualified" => calls[OwnerThread].at = "qualified"
    BY <1>4 DEF LifecycleEnter, TypeOK, Calls, Places, Counts
  <2>3. forwarded' = forwarded + 1 /\ (unknown => unknown') /\ (~Counts => unknown')
    BY <1>4 DEF LifecycleEnter
  <2>4. TypeOK'
    BY <1>4, <2>1, <2>2 DEF LifecycleEnter, TypeOK
  <2>5. WordCounts'
    BY <2>1, <2>3 DEF TypeOK, Lives
  <2>6. QED
    BY <1>4, <2>2, <2>4, <2>5 DEF LifecycleEnter
<1>5. CASE ReadsWord(t)
  <2>1. /\ calls' \in [Threads -> Calls]
        /\ calls'[OwnerThread].result = calls[OwnerThread].result
        /\ calls'[OwnerThread].at = "qualified" => calls[OwnerThread].at = "qualified"
    BY <1>5 DEF ReadsWord, Reads, TypeOK, Calls, Places
  <2>2. QED
    BY <1>5, <2>1 DEF ReadsWord, Reads, TypeOK
<1>6. CASE SdkReturns(t)
  <2>1. PICK normal \in BOOLEAN, result \in BOOLEAN :
          /\ result => normal /\ calls[t].kind = "Init"
          /\ calls' = [calls EXCEPT ![t].normal = normal, ![t].result = result,
               ![t].at = IF normal /\ calls[t].kind = "Init" THEN "tellReturned" ELSE "leave"]
          /\ initOk' = (initOk \/ (t = OwnerThread /\ result))
          /\ UNCHANGED <<life, unknown, revoked, stopping, sdk, made, forwarded>>
    BY <1>6 DEF SdkReturns
  <2>p. PICK q \in Places : q # "qualified" /\ calls' = [calls EXCEPT ![t] =
                               [calls[t] EXCEPT !.normal = normal, !.result = result, !.at = q]]
    <3>1. CASE normal /\ calls[t].kind = "Init"
      <4>1. calls' = [calls EXCEPT ![t] = [calls[t] EXCEPT !.normal = normal, !.result = result, !.at = "tellReturned"]]
        BY <2>1, <3>1
      <4>2. QED
        BY <4>1 DEF Places
    <3>2. CASE ~(normal /\ calls[t].kind = "Init")
      <4>1. calls' = [calls EXCEPT ![t] = [calls[t] EXCEPT !.normal = normal, !.result = result, !.at = "leave"]]
        BY <2>1, <3>2
      <4>2. QED
        BY <4>1 DEF Places
    <3>3. QED
      BY <3>1, <3>2
  <2>c. \A c \in Calls : /\ [c EXCEPT !.normal = normal, !.result = result, !.at = q] \in Calls
                         /\ [c EXCEPT !.normal = normal, !.result = result, !.at = q].result = result
                         /\ [c EXCEPT !.normal = normal, !.result = result, !.at = q].at = q
    BY DEF Calls
  <2>2. calls' \in [Threads -> Calls]
    BY <2>p, <2>c DEF TypeOK
  <2>3. /\ t = OwnerThread => calls'[OwnerThread].result = result /\ calls'[OwnerThread].at # "qualified"
        /\ t # OwnerThread => calls'[OwnerThread] = calls[OwnerThread]
    BY <2>p, <2>c DEF TypeOK
  <2>4. QED
    BY <2>1, <2>2, <2>3 DEF TypeOK
<1>7. CASE LifecycleLeave(t)
  <2>1. life' \in Lives /\ life'.entered = life.entered
    BY <1>7 DEF LifecycleLeave, TypeOK, Lives, Word
  <2>u. unknown' \in BOOLEAN /\ (unknown => unknown')
    BY <1>7 DEF LifecycleLeave, TypeOK
  <2>2. /\ calls' \in [Threads -> Calls]
        /\ calls'[OwnerThread].result = calls[OwnerThread].result
        /\ calls'[OwnerThread].at = "qualified" => calls[OwnerThread].at = "qualified"
    BY <1>7, <1>p, <1>0, Moved DEF LifecycleLeave, TypeOK
  <2>3. QED
    BY <1>7, <2>1, <2>u, <2>2 DEF LifecycleLeave, TypeOK
<1>8. CASE ForeignInit(t)
  <2>1. t # OwnerThread /\ calls' \in [Threads -> Calls] /\ calls'[OwnerThread] = calls[OwnerThread]
    BY <1>8, <1>p, <1>0, Moved DEF ForeignInit, TypeOK
  <2>2. QED
    BY <1>8, <2>1 DEF ForeignInit, TypeOK
<1>9. QED
  BY <1>1, <1>2, <1>3, <1>4, <1>5, <1>6, <1>7, <1>8

\* The runtime's handlers on the owner thread keep it.
LEMMA RuntimeInv ==
  ASSUME Inv, InitEntered \/ InitReturned \/ QualifyClient \/ InitFinished \/ Commit \/ Crossing
  PROVE  Inv'
<1> USE LifecycleAssumption DEF Inv, WordCounts, IdleIsOne, AnswerGiven, QualifiesAnswer, QualifiedWasGiven, Own, At
<1>0. TypeOK /\ calls[OwnerThread].result \in BOOLEAN /\ calls[OwnerThread].word \in Lives
  BY DEF TypeOK, Calls
<1>p. {"out", "sdk", "leave", "qualified", "commit"} \subseteq Places
  BY DEF Places
<1>m. ASSUME NEW from, NEW q \in Places, Own(from, q)
      PROVE  /\ calls' \in [Threads -> Calls]
             /\ calls'[OwnerThread].result = calls[OwnerThread].result /\ calls'[OwnerThread].at = q
             /\ UNCHANGED <<life, unknown, stopping, made, forwarded, initOk>>
             /\ calls[OwnerThread].at = from
  BY <1>m, <1>0, Moved DEF TypeOK
<1>1. CASE InitEntered
  <2>0. revoked' \in BOOLEAN
    BY <1>1 DEF InitEntered, TypeOK
  <2>i. sdk.initCalls + 1 \in Nat /\ Seen \in Lives /\ sdk.initial \in Lives
    BY <1>0 DEF TypeOK, Sdks, Seen
  <2>s. PICK i \in Lives : sdk' = [sdk EXCEPT !.initCalls = @ + 1, !.initial = i]
    BY <1>1, <2>i DEF InitEntered
  <2>1. sdk' \in Sdks /\ sdk'.ready = sdk.ready /\ sdk'.idle = sdk.idle /\ sdk'.qualified = sdk.qualified
    BY <2>s, <2>i DEF TypeOK, Sdks
  <2>2. Own("entered", "sdk")
    BY <1>1 DEF InitEntered
  <2>3. QED
    BY <2>0, <2>1, <2>2, <1>m, <1>p DEF TypeOK
<1>2. CASE InitReturned
  <2>1. sdk' = sdk /\ revoked' \in BOOLEAN
    BY <1>2, <1>0 DEF InitReturned, TypeOK
  <2>2. Own("returned", "leave") \/ (Own("returned", "qualified") /\ calls[OwnerThread].result)
    BY <1>2 DEF InitReturned
  <2>3. QED
    BY <2>1, <2>2, <1>m, <1>p DEF TypeOK
<1>3. CASE QualifyClient
  <2>1. /\ sdk' \in Sdks /\ UNCHANGED <<sdk.ready, sdk.idle>> /\ revoked' \in BOOLEAN
        /\ sdk.qualified => sdk'.qualified
    BY <1>3, <1>0 DEF QualifyClient, TypeOK, Sdks
  <2>2. Own("qualified", "leave")
    BY <1>3 DEF QualifyClient
  <2>3. initOk
    BY <2>2
  <2>4. QED
    BY <2>1, <2>2, <2>3, <1>m, <1>p DEF TypeOK
<1>4. CASE InitFinished
  <2>1. sdk' = sdk /\ revoked' \in BOOLEAN
    BY <1>4, <1>0 DEF InitFinished, TypeOK
  <2>2. Own("finished", "out") \/ Own("finished", "commit")
    BY <1>4 DEF InitFinished
  <2>3. QED
    BY <2>1, <2>2, <1>m, <1>p DEF TypeOK
<1>5. CASE Commit
  <2>1. /\ sdk' \in Sdks /\ sdk'.qualified = sdk.qualified /\ revoked' \in BOOLEAN
        /\ sdk'.ready => sdk'.idle = Idle /\ sdk'.qualified
    BY <1>5, <1>0 DEF Commit, IdleAsExpected, TypeOK, Sdks, Seen
  <2>2. Own("commit", "out")
    BY <1>5 DEF Commit
  <2>3. QED
    BY <2>1, <2>2, <1>m, <1>p DEF TypeOK
<1>6. CASE Crossing
  BY <1>6 DEF Crossing, TypeOK
<1>7. QED
  BY <1>1, <1>2, <1>3, <1>4, <1>5, <1>6

\* No step of any thread, nor a stutter, breaks the invariant.
LEMMA StepInv == Inv /\ [Next]_vars => Inv'
<1> SUFFICES ASSUME Inv, [Next]_vars PROVE Inv'
  OBVIOUS
<1>1. CASE UNCHANGED vars
  BY <1>1 DEF vars, Inv, TypeOK, WordCounts, IdleIsOne, AnswerGiven, QualifiesAnswer, QualifiedWasGiven
<1>2. CASE Next
  BY <1>2, WrapperInv, RuntimeInv DEF Next
<1>3. QED
  BY <1>1, <1>2

\* The idle word counts one call, so a known word equal to it leaves no room
\* for a second one.
LEMMA InvOneInit == Inv => OneInit
  BY DEF Inv, TypeOK, OneInit, Safe, Admits, WordCounts, IdleIsOne, QualifiedWasGiven, Idle, Word

\* The runtime trusts the SDK only after one call of it, its own successful
\* Init, whatever the other threads called and whenever (SafeOwner,
\* RuntimeAdmission).
THEOREM TrustsOneInit == Spec => []OneInit
<1>1. Inv /\ [Next]_vars => Inv'
  BY StepInv
<1>2. QED
  BY InitInv, <1>1, InvOneInit, PTL DEF Spec

\* The runtime's view and the wrappers' calls are of their types.
THEOREM LifecycleTypes == Spec => []TypeOK
<1>1. Inv /\ [Next]_vars => Inv'
  BY StepInv
<1>2. Inv => TypeOK
  BY DEF Inv
<1>3. QED
  BY InitInv, <1>1, <1>2, PTL DEF Spec

-----------------------------------------------------------------------------
(***************************************************************************)
(* One task is bound at a time. The slots hold at most one pointer to the  *)
(* wrapper that the binding does not answer for, and what the owner takes  *)
(* for a newer task is newer although the counter of the SDK wraps: a count*)
(* it accepts is a count that has not wrapped yet.                         *)
(***************************************************************************)

\* What a task's builder may point to.
Pointers == {"none", "other", "original", "wrapper", "foreign"}
\* A slot of the engine's task table.
TaskSet == [life : Nat, state : {"free", "queued", "running"}, builder : Pointers, saved : Pointers]
\* The binding's words are of their kinds.
TaskTyped ==
    /\ tasks \in [Slots -> TaskSet] /\ {created, known, adopted, lastNativeCounter, selected} \subseteq Nat
    /\ {haveIdentity, haveHistory, stranded} \subseteq BOOLEAN
    /\ boundTask \in [slot : Slots \cup {None}, id : Nat] /\ last \in [slot : Slots \cup {None}, id : Nat]
    /\ then \in {"idle", "bind"} /\ returned \subseteq Slots
\* A slot with the wrapper that it did not come back to is the one bound.
OneHolder ==
    \A s \in Slots \ returned : tasks[s].builder = "wrapper" => haveIdentity /\ boundTask.slot = s
\* The owner exchanges the builder for the wrapper.
Installing == {"installSwap", "installCheck"}
\* The owner exchanges the wrapper for the builder.
Retiring == {"retireSwap", "retireCheck"}
\* The owner takes back an exchange that it cannot keep.
Inverting == {"inverse", "inverseSwap", "inverseCheck"}
\* Where the owner is tells what the binding holds.
BindingPlaced ==
    /\ haveIdentity => boundTask.slot \in Slots /\
         (phase \in {"Armed", "Inert"} \/ pc \in Installing \cup Retiring)
    /\ phase = "Armed" \/ pc \in Installing \cup Retiring \cup Inverting => haveIdentity
    /\ pc \in Installing => phase = "Preparing"
    /\ pc \in Retiring => phase = "Retired"
    /\ pc \in Inverting => phase = "Inert" /\ stranded
    /\ pc = "bind" => ~haveIdentity
\* A binding that gave up with a pointer of its own left behind has told so.
InertTold == phase = "Inert" /\ haveIdentity => stranded \/ boundTask.slot \in returned \/ Ours.builder # "wrapper"
\* No task lives that was not created.
LivesCreated == \A s \in Slots : tasks[s].life <= created
\* The count known is one that has not wrapped, and less than a width is unknown.
CounterHeld ==
    known <= created /\ created <= known + Width - 1 /\ known <= Width - 1 /\ lastNativeCounter = known
\* The history is of the last life taken up, and that life is known.
HistoryHeld == IF haveHistory THEN last.id = adopted /\ adopted <= known ELSE adopted = 0

\* What the pointers and the places hold together.
BindingHeld == OneHolder /\ BindingPlaced /\ InertTold
\* The inductive invariant of the task binding.
BindingInv == TaskTyped /\ BindingHeld /\ LivesCreated /\ CounterHeld /\ HistoryHeld

\* A life that has not wrapped is its own number.
LEMMA IdSmall == ASSUME NEW x \in Nat, x < Width PROVE Id(x) = x
  BY WidthAssumption DEF Id

\* A life that has wrapped once is a width behind.
LEMMA IdWraps == ASSUME NEW x \in Nat, Width <= x, x < 2 * Width PROVE Id(x) = x - Width
  BY WidthAssumption DEF Id

\* Every number of a life is a number.
LEMMA IdNat == ASSUME NEW x \in Nat PROVE Id(x) \in Nat
  BY WidthAssumption DEF Id

\* An accepted count has not wrapped.
LEMMA Accepted ==
    ASSUME TaskTyped, CounterHeld, Counter # 0, Counter >= lastNativeCounter
    PROVE  created < Width /\ Counter = created
<1>1. created \in Nat /\ known \in Nat /\ Width \in Nat /\ Width > 0 /\ created < 2 * Width
  BY WidthAssumption DEF TaskTyped, CounterHeld
<1>2. CASE created < Width
  BY <1>1, <1>2, IdSmall DEF Counter
<1>3. CASE created >= Width
  <2>1. Counter = created - Width
    BY <1>1, <1>3, IdWraps DEF Counter
  <2>2. created - Width < known
    BY <1>1, <1>3 DEF CounterHeld
  <2> QED
    BY <1>1, <2>1, <2>2 DEF CounterHeld
<1> QED
  BY <1>1, <1>2, <1>3

\* A write touches one slot.
LEMMA Written ==
    ASSUME TaskTyped, NEW s \in Slots, NEW task \in TaskSet, Writes(s, task)
    PROVE  /\ tasks' \in [Slots -> TaskSet] /\ tasks'[s] = task
           /\ \A u \in Slots \ {s} : tasks'[u] = tasks[u]
  BY DEF TaskTyped, Writes

\* A swap touches one pointer, of the bound slot, or nothing.
LEMMA Swapped ==
    ASSUME TaskTyped, boundTask.slot \in Slots, NEW old, NEW new \in {"original", "wrapper"},
           Swap(boundTask.slot, old, new)
    PROVE  /\ tasks' \in [Slots -> TaskSet] /\ returned' \subseteq returned
           /\ \A s \in Slots : tasks'[s].life = tasks[s].life
           /\ \A s \in Slots \ {boundTask.slot} :
                 tasks'[s] = tasks[s] /\ (s \in returned => s \in returned')
           /\ \/ tasks' = tasks /\ returned' = returned
              \/ tasks'[boundTask.slot].builder = new
<1> DEFINE t == [tasks[boundTask.slot] EXCEPT !.builder = new]
<1>1. t \in TaskSet /\ t.life = tasks[boundTask.slot].life /\ t.builder = new
  BY DEF TaskTyped, TaskSet, Pointers
<1>2. \/ Writes(boundTask.slot, t) /\ returned' = returned \ {boundTask.slot}
      \/ UNCHANGED <<tasks, returned>>
  BY DEF Swap
<1> HIDE DEF t
<1>3. CASE Writes(boundTask.slot, t) /\ returned' = returned \ {boundTask.slot}
  BY <1>1, <1>3, Written
<1>4. CASE UNCHANGED <<tasks, returned>>
  BY <1>4 DEF TaskTyped
<1> QED
  BY <1>2, <1>3, <1>4

\* The count known is read again in full, or not at all.
CountAgain == Reread /\ Counter # 0 /\ Counter >= lastNativeCounter

\* A count that is read again, or not, is still a count that has not wrapped.
LEMMA CounterKept ==
    ASSUME TaskTyped, CounterHeld, created' = created,
           UNCHANGED <<known, lastNativeCounter>> \/ CountAgain
    PROVE  CounterHeld' /\ {known', lastNativeCounter'} \subseteq Nat /\ known' >= known
<1>1. {created, known, lastNativeCounter} \subseteq Nat /\ Width \in Nat
  BY WidthAssumption DEF TaskTyped
<1>2. CASE UNCHANGED <<known, lastNativeCounter>>
  BY <1>1, <1>2 DEF CounterHeld
<1>3. CASE CountAgain
  <2>1. created < Width /\ Counter = created
    BY <1>3, Accepted DEF CountAgain
  <2> QED
    BY <1>1, <1>3, <2>1 DEF CountAgain, Reread, CounterHeld
<1> QED
  BY <1>2, <1>3

\* A count that grows keeps the history true.
LEMMA HistoryKept ==
    ASSUME TaskTyped, HistoryHeld, known' \in Nat, known' >= known, UNCHANGED <<haveHistory, last, adopted>>
    PROVE  HistoryHeld'
  BY DEF TaskTyped, HistoryHeld

\* What a step of the game does: it writes one slot, and puts the wrapper nowhere but where it
\* was.
Disturbs(s) ==
    /\ tasks' \in [Slots -> TaskSet] /\ returned' \subseteq Slots
    /\ \A u \in Slots \ {s} : tasks'[u] = tasks[u] /\ (u \in returned' <=> u \in returned)
    /\ created' \in Nat /\ created' >= created /\ created' <= known + Width - 1
    /\ tasks'[s].life <= created' /\ selected' \in Nat
    /\ tasks'[s].builder = "wrapper" =>
          \/ s \in returned'
          \/ tasks[s].builder = "wrapper" /\ s \notin returned
          \/ phase = "Armed" /\ boundTask.slot = s
    /\ UNCHANGED <<binding, pc, then>>

\* The game disturbs no more than the invariant allows.
LEMMA DisturbedHolds ==
    ASSUME BindingInv, NEW s \in Slots, Disturbs(s)
    PROVE  BindingInv'
<1>1. TaskTyped /\ OneHolder /\ BindingPlaced /\ InertTold /\ LivesCreated /\ CounterHeld /\ HistoryHeld
  BY DEF BindingInv, BindingHeld
<1>2. UNCHANGED <<phase, stranded, boundTask, haveIdentity, last, lastNativeCounter, haveHistory, adopted,
                  known, pc, then>>
  BY DEF Disturbs, binding
<1>3. TaskTyped'
  BY <1>1, <1>2 DEF TaskTyped, Disturbs
<1>4. \A u \in Slots \ {s} : tasks'[u] = tasks[u] /\ (u \in returned' <=> u \in returned)
  BY DEF Disturbs
<1>5. ASSUME tasks'[s].builder = "wrapper"
      PROVE  \/ s \in returned'
             \/ tasks[s].builder = "wrapper" /\ s \notin returned
             \/ phase = "Armed" /\ boundTask.slot = s
  BY <1>5 DEF Disturbs
<1>6. OneHolder'
  BY <1>1, <1>2, <1>4, <1>5 DEF OneHolder, BindingPlaced
<1>7. BindingPlaced'
  BY <1>1, <1>2 DEF BindingPlaced
<1>8. InertTold'
  <2> SUFFICES ASSUME phase = "Inert", haveIdentity, ~stranded, boundTask.slot \notin returned',
                      tasks'[boundTask.slot].builder = "wrapper"
               PROVE  FALSE
    BY <1>2 DEF InertTold, Ours
  <2>1. boundTask.slot \in Slots /\ (boundTask.slot \in returned \/ tasks[boundTask.slot].builder # "wrapper")
    BY <1>1 DEF BindingPlaced, InertTold, Ours
  <2> QED
    BY <1>4, <1>5, <2>1
<1>9. LivesCreated'
  <2>1. created \in Nat /\ created' \in Nat /\ created' >= created /\ tasks'[s].life <= created'
    BY <1>1 DEF TaskTyped, Disturbs
  <2>2. \A u \in Slots : tasks[u].life \in Nat /\ tasks[u].life <= created
    BY <1>1 DEF TaskTyped, TaskSet, LivesCreated
  <2> QED
    BY <1>4, <2>1, <2>2 DEF LivesCreated
<1>10. CounterHeld'
  BY <1>1, <1>2, WidthAssumption DEF CounterHeld, Disturbs, TaskTyped
<1>11. HistoryHeld'
  BY <1>1, <1>2 DEF HistoryHeld
<1> QED
  BY <1>3, <1>6, <1>7, <1>8, <1>9, <1>10, <1>11 DEF BindingInv, BindingHeld

\* Every step of the game is of that kind.
LEMMA GameDisturbs ==
    ASSUME BindingInv, NEW s \in Slots,
           \/ \E heartbeat \in BOOLEAN : CreateTask(s, heartbeat)
           \/ DestroyTask(s) \/ RunTask(s) \/ Select(s) \/ ForeignHook(s) \/ ForeignUnhook(s)
    PROVE  Disturbs(s)
<1>1. TaskTyped /\ LivesCreated /\ CounterHeld
  BY DEF BindingInv
<1>2. /\ tasks[s] \in TaskSet /\ tasks[s].life <= created /\ {created, known, selected} \subseteq Nat
      /\ tasks \in [Slots -> TaskSet] /\ returned \subseteq Slots /\ Width \in Nat
      /\ created <= known + Width - 1
  BY <1>1, WidthAssumption DEF TaskTyped, LivesCreated, CounterHeld
<1>3. ASSUME NEW task \in TaskSet, Writes(s, task), UNCHANGED created, Elsewhere,
             \/ returned' = returned
             \/ returned' = returned \ {s} /\ task.builder # "wrapper"
             \/ returned' = returned \cup {s},
             task.life <= created, selected' \in Nat,
             task.builder = "wrapper" =>
                \/ tasks[s].builder = "wrapper" \/ s \in returned'
                \/ phase = "Armed" /\ boundTask.slot = s
      PROVE  Disturbs(s)
  <2>1. tasks' \in [Slots -> TaskSet] /\ tasks'[s] = task /\ \A u \in Slots \ {s} : tasks'[u] = tasks[u]
    BY <1>1, <1>3, Written
  <2>2. returned' \subseteq Slots /\ \A u \in Slots \ {s} : u \in returned' <=> u \in returned
    BY <1>2, <1>3
  <2>3. UNCHANGED <<binding, pc, then>>
    BY <1>3 DEF Elsewhere
  <2>4. created' \in Nat /\ created' >= created /\ created' <= known + Width - 1
    BY <1>2, <1>3
  <2> QED
    BY <1>3, <2>1, <2>2, <2>3, <2>4 DEF Disturbs
<1>4. ASSUME NEW heartbeat \in BOOLEAN, CreateTask(s, heartbeat) PROVE Disturbs(s)
  <2> DEFINE task == [life |-> created + 1, state |-> "queued", saved |-> "none",
                      builder |-> IF heartbeat THEN "original" ELSE "other"]
  <2>1. created' = created + 1 /\ Writes(s, task) /\ returned' = returned \ {s}
        /\ selected' \in {created', selected} /\ created + 1 <= known + Width - 1
        /\ UNCHANGED <<binding, pc, then>>
    BY <1>2, <1>4 DEF CreateTask, Elsewhere
  <2>2. task \in TaskSet /\ task.life = created + 1 /\ task.builder # "wrapper"
    BY <1>2 DEF TaskSet, Pointers
  <2> HIDE DEF task
  <2>3. tasks' \in [Slots -> TaskSet] /\ tasks'[s] = task /\ \A u \in Slots \ {s} : tasks'[u] = tasks[u]
    BY <1>1, <2>1, <2>2, Written
  <2> QED
    BY <1>2, <2>1, <2>2, <2>3 DEF Disturbs
<1>5. CASE DestroyTask(s)
  <2>1. selected' \in Nat /\ UNCHANGED created /\ Elsewhere
    BY <1>2, <1>5 DEF DestroyTask
  <2>2. CASE Writes(s, [tasks[s] EXCEPT !.state = "free", !.life = 0]) /\ UNCHANGED returned
    <3> DEFINE task == [tasks[s] EXCEPT !.state = "free", !.life = 0]
    <3>1. task \in TaskSet /\ task.life = 0 /\ task.builder = tasks[s].builder
      BY <1>2 DEF TaskSet
    <3>2. Writes(s, task) /\ returned' = returned
      BY <2>2
    <3> HIDE DEF task
    <3> QED
      BY <1>2, <1>3, <2>1, <3>1, <3>2
  <2>3. CASE Writes(s, Free) /\ returned' = returned \ {s}
    <3>1. Free \in TaskSet /\ Free.life = 0 /\ Free.builder # "wrapper"
      BY DEF Free, TaskSet, Pointers
    <3> QED
      BY <1>2, <1>3, <2>1, <2>3, <3>1
  <2> QED
    BY <1>5, <2>2, <2>3 DEF DestroyTask
<1>6. CASE RunTask(s)
  <2> DEFINE task == [tasks[s] EXCEPT !.state = IF @ = "queued" THEN "running" ELSE "queued"]
  <2>1. task \in TaskSet /\ task.life = tasks[s].life /\ task.builder = tasks[s].builder
    BY <1>2 DEF TaskSet
  <2>2. Writes(s, task) /\ UNCHANGED <<created, selected, returned>> /\ Elsewhere
    BY <1>6 DEF RunTask
  <2> HIDE DEF task
  <2> QED
    BY <1>2, <1>3, <2>1, <2>2
<1>7. CASE Select(s)
  <2>1. UNCHANGED <<created, tasks, returned, binding, pc, then>> /\ selected' = tasks[s].life
    BY <1>7 DEF Select, Elsewhere
  <2>2. tasks[s].life \in Nat
    BY <1>2 DEF TaskSet
  <2> QED
    BY <1>2, <2>1, <2>2 DEF Disturbs
<1>8. CASE ForeignHook(s)
  <2> DEFINE task == [tasks[s] EXCEPT !.saved = tasks[s].builder, !.builder = "foreign"]
  <2>1. task \in TaskSet /\ task.life = tasks[s].life /\ task.builder = "foreign"
    BY <1>2 DEF TaskSet, Pointers
  <2>2. Writes(s, task) /\ UNCHANGED <<created, selected, returned>> /\ Elsewhere
    BY <1>8 DEF ForeignHook
  <2> HIDE DEF task
  <2> QED
    BY <1>2, <1>3, <2>1, <2>2
<1>9. CASE ForeignUnhook(s)
  <2> DEFINE task == [tasks[s] EXCEPT !.builder = tasks[s].saved, !.saved = "none"]
  <2>1. task \in TaskSet /\ task.life = tasks[s].life /\ task.builder = tasks[s].saved
    BY <1>2 DEF TaskSet, Pointers
  <2>2. Writes(s, task) /\ UNCHANGED <<created, selected>> /\ Elsewhere
        /\ returned' = IF tasks[s].saved = "wrapper" /\ ~(phase = "Armed" /\ boundTask.slot = s)
                       THEN returned \cup {s} ELSE returned
    BY <1>9 DEF ForeignUnhook
  <2> HIDE DEF task
  <2> QED
    BY <1>2, <1>3, <2>1, <2>2
<1> QED
  BY <1>4, <1>5, <1>6, <1>7, <1>8, <1>9

\* A fault says that the pointer is stranded, if the binding holds a task.
LEMMA FaultHolds ==
    ASSUME NEW owns \in BOOLEAN, Fault(owns), owns <=> haveIdentity', OneHolder',
           haveIdentity' => boundTask'.slot \in Slots
    PROVE  BindingHeld'
  BY DEF Fault, OwnerGoes, BindingHeld, BindingPlaced, InertTold, Installing, Retiring, Inverting

\* A fault says that the pointer is stranded, if the binding holds a task.
LEMMA FaultedHolds ==
    ASSUME TaskTyped, BindingHeld, UNCHANGED <<tasks, returned>>, Faulting
    PROVE  BindingHeld'
<1>1. haveIdentity \in BOOLEAN /\ UNCHANGED <<haveIdentity, boundTask>> /\ Fault(haveIdentity)
  BY DEF TaskTyped, Faulting, Known
<1>2. OneHolder'
  BY <1>1 DEF BindingHeld, OneHolder
<1>3. haveIdentity' => boundTask'.slot \in Slots
  BY <1>1 DEF BindingHeld, BindingPlaced
<1> QED
  BY <1>1, <1>2, <1>3, FaultHolds

\* A retirement begins at the bound slot, or the binding is given up.
LEMMA RetireHolds ==
    ASSUME TaskTyped, BindingHeld, UNCHANGED <<tasks, returned>>, pc = "idle", phase # "Inert",
           NEW next \in {"idle", "bind"}, Retire(next)
    PROVE  BindingHeld'
<1>1. OneHolder /\ BindingPlaced
  BY DEF BindingHeld
<1>2. haveIdentity <=> phase = "Armed"
  BY <1>1 DEF BindingPlaced, Installing, Retiring, Inverting
<1>3. CASE Faulting
  BY <1>3, FaultedHolds
<1>4. CASE then' = next /\ Retired /\ boundTask' = boundTask /\ haveIdentity' = FALSE
           /\ (haveIdentity => Ours.builder # "wrapper")
  <2>1. phase' = "Retired" /\ pc' = next
    BY <1>4 DEF Retired, OwnerGoes
  <2>2. OneHolder'
    BY <1>1, <1>4 DEF OneHolder, Ours
  <2> QED
    BY <1>4, <2>1, <2>2 DEF BindingHeld, BindingPlaced, InertTold, Installing, Retiring, Inverting
<1>5. CASE UNCHANGED <<phase, stranded, boundTask, haveIdentity>> /\ pc' = "idle"
  BY <1>5 DEF BindingHeld, OneHolder, BindingPlaced, InertTold, Ours
<1>6. CASE phase' = "Retired" /\ pc' = "retireSwap" /\ haveIdentity /\ UNCHANGED <<haveIdentity, boundTask>>
  BY <1>1, <1>6 DEF BindingHeld, OneHolder, BindingPlaced, InertTold, Installing, Retiring, Inverting
<1>7. CASE RetireUnbound /\ then' = next
  <2>1. ~haveIdentity /\ haveIdentity' = FALSE /\ Retired /\ boundTask' = boundTask
    BY <1>7 DEF RetireUnbound, Unmoved
  <2> QED
    BY <1>4, <1>7, <2>1
<1>8. CASE RetireReplaced /\ then' = next
  BY <1>3, <1>4, <1>8 DEF RetireReplaced, Unmoved
<1>9. CASE RetireBound
  BY <1>3, <1>5, <1>6, <1>9 DEF RetireBound, Unmoved, OwnerGoes
<1> QED
  BY <1>3, <1>7, <1>8, <1>9 DEF Retire

\* The owner creates no task, and a count is only taken over as it is read.
OwnerFrame ==
    /\ UNCHANGED <<created, selected>> /\ tasks' \in [Slots -> TaskSet] /\ returned' \subseteq Slots
    /\ \A s \in Slots : tasks'[s].life = tasks[s].life
    /\ UNCHANGED <<known, lastNativeCounter>> \/ CountAgain

\* The owner creates no task, and a count is only taken over as it is read.
LEMMA OwnerFrames ==
    ASSUME BindingInv, BindingOwner
    PROVE  OwnerFrame
<1>1. TaskTyped /\ BindingPlaced
  BY DEF BindingInv, BindingHeld
<1>2. tasks \in [Slots -> TaskSet] /\ returned \subseteq Slots
  BY <1>1 DEF TaskTyped
<1>3. ASSUME InverseReads \/ InverseChecks \/ RetireChecks \/ TakeSource \/ DropSource \/ BindArmed \/ BindTask
             \/ InstallChecks \/ ValidateBuilderTask \/ CleanupRevoked
      PROVE  UNCHANGED native
  BY <1>3 DEF InverseReads, InverseChecks, RetireChecks, TakeSource, DropSource, BindArmed, BindTask,
     InstallChecks, ValidateBuilderTask, CleanupRevoked
<1>4. ASSUME InverseReads \/ InverseChecks \/ RetireChecks \/ TakeSource \/ InstallChecks \/ CleanupRevoked
             \/ InverseSwaps \/ RetireSwaps \/ InstallSwaps
      PROVE  UNCHANGED <<known, lastNativeCounter>>
  BY <1>4 DEF InverseReads, InverseChecks, RetireChecks, TakeSource, InstallChecks, CleanupRevoked, InverseSwaps,
     RetireSwaps, InstallSwaps, BindingFaulted, Uncounted, binding
<1>6. CASE DropSource
  BY <1>2, <1>3, <1>6 DEF OwnerFrame, DropSource, Uncounted, native
<1>7. CASE BindArmed
  BY <1>2, <1>3, <1>7 DEF OwnerFrame, BindArmed, BindingFaulted, Uncounted, CounterGoes, CountAgain, Reread, native
<1>8. CASE BindTask
  BY <1>2, <1>3, <1>8 DEF OwnerFrame, BindTask, Installs, BindingFaulted, Uncounted, History, CountAgain, native, binding
<1>9. CASE ValidateBuilderTask
  BY <1>2, <1>3, <1>9 DEF OwnerFrame, ValidateBuilderTask, BindingFaulted, Uncounted, CounterGoes, CountAgain, native
<1>10. ASSUME NEW old, NEW new \in {"original", "wrapper"}, Swap(boundTask.slot, old, new),
              pc \in {"inverseSwap", "retireSwap", "installSwap"}, UNCHANGED <<created, selected>>,
              UNCHANGED <<known, lastNativeCounter>>
       PROVE  OwnerFrame
  <2>1. boundTask.slot \in Slots
    BY <1>1, <1>10 DEF BindingPlaced, Installing, Retiring, Inverting
  <2> QED
    BY <1>1, <1>2, <1>10, <2>1, Swapped DEF OwnerFrame
<1>11. CASE InverseSwaps
  BY <1>4, <1>10, <1>11 DEF InverseSwaps
<1>12. CASE RetireSwaps
  BY <1>4, <1>10, <1>12 DEF RetireSwaps
<1>13. CASE InstallSwaps
  BY <1>4, <1>10, <1>13 DEF InstallSwaps
<1>14. CASE InverseReads \/ InverseChecks \/ RetireChecks \/ TakeSource \/ InstallChecks \/ CleanupRevoked
  BY <1>2, <1>3, <1>4, <1>14 DEF OwnerFrame, native
<1> QED
  BY <1>6, <1>7, <1>8, <1>9, <1>11, <1>12, <1>13, <1>14 DEF BindingOwner

\* A task is named by its slot and its number.
TaskIds == [slot : Slots \cup {None}, id : Nat]

\* Every step of the owner keeps the kinds of the words.
LEMMA BindingTyped ==
    ASSUME BindingInv, BindingOwner
    PROVE  TaskTyped'
<1>1. TaskTyped /\ CounterHeld /\ BindingPlaced
  BY DEF BindingInv, BindingHeld
<1>2. OwnerFrame
  BY OwnerFrames
<1>3. {created', selected', known', lastNativeCounter'} \subseteq Nat
  BY <1>1, <1>2, CounterKept DEF OwnerFrame, TaskTyped
<1>4. /\ boundTask \in TaskIds /\ last \in TaskIds /\ then \in {"idle", "bind"} /\ adopted \in Nat
      /\ haveIdentity \in BOOLEAN /\ haveHistory \in BOOLEAN /\ stranded \in BOOLEAN
  BY <1>1 DEF TaskTyped, TaskIds
<1>5. \A s \in Slots : Identity(s) \in TaskIds /\ tasks[s].life \in Nat
  BY <1>1, IdNat DEF TaskTyped, TaskSet, Identity, TaskIds
<1> DEFINE Rest == /\ boundTask' \in TaskIds /\ last' \in TaskIds /\ then' \in {"idle", "bind"} /\ adopted' \in Nat
                   /\ haveIdentity' \in BOOLEAN /\ haveHistory' \in BOOLEAN /\ stranded' \in BOOLEAN
<1> SUFFICES Rest
  BY <1>2, <1>3 DEF TaskTyped, OwnerFrame, TaskIds
<1>6. ASSUME Faulting, then' \in {"idle", "bind"} PROVE Rest
  BY <1>4, <1>6 DEF Faulting, Fault, Known
<1>7. ASSUME Fault(TRUE), Known, UNCHANGED then PROVE Rest
  BY <1>4, <1>7 DEF Fault, Known
<1>8. ASSUME NEW next \in {"idle", "bind"}, Retire(next) PROVE Rest
  <2>1. then' \in {"idle", "bind"}
    BY <1>8 DEF Retire
  <2>2. CASE RetireUnbound \/ RetireReplaced \/ RetireBound
    BY <1>4, <1>6, <2>1, <2>2
       DEF RetireUnbound, RetireReplaced, RetireBound, Retired, Unmoved
  <2> QED
    BY <1>6, <1>8, <2>1, <2>2 DEF Retire
<1>9. CASE InverseReads \/ InverseSwaps \/ InverseChecks
  BY <1>4, <1>9 DEF InverseReads, InverseSwaps, InverseChecks, Known, binding
<1>10. CASE RetireSwaps \/ RetireChecks
  BY <1>4, <1>10 DEF RetireSwaps, RetireChecks, Unmoved, binding
<1>11. CASE TakeSource
  BY <1>4, <1>11 DEF TakeSource, binding
<1>12. CASE DropSource
  BY <1>8, <1>12 DEF DropSource
<1>13. CASE BindArmed
  <2>1. CASE UNCHANGED <<boundTask, haveIdentity, last, haveHistory, adopted, stranded, then>>
    BY <1>4, <2>1
  <2> QED
    BY <1>4, <1>6, <1>7, <1>8, <1>13, <2>1 DEF BindArmed, BindingFaulted, Known
<1>14. CASE BindTask
  <2>1. CASE UNCHANGED <<binding, epoch>>
    BY <1>4, <1>14, <2>1 DEF BindTask, binding
  <2>2. ASSUME NEW s \in Slots, Installs(s) PROVE Rest
    <3>1. then' = "idle"
      BY <1>14 DEF BindTask
    <3>2. CASE tasks[s].builder = "wrapper" \/ tasks[s].builder # "original"
      BY <1>4, <1>5, <2>2, <3>1, <3>2 DEF Installs, Fault, binding
    <3>3. CASE tasks[s].builder = "original"
      BY <1>4, <1>5, <1>6, <2>2, <3>1, <3>3 DEF Installs, BindingFaulted
    <3> QED
      BY <3>2, <3>3
  <2> QED
    BY <1>14, <2>1, <2>2 DEF BindTask
<1>15. CASE InstallSwaps
  BY <1>4, <1>6, <1>15 DEF InstallSwaps, BindingFaulted, binding
<1>16. CASE InstallChecks
  <2>1. boundTask.slot \in Slots
    BY <1>1, <1>16 DEF InstallChecks, BindingPlaced, Installing
  <2> QED
    BY <1>4, <1>5, <1>6, <1>16, <2>1 DEF InstallChecks, BindingFaulted, Ours
<1>17. CASE ValidateBuilderTask
  <2>1. CASE UNCHANGED <<boundTask, haveIdentity, last, haveHistory, adopted, stranded, then>>
    BY <1>4, <2>1
  <2> QED
    BY <1>4, <1>6, <1>7, <1>17, <2>1 DEF ValidateBuilderTask, BindingFaulted, Known
<1>18. CASE CleanupRevoked
  BY <1>4, <1>6, <1>18 DEF CleanupRevoked, BindingFaulted
<1> QED
  BY <1>9, <1>10, <1>11, <1>12, <1>13, <1>14, <1>15, <1>16, <1>17, <1>18 DEF BindingOwner

\* A swap of the bound slot's pointer leaves it to the bound slot.
LEMMA SwapHolder ==
    ASSUME TaskTyped, OneHolder, haveIdentity, boundTask.slot \in Slots, NEW old,
           NEW new \in {"original", "wrapper"}, Swap(boundTask.slot, old, new),
           UNCHANGED <<haveIdentity, boundTask>>
    PROVE  OneHolder'
<1>1. \A s \in Slots \ {boundTask.slot} : tasks'[s] = tasks[s] /\ (s \in returned => s \in returned')
  BY Swapped
<1> QED
  BY <1>1 DEF OneHolder

\* Every step of the owner keeps the pointers and the places together.
LEMMA OwnerHolds ==
    ASSUME BindingInv, BindingOwner
    PROVE  BindingHeld'
<1>1. TaskTyped /\ BindingHeld /\ OneHolder /\ BindingPlaced /\ InertTold
  BY DEF BindingInv, BindingHeld
<1> USE DEF Installing, Retiring, Inverting
<1>2. CASE InverseReads
  <2>1. haveIdentity /\ boundTask.slot \in Slots /\ phase = "Inert" /\ stranded
    BY <1>1, <1>2 DEF InverseReads, BindingPlaced
  <2>2. UNCHANGED <<tasks, returned, phase, boundTask, haveIdentity>>
    BY <1>2 DEF InverseReads, native, Known
  <2>3. \/ pc' = "inverseSwap" /\ stranded' = stranded
        \/ pc' = "idle" /\ Ours.builder # "wrapper"
        \/ pc' = "idle" /\ stranded' = stranded
    BY <1>2 DEF InverseReads, OwnerGoes
  <2> QED
    BY <1>1, <2>1, <2>2, <2>3 DEF BindingHeld, OneHolder, BindingPlaced, InertTold, Ours
<1>3. CASE InverseSwaps
  <2>1. haveIdentity /\ boundTask.slot \in Slots /\ phase = "Inert" /\ stranded
    BY <1>1, <1>3 DEF InverseSwaps, BindingPlaced
  <2>2. UNCHANGED <<phase, stranded, boundTask, haveIdentity>> /\ pc' = "inverseCheck"
        /\ Swap(boundTask.slot, "wrapper", "original")
    BY <1>3 DEF InverseSwaps, binding, OwnerGoes
  <2>3. OneHolder'
    BY <1>1, <2>1, <2>2, SwapHolder
  <2> QED
    BY <2>1, <2>2, <2>3 DEF BindingHeld, BindingPlaced, InertTold
<1>4. CASE InverseChecks
  <2>1. haveIdentity /\ boundTask.slot \in Slots /\ phase = "Inert" /\ stranded
    BY <1>1, <1>4 DEF InverseChecks, BindingPlaced
  <2>2. UNCHANGED <<tasks, returned, phase, boundTask, haveIdentity>> /\ pc' = "idle"
        /\ (Ours.builder = "wrapper" => stranded')
    BY <1>4, <2>1 DEF InverseChecks, native, Known, OwnerGoes
  <2> QED
    BY <1>1, <2>1, <2>2 DEF BindingHeld, OneHolder, BindingPlaced, InertTold, Ours
<1>5. CASE RetireSwaps
  <2>1. haveIdentity /\ boundTask.slot \in Slots /\ phase = "Retired"
    BY <1>1, <1>5 DEF RetireSwaps, BindingPlaced
  <2>2. UNCHANGED <<phase, stranded, boundTask, haveIdentity>> /\ pc' = "retireCheck"
        /\ Swap(boundTask.slot, "wrapper", "original")
    BY <1>5 DEF RetireSwaps, binding, OwnerGoes
  <2>3. OneHolder'
    BY <1>1, <2>1, <2>2, SwapHolder
  <2> QED
    BY <2>1, <2>2, <2>3 DEF BindingHeld, BindingPlaced, InertTold
<1>6. CASE RetireChecks
  <2>1. haveIdentity /\ boundTask.slot \in Slots /\ phase = "Retired" /\ then \in {"idle", "bind"}
    BY <1>1, <1>6 DEF RetireChecks, BindingPlaced, TaskTyped
  <2>2. UNCHANGED <<tasks, returned, boundTask>>
    BY <1>6 DEF RetireChecks, native, Unmoved
  <2>3. CASE Ours.builder = "original" /\ haveIdentity' = FALSE /\ UNCHANGED phase /\ pc' = then
    <3>1. OneHolder'
      BY <1>1, <2>2, <2>3 DEF OneHolder, Ours
    <3> QED
      BY <2>1, <2>3, <3>1 DEF BindingHeld, BindingPlaced, InertTold
  <2>4. CASE /\ phase' = "Inert" /\ pc' = "idle" /\ UNCHANGED haveIdentity
             /\ (Ours.builder = "wrapper" => stranded')
    BY <1>1, <2>1, <2>2, <2>4 DEF BindingHeld, OneHolder, BindingPlaced, InertTold, Ours
  <2> QED
    BY <1>6, <2>3, <2>4 DEF RetireChecks, OwnerGoes
<1>7. CASE TakeSource
  <2>1. UNCHANGED <<tasks, returned, phase, stranded, boundTask, haveIdentity, pc>>
    BY <1>7 DEF TakeSource, native, binding
  <2> QED
    BY <1>1, <2>1 DEF BindingHeld, OneHolder, BindingPlaced, InertTold, Ours
<1>8. CASE DropSource
  BY <1>1, <1>8, RetireHolds DEF DropSource, TaskBegins, native
<1>9. CASE BindArmed
  <2>1. haveIdentity /\ boundTask.slot \in Slots /\ pc = "idle" /\ phase = "Armed"
    BY <1>1, <1>9 DEF BindArmed, TaskBegins, BindingPlaced
  <2>2. UNCHANGED <<tasks, returned>>
    BY <1>9 DEF BindArmed, native
  <2>3. CASE Faulting
    BY <1>1, <2>2, <2>3, FaultedHolds
  <2>4. CASE Fault(TRUE) /\ Known
    <3>1. OneHolder' /\ haveIdentity' /\ boundTask'.slot \in Slots
      BY <1>1, <2>1, <2>2, <2>4 DEF OneHolder, Known
    <3> QED
      BY <2>4, <3>1, FaultHolds
  <2>5. CASE Known /\ UNCHANGED <<phase, stranded, pc>>
    BY <1>1, <2>1, <2>2, <2>5 DEF Known, BindingHeld, OneHolder, BindingPlaced, InertTold
  <2>6. CASE Retire("bind")
    BY <1>1, <2>1, <2>2, <2>6, RetireHolds
  <2> QED
    BY <1>9, <2>3, <2>4, <2>5, <2>6 DEF BindArmed, BindingFaulted
<1>10. CASE BindTask
  <2>1. ~haveIdentity /\ UNCHANGED <<tasks, returned>>
    BY <1>1, <1>10 DEF BindTask, BindingPlaced, native
  <2>2. CASE pc' = "idle" /\ UNCHANGED binding
    BY <1>1, <2>1, <2>2 DEF binding, BindingHeld, OneHolder, BindingPlaced, InertTold
  <2>3. ASSUME NEW s \in Slots, Installs(s) PROVE BindingHeld'
    <3>1. CASE tasks[s].builder = "wrapper"
      <4>1. boundTask' = Identity(s) /\ haveIdentity' = TRUE /\ Fault(TRUE)
        BY <2>3, <3>1 DEF Installs
      <4>2. OneHolder' /\ boundTask'.slot \in Slots
        BY <1>1, <2>1, <4>1 DEF OneHolder, Identity
      <4> QED
        BY <4>1, <4>2, FaultHolds
    <3>2. CASE tasks[s].builder \notin {"wrapper", "original"}
      BY <2>2, <2>3, <3>2 DEF Installs, OwnerGoes
    <3>3. CASE tasks[s].builder = "original" /\ ~History(s)
      BY <1>1, <2>1, <2>3, <3>3, FaultedHolds DEF Installs, BindingFaulted
    <3>4. CASE tasks[s].builder = "original" /\ History(s)
      <4>1. boundTask' = Identity(s) /\ haveIdentity' = TRUE /\ phase' = "Preparing" /\ pc' = "installSwap"
        BY <2>3, <3>4 DEF Installs, OwnerGoes
      <4>2. OneHolder' /\ boundTask'.slot \in Slots
        BY <1>1, <2>1, <4>1 DEF OneHolder, Identity
      <4> QED
        BY <4>1, <4>2 DEF BindingHeld, BindingPlaced, InertTold
    <3> QED
      BY <3>1, <3>2, <3>3, <3>4
  <2> QED
    BY <1>10, <2>2, <2>3 DEF BindTask
<1>11. CASE InstallSwaps
  <2>1. haveIdentity /\ boundTask.slot \in Slots /\ phase = "Preparing"
    BY <1>1, <1>11 DEF InstallSwaps, BindingPlaced
  <2>2. Swap(boundTask.slot, "original", "wrapper") /\ UNCHANGED <<haveIdentity, boundTask>>
    BY <1>11 DEF InstallSwaps, BindingFaulted, Faulting, Known, binding
  <2>3. OneHolder'
    BY <1>1, <2>1, <2>2, SwapHolder
  <2>4. CASE BindingFaulted
    <3>1. haveIdentity \in BOOLEAN /\ Fault(haveIdentity)
      BY <1>1, <2>4 DEF TaskTyped, BindingFaulted, Faulting
    <3> QED
      BY <2>1, <2>2, <2>3, <3>1, FaultHolds
  <2>5. CASE pc' = "installCheck" /\ UNCHANGED binding
    BY <2>1, <2>2, <2>3, <2>5 DEF binding, BindingHeld, BindingPlaced, InertTold
  <2> QED
    BY <1>11, <2>4, <2>5 DEF InstallSwaps, OwnerGoes
<1>12. CASE InstallChecks
  <2>1. haveIdentity /\ boundTask.slot \in Slots /\ UNCHANGED <<tasks, returned>>
    BY <1>1, <1>12 DEF InstallChecks, BindingPlaced, native
  <2>2. CASE BindingFaulted
    BY <1>1, <2>1, <2>2, FaultedHolds DEF BindingFaulted
  <2>3. CASE phase' = "Armed" /\ pc' = "idle" /\ UNCHANGED <<boundTask, haveIdentity>>
    BY <1>1, <2>1, <2>3 DEF BindingHeld, OneHolder, BindingPlaced, InertTold
  <2> QED
    BY <1>12, <2>2, <2>3 DEF InstallChecks, OwnerGoes
<1>13. CASE ValidateBuilderTask
  <2>1. haveIdentity /\ boundTask.slot \in Slots /\ phase = "Armed" /\ UNCHANGED <<tasks, returned>>
    BY <1>1, <1>13 DEF ValidateBuilderTask, BindingPlaced, native
  <2>2. CASE BindingFaulted
    BY <1>1, <2>1, <2>2, FaultedHolds DEF BindingFaulted
  <2>3. CASE Fault(TRUE) /\ Known
    <3>1. OneHolder' /\ haveIdentity' /\ boundTask'.slot \in Slots
      BY <1>1, <2>1, <2>3 DEF OneHolder, Known
    <3> QED
      BY <2>3, <3>1, FaultHolds
  <2>4. CASE Known /\ UNCHANGED <<phase, stranded, pc>>
    BY <1>1, <2>1, <2>4 DEF Known, BindingHeld, OneHolder, BindingPlaced, InertTold
  <2> QED
    BY <1>13, <2>2, <2>3, <2>4 DEF ValidateBuilderTask
<1>14. CASE CleanupRevoked
  BY <1>1, <1>14, FaultedHolds DEF CleanupRevoked, BindingFaulted, native
<1> QED
  BY <1>2, <1>3, <1>4, <1>5, <1>6, <1>7, <1>8, <1>9, <1>10, <1>11, <1>12, <1>13, <1>14 DEF BindingOwner

\* The life taken up last is known, and it is the one in the history.
LEMMA OwnerHistory ==
    ASSUME BindingInv, BindingOwner
    PROVE  HistoryHeld'
<1>1. TaskTyped /\ LivesCreated /\ CounterHeld /\ HistoryHeld /\ BindingPlaced
  BY DEF BindingInv, BindingHeld
<1>2. known' \in Nat /\ known' >= known
  BY <1>1, OwnerFrames, CounterKept DEF OwnerFrame
<1>3. CASE UNCHANGED <<haveHistory, last, adopted>>
  BY <1>1, <1>2, <1>3, HistoryKept
<1>4. CASE InstallChecks
  <2>1. CASE BindingFaulted
    BY <1>3, <2>1 DEF BindingFaulted, Faulting, Known
  <2>2. CASE /\ Identity(boundTask.slot) = boundTask /\ Counter = lastNativeCounter
             /\ last' = boundTask /\ haveHistory' = TRUE /\ adopted' = Ours.life /\ known' = known
    <3>1. boundTask.slot \in Slots
      BY <1>1, <1>4 DEF InstallChecks, BindingPlaced, Installing
    <3>2. {created, known, Ours.life} \subseteq Nat /\ Ours.life <= created /\ Width \in Nat /\ Width > 0
      BY <1>1, <3>1, WidthAssumption DEF TaskTyped, TaskSet, LivesCreated, Ours
    <3>3. created = known
      <4>1. known <= created /\ created <= known + Width - 1 /\ known < Width /\ Id(created) = known
        BY <1>1, <2>2, <3>2 DEF CounterHeld, Counter
      <4>2. created < Width
        <5> SUFFICES ASSUME created >= Width PROVE FALSE
          BY <3>2
        <5>1. Id(created) = created - Width
          BY <3>2, <4>1, IdWraps
        <5> QED
          BY <3>2, <4>1, <5>1
      <4> QED
        BY <3>2, <4>1, <4>2, IdSmall
    <3>4. last'.id = Id(Ours.life)
      BY <2>2 DEF Identity, Ours
    <3>5. Ours.life < Width
      BY <1>1, <3>2, <3>3 DEF CounterHeld
    <3>6. last'.id = Ours.life
      BY <3>2, <3>4, <3>5, IdSmall
    <3> QED
      BY <2>2, <3>2, <3>3, <3>6 DEF HistoryHeld
  <2> QED
    BY <1>4, <2>1, <2>2 DEF InstallChecks
<1>5. ASSUME NEW next, Retire(next) PROVE UNCHANGED <<haveHistory, last, adopted>>
  BY <1>5 DEF Retire, RetireUnbound, RetireReplaced, RetireBound, Faulting, Known, Unmoved
<1>6. CASE InverseReads \/ InverseSwaps \/ InverseChecks
  BY <1>3, <1>6 DEF InverseReads, InverseSwaps, InverseChecks, Known, binding
<1>7. CASE RetireSwaps \/ RetireChecks
  BY <1>3, <1>7 DEF RetireSwaps, RetireChecks, Unmoved, binding
<1>8. CASE TakeSource \/ DropSource
  BY <1>3, <1>5, <1>8 DEF TakeSource, DropSource, binding
<1>9. CASE BindArmed
  BY <1>3, <1>5, <1>9 DEF BindArmed, BindingFaulted, Faulting, Known
<1>10. CASE BindTask
  BY <1>3, <1>10 DEF BindTask, Installs, BindingFaulted, Faulting, Known, binding
<1>11. CASE InstallSwaps
  BY <1>3, <1>11 DEF InstallSwaps, BindingFaulted, Faulting, Known, binding
<1>12. CASE ValidateBuilderTask \/ CleanupRevoked
  BY <1>3, <1>12 DEF ValidateBuilderTask, CleanupRevoked, BindingFaulted, Faulting, Known
<1> QED
  BY <1>4, <1>6, <1>7, <1>8, <1>9, <1>10, <1>11, <1>12 DEF BindingOwner

\* At first no task is bound and no count is known.
LEMMA TaskStarts == TaskInit => BindingInv
<1> SUFFICES ASSUME TaskInit PROVE BindingInv
  OBVIOUS
<1> USE DEF TaskInit
<1>1. Free \in TaskSet /\ Free.life = 0 /\ Free.builder # "wrapper"
  BY DEF Free, TaskSet, Pointers
<1>2. NoTask \in [slot : Slots \cup {None}, id : Nat]
  BY DEF NoTask
<1>3. tasks \in [Slots -> TaskSet] /\ \A s \in Slots : tasks[s] = Free
  BY <1>1
<1>4. {created, known, adopted, lastNativeCounter, selected} \subseteq Nat
  OBVIOUS
<1>5. TaskTyped
  <2>1. haveIdentity \in BOOLEAN /\ haveHistory \in BOOLEAN /\ stranded \in BOOLEAN
    OBVIOUS
  <2>2. boundTask = NoTask /\ last = NoTask /\ then \in {"idle", "bind"} /\ returned \subseteq Slots
    OBVIOUS
  <2> HIDE DEF TaskInit
  <2> QED
    BY <1>2, <1>3, <1>4, <2>1, <2>2 DEF TaskTyped
<1>6. BindingHeld
  BY <1>1, <1>3 DEF BindingHeld, OneHolder, BindingPlaced, InertTold, Installing, Retiring, Inverting
<1>7. LivesCreated /\ CounterHeld /\ HistoryHeld
  BY <1>1, <1>3, WidthAssumption DEF LivesCreated, CounterHeld, HistoryHeld
<1> QED
  BY <1>5, <1>6, <1>7 DEF BindingInv

\* The invariant holds in every state.
LEMMA BindingHolds == TaskSpec => []BindingInv
<1>1. ASSUME BindingInv, BindingOwner PROVE BindingInv'
  <2>1. TaskTyped' /\ BindingHeld' /\ HistoryHeld'
    BY <1>1, BindingTyped, OwnerHolds, OwnerHistory
  <2>2. TaskTyped /\ LivesCreated /\ CounterHeld /\ OwnerFrame
    BY <1>1, OwnerFrames DEF BindingInv
  <2>3. LivesCreated'
    BY <2>2 DEF LivesCreated, OwnerFrame
  <2>4. CounterHeld'
    BY <2>2, CounterKept DEF OwnerFrame
  <2> QED
    BY <2>1, <2>3, <2>4 DEF BindingInv
<1>2. ASSUME BindingInv, Environment PROVE BindingInv'
  BY <1>2, GameDisturbs, DisturbedHolds DEF Environment
<1>3. ASSUME BindingInv, UNCHANGED taskVars PROVE BindingInv'
  <2>1. UNCHANGED <<tasks, created, selected, returned, phase, stranded, boundTask, haveIdentity, last,
                    lastNativeCounter, haveHistory, adopted, known, pc, then>>
    BY <1>3 DEF taskVars, native, binding
  <2>2. TaskTyped' /\ LivesCreated' /\ CounterHeld' /\ HistoryHeld'
    BY <1>3, <2>1 DEF BindingInv, TaskTyped, LivesCreated, CounterHeld, HistoryHeld
  <2>3. BindingHeld'
    BY <1>3, <2>1 DEF BindingInv, BindingHeld, OneHolder, BindingPlaced, InertTold, Ours
  <2> QED
    BY <2>2, <2>3 DEF BindingInv
<1> QED
  BY <1>1, <1>2, <1>3, TaskStarts, PTL DEF TaskSpec, TaskNext

\* The wrapper is in no task but the one bound, unless the binding told that it is stranded or the
\* game put it back, and a task that is taken up is newer than the last one, for any number of
\* slots and lives and for any width of the counter.
THEOREM BindsOne == TaskSpec => BindsOneTask
<1>1. BindingInv => NoStrayWrapper
  <2> SUFFICES ASSUME BindingInv, pc = "idle", NEW s \in Slots \ returned, tasks[s].builder = "wrapper"
               PROVE  boundTask.slot = s /\ (phase = "Armed" \/ stranded)
    BY DEF NoStrayWrapper
  <2>1. OneHolder /\ BindingPlaced /\ InertTold
    BY DEF BindingInv, BindingHeld
  <2>2. haveIdentity /\ boundTask.slot = s
    BY <2>1 DEF OneHolder
  <2>3. phase \in {"Armed", "Inert"}
    BY <2>1, <2>2 DEF BindingPlaced, Installing, Retiring
  <2> QED
    BY <2>1, <2>2, <2>3 DEF InertTold, Ours
<1>2. ASSUME BindingInv, TaskNext, phase' = "Preparing", phase # "Preparing"
      PROVE  \/ adopted = 0 \/ tasks[boundTask'.slot].life = adopted
             \/ tasks[boundTask'.slot].life > known
  <2>1. PICK s \in Slots : Installs(s)
    <3>1. Environment => UNCHANGED phase
      BY DEF Environment, CreateTask, DestroyTask, RunTask, Select, ForeignHook, ForeignUnhook, Elsewhere, binding
    <3>2. \A next : Retire(next) => phase' # "Preparing"
      BY <1>2 DEF Retire, RetireUnbound, RetireReplaced, RetireBound, Faulting, Fault, Retired
    <3>3. BindTask
      BY <1>2, <3>1, <3>2 DEF TaskNext, BindingOwner, InverseReads, InverseSwaps, InverseChecks, RetireSwaps,
         RetireChecks, TakeSource, DropSource, BindArmed, InstallSwaps, InstallChecks, ValidateBuilderTask,
         CleanupRevoked, BindingFaulted, Faulting, Fault, binding
    <3> QED
      BY <1>2, <3>3 DEF BindTask, binding
  <2>2. History(s) /\ boundTask' = Identity(s)
    BY <1>2, <2>1 DEF Installs, Fault, BindingFaulted, Faulting, binding
  <2>3. TaskTyped /\ LivesCreated /\ CounterHeld /\ HistoryHeld
    BY <1>2 DEF BindingInv
  <2>4. created < Width /\ tasks[s].life \in Nat /\ tasks[s].life <= created /\ {created, known} \subseteq Nat
        /\ Width \in Nat
    BY <2>2, <2>3, Accepted, WidthAssumption DEF History, TaskTyped, TaskSet, LivesCreated
  <2>5. Id(tasks[s].life) = tasks[s].life
    BY <2>4, IdSmall
  <2>6. adopted = 0 \/ tasks[s].life = adopted \/ tasks[s].life > known
    BY <2>2, <2>3, <2>4, <2>5 DEF History, HistoryHeld, CounterHeld
  <2> QED
    BY <2>2, <2>6 DEF Identity
<1>3. BindingInv /\ [TaskNext]_taskVars =>
        [phase' = "Preparing" /\ phase # "Preparing" =>
            LET taken == tasks[boundTask'.slot].life IN
                adopted = 0 \/ taken = adopted \/ taken > known]_taskVars
  BY <1>2
<1> QED
  BY <1>1, <1>3, BindingHolds, PTL DEF TaskSpec, BindsOneTask, AdoptsNewer

-----------------------------------------------------------------------------
(***************************************************************************)
(* A selection is fresh. A pending request and a fresh witness are claims  *)
(* about what the game has computed; they stand on the source, the task and*)
(* the request they were made for, and every step of the owner either      *)
(* carries them or drops them.                                             *)
(***************************************************************************)

\* An epoch names a source and its binding.
EpochSet == [source : Nat, binding : Nat]
\* A request whose answer is not read back yet.
PendingSet == [active : BOOLEAN, seq : Nat, at : Nat, bots : Nat, set : BOOLEAN, setAt : Nat, timer : Nat]
\* A witness that an answer was computed.
FreshSet == [valid : BOOLEAN, counts : Nat, witness : Nat, request : Nat, lower : Nat]
\* The ProducerState of the owner.
ProducerSet == [fault : BOOLEAN, ready : BOOLEAN, epoch : EpochSet, requested : BOOLEAN,
                lastRequest : Nat, requests : Nat, witnesses : Nat, pending : PendingSet, fresh : FreshSet]
\* What was in force when a request was staged.
StagedSet == [epoch : EpochSet, life : Nat]
\* The producer's words are of their kinds.
ProducerTyped ==
    /\ {time, sourceLife, outer, box, timer, worldBots, source, sourceEpoch, bindingEpoch} \subseteq Nat
    /\ flag \in BOOLEAN /\ disturbed \in BOOLEAN /\ sourceReady \in BOOLEAN /\ armed \in BOOLEAN
    /\ p \in ProducerSet
    /\ stagedIn \in [1..MaxRequests -> StagedSet]
    /\ boundEpoch \in EpochSet /\ computed \in [life : Nat, at : Nat]
\* The game has computed the counts since the moment at, in the life of this source.
ComputedSince(at) == computed.life = sourceLife /\ computed.at >= at
\* The box still shows the flag, or the timer shows that nobody took the request.
StillWaits == IF disturbed THEN flag \/ timer >= p.pending.timer ELSE flag /\ timer >= p.pending.timer
\* The request was staged under this epoch, on this source.
StagedHere(r) == r \in 1..p.requests /\ stagedIn[r] = [epoch |-> p.epoch, life |-> source]
\* A claim stands on a ready source and on the bound epoch, and on no fault.
ClaimHolds == sourceReady /\ ~p.fault /\ (armed => boundEpoch = p.epoch)
\* A pending request that is set was computed since, or it still waits.
PendingTrue ==
    p.pending.active =>
        /\ ClaimHolds /\ StagedHere(p.pending.seq) /\ p.pending.setAt <= time
        /\ p.pending.set /\ source = sourceLife => ComputedSince(p.pending.setAt) \/ StillWaits
\* A fresh witness means that the counts were computed since its lower bound.
FreshTrue ==
    p.fresh.valid =>
        /\ ClaimHolds /\ StagedHere(p.fresh.request) /\ p.fresh.lower <= time
        /\ source = sourceLife => ComputedSince(p.fresh.lower)
\* The owner knows no source that is not there yet.
SourceSeen == source <= sourceLife
\* The requests are counted and bounded.
RequestsCounted == p.requests <= MaxRequests /\ (p.requests > 0 => p.requested)
\* A request is staged under the epoch that is bound.
StagingHolds ==
    place = "staging" => sourceReady /\ boundEpoch = p.epoch /\ p.requests < MaxRequests
\* The final selection is made for the epoch that is armed.
FinalHolds == place = "final" => armed /\ boundEpoch = [source |-> sourceEpoch, binding |-> bindingEpoch]

\* The functions on ProducerState lose claims, and nothing else.
Lost(s, t) ==
    /\ t \in ProducerSet /\ t.epoch = s.epoch /\ t.requests = s.requests /\ (s.requested => t.requested)
    /\ t.pending.active => t.pending = s.pending /\ (t.fault => s.fault)
    /\ t.fresh.valid => t.fresh = s.fresh /\ (t.fault => s.fault)

\* The empty request and the empty witness claim nothing.
LEMMA Empties == NoPending \in PendingSet /\ ~NoPending.active /\ NoFresh \in FreshSet /\ ~NoFresh.valid
                 /\ NoPending.seq = 0 /\ NoPending.set = FALSE
  BY DEF NoPending, PendingSet, NoFresh, FreshSet

\* Invalidated drops both claims.
LEMMA InvalidatedIs ==
    ASSUME NEW s \in ProducerSet
    PROVE  /\ Lost(s, Invalidated(s))
           /\ ~Invalidated(s).pending.active /\ ~Invalidated(s).fresh.valid
  BY Empties DEF Lost, Invalidated, ProducerSet

\* A fault drops both claims.
LEMMA FaultedIs ==
    ASSUME NEW s \in ProducerSet
    PROVE  Lost(s, Faulted(s)) /\ ~Faulted(s).pending.active /\ ~Faulted(s).fresh.valid
  BY Empties DEF Lost, Faulted, ProducerSet

\* An expired request drops itself and leaves the witness alone.
LEMMA ExpiredIs ==
    ASSUME NEW s \in ProducerSet
    PROVE  Lost(s, Expired(s)) /\ Expired(s).fresh = s.fresh /\ (Expired(s).fault <=> s.fault)
  BY Empties DEF Lost, Expired, ProducerSet

\* Forgetting the request only loses claims.
LEMMA ForgottenIs ==
    ASSUME NEW s \in ProducerSet
    PROVE  Lost(s, Forgotten(s))
  BY Empties DEF Lost, Forgotten, ProducerSet

\* Losing claims twice is losing claims.
LEMMA LostTwice ==
    ASSUME NEW s \in ProducerSet, NEW t \in ProducerSet, NEW u \in ProducerSet, Lost(s, t), Lost(t, u)
    PROVE  Lost(s, u)
  BY DEF Lost

\* A new epoch drops the claims made under the old one; the same epoch keeps them.
LEMMA SetEpochIs ==
    ASSUME NEW s \in ProducerSet, NEW e \in EpochSet
    PROVE  LET t == SetEpoch(s, e) IN
           /\ t \in ProducerSet /\ t.requests = s.requests /\ (s.requested => t.requested)
           /\ s.fault => t = s
           /\ ~s.fault => t.epoch = e /\ ~t.fault
           /\ t.pending.active => t.pending = s.pending /\ t.epoch = s.epoch
           /\ t.fresh.valid => t.fresh = s.fresh /\ t.epoch = s.epoch
<1>1. CASE s.fault
  BY <1>1 DEF SetEpoch
<1>2. CASE ~s.fault
  <2>1. CASE e = s.epoch
    <3>1. SetEpoch(s, e) = [s EXCEPT !.epoch = e, !.ready = TRUE]
      BY <1>2, <2>1 DEF SetEpoch
    <3> QED
      BY <1>2, <2>1, <3>1 DEF ProducerSet
  <2>2. CASE e # s.epoch
    <3>1. SetEpoch(s, e) = [Invalidated(s) EXCEPT !.epoch = e, !.ready = TRUE]
      BY <1>2, <2>2 DEF SetEpoch
    <3>2. Invalidated(s) \in ProducerSet /\ ~Invalidated(s).pending.active
          /\ ~Invalidated(s).fresh.valid /\ Invalidated(s).requests = s.requests
          /\ (s.requested => Invalidated(s).requested)
      BY InvalidatedIs DEF Lost
    <3>3. ~Invalidated(s).fault
      BY <1>2 DEF Invalidated, ProducerSet
    <3> QED
      BY <1>2, <3>1, <3>2, <3>3 DEF ProducerSet
  <2> QED
    BY <2>1, <2>2
<1> QED
  BY <1>1, <1>2

\* A word of the pending request is written, and nothing else.
LEMMA PendingReplaced ==
    ASSUME NEW s \in ProducerSet, NEW q \in PendingSet
    PROVE  LET t == [s EXCEPT !.pending = q] IN
              /\ t \in ProducerSet /\ t.pending = q /\ t.fresh = s.fresh
              /\ t.requests = s.requests /\ t.epoch = s.epoch /\ (s.requested => t.requested)
              /\ t.fault => s.fault
  BY DEF ProducerSet

\* A pending request is seen set.
LEMMA SetWritten ==
    ASSUME NEW s \in ProducerSet
    PROVE  LET t == [s EXCEPT !.pending.set = TRUE] IN
              /\ t \in ProducerSet /\ t.pending.seq = s.pending.seq /\ t.fresh = s.fresh
              /\ t.requests = s.requests /\ t.epoch = s.epoch /\ (s.requested => t.requested)
              /\ t.fault => s.fault
<1> DEFINE q == [s.pending EXCEPT !.set = TRUE]
<1>1. s.pending \in PendingSet
  BY DEF ProducerSet
<1>2. q \in PendingSet /\ q.seq = s.pending.seq
  BY <1>1 DEF PendingSet
<1> DEFINE r == [s EXCEPT !.pending = q]
<1>3. [s EXCEPT !.pending.set = TRUE] = r
  OBVIOUS
<1> HIDE DEF q
<1>4. /\ r \in ProducerSet /\ r.pending = q /\ r.fresh = s.fresh
      /\ r.requests = s.requests /\ r.epoch = s.epoch /\ (s.requested => r.requested)
      /\ r.fault => s.fault
  BY <1>2, PendingReplaced
<1> HIDE DEF r
<1> QED
  BY <1>2, <1>3, <1>4

\* The time of a pending request is written, and nothing else.
LEMMA SetAtWritten ==
    ASSUME NEW s \in ProducerSet, NEW n \in Nat
    PROVE  LET t == [s EXCEPT !.pending.setAt = n] IN
              /\ t \in ProducerSet /\ t.pending.seq = s.pending.seq /\ t.pending.setAt = n /\ t.fresh = s.fresh
              /\ t.requests = s.requests /\ t.epoch = s.epoch /\ (s.requested => t.requested)
              /\ t.fault => s.fault
<1> DEFINE q == [s.pending EXCEPT !.setAt = n]
<1>1. s.pending \in PendingSet
  BY DEF ProducerSet
<1>2. q \in PendingSet /\ q.seq = s.pending.seq /\ q.setAt = n
  BY <1>1 DEF PendingSet
<1> DEFINE r == [s EXCEPT !.pending = q]
<1>3. [s EXCEPT !.pending.setAt = n] = r
  OBVIOUS
<1> HIDE DEF q
<1>4. /\ r \in ProducerSet /\ r.pending = q /\ r.fresh = s.fresh
      /\ r.requests = s.requests /\ r.epoch = s.epoch /\ (s.requested => r.requested)
      /\ r.fault => s.fault
  BY <1>2, PendingReplaced
<1> HIDE DEF r
<1> QED
  BY <1>2, <1>3, <1>4

\* The timer of a pending request is written, and nothing else.
LEMMA TimerWritten ==
    ASSUME NEW s \in ProducerSet, NEW n \in Nat
    PROVE  LET t == [s EXCEPT !.pending.timer = n] IN
              /\ t \in ProducerSet /\ t.pending.seq = s.pending.seq
              /\ t.pending.setAt = s.pending.setAt /\ t.pending.timer = n /\ t.fresh = s.fresh
              /\ t.requests = s.requests /\ t.epoch = s.epoch /\ (s.requested => t.requested)
              /\ t.fault => s.fault
<1> DEFINE q == [s.pending EXCEPT !.timer = n]
<1>1. s.pending \in PendingSet
  BY DEF ProducerSet
<1>2. q \in PendingSet /\ q.seq = s.pending.seq
              /\ q.setAt = s.pending.setAt /\ q.timer = n
  BY <1>1 DEF PendingSet
<1> DEFINE r == [s EXCEPT !.pending = q]
<1>3. [s EXCEPT !.pending.timer = n] = r
  OBVIOUS
<1> HIDE DEF q
<1>4. /\ r \in ProducerSet /\ r.pending = q /\ r.fresh = s.fresh
      /\ r.requests = s.requests /\ r.epoch = s.epoch /\ (s.requested => r.requested)
      /\ r.fault => s.fault
  BY <1>2, PendingReplaced
<1> HIDE DEF r
<1> QED
  BY <1>2, <1>3, <1>4

\* A request seen set, consumed, or gone.
LEMMA ObservedIs ==
    ASSUME ProducerTyped, NEW old \in ProducerSet, old.pending.active => ~old.fault, NEW plain \in BOOLEAN
    PROVE  LET t == Observed(old, plain) IN
           /\ t \in ProducerSet /\ t.epoch = old.epoch /\ t.requests = old.requests
           /\ old.requested => t.requested
           /\ old.fault => t.fault
           /\ t.pending.active =>
                 /\ old.pending.active /\ flag /\ ~t.fault /\ t.pending.seq = old.pending.seq
                 /\ t.pending.setAt = time /\ t.pending.timer = timer
           /\ t.fresh.valid =>
                 /\ t.fault => old.fault
                 /\ \/ t.fresh = old.fresh
                    \/ /\ old.pending.active /\ ~flag /\ old.pending.set /\ timer < old.pending.timer
                       /\ t.fresh.request = old.pending.seq /\ t.fresh.lower = old.pending.setAt
<1> DEFINE s == Expired(old)
<1>1. Lost(old, s) /\ s.fresh = old.fresh /\ (s.fault <=> old.fault) /\ s \in ProducerSet
  BY ExpiredIs DEF Lost
<1> HIDE DEF s
<1>2. time \in Nat /\ timer \in Nat /\ outer \in Nat
  BY DEF ProducerTyped
<1>3. s \in ProducerSet /\ s.epoch = old.epoch /\ s.requests = old.requests /\ (old.requested => s.requested)
      /\ (s.pending.active => s.pending = old.pending /\ old.pending.active)
  BY <1>1 DEF Lost
<1>4. CASE s.fault \/ ~s.pending.active
  <2>1. Observed(old, plain) = s
    BY <1>4 DEF Observed, s
  <2>2. ~s.pending.active
    BY <1>1, <1>3, <1>4
  <2> QED
    BY <1>1, <1>3, <2>1, <2>2
<1>5. CASE ~s.fault /\ s.pending.active /\ flag
  <2>1. Observed(old, plain) = [s EXCEPT !.pending.set = TRUE, !.pending.setAt = time, !.pending.timer = timer]
    BY <1>5 DEF Observed, s
  <2> DEFINE a == [s EXCEPT !.pending.set = TRUE]
             b == [a EXCEPT !.pending.setAt = time]
             c == [b EXCEPT !.pending.timer = timer]
  <2>2. Observed(old, plain) = c
    BY <2>1
  <2>3. a \in ProducerSet /\ a.pending.seq = s.pending.seq /\ a.fresh = s.fresh /\ a.requests = s.requests
        /\ a.epoch = s.epoch /\ (s.requested => a.requested) /\ (a.fault => s.fault)
    BY <1>3, SetWritten
  <2> HIDE DEF a
  <2>4. b \in ProducerSet /\ b.pending.seq = a.pending.seq /\ b.pending.setAt = time /\ b.fresh = a.fresh
        /\ b.requests = a.requests /\ b.epoch = a.epoch /\ (a.requested => b.requested)
        /\ (b.fault => a.fault)
    BY <1>2, <2>3, SetAtWritten
  <2> HIDE DEF b
  <2>5. c \in ProducerSet /\ c.pending.seq = b.pending.seq /\ c.pending.setAt = b.pending.setAt
        /\ c.pending.timer = timer /\ c.fresh = b.fresh
        /\ c.requests = b.requests /\ c.epoch = b.epoch /\ (b.requested => c.requested)
        /\ (c.fault => b.fault)
    BY <1>2, <2>4, TimerWritten
  <2> HIDE DEF c
  <2> QED
    BY <1>1, <1>3, <1>5, <2>2, <2>3, <2>4, <2>5
<1>6. CASE ~s.fault /\ s.pending.active /\ ~flag /\ ~Consumed(s, plain)
  <2>1. Observed(old, plain) = Gone(s)
    BY <1>6 DEF Observed, s
  <2> QED
    BY <1>3, <1>6, <2>1, Empties DEF Gone, ProducerSet
<1>7. CASE ~s.fault /\ s.pending.active /\ ~flag /\ Consumed(s, plain) /\ s.witnesses = MaxRequests
  <2>1. Observed(old, plain) = Faulted(s)
    BY <1>7 DEF Observed, s
  <2>2. ~old.fault
    BY <1>1, <1>7
  <2> QED
    BY <1>3, <2>1, <2>2, FaultedIs DEF Lost
<1>8. CASE ~s.fault /\ s.pending.active /\ ~flag /\ Consumed(s, plain) /\ s.witnesses # MaxRequests
  <2> DEFINE w == [valid |-> TRUE, counts |-> outer, witness |-> s.witnesses + 1,
                   request |-> s.pending.seq, lower |-> s.pending.setAt]
  <2>1. Observed(old, plain) = [s EXCEPT !.pending = NoPending, !.witnesses = @ + 1, !.fresh = w]
    BY <1>8 DEF Observed, s
  <2>2. w \in FreshSet /\ s.witnesses + 1 \in Nat
    BY <1>2, <1>3 DEF FreshSet, ProducerSet, PendingSet
  <2>3. s.pending.set /\ timer < s.pending.timer
    BY <1>8 DEF Consumed
  <2>4. w.request = s.pending.seq /\ w.lower = s.pending.setAt
    OBVIOUS
  <2> HIDE DEF w
  <2>5. Observed(old, plain) \in ProducerSet
    BY <1>3, <2>1, <2>2, Empties DEF ProducerSet
  <2>6. Observed(old, plain).fresh = w /\ Observed(old, plain).pending = NoPending /\ Observed(old, plain).epoch = s.epoch
        /\ Observed(old, plain).requests = s.requests /\ (s.requested => Observed(old, plain).requested)
        /\ ~Observed(old, plain).fault
    BY <1>3, <1>8, <2>1, <2>2, Empties DEF ProducerSet
  <2> QED
    BY <1>3, <1>8, <2>3, <2>4, <2>5, <2>6, Empties
<1> QED
  BY <1>4, <1>5, <1>6, <1>7, <1>8

\* What was staged is remembered for as long as it is waited for or witnessed.
LEMMA StagedStays ==
    ASSUME ProducerTyped, Watch, NEW r \in 1..MaxRequests, r <= p.requests, r \in {p'.pending.seq, p'.fresh.request}
    PROVE  stagedIn'[r] = stagedIn[r]
<1>1. stagedIn'[r] = IF r \notin {p'.pending.seq, p'.fresh.request} THEN NotStaged
                     ELSE IF r > p.requests THEN [epoch |-> p.epoch, life |-> sourceLife] ELSE stagedIn[r]
  BY DEF Watch
<1>2. p.requests \in Nat
  BY DEF ProducerTyped, ProducerSet
<1> QED
  BY <1>1, <1>2, ProducerAssumption

\* What is remembered of the staged requests is of its kind.
LEMMA WatchTyped ==
    ASSUME ProducerTyped, Watch
    PROVE  stagedIn' \in [1..MaxRequests -> StagedSet]
<1>1. NotStaged \in StagedSet
  BY DEF NotStaged, NoEpoch, StagedSet, EpochSet
<1>2. [epoch |-> p.epoch, life |-> sourceLife] \in StagedSet
  BY DEF ProducerTyped, ProducerSet, StagedSet
<1>3. \A r \in 1..MaxRequests : stagedIn[r] \in StagedSet
  BY DEF ProducerTyped
<1> QED
  BY <1>1, <1>2, <1>3 DEF Watch

\* The owner's steps leave the game alone, but for the flag of a request.
GameKept == UNCHANGED <<time, sourceLife, outer, timer, worldBots, computed>>

\* The source and the task of the claims are the ones before.
SameSource ==
    p'.epoch = p.epoch /\ source' = source /\ sourceReady' /\ ~p'.fault /\ (armed' => boundEpoch' = p.epoch)
\* A pending request is the one before and still waits, or is read as set.
PendingCarried ==
    p'.pending.active =>
        /\ SameSource /\ p.pending.active /\ p'.pending.seq = p.pending.seq
        /\ \/ p'.pending = p.pending /\ flag' = flag /\ disturbed' = disturbed
           \/ p'.pending.setAt = time /\ p'.pending.timer = timer /\ flag' /\ ~disturbed'
\* A witness is the one before, or it is made of a request that was taken.
FreshCarried ==
    p'.fresh.valid =>
        /\ SameSource
        /\ \/ p.fresh.valid /\ p'.fresh = p.fresh
           \/ /\ p.pending.active /\ p.pending.set /\ ~flag /\ timer < p.pending.timer
              /\ source = sourceLife
              /\ p'.fresh.request = p.pending.seq /\ p'.fresh.lower = p.pending.setAt

\* A pending request that a step carries stays true.
LEMMA PendingStep ==
    ASSUME ProducerTyped, ProducerTyped', RequestsCounted, PendingTrue, Watch, GameKept, p'.requests = p.requests,
           PendingCarried
    PROVE  PendingTrue'
<1> SUFFICES ASSUME p'.pending.active
             PROVE  /\ ClaimHolds' /\ (StagedHere(p.pending.seq))' /\ p'.pending.setAt <= time'
                    /\ p'.pending.set /\ source' = sourceLife' =>
                          (ComputedSince(p.pending.setAt))' \/ StillWaits'
  BY DEF PendingTrue
<1>1. SameSource /\ p.pending.active /\ p'.pending.seq = p.pending.seq
  BY DEF PendingCarried
<1>2. ClaimHolds'
  BY <1>1 DEF SameSource, ClaimHolds
<1>3. p.pending.seq \in 1..p.requests /\ stagedIn[p.pending.seq] = [epoch |-> p.epoch, life |-> source]
      /\ p.pending.setAt <= time
  BY <1>1 DEF PendingTrue, StagedHere
<1>4. p.requests \in Nat /\ time \in Nat /\ timer \in Nat
  BY DEF ProducerTyped, ProducerSet
<1>5. stagedIn'[p'.pending.seq] = stagedIn[p.pending.seq]
  BY <1>1, <1>3, <1>4, StagedStays, ProducerAssumption DEF RequestsCounted
<1>6. (StagedHere(p.pending.seq))'
  BY <1>1, <1>3, <1>5 DEF StagedHere, SameSource
<1>7. CASE p'.pending = p.pending /\ flag' = flag /\ disturbed' = disturbed
  <2>1. p.pending.set /\ source = sourceLife => ComputedSince(p.pending.setAt) \/ StillWaits
    BY <1>1 DEF PendingTrue
  <2>2. StillWaits => StillWaits'
    BY <1>7, Zenon DEF StillWaits, GameKept
  <2>3. ComputedSince(p.pending.setAt) => (ComputedSince(p.pending.setAt))'
    BY <1>7 DEF ComputedSince, GameKept
  <2>4. source' = source /\ sourceLife' = sourceLife /\ time' = time
    BY <1>1 DEF SameSource, GameKept
  <2> QED
    BY <1>2, <1>3, <1>6, <1>7, <2>1, <2>2, <2>3, <2>4, Zenon
<1>8. CASE p'.pending.setAt = time /\ p'.pending.timer = timer /\ flag' /\ ~disturbed'
  <2>1. StillWaits'
    BY <1>4, <1>8 DEF StillWaits, GameKept
  <2>2. p'.pending.setAt <= time'
    BY <1>4, <1>8 DEF GameKept
  <2> QED
    BY <1>2, <1>6, <2>1, <2>2
<1> QED
  BY <1>7, <1>8 DEF PendingCarried

\* A witness that a step carries stays true.
LEMMA FreshStep ==
    ASSUME ProducerTyped, ProducerTyped', RequestsCounted, PendingTrue, FreshTrue, Watch, GameKept,
           p'.requests \in Nat, p'.requests >= p.requests, FreshCarried
    PROVE  FreshTrue'
<1> SUFFICES ASSUME p'.fresh.valid
             PROVE  /\ ClaimHolds' /\ (StagedHere(p.fresh.request))' /\ p'.fresh.lower <= time'
                    /\ source' = sourceLife' => (ComputedSince(p.fresh.lower))'
  BY DEF FreshTrue
<1>1. SameSource
  BY DEF FreshCarried
<1>2. ClaimHolds'
  BY <1>1 DEF SameSource, ClaimHolds
<1>3. p.requests \in Nat /\ time \in Nat /\ timer \in Nat /\ p.pending \in PendingSet
  BY DEF ProducerTyped, ProducerSet
<1>4. /\ p'.fresh.request \in 1..p.requests
      /\ stagedIn[p'.fresh.request] = [epoch |-> p.epoch, life |-> source]
      /\ p'.fresh.lower <= time /\ (source = sourceLife => ComputedSince(p'.fresh.lower))
  <2>1. CASE p.fresh.valid /\ p'.fresh = p.fresh
    BY <2>1 DEF FreshTrue, StagedHere
  <2>2. CASE /\ p.pending.active /\ p.pending.set /\ ~flag /\ timer < p.pending.timer
             /\ source = sourceLife
             /\ p'.fresh.request = p.pending.seq /\ p'.fresh.lower = p.pending.setAt
    <3>1. p.pending.timer \in Nat
      BY <1>3 DEF PendingSet
    <3>2. ~StillWaits
      BY <1>3, <2>2, <3>1 DEF StillWaits
    <3> QED
      BY <2>2, <3>2 DEF PendingTrue, StagedHere
  <2> QED
    BY <2>1, <2>2 DEF FreshCarried
<1>5. stagedIn'[p'.fresh.request] = stagedIn[p'.fresh.request]
  BY <1>3, <1>4, StagedStays, ProducerAssumption DEF RequestsCounted
<1>6. (StagedHere(p.fresh.request))'
  <2>1. p'.fresh.request \in 1..p'.requests
    BY <1>3, <1>4
  <2> QED
    BY <1>1, <1>4, <1>5, <2>1 DEF StagedHere, SameSource
<1>7. source' = source /\ sourceLife' = sourceLife /\ time' = time /\ computed' = computed
  BY <1>1 DEF SameSource, GameKept
<1> QED
  BY <1>2, <1>4, <1>6, <1>7 DEF ComputedSince

\* The inductive invariant of the producer.
ClaimsInv == ProducerTyped /\ RequestsCounted /\ PendingTrue /\ FreshTrue /\ SourceSeen /\ StagingHolds /\ FinalHolds

\* What every step of the owner leaves in order, whatever it does to the claims.
OwnerKept ==
    /\ GameKept /\ p' \in ProducerSet /\ (p.requested => p'.requested)
    /\ flag' \in BOOLEAN /\ disturbed' \in BOOLEAN /\ sourceReady' \in BOOLEAN /\ armed' \in BOOLEAN
    /\ {source', sourceEpoch', bindingEpoch', box'} \subseteq Nat /\ boundEpoch' \in EpochSet
    /\ source' <= sourceLife /\ StagingHolds' /\ FinalHolds'
Carried == p'.requests = p.requests /\ PendingCarried /\ FreshCarried

\* The kinds of the words that most steps read.
LEMMA TypedOf ==
    ASSUME ProducerTyped
    PROVE  /\ {time, sourceLife, outer, box, timer, worldBots, source, sourceEpoch, bindingEpoch} \subseteq Nat
           /\ flag \in BOOLEAN /\ disturbed \in BOOLEAN /\ sourceReady \in BOOLEAN /\ armed \in BOOLEAN
           /\ p \in ProducerSet /\ boundEpoch \in EpochSet /\ p.epoch \in EpochSet /\ p.requests \in Nat
           /\ NoEpoch \in EpochSet
  BY DEF ProducerTyped, ProducerSet, NoEpoch, EpochSet

\* A step that keeps the source and only loses claims carries the rest.
LEMMA LostCarries ==
    ASSUME ProducerTyped, PendingTrue, FreshTrue, Lost(p, p'), flag' = flag, disturbed' = disturbed,
           sourceReady => sourceReady' /\ source' = source,
           armed' => armed /\ boundEpoch' = boundEpoch
    PROVE  Carried
<1>1. p'.requests = p.requests /\ p'.epoch = p.epoch
  BY DEF Lost
<1>2. ASSUME ClaimHolds, p'.fault => p.fault PROVE SameSource
  BY <1>1, <1>2 DEF ClaimHolds, SameSource
<1>3. PendingCarried
  BY <1>2 DEF PendingCarried, Lost, PendingTrue
<1>4. FreshCarried
  BY <1>2 DEF FreshCarried, Lost, FreshTrue
<1> QED
  BY <1>1, <1>3, <1>4 DEF Carried

\* A step that drops both claims carries the rest.
LEMMA InvalidatedCarries ==
    ASSUME ProducerTyped, p' = Invalidated(p)
    PROVE  Carried /\ p' \in ProducerSet /\ (p.requested => p'.requested)
  BY InvalidatedIs, TypedOf DEF Carried, PendingCarried, FreshCarried, Lost

\* Losing the source drops both claims.
LEMMA SourceInvalidated ==
    ASSUME ProducerTyped, InvalidateSource, p' = Invalidated(p), GameKept, flag' = flag, box' = box,
           disturbed' \in BOOLEAN
    PROVE  OwnerKept /\ Carried
<1>1. /\ sourceReady' = FALSE /\ armed' \in BOOLEAN /\ place' = "idle" /\ source' = 0
      /\ UNCHANGED <<sourceEpoch, bindingEpoch>> /\ boundEpoch' \in EpochSet
  BY TypedOf DEF InvalidateSource, To
<1>2. StagingHolds' /\ FinalHolds'
  BY <1>1 DEF StagingHolds, FinalHolds
<1>3. source' <= sourceLife
  BY <1>1, TypedOf
<1>4. {source', sourceEpoch', bindingEpoch', box'} \subseteq Nat
  BY <1>1, TypedOf
<1>5. flag' \in BOOLEAN /\ sourceReady' \in BOOLEAN
  BY <1>1, TypedOf
<1>6. p' \in ProducerSet /\ (p.requested => p'.requested) /\ Carried
  BY InvalidatedCarries
<1> QED
  BY <1>1, <1>2, <1>3, <1>4, <1>5, <1>6, Zenon DEF OwnerKept

\* The state that is observed belongs to the source that was just obtained.
LEMMA ObtainedIs ==
    ASSUME ProducerTyped, PendingTrue, FreshTrue, ObtainSource
    PROVE  /\ Lost(p, Obtained) /\ Obtained \in ProducerSet
           /\ Obtained.pending.active \/ Obtained.fresh.valid =>
                 Obtained = p /\ ~p.fault /\ sourceReady /\ source = sourceLife /\ source' = source
           /\ sourceReady' /\ {source', sourceEpoch'} \subseteq Nat /\ source' <= sourceLife
<1>1. p \in ProducerSet /\ sourceLife \in Nat /\ sourceEpoch \in Nat
  BY TypedOf
<1>2. Lost(p, p)
  BY <1>1 DEF Lost
<1>3. sourceReady' = TRUE /\ source' = sourceLife /\ sourceEpoch' = NewEpoch
  BY DEF ObtainSource
<1>4. NewEpoch \in Nat
  BY <1>1 DEF NewEpoch
<1>5. CASE Travelled
  <2>1. Obtained = Invalidated(p)
    BY <1>5 DEF Obtained
  <2>2. Obtained \in ProducerSet
    BY <1>1, <2>1, InvalidatedIs DEF Lost
  <2> QED
    BY <1>1, <1>3, <1>4, <2>1, <2>2, InvalidatedIs
<1>6. CASE ~Travelled
  <2>1. Obtained = p
    BY <1>6 DEF Obtained
  <2>2. p.pending.active \/ p.fresh.valid => ClaimHolds
    BY DEF PendingTrue, FreshTrue
  <2>3. ClaimHolds => ~p.fault /\ sourceReady /\ source = sourceLife
    BY <1>6 DEF ClaimHolds, Travelled
  <2> QED
    BY <1>1, <1>2, <1>3, <1>4, <2>1, <2>2, <2>3
<1> QED
  BY <1>5, <1>6

\* Update of the producer keeps its claims for the same epoch only.
LEMMA UpdateKept ==
    ASSUME ProducerTyped, RequestsCounted, PendingTrue, FreshTrue, ObtainSource, boundEpoch' \in EpochSet,
           UpdateProducer(SetEpoch(Obtained, boundEpoch')), place = "idle", flag' = flag, GameKept
    PROVE  /\ p' \in ProducerSet /\ (p.requested => p'.requested) /\ disturbed' \in BOOLEAN
           /\ StagingHolds' /\ FinalHolds' /\ Carried
<1> DEFINE s == SetEpoch(Obtained, boundEpoch')
<1>1. /\ s \in ProducerSet /\ s.requests = p.requests /\ (p.requested => s.requested)
      /\ ~s.fault => s.epoch = boundEpoch'
      /\ s.pending.active => /\ ~s.fault /\ s.pending = p.pending /\ s.epoch = p.epoch /\ p.pending.active
                             /\ source = sourceLife /\ source' = source
      /\ s.fresh.valid => /\ ~s.fault /\ s.fresh = p.fresh /\ s.epoch = p.epoch /\ p.fresh.valid
                          /\ source = sourceLife /\ source' = source
  <2>1. Obtained \in ProducerSet /\ Obtained.requests = p.requests /\ (p.requested => Obtained.requested)
    BY ObtainedIs DEF Lost
  <2>2. Obtained.pending.active \/ Obtained.fresh.valid =>
           Obtained = p /\ ~p.fault /\ source = sourceLife /\ source' = source
    BY ObtainedIs
  <2> QED
    BY <2>1, <2>2, SetEpochIs
<1>2. sourceReady'
  BY ObtainedIs
<1>3. flag \in BOOLEAN /\ disturbed \in BOOLEAN /\ p.requests \in Nat
  BY TypedOf
<1> HIDE DEF s
<1>4. CASE resumeWait /\ flag
  <2>1. p' = s /\ UNCHANGED <<disturbed, resumeWait, place, read>>
    BY <1>4 DEF UpdateProducer, s
  <2>2. StagingHolds' /\ FinalHolds'
    BY <2>1 DEF StagingHolds, FinalHolds
  <2>3. PendingCarried
    BY <1>1, <1>2, <2>1 DEF PendingCarried, SameSource
  <2>4. FreshCarried
    BY <1>1, <1>2, <2>1 DEF FreshCarried, SameSource
  <2> QED
    BY <1>1, <1>3, <2>1, <2>2, <2>3, <2>4 DEF Carried
<1>5. CASE ~(resumeWait /\ flag)
  <2>0. PICK plain \in BOOLEAN :
          LET seen == Observed(s, plain)
              full == CanStage(seen) /\ seen.requests = MaxRequests IN
          /\ disturbed' = FALSE
          /\ p' = IF full THEN Faulted(seen) ELSE Expired(seen)
          /\ place' = place \/ (place' = "staging" /\ CanStage(seen) /\ ~full)
    BY <1>5 DEF UpdateProducer, s, To
  <2> DEFINE seen == Observed(s, plain)
             full == CanStage(seen) /\ seen.requests = MaxRequests
  <2>1. /\ disturbed' = FALSE
        /\ p' = IF full THEN Faulted(seen) ELSE Expired(seen)
        /\ place' = place \/ (place' = "staging" /\ CanStage(seen) /\ ~full)
    BY <2>0
  <2>2. seen \in ProducerSet /\ seen.epoch = s.epoch /\ seen.requests = s.requests
        /\ (s.requested => seen.requested) /\ (s.fault => seen.fault)
        /\ (seen.pending.active =>
              /\ s.pending.active /\ flag /\ ~seen.fault /\ seen.pending.seq = s.pending.seq
              /\ seen.pending.setAt = time /\ seen.pending.timer = timer)
        /\ (seen.fresh.valid =>
              /\ seen.fault => s.fault
              /\ \/ seen.fresh = s.fresh
                 \/ /\ s.pending.active /\ ~flag /\ s.pending.set /\ timer < s.pending.timer
                    /\ seen.fresh.request = s.pending.seq /\ seen.fresh.lower = s.pending.setAt)
    BY <1>1, ObservedIs
  <2> HIDE DEF seen
  <2>3. Lost(seen, p')
    BY <2>1, <2>2, FaultedIs, ExpiredIs
  <2>4. p' \in ProducerSet /\ p'.epoch = s.epoch /\ p'.requests = p.requests
        /\ (p.requested => p'.requested)
    BY <1>1, <2>2, <2>3 DEF Lost
  <2>5. PendingCarried
    BY <1>1, <1>2, <2>1, <2>2, <2>3, <2>4 DEF PendingCarried, SameSource, Lost
  <2>6. FreshCarried
    <3> SUFFICES ASSUME p'.fresh.valid PROVE FreshCarried
      BY DEF FreshCarried
    <3>1. p'.fresh = seen.fresh /\ seen.fresh.valid /\ (p'.fault => s.fault)
      BY <2>2, <2>3 DEF Lost
    <3>2. CASE seen.fresh = s.fresh
      BY <1>1, <1>2, <2>4, <3>1, <3>2 DEF FreshCarried, SameSource
    <3>3. CASE /\ s.pending.active /\ ~flag /\ s.pending.set /\ timer < s.pending.timer
               /\ seen.fresh.request = s.pending.seq /\ seen.fresh.lower = s.pending.setAt
      BY <1>1, <1>2, <2>4, <3>1, <3>3 DEF FreshCarried, SameSource
    <3> QED
      BY <2>2, <3>1, <3>2, <3>3
  <2>7. StagingHolds' /\ FinalHolds'
    <3>1. FinalHolds'
      BY <2>1 DEF FinalHolds
    <3>2. ASSUME place' = "staging" PROVE boundEpoch' = p'.epoch /\ p'.requests < MaxRequests
      <4>1. CanStage(seen) /\ seen.requests # MaxRequests
        BY <2>1, <3>2
      <4>2. ~seen.fault
        BY <4>1 DEF CanStage
      <4> QED
        BY <1>1, <1>3, <2>2, <2>4, <4>1, <4>2, ProducerAssumption DEF RequestsCounted
    <3> QED
      BY <1>2, <3>1, <3>2 DEF StagingHolds
  <2> QED
    BY <2>1, <2>4, <2>5, <2>6, <2>7 DEF Carried
<1> QED
  BY <1>4, <1>5

\* Obtaining the source again keeps the claims of the same source only.
LEMMA ObtainedCarries ==
    ASSUME ProducerTyped, PendingTrue, FreshTrue, ObtainSource, Lost(Obtained, p'), flag' = flag,
           disturbed' = disturbed, armed' => armed /\ boundEpoch' = boundEpoch
    PROVE  Carried /\ p' \in ProducerSet /\ (p.requested => p'.requested)
<1>1. Lost(p, Obtained) /\ Obtained \in ProducerSet /\ p' \in ProducerSet
  BY ObtainedIs DEF Lost
<1>2. Lost(p, p')
  BY <1>1, TypedOf, LostTwice
<1>3. ASSUME p'.pending.active \/ p'.fresh.valid
      PROVE  Obtained = p /\ sourceReady' /\ source' = source
  BY <1>3, ObtainedIs DEF Lost
<1>4. PendingCarried
  <2> SUFFICES ASSUME p'.pending.active PROVE PendingCarried
    BY DEF PendingCarried
  <2>1. p.pending.active /\ p'.pending = p.pending /\ (p'.fault => p.fault) /\ p'.epoch = p.epoch
    BY <1>2 DEF Lost
  <2>2. ClaimHolds
    BY <2>1 DEF PendingTrue
  <2> QED
    BY <1>3, <2>1, <2>2 DEF PendingCarried, SameSource, ClaimHolds
<1>5. FreshCarried
  <2> SUFFICES ASSUME p'.fresh.valid PROVE FreshCarried
    BY DEF FreshCarried
  <2>1. p.fresh.valid /\ p'.fresh = p.fresh /\ (p'.fault => p.fault) /\ p'.epoch = p.epoch
    BY <1>2 DEF Lost
  <2>2. ClaimHolds
    BY <2>1 DEF FreshTrue
  <2> QED
    BY <1>3, <2>1, <2>2 DEF FreshCarried, SameSource, ClaimHolds
<1> QED
  BY <1>2, <1>4, <1>5 DEF Carried, Lost

\* A pump that manages the producer keeps its claims or drops them.
LEMMA ManagePumpKept ==
    ASSUME ClaimsInv, ManagePump
    PROVE  OwnerKept /\ Carried
<1>1. ProducerTyped /\ RequestsCounted /\ PendingTrue /\ FreshTrue /\ SourceSeen
  BY DEF ClaimsInv
<1>2. GameKept /\ flag' = flag /\ box' = box /\ place = "idle"
  BY DEF ManagePump, GameKept, Placed
<1>3. CASE InvalidateSource /\ p' = Invalidated(p) /\ UNCHANGED <<disturbed, resumeWait>>
  BY <1>1, <1>2, <1>3, SourceInvalidated, TypedOf
<1>4. CASE ObtainSource /\ (BindKeeps \/ BindAnew) /\ UpdateProducer(SetEpoch(Obtained, boundEpoch'))
  <2>1. boundEpoch' \in EpochSet /\ armed' \in BOOLEAN /\ bindingEpoch' \in Nat
    <3>1. CASE BindKeeps
      BY <1>1, <3>1, TypedOf DEF BindKeeps
    <3>2. CASE BindAnew
      <4>1. NewEpoch \in Nat
        BY <1>1, TypedOf DEF NewEpoch
      <4> QED
        BY <1>1, <3>2, <4>1, TypedOf DEF BindAnew, EpochSet
    <3> QED
      BY <1>4, <3>1, <3>2
  <2>2. /\ p' \in ProducerSet /\ (p.requested => p'.requested) /\ disturbed' \in BOOLEAN
        /\ StagingHolds' /\ FinalHolds' /\ Carried
    BY <1>1, <1>2, <1>4, <2>1, UpdateKept
  <2>3. sourceReady' = TRUE /\ {source', sourceEpoch'} \subseteq Nat /\ source' <= sourceLife
    BY <1>1, <1>4, ObtainedIs DEF ObtainSource
  <2>4. flag' \in BOOLEAN /\ box' \in Nat
    BY <1>1, <1>2, TypedOf
  <2>5. {source', sourceEpoch', bindingEpoch', box'} \subseteq Nat
    BY <2>1, <2>3, <2>4
  <2>6. sourceReady' \in BOOLEAN
    BY <2>3
  <2> QED
    BY <1>2, <2>1, <2>2, <2>3, <2>4, <2>5, <2>6, Zenon DEF OwnerKept
<1>5. CASE ObtainSource /\ BindFails
  <2>1. /\ armed' \in {FALSE, armed} /\ boundEpoch' = (IF armed' THEN boundEpoch ELSE NoEpoch)
        /\ p' = (IF armed THEN Invalidated(p) ELSE Obtained)
        /\ place' = "idle" /\ disturbed' = disturbed
    BY <1>2, <1>5 DEF BindFails
  <2>2. boundEpoch' \in EpochSet /\ armed' \in BOOLEAN /\ bindingEpoch' \in Nat
    <3>1. bindingEpoch \in Nat /\ boundEpoch \in EpochSet /\ NoEpoch \in EpochSet /\ armed \in BOOLEAN
      BY <1>1, TypedOf
    <3>2. bindingEpoch' = bindingEpoch \/ bindingEpoch' = bindingEpoch + 1
      BY <1>5 DEF BindFails
    <3>3. armed' \in BOOLEAN /\ boundEpoch' \in EpochSet
      BY <2>1, <3>1
    <3> QED
      BY <3>1, <3>2, <3>3
  <2>3. Carried /\ p' \in ProducerSet /\ (p.requested => p'.requested)
    <3>1. CASE armed
      BY <1>1, <2>1, <3>1, InvalidatedCarries
    <3>2. CASE ~armed
      <4>1. Obtained \in ProducerSet
        BY <1>1, <1>5, ObtainedIs
      <4>2. Lost(Obtained, p')
        BY <2>1, <3>2, <4>1 DEF Lost
      <4>3. armed' => armed /\ boundEpoch' = boundEpoch
        BY <2>1
      <4> QED
        BY <1>1, <1>2, <1>5, <2>1, <4>2, <4>3, ObtainedCarries
    <3> QED
      BY <3>1, <3>2
  <2>4. sourceReady' = TRUE /\ {source', sourceEpoch'} \subseteq Nat /\ source' <= sourceLife
    BY <1>1, <1>5, ObtainedIs DEF ObtainSource
  <2>5. flag' \in BOOLEAN /\ box' \in Nat /\ disturbed' \in BOOLEAN
    BY <1>1, <1>2, <2>1, TypedOf
  <2>6. {source', sourceEpoch', bindingEpoch', box'} \subseteq Nat
    BY <2>2, <2>4, <2>5
  <2>7. StagingHolds' /\ FinalHolds' /\ sourceReady' \in BOOLEAN
    BY <2>1, <2>4 DEF StagingHolds, FinalHolds
  <2> QED
    BY <1>2, <2>2, <2>3, <2>4, <2>5, <2>6, <2>7, Zenon DEF OwnerKept
<1> QED
  BY <1>3, <1>4, <1>5 DEF ManagePump

\* What is read back of the box is a claim that the game has made true.
LEMMA ReadBackKept ==
    ASSUME ClaimsInv, ReadBack
    PROVE  OwnerKept /\ Carried
<1>1. ProducerTyped /\ RequestsCounted /\ PendingTrue /\ FreshTrue /\ SourceSeen
  BY DEF ClaimsInv
<1>2. GameKept /\ flag' = flag /\ box' = box
  BY DEF ReadBack, GameKept
<1>3. CASE InvalidateSource /\ p' = Invalidated(p) /\ UNCHANGED disturbed
  BY <1>1, <1>2, <1>3, SourceInvalidated, TypedOf
<1>4. CASE /\ SourceHolds
           /\ \E plain \in BOOLEAN : p' = Observed(p, plain)
           /\ disturbed' = FALSE /\ read' = Nothing /\ To("idle")
           /\ UNCHANGED <<sourceReady, source, sourceEpoch, bindingEpoch, armed, boundEpoch>>
  <2>1. p.pending.active => ~p.fault
    BY <1>1 DEF PendingTrue, ClaimHolds
  <2>2. /\ p' \in ProducerSet /\ p'.epoch = p.epoch /\ p'.requests = p.requests
        /\ p.requested => p'.requested
        /\ p'.pending.active =>
              /\ p.pending.active /\ flag /\ ~p'.fault /\ p'.pending.seq = p.pending.seq
              /\ p'.pending.setAt = time /\ p'.pending.timer = timer
        /\ p'.fresh.valid =>
              /\ p'.fault => p.fault
              /\ \/ p'.fresh = p.fresh
                 \/ /\ p.pending.active /\ ~flag /\ p.pending.set /\ timer < p.pending.timer
                    /\ p'.fresh.request = p.pending.seq /\ p'.fresh.lower = p.pending.setAt
    <3>1. PICK plain \in BOOLEAN : p' = Observed(p, plain)
      BY <1>4
    <3> DEFINE t == Observed(p, plain)
    <3>2. /\ t \in ProducerSet /\ t.epoch = p.epoch /\ t.requests = p.requests
          /\ p.requested => t.requested
          /\ t.pending.active =>
                /\ p.pending.active /\ flag /\ ~t.fault /\ t.pending.seq = p.pending.seq
                /\ t.pending.setAt = time /\ t.pending.timer = timer
          /\ t.fresh.valid =>
                /\ t.fault => p.fault
                /\ \/ t.fresh = p.fresh
                   \/ /\ p.pending.active /\ ~flag /\ p.pending.set /\ timer < p.pending.timer
                      /\ t.fresh.request = p.pending.seq /\ t.fresh.lower = p.pending.setAt
      BY <1>1, <2>1, ObservedIs, TypedOf
    <3> HIDE DEF t
    <3> QED
      BY <3>1, <3>2 DEF t
  <2>3. PendingCarried
    <3> SUFFICES ASSUME p'.pending.active PROVE PendingCarried
      BY DEF PendingCarried
    <3>1. ClaimHolds
      BY <1>1, <2>2 DEF PendingTrue
    <3> QED
      BY <1>2, <1>4, <2>2, <3>1 DEF PendingCarried, SameSource, ClaimHolds
  <2>4. FreshCarried
    <3> SUFFICES ASSUME p'.fresh.valid PROVE FreshCarried
      BY DEF FreshCarried
    <3>1. CASE p'.fresh = p.fresh
      <4>1. ClaimHolds
        BY <1>1, <3>1 DEF FreshTrue
      <4> QED
        BY <1>4, <2>2, <3>1, <4>1 DEF FreshCarried, SameSource, ClaimHolds
    <3>2. CASE /\ p.pending.active /\ ~flag /\ p.pending.set /\ timer < p.pending.timer
               /\ p'.fresh.request = p.pending.seq /\ p'.fresh.lower = p.pending.setAt
      <4>1. ClaimHolds
        BY <1>1, <3>2 DEF PendingTrue
      <4>2. source = sourceLife
        BY <1>4 DEF SourceHolds
      <4> QED
        BY <1>4, <2>2, <3>2, <4>1, <4>2 DEF FreshCarried, SameSource, ClaimHolds
    <3> QED
      BY <2>2, <3>1, <3>2
  <2>5. /\ flag' \in BOOLEAN /\ sourceReady' \in BOOLEAN /\ armed' \in BOOLEAN /\ disturbed' \in BOOLEAN
        /\ {source', sourceEpoch', bindingEpoch', box'} \subseteq Nat /\ boundEpoch' \in EpochSet
    BY <1>1, <1>2, <1>4, TypedOf
  <2>6. source' <= sourceLife /\ StagingHolds' /\ FinalHolds'
    BY <1>1, <1>4 DEF SourceSeen, StagingHolds, FinalHolds, To
  <2> QED
    BY <1>2, <2>2, <2>3, <2>4, <2>5, <2>6, Zenon DEF OwnerKept, Carried
<1> QED
  BY <1>3, <1>4 DEF ReadBack

\* A step that keeps the source and its task, or disarms it, and only loses claims.
LEMMA Kept ==
    ASSUME ClaimsInv, GameKept, UNCHANGED <<flag, box, disturbed, sourceReady, source, sourceEpoch, bindingEpoch>>,
           Lost(p, p'), place' \notin {"staging", "final"}, armed' \in BOOLEAN, armed' => armed,
           boundEpoch' = (IF armed' THEN boundEpoch ELSE NoEpoch) \/ boundEpoch' = boundEpoch
    PROVE  OwnerKept /\ Carried
<1>1. ProducerTyped /\ RequestsCounted /\ PendingTrue /\ FreshTrue /\ SourceSeen
  BY DEF ClaimsInv
<1>2. armed' => armed /\ boundEpoch' = boundEpoch
  OBVIOUS
<1>3. Carried
  BY <1>1, <1>2, LostCarries
<1>4. /\ flag' \in BOOLEAN /\ sourceReady' \in BOOLEAN /\ disturbed' \in BOOLEAN
      /\ {source', sourceEpoch', bindingEpoch', box'} \subseteq Nat
  BY <1>1, TypedOf
<1>5. boundEpoch' \in EpochSet
  BY <1>1, TypedOf
<1>6. source' <= sourceLife /\ StagingHolds' /\ FinalHolds'
  BY <1>1 DEF SourceSeen, StagingHolds, FinalHolds
<1>7. p' \in ProducerSet /\ (p.requested => p'.requested)
  BY DEF Lost
<1> QED
  BY <1>3, <1>4, <1>5, <1>6, <1>7, Zenon DEF OwnerKept

\* A pause drops the claims.
LEMMA PauseKept ==
    ASSUME ClaimsInv, Pause
    PROVE  OwnerKept /\ Carried
<1>1. Lost(p, p')
  BY InvalidatedIs, TypedOf DEF Pause, ClaimsInv
<1>2. armed \in BOOLEAN
  BY TypedOf DEF ClaimsInv
<1> QED
  BY <1>1, <1>2, Kept DEF Pause, Placed, game, bound, GameKept

\* To resume claims nothing.
LEMMA ResumeKept ==
    ASSUME ClaimsInv, Resume
    PROVE  OwnerKept /\ Carried
<1>1. ProducerTyped
  BY DEF ClaimsInv
<1>2. GameKept /\ flag' = flag /\ box' = box /\ disturbed' = disturbed /\ place = "idle"
  BY DEF Resume, GameKept, game, Placed
<1>3. CASE InvalidateSource /\ p' = Invalidated(p) /\ UNCHANGED running
  BY <1>1, <1>2, <1>3, SourceInvalidated, TypedOf
<1>4. CASE /\ ~Travelled /\ running' = TRUE /\ armed' = (armed /\ sourceReady)
           /\ boundEpoch' = (IF armed' THEN boundEpoch ELSE NoEpoch)
           /\ UNCHANGED <<p, sourceReady, source, sourceEpoch, read, bindingEpoch, place>>
  <2>1. Lost(p, p')
    BY <1>1, <1>4, TypedOf DEF Lost
  <2>2. armed' \in BOOLEAN /\ (armed' => armed)
    BY <1>4
  <2> QED
    BY <1>2, <1>4, <2>1, <2>2, Kept
<1> QED
  BY <1>3, <1>4 DEF Resume

\* A final selection keeps the claims it reads.
LEMMA FinalSelectionKept ==
    ASSUME ClaimsInv, FinalSelection
    PROVE  OwnerKept /\ Carried
<1>1. ProducerTyped
  BY DEF ClaimsInv
<1>2. GameKept /\ flag' = flag /\ box' = box /\ disturbed' = disturbed
  BY DEF FinalSelection, GameKept, game
<1>3. CASE ~SameAgain /\ InvalidateSource /\ p' = Invalidated(p)
  BY <1>1, <1>2, <1>3, SourceInvalidated, TypedOf
<1>4. CASE /\ SameAgain /\ p' = Forgotten(p) /\ read' = Nothing
           /\ UNCHANGED <<sourceReady, source, sourceEpoch, bindingEpoch, armed, boundEpoch>>
           /\ To(IF Readable(p, outer, worldBots) THEN "selected" ELSE "idle")
  <2>1. Lost(p, p')
    BY <1>1, <1>4, ForgottenIs, TypedOf
  <2>2. armed \in BOOLEAN
    BY <1>1, TypedOf
  <2>3. place' \notin {"staging", "final"}
    BY <1>4 DEF To
  <2> QED
    BY <1>2, <1>4, <2>1, <2>2, <2>3, Kept
<1> QED
  BY <1>3, <1>4 DEF FinalSelection

\* The builder is prepared for the epoch that is bound.
LEMMA PrepareBuilderKept ==
    ASSUME ClaimsInv, PrepareBuilder
    PROVE  OwnerKept /\ Carried
<1>1. ProducerTyped /\ RequestsCounted /\ PendingTrue /\ FreshTrue /\ SourceSeen
  BY DEF ClaimsInv
<1>2. GameKept /\ flag' = flag /\ box' = box /\ disturbed' = disturbed /\ place = "idle"
  BY DEF PrepareBuilder, GameKept, game, Placed
<1>3. CASE InvalidateSource /\ p' = Invalidated(p)
  BY <1>1, <1>2, <1>3, SourceInvalidated, TypedOf
<1>4. CASE /\ ObtainSource /\ armed' \in {armed, armed /\ ~Travelled}
           /\ boundEpoch' = (IF armed' THEN boundEpoch ELSE NoEpoch)
           /\ p' = Forgotten(Obtained) /\ UNCHANGED bindingEpoch
           /\ \/ /\ armed' /\ Keeps /\ Readable(p', outer, worldBots)
                 /\ To("final") /\ read' = Snapshot
              \/ UNCHANGED <<place, read>>
  <2>1. Obtained \in ProducerSet
    BY <1>1, <1>4, ObtainedIs
  <2>2. Lost(Obtained, p')
    BY <1>4, <2>1, ForgottenIs
  <2>3. armed' \in BOOLEAN /\ (armed' => armed /\ boundEpoch' = boundEpoch) /\ boundEpoch' \in EpochSet
    BY <1>1, <1>4, TypedOf
  <2>4. Carried /\ p' \in ProducerSet /\ (p.requested => p'.requested)
    BY <1>1, <1>2, <1>4, <2>2, <2>3, ObtainedCarries
  <2>5. sourceReady' = TRUE /\ sourceEpoch' = NewEpoch /\ {source', sourceEpoch'} \subseteq Nat
        /\ source' <= sourceLife
    BY <1>1, <1>4, ObtainedIs DEF ObtainSource
  <2>6. FinalHolds'
    <3> SUFFICES ASSUME place' = "final" PROVE FinalHolds'
      BY DEF FinalHolds
    <3>1. armed' /\ Keeps
      BY <1>2, <1>4
    <3> QED
      BY <1>4, <2>3, <2>5, <3>1 DEF FinalHolds, Keeps
  <2>7. StagingHolds'
    BY <1>2, <1>4 DEF StagingHolds, To
  <2>8. flag' \in BOOLEAN /\ disturbed' \in BOOLEAN /\ {source', sourceEpoch', bindingEpoch', box'} \subseteq Nat
    BY <1>1, <1>2, <1>4, <2>5, TypedOf
  <2>9. sourceReady' \in BOOLEAN
    BY <2>5
  <2> QED
    BY <1>2, <2>3, <2>4, <2>5, <2>6, <2>7, <2>8, <2>9, Zenon DEF OwnerKept
<1> QED
  BY <1>3, <1>4 DEF PrepareBuilder

\* When the builder is done or revoked no claim is made.
LEMMA BuilderDoneKept ==
    ASSUME ClaimsInv, FinishBuilder \/ Revoke
    PROVE  OwnerKept /\ Carried
<1>1. ProducerTyped /\ SourceSeen
  BY DEF ClaimsInv
<1>2. CASE FinishBuilder
  <2>1. Lost(p, p')
    BY <1>1, <1>2, TypedOf DEF FinishBuilder, Lost
  <2>2. armed \in BOOLEAN
    BY <1>1, TypedOf
  <2> QED
    BY <1>2, <2>1, <2>2, Kept DEF FinishBuilder, game, bound, GameKept, To
<1>3. CASE Revoke
  <2>1. Carried /\ p' \in ProducerSet /\ (p.requested => p'.requested)
    BY <1>1, <1>3, InvalidatedCarries DEF Revoke
  <2>2. GameKept /\ UNCHANGED <<flag, box, disturbed, source, sourceEpoch, bindingEpoch, armed, boundEpoch>>
        /\ sourceReady' = FALSE /\ place' = "revoked"
    BY <1>3 DEF Revoke, game, GameKept, To
  <2>3. /\ flag' \in BOOLEAN /\ armed' \in BOOLEAN /\ disturbed' \in BOOLEAN
        /\ {source', sourceEpoch', bindingEpoch', box'} \subseteq Nat /\ boundEpoch' \in EpochSet
    BY <1>1, <2>2, TypedOf
  <2>4. source' <= sourceLife /\ StagingHolds' /\ FinalHolds' /\ sourceReady' \in BOOLEAN
    BY <1>1, <2>2 DEF SourceSeen, StagingHolds, FinalHolds
  <2> QED
    BY <2>1, <2>2, <2>3, <2>4, Zenon DEF OwnerKept
<1> QED
  BY <1>2, <1>3

\* A staged request has the next number and is not set yet.
LEMMA StagedIs ==
    ASSUME NEW s \in ProducerSet, time \in Nat, worldBots \in Nat
    PROVE  LET t == Staged(s) IN
           /\ t \in ProducerSet /\ t.epoch = s.epoch /\ t.requests = s.requests + 1 /\ t.requested
           /\ (t.fault => s.fault) /\ t.fresh = s.fresh
           /\ t.pending.seq = s.requests + 1 /\ t.pending.setAt = 0 /\ ~t.pending.set
<1> DEFINE q == [NoPending EXCEPT !.active = TRUE, !.seq = s.requests + 1, !.at = time, !.bots = worldBots]
<1>1. s.requests + 1 \in Nat
  BY DEF ProducerSet
<1>2. q \in PendingSet /\ q.seq = s.requests + 1 /\ q.setAt = 0 /\ q.set = FALSE
  BY <1>1 DEF NoPending, PendingSet
<1>3. Staged(s) = [s EXCEPT !.requested = TRUE, !.lastRequest = time, !.requests = @ + 1, !.pending = q]
  BY DEF Staged
<1> HIDE DEF q
<1> QED
  BY <1>1, <1>2, <1>3 DEF ProducerSet

\* A request is staged, and it is remembered under what it was staged.
StageStep ==
    /\ p'.requests = p.requests + 1 /\ p'.requested /\ FloorKept(p) /\ FreshCarried
    /\ RequestsCounted' /\ (Watch => PendingTrue')

\* A request is staged under the bound epoch and its flag is shown to the game.
LEMMA StageRequestKept ==
    ASSUME ClaimsInv, StageRequest
    PROVE  OwnerKept /\ (Carried \/ StageStep)
<1>1. ProducerTyped /\ RequestsCounted /\ PendingTrue /\ FreshTrue /\ SourceSeen /\ StagingHolds
  BY DEF ClaimsInv
<1>2. GameKept /\ disturbed' = disturbed /\ place = "staging"
  BY DEF StageRequest, GameKept, Placed
<1>3. CASE InvalidateSource /\ p' = Invalidated(p) /\ UNCHANGED <<box, flag>>
  BY <1>1, <1>2, <1>3, SourceInvalidated, TypedOf
<1>4. CASE /\ SourceHolds /\ CanStage(p)
           /\ p' = Staged(Expired(p)) /\ box' = worldBots /\ flag' = TRUE /\ To("readback")
           /\ UNCHANGED bound
  <2>1. time \in Nat /\ worldBots \in Nat /\ p \in ProducerSet /\ p.requests \in Nat
    BY <1>1, TypedOf
  <2>2. Lost(p, Expired(p)) /\ Expired(p).fresh = p.fresh /\ (Expired(p).fault <=> p.fault)
        /\ Expired(p) \in ProducerSet
    BY <2>1, ExpiredIs DEF Lost
  <2>3. /\ p' \in ProducerSet /\ p'.epoch = p.epoch /\ p'.requests = p.requests + 1 /\ p'.requested
        /\ (p'.fault => p.fault) /\ p'.fresh = p.fresh
        /\ p'.pending.seq = p.requests + 1 /\ p'.pending.setAt = 0 /\ ~p'.pending.set
    BY <1>4, <2>1, <2>2, StagedIs DEF Lost
  <2>4. sourceReady /\ boundEpoch = p.epoch /\ p.requests < MaxRequests
    BY <1>1, <1>2 DEF StagingHolds
  <2>5. ~p.fault /\ FloorKept(p) /\ source = sourceLife
    BY <1>4 DEF CanStage, SourceHolds
  <2>6. UNCHANGED <<sourceReady, source, sourceEpoch, bindingEpoch, armed, boundEpoch>>
    BY <1>4 DEF bound
  <2>7. SameSource
    BY <2>3, <2>4, <2>5, <2>6 DEF SameSource
  <2>8. FreshCarried
    BY <2>3, <2>7 DEF FreshCarried
  <2>9. RequestsCounted'
    BY <2>1, <2>3, <2>4, ProducerAssumption DEF RequestsCounted
  <2>10. ASSUME Watch PROVE PendingTrue'
    <3>1. ClaimHolds'
      BY <2>7 DEF SameSource, ClaimHolds
    <3>2. p'.pending.seq \in 1..MaxRequests /\ p'.pending.seq > p.requests
      BY <2>1, <2>3, <2>4, ProducerAssumption
    <3>3. stagedIn'[p'.pending.seq] = [epoch |-> p.epoch, life |-> sourceLife]
      BY <2>10, <3>2 DEF Watch
    <3>4. (StagedHere(p.pending.seq))'
      BY <2>1, <2>3, <2>5, <2>6, <3>3 DEF StagedHere
    <3>5. p'.pending.setAt <= time'
      BY <1>2, <2>1, <2>3 DEF GameKept
    <3> QED
      BY <2>3, <3>1, <3>4, <3>5 DEF PendingTrue
  <2>11. /\ flag' \in BOOLEAN /\ sourceReady' \in BOOLEAN /\ armed' \in BOOLEAN /\ disturbed' \in BOOLEAN
         /\ {source', sourceEpoch', bindingEpoch', box'} \subseteq Nat /\ boundEpoch' \in EpochSet
    BY <1>1, <1>2, <1>4, <2>6, TypedOf
  <2>12. source' <= sourceLife /\ StagingHolds' /\ FinalHolds'
    BY <1>1, <1>4, <2>6 DEF SourceSeen, StagingHolds, FinalHolds, To
  <2>13. OwnerKept
    BY <1>2, <2>3, <2>11, <2>12, Zenon DEF OwnerKept
  <2> QED
    BY <2>3, <2>5, <2>8, <2>9, <2>10, <2>13 DEF StageStep
<1> QED
  BY <1>3, <1>4 DEF StageRequest

\* Every step of the owner carries its claims, drops them or stages a request.
LEMMA CallSteps ==
    ASSUME ClaimsInv, Owner
    PROVE  OwnerKept /\ (Carried \/ StageStep)
<1> QED
  BY ManagePumpKept, StageRequestKept, ReadBackKept, PauseKept, ResumeKept, PrepareBuilderKept,
     FinalSelectionKept, BuilderDoneKept, Zenon DEF Owner

\* Every step of the owner keeps the invariant.
LEMMA OwnerKeeps ==
    ASSUME ClaimsInv, Owner, Watch
    PROVE  ClaimsInv'
<1>1. ProducerTyped /\ RequestsCounted /\ PendingTrue /\ FreshTrue
  BY DEF ClaimsInv
<1>2. OwnerKept /\ (Carried \/ StageStep)
  BY CallSteps
<1>3. GameKept /\ p' \in ProducerSet
  BY <1>2 DEF OwnerKept
<1>4. ProducerTyped'
  <2>1. {time', sourceLife', outer', timer', worldBots'} \subseteq Nat /\ computed' \in [life : Nat, at : Nat]
    BY <1>1, <1>3 DEF ProducerTyped, GameKept
  <2>2. stagedIn' \in [1..MaxRequests -> StagedSet]
    BY <1>1, WatchTyped
  <2>3. /\ flag' \in BOOLEAN /\ disturbed' \in BOOLEAN /\ sourceReady' \in BOOLEAN /\ armed' \in BOOLEAN
        /\ {source', sourceEpoch', bindingEpoch', box'} \subseteq Nat /\ boundEpoch' \in EpochSet
    BY <1>2 DEF OwnerKept
  <2>4. {time', sourceLife', outer', box', timer', worldBots', source', sourceEpoch', bindingEpoch'} \subseteq Nat
    BY <2>1, <2>3
  <2> QED
    BY <1>3, <2>1, <2>2, <2>3, <2>4, Zenon DEF ProducerTyped
<1>5. SourceSeen' /\ StagingHolds' /\ FinalHolds'
  BY <1>2 DEF OwnerKept, GameKept, SourceSeen
<1>6. p.requests \in Nat
  BY <1>1, TypedOf
<1>7. CASE Carried
  <2>1. p'.requests = p.requests /\ PendingCarried /\ FreshCarried
    BY <1>7 DEF Carried
  <2>2. RequestsCounted'
    BY <1>1, <1>2, <2>1 DEF RequestsCounted, OwnerKept
  <2>3. PendingTrue'
    BY <1>1, <1>3, <1>4, <2>1, PendingStep
  <2>4. FreshTrue'
    BY <1>1, <1>3, <1>4, <1>6, <2>1, FreshStep
  <2> QED
    BY <1>4, <1>5, <2>2, <2>3, <2>4 DEF ClaimsInv
<1>8. CASE StageStep
  <2>1. p'.requests = p.requests + 1 /\ FreshCarried /\ RequestsCounted' /\ PendingTrue'
    BY <1>8 DEF StageStep
  <2>2. p'.requests \in Nat /\ p'.requests >= p.requests
    BY <1>6, <2>1
  <2>3. FreshTrue'
    BY <1>1, <1>3, <1>4, <2>1, <2>2, FreshStep
  <2> QED
    BY <1>4, <1>5, <2>1, <2>3 DEF ClaimsInv
<1> QED
  BY <1>2, <1>7, <1>8

\* What the game does to the inference.
LEMMA GameTyped ==
    ASSUME ProducerTyped, Game
    PROVE  /\ {time', sourceLife', outer', box', timer', worldBots'} \subseteq Nat
           /\ flag' \in BOOLEAN /\ disturbed' \in BOOLEAN /\ computed' \in [life : Nat, at : Nat]
           /\ UNCHANGED Runtime /\ time' >= time /\ sourceLife' >= sourceLife
<1>1. {time, sourceLife, outer, box, timer, worldBots} \subseteq Nat /\ flag \in BOOLEAN
      /\ disturbed \in BOOLEAN /\ computed \in [life : Nat, at : Nat]
  BY DEF ProducerTyped
<1>2. CASE Tick
  BY <1>1, <1>2 DEF Tick
<1>3. CASE Consume
  <2>1. /\ flag' = FALSE /\ timer' = 0 /\ outer' = box /\ box' = 0
        /\ computed' = [life |-> sourceLife, at |-> time]
        /\ UNCHANGED <<time, sourceLife, worldBots, disturbed>> /\ UNCHANGED Runtime
    BY <1>3 DEF Consume
  <2>2. {time', sourceLife', outer', box', timer', worldBots'} \subseteq Nat
    BY <1>1, <2>1
  <2>3. computed' \in [life : Nat, at : Nat]
    BY <1>1, <2>1
  <2>4. time' >= time /\ sourceLife' >= sourceLife
    BY <1>1, <2>1
  <2>5. flag' \in BOOLEAN /\ disturbed' \in BOOLEAN
    BY <1>1, <2>1
  <2> QED
    BY <2>1, <2>2, <2>3, <2>4, <2>5, Zenon
<1>4. CASE PlayersChange
  BY <1>1, <1>4 DEF PlayersChange, Numbers
<1>5. CASE AskItself
  BY <1>1, <1>5 DEF AskItself
<1>6. CASE Travel
  <2>1. /\ sourceLife' = sourceLife + 1
        /\ outer' \in {outer, 0} /\ flag' = FALSE /\ timer' = 0 /\ box' = 0
        /\ computed' = NotComputed
        /\ UNCHANGED <<time, worldBots, disturbed>> /\ UNCHANGED Runtime
    BY <1>6 DEF Travel
  <2>2. {time', sourceLife', outer', box', timer', worldBots'} \subseteq Nat
    BY <1>1, <2>1
  <2>3. computed' \in [life : Nat, at : Nat]
    BY <2>1 DEF NotComputed
  <2>4. time' >= time /\ sourceLife' >= sourceLife
    BY <1>1, <2>1
  <2>5. flag' \in BOOLEAN /\ disturbed' \in BOOLEAN
    BY <1>1, <2>1
  <2> QED
    BY <2>1, <2>2, <2>3, <2>4, <2>5, Zenon
<1>7. CASE LoseRequest
  <2>1. /\ disturbed' = TRUE /\ flag' = FALSE /\ box' = 0
        /\ UNCHANGED <<time, sourceLife, outer, timer, worldBots, computed>> /\ UNCHANGED Runtime
    BY <1>7 DEF LoseRequest
  <2>2. {time', sourceLife', outer', box', timer', worldBots'} \subseteq Nat
    BY <1>1, <2>1
  <2>4. time' >= time /\ sourceLife' >= sourceLife
    BY <1>1, <2>1
  <2>5. flag' \in BOOLEAN /\ disturbed' \in BOOLEAN /\ computed' \in [life : Nat, at : Nat]
    BY <1>1, <2>1
  <2> QED
    BY <2>1, <2>2, <2>4, <2>5, Zenon
<1>8. CASE ResetTimer
  BY <1>1, <1>8 DEF ResetTimer
<1> QED
  BY <1>2, <1>3, <1>4, <1>5, <1>6, <1>7, <1>8 DEF Game

\* A step of the game keeps what was computed, and a request that no longer waits was computed.
LEMMA GameTells ==
    ASSUME ProducerTyped, Game, NEW at \in Nat, at <= time, SourceSeen, source = sourceLife'
    PROVE  /\ source = sourceLife /\ (ComputedSince(at) => ComputedSince(at)')
           /\ (p.pending.active /\ StillWaits => ComputedSince(at)' \/ StillWaits')
<1>1. {time, sourceLife, timer, source} \subseteq Nat /\ flag \in BOOLEAN /\ disturbed \in BOOLEAN
      /\ p.pending.timer \in Nat /\ computed.at \in Nat
  BY DEF ProducerTyped, ProducerSet, PendingSet
<1>2. p' = p
  BY GameTyped DEF Runtime
<1>3. CASE Tick
  BY <1>1, <1>2, <1>3 DEF Tick, ComputedSince, StillWaits
<1>4. CASE Consume
  <2>1. computed' = [life |-> sourceLife, at |-> time] /\ sourceLife' = sourceLife
    BY <1>4 DEF Consume
  <2> QED
    BY <1>1, <2>1 DEF ComputedSince
<1>5. CASE PlayersChange
  BY <1>1, <1>2, <1>5 DEF PlayersChange, ComputedSince, StillWaits
<1>6. CASE AskItself
  BY <1>1, <1>2, <1>6 DEF AskItself, ComputedSince, StillWaits
<1>7. CASE Travel
  BY <1>1, <1>7 DEF Travel, SourceSeen
<1>8. CASE LoseRequest
  BY <1>1, <1>2, <1>8 DEF LoseRequest, ComputedSince, StillWaits
<1>9. CASE ResetTimer
  BY <1>1, <1>2, <1>9 DEF ResetTimer, ComputedSince, StillWaits
<1> QED
  BY <1>3, <1>4, <1>5, <1>6, <1>7, <1>8, <1>9 DEF Game

\* Every step of the game keeps the invariant.
LEMMA GameKeeps ==
    ASSUME ClaimsInv, Game, Watch
    PROVE  ClaimsInv'
<1>1. ProducerTyped /\ RequestsCounted /\ PendingTrue /\ FreshTrue /\ SourceSeen /\ StagingHolds /\ FinalHolds
  BY DEF ClaimsInv
<1>2. /\ {time', sourceLife', outer', box', timer', worldBots'} \subseteq Nat
      /\ flag' \in BOOLEAN /\ disturbed' \in BOOLEAN /\ computed' \in [life : Nat, at : Nat]
      /\ time' >= time /\ sourceLife' >= sourceLife
      /\ UNCHANGED <<p, sourceReady, source, sourceEpoch, bindingEpoch, armed, boundEpoch, place>>
  BY <1>1, GameTyped DEF Runtime, bound
<1>3. stagedIn' \in [1..MaxRequests -> StagedSet]
  BY <1>1, WatchTyped
<1>4. ProducerTyped'
  <2>1. p \in ProducerSet /\ boundEpoch \in EpochSet /\ {source, sourceEpoch, bindingEpoch} \subseteq Nat
        /\ sourceReady \in BOOLEAN /\ armed \in BOOLEAN
    BY <1>1, TypedOf
  <2>2. {time', sourceLife', outer', box', timer', worldBots', source', sourceEpoch', bindingEpoch'} \subseteq Nat
    BY <1>2, <2>1
  <2>3. sourceReady' \in BOOLEAN /\ armed' \in BOOLEAN /\ p' \in ProducerSet /\ boundEpoch' \in EpochSet
    BY <1>2, <2>1
  <2> QED
    BY <1>2, <1>3, <2>2, <2>3, Zenon DEF ProducerTyped
<1>5. RequestsCounted' /\ StagingHolds' /\ FinalHolds'
  BY <1>1, <1>2 DEF RequestsCounted, StagingHolds, FinalHolds
<1>6. {time, time', sourceLife, sourceLife', source, p.requests} \subseteq Nat /\ p.pending \in PendingSet
      /\ p.fresh \in FreshSet
  BY <1>1, <1>2 DEF ProducerTyped, ProducerSet
<1>7. SourceSeen'
  BY <1>1, <1>2, <1>6 DEF SourceSeen
<1>8. ClaimHolds => ClaimHolds'
  BY <1>2 DEF ClaimHolds
<1>9. ASSUME NEW r \in {p.pending.seq, p.fresh.request}, StagedHere(r)
      PROVE  StagedHere(r)'
  <2>1. r \in 1..MaxRequests /\ r <= p.requests
    BY <1>1, <1>6, <1>9, ProducerAssumption DEF StagedHere, RequestsCounted
  <2>2. stagedIn'[r] = stagedIn[r]
    BY <1>1, <1>2, <2>1, StagedStays
  <2> QED
    BY <1>2, <1>9, <2>2 DEF StagedHere
<1>10. PendingTrue'
  <2> SUFFICES ASSUME p.pending.active
               PROVE  /\ ClaimHolds' /\ StagedHere(p.pending.seq)' /\ p.pending.setAt <= time'
                      /\ p.pending.set /\ source = sourceLife' =>
                            ComputedSince(p.pending.setAt)' \/ StillWaits'
    BY <1>2 DEF PendingTrue
  <2>1. ClaimHolds /\ StagedHere(p.pending.seq) /\ p.pending.setAt <= time
        /\ (p.pending.set /\ source = sourceLife => ComputedSince(p.pending.setAt) \/ StillWaits)
    BY <1>1 DEF PendingTrue
  <2>2. ClaimHolds' /\ StagedHere(p.pending.seq)'
    BY <1>2, <1>8, <1>9, <2>1
  <2>3. p.pending.setAt \in Nat /\ p.pending.setAt <= time'
    BY <1>2, <1>6, <2>1 DEF PendingSet
  <2>4. ASSUME p.pending.set, source = sourceLife' PROVE ComputedSince(p.pending.setAt)' \/ StillWaits'
    BY <1>1, <1>2, <2>1, <2>3, <2>4, GameTells
  <2> QED
    BY <2>2, <2>3, <2>4
<1>11. FreshTrue'
  <2> SUFFICES ASSUME p.fresh.valid
               PROVE  /\ ClaimHolds' /\ StagedHere(p.fresh.request)' /\ p.fresh.lower <= time'
                      /\ source = sourceLife' => ComputedSince(p.fresh.lower)'
    BY <1>2 DEF FreshTrue
  <2>1. ClaimHolds /\ StagedHere(p.fresh.request) /\ p.fresh.lower <= time
        /\ (source = sourceLife => ComputedSince(p.fresh.lower))
    BY <1>1 DEF FreshTrue
  <2>2. ClaimHolds' /\ StagedHere(p.fresh.request)'
    BY <1>2, <1>8, <1>9, <2>1
  <2>3. p.fresh.lower \in Nat /\ p.fresh.lower <= time'
    BY <1>2, <1>6, <2>1 DEF FreshSet
  <2>4. ASSUME source = sourceLife' PROVE ComputedSince(p.fresh.lower)'
    BY <1>1, <1>2, <2>1, <2>3, <2>4, GameTells
  <2> QED
    BY <2>2, <2>3, <2>4
<1> QED
  BY <1>4, <1>5, <1>7, <1>10, <1>11 DEF ClaimsInv

\* At first the producer claims nothing.
LEMMA ProducerStarts ==
    ProducerInit => ClaimsInv
<1> SUFFICES ASSUME ProducerInit PROVE ClaimsInv
  OBVIOUS
<1> USE DEF ProducerInit
<1>1. NoEpoch \in EpochSet /\ NotStaged \in StagedSet /\ NotComputed \in [life : Nat, at : Nat]
  BY DEF NoEpoch, EpochSet, NotStaged, StagedSet, NotComputed
<1>2. p \in ProducerSet /\ ~p.pending.active /\ ~p.fresh.valid /\ p.requests = 0
  BY <1>1, Empties DEF ProducerSet
<1>3. stagedIn \in [1..MaxRequests -> StagedSet]
  BY <1>1
<1>4. ProducerTyped
  <2>1. {time, sourceLife, outer, box, timer, worldBots, source, sourceEpoch, bindingEpoch} \subseteq Nat
    OBVIOUS
  <2>2. flag \in BOOLEAN /\ disturbed \in BOOLEAN /\ sourceReady \in BOOLEAN /\ armed \in BOOLEAN
    OBVIOUS
  <2>3. boundEpoch \in EpochSet /\ computed \in [life : Nat, at : Nat]
    BY <1>1
  <2> HIDE DEF ProducerInit
  <2> QED
    BY <1>2, <1>3, <2>1, <2>2, <2>3 DEF ProducerTyped
<1>5. RequestsCounted /\ PendingTrue /\ FreshTrue /\ SourceSeen
  BY <1>2, ProducerAssumption DEF RequestsCounted, PendingTrue, FreshTrue, SourceSeen
<1>6. StagingHolds /\ FinalHolds
  BY DEF StagingHolds, FinalHolds
<1> QED
  BY <1>4, <1>5, <1>6 DEF ClaimsInv

\* What is not written stays true.
LEMMA ProducerStutters ==
    ASSUME ClaimsInv, UNCHANGED producerVars
    PROVE  ClaimsInv'
<1>1. UNCHANGED <<time, sourceLife, outer, box, flag, timer, worldBots, computed, disturbed, p, sourceReady,
                  source, sourceEpoch, bindingEpoch, armed, boundEpoch, place, stagedIn>>
  BY DEF producerVars, game, bound
<1>2. ProducerTyped' /\ RequestsCounted' /\ SourceSeen' /\ StagingHolds' /\ FinalHolds'
  BY <1>1 DEF ClaimsInv, ProducerTyped, RequestsCounted, SourceSeen, StagingHolds, FinalHolds
<1>3. PendingTrue' /\ FreshTrue'
  BY <1>1, Zenon DEF ClaimsInv, PendingTrue, FreshTrue, ClaimHolds, StagedHere, ComputedSince, StillWaits
<1> QED
  BY <1>2, <1>3 DEF ClaimsInv

\* What the producer claims of the game's counts is always true of them: a pending request and a
\* fresh witness stand for counts computed since they were asked for, for any times, floors and
\* numbers of requests.
THEOREM ClaimsStand == ProducerSpec => []ClaimsInv
<1>1. ClaimsInv /\ [ProducerNext]_producerVars => ClaimsInv'
  BY OwnerKeeps, GameKeeps, ProducerStutters DEF ProducerNext
<1> QED
  BY <1>1, ProducerStarts, PTL DEF ProducerSpec

\* A selection is only made of counts that were computed since a request staged under the epoch it
\* selects, and requests are spaced by the floor, for any times, floors and numbers of requests.
THEOREM SelectionFresh == ProducerSpec => SelectsFresh
<1>1. ASSUME ClaimsInv, ProducerNext, Placed("final"), To("selected")
      PROVE  /\ computed.life = sourceLife /\ computed.at >= p.fresh.lower
             /\ time - computed.at <= Freshness
             /\ outer = p.fresh.counts /\ worldBots = p.fresh.counts
             /\ stagedIn[p.fresh.request] = [epoch |-> [source |-> sourceEpoch, binding |-> bindingEpoch],
                                             life |-> sourceLife]
  <2>1. FinalSelection
    <3>1. Game => UNCHANGED place
      BY <1>1, GameTyped DEF ClaimsInv, Runtime
    <3> QED
      BY <1>1, <3>1 DEF ProducerNext, Placed, To, Owner, ManagePump, StageRequest, ReadBack, Pause, Resume,
         PrepareBuilder, FinishBuilder, Revoke
  <2>2. SameAgain /\ Readable(p, outer, worldBots)
    BY <1>1, <2>1 DEF FinalSelection, InvalidateSource, To
  <2>3. source = sourceLife /\ p.fresh.valid /\ ~Stale(p) /\ outer = p.fresh.counts /\ worldBots = p.fresh.counts
    BY <2>2 DEF SameAgain, Readable
  <2>4. ClaimHolds /\ StagedHere(p.fresh.request) /\ ComputedSince(p.fresh.lower)
    BY <1>1, <2>3 DEF ClaimsInv, FreshTrue
  <2>5. armed /\ boundEpoch = [source |-> sourceEpoch, binding |-> bindingEpoch]
    BY <1>1 DEF ClaimsInv, FinalHolds, Placed
  <2>6. p.epoch = boundEpoch
    BY <2>4, <2>5 DEF ClaimHolds
  <2>7. time \in Nat /\ computed.at \in Nat /\ p.fresh.lower \in Nat
    BY <1>1 DEF ClaimsInv, ProducerTyped, ProducerSet, FreshSet
  <2>8. time - computed.at <= Freshness
    BY <2>3, <2>4, <2>7, ProducerAssumption DEF Stale, ComputedSince
  <2> QED
    BY <2>3, <2>4, <2>5, <2>6, <2>8 DEF ComputedSince, StagedHere
<1>2. ASSUME ClaimsInv, ProducerNext, p'.requests > p.requests
      PROVE  p.requests = 0 \/ time - p.lastRequest >= Floor
  <2>1. p.requests \in Nat /\ (p.requests > 0 => p.requested)
    BY <1>2, TypedOf DEF ClaimsInv, RequestsCounted
  <2>2. Owner
    <3>1. Game => p' = p
      BY <1>2, GameTyped DEF ClaimsInv, Runtime
    <3> QED
      BY <1>2, <2>1, <3>1 DEF ProducerNext
  <2>3. StageStep
    BY <1>2, <2>1, <2>2, CallSteps DEF Carried
  <2> QED
    BY <2>1, <2>3 DEF StageStep, FloorKept
<1>3. ClaimsInv /\ [ProducerNext]_producerVars =>
        /\ [Placed("final") /\ To("selected") =>
              /\ computed.life = sourceLife /\ computed.at >= p.fresh.lower
              /\ time - computed.at <= Freshness
              /\ outer = p.fresh.counts /\ worldBots = p.fresh.counts
              /\ stagedIn[p.fresh.request] = [epoch |-> [source |-> sourceEpoch, binding |-> bindingEpoch],
                                              life |-> sourceLife]]_producerVars
        /\ [p'.requests > p.requests => p.requests = 0 \/ time - p.lastRequest >= Floor]_producerVars
  BY <1>1, <1>2
<1> QED
  BY <1>3, ClaimsStand, PTL DEF ProducerSpec, SelectsFresh, FreshWhenSelected, RequestsSpaced

-----------------------------------------------------------------------------
(***************************************************************************)
(* A yes means rest. The owner asks without a lock about words the worker  *)
(* stores; the words it accepts are the words of one publication, and that *)
(* publication was made at rest.                                           *)
(***************************************************************************)

\* The places of the owner in a question.
OwnerPlaces == {"idle", "available", "before", "quiescent", "generated", "observed", "epoch",
                "compare", "after", "last", "yes"}
\* The places of the worker in a cycle.
WorkerPlaces == {"wait", "final", "ended", "request", "readEpoch", "readPath", "whole", "qualify",
                 "qualified", "read", "prepare", "look", "weigh", "odd", "quiescent", "generated",
                 "observed", "epoch", "even", "offer"}
\* The four words of the witness.
WordSet == [quiescent : BOOLEAN, generated : Nat, observed : Nat, epoch : Nat]
\* The two words of the log file's mailbox.
SinkSet == [epoch : Nat, path : Nat]
\* The words are numbers, and the places are places of the code.
QuietTyped ==
    /\ {requestSequence, requested, qualifiedEpoch, sequence, ringWrite, submitted, inFile,
        prepared, observed, before} \subseteq Nat
    /\ request \in SinkSet /\ checked \in SinkSet
    /\ quiescence \in WordSet /\ copy \in WordSet
    /\ snapshot \in [generated : Nat, submitted : Nat]
    /\ asked \in [tries : Nat, before : Nat, words : WordSet, current : BOOLEAN]
    /\ busy \in BOOLEAN /\ available \in BOOLEAN /\ rested \in BOOLEAN
    /\ owner \in OwnerPlaces /\ worker \in WorkerPlaces
\* The owner asks.
InCall == owner \notin {"idle", "yes"}
\* The owner asks and has seen the witness offered.
Past == owner \notin {"idle", "yes", "available"}
\* The owner reads under an even sequence.
Reading == {"quiescent", "generated", "observed", "epoch", "compare", "after"}
\* The worker stores under an odd sequence.
Storing == {"quiescent", "generated", "observed", "epoch", "even"}
\* The worker stores nothing until its next publication.
Holding == {"offer", "wait", "request", "readEpoch", "readPath", "whole", "qualify", "qualified",
            "read"}
\* Nothing is being written, and all that was observed is in the file.
Rests(words) == ~busy /\ prepared = words.observed /\ observed = words.observed /\ submitted = words.observed
\* A record is first in the ring, then prepared, then submitted, then in the file.
Ordered == inFile <= submitted /\ observed <= submitted /\ submitted <= prepared /\ prepared <= ringWrite
\* Rest in a call is remembered, and the ring stays while it is.
RestIsKept == (InCall /\ AtRest => rested) /\ (rested => InCall /\ observed = ringWrite)
\* The witness is only offered while the worker waits.
OfferedWaits == available => worker = "wait"
\* The sequence is odd exactly while the worker stores.
OddWhileStored == Odd(sequence) <=> worker \in Storing
\* The copy the worker is about to publish says rest only at rest.
CopyTrue == worker \in {"weigh", "odd"} \cup Storing => (copy.quiescent => Rests(copy))
\* What is stored so far is the copy.
StoredInOrder ==
    /\ worker \in {"generated", "observed", "epoch", "even"} => quiescence.quiescent = copy.quiescent
    /\ worker \in {"epoch", "even"} => quiescence.observed = copy.observed
\* The witness the worker leaves behind says rest only at rest.
WitnessTrue == worker \in Holding => (quiescence.quiescent => Rests(quiescence))
\* A whole witness of rest that names the ring as it is was stored at rest, and rest was in this
\* call.
WitnessInCall ==
    Past /\ ~Odd(sequence) /\ quiescence.quiescent /\ quiescence.observed = ringWrite => rested
\* The owner reads under a sequence that was even, and it only grows.
ReadUnder == owner \in Reading => ~Odd(asked.before) /\ asked.before <= sequence
\* If the sequence stands then what was read is what is stored.
ReadAsStored ==
    sequence = asked.before =>
        /\ owner \in {"generated", "observed", "epoch", "compare"} =>
              asked.words.quiescent = quiescence.quiescent
        /\ owner \in {"epoch", "compare"} => asked.words.observed = quiescence.observed
        /\ owner = "after" /\ asked.current => rested
\* The last look follows a rest in this call.
LastRested == owner = "last" => rested
\* The epoch of a whole request is the one last requested.
RequestWhole == (~Odd(requestSequence) \/ request.path = requested)
                   => request.epoch = requested
\* A request is whole when its sequence is even.
WrittenWhole == ~Odd(requestSequence) => request.path = requested
\* The worker reads the mailbox under a sequence that was even.
RequestReadUnder == worker \in {"readEpoch", "readPath", "whole"} => ~Odd(before) /\ before <= requestSequence
\* If that sequence stands then what was read is one request.
RequestRead ==
    requestSequence = before =>
        /\ worker \in {"readPath", "whole"} => checked.epoch = request.epoch
        /\ worker = "whole" => checked.path = request.path

\* The sequence turns from even to odd and back by one.
LEMMA OddFlips == \A n \in Nat : Odd(n + 1) <=> ~Odd(n)
  BY DEF Odd

\* The owner and the logger leave the worker's words alone.
LEMMA OwnerAlone ==
    ASSUME OwnerSteps \/ Flush
    PROVE  UNCHANGED <<available, sequence, quiescence, prepared, observed, busy, worker, copy,
                       before, checked>>
<1> USE DEF WorkerAside, witness, own, locals
<1>1. CASE CompleteNativeTransportStartup \/ ArmNativeTransport \/ StopNativeTransport \/ StopStatus
  BY <1>1 DEF CompleteNativeTransportStartup, ArmNativeTransport, StopNativeTransport, StopStatus
<1>2. CASE OwnerRecords \/ RequestNativeLogFile \/ Flush
  BY <1>2 DEF OwnerRecords, RequestNativeLogFile, Flush
<1>3. CASE Question
  BY <1>3 DEF Question, NativeTransportQuiescent, AskAvailable, AskBefore, AskWord, AskCompare,
              AskAfter, AskLast, OwnerActs, Asks
<1> QED
  BY <1>1, <1>2, <1>3 DEF OwnerSteps

\* The worker leaves the mailbox, the records and the question alone.
LEMMA WorkerAlone ==
    ASSUME Worker
    PROVE  UNCHANGED <<request, requestSequence, requested, ringWrite, submitted, inFile, snapshot,
                       owner, asked>>
<1> USE DEF OwnerAside, mailbox, records, asking
<1>1. CASE EndWorker \/ FinalCycle \/ WaitFails \/ BeginCycle
  BY <1>1 DEF EndWorker, FinalCycle, WaitFails, BeginCycle
<1>2. CASE ReadRequest \/ ReadEpoch \/ ReadPath \/ ReadWhole \/ Unqualify \/ Qualify
  BY <1>2 DEF ReadRequest, ReadEpoch, ReadPath, ReadWhole, Unqualify, Qualify, RequestSide
<1>3. CASE CycleReads \/ CyclePrepares
  BY <1>3 DEF CycleReads, CyclePrepares
<1>4. CASE Look \/ Weigh \/ StoreOdd \/ StoreWord \/ StoreEven \/ Offer
  BY <1>4 DEF Look, Weigh, StoreOdd, StoreWord, StoreEven, Offer, Publishes
<1> QED
  BY <1>1, <1>2, <1>3, <1>4 DEF Worker

\* A question writes nothing but its own words.
LEMMA AsksOnly ==
    ASSUME Question
    PROVE  UNCHANGED <<request, requestSequence, requested, qualifiedEpoch, ringWrite, submitted,
                       inFile, snapshot>>
  BY DEF Question, NativeTransportQuiescent, AskAvailable, AskBefore, AskWord, AskCompare,
         AskAfter, AskLast, OwnerActs, Asks, mailbox, records

\* Only the cycle itself moves what is prepared and observed.
LEMMA OwnStill ==
    ASSUME Worker, ~(FinalCycle \/ CycleReads \/ CyclePrepares)
    PROVE  UNCHANGED <<prepared, observed, busy>>
<1> USE DEF own
<1>1. CASE EndWorker \/ WaitFails \/ BeginCycle \/ Unqualify \/ Qualify
  BY <1>1 DEF EndWorker, WaitFails, BeginCycle, Unqualify, Qualify
<1>2. CASE ReadRequest \/ ReadEpoch \/ ReadPath \/ ReadWhole
  BY <1>2 DEF ReadRequest, ReadEpoch, ReadPath, ReadWhole, RequestSide
<1>3. CASE Look \/ Weigh \/ StoreOdd \/ StoreWord \/ StoreEven \/ Offer
  BY <1>3 DEF Look, Weigh, StoreOdd, StoreWord, StoreEven, Offer, Publishes
<1> QED
  BY <1>1, <1>2, <1>3 DEF Worker

\* While the owner asks it does nothing else.
LEMMA CallStill ==
    ASSUME OwnerSteps \/ Flush, InCall
    PROVE  UNCHANGED <<request, requestSequence, requested, ringWrite, submitted, snapshot>>
<1> USE DEF mailbox, records, InCall
<1>1. CASE CompleteNativeTransportStartup \/ ArmNativeTransport \/ StopNativeTransport \/ StopStatus
           \/ OwnerRecords \/ RequestNativeLogFile
  BY <1>1 DEF CompleteNativeTransportStartup, ArmNativeTransport, StopNativeTransport, StopStatus,
              OwnerRecords, RequestNativeLogFile, OwnerIdle
<1>2. CASE Question
  BY <1>2, AsksOnly
<1>3. CASE Flush
  BY <1>3 DEF Flush
<1> QED
  BY <1>1, <1>2, <1>3 DEF OwnerSteps

\* One word is read, or stored, after another.
WordAfter(w, x) == \/ w = "quiescent" /\ x = "generated"
                   \/ w = "generated" /\ x = "observed"
                   \/ w = "observed" /\ x = "epoch"
                   \/ w = "epoch"

\* The words are the four of the witness.
LEMMA WordsNamed == \A i \in 1..Len(Words) : Words[i] \in {"quiescent", "generated", "observed", "epoch"}
  BY DEF Words

\* The owner reads one word of the witness and goes on to the next.
LEMMA WordAsked ==
    ASSUME QuietTyped, AskWord
    PROVE  /\ owner \in {"quiescent", "generated", "observed", "epoch"} /\ WordAfter(owner, owner')
           /\ owner = "epoch" => owner' = "compare"
           /\ asked' \in [tries : Nat, before : Nat, words : WordSet, current : BOOLEAN]
           /\ asked'.before = asked.before
           /\ asked'.words.quiescent = (IF owner = "quiescent" THEN quiescence.quiescent
                                        ELSE asked.words.quiescent)
           /\ asked'.words.observed = (IF owner = "observed" THEN quiescence.observed
                                       ELSE asked.words.observed)
<1>1. PICK i \in 1..Len(Words) : owner = Words[i] /\ owner' = NextWord(owner)
          /\ asked' = [asked EXCEPT !.words[owner] = quiescence[owner]]
  BY DEF AskWord, Then
<1>2. owner \in {"quiescent", "generated", "observed", "epoch"}
  BY <1>1, WordsNamed
<1>3. WordAfter(owner, owner') /\ (owner = "epoch" => owner' = "compare")
  BY <1>1, <1>2 DEF WordAfter, NextWord
<1>4. asked \in [tries : Nat, before : Nat, words : WordSet, current : BOOLEAN] /\ quiescence \in WordSet
  BY DEF QuietTyped
<1>5. CASE owner = "quiescent"
  BY <1>1, <1>3, <1>4, <1>5 DEF WordSet
<1>6. CASE owner = "generated"
  BY <1>1, <1>3, <1>4, <1>6 DEF WordSet
<1>7. CASE owner = "observed"
  BY <1>1, <1>3, <1>4, <1>7 DEF WordSet
<1>8. CASE owner = "epoch"
  BY <1>1, <1>3, <1>4, <1>8 DEF WordSet
<1> QED
  BY <1>2, <1>5, <1>6, <1>7, <1>8

\* The worker stores one word of its copy and goes on to the next.
LEMMA WordStored ==
    ASSUME QuietTyped, StoreWord
    PROVE  /\ worker \in {"quiescent", "generated", "observed", "epoch"} /\ WordAfter(worker, worker')
           /\ worker = "epoch" => worker' = "even"
           /\ quiescence' \in WordSet
           /\ quiescence'.quiescent = (IF worker = "quiescent" THEN copy.quiescent
                                       ELSE quiescence.quiescent)
           /\ quiescence'.observed = (IF worker = "observed" THEN copy.observed
                                      ELSE quiescence.observed)
<1>1. PICK i \in 1..Len(Words) : worker = Words[i]
          /\ worker' = (IF worker = "epoch" THEN "even" ELSE NextWord(worker))
          /\ quiescence' = [quiescence EXCEPT ![worker] = copy[worker]]
  BY DEF StoreWord, WorkerGoes
<1>2. worker \in {"quiescent", "generated", "observed", "epoch"}
  BY <1>1, WordsNamed
<1>3. WordAfter(worker, worker') /\ (worker = "epoch" => worker' = "even")
  BY <1>1, <1>2 DEF WordAfter, NextWord
<1>4. copy \in WordSet /\ quiescence \in WordSet
  BY DEF QuietTyped
<1>5. CASE worker = "quiescent"
  BY <1>1, <1>3, <1>4, <1>5 DEF WordSet
<1>6. CASE worker = "generated"
  BY <1>1, <1>3, <1>4, <1>6 DEF WordSet
<1>7. CASE worker = "observed"
  BY <1>1, <1>3, <1>4, <1>7 DEF WordSet
<1>8. CASE worker = "epoch"
  BY <1>1, <1>3, <1>4, <1>8 DEF WordSet
<1> QED
  BY <1>2, <1>5, <1>6, <1>7, <1>8

Asking == [tries : Nat, before : Nat, words : WordSet, current : BOOLEAN]

\* A question goes from place to place.
LEMMA QuestionTyped ==
    ASSUME QuietTyped, Question
    PROVE  owner' \in OwnerPlaces /\ asked' \in Asking
<1> USE DEF OwnerPlaces, Asking
<1>1. asked \in Asking /\ owner \in OwnerPlaces /\ sequence \in Nat
  BY DEF QuietTyped
<1>2. Unasked \in Asking /\ NoWords \in WordSet
  BY DEF Unasked, NoWords, WordSet
<1>3. \A n \in Nat : [asked EXCEPT !.before = n] \in Asking /\ [Unasked EXCEPT !.tries = n] \in Asking
  BY <1>1, <1>2
<1>4. \A b \in BOOLEAN : [asked EXCEPT !.words = NoWords, !.current = b] \in Asking
  BY <1>1, <1>2
<1>5. asked.tries + 1 \in Nat
  BY <1>1
<1>6. CASE NativeTransportQuiescent \/ AskAvailable \/ OwnerActs
  BY <1>1, <1>2, <1>6 DEF NativeTransportQuiescent, AskAvailable, OwnerActs, Answers, Then
<1>7. CASE AskBefore
  BY <1>1, <1>2, <1>3, <1>5, <1>7 DEF AskBefore, Again, Answers, Then
<1>8. CASE AskWord
  BY <1>8, WordAsked DEF WordAfter
<1>9. CASE AskCompare
  BY <1>1, <1>4, <1>9 DEF AskCompare, Then, Current, RingEmpty
<1>10. CASE AskAfter
  BY <1>1, <1>2, <1>3, <1>5, <1>10 DEF AskAfter, Again, Answers, Then
<1>11. CASE AskLast
  BY <1>1, <1>2, <1>11 DEF AskLast, Answers
<1> QED
  BY <1>6, <1>7, <1>8, <1>9, <1>10, <1>11 DEF Question

\* The numbers and records a step writes are of their kinds.
LEMMA WorkerTyped ==
    ASSUME QuietTyped, Worker
    PROVE  /\ {qualifiedEpoch', sequence', prepared', observed', before'} \subseteq Nat
           /\ checked' \in SinkSet /\ quiescence' \in WordSet /\ copy' \in WordSet
           /\ busy' \in BOOLEAN /\ available' \in BOOLEAN /\ worker' \in WorkerPlaces
<1> USE DEF WorkerPlaces, WorkerGoes, witness, own, locals
<1>1. /\ {requestSequence, requested, qualifiedEpoch, sequence, ringWrite, submitted, inFile,
          prepared, observed, before} \subseteq Nat
      /\ request \in SinkSet /\ checked \in SinkSet /\ quiescence \in WordSet /\ copy \in WordSet
      /\ busy \in BOOLEAN /\ available \in BOOLEAN /\ worker \in WorkerPlaces
      /\ snapshot \in [generated : Nat, submitted : Nat]
  BY DEF QuietTyped
<1>2. NoWords \in WordSet /\ NoSink \in SinkSet
  BY DEF NoWords, NoSink, WordSet, SinkSet
<1>3. CASE EndWorker \/ WaitFails \/ BeginCycle
  BY <1>1, <1>3 DEF EndWorker, WaitFails, BeginCycle, Invalidate
<1>4. CASE FinalCycle
  BY <1>1, <1>4 DEF FinalCycle
<1>5. CASE ReadRequest \/ ReadWhole \/ Unqualify
  BY <1>1, <1>2, <1>5 DEF ReadRequest, ReadWhole, Unqualify, RequestSide, Retry, Leave
<1>6. CASE ReadEpoch \/ ReadPath
  <2>1. checked' \in SinkSet
    BY <1>1, <1>6 DEF ReadEpoch, ReadPath, SinkSet
  <2> QED
    BY <1>1, <1>6, <2>1 DEF ReadEpoch, ReadPath, RequestSide
<1>7. CASE Qualify
  <2>1. checked.epoch \in Nat
    BY <1>1 DEF SinkSet
  <2>2. qualifiedEpoch' \in Nat
    BY <1>1, <1>7, <2>1 DEF Qualify
  <2>3. UNCHANGED <<sequence, prepared, observed, busy, available, quiescence, copy>>
        /\ worker' = "read" /\ before' = 0 /\ checked' = NoSink
    BY <1>7 DEF Qualify, Leave
  <2> QED
    BY <1>1, <1>2, <2>2, <2>3
<1>8. CASE CycleReads \/ CyclePrepares
  <2>1. observed' \in Nat /\ prepared' \in Nat
    <3>1. CASE CycleReads
      <4>1. PICK n \in Nat : observed' \in observed..n
        BY <1>1, <3>1 DEF CycleReads
      <4> QED
        BY <1>1, <3>1, <4>1 DEF CycleReads
    <3>2. CASE CyclePrepares
      BY <1>1, <3>2 DEF CyclePrepares
    <3> QED
      BY <1>8, <3>1, <3>2
  <2>2. busy' \in BOOLEAN
    <3>1. CASE CycleReads
      <4>1. busy' = TRUE \/ busy' = (observed' < inFile \/ qualifiedEpoch = 0)
        BY <3>1, Zenon DEF CycleReads
      <4> QED
        BY <4>1
    <3>2. CASE CyclePrepares
      BY <1>1, <3>2 DEF CyclePrepares
    <3> QED
      BY <1>8, <3>1, <3>2
  <2>3. UNCHANGED <<qualifiedEpoch, sequence, available, quiescence, copy, before, checked>>
        /\ worker' \in {"prepare", "look"}
    BY <1>8 DEF CycleReads, CyclePrepares
  <2> QED
    BY <1>1, <2>1, <2>2, <2>3
<1>9. CASE Look
  <2>1. copy' \in WordSet
    BY <1>1, <1>9 DEF Look, WordSet
  <2> QED
    BY <1>1, <1>9, <2>1 DEF Look, Publishes
<1>10. CASE Weigh
  <2>1. copy' \in WordSet
    BY <1>1, <1>10 DEF Weigh, WordSet
  <2> QED
    BY <1>1, <1>10, <2>1 DEF Weigh, Publishes
<1>11. CASE StoreOdd \/ StoreEven \/ Offer
  <2>1. sequence' \in Nat /\ copy' \in WordSet
    BY <1>1, <1>2, <1>11 DEF StoreOdd, StoreEven, Offer
  <2>3. available' \in BOOLEAN
    BY <1>1, <1>11 DEF StoreOdd, StoreEven, Offer
  <2>2. UNCHANGED <<qualifiedEpoch, prepared, observed, busy, quiescence, before, checked>>
        /\ worker' \in {"quiescent", "offer", "wait"}
    BY <1>11 DEF StoreOdd, StoreEven, Offer, Publishes
  <2> QED
    BY <1>1, <2>1, <2>2, <2>3
<1>12. CASE StoreWord
  <2>1. quiescence' \in WordSet /\ worker' \in WorkerPlaces
    BY <1>12, WordStored DEF WordAfter
  <2> QED
    BY <1>1, <1>12, <2>1 DEF StoreWord, Publishes
<1> QED
  BY <1>3, <1>4, <1>5, <1>6, <1>7, <1>8, <1>9, <1>10, <1>11, <1>12 DEF Worker

\* The owner and the logger write numbers.
LEMMA OwnerTyped ==
    ASSUME QuietTyped, OwnerSteps \/ Flush
    PROVE  /\ {requestSequence', requested', qualifiedEpoch', ringWrite', submitted', inFile'} \subseteq Nat
           /\ request' \in SinkSet /\ snapshot' \in [generated : Nat, submitted : Nat]
           /\ owner' \in OwnerPlaces /\ asked' \in Asking
<1> USE DEF mailbox, records, asking
<1>1. /\ {requestSequence, requested, qualifiedEpoch, ringWrite, submitted, inFile} \subseteq Nat
      /\ request \in SinkSet /\ snapshot \in [generated : Nat, submitted : Nat]
      /\ owner \in OwnerPlaces /\ asked \in Asking
  BY DEF QuietTyped, Asking
<1>2. CASE CompleteNativeTransportStartup \/ ArmNativeTransport \/ StopNativeTransport \/ StopStatus
  BY <1>1, <1>2 DEF CompleteNativeTransportStartup, ArmNativeTransport, StopNativeTransport,
                    StopStatus, OwnerIdle
<1>3. CASE OwnerRecords
  BY <1>1, <1>3 DEF OwnerRecords, Enqueue, Submit, PublishOwner, OwnerIdle
<1>4. CASE RequestNativeLogFile
  <2>1. request' \in SinkSet
    BY <1>1, <1>4 DEF RequestNativeLogFile, SinkSet
  <2>2. requested' \in Nat /\ requestSequence' \in Nat
    BY <1>1, <1>4 DEF RequestNativeLogFile
  <2> QED
    BY <1>1, <1>4, <2>1, <2>2 DEF RequestNativeLogFile, OwnerIdle
<1>5. CASE Question
  BY <1>1, <1>5, AsksOnly, QuestionTyped
<1>6. CASE Flush
  BY <1>1, <1>6 DEF Flush
<1> QED
  BY <1>2, <1>3, <1>4, <1>5, <1>6 DEF OwnerSteps

\* Every step keeps the kinds of the words.
LEMMA QuietTypedStep ==
    ASSUME QuietTyped, QuietNext
    PROVE  QuietTyped'
<1>1. rested' \in BOOLEAN
  BY Zenon DEF QuietNext, WatchRest
<1>2. CASE OwnerSteps \/ Flush
  BY <1>1, <1>2, OwnerTyped, OwnerAlone DEF QuietTyped, Asking
<1>3. CASE Worker
  BY <1>1, <1>3, WorkerTyped, WorkerAlone DEF QuietTyped, Asking
<1> QED
  BY <1>2, <1>3 DEF QuietNext

\* Every step keeps the order of the records, and what was observed only grows.
LEMMA OrderedStep ==
    ASSUME QuietTyped, Ordered, QuietNext
    PROVE  Ordered' /\ observed <= observed'
<1> USE DEF Ordered, own, records
<1>1. {ringWrite, submitted, inFile, prepared, observed} \subseteq Nat
      /\ snapshot \in [generated : Nat, submitted : Nat]
  BY DEF QuietTyped
<1>2. CASE OwnerSteps \/ Flush
  <2>1. UNCHANGED <<prepared, observed>>
    BY <1>2, OwnerAlone
  <2>2. CASE OwnerRecords
    BY <1>1, <2>1, <2>2 DEF OwnerRecords, Enqueue, Submit, PublishOwner
  <2>3. CASE Flush
    BY <1>1, <2>1, <2>3 DEF Flush
  <2>4. CASE CompleteNativeTransportStartup \/ ArmNativeTransport \/ StopNativeTransport
             \/ StopStatus \/ RequestNativeLogFile
    BY <1>1, <2>1, <2>4 DEF CompleteNativeTransportStartup, ArmNativeTransport, StopNativeTransport,
                            StopStatus, RequestNativeLogFile
  <2>5. CASE Question
    BY <1>1, <2>1, <2>5, AsksOnly
  <2> QED
    BY <1>2, <2>2, <2>3, <2>4, <2>5 DEF OwnerSteps
<1>3. CASE Worker
  <2>1. UNCHANGED <<ringWrite, submitted, inFile>>
    BY <1>3, WorkerAlone
  <2>2. CASE FinalCycle
    BY <1>1, <2>1, <2>2 DEF FinalCycle
  <2>3. CASE CycleReads
    <3>1. observed' \in observed..(IF inFile < snapshot.submitted THEN inFile ELSE snapshot.submitted)
          /\ prepared' = prepared
      BY <2>3 DEF CycleReads
    <3>2. snapshot.submitted \in Nat
      BY <1>1
    <3>3. observed' \in observed..inFile
      BY <1>1, <3>1, <3>2
    <3> QED
      BY <1>1, <2>1, <3>1, <3>3
  <2>4. CASE CyclePrepares
    BY <1>1, <2>1, <2>4 DEF CyclePrepares
  <2>5. CASE ~(FinalCycle \/ CycleReads \/ CyclePrepares)
    BY <1>1, <1>3, <2>1, <2>5, OwnStill
  <2> QED
    BY <2>2, <2>3, <2>4, <2>5
<1> QED
  BY <1>2, <1>3 DEF QuietNext

\* In a call the ring stays, and what was read of it is read no less.
LEMMA RestIsKeptStep ==
    ASSUME QuietTyped, Ordered, RestIsKept, QuietNext
    PROVE  RestIsKept'
<1>1. rested' <=> InCall' /\ (rested \/ AtRest')
  BY Zenon DEF QuietNext, WatchRest, InCall
<1>2. (InCall /\ AtRest => rested)'
  BY <1>1
<1>3. ASSUME rested' PROVE InCall' /\ observed' = ringWrite'
  <2>1. InCall'
    BY <1>1, <1>3
  <2>2. CASE AtRest'
    BY <2>1, <2>2 DEF AtRest
  <2>3. CASE rested
    <3>1. InCall /\ observed = ringWrite
      BY <2>3 DEF RestIsKept
    <3>2. ringWrite' = ringWrite
      BY <3>1, CallStill, WorkerAlone DEF QuietNext
    <3>3. Ordered' /\ observed <= observed'
      BY OrderedStep
    <3>4. {observed, ringWrite, submitted, prepared} \subseteq Nat
          /\ {observed', submitted', prepared'} \subseteq Nat
      BY QuietTypedStep DEF QuietTyped
    <3> QED
      BY <2>1, <3>1, <3>2, <3>3, <3>4 DEF Ordered
  <2> QED
    BY <1>1, <1>3, <2>2, <2>3
<1> QED
  BY <1>2, <1>3 DEF RestIsKept

Told == OfferedWaits /\ OddWhileStored /\ CopyTrue /\ StoredInOrder /\ WitnessTrue

\* Only the three stores write the witness, and between cycles it is as it was.
LEMMA WitnessStill ==
    ASSUME Worker, ~(StoreOdd \/ StoreWord \/ StoreEven)
    PROVE  UNCHANGED <<sequence, quiescence>>
<1> USE DEF witness
<1>1. CASE EndWorker \/ FinalCycle \/ WaitFails \/ BeginCycle \/ Unqualify \/ Qualify
  BY <1>1 DEF EndWorker, FinalCycle, WaitFails, BeginCycle, Unqualify, Qualify
<1>2. CASE ReadRequest \/ ReadEpoch \/ ReadPath \/ ReadWhole \/ CycleReads \/ CyclePrepares
  BY <1>2 DEF ReadRequest, ReadEpoch, ReadPath, ReadWhole, RequestSide, CycleReads, CyclePrepares
<1>3. CASE Look \/ Weigh \/ Offer
  BY <1>3 DEF Look, Weigh, Offer
<1> QED
  BY <1>1, <1>2, <1>3 DEF Worker

\* Looking at everything, and at the publication, what is copied is true.
LEMMA CopiedTrue ==
    ASSUME QuietTyped, CopyTrue, Look \/ Weigh
    PROVE  (copy.quiescent => Rests(copy))'
<1>1. UNCHANGED <<prepared, observed, busy, submitted>>
  BY DEF Look, Weigh, Publishes, OwnerAside, own, records
<1>2. copy \in WordSet
  BY DEF QuietTyped
<1>3. CASE Look
  <2>1. copy' = [quiescent |-> ~busy /\ qualifiedEpoch > 0 /\ prepared = ringWrite
                              /\ submitted = prepared /\ prepared = observed,
                 generated |-> 0, observed |-> observed, epoch |-> qualifiedEpoch]
    BY <1>3 DEF Look
  <2> QED
    BY <1>1, <2>1 DEF Rests
<1>4. CASE Weigh
  <2>1. copy'.observed = copy.observed /\ (copy'.quiescent => copy.quiescent)
    BY <1>2, <1>4 DEF Weigh, WordSet
  <2>2. copy.quiescent => Rests(copy)
    BY <1>4 DEF Weigh, CopyTrue
  <2> QED
    BY <1>1, <2>1, <2>2 DEF Rests
<1> QED
  BY <1>3, <1>4

\* Every step keeps what the worker tells true.
LEMMA ToldStep ==
    ASSUME QuietTyped, Ordered, Told, QuietNext
    PROVE  Told'
<1> USE DEF Told, Storing, Holding
<1>1. CASE OwnerSteps \/ Flush
  <2>1. UNCHANGED <<available, sequence, quiescence, prepared, observed, busy, worker, copy>>
    BY <1>1, OwnerAlone
  <2>2. submitted' = submitted \/ (submitted < prepared /\ submitted' = submitted + 1)
    BY <1>1, AsksOnly DEF OwnerSteps, OwnerRecords, Enqueue, Submit, PublishOwner, Flush, records,
                          CompleteNativeTransportStartup, ArmNativeTransport, StopNativeTransport,
                          StopStatus, RequestNativeLogFile
  <2>3. submitted \in Nat /\ prepared \in Nat
    BY DEF QuietTyped
  <2>4. Rests(copy) => (Rests(copy))'
    BY <2>1, <2>2, <2>3 DEF Rests
  <2>5. Rests(quiescence) => (Rests(quiescence))'
    BY <2>1, <2>2, <2>3 DEF Rests
  <2> QED
    BY <2>1, <2>4, <2>5 DEF OfferedWaits, OddWhileStored, CopyTrue, StoredInOrder, WitnessTrue
<1>2. CASE Worker /\ ~(StoreOdd \/ StoreWord \/ StoreEven)
  <2>1. UNCHANGED <<sequence, quiescence, submitted>>
    BY <1>2, WitnessStill, WorkerAlone
  <2>2. CASE EndWorker \/ FinalCycle \/ WaitFails
    BY <2>1, <2>2 DEF EndWorker, FinalCycle, WaitFails, WorkerGoes, witness, OfferedWaits, OddWhileStored,
                      CopyTrue, StoredInOrder, WitnessTrue
  <2>3. CASE BeginCycle \/ ReadRequest \/ ReadEpoch \/ ReadPath \/ ReadWhole \/ Unqualify \/ Qualify
    <3>1. worker \in Holding \ {"offer"} /\ worker' \in Holding \ {"offer", "wait"} /\ ~available'
      <4>1. CASE BeginCycle
        BY <4>1 DEF BeginCycle, Invalidate, WorkerGoes
      <4>2. CASE ReadRequest \/ ReadEpoch \/ ReadPath \/ ReadWhole
        <5>1. worker \in {"request", "readEpoch", "readPath", "whole"} /\ available' = available
          BY <4>2 DEF ReadRequest, ReadEpoch, ReadPath, ReadWhole, RequestSide, witness
        <5>2. worker' \in {"request", "readEpoch", "readPath", "whole", "qualify", "read"}
          BY <4>2 DEF ReadRequest, ReadEpoch, ReadPath, ReadWhole, Retry, Leave, WorkerGoes
        <5> QED
          BY <5>1, <5>2 DEF OfferedWaits
      <4>3. CASE Unqualify \/ Qualify
        <5>1. worker \in {"qualify", "qualified"} /\ available' = available
              /\ worker' \in {"qualified", "read"}
          BY <4>3 DEF Unqualify, Qualify, Leave, WorkerGoes, witness
        <5> QED
          BY <5>1 DEF OfferedWaits
      <4> QED
        BY <2>3, <4>1, <4>2, <4>3
    <3>2. UNCHANGED <<prepared, observed, busy>>
      BY <1>2, <2>3, OwnStill DEF BeginCycle, ReadRequest, ReadEpoch, ReadPath, ReadWhole, Unqualify,
                  Qualify, FinalCycle, CycleReads, CyclePrepares
    <3> QED
      BY <2>1, <3>1, <3>2 DEF OfferedWaits, OddWhileStored, CopyTrue, StoredInOrder, WitnessTrue, Rests
  <2>4. CASE CycleReads \/ CyclePrepares
    <3>1. worker \in {"read", "prepare"} /\ worker' \in {"prepare", "look"} /\ available' = available
      BY <2>4 DEF CycleReads, CyclePrepares, WorkerGoes, witness
    <3> QED
      BY <2>1, <3>1 DEF OfferedWaits, OddWhileStored, CopyTrue, StoredInOrder, WitnessTrue
  <2>5. CASE Look \/ Weigh
    <3>1. worker \in {"look", "weigh"} /\ worker' \in {"weigh", "odd"} /\ UNCHANGED available
      BY <2>5 DEF Look, Weigh, WorkerGoes, witness
    <3> QED
      BY <2>1, <2>5, <3>1, CopiedTrue
         DEF OfferedWaits, OddWhileStored, CopyTrue, StoredInOrder, WitnessTrue
  <2>6. CASE Offer
    <3>1. worker = "offer" /\ worker' = "wait" /\ UNCHANGED <<prepared, observed, busy>>
      BY <2>6 DEF Offer, Publishes, WorkerGoes, own
    <3> QED
      BY <2>1, <3>1 DEF OfferedWaits, OddWhileStored, CopyTrue, StoredInOrder, WitnessTrue, Rests
  <2> QED
    BY <1>2, <2>2, <2>3, <2>4, <2>5, <2>6 DEF Worker
<1>3. CASE StoreOdd \/ StoreWord \/ StoreEven
  <2>1. UNCHANGED <<prepared, observed, busy, submitted, copy, available>>
    BY <1>3 DEF StoreOdd, StoreWord, StoreEven, Publishes, OwnerAside, own, records
  <2>2. (copy.quiescent => Rests(copy)) /\ (copy.quiescent => Rests(copy))'
    BY <1>3, <2>1, WordStored DEF StoreOdd, StoreEven, CopyTrue, Rests
  <2>3. sequence \in Nat
    BY DEF QuietTyped
  <2>4. CASE StoreOdd
    <3>1. worker = "odd" /\ worker' = "quiescent" /\ sequence' = sequence + 1
      BY <2>4 DEF StoreOdd, WorkerGoes
    <3> QED
      BY <2>1, <2>2, <2>3, <3>1, OddFlips
         DEF OfferedWaits, OddWhileStored, CopyTrue, StoredInOrder, WitnessTrue
  <2>5. CASE StoreWord
    <3>1. sequence' = sequence
      BY <2>5 DEF StoreWord
    <3> QED
      BY <2>1, <2>2, <2>5, <3>1, WordStored
         DEF OfferedWaits, OddWhileStored, CopyTrue, StoredInOrder, WitnessTrue, WordAfter
  <2>6. CASE StoreEven
    <3>1. worker = "even" /\ worker' = "offer" /\ sequence' = sequence + 1 /\ quiescence' = quiescence
      BY <2>6 DEF StoreEven, WorkerGoes
    <3> QED
      BY <2>1, <2>2, <2>3, <3>1, OddFlips
         DEF OfferedWaits, OddWhileStored, CopyTrue, StoredInOrder, WitnessTrue, Rests
  <2> QED
    BY <1>3, <2>4, <2>5, <2>6
<1> QED
  BY <1>1, <1>2, <1>3 DEF QuietNext, Worker

\* A rest that was in this call is not forgotten before the call returns.
LEMMA RestedStays ==
    ASSUME QuietNext, rested, InCall'
    PROVE  rested'
  BY Zenon DEF QuietNext, WatchRest, InCall

\* What a step that is no question leaves of it.
LEMMA NoQuestion ==
    ASSUME OwnerSteps \/ Flush \/ Worker, ~Question
    PROVE  UNCHANGED <<owner, asked>>
  BY WorkerAlone DEF OwnerSteps, Flush, CompleteNativeTransportStartup, ArmNativeTransport,
     StopNativeTransport, StopStatus, OwnerRecords, RequestNativeLogFile, OwnerIdle, asking

\* The words are weighed only after the witness was seen offered.
LEMMA Enters ==
    ASSUME Question, ~Past, Past'
    PROVE  owner = "available" /\ available /\ owner' = "before"
<1> USE DEF Past, Then, Answers
<1>1. CASE NativeTransportQuiescent \/ OwnerActs
  BY <1>1 DEF NativeTransportQuiescent, OwnerActs
<1>2. CASE AskAvailable
  BY <1>2 DEF AskAvailable
<1>3. CASE AskBefore \/ AskCompare \/ AskAfter \/ AskLast
  BY <1>3 DEF AskBefore, AskCompare, AskAfter, AskLast
<1>4. CASE AskWord
  BY <1>4, WordsNamed DEF AskWord
<1> QED
  BY <1>1, <1>2, <1>3, <1>4 DEF Question

\* A witness of rest that is published in a call was published at rest in that call.
LEMMA WitnessInCallStep ==
    ASSUME QuietTyped, Ordered, RestIsKept, Told, WitnessInCall, QuietNext
    PROVE  WitnessInCall'
<1> SUFFICES ASSUME Past', ~Odd(sequence'), quiescence'.quiescent, quiescence'.observed = ringWrite'
             PROVE  rested'
  BY DEF WitnessInCall
<1>1. InCall'
  BY DEF InCall, Past
<1> SUFFICES rested
  BY <1>1, RestedStays
<1>2. ASSUME NEW words \in {copy, quiescence}, Rests(words), words.observed = ringWrite, InCall
      PROVE  rested
  BY <1>2 DEF Rests, RestIsKept, AtRest
<1>3. CASE Worker
  <2>1. UNCHANGED <<owner, ringWrite>> /\ Past /\ InCall
    BY <1>3, WorkerAlone DEF Past, InCall
  <2>2. CASE StoreOdd
    <3>1. worker' = "quiescent"
      BY <2>2 DEF StoreOdd, WorkerGoes
    <3> QED
      BY <3>1, ToldStep DEF Told, OddWhileStored, Storing
  <2>3. CASE StoreWord
    <3>1. sequence' = sequence /\ worker \in Storing
      BY <2>3, WordStored DEF StoreWord, Storing
    <3> QED
      BY <3>1 DEF Told, OddWhileStored
  <2>4. CASE StoreEven
    <3>1. worker = "even" /\ quiescence' = quiescence
      BY <2>4 DEF StoreEven
    <3>2. copy.quiescent /\ copy.observed = ringWrite
      BY <2>1, <3>1 DEF Told, StoredInOrder
    <3>3. Rests(copy)
      BY <3>1, <3>2 DEF Told, CopyTrue, Storing
    <3> QED
      BY <1>2, <2>1, <3>2, <3>3
  <2>5. CASE ~(StoreOdd \/ StoreWord \/ StoreEven)
    <3>1. UNCHANGED <<sequence, quiescence>>
      BY <1>3, <2>5, WitnessStill
    <3> QED
      BY <2>1, <3>1 DEF WitnessInCall
  <2> QED
    BY <2>2, <2>3, <2>4, <2>5
<1>4. CASE OwnerSteps \/ Flush
  <2>1. UNCHANGED <<sequence, quiescence, worker, available>>
    BY <1>4, OwnerAlone
  <2>2. CASE Past
    <3>1. ringWrite' = ringWrite
      BY <1>4, <2>2, CallStill DEF Past, InCall
    <3> QED
      BY <2>1, <2>2, <3>1 DEF WitnessInCall
  <2>3. CASE ~Past
    <3>1. Question
      BY <1>4, <2>3, NoQuestion DEF Past
    <3>2. owner = "available" /\ available
      BY <2>3, <3>1, Enters
    <3>3. ringWrite' = ringWrite /\ InCall
      BY <1>4, <3>2, CallStill DEF InCall
    <3>4. Rests(quiescence)
      BY <2>1, <3>2 DEF Told, OfferedWaits, WitnessTrue, Holding
    <3> QED
      BY <1>2, <2>1, <3>3, <3>4
  <2> QED
    BY <2>2, <2>3
<1> QED
  BY <1>3, <1>4 DEF QuietNext

\* The sequence only grows, and it grows at the two ends of a publication.
LEMMA SequenceGrows ==
    ASSUME QuietTyped, Worker, OddWhileStored
    PROVE  /\ sequence <= sequence'
           /\ sequence' = sequence /\ ~Odd(sequence) => quiescence' = quiescence
<1>1. sequence \in Nat
  BY DEF QuietTyped
<1>2. CASE StoreOdd \/ StoreEven
  BY <1>1, <1>2 DEF StoreOdd, StoreEven
<1>3. CASE StoreWord
  <2>1. sequence' = sequence /\ worker \in Storing
    BY <1>3, WordStored DEF StoreWord, Storing
  <2> QED
    BY <1>1, <2>1 DEF OddWhileStored
<1>4. CASE ~(StoreOdd \/ StoreWord \/ StoreEven)
  BY <1>1, <1>4, WitnessStill
<1> QED
  BY <1>2, <1>3, <1>4

\* The owner goes on reading under the sequence it began with.
LEMMA ReadUnderStep ==
    ASSUME QuietTyped, Told, ReadUnder, QuietNext
    PROVE  ReadUnder'
<1> USE DEF ReadUnder, Reading
<1>1. sequence \in Nat /\ sequence' \in Nat /\ asked \in Asking /\ (owner \in OwnerPlaces)
  BY QuietTypedStep DEF QuietTyped, Asking
<1>2. CASE Worker
  <2>1. UNCHANGED <<owner, asked>> /\ sequence <= sequence'
    BY <1>2, WorkerAlone, SequenceGrows DEF Told
  <2>2. asked.before \in Nat
    BY <1>1 DEF Asking
  <2> QED
    BY <1>1, <2>1, <2>2
<1>3. CASE (OwnerSteps \/ Flush) /\ ~Question
  BY <1>3, OwnerAlone, NoQuestion
<1>4. CASE Question
  <2>1. sequence' = sequence
    BY <1>4, OwnerAlone DEF OwnerSteps
  <2>2. CASE NativeTransportQuiescent \/ AskAvailable \/ AskAfter \/ AskLast \/ OwnerActs
    <3>1. owner' \notin Reading
      BY <2>2 DEF NativeTransportQuiescent, AskAvailable, AskAfter, AskLast, OwnerActs, Answers, Again, Then
    <3> QED
      BY <3>1
  <2>3. CASE AskBefore
    <3>1. CASE sequence < 2 \/ Odd(sequence)
      BY <2>3, <3>1 DEF AskBefore, Again, Answers, Then
    <3>2. CASE ~(sequence < 2 \/ Odd(sequence))
      <4>1. asked' = [asked EXCEPT !.before = sequence]
        BY <2>3, <3>2 DEF AskBefore
      <4>2. asked'.before = sequence
        BY <1>1, <4>1 DEF Asking
      <4> QED
        BY <1>1, <2>1, <3>2, <4>2
    <3> QED
      BY <3>1, <3>2
  <2>4. CASE AskWord
    BY <2>1, <2>4, WordAsked
  <2>5. CASE AskCompare
    <3>1. asked'.before = asked.before /\ owner = "compare"
      BY <1>1, <2>5 DEF AskCompare, Asking
    <3> QED
      BY <2>1, <3>1
  <2> QED
    BY <1>4, <2>2, <2>3, <2>4, <2>5 DEF Question
<1> QED
  BY <1>2, <1>3, <1>4 DEF QuietNext

\* A word read under a sequence that stands is a word of the publication, and the comparison means
\* rest.
LEMMA ReadAsStoredStep ==
    ASSUME QuietTyped, Told, WitnessInCall, ReadUnder, ReadAsStored, QuietNext
    PROVE  ReadAsStored'
<1> USE DEF Reading
<1>1. sequence \in Nat /\ asked \in Asking /\ asked.before \in Nat /\ owner \in OwnerPlaces
  BY DEF QuietTyped, Asking
<1>2. CASE Worker
  <2>1. UNCHANGED <<owner, asked>> /\ sequence <= sequence'
        /\ (sequence' = sequence /\ ~Odd(sequence) => quiescence' = quiescence)
    BY <1>2, WorkerAlone, SequenceGrows DEF Told
  <2>2. CASE owner \in Reading /\ sequence' = asked.before
    <3>1. sequence = asked.before /\ quiescence' = quiescence
      <4>1. sequence' \in Nat
        BY QuietTypedStep DEF QuietTyped
      <4> QED
        BY <1>1, <2>1, <2>2, <4>1 DEF ReadUnder
    <3>2. owner = "after" /\ asked.current => rested'
      <4>1. InCall'
        BY <2>1, <2>2 DEF InCall
      <4> QED
        BY <3>1, <4>1, RestedStays DEF ReadAsStored
    <3> QED
      BY <2>1, <3>1, <3>2 DEF ReadAsStored
  <2>3. CASE ~(owner \in Reading /\ sequence' = asked.before)
    BY <2>1, <2>3 DEF ReadAsStored
  <2> QED
    BY <2>2, <2>3
<1>3. CASE (OwnerSteps \/ Flush) /\ ~Question
  <2>1. UNCHANGED <<owner, asked, sequence, quiescence>>
    BY <1>3, OwnerAlone, NoQuestion
  <2>2. owner = "after" /\ rested => rested'
    <3>1. owner = "after" => InCall'
      BY <2>1 DEF InCall
    <3> QED
      BY <3>1, RestedStays
  <2> QED
    BY <2>1, <2>2 DEF ReadAsStored
<1>4. CASE Question
  <2>1. UNCHANGED <<sequence, quiescence, ringWrite>>
    BY <1>4, OwnerAlone, AsksOnly DEF OwnerSteps
  <2>2. CASE NativeTransportQuiescent \/ AskAvailable \/ AskBefore \/ AskAfter \/ AskLast \/ OwnerActs
    <3>1. owner' \notin Reading \ {"quiescent"}
      BY <2>2 DEF NativeTransportQuiescent, AskAvailable, AskBefore, AskAfter, AskLast, OwnerActs,
                  Answers, Again, Then
    <3> QED
      BY <3>1 DEF ReadAsStored
  <2>3. CASE AskWord
    BY <2>1, <2>3, WordAsked DEF ReadAsStored, WordAfter
  <2>4. CASE AskCompare
    <3>1. owner = "compare" /\ owner' = "after" /\ asked'.before = asked.before
          /\ (asked'.current => Current)
      BY <1>1, <2>4 DEF AskCompare, Asking, Then
    <3>2. ASSUME sequence = asked.before, Current PROVE rested'
      <4>1. quiescence.quiescent /\ quiescence.observed = ringWrite
        <5>1. quiescence.quiescent = asked.words.quiescent /\ quiescence.observed = asked.words.observed
          BY <3>1, <3>2, Zenon DEF ReadAsStored
        <5>2. asked.words.quiescent = TRUE /\ asked.words.observed = ringWrite
          BY <3>2 DEF Current
        <5> QED
          BY <5>1, <5>2, Zenon
      <4>2. rested
        BY <3>1, <3>2, <4>1 DEF ReadUnder, WitnessInCall, Past
      <4> QED
        BY <3>1, <4>2, RestedStays DEF InCall
    <3> QED
      BY <2>1, <3>1, <3>2 DEF ReadAsStored
  <2> QED
    BY <1>4, <2>2, <2>3, <2>4 DEF Question
<1> QED
  BY <1>2, <1>3, <1>4 DEF QuietNext

\* The last look is only taken after the words were compared under one sequence.
LEMMA LastRestedStep ==
    ASSUME QuietTyped, ReadAsStored, LastRested, QuietNext
    PROVE  LastRested'
<1> SUFFICES ASSUME owner' = "last" PROVE rested
  BY RestedStays DEF LastRested, InCall
<1>1. CASE owner = "last"
  BY <1>1 DEF LastRested
<1>2. CASE owner # "last"
  <2>1. Question
    BY <1>2, NoQuestion DEF QuietNext
  <2>2. AskAfter
    BY <1>2, <2>1, WordAsked DEF Question, NativeTransportQuiescent, AskAvailable, AskBefore, AskCompare,
       AskLast, OwnerActs, Answers, Again, Then, WordAfter
  <2>3. owner = "after" /\ asked.current /\ asked.before = sequence
    BY <2>2 DEF AskAfter, Again, Answers, After, Then
  <2> QED
    BY <2>3 DEF ReadAsStored
<1> QED
  BY <1>1, <1>2

\* The mailbox's sequence is odd from the first word of a request to its last.
Mailed == RequestWhole /\ WrittenWhole

\* A request that can be read is whole, and it stays as it is for as long as the sequence does.
LEMMA MailedStep ==
    ASSUME QuietTyped, Mailed, QuietNext
    PROVE  /\ Mailed' /\ requestSequence <= requestSequence'
           /\ requestSequence' = requestSequence /\ ~Odd(requestSequence) => request' = request
<1> USE DEF Mailed, RequestWhole, WrittenWhole
<1>1. {requestSequence, requested} \subseteq Nat /\ request \in SinkSet
  BY DEF QuietTyped
<1>2. CASE RequestNativeLogFile
  <2>1. CASE ~Odd(requestSequence) /\ requested' = requested + 1
             /\ requestSequence' = requestSequence + 1 /\ UNCHANGED request
    BY <1>1, <2>1, OddFlips DEF SinkSet
  <2>2. CASE Odd(requestSequence) /\ request.epoch < requested
             /\ request' = [request EXCEPT !.epoch = requested] /\ UNCHANGED <<requested, requestSequence>>
    <3>1. request'.epoch = requested /\ request'.path = request.path
      BY <1>1, <2>2 DEF SinkSet
    <3> QED
      BY <1>1, <2>2, <3>1
  <2>3. CASE request.epoch = requested /\ request.path < requested
             /\ request' = [request EXCEPT !.path = requested] /\ UNCHANGED <<requested, requestSequence>>
    <3>1. request'.epoch = requested /\ request'.path = requested /\ request.path \in Nat
      BY <1>1, <2>3 DEF SinkSet
    <3>2. Odd(requestSequence)
      BY <1>1, <2>3, <3>1
    <3> QED
      BY <1>1, <2>3, <3>1, <3>2
  <2>4. CASE Odd(requestSequence) /\ request.path = requested
             /\ requestSequence' = requestSequence + 1 /\ UNCHANGED <<request, requested>>
    BY <1>1, <2>4, OddFlips
  <2> QED
    BY <1>2, <2>1, <2>2, <2>3, <2>4 DEF RequestNativeLogFile
<1>3. CASE ~RequestNativeLogFile
  <2>1. UNCHANGED <<request, requestSequence, requested>>
    <3>1. CASE CompleteNativeTransportStartup \/ ArmNativeTransport \/ StopNativeTransport
               \/ StopStatus \/ OwnerRecords \/ Flush
      BY <3>1 DEF CompleteNativeTransportStartup, ArmNativeTransport, StopNativeTransport,
                  StopStatus, OwnerRecords, Flush, mailbox
    <3>2. CASE Question \/ Worker
      BY <3>2, AsksOnly, WorkerAlone
    <3> QED
      BY <1>3, <3>1, <3>2 DEF QuietNext, OwnerSteps
  <2> QED
    BY <1>1, <2>1
<1> QED
  BY <1>2, <1>3

\* What the worker read under an even sequence that still stands is one request.
Taken == RequestReadUnder /\ RequestRead /\ QualifiesWhole

\* What the worker read under one even sequence stays one request, and it qualifies nothing else.
LEMMA TakenStep ==
    ASSUME QuietTyped, Mailed, Taken, QuietNext
    PROVE  Taken'
<1> USE DEF Taken, Mailed
<1>1. /\ {requestSequence, before} \subseteq Nat /\ request \in SinkSet /\ checked \in SinkSet
      /\ requestSequence' \in Nat
  BY QuietTypedStep DEF QuietTyped
<1>2. /\ requestSequence <= requestSequence'
      /\ requestSequence' = requestSequence /\ ~Odd(requestSequence) => request' = request
  BY MailedStep
<1>3. ASSUME UNCHANGED <<worker, before, checked>> PROVE Taken'
  <2>1. RequestReadUnder'
    BY <1>1, <1>2, <1>3 DEF RequestReadUnder
  <2>2. ASSUME worker \in {"readPath", "whole"}, requestSequence' = before
        PROVE  requestSequence = before /\ request' = request
    BY <1>1, <1>2, <2>2 DEF RequestReadUnder
  <2> QED
    BY <1>3, <2>1, <2>2 DEF RequestRead, QualifiesWhole
<1>4. CASE OwnerSteps \/ Flush
  BY <1>3, <1>4, OwnerAlone
<1>5. CASE Worker
  <2>1. UNCHANGED <<request, requestSequence>>
    BY <1>5, WorkerAlone
  <2>2. CASE ReadRequest
    <3>1. \/ worker' = "readEpoch" /\ before' = requestSequence /\ ~Odd(requestSequence)
          \/ worker' \in {"read", "request"}
      BY <2>2 DEF ReadRequest, Retry, Leave, WorkerGoes
    <3> QED
      BY <1>1, <2>1, <3>1 DEF RequestReadUnder, RequestRead, QualifiesWhole
  <2>3. CASE ReadEpoch
    <3>1. worker = "readEpoch" /\ worker' = "readPath" /\ before' = before
          /\ checked' = [checked EXCEPT !.epoch = request.epoch]
      BY <2>3 DEF ReadEpoch, WorkerGoes
    <3>2. checked'.epoch = request.epoch
      BY <1>1, <3>1 DEF SinkSet
    <3> QED
      BY <2>1, <3>1, <3>2 DEF RequestReadUnder, RequestRead, QualifiesWhole
  <2>4. CASE ReadPath
    <3>1. worker = "readPath" /\ worker' = "whole" /\ before' = before
          /\ checked' = [checked EXCEPT !.path = request.path]
      BY <2>4 DEF ReadPath, WorkerGoes
    <3>2. checked'.epoch = checked.epoch /\ checked'.path = request.path
      BY <1>1, <3>1 DEF SinkSet
    <3> QED
      BY <2>1, <3>1, <3>2 DEF RequestReadUnder, RequestRead, QualifiesWhole
  <2>5. CASE ReadWhole
    <3>1. CASE worker' \in {"read", "request"}
      BY <3>1 DEF RequestReadUnder, RequestRead, QualifiesWhole
    <3>2. CASE worker' \notin {"read", "request"}
      <4>1. worker = "whole" /\ requestSequence = before /\ worker' = "qualify" /\ checked' = checked
        BY <2>5, <3>2 DEF ReadWhole, Whole, Retry, Leave, WorkerGoes
      <4>2. ~Odd(requestSequence) /\ checked.epoch = request.epoch /\ checked.path = request.path
        BY <4>1 DEF RequestReadUnder, RequestRead
      <4>3. checked.path = checked.epoch
        BY <4>2 DEF RequestWhole, WrittenWhole
      <4> QED
        BY <4>1, <4>3 DEF RequestReadUnder, RequestRead, QualifiesWhole
    <3> QED
      BY <3>1, <3>2
  <2>6. CASE Unqualify
    <3>1. worker = "qualify" /\ worker' = "qualified" /\ checked' = checked
      BY <2>6 DEF Unqualify, WorkerGoes, locals
    <3> QED
      BY <3>1 DEF RequestReadUnder, RequestRead, QualifiesWhole
  <2>7. CASE ~(ReadRequest \/ ReadEpoch \/ ReadPath \/ ReadWhole \/ Unqualify)
    <3>1. worker' \notin {"readEpoch", "readPath", "whole", "qualify", "qualified"}
      <4>1. CASE EndWorker \/ FinalCycle \/ WaitFails \/ BeginCycle \/ Qualify \/ CycleReads \/ CyclePrepares
        BY <4>1 DEF EndWorker, FinalCycle, WaitFails, BeginCycle, Qualify, Leave, CycleReads,
                    CyclePrepares, WorkerGoes
      <4>2. CASE Look \/ Weigh \/ StoreOdd \/ StoreEven \/ Offer
        BY <4>2 DEF Look, Weigh, StoreOdd, StoreEven, Offer, WorkerGoes
      <4>3. CASE StoreWord
        BY <4>3, WordStored DEF WordAfter
      <4> QED
        BY <1>5, <2>7, <4>1, <4>2, <4>3 DEF Worker
    <3> QED
      BY <3>1 DEF RequestReadUnder, RequestRead, QualifiesWhole
  <2> QED
    BY <2>2, <2>3, <2>4, <2>5, <2>6, <2>7
<1> QED
  BY <1>4, <1>5 DEF QuietNext

QInvariant == /\ QuietTyped /\ Ordered /\ RestIsKept /\ Told /\ WitnessInCall
              /\ ReadUnder /\ ReadAsStored /\ LastRested /\ Mailed /\ Taken

\* At first nothing was asked, nothing was written and the sequences are even.
LEMMA QuietInitInv == QuietInit => QInvariant
<1> SUFFICES ASSUME QuietInit PROVE QInvariant
  OBVIOUS
<1> USE DEF QuietInit
<1>1. NoWords \in WordSet /\ NoSink \in SinkSet /\ Unasked \in Asking /\ ~NoWords.quiescent
  BY DEF NoWords, WordSet, NoSink, SinkSet, Unasked, Asking
<1>2. QuietTyped
  <2>1. asked \in [tries : Nat, before : Nat, words : WordSet, current : BOOLEAN]
    BY <1>1 DEF Asking
  <2>2. snapshot \in [generated : Nat, submitted : Nat] /\ owner \in OwnerPlaces /\ worker \in WorkerPlaces
    BY DEF OwnerPlaces, WorkerPlaces
  <2>3. busy \in BOOLEAN /\ available \in BOOLEAN /\ rested \in BOOLEAN
    OBVIOUS
  <2> QED
    BY <1>1, <2>1, <2>2, <2>3 DEF QuietTyped
<1>3. ~Odd(0)
  BY DEF Odd
<1>4. Ordered /\ RestIsKept
  BY DEF Ordered, RestIsKept, InCall
<1>5. Told
  BY <1>1, <1>3 DEF Told, OfferedWaits, OddWhileStored, CopyTrue, StoredInOrder, WitnessTrue, Storing
<1>6. WitnessInCall /\ ReadUnder /\ ReadAsStored /\ LastRested
  BY DEF WitnessInCall, ReadUnder, ReadAsStored, LastRested, Reading, Past
<1>7. Mailed /\ Taken
  BY DEF Mailed, RequestWhole, WrittenWhole, NoSink, Taken, RequestReadUnder, RequestRead, QualifiesWhole
<1> QED
  BY <1>2, <1>4, <1>5, <1>6, <1>7 DEF QInvariant

\* What is not written stays true.
LEMMA QuietStutters == QInvariant /\ UNCHANGED quietVars => QInvariant'
<1> SUFFICES ASSUME QInvariant, UNCHANGED quietVars PROVE QInvariant'
  OBVIOUS
<1> USE DEF quietVars, transportLife, mailbox, witness, records, own, locals, asking, QInvariant
<1>1. QuietTyped' /\ Ordered' /\ RestIsKept'
  BY DEF QuietTyped, Ordered, RestIsKept, InCall, AtRest
<1>2. Told'
  BY DEF Told, OfferedWaits, OddWhileStored, CopyTrue, StoredInOrder, WitnessTrue, Rests
<1>3. (WitnessInCall /\ ReadUnder /\ ReadAsStored /\ LastRested)'
  BY DEF WitnessInCall, ReadUnder, ReadAsStored, LastRested, Past
<1>4. (Mailed /\ Taken)'
  BY DEF Mailed, RequestWhole, WrittenWhole, Taken, RequestReadUnder, RequestRead, QualifiesWhole
<1> QED
  BY <1>1, <1>2, <1>3, <1>4

\* Every step keeps the whole invariant, conjunct by conjunct.
LEMMA QuietStep == QInvariant /\ [QuietNext]_quietVars => QInvariant'
<1>1. QInvariant /\ QuietNext => QInvariant'
  BY QuietTypedStep, OrderedStep, RestIsKeptStep, ToldStep, WitnessInCallStep, ReadUnderStep,
     ReadAsStoredStep, LastRestedStep, MailedStep, TakenStep DEF QInvariant
<1> QED
  BY <1>1, QuietStutters

\* The invariant holds in every state.
LEMMA QuietAlways == QuietSpec => []QInvariant
  BY QuietInitInv, QuietStep, PTL DEF QuietSpec

\* The yes.
LEMMA YesAtRest ==
    ASSUME QInvariant, QuietNext, owner' = "yes", owner # "yes"
    PROVE  (rested \/ AtRest) /\ prepared = ringWrite /\ observed = ringWrite /\ submitted = ringWrite
<1> USE DEF QInvariant
<1>1. Question
  BY NoQuestion DEF QuietNext
<1>2. AskLast
  BY <1>1, WordAsked DEF Question, NativeTransportQuiescent, AskAvailable, AskBefore, AskCompare,
     AskAfter, OwnerActs, Answers, Again, Then, WordAfter
<1>3. rested /\ observed = ringWrite
  BY <1>2 DEF AskLast, LastRested, RestIsKept
<1>4. {ringWrite, submitted, prepared, observed} \subseteq Nat
  BY DEF QuietTyped
<1> QED
  BY <1>3, <1>4 DEF Ordered

\* NativeTransportQuiescent answers yes only if nothing was in motion at a moment of that very
\* call, and a log file is qualified for one whole request only, for any number of records,
\* cycles, requests and retries.
THEOREM QuietMeansRest == QuietSpec => QuietIsQuiet
<1>1. QInvariant /\ [QuietNext]_quietVars =>
        [owner' = "yes" /\ owner # "yes" =>
           (rested \/ AtRest) /\ prepared = ringWrite /\ observed = ringWrite /\ submitted = ringWrite]_quietVars
  BY YesAtRest
<1>2. QInvariant => QualifiesWhole
  BY DEF QInvariant, Taken
<1>3. QuietSpec => AnsweredAtRest
  BY <1>1, QuietAlways, PTL DEF QuietSpec, AnsweredAtRest
<1>4. QuietSpec => []QualifiesWhole
  BY <1>2, QuietAlways, PTL
<1> QED
  BY <1>3, <1>4 DEF QuietIsQuiet
=============================================================================
