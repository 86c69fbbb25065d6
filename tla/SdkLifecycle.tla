---------------------------- MODULE SdkLifecycle -----------------------------
(***************************************************************************)
(* When the reporting runtime may trust the Steam SDK.  The game's calls of*)
(* the SDK's Init and Shutdown, from whatever thread, go through the       *)
(* observer, which counts them in one word and calls the runtime around    *)
(* them.  The runtime supports one lifecycle only: the first Init, on its  *)
(* owner thread, successful, finished, with a qualified client and nothing *)
(* else entered before, meanwhile or since.  SafeOwner and RuntimeAdmission*)
(* say so to everything that touches the game's objects.                   *)
(*                                                                         *)
(* The observer's gate is armed.  The owner is in at most one such call.   *)
(***************************************************************************)
EXTENDS Naturals

CONSTANTS
    Threads, OwnerThread, \* the game's threads; ownerThreadId
    Top,            \* a half of the lifecycle word is full (2^32 - 1)
    MaxCalls        \* bound on a thread's calls

ASSUME LifecycleAssumption == OwnerThread \in Threads /\ Top \in Nat \ {0} /\ MaxCalls \in Nat

VARIABLES
    life,           \* lifecycle: calls entered, calls active
    unknown,        \* unknownLifecycle: a call could not be counted
    revoked,        \* revokeReasons
    stopping,       \* the status word of a shutdown
    sdk,            \* the owner's view: initCalls, initialLifecycle, clientQualified, sdkReady, idleLifecycle
    calls,          \* per thread, its call
    made,           \* per thread, calls so far
    forwarded,      \* history: calls that go to the SDK
    initOk          \* history: the owner's Init answered TRUE

vars == <<life, unknown, revoked, stopping, sdk, calls, made, forwarded, initOk>>

Word(entered, active) == [entered |-> entered, active |-> active]
Initial == Word(1, 1)      \* kInitialLifecycle
Idle    == Word(1, 0)      \* kInitialLifecycle-1

Out == [at |-> "out", kind |-> "Init", owned |-> FALSE, normal |-> FALSE, result |-> FALSE, word |-> Word(0, 0)]

Init ==
    /\ life = Word(0, 0) /\ unknown = FALSE /\ revoked = FALSE /\ stopping = FALSE
    /\ sdk = [initCalls |-> 0, initial |-> Word(0, 0), qualified |-> FALSE, ready |-> FALSE, idle |-> Word(0, 0)]
    /\ calls = [t \in Threads |-> Out] /\ made = [t \in Threads |-> 0]
    /\ forwarded = 0 /\ initOk = FALSE

At(t, kind, place) == calls[t].kind = kind /\ calls[t].at = place
Goes(t, place) == calls' = [calls EXCEPT ![t].at = place]

\* SafeOwner, asked by the owner thread.
Safe == sdk.ready /\ ~stopping /\ ~unknown /\ life = sdk.idle

\* RuntimeAdmission
Admits == sdk.ready /\ ~stopping /\ ~revoked /\ ~unknown /\ life = sdk.idle

------------------------------------------------------------------------------
(* Any thread: the observer's wrappers                                      *)

Begins(t, kind, place) ==
    /\ calls[t].at = "out" /\ made[t] < MaxCalls
    /\ made' = [made EXCEPT ![t] = @ + 1]
    /\ calls' = [calls EXCEPT ![t] = [Out EXCEPT !.kind = kind, !.at = place]]

InitEntry(t) ==
    /\ Begins(t, "Init", "enter")
    /\ UNCHANGED <<life, unknown, revoked, stopping, sdk, forwarded, initOk>>

\* ShutdownEntered precedes the counting: the status stops first.
ShutdownEntry(t) ==
    /\ Begins(t, "Shutdown", "revoke")
    /\ stopping' = TRUE
    /\ UNCHANGED <<life, unknown, revoked, sdk, forwarded, initOk>>

ShutdownEntered(t) ==
    /\ At(t, "Shutdown", "revoke") /\ Goes(t, "enter")
    /\ IF t = OwnerThread THEN sdk' = [sdk EXCEPT !.ready = FALSE] /\ UNCHANGED revoked
                    ELSE revoked' = TRUE /\ UNCHANGED sdk
    /\ UNCHANGED <<life, unknown, stopping, made, forwarded, initOk>>

Counts == life.entered < Top /\ life.active < Top

\* One compare-and-swap counts the call; a full half marks the word unknown.
LifecycleEnter(t) ==
    /\ calls[t].at = "enter"
    /\ life' = IF Counts THEN Word(life.entered + 1, life.active + 1) ELSE life
    /\ unknown' = (unknown \/ ~Counts)
    /\ calls' = [calls EXCEPT ![t].owned = Counts,
                              ![t].at = IF calls[t].kind = "Init" THEN "tellEntered" ELSE "sdk"]
    /\ forwarded' = forwarded + 1
    /\ UNCHANGED <<revoked, stopping, sdk, made, initOk>>

\* The word a notification of the runtime carries is read before it.
Reads(t, from, to) ==
    /\ At(t, "Init", from)
    /\ calls' = [calls EXCEPT ![t].at = to, ![t].word = life]
    /\ UNCHANGED <<life, unknown, revoked, stopping, sdk, made, forwarded, initOk>>

ReadsWord(t) == \/ Reads(t, "tellEntered", "entered")
                \/ Reads(t, "tellReturned", "returned")
                \/ Reads(t, "tellFinished", "finished")

\* The SDK answers, or throws.
SdkReturns(t) ==
    \E normal, result \in BOOLEAN :
        /\ calls[t].at = "sdk" /\ (result => normal /\ calls[t].kind = "Init")
        /\ calls' = [calls EXCEPT ![t].normal = normal, ![t].result = result,
              ![t].at = IF normal /\ calls[t].kind = "Init" THEN "tellReturned" ELSE "leave"]
        /\ initOk' = (initOk \/ (t = OwnerThread /\ result))
        /\ UNCHANGED <<life, unknown, revoked, stopping, sdk, made, forwarded>>

\* LifecycleCleanup
LifecycleLeave(t) ==
    /\ calls[t].at = "leave"
    /\ life' = IF calls[t].owned /\ life.active > 0 THEN Word(life.entered, life.active - 1) ELSE life
    /\ unknown' = (unknown \/ (calls[t].owned /\ life.active = 0))
    /\ Goes(t, IF calls[t].kind = "Init" THEN "tellFinished" ELSE "out")
    /\ UNCHANGED <<revoked, stopping, sdk, made, forwarded, initOk>>

------------------------------------------------------------------------------
(* The runtime's side of an Init.  On another thread than the owner's it    *)
(* only revokes.                                                            *)

ForeignInit(t) ==
    \E place \in {"entered", "returned", "finished"} :
        /\ t # OwnerThread /\ At(t, "Init", place)
        /\ revoked' = TRUE
        /\ Goes(t, CASE place = "entered" -> "sdk" [] place = "returned" -> "leave" [] place = "finished" -> "out")
        /\ UNCHANGED <<life, unknown, stopping, sdk, made, forwarded, initOk>>

Own(place, to) == At(OwnerThread, "Init", place) /\ Goes(OwnerThread, to) /\ UNCHANGED <<life, unknown, stopping, made, forwarded, initOk>>
Seen == calls[OwnerThread].word

InitEntered ==
    LET first == sdk.initCalls = 0 /\ calls[OwnerThread].owned /\ Seen = Initial /\ ~unknown IN
    /\ Own("entered", "sdk")
    /\ revoked' = (revoked \/ ~first)
    /\ sdk' = [sdk EXCEPT !.initCalls = @ + 1, !.initial = IF first THEN Seen ELSE @]

\* The answer is good, nothing revoked and nothing else was entered: the
\* client's image is qualified, which takes its time and may fail.
Undisturbed == calls[OwnerThread].owned /\ sdk.initCalls = 1 /\ Seen = sdk.initial /\ Seen = Initial /\ ~unknown
InitReturned ==
    \/ /\ Own("returned", "leave")
       /\ revoked' = (revoked \/ ~calls[OwnerThread].result \/ ~Undisturbed) /\ UNCHANGED sdk
       /\ ~calls[OwnerThread].result \/ revoked \/ stopping \/ ~Undisturbed
    \/ /\ Own("returned", "qualified") /\ UNCHANGED <<revoked, sdk>>
       /\ calls[OwnerThread].result /\ ~revoked /\ ~stopping /\ Undisturbed

QualifyClient ==
    \E matches \in BOOLEAN :
        LET still == matches /\ life = Seen /\ ~unknown /\ ~revoked /\ ~stopping IN
        /\ Own("qualified", "leave")
        /\ revoked' = (revoked \/ ~still)
        /\ sdk' = [sdk EXCEPT !.qualified = @ \/ still]

\* A bad answer revokes, and what is revoked ends here.
InitFinished ==
    LET bad == revoked \/ stopping \/ ~calls[OwnerThread].result IN
    /\ Own("finished", IF bad THEN "out" ELSE "commit")
    /\ revoked' = (revoked \/ ~calls[OwnerThread].result) /\ UNCHANGED sdk

\* Mutant: the idle word is whatever the Init left.
IdleAsLeft == sdk.qualified /\ sdk.initCalls = 1 /\ ~unknown

\* The word after the Init says that nothing else was entered before it ended.
IdleAsExpected == sdk.qualified /\ sdk.initCalls = 1 /\ Seen = Idle /\ ~unknown

\* Between the check of the revocation and this one others may have acted.
Commit ==
    /\ Own("commit", "out")
    /\ revoked' = (revoked \/ ~IdleAsExpected)
    /\ sdk' = IF IdleAsExpected THEN [sdk EXCEPT !.ready = TRUE, !.idle = Seen] ELSE sdk

\* RuntimeAdmission, asked in a wrapper outside these calls: a crossing revokes.
Crossing ==
    /\ calls[OwnerThread].at = "out" /\ sdk.ready /\ ~revoked /\ ~stopping
    /\ unknown \/ life # sdk.idle
    /\ revoked' = TRUE
    /\ UNCHANGED <<life, unknown, stopping, sdk, calls, made, forwarded, initOk>>

Next ==
    \/ \E t \in Threads :
        \/ InitEntry(t) \/ ShutdownEntry(t) \/ ShutdownEntered(t) \/ LifecycleEnter(t)
        \/ ReadsWord(t) \/ SdkReturns(t) \/ LifecycleLeave(t) \/ ForeignInit(t)
    \/ InitEntered \/ InitReturned \/ QualifyClient \/ InitFinished \/ Commit \/ Crossing

Spec == Init /\ [][Next]_vars

------------------------------------------------------------------------------
Lives == [entered: Nat, active: Nat]
Places == {"out", "enter", "revoke", "tellEntered", "entered", "sdk", "tellReturned", "returned",
           "qualified", "leave", "tellFinished", "finished", "commit"}

Calls == [at: Places, kind: {"Init", "Shutdown"}, owned: BOOLEAN, normal: BOOLEAN, result: BOOLEAN, word: Lives]
Sdks == [initCalls: Nat, initial: Lives, qualified: BOOLEAN, ready: BOOLEAN, idle: Lives]

TypeOK ==
    /\ life \in Lives /\ forwarded \in Nat /\ made \in [Threads -> Nat]
    /\ unknown \in BOOLEAN /\ revoked \in BOOLEAN /\ stopping \in BOOLEAN /\ initOk \in BOOLEAN
    /\ sdk \in Sdks /\ calls \in [Threads -> Calls]

\* Whenever the owner is told that the SDK is safe, one lifecycle call was
\* ever forwarded: its own Init, which succeeded.  A call of another thread,
\* at any moment of that Init or later, ends it before it reaches the SDK.
OneInit == Safe \/ Admits => forwarded = 1 /\ initOk /\ sdk.qualified

==============================================================================
