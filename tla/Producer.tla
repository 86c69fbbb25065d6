------------------------------ MODULE Producer ------------------------------
(***************************************************************************)
(* The repair of the player counts.  The runtime asks the game's producer  *)
(* to compute its counts once more (it stores a bot count and a request    *)
(* flag), watches the flag from pump to pump until the game has consumed   *)
(* the request, and only then, and only for a while, lets the builder of   *)
(* the next report write everything anew.  Nobody tells it that the game   *)
(* has computed: it infers it from the flag, a timer and the counts.       *)
(*                                                                         *)
(* The game runs beside it: it computes, travels (to a source of another   *)
(* identity), asks for itself, resets its timer, loses a request.          *)
(***************************************************************************)
EXTENDS Naturals

CONSTANTS
    Freshness, Floor,      \* seconds a witness lasts (45), between requests (20)
    MaxTime, MaxEpoch,     \* bounds on time and on the epochs
    MaxRequests            \* the largest request number (UINT64_MAX)

\* Times and request numbers are unsigned.
ASSUME ProducerAssumption == Freshness \in Nat /\ Floor \in Nat /\ MaxRequests \in Nat

VARIABLES
    time,
    sourceLife, outer, box, flag, timer, worldBots,  \* the game's current source
    p,                                     \* ProducerState
    sourceReady, source, sourceEpoch,      \* Runtime: source (the life it was read in)
    read,                                  \* what was read of it inside the owner's call
    bindingEpoch, armed, boundEpoch,       \* Runtime: task binding
    running, resumeWait,                   \* Runtime: transport
    place,                                 \* the owner thread
    computed,      \* history: where and when the game computed last
    stagedIn,      \* history: per request waited for or witnessed, what it was staged in
    disturbed      \* the game misled us once since the last sample

game  == <<sourceLife, outer, box, flag, timer, worldBots, computed, disturbed>>
bound == <<sourceReady, source, sourceEpoch, read, bindingEpoch, armed, boundEpoch>>
producerVars == <<time, game, p, bound, running, resumeWait, place, stagedIn>>

Numbers == 0..1
NoPending == [active |-> FALSE, seq |-> 0, at |-> 0, bots |-> 0,
              set |-> FALSE, setAt |-> 0, timer |-> 0]
NoFresh == [valid |-> FALSE, counts |-> 0, witness |-> 0, request |-> 0, lower |-> 0]
Nothing == [outer |-> 0, bots |-> 0]
NotComputed == [life |-> 0, at |-> 0]
NoEpoch == [source |-> 0, binding |-> 0]
NotStaged == [epoch |-> NoEpoch, life |-> 0]

ProducerInit ==
    /\ time = 0 /\ sourceLife = 1 /\ outer = 0 /\ box = 0 /\ flag = FALSE /\ timer = 0
    /\ worldBots = 0
    /\ p = [fault |-> FALSE, ready |-> FALSE, epoch |-> NoEpoch, requested |-> FALSE,
            lastRequest |-> 0, requests |-> 0, witnesses |-> 0,
            pending |-> NoPending, fresh |-> NoFresh]
    /\ sourceReady = FALSE /\ source = 0 /\ sourceEpoch = 0 /\ read = Nothing
    /\ bindingEpoch = 0 /\ armed = FALSE /\ boundEpoch = NoEpoch
    /\ running = TRUE /\ resumeWait = FALSE /\ place = "idle"
    /\ computed = NotComputed /\ disturbed = FALSE
    /\ stagedIn = [r \in 1..MaxRequests |-> NotStaged]
-----------------------------------------------------------------------------
(* The game.                                                               *)

Runtime == <<p, bound, running, resumeWait, place>>

Tick ==
    /\ time < MaxTime /\ time' = time + 1 /\ timer' = IF timer < 1 THEN timer + 1 ELSE timer
    /\ UNCHANGED <<sourceLife, outer, box, flag, worldBots, computed, disturbed>> /\ UNCHANGED Runtime
Consume ==
    /\ flag /\ flag' = FALSE /\ timer' = 0 /\ outer' = box /\ box' = 0
    /\ computed' = [life |-> sourceLife, at |-> time]
    /\ UNCHANGED <<time, sourceLife, worldBots, disturbed>> /\ UNCHANGED Runtime
PlayersChange ==
    /\ worldBots' \in Numbers \ {worldBots}
    /\ UNCHANGED <<time, sourceLife, outer, box, flag, timer, computed, disturbed>> /\ UNCHANGED Runtime
AskItself ==
    /\ ~flag /\ flag' = TRUE /\ box' = worldBots
    /\ UNCHANGED <<time, sourceLife, outer, timer, worldBots, computed, disturbed>> /\ UNCHANGED Runtime
Travel ==
    /\ sourceLife < MaxEpoch /\ sourceLife' = sourceLife + 1
    /\ outer' \in {outer, 0} /\ flag' = FALSE /\ timer' = 0 /\ box' = 0
    /\ computed' = NotComputed
    /\ UNCHANGED <<time, worldBots, disturbed>> /\ UNCHANGED Runtime
\* Either would not be told from half a computation; not both between two samples.
LoseRequest ==
    /\ flag /\ ~disturbed /\ disturbed' = TRUE /\ flag' = FALSE /\ box' = 0
    /\ UNCHANGED <<time, sourceLife, outer, timer, worldBots, computed>> /\ UNCHANGED Runtime
ResetTimer ==
    /\ timer > 0 /\ ~disturbed /\ disturbed' = TRUE /\ timer' = 0
    /\ UNCHANGED <<time, sourceLife, outer, box, flag, worldBots, computed>> /\ UNCHANGED Runtime
\* Until the builder has returned nothing of the game is read.
Game == /\ place \notin {"selected", "revoked"}
        /\ Tick \/ Consume \/ PlayersChange \/ AskItself \/ Travel \/ LoseRequest \/ ResetTimer
-----------------------------------------------------------------------------
(* ProducerState: what each function makes of it.                          *)

Invalidated(s) == [s EXCEPT !.pending = NoPending, !.fresh = NoFresh, !.ready = FALSE]
Faulted(s) == [s EXCEPT !.fault = TRUE, !.pending = NoPending, !.fresh = NoFresh]

SetEpoch(s, e) ==
    IF s.fault THEN s
    ELSE [(IF e = s.epoch THEN s ELSE Invalidated(s)) EXCEPT !.epoch = e, !.ready = TRUE]

Expired(s) == IF s.pending.active /\ time - s.pending.at >= Freshness
              THEN [s EXCEPT !.pending = NoPending] ELSE s

FloorKept(s) == s.requested => time - s.lastRequest >= Floor
CanStage(s) == ~s.fault /\ s.ready /\ ~Expired(s).pending.active /\ FloorKept(s)
Staged(s) ==
    [s EXCEPT !.requested = TRUE, !.lastRequest = time, !.requests = @ + 1,
       !.pending = [NoPending EXCEPT !.active = TRUE, !.seq = s.requests + 1, !.at = time,
                                     !.bots = worldBots]]

\* A request seen set, or consumed, or gone: the claim ends with the flag.
GoneKeeps(s) == s                                                \* mutant
Gone(s) == [s EXCEPT !.pending = NoPending, !.fresh = NoFresh]
\* `plain': nothing else of the sample refuses it: its counts are not dirty, the
\* maximum is the request's, the other counts are in range.
Consumed(s, plain) ==
    /\ s.pending.set /\ timer < s.pending.timer /\ plain
    /\ s.pending.bots = outer /\ s.pending.bots = worldBots
Observed(old, plain) ==
    LET s == Expired(old) IN
    IF s.fault \/ ~s.pending.active THEN s
    ELSE IF flag
    THEN [s EXCEPT !.pending.set = TRUE, !.pending.setAt = time, !.pending.timer = timer]
    ELSE IF ~Consumed(s, plain) THEN Gone(s)
    ELSE IF s.witnesses = MaxRequests THEN Faulted(s)
    ELSE [s EXCEPT !.pending = NoPending, !.witnesses = @ + 1,
            !.fresh = [valid |-> TRUE, counts |-> outer, witness |-> s.witnesses + 1,
                       request |-> s.pending.seq, lower |-> s.pending.setAt]]

Stale(s) == time - s.fresh.lower > Freshness
Readable(s, counts, bots) ==
    ~s.fault /\ s.fresh.valid /\ ~Stale(s) /\ counts = s.fresh.counts /\ bots = s.fresh.counts
Forgotten(s) == IF s.fresh.valid /\ Stale(s) THEN [s EXCEPT !.fresh = NoFresh] ELSE s
-----------------------------------------------------------------------------
(* Runtime: source, binding and pump.                                      *)

Snapshot == [outer |-> outer, bots |-> worldBots]
Placed(x) == place = x
To(x) == place' = x

\* Retire inside: an executing task may keep its wrapper, and its old epoch.
InvalidateSource ==
    /\ sourceReady' = FALSE /\ armed' \in {FALSE, armed} /\ To("idle")
    /\ source' = 0 /\ read' = Nothing
    /\ boundEpoch' = IF armed' THEN boundEpoch ELSE NoEpoch
    /\ UNCHANGED <<sourceEpoch, bindingEpoch>>
Travelled == sourceReady /\ source # sourceLife
Obtained == IF Travelled THEN Invalidated(p) ELSE p
NewEpoch == IF sourceReady /\ ~Travelled THEN sourceEpoch ELSE sourceEpoch + 1
ObtainSource ==
    /\ sourceReady' = TRUE /\ source' = sourceLife /\ sourceEpoch' = NewEpoch /\ NewEpoch <= MaxEpoch

\* Bind: the armed task is kept for its source, or another one takes its place.
Keeps == armed /\ boundEpoch = [source |-> NewEpoch, binding |-> bindingEpoch]
BindKeeps == Keeps /\ UNCHANGED <<bindingEpoch, armed, boundEpoch>>
BindAnew ==
    /\ bindingEpoch < MaxEpoch /\ bindingEpoch' = bindingEpoch + 1
    /\ armed' = TRUE /\ boundEpoch' = [source |-> NewEpoch, binding |-> bindingEpoch']
\* An armed task of another source takes the producer's claims with it; what
\* cannot be retired yet stays armed, and no other is tried.
BindFails ==
    /\ p' = (IF armed THEN Invalidated(p) ELSE Obtained) /\ armed' \in {FALSE, armed}
    /\ \/ bindingEpoch' = bindingEpoch
       \/ ~armed' /\ bindingEpoch < MaxEpoch /\ bindingEpoch' = bindingEpoch + 1
    /\ boundEpoch' = (IF armed' THEN boundEpoch ELSE NoEpoch)
    /\ UNCHANGED <<disturbed, resumeWait, place, read>>

UpdateProducer(s) ==
    IF resumeWait /\ flag
    THEN p' = s /\ UNCHANGED <<disturbed, resumeWait, place, read>>
    ELSE \E plain \in BOOLEAN :
         LET seen == Observed(s, plain)
             full == CanStage(seen) /\ seen.requests = MaxRequests IN
         /\ resumeWait' = FALSE /\ disturbed' = FALSE
         /\ p' = IF full THEN Faulted(seen) ELSE Expired(seen)
         /\ IF CanStage(seen) /\ ~full
            THEN To("staging") /\ read' = Snapshot
            ELSE UNCHANGED <<place, read>>

ManagePump ==
    /\ Placed("idle") /\ running
    /\ UNCHANGED <<time, sourceLife, outer, box, flag, timer, worldBots, computed, running>>
    /\ \/ /\ InvalidateSource /\ p' = Invalidated(p)             \* unreadable
          /\ UNCHANGED <<disturbed, resumeWait>>
       \/ /\ ObtainSource
          /\ \/ (BindKeeps \/ BindAnew) /\ UpdateProducer(SetEpoch(Obtained, boundEpoch'))
             \/ BindFails

\* All is read again before the two stores, and again after them.
SourceHolds == source = sourceLife /\ read.bots = worldBots
StageRequest ==
    /\ Placed("staging")
    /\ UNCHANGED <<time, sourceLife, outer, timer, worldBots, computed, disturbed, running, resumeWait>>
    /\ \/ /\ SourceHolds /\ CanStage(p)
          /\ p' = Staged(Expired(p)) /\ box' = worldBots /\ flag' = TRUE /\ To("readback")
          /\ UNCHANGED bound
       \/ InvalidateSource /\ p' = Invalidated(p) /\ UNCHANGED <<box, flag>>
ReadBack ==
    /\ Placed("readback")
    /\ UNCHANGED <<time, sourceLife, outer, box, flag, timer, worldBots, computed, running, resumeWait>>
    /\ \/ /\ SourceHolds
          /\ \E plain \in BOOLEAN : p' = Observed(p, plain)
          /\ disturbed' = FALSE /\ read' = Nothing /\ To("idle")
          /\ UNCHANGED <<sourceReady, source, sourceEpoch, bindingEpoch, armed, boundEpoch>>
       \/ InvalidateSource /\ p' = Invalidated(p) /\ UNCHANGED disturbed

Pause ==
    /\ Placed("idle") /\ running /\ running' = FALSE
    /\ p' = Invalidated(p) /\ resumeWait' = TRUE
    /\ UNCHANGED <<time, game, bound, place>>
Resume ==
    /\ Placed("idle") /\ ~running
    /\ UNCHANGED <<time, game, resumeWait>>
    /\ \/ InvalidateSource /\ p' = Invalidated(p) /\ UNCHANGED running
       \/ /\ ~Travelled /\ running' = TRUE /\ armed' = (armed /\ sourceReady)
          /\ boundEpoch' = (IF armed' THEN boundEpoch ELSE NoEpoch)
          /\ UNCHANGED <<p, sourceReady, source, sourceEpoch, read, bindingEpoch, place>>
-----------------------------------------------------------------------------
(* PrepareBuilder, the final selection, FinishBuilder.                     *)

PrepareBuilder ==
    /\ Placed("idle") /\ running /\ armed
    /\ UNCHANGED <<time, game, running, resumeWait>>
    /\ \/ InvalidateSource /\ p' = Invalidated(p)
       \/ /\ ObtainSource /\ armed' \in {armed, armed /\ ~Travelled}
          /\ boundEpoch' = (IF armed' THEN boundEpoch ELSE NoEpoch)
          /\ p' = Forgotten(Obtained) /\ UNCHANGED bindingEpoch
          /\ \/ /\ armed' /\ Keeps /\ Readable(p', outer, worldBots)
                /\ To("final") /\ read' = Snapshot
             \/ UNCHANGED <<place, read>>     \* also when the prepared record is not in order

\* All is read again, and the witness must still be the one of the record.
SameAgain == source = sourceLife /\ read = Snapshot
FinalSelection ==
    /\ Placed("final") /\ UNCHANGED <<time, game, running, resumeWait>>
    /\ \/ ~SameAgain /\ InvalidateSource /\ p' = Invalidated(p)
       \/ /\ SameAgain /\ p' = Forgotten(p) /\ read' = Nothing
          /\ UNCHANGED <<sourceReady, source, sourceEpoch, bindingEpoch, armed, boundEpoch>>
          /\ To(IF Readable(p, outer, worldBots) THEN "selected" ELSE "idle")
\* Everything was written anew by the original, or it unwound: revoked.
FinishBuilder ==
    /\ Placed("selected") /\ To("idle")
    /\ UNCHANGED <<time, game, p, bound, running, resumeWait>>
Revoke ==
    /\ Placed("selected") /\ To("revoked") /\ p' = Invalidated(p) /\ sourceReady' = FALSE
    /\ UNCHANGED <<time, game, source, sourceEpoch, read, bindingEpoch, armed, boundEpoch, running,
                   resumeWait>>

Owner == ManagePump \/ StageRequest \/ ReadBack \/ Pause \/ Resume \/ PrepareBuilder \/ FinalSelection
         \/ FinishBuilder \/ Revoke
Watch ==
    stagedIn' = [r \in 1..MaxRequests |->
        IF r \notin {p'.pending.seq, p'.fresh.request} THEN NotStaged
        ELSE IF r > p.requests THEN [epoch |-> p.epoch, life |-> sourceLife] ELSE stagedIn[r]]
ProducerNext == (Game \/ Owner) /\ Watch
ProducerSpec == ProducerInit /\ [][ProducerNext]_producerVars
-----------------------------------------------------------------------------
(* Properties.                                                             *)

\* At the moment a builder call is selected, the game has computed the counts it
\* is about to write, in this source, after our request was last seen waiting and
\* no longer ago than a witness lasts, and the request was made in this source
\* and for this binding.
FreshWhenSelected ==
    [][Placed("final") /\ To("selected") =>
        /\ computed.life = sourceLife /\ computed.at >= p.fresh.lower
        /\ time - computed.at <= Freshness
        /\ outer = p.fresh.counts /\ worldBots = p.fresh.counts
        /\ stagedIn[p.fresh.request] = [epoch |-> [source |-> sourceEpoch, binding |-> bindingEpoch],
                                        life |-> sourceLife]]_producerVars

\* Requests keep their distance through travel, rebinding and pauses.
RequestsSpaced ==
    [][p'.requests > p.requests => p.requests = 0 \/ time - p.lastRequest >= Floor]_producerVars

\* What is selected is fresh, and what is asked for is not asked too often.
SelectsFresh == FreshWhenSelected /\ RequestsSpaced
=============================================================================
