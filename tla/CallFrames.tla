----------------------------- MODULE CallFrames ------------------------------
(***************************************************************************)
(* The frames of the two resident wrappers, PumpEntry and BuilderEntry,    *)
(* and what the owner thread measures in them: the time spent in the       *)
(* companion's own code, outside the original function it forwards to.     *)
(* The original may enter a wrapper again, so frames nest, and an exception*)
(* may unwind a frame at any depth.  A frame that ends stages its own time *)
(* in the one pending slot; the next entry or publication accounts it.     *)
(*                                                                         *)
(* One owner step is one stretch of own code: from the entry to the call   *)
(* of the original, or from its return to the end of the wrapper.  Own     *)
(* code is not re-entered.  Whether a read of the performance counter      *)
(* fails is a choice of the step; the counter does not run backwards.      *)
(***************************************************************************)
EXTENDS Integers, Sequences

CONSTANTS
    DepthLimit,   \* where a depth counter is full (2^32 - 1)
    MaxCalls,     \* where a class's call counter is full (2^64 - 1)
    MaxTicks,     \* where a class's tick counter is full (2^64 - 1)
    MaxFrames,    \* bound on the owner's nested frames
    MaxTime       \* bound on the performance counter

ASSUME FrameAssumption == {DepthLimit, MaxCalls, MaxTicks, MaxFrames, MaxTime} \subseteq Nat

VARIABLES
    stack,        \* the owner's frames, the innermost last
    now,          \* the performance counter
    depth,        \* pumpDepth and builderDepth; timingDepth is their sum
    timing,       \* the runtime's measurement, a record (see Timing)
    revoked,      \* the status word is revoked
    spent         \* history: own time of all frames that ended

frameVars == <<stack, now, depth, timing, revoked, spent>>

Kinds   == {"pump", "builder"}
Classes == {"PumpForward", "PumpManagement", "BuilderForward", "BuilderProbe"}
ClassesOf(kind) == IF kind = "pump" THEN {"PumpForward", "PumpManagement"}
                                    ELSE {"BuilderForward", "BuilderProbe"}

\* `start' and `nativeStart' are what the frame read of the counter; `own' is
\* history: the ticks of own code that really passed in it.
Frame    == [kind: Kinds, topLevel: BOOLEAN, depthOwned: BOOLEAN, start: Nat, nativeStart: Nat, own: Nat]
Interval == [class: Classes, ticks: Nat, entry: Nat, topLevel: BOOLEAN]
Timing   == [gap: BOOLEAN,                                         \* timingGap
             pending: {<<>>} \cup {<<i>> : i \in Interval},         \* pendingDuration
             calls: [Classes -> 0..MaxCalls], ticks: [Classes -> 0..MaxTicks],
             watermark: Nat]                                        \* timingAccountedThroughQpc

FramesInit ==
    /\ stack = <<>> /\ now = 0 /\ spent = 0
    /\ depth = [k \in Kinds |-> 0]
    /\ timing = [gap |-> FALSE, pending |-> <<>>, watermark |-> 0,
                 calls |-> [c \in Classes |-> 0], ticks |-> [c \in Classes |-> 0]]
    /\ revoked = FALSE

TimingDepth == depth["pump"] + depth["builder"]
Innermost == stack[Len(stack)]

------------------------------------------------------------------------------
(* Accounting: pure steps of the measurement                                *)

\* FailRuntimeTiming on the owner thread; the caller also revokes.
Fail(t) == [t EXCEPT !.gap = TRUE]

\* A class's counters have room for interval `i'.
Room(t, i) == t.calls[i.class] < MaxCalls /\ t.ticks[i.class] + i.ticks <= MaxTicks

\* A top-level interval never moves the watermark back.
InOrder(t, i) == i.topLevel => i.entry >= t.watermark

\* Counters and watermark are committed together.
Accounted(t, i) ==
    [gap |-> t.gap, pending |-> <<>>,
     calls |-> [t.calls EXCEPT ![i.class] = @ + 1], ticks |-> [t.ticks EXCEPT ![i.class] = @ + i.ticks],
     watermark |-> IF i.topLevel THEN i.entry ELSE t.watermark]

\* A refused interval stays pending behind the gap.
ConsumeRuntimeDuration(t) ==
    IF t.gap \/ t.pending = <<>> THEN t
    ELSE IF InOrder(t, t.pending[1]) /\ Room(t, t.pending[1]) THEN Accounted(t, t.pending[1])
    ELSE Fail(t)

\* The slot holds one interval; a second one is a failure, not a replacement.
StageRuntimeDuration(t, i) ==
    IF t.gap THEN t
    ELSE IF t.pending = <<>> /\ InOrder(t, i) /\ Room(t, i) THEN [t EXCEPT !.pending = <<i>>]
    ELSE Fail(t)

------------------------------------------------------------------------------
(* The wrappers                                                             *)

\* A step that latches the gap revokes in the same breath.
Measures(t) == timing' = t /\ revoked' = (revoked \/ (t.gap /\ ~timing.gap))

Full == TimingDepth = DepthLimit

\* Begin: no measured frame is open.
TopLevel == TimingDepth = 0

Pushed(kind, work) ==
    [kind |-> kind, topLevel |-> ~Full /\ TopLevel, depthOwned |-> ~Full,
     start |-> now, nativeStart |-> now + work, own |-> work]

\* Which read of the performance counter fails in a step: one before the
\* pending interval is consumed, one after it, or none.
Clocks == {"none", "early", "late"}
Read(clock, t) == IF clock = "late" THEN Fail(t) ELSE t

\* An entry on the owner thread: Begin, ConsumeRuntimeDuration, own work
\* (BeforeBuilder, FinalSelection, a store that faults), and the original is
\* called.  A full depth or a failed clock costs the measurement, an entry
\* inside a frame of the same kind is a reentry: both revoke, none is refused.
Enter(kind) ==
    \E work \in 0..1, clock \in Clocks :
        /\ Len(stack) < MaxFrames /\ now + work <= MaxTime
        /\ now' = now + work
        /\ stack' = Append(stack, Pushed(kind, work))
        /\ depth' = IF Full THEN depth ELSE [depth EXCEPT ![kind] = @ + 1]
        /\ timing' = IF Full \/ clock = "early" THEN Fail(timing)
                     ELSE Read(clock, ConsumeRuntimeDuration(timing))
        /\ revoked' = (revoked \/ timing'.gap \/ depth'[kind] # 1)
        /\ UNCHANGED spent

\* Mutant: the original's time is taken out only when it returned.
NativeTicksIfReturned(frame, nativeEnd, returned) ==
    IF returned THEN nativeEnd - frame.nativeStart ELSE 0

\* What the original took; its end is read on an unwind as well.
NativeTicks(frame, nativeEnd, returned) == nativeEnd - frame.nativeStart

\* The end of a frame, after `native' ticks in its original, the frames nested
\* in it not counted.  An unwinding frame ends like a returning one, but revokes.
\* End's first clock read precedes the publication, which consumes, and its
\* second one the staging: own time runs up to the second.
Leave ==
  /\ stack # <<>>
  /\ \E native \in 0..1, work \in 0..1, class \in ClassesOf(Innermost.kind),
       returned \in BOOLEAN, clock \in Clocks :
        LET nativeEnd == now + native
            end == nativeEnd + work
            ticks == (end - Innermost.start) - NativeTicks(Innermost, nativeEnd, returned)
            interval == [class |-> class, ticks |-> ticks, entry |-> Innermost.start, topLevel |-> Innermost.topLevel]
            published == ConsumeRuntimeDuration(timing) IN
        /\ end <= MaxTime
        /\ now' = end
        /\ stack' = SubSeq(stack, 1, Len(stack) - 1)
        /\ depth' = IF Innermost.depthOwned THEN [depth EXCEPT ![Innermost.kind] = @ - 1] ELSE depth
        /\ timing' = CASE clock = "early" -> Fail(timing)
                       [] clock = "late"  -> Fail(published)
                       [] clock = "none"  -> StageRuntimeDuration(published, interval)
        /\ revoked' = (revoked \/ timing'.gap \/ ~returned)
        /\ spent' = spent + (Innermost.own + work)

\* The SDK is shut down, in an original or outside: ShutdownEntered publishes.
Shutdown ==
    /\ Measures(ConsumeRuntimeDuration(timing))
    /\ timing' # timing
    /\ UNCHANGED <<stack, now, depth, spent>>

\* A wrapper entered on another thread forwards and revokes; the measurement
\* is the owner's and is not touched.
Foreign ==
    /\ ~revoked /\ revoked' = TRUE
    /\ UNCHANGED <<stack, now, depth, timing, spent>>

FramesNext ==
    \/ \E kind \in Kinds : Enter(kind)
    \/ Leave
    \/ Shutdown
    \/ Foreign

FramesSpec == FramesInit /\ [][FramesNext]_frameVars

------------------------------------------------------------------------------
FramesTyped ==
    /\ stack \in Seq(Frame) /\ now \in Nat /\ spent \in Nat /\ depth \in [Kinds -> Int]
    /\ timing \in Timing /\ revoked \in BOOLEAN

\* Own time that is in a counter or in the slot.
OwnCounted == timing.ticks["PumpForward"] + timing.ticks["PumpManagement"]
           + timing.ticks["BuilderForward"] + timing.ticks["BuilderProbe"]
           + (IF timing.pending = <<>> THEN 0 ELSE timing.pending[1].ticks)

\* Own time is counted once: what the readings of a frame leave over, nested or
\* unwound, is what passed in its own code; none is counted inside its caller's
\* as well, and none is lost unless the gap is latched (End, NativeTicks).
TimeConserved == OwnCounted <= spent /\ (~timing.gap => OwnCounted = spent)

\* timingAccountedThroughQpc never passes a call that is still running: the
\* publication of a nested call does not say its caller has been counted.
WatermarkHonest == \A i \in 1..Len(stack) : stack[i].start >= timing.watermark

\* What was staged can be accounted: the checks made while staging suffice,
\* and the counters are not touched between the two.
StagedFits ==
    ~timing.gap /\ timing.pending # <<>> =>
        Room(timing, timing.pending[1]) /\ InOrder(timing, timing.pending[1])

==============================================================================
