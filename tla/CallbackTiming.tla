--------------------------- MODULE CallbackTiming ----------------------------
(***************************************************************************)
(* How long the companion's own code runs inside the primary callback of   *)
(* a recovery, CreateSuccess: its guard, the exception filter and the      *)
(* termination handler, but neither the game's own callback it forwards to *)
(* nor the system's dispatching of an exception.  The measurement is kept  *)
(* by small functions called at each crossing, with a clock reading that   *)
(* may be missing or run backwards.  It is taken once: by the first        *)
(* attributed callback, and never again.                                   *)
(***************************************************************************)
EXTENDS Integers

CONSTANTS
    MaxQpc,       \* the last clock reading (2^63 - 1)
    MaxCallbacks, \* bound on the callbacks
    MaxFilters    \* bound on the exceptions

ASSUME CallbackAssumption ==
    MaxQpc \in Nat \ {0} /\ MaxCallbacks \in Nat /\ MaxFilters \in Nat

VARIABLES
    measure,      \* PrimaryCallbackTiming
    place,        \* where the owner thread is in the callback
    search,       \* an exception's search of a handler: at our filter, past it
    clock,        \* the true time
    forwarded,    \* createForwarded: the game's callback was entered
    callbacks, filters,  \* callbacks entered and exceptions raised so far
    own,          \* history: own time of the first callback
    disturbed     \* history: a reading failed, or a callback came inside it

callbackVars == <<measure, place, search, clock, forwarded, callbacks, filters, own, disturbed>>

Phases   == {"NotEntered", "InProgress", "CompleteValid", "CompleteInvalid"}
Segments == {"None", "Own", "Native", "Filter"}
Measurement   == [phase: Phases, segment: Segments, parent: Segments,
             ticks: 0..MaxQpc, last: 0..MaxQpc, start: 0..MaxQpc, invalid: BOOLEAN]

Fresh == [phase |-> "NotEntered", segment |-> "None", parent |-> "None",
          ticks |-> 0, last |-> 0, start |-> 0, invalid |-> FALSE]

CallbackInit ==
    /\ measure = Fresh /\ place = "outside" /\ search = "none" /\ clock = 1
    /\ forwarded = FALSE /\ callbacks = 0 /\ filters = 0
    /\ own = 0 /\ disturbed = FALSE

------------------------------------------------------------------------------
(* The measurement: pure functions of it and a reading q, 0 if missing      *)

Active(t) == t.phase = "InProgress"
Spoil(t) == [t EXCEPT !.invalid = TRUE]

Accepted(t, q) == q # 0 /\ q >= t.last
Endpoint(t, q) == IF Accepted(t, q) THEN [t EXCEPT !.last = q] ELSE Spoil(t)

\* An own interval ends at q, unless it has no beginning to be measured from.
CloseOwn(t, q) ==
    IF t.invalid THEN t
    ELSE IF t.start = 0 \/ q < t.start \/ q - t.start > MaxQpc - t.ticks THEN Spoil(t)
    ELSE [t EXCEPT !.ticks = @ + (q - t.start)]

Opened(t, segment, q) ==
    [Endpoint(t, q) EXCEPT !.segment = segment, !.start = IF Accepted(t, q) THEN q ELSE 0]

BeginOwn(t, q) == Opened(t, "Own", q)

\* Only a measurement never taken may be.
Claimable(t) == t.phase = "NotEntered"

Claim(t, q) ==
    LET entered == [t EXCEPT !.phase = "InProgress"] IN
    IF ~Claimable(t) THEN t
    ELSE BeginOwn(IF t = Fresh THEN entered ELSE Spoil(entered), q)

EnterNative(t, q) ==
    IF ~Active(t) THEN t
    ELSE IF t.segment # "Own" \/ t.parent # "None" THEN Spoil(t)
    ELSE [CloseOwn(Endpoint(t, q), q) EXCEPT !.segment = "Native", !.start = 0]

LeaveNative(t, q) ==
    IF ~Active(t) THEN t
    ELSE IF t.segment # "Native" \/ t.parent # "None" THEN Spoil(t)
    ELSE BeginOwn(t, q)

\* The filter suspends the segment it interrupts and is measured by itself.
BeginFilter(t, q) ==
    LET closed == IF t.segment = "Own" THEN CloseOwn(Endpoint(t, q), q) ELSE Endpoint(t, q) IN
    IF ~Active(t) THEN t
    ELSE IF t.segment \notin {"Own", "Native"} \/ t.parent # "None" THEN Spoil(t)
    ELSE [closed EXCEPT !.parent = t.segment, !.segment = "Filter",
                        !.start = IF Accepted(t, q) THEN q ELSE 0]

\* Mutant: own time goes on in the segment the filter interrupted.
EndFilterOwn(t, q) ==
    IF ~Active(t) THEN t
    ELSE IF t.segment # "Filter" \/ t.parent \notin {"Own", "Native"} THEN Spoil(t)
    ELSE [CloseOwn(Endpoint(t, q), q) EXCEPT !.segment = t.parent, !.parent = "None"]

EndFilter(t, q) ==
    IF ~Active(t) THEN t
    ELSE IF t.segment # "Filter" \/ t.parent \notin {"Own", "Native"} THEN Spoil(t)
    ELSE [CloseOwn(Endpoint(t, q), q) EXCEPT !.segment = t.parent, !.parent = "None",
              !.start = IF t.parent = "Own" /\ Accepted(t, q) THEN q ELSE 0]

\* The filter closed the last own interval; what lies between it and the
\* handler is the system's time.
BeginUnwind(t, q) ==
    IF ~Active(t) THEN t
    ELSE IF t.segment \notin {"Own", "Native"} \/ t.parent # "None" THEN Spoil(t)
    ELSE BeginOwn(Endpoint(t, q), q)

Finalize(t, q) ==
    LET seen == Endpoint(t, q)
        last == IF t.segment # "Own" \/ t.parent # "None" THEN Spoil(seen) ELSE CloseOwn(seen, q) IN
    IF ~Active(t) THEN t
    ELSE [last EXCEPT !.phase = IF last.invalid THEN "CompleteInvalid" ELSE "CompleteValid",
                      !.ticks = IF last.invalid THEN 0 ELSE @,
                      !.segment = "None", !.parent = "None", !.start = 0]

\* A callback inside the measured one leaves nothing to report.
Invalidate(t) == IF Active(t) THEN Spoil(t) ELSE t

------------------------------------------------------------------------------
(* CreateSuccess.  In a step time passes where the thread is, the clock is  *)
(* read, and the crossing is recorded.                                      *)

First == callbacks <= 1

\* A reading is the time, or missing, or lies before the last one it gave.
Ticks == clock' \in {clock, clock + 1} /\ clock' <= MaxQpc
Readings == {clock', 0, measure.last - 1} \cap Nat

\* `spends' says whose the time since the last step was.
Reads(q, spends) ==
    /\ disturbed' = (disturbed \/ (First /\ q # clock'))
    /\ own' = IF spends /\ First THEN own + (clock' - clock) ELSE own

\* The attributed callback takes the measurement.
EnterCallback ==
    /\ place = "outside" /\ callbacks < MaxCallbacks
    /\ callbacks' = callbacks + 1 /\ place' = "own"
    /\ Ticks
    /\ \E q \in {clock', 0} :
        /\ measure' = Claim(measure, q)
        /\ disturbed' = (disturbed \/ (callbacks = 0 /\ q # clock'))
    /\ UNCHANGED <<search, forwarded, filters, own>>

\* The guard accepts: the game's own callback, once, and only from the
\* callback that took the measurement.
Forward ==
    /\ place = "own" /\ search # "filter" /\ ~forwarded /\ callbacks = 1
    /\ Ticks /\ \E q \in Readings : Reads(q, TRUE) /\ measure' = EnterNative(measure, q)
    /\ forwarded' = TRUE /\ place' = "native" /\ search' = "none"
    /\ UNCHANGED <<callbacks, filters>>

Return ==
    /\ place = "native" /\ search # "filter"
    /\ Ticks /\ \E q \in Readings : Reads(q, FALSE) /\ measure' = LeaveNative(measure, q)
    /\ place' = "own" /\ search' = "none"
    /\ UNCHANGED <<callbacks, filters, forwarded>>

\* A callback of the same request inside the game's own one.
Nested ==
    /\ place = "native" /\ search # "filter" /\ ~disturbed
    /\ measure' = Invalidate(measure) /\ disturbed' = TRUE
    /\ UNCHANGED <<place, search, clock, forwarded, callbacks, filters, own>>

\* ObserveFailure: an exception of the guard or of the game's callback comes
\* to the filter, which declines it.
Raise ==
    /\ place \in {"own", "native"} /\ search # "filter" /\ filters < MaxFilters
    /\ Ticks /\ \E q \in Readings : Reads(q, place = "own") /\ measure' = BeginFilter(measure, q)
    /\ filters' = filters + 1 /\ search' = "filter"
    /\ UNCHANGED <<place, callbacks, forwarded>>

\* What follows is for an outer handler to say: the code goes on where it was,
\* which is any step from here that is not Unwind, or it is unwound.
FilterDeclines ==
    /\ search = "filter"
    /\ Ticks /\ \E q \in Readings : Reads(q, TRUE) /\ measure' = EndFilter(measure, q)
    /\ search' = "declined"
    /\ UNCHANGED <<place, callbacks, filters, forwarded>>

Unwind ==
    /\ search = "declined"
    /\ Ticks /\ \E q \in Readings : Reads(q, FALSE) /\ measure' = BeginUnwind(measure, q)
    /\ place' = "handler" /\ search' = "none"
    /\ UNCHANGED <<callbacks, filters, forwarded>>

Finish ==
    /\ place \in {"own", "handler"} /\ search # "filter"
    /\ Ticks /\ \E q \in Readings : Reads(q, TRUE) /\ measure' = Finalize(measure, q)
    /\ place' = "outside" /\ search' = "none"
    /\ UNCHANGED <<callbacks, filters, forwarded>>

CallbackNext == EnterCallback \/ Forward \/ Return \/ Nested \/ Raise \/ FilterDeclines \/ Unwind \/ Finish

CallbackSpec == CallbackInit /\ [][CallbackNext]_callbackVars

------------------------------------------------------------------------------
CallbackTypeOK ==
    /\ measure \in Measurement
    /\ place \in {"outside", "own", "native", "handler"} /\ search \in {"none", "filter", "declined"}
    /\ clock \in 0..MaxQpc /\ own \in 0..MaxQpc
    /\ callbacks \in 0..MaxCallbacks /\ filters \in 0..MaxFilters
    /\ forwarded \in BOOLEAN /\ disturbed \in BOOLEAN

\* A measurement that is reported (TimingCopy) is the own time of the first
\* callback, to the tick, however it was interrupted, and a later callback
\* does not change it; one that may be inexact is not reported, and none is
\* withheld without cause.
ExactOrNothing ==
    /\ measure.phase = "CompleteValid" => measure.ticks = own /\ ~disturbed
    /\ measure.phase = "CompleteInvalid" => measure.ticks = 0 /\ disturbed
==============================================================================
