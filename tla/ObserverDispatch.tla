-------------------------- MODULE ObserverDispatch --------------------------
(***************************************************************************)
(* The armed observer at work: threads of the host run Init and Shutdown,  *)
(* which move the lifecycle word, ask the factory for the Steam interface, *)
(* which is answered by a proxy bound to one lifecycle, and look a binding *)
(* up for the reporting.  Nothing but the binding table is under a lock;   *)
(* the lifecycle word and the unknown flag are read and written around it. *)
(*                                                                         *)
(* The word packs two 32-bit halves: lifecycle calls ever entered, and     *)
(* those in flight.  Accesses to the binding table inside one hold of      *)
(* cacheLock are one step.  A native object may come back at an address    *)
(* it had in an earlier lifecycle.                                         *)
(***************************************************************************)
EXTENDS Naturals, Sequences, FiniteSets

CONSTANTS
    Threads,    \* threads of the host
    Reals,      \* addresses of native interface objects
    Users,      \* Steam users of the factory
    Capacity,   \* kBindingCapacity (16)
    Top         \* the largest value of a half of the word, UINT32_MAX

ASSUME DispatchAssumption ==
    /\ IsFiniteSet(Threads) /\ Capacity \in Nat /\ Top \in Nat \ {0}

VARIABLES
    life,       \* lifecycle: calls entered and calls in flight
    unknown,    \* unknownLifecycle
    bindings,   \* bindings[0..bindingCount)
    exhausted,
    th          \* each thread's place in the dispatch, with its locals

shared == <<life, unknown, bindings, exhausted>>
vars   == <<shared, th>>

\* A thread outside the dispatch.  `owned' is the result of LifecycleEnter;
\* `before' and `after' are a factory's or a lookup's reads of the word,
\* `object' what it is about, `valid' the factory's verdict and `id' the binding
\* returned.  `crossed' is history: a lifecycle call was in flight since `before'.
Zero == [entered |-> 0, active |-> 0]
Outside == [pc |-> "out", owned |-> FALSE, before |-> Zero, after |-> Zero,
            object |-> 0, user |-> 0, valid |-> FALSE, id |-> 0, crossed |-> FALSE]

Init ==
    /\ life = Zero /\ unknown = FALSE /\ bindings = <<>> /\ exhausted = FALSE
    /\ th = [t \in Threads |-> Outside]

At(t, place) == th[t].pc = place
To(t, place) == [th[t] EXCEPT !.pc = place]
Sets(t, locals) == th' = [th EXCEPT ![t] = locals]

\* The history runs from the first read of the word to the last one.
Spanning == {"call", "after", "clean", "find", "validate", "recheck", "scan", "confirm"}
InFlight == \E t \in Threads : At(t, "native")
Forwards(t, owned) ==
    th' = [u \in Threads |->
             IF u = t THEN [Outside EXCEPT !.pc = "native", !.owned = owned]
             ELSE [th[u] EXCEPT !.crossed = @ \/ th[u].pc \in Spanning]]
-----------------------------------------------------------------------------
(* InitEntry and ShutdownEntry.                                            *)

LifecycleFull == life.entered = Top \/ life.active = Top
Counted == [entered |-> life.entered + 1, active |-> life.active + 1]
LifecycleEnter(t) ==
    /\ At(t, "out") /\ ~LifecycleFull
    /\ life' = Counted /\ Forwards(t, TRUE)
    /\ UNCHANGED <<unknown, bindings, exhausted>>

LifecycleOverflow(t) ==
    /\ At(t, "out") /\ LifecycleFull /\ Sets(t, To(t, "overflow"))
    /\ UNCHANGED shared
LifecycleUnknown(t) ==
    /\ At(t, "overflow") /\ unknown' = TRUE /\ Forwards(t, FALSE)
    /\ UNCHANGED <<life, bindings, exhausted>>

\* The native call has returned or unwinds; the reference goes in both cases.
LifecycleLeave == life.active > 0
LifecycleCleanup(t) ==
    /\ At(t, "native") /\ Sets(t, Outside)
    /\ IF th[t].owned /\ LifecycleLeave
         THEN life' = [life EXCEPT !.active = @ - 1] /\ UNCHANGED unknown
         ELSE unknown' = (unknown \/ th[t].owned) /\ UNCHANGED life
    /\ UNCHANGED <<bindings, exhausted>>
-----------------------------------------------------------------------------
(* FactoryEntry.                                                           *)

Begins(t, place, what) ==
    /\ At(t, "out")
    /\ Sets(t, [Outside EXCEPT !.pc = place, !.before = life, !.object = what,
                               !.crossed = InFlight])

FactoryBegins(t) == Begins(t, "call", 0) /\ UNCHANGED shared

\* A null object, and a call that does not qualify, are returned as they are.
FactoryReturns(t) ==
    /\ At(t, "call")
    /\ \/ Sets(t, Outside)
       \/ \E r \in Reals, u \in Users :
             Sets(t, [To(t, "after") EXCEPT !.object = r, !.user = u])
    /\ UNCHANGED shared

\* The word is read again, first after the native call and then, for good, with
\* cacheLock held; the unknown flag is read after it.
Rereads(t, from, to) ==
    /\ At(t, from) /\ Sets(t, [To(t, to) EXCEPT !.after = life])
    /\ UNCHANGED shared
FactoryReadsLife(t) == Rereads(t, "after", "clean")
FactoryRereadsLife(t) == Rereads(t, "recheck", "decide")

CleanQuiet(t) == th[t].before = th[t].after /\ ~unknown                     \* mutant
CleanLifecycle(t) == th[t].before = th[t].after /\ th[t].before.active = 0 /\ ~unknown

FactoryClean(t) ==
    /\ At(t, "clean")
    /\ Sets(t, IF CleanLifecycle(t) THEN To(t, "find") ELSE Outside)
    /\ UNCHANGED shared

FindBinding(t) == {i \in DOMAIN bindings :
    /\ bindings[i].real = th[t].object /\ bindings[i].user = th[t].user
    /\ bindings[i].entered = th[t].before.entered}

\* An existing decision is taken over; otherwise the object is inspected.
FactoryFinds(t) ==
    /\ At(t, "find")
    /\ Sets(t, IF FindBinding(t) = {} THEN To(t, "validate")
               ELSE [To(t, "recheck") EXCEPT
                       !.valid = \E i \in FindBinding(t) : bindings[i].accepted])
    /\ UNCHANGED shared
ValidateObject(t) ==
    /\ At(t, "validate")
    /\ \E v \in BOOLEAN : Sets(t, [To(t, "recheck") EXCEPT !.valid = v])
    /\ UNCHANGED shared

FactoryCrossed(t) ==
    /\ At(t, "decide") /\ ~CleanLifecycle(t) /\ Sets(t, Outside)
    /\ UNCHANGED shared

\* Another thread may have decided meanwhile: its decision stands.
TakenUnseen(t) == {}                                                        \* mutant
Taken(t) == FindBinding(t)
Answers(t, i, accepted) ==
    Sets(t, IF accepted THEN [To(t, "proxy") EXCEPT !.id = i] ELSE Outside)
FactoryBinds(t) ==
    /\ At(t, "decide") /\ CleanLifecycle(t) /\ Taken(t) = {}
    /\ ~exhausted /\ Len(bindings) < Capacity
    /\ bindings' = Append(bindings,
                          [real |-> th[t].object, user |-> th[t].user,
                           entered |-> th[t].before.entered, accepted |-> th[t].valid])
    /\ Answers(t, Len(bindings) + 1, th[t].valid)
    /\ UNCHANGED <<life, unknown, exhausted>>
FactoryJoins(t) ==
    /\ At(t, "decide") /\ CleanLifecycle(t)
    /\ \E i \in Taken(t) : Answers(t, i, bindings[i].accepted)
    /\ UNCHANGED shared
FactoryExhausts(t) ==
    /\ At(t, "decide") /\ CleanLifecycle(t) /\ Taken(t) = {}
    /\ exhausted \/ ~(Len(bindings) < Capacity)
    /\ exhausted' = TRUE /\ Sets(t, Outside)
    /\ UNCHANGED <<life, unknown, bindings>>
-----------------------------------------------------------------------------
(* ReadAcceptedBinding, for a native object or, by its number, a proxy.    *)

\* The unknown flag only ever rises, and is read again at the end.
LookupBegins(t) ==
    /\ ~unknown /\ life.active = 0
    /\ \E what \in Reals \cup DOMAIN bindings : Begins(t, "scan", what)
    /\ UNCHANGED shared

Matching(t) == {i \in DOMAIN bindings :
    /\ bindings[i].accepted /\ bindings[i].entered = th[t].before.entered
    /\ bindings[i].real = th[t].object \/ i = th[t].object}

\* None, several, or a busy lock: no answer.
LookupFails(t) == At(t, "scan") /\ Sets(t, Outside) /\ UNCHANGED shared
LookupFinds(t) ==
    /\ At(t, "scan")
    /\ \E i \in DOMAIN bindings :
          Matching(t) = {i} /\ Sets(t, [To(t, "confirm") EXCEPT !.id = i])
    /\ UNCHANGED shared
LookupReadsLife(t) == Rereads(t, "confirm", "confirmed")
LookupConfirms(t) ==
    /\ At(t, "confirmed")
    /\ Sets(t, IF CleanLifecycle(t) THEN To(t, "snapshot") ELSE Outside)
    /\ UNCHANGED shared

Returned == {"proxy", "snapshot"}
Uses(t) == th[t].pc \in Returned /\ Sets(t, Outside) /\ UNCHANGED shared

LifecycleNext(t) ==
    LifecycleEnter(t) \/ LifecycleOverflow(t) \/ LifecycleUnknown(t) \/ LifecycleCleanup(t)
FactoryNext(t) ==
    \/ FactoryBegins(t) \/ FactoryReturns(t) \/ FactoryReadsLife(t) \/ FactoryClean(t)
    \/ FactoryFinds(t) \/ ValidateObject(t) \/ FactoryRereadsLife(t) \/ FactoryCrossed(t)
    \/ FactoryBinds(t) \/ FactoryJoins(t) \/ FactoryExhausts(t)
LookupNext(t) ==
    \/ LookupBegins(t) \/ LookupFails(t) \/ LookupFinds(t) \/ LookupReadsLife(t)
    \/ LookupConfirms(t)

Next == \E t \in Threads : LifecycleNext(t) \/ FactoryNext(t) \/ LookupNext(t) \/ Uses(t)

Spec == Init /\ [][Next]_vars
-----------------------------------------------------------------------------
(* Properties.                                                             *)

\* A proxy handed out, or a binding reported, belongs to one undisturbed
\* lifecycle: no Init or Shutdown was in flight from the first read of the word
\* to the last one, whether the halves of the word overflow or an object comes
\* back at an old address (FactoryEntry, ReadAcceptedBinding, CleanLifecycle).
BoundIsCurrent ==
    \A t \in Threads : th[t].pc \in Returned =>
        /\ ~th[t].crossed
        /\ th[t].id \in DOMAIN bindings
        /\ bindings[th[t].id].accepted
        /\ bindings[th[t].id].entered = th[t].before.entered
        /\ bindings[th[t].id].real = th[t].object \/ th[t].id = th[t].object

\* One object has one verdict per user and lifecycle, however many threads
\* inspect it at once with different results (the second FindBinding).
OneVerdict ==
    \A i, j \in DOMAIN bindings :
        /\ bindings[i].real = bindings[j].real /\ bindings[i].user = bindings[j].user
        /\ bindings[i].entered = bindings[j].entered
        => i = j
=============================================================================
