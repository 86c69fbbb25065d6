--------------------------- MODULE GenuineResolver ---------------------------
(***************************************************************************)
(* The bootstrap DLL stands in for the system's audio library: each of its *)
(* exported calls finds the genuine library, forwards to it and lets go;   *)
(* one that finds none ends the process.                                   *)
(* Callers run concurrently, none waits for another, and every call into   *)
(* the system may fail.                                                    *)
(*                                                                         *)
(* A caller that resolved the library owns one reference to it until it    *)
(* has published it, through the one-time initialization or, failing that, *)
(* the fallback record, or lost to another caller and released it.         *)
(* There is one genuine module; `references' is the loader's count of it.  *)
(***************************************************************************)
EXTENDS Naturals, FiniteSets

CONSTANTS Callers, None

\* A record is named by the caller that made it, "fallback" is the embedded one.
ASSUME ResolverAssumption ==
    /\ IsFiniteSet(Callers) /\ "fallback" \notin Callers /\ "private" \notin Callers
    /\ None \notin Callers \cup {"fallback", "private"}

VARIABLES
    pending,       \* normalOnce was begun by someone
    normal,        \* the record normalOnce holds: a caller's, "fallback" or None
    fallbackState, \* Empty, Writing, Ready
    fallback,      \* the embedded record is complete
    records,       \* the callers whose allocated record exists
    references,    \* the loader's count of the genuine module
    where,         \* per caller: where it is
    begun,         \* per caller: InitOnceBeginInitialize succeeded and is pending
    attempt,       \* per caller: private resolutions made
    lease          \* per caller: the record forwarded through, "private" or None

shared == <<pending, normal, fallbackState, fallback, records>>
own    == <<begun, attempt, lease>>
resolverVars == <<shared, references, where, own>>

ResolverInit ==
    /\ pending = FALSE /\ normal = None /\ fallbackState = "Empty" /\ fallback = FALSE /\ records = {}
    /\ references = 0 /\ where = [c \in Callers |-> "idle"]
    /\ begun = [c \in Callers |-> FALSE] /\ attempt = [c \in Callers |-> 0]
    /\ lease = [c \in Callers |-> None]

CallerGoes(c, from, to) == where[c] = from /\ where' = [where EXCEPT ![c] = to]
\* Forwarding through a published record, or through one's own reference.
Forwards(c, r) ==
    /\ where' = [where EXCEPT ![c] = "forward"] /\ lease' = [lease EXCEPT ![c] = r]
    /\ UNCHANGED <<begun, attempt>>
-----------------------------------------------------------------------------
(* Published: TryGetNormal, then TryGetReadyFallback.                      *)

\* Where a caller looks, and where it goes on when nothing is published.  From
\* "publish4" on it owns a reference, which it releases if it finds one.
Looks == [look1 |-> "begin", look2 |-> "resolve", look3 |-> "look2", last |-> "failed",
          publish4 |-> "allocate", look5 |-> "claim"]
Again == [look1 |-> "look1b", look2 |-> "look2b", look3 |-> "look3b", last |-> "lastb",
          publish4 |-> "publish4b", look5 |-> "look5b"]
Owning(p) == p \in {"publish4", "look5"}

FallbackReady == fallbackState = "Ready"

TryGetNormal(c, p) ==
    /\ where[c] = p
    /\ IF normal = None THEN CallerGoes(c, p, Again[p]) /\ UNCHANGED <<own, references>>
       ELSE /\ Forwards(c, normal)
            /\ references' = references - IF Owning(p) THEN 1 ELSE 0
    /\ UNCHANGED shared
TryGetReadyFallback(c, p) ==
    /\ where[c] = Again[p]
    /\ IF FallbackReady
       THEN /\ Forwards(c, "fallback")
            /\ references' = references - IF Owning(p) THEN 1 ELSE 0
       ELSE CallerGoes(c, Again[p], Looks[p]) /\ UNCHANGED <<own, references>>
    /\ UNCHANGED shared
-----------------------------------------------------------------------------
(* AcquireGenuineX3Audio and ResolveGenuineX3AudioPrivate.                 *)

Call(c) ==
    /\ CallerGoes(c, "idle", "look1")
    /\ begun' = [begun EXCEPT ![c] = FALSE] /\ attempt' = [attempt EXCEPT ![c] = 0]
    /\ UNCHANGED <<shared, references, lease>>

\* Asynchronous: any number of callers may be pending at once.
BeginOnce(c) ==
    /\ where[c] = "begin" /\ UNCHANGED <<normal, fallbackState, fallback, records, references>>
    /\ \/ /\ normal = None /\ CallerGoes(c, "begin", "resolve")
          /\ pending' = TRUE /\ begun' = [begun EXCEPT ![c] = TRUE]
          /\ UNCHANGED <<attempt, lease>>
       \/ normal # None /\ Forwards(c, normal) /\ UNCHANGED pending
       \/ CallerGoes(c, "begin", "resolve") /\ UNCHANGED <<own, pending>>

\* A failure of a resource or an API is tried once more, any other is the last.
Retries(c, from) == attempt'[c] = 1 /\ CallerGoes(c, from, "look3")
GivesUp(c, from) == CallerGoes(c, from, "last")

\* The system path is built and the library loaded, or not, or it turns out to
\* be the bootstrap, which is never released.
Load(c) ==
    /\ where[c] = "resolve" /\ UNCHANGED <<shared, begun, lease>>
    /\ attempt' = [attempt EXCEPT ![c] = @ + 1]
    /\ \/ CallerGoes(c, "resolve", "loaded") /\ references' = references + 1
       \/ (Retries(c, "resolve") \/ GivesUp(c, "resolve")) /\ UNCHANGED references
\* Path, file identity, exports and their addresses: a reject releases it.
Validate(c) ==
    /\ where[c] = "loaded" /\ UNCHANGED <<shared, own>>
    /\ \/ CallerGoes(c, "loaded", "publish4") /\ UNCHANGED references
       \/ (Retries(c, "loaded") \/ GivesUp(c, "loaded")) /\ references' = references - 1
-----------------------------------------------------------------------------
(* PublishPrivateSuccess.                                                  *)

Allocate(c) ==
    /\ where[c] = "allocate" /\ UNCHANGED <<pending, normal, fallbackState, fallback, references, own>>
    /\ \/ begun[c] /\ CallerGoes(c, "allocate", "complete") /\ records' = records \cup {c}
       \/ CallerGoes(c, "allocate", "look5") /\ UNCHANGED records

\* The first completion wins; any may fail.
Complete(c) ==
    /\ where[c] = "complete" /\ UNCHANGED <<pending, fallbackState, fallback, records, references>>
    /\ \/ normal = None /\ normal' = c /\ Forwards(c, c)
       \/ CallerGoes(c, "complete", "lost") /\ UNCHANGED <<normal, own>>

LostKeeps(c) == /\ Forwards(c, normal) /\ UNCHANGED references   \* mutant
                /\ records' = records \ {c}
Lost(c) ==
    /\ Forwards(c, normal) /\ references' = references - 1
    /\ records' = records \ {c}
ObserveWinner(c) ==
    /\ where[c] = "lost" /\ UNCHANGED <<pending, normal, fallbackState, fallback>>
    /\ IF normal # None THEN Lost(c)
       ELSE /\ records' = records \ {c}
            /\ CallerGoes(c, "lost", "look5") /\ UNCHANGED <<references, own>>

ClaimFallback(c) ==
    /\ where[c] = "claim" /\ UNCHANGED <<pending, normal, fallback, records, references, own>>
    /\ IF fallbackState = "Empty"
       THEN fallbackState' = "Writing" /\ CallerGoes(c, "claim", "write")
       ELSE CallerGoes(c, "claim", "glance") /\ UNCHANGED fallbackState
WriteFallback(c) ==
    /\ CallerGoes(c, "write", "ready") /\ fallback' = TRUE
    /\ UNCHANGED <<pending, normal, fallbackState, records, references, own>>
PublishFallback(c) ==
    /\ CallerGoes(c, "ready", "offer") /\ fallbackState' = "Ready"
    /\ UNCHANGED <<pending, normal, fallback, records, references, own>>
\* The normal slot is offered the fallback record too; the result is ignored.
OfferFallback(c) ==
    /\ where[c] = "offer" /\ Forwards(c, "fallback")
    /\ normal' \in {normal} \cup (IF pending /\ normal = None THEN {"fallback"} ELSE {})
    /\ UNCHANGED <<pending, fallbackState, fallback, records, references>>

Glance(c) ==
    IF FallbackReady THEN Forwards(c, "fallback") /\ references' = references - 1
                     ELSE Forwards(c, "private") /\ UNCHANGED references
GlanceAtFallback(c) == where[c] = "glance" /\ Glance(c) /\ UNCHANGED shared

\* The forwarded call returned: ReleaseGenuineX3AudioLease.
Return(c) ==
    /\ CallerGoes(c, "forward", "idle") /\ lease' = [lease EXCEPT ![c] = None]
    /\ references' = references - IF lease[c] = "private" THEN 1 ELSE 0
    /\ UNCHANGED <<shared, begun, attempt>>

Step(c) ==
    \/ \E p \in DOMAIN Looks : TryGetNormal(c, p) \/ TryGetReadyFallback(c, p)
    \/ BeginOnce(c) \/ Load(c) \/ Validate(c) \/ Allocate(c) \/ Complete(c)
    \/ ObserveWinner(c) \/ ClaimFallback(c) \/ WriteFallback(c) \/ PublishFallback(c)
    \/ OfferFallback(c) \/ GlanceAtFallback(c) \/ Return(c)
\* FailFastX3Audio ends the process, whoever else is inside a call.
NoneFailed == \A c \in Callers : where[c] # "failed"
ResolverNext == NoneFailed /\ \E c \in Callers : Call(c) \/ Step(c)

\* Fair to one caller only: the others may stop wherever they are.
Unhurried == CHOOSE c \in Callers : TRUE
ResolverSpec == ResolverInit /\ [][ResolverNext]_resolverVars
                /\ WF_resolverVars(NoneFailed /\ Step(Unhurried))
-----------------------------------------------------------------------------
(* Properties.                                                             *)

\* A reference has an owner: a published record, for the life of the process, and
\* a caller between loading the library and publishing, losing or releasing it.
Published == (IF normal \in Callers THEN {normal} ELSE {})
             \cup (IF fallbackState = "Ready" THEN {"fallback"} ELSE {})
AtWork == {"loaded", "publish4", "publish4b", "allocate", "complete", "lost",
           "look5", "look5b", "claim", "write", "ready", "glance"}
Owns(c) == where[c] \in AtWork \/ lease[c] = "private"
Owners == {c \in Callers : Owns(c)}
Counted == references = Cardinality(Published) + Cardinality(Owners)

\* A record that was allocated is published or about to be: the losers freed theirs.
NoneLeaks == records = {c \in Callers : normal = c \/ where[c] \in {"complete", "lost"}}

\* Nobody forwards through a record that is still being written or was freed.
ForwardsWhole ==
    \A c \in Callers : where[c] = "forward" =>
        /\ lease[c] = "fallback" => fallback
        /\ lease[c] \in Callers => lease[c] \in records

\* A forwarded call runs through a whole record in a library that stays loaded,
\* and leaves nothing behind, however the publications of its callers ended.
ReferencesOwned == Counted /\ NoneLeaks /\ ForwardsWhole

\* An exported call ends although every other caller has stopped inside its
\* own, even between claiming the fallback record and making it ready.
NeverWaits == where[Unhurried] # "idle" ~> where[Unhurried] = "idle" \/ ~NoneFailed
=============================================================================
