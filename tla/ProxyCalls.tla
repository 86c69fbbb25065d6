----------------------------- MODULE ProxyCalls ------------------------------
(***************************************************************************)
(* The observer's typed proxy methods.  Any thread of the game may call    *)
(* one: the call is numbered and counted, forwarded to the interface, and  *)
(* counted again when it returned; an exception passes through uncounted.  *)
(* The counters are shared words changed by a compare-and-swap loop, which *)
(* stops at the last value.  BLoggedOn is polled, so its answers are told  *)
(* to the log only when they change, per kind of caller; the other methods *)
(* tell every call, and SetKeyValue is counted only.                       *)
(***************************************************************************)
EXTENDS Naturals, Sequences, FiniteSets

CONSTANTS
    GameThreads,        \* of the game
    Buckets,            \* of callers: publisher, advertiser, others
    FullCount,          \* the last value of a counter (2^64 - 1)
    CallsPerThread      \* bound on the calls of a thread

ASSUME CallsAssumption == IsFiniteSet(GameThreads) /\ FullCount \in Nat

Methods == {"BLoggedOn", "SetKeyValue", "Reporting"}

\* The shared counters: nextCallId, entered and completed per method, and the
\* answers of BLoggedOn per bucket.
Words == {<<"id">>} \cup ({"entered", "completed"} \X Methods) \cup ({"answer"} \X Buckets \X BOOLEAN)

VARIABLES
    words,        \* the counters
    overflow,     \* coverageReasons has CounterOverflow
    seen,         \* loggedOnSeen: per bucket, the last answer if any
    calls,        \* per thread: its call, or Free
    made,         \* per thread: calls so far
    told,         \* history: completed BLoggedOn events, per bucket and answer
    ids,          \* history: the nonzero call numbers given, as a sequence
    entries       \* history: calls that passed each word

callsVars == <<words, overflow, seen, calls, made, told, ids, entries>>

Free == [at |-> "free"]

CallsInit ==
    /\ words = [w \in Words |-> 0] /\ overflow = FALSE
    /\ seen = [b \in Buckets |-> {}]
    /\ calls = [t \in GameThreads |-> Free] /\ made = [t \in GameThreads |-> 0]
    /\ told = [b \in Buckets |-> [a \in BOOLEAN |-> 0]]
    /\ ids = <<>> /\ entries = [w \in Words |-> 0]

CallAt(t, place) == calls[t].at = place

------------------------------------------------------------------------------
(* Increment: a loop of reading the word and swapping it if unchanged       *)

\* The word a call increments at a place, and where it goes from there.
Word(c) ==
    CASE c.at = "number"   -> <<"id">>
      [] c.at = "enter"    -> <<"entered", c.method>>
      [] c.at = "answer"   -> <<"answer", c.bucket, c.answer>>
      [] c.at = "complete" -> <<"completed", c.method>>
After(c) ==
    CASE c.at = "number"   -> "enter"
      [] c.at = "enter"    -> "native"
      [] c.at = "answer"   -> "exchange"
      [] c.at = "complete" -> "tell"

Counting == {"number", "enter", "answer", "complete"}

ReadWord(t) ==
    /\ calls[t].at \in Counting /\ calls[t].old = FullCount + 1
    /\ calls' = [calls EXCEPT ![t].old = words[Word(calls[t])]]
    /\ UNCHANGED <<words, overflow, seen, made, told, ids, entries>>

\* The word is still what was read.
SwapMatches(t) == words[Word(calls[t])] = calls[t].old

Passed(t) == calls' = [calls EXCEPT ![t].at = After(calls[t]), ![t].old = FullCount + 1]

\* One more, and the call number of "number".
Swap(t) ==
    LET c == calls[t] IN
    /\ c.at \in Counting /\ c.old < FullCount /\ SwapMatches(t)
    /\ words' = [words EXCEPT ![Word(c)] = c.old + 1]
    /\ ids' = IF c.at = "number" THEN Append(ids, c.old + 1) ELSE ids
    /\ entries' = [entries EXCEPT ![Word(c)] = @ + 1]
    /\ Passed(t)
    /\ UNCHANGED <<overflow, seen, made, told>>

\* The swap failed and brought the word's new value.
SwapFails(t) ==
    LET c == calls[t] IN
    /\ c.at \in Counting /\ c.old < FullCount /\ ~SwapMatches(t)
    /\ calls' = [calls EXCEPT ![t].old = words[Word(c)]]
    /\ UNCHANGED <<words, overflow, seen, made, told, ids, entries>>

\* A full word stays, the coverage is marked, and the call has no number.
Saturates(t) ==
    LET c == calls[t] IN
    /\ c.at \in Counting /\ c.old = FullCount
    /\ overflow' = TRUE
    /\ entries' = [entries EXCEPT ![Word(c)] = @ + 1]
    /\ Passed(t)
    /\ UNCHANGED <<words, seen, made, told, ids>>

------------------------------------------------------------------------------
(* The methods                                                              *)

\* A method is called; SetKeyValue is not numbered.
Call(t) ==
    \E m \in Methods, b \in Buckets :
        /\ CallAt(t, "free") /\ made[t] < CallsPerThread
        /\ made' = [made EXCEPT ![t] = @ + 1]
        /\ calls' = [calls EXCEPT ![t] =
              [at |-> IF m = "SetKeyValue" THEN "enter" ELSE "number",
               method |-> m, bucket |-> b, answer |-> FALSE, old |-> FullCount + 1, changed |-> FALSE]]
        /\ UNCHANGED <<words, overflow, seen, told, ids, entries>>

\* The interface answers.
NativeReturns(t) ==
    \E a \in BOOLEAN :
        /\ CallAt(t, "native") /\ (calls[t].method # "BLoggedOn" => ~a)
        /\ calls' = [calls EXCEPT ![t].answer = a,
              ![t].at = IF calls[t].method = "BLoggedOn" THEN "answer" ELSE "complete"]
        /\ UNCHANGED <<words, overflow, seen, made, told, ids, entries>>

\* It throws: nothing of ours is on the way out.
NativeThrows(t) ==
    /\ CallAt(t, "native")
    /\ calls' = [calls EXCEPT ![t] = Free]
    /\ UNCHANGED <<words, overflow, seen, made, told, ids, entries>>

\* Mutant: only the first answer is news.
FirstAnswer(b, value) == seen[b] = {}

Changed(b, value) == seen[b] # {value}

\* The answer is exchanged for the last one, in one instruction.
Exchange(t) ==
    LET b == calls[t].bucket IN
    /\ CallAt(t, "exchange")
    /\ calls' = [calls EXCEPT ![t].at = "complete", ![t].changed = Changed(b, calls[t].answer)]
    /\ seen' = [seen EXCEPT ![b] = {calls[t].answer}]
    /\ UNCHANGED <<words, overflow, made, told, ids, entries>>

\* Complete publishes.
Tell(t) ==
    LET c == calls[t] IN
    /\ CallAt(t, "tell")
    /\ told' = IF c.changed THEN [told EXCEPT ![c.bucket][c.answer] = @ + 1] ELSE told
    /\ calls' = [calls EXCEPT ![t] = Free]
    /\ UNCHANGED <<words, overflow, seen, made, ids, entries>>

CallsNext == \E t \in GameThreads :
    \/ Call(t) \/ ReadWord(t) \/ Swap(t) \/ SwapFails(t) \/ Saturates(t)
    \/ NativeReturns(t) \/ NativeThrows(t) \/ Exchange(t) \/ Tell(t)

CallsSpec == CallsInit /\ [][CallsNext]_callsVars

------------------------------------------------------------------------------
\* No two calls have the same number: a full counter gives none at all.
IdsUnique == Cardinality({ids[i] : i \in 1..Len(ids)}) = Len(ids)

\* A counter is exact, however its increments interleaved, or the coverage
\* says that one overflowed.
CountsAreExact == \A w \in Words :
    \/ words[w] = entries[w]
    \/ overflow /\ words[w] = FullCount

\* A change that was exchanged but is not told yet.
Untold(b, a) == {t \in GameThreads : calls[t].at \in {"complete", "tell"}
    /\ calls[t].changed /\ calls[t].bucket = b /\ calls[t].answer = a}

\* The changes to an answer so far.
Changes(b, a) == told[b][a] + Cardinality(Untold(b, a))

\* The told answers of a bucket are its changes: they alternate, whatever the
\* order the callers finish in, and the last one is the current answer.
AnswersAlternate == \A b \in Buckets :
    /\ seen[b] = {} => Changes(b, TRUE) + Changes(b, FALSE) = 0
    /\ \A now \in seen[b], old \in BOOLEAN \ seen[b] :
          Changes(b, now) > 0 /\ Changes(b, now) \in {Changes(b, old), Changes(b, old) + 1}

\* The proxies' log tells each change of what the game logged on with (Exchange,
\* Complete), its ids are given once and its counts are exact (Increment).
ChangesAreTold == AnswersAlternate /\ IdsUnique /\ CountsAreExact
==============================================================================
