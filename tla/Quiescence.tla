------------------------------ MODULE Quiescence ------------------------------
(***************************************************************************)
(* The life of the native transport, and its two mailboxes.  The owner     *)
(* thread arms it, asks for the log file of an epoch (a request of several *)
(* words under a sequence lock) and, before a recovery may act, asks if    *)
(* the transport is quiescent.  The worker reads the request, qualifies    *)
(* the file, works, and publishes a witness of its rest, again word by     *)
(* word under a sequence lock and a flag it takes back before it works.    *)
(*                                                                         *)
(* A record is written to the ring, prepared by the worker as a ready      *)
(* frame, submitted by the owner to the logger, flushed into the file, and *)
(* observed there by the worker (ReportTransport has all of that in full). *)
(***************************************************************************)
EXTENDS Naturals, Sequences

CONSTANTS
    Attempts,                          \* of either reader (3)
    MaxRecords, MaxRequested, MaxCycles   \* bounds: records, requests, worker cycles

VARIABLES
    startupReady, nativeArmed, stop, statusStopping, finished, fatal,
    request, requestSequence, requested,       \* mailbox; requested: the request being written
    qualifiedEpoch,
    available, sequence, quiescence,           \* the witness
    ringWrite, submitted, inFile, snapshot,    \* owner, logger, owner's publication
    prepared, observed, busy,                  \* worker: ring read, observed, anything else
    worker, copy, tries, before, cycles, checked,  \* worker: place and locals
    owner, asked,                              \* owner: place and locals
    rested                                     \* history: at rest at some time in the owner's call

mailbox == <<request, requestSequence, requested>>
witness == <<available, sequence, quiescence>>
records == <<ringWrite, submitted, inFile, snapshot>>
own     == <<prepared, observed, busy>>
locals  == <<copy, tries, before, cycles, checked>>
asking  == <<owner, asked>>
transportLife == <<startupReady, nativeArmed, stop, statusStopping>>
quietVars == <<transportLife, finished, fatal, mailbox, qualifiedEpoch, witness, records, own, worker,
               locals, asking, rested>>

NoWords == [quiescent |-> FALSE, generated |-> 0, observed |-> 0, epoch |-> 0]
NoSink  == [epoch |-> 0, path |-> 0]
Unasked == [tries |-> 0, before |-> 0, words |-> NoWords, current |-> FALSE]
Words == <<"quiescent", "generated", "observed", "epoch">>

QuietInit ==
    /\ startupReady = FALSE /\ nativeArmed = FALSE /\ stop = FALSE /\ statusStopping = FALSE
    /\ finished = FALSE /\ fatal = FALSE
    /\ request = NoSink /\ requestSequence = 0 /\ requested = 0 /\ qualifiedEpoch = 0
    /\ available = FALSE /\ sequence = 0 /\ quiescence = NoWords
    /\ ringWrite = 0 /\ submitted = 0 /\ inFile = 0 /\ snapshot = [generated |-> 0, submitted |-> 0]
    /\ prepared = 0 /\ observed = 0 /\ busy = TRUE
    /\ worker = "wait" /\ copy = NoWords /\ tries = 0 /\ before = 0 /\ cycles = 0 /\ checked = NoSink
    /\ owner = "idle" /\ asked = Unasked /\ rested = FALSE

Odd(n) == n % 2 = 1
AtRest == ~busy /\ prepared = ringWrite /\ submitted = ringWrite /\ observed = ringWrite
\* What holds at some instant of the owner's call is kept until the call ends.
WatchRest == rested' = (owner' \notin {"idle", "yes"} /\ (rested \/ AtRest'))
-----------------------------------------------------------------------------
(* The owner: startup, records, requests, stop.                            *)

OwnerIdle == owner = "idle" /\ UNCHANGED asking
WorkerAside == UNCHANGED <<finished, fatal, witness, own, worker, locals>>

CompleteNativeTransportStartup ==
    /\ OwnerIdle /\ ~stop /\ ~startupReady /\ startupReady' = TRUE
    /\ UNCHANGED <<nativeArmed, stop, statusStopping, mailbox, qualifiedEpoch, records>> /\ WorkerAside
ArmNativeTransport ==
    /\ OwnerIdle /\ ~stop /\ ~fatal /\ ~nativeArmed /\ nativeArmed' = TRUE
    /\ UNCHANGED <<startupReady, stop, statusStopping, mailbox, qualifiedEpoch, records>> /\ WorkerAside
StopNativeTransport ==
    /\ OwnerIdle /\ ~stop /\ stop' = TRUE /\ qualifiedEpoch' = 0
    /\ UNCHANGED <<startupReady, nativeArmed, statusStopping, mailbox, records>> /\ WorkerAside
\* Any thread's, the owner's question being open or not.
StopStatus ==
    /\ ~statusStopping /\ statusStopping' = TRUE /\ UNCHANGED asking
    /\ UNCHANGED <<startupReady, nativeArmed, stop, mailbox, qualifiedEpoch, records>> /\ WorkerAside

Enqueue ==
    ringWrite < MaxRecords /\ ringWrite' = ringWrite + 1 /\ UNCHANGED <<submitted, inFile, snapshot>>
\* NativeTransportFrame, the logger's call, NativeTransportReturned.
Submit == submitted < prepared /\ submitted' = submitted + 1 /\ UNCHANGED <<ringWrite, inFile, snapshot>>
PublishOwner == snapshot' = [generated |-> ringWrite, submitted |-> submitted]
                /\ UNCHANGED <<ringWrite, submitted, inFile>>
OwnerRecords ==
    /\ OwnerIdle /\ nativeArmed /\ ~stop /\ ~statusStopping /\ ~fatal
    /\ (Enqueue \/ Submit \/ PublishOwner)
    /\ UNCHANGED <<transportLife, mailbox, qualifiedEpoch>> /\ WorkerAside
Flush ==
    /\ inFile < submitted /\ inFile' = inFile + 1
    /\ UNCHANGED <<ringWrite, submitted, snapshot, transportLife, mailbox, qualifiedEpoch, asking>>
    /\ WorkerAside

\* RequestNativeLogFile: odd, the words, even.
RequestNativeLogFile ==
    /\ OwnerIdle /\ nativeArmed /\ ~stop /\ ~statusStopping /\ ~fatal
    /\ \/ ~Odd(requestSequence) /\ requested < MaxRequested
          /\ requested' = requested + 1 /\ requestSequence' = requestSequence + 1
          /\ UNCHANGED request
       \/ Odd(requestSequence) /\ request.epoch < requested
          /\ request' = [request EXCEPT !.epoch = requested] /\ UNCHANGED <<requested, requestSequence>>
       \/ request.epoch = requested /\ request.path < requested
          /\ request' = [request EXCEPT !.path = requested] /\ UNCHANGED <<requested, requestSequence>>
       \/ Odd(requestSequence) /\ request.path = requested
          /\ requestSequence' = requestSequence + 1 /\ UNCHANGED <<request, requested>>
    /\ UNCHANGED <<transportLife, qualifiedEpoch, records>> /\ WorkerAside
-----------------------------------------------------------------------------
(* The owner's question: NativeTransportQuiescent.                         *)

Asks == UNCHANGED <<transportLife, mailbox, qualifiedEpoch, records>> /\ WorkerAside
Then(place) == owner' = place
Answers(yes) == owner' = (IF yes THEN "yes" ELSE "idle") /\ asked' = Unasked
Published == requestSequence = 2 * requested

NativeTransportQuiescent ==
    /\ owner = "idle" /\ nativeArmed /\ ~stop /\ ~statusStopping /\ requested > 0 /\ Published /\ Asks
    /\ Then("available") /\ asked' = Unasked
Again == IF asked.tries + 1 = Attempts THEN Answers(FALSE)
         ELSE Then("available") /\ asked' = [Unasked EXCEPT !.tries = asked.tries + 1]
AskAvailable ==
    /\ owner = "available" /\ Asks
    /\ IF available THEN Then("before") /\ UNCHANGED asked ELSE Answers(FALSE)
AskBefore ==
    /\ owner = "before" /\ Asks
    /\ IF sequence < 2 \/ Odd(sequence) THEN Again
       ELSE Then("quiescent") /\ asked' = [asked EXCEPT !.before = sequence]
NextWord(w) == CASE w = "quiescent" -> "generated" [] w = "generated" -> "observed"
                 [] w = "observed" -> "epoch" [] w = "epoch" -> "compare"
AskWord ==
    \E i \in 1..Len(Words) :
        /\ owner = Words[i] /\ Asks /\ Then(NextWord(owner))
        /\ asked' = [asked EXCEPT !.words[owner] = quiescence[owner]]
\* Against what the caller expects, the qualified epoch, ring and ready frames.
Current ==
    asked.words = [quiescent |-> TRUE, generated |-> ringWrite, observed |-> ringWrite, epoch |-> requested]
RingEmpty == prepared = ringWrite
AskCompare ==
    /\ owner = "compare" /\ Asks /\ Then("after")
    /\ asked' = [asked EXCEPT !.words = NoWords, !.current = Current /\ qualifiedEpoch = requested /\ RingEmpty
                                          /\ submitted = prepared]
After == asked.before = sequence
AskAfter ==
    /\ owner = "after" /\ Asks
    /\ IF ~After THEN Again
       ELSE IF asked.current THEN Then("last") /\ asked' = Unasked ELSE Answers(FALSE)
AskLast ==
    /\ owner = "last" /\ Asks
    /\ Answers(available /\ ~stop /\ ~statusStopping /\ qualifiedEpoch = requested /\ RingEmpty)
OwnerActs == owner = "yes" /\ Asks /\ Then("idle") /\ UNCHANGED asked
-----------------------------------------------------------------------------
(* The worker.                                                             *)

OwnerAside == UNCHANGED <<transportLife, mailbox, records, asking>>
WorkerGoes(place) == worker' = place

Stopped == stop \/ statusStopping
\* A stopped worker takes its witness back, works once more and ends.
EndWorker ==
    /\ worker = "wait" /\ Stopped /\ OwnerAside /\ WorkerGoes("final") /\ available' = FALSE
    /\ UNCHANGED <<finished, fatal, qualifiedEpoch, sequence, quiescence, own, locals>>
FinalCycle ==
    /\ worker = "final" /\ OwnerAside /\ WorkerGoes("ended") /\ finished' = TRUE
    /\ IF cycles = 0 THEN UNCHANGED own
       ELSE observed' \in observed..inFile /\ prepared' \in prepared..ringWrite /\ UNCHANGED busy
    /\ UNCHANGED <<fatal, qualifiedEpoch, witness, locals>>
WaitFails ==
    /\ worker = "wait" /\ OwnerAside /\ WorkerGoes("ended")
    /\ finished' = TRUE /\ fatal' = TRUE /\ available' = FALSE
    /\ UNCHANGED <<qualifiedEpoch, sequence, quiescence, own, locals>>
InvalidateLater == UNCHANGED available                           \* mutant
Invalidate == available' = FALSE
BeginCycle ==
    /\ worker = "wait" /\ ~Stopped /\ nativeArmed /\ startupReady /\ cycles < MaxCycles /\ OwnerAside
    /\ Invalidate /\ cycles' = cycles + 1 /\ tries' = 0
    /\ WorkerGoes(IF fatal THEN "read" ELSE "request")
    /\ UNCHANGED <<finished, fatal, qualifiedEpoch, sequence, quiescence, own, copy, before, checked>>

\* ReadRequest: a few tries at a whole request.
RequestSide == OwnerAside /\ UNCHANGED <<finished, fatal, qualifiedEpoch, witness, own, copy, cycles>>
Leave == WorkerGoes("read") /\ tries' = 0 /\ before' = 0 /\ checked' = NoSink
Retry == IF tries + 1 = Attempts THEN Leave
         ELSE WorkerGoes("request") /\ tries' = tries + 1 /\ before' = 0 /\ checked' = NoSink
ReadRequest ==
    /\ worker = "request" /\ RequestSide
    /\ IF requestSequence = 0 \/ Odd(requestSequence) THEN Retry
       ELSE before' = requestSequence /\ WorkerGoes("readEpoch") /\ UNCHANGED <<tries, checked>>
ReadEpoch ==
    /\ worker = "readEpoch" /\ RequestSide /\ WorkerGoes("readPath")
    /\ checked' = [checked EXCEPT !.epoch = request.epoch] /\ UNCHANGED <<tries, before>>
ReadPath ==
    /\ worker = "readPath" /\ RequestSide /\ WorkerGoes("whole")
    /\ checked' = [checked EXCEPT !.path = request.path] /\ UNCHANGED <<tries, before>>
Whole == requestSequence = before
ReadWhole ==
    /\ worker = "whole" /\ RequestSide
    /\ IF ~Whole THEN Retry
       ELSE IF checked.epoch = qualifiedEpoch THEN Leave
       ELSE WorkerGoes("qualify") /\ UNCHANGED <<tries, before, checked>>
Unqualify ==
    /\ worker = "qualify" /\ OwnerAside /\ qualifiedEpoch' = 0 /\ WorkerGoes("qualified")
    /\ UNCHANGED <<finished, fatal, witness, own, locals>>
\* QualifyNativeReceiptFile: qualified, refused for now, or for good.
Qualify ==
    /\ worker = "qualified" /\ OwnerAside /\ Leave
    /\ \/ qualifiedEpoch' = checked.epoch /\ UNCHANGED fatal
       \/ UNCHANGED qualifiedEpoch /\ fatal' \in {fatal, TRUE}
    /\ UNCHANGED <<finished, witness, own, copy, cycles>>

\* CycleNativeReceipts, in two steps: the file, then the ring.  `busy' is all
\* else it may be in: paused, holding a match, amid a line, behind in the file.
CycleReads ==
    /\ worker = "read" /\ OwnerAside /\ WorkerGoes("prepare")
    /\ observed' \in observed..(IF inFile < snapshot.submitted THEN inFile ELSE snapshot.submitted)
    /\ busy' \in {TRUE, observed' < inFile \/ qualifiedEpoch = 0}
    /\ UNCHANGED <<finished, fatal, qualifiedEpoch, witness, prepared, locals>>
CyclePrepares ==
    /\ worker = "prepare" /\ OwnerAside /\ WorkerGoes("look")
    /\ prepared' \in prepared..ringWrite
    /\ UNCHANGED <<finished, fatal, qualifiedEpoch, witness, observed, busy, locals>>

\* PublishQuiescence: ring, ready frames and epoch, the owner's publication, again.
Publishes == OwnerAside /\ UNCHANGED <<finished, fatal, qualifiedEpoch, own, tries, cycles, checked>>
Look ==
    /\ worker = "look" /\ Publishes /\ WorkerGoes("weigh") /\ UNCHANGED <<witness, before>>
    /\ copy' = [quiescent |-> ~busy /\ qualifiedEpoch > 0 /\ prepared = ringWrite /\ submitted = prepared
                              /\ prepared = observed,
                generated |-> 0, observed |-> observed, epoch |-> qualifiedEpoch]
Weigh ==
    /\ worker = "weigh" /\ Publishes /\ WorkerGoes("odd") /\ UNCHANGED <<witness, before>>
    /\ copy' \in {[copy EXCEPT !.quiescent = FALSE],             \* owner being published
                  [copy EXCEPT !.generated = snapshot.generated,
                     !.quiescent = @ /\ observed = snapshot.generated /\ snapshot.submitted = observed
                                     /\ ringWrite = observed /\ submitted = prepared
                                     /\ qualifiedEpoch = copy.epoch]}
StoreOdd ==
    /\ worker = "odd" /\ Publishes /\ WorkerGoes("quiescent") /\ sequence' = sequence + 1
    /\ UNCHANGED <<available, quiescence, copy, before>>
StoreWord ==
    \E i \in 1..Len(Words) :
        /\ worker = Words[i] /\ Publishes /\ WorkerGoes(IF worker = "epoch" THEN "even" ELSE NextWord(worker))
        /\ quiescence' = [quiescence EXCEPT ![worker] = copy[worker]]
        /\ UNCHANGED <<available, sequence, copy, before>>
StoreEven ==
    /\ worker = "even" /\ Publishes /\ WorkerGoes("offer") /\ sequence' = sequence + 1
    /\ UNCHANGED <<available, quiescence, copy, before>>
Offer ==
    /\ worker = "offer" /\ Publishes /\ WorkerGoes("wait") /\ available' = TRUE /\ copy' = NoWords
    /\ UNCHANGED <<sequence, quiescence, before>>
-----------------------------------------------------------------------------
Question == \/ NativeTransportQuiescent \/ AskAvailable \/ AskBefore \/ AskWord \/ AskCompare
            \/ AskAfter \/ AskLast \/ OwnerActs
OwnerSteps == \/ CompleteNativeTransportStartup \/ ArmNativeTransport \/ StopNativeTransport
              \/ StopStatus \/ OwnerRecords \/ RequestNativeLogFile \/ Question
Worker == \/ EndWorker \/ FinalCycle \/ WaitFails \/ BeginCycle \/ ReadRequest \/ ReadEpoch
          \/ ReadPath \/ ReadWhole \/ Unqualify \/ Qualify \/ CycleReads \/ CyclePrepares \/ Look \/ Weigh \/ StoreOdd \/ StoreWord
          \/ StoreEven \/ Offer
QuietNext == (OwnerSteps \/ Flush \/ Worker) /\ WatchRest
QuietSpec == QuietInit /\ [][QuietNext]_quietVars
-----------------------------------------------------------------------------
(* Properties.                                                             *)

\* NativeTransportQuiescent says yes only if at one instant of the call the whole
\* transport was at rest, the worker's private state included, which the owner
\* cannot read; and then nothing of ours is under way when it returns.
AnsweredAtRest ==
    [][owner' = "yes" /\ owner # "yes" =>
          /\ rested \/ AtRest
          /\ prepared = ringWrite /\ observed = ringWrite /\ submitted = ringWrite]_quietVars

\* The worker qualifies the path of one request under the epoch of the same one.
QualifiesWhole == worker \in {"qualify", "qualified"} => checked.path = checked.epoch

\* What the owner is told is true, and what the worker takes is whole.
QuietIsQuiet == AnsweredAtRest /\ []QualifiesWhole
=============================================================================
