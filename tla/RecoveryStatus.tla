--------------------------- MODULE RecoveryStatus ---------------------------
(***************************************************************************)
(* The recovery status block: the owner publishes a payload of several     *)
(* words under a sequence word, odd while it writes, and a reader outside  *)
(* the process copies the block with no lock at all.                       *)
(*                                                                         *)
(* Every store and every load of a word is a step.  The header is written  *)
(* once before headerReady and never again; its fields are one value.  The *)
(* process may stop at any step, and each of the reader's loads may fail.  *)
(***************************************************************************)
EXTENDS Integers, Sequences

CONSTANTS
    Words,      \* the number of payload words
    Contents,   \* what a word can hold
    Valid,      \* payloads that pass RecoveryPayloadValid
    Blank,      \* ReportRecoveryPayload{}, the first payload
    Attempts,   \* a read's attempts (3)
    MaxSequence \* the largest even sequence (UINT64_MAX - 1)

ASSUME StatusAssumption ==
    /\ Words \in Nat \ {0} /\ Attempts \in Nat \ {0}
    /\ Valid \subseteq [1..Words -> Contents] /\ Blank \in Valid
    /\ MaxSequence \in Nat /\ MaxSequence % 2 = 0

VARIABLES
    headerReady, header, ownerSequence, payload,   \* the block
    opc, todo, writing,                            \* the owner: place, next word, payload
    rpc, attempt, published, highest, before, at, copy, result,   \* the reader
    history,   \* history: the payloads published, in order
    window     \* history: answers that were current since the read began

block  == <<headerReady, header, ownerSequence, payload>>
owner  == <<opc, todo, writing>>
reader == <<rpc, attempt, published, highest, before, at, copy, result>>
vars   == <<block, owner, reader, history, window>>

Answer(kind) == [kind |-> kind, payload |-> Blank]
Coherent(p) == [kind |-> "Coherent", payload |-> p]
NoAnswer == Answer("none")

Init ==
    /\ headerReady = 0 /\ header = "blank" /\ ownerSequence = 0 /\ payload = Blank
    /\ opc = "start" /\ todo = 1 /\ writing = Blank
    /\ rpc = "idle" /\ attempt = 1 /\ published = FALSE /\ highest = 0 /\ before = 0
    /\ at = 1 /\ copy = Blank /\ result = NoAnswer
    /\ history = <<>> /\ window = {}

Odd(n) == n % 2 = 1
\* The answer a reader may be given now.
Current(h) == IF h = <<>> THEN NoAnswer ELSE Coherent(h[Len(h)])
Watch == window' = IF window = {} THEN {} ELSE window \cup {Current(history')}
-----------------------------------------------------------------------------
(* InitializeRecoveryStatus and PublishRecoveryStatus, on the owner.       *)

OwnerGoes(from, to) == opc = from /\ opc' = to

ClaimHeader ==
    /\ OwnerGoes("start", "header") /\ headerReady = 0 /\ headerReady' = 2
    /\ UNCHANGED <<header, ownerSequence, payload, todo, writing, reader, history, window>>

FillHeader ==
    /\ OwnerGoes("header", "words") /\ header' = "filled"
    /\ ownerSequence' = 1 /\ todo' = 1 /\ writing' = Blank
    /\ UNCHANGED <<headerReady, payload, reader, history, window>>

\* A payload is refused when it is invalid or the sequence is used up.
PublishRecoveryStatus ==
    /\ OwnerGoes("open", "words")
    /\ headerReady = 1 /\ ownerSequence + 2 <= MaxSequence
    /\ writing' \in Valid
    /\ ownerSequence' = ownerSequence + 1 /\ todo' = 1
    /\ UNCHANGED <<headerReady, header, payload, reader, history, window>>

StorePayload ==
    /\ opc = "words" /\ todo <= Words
    /\ payload' = [payload EXCEPT ![todo] = writing[todo]]
    /\ todo' = todo + 1
    /\ UNCHANGED <<headerReady, header, ownerSequence, opc, writing, reader, history, window>>

AdvanceEarly == opc = "words"                                    \* mutant
Advance == opc = "words" /\ todo = Words + 1
EndPublication ==
    /\ Advance /\ opc' = IF headerReady = 1 THEN "open" ELSE "ready"
    /\ ownerSequence' = ownerSequence + 1
    /\ history' = Append(history, writing) /\ Watch
    /\ UNCHANGED <<headerReady, header, payload, todo, writing, reader>>

PublishHeader ==
    /\ OwnerGoes("ready", "open") /\ headerReady' = 1
    /\ UNCHANGED <<header, ownerSequence, payload, todo, writing, reader, history, window>>
-----------------------------------------------------------------------------
(* ReadRecoveryStatusSnapshot, in another process.                         *)

Ends(answer) == rpc' = "idle" /\ result' = answer /\ window' = {}

\* The end of an attempt that decided nothing.
Retries(seen) ==
    IF attempt < Attempts
    THEN rpc' = "ready" /\ attempt' = attempt + 1 /\ UNCHANGED <<result, window>>
    ELSE Ends(Answer(IF seen THEN "Busy" ELSE "Unavailable")) /\ UNCHANGED attempt

BeginRead ==
    /\ rpc = "idle" /\ rpc' = "ready"
    /\ attempt' = 1 /\ published' = FALSE /\ highest' = 0 /\ result' = NoAnswer
    /\ window' = {Current(history)}
    /\ UNCHANGED <<block, owner, before, at, copy, history>>

ReadReady ==
    /\ rpc = "ready"
    /\ IF headerReady = 1
       THEN rpc' = "header" /\ UNCHANGED <<attempt, result, window, published>>
       ELSE /\ UNCHANGED published
            /\ IF published THEN Ends(Answer("Invalid")) /\ UNCHANGED attempt ELSE Retries(FALSE)
    /\ UNCHANGED <<block, owner, highest, before, at, copy, history>>

\* The header with the sequence word that follows it.
ReadHeader ==
    /\ rpc = "header"
    /\ before' = ownerSequence
    /\ IF header # "filled" \/ ownerSequence = 0 \/ ownerSequence < highest
       THEN Ends(Answer("Invalid")) /\ UNCHANGED <<published, highest, attempt, at>>
       ELSE /\ published' = TRUE /\ highest' = ownerSequence /\ at' = 1
            /\ IF Odd(ownerSequence) THEN Retries(TRUE)
               ELSE rpc' = "payload" /\ UNCHANGED <<attempt, result, window>>
    /\ UNCHANGED <<block, owner, copy, history>>

ReadWord ==
    /\ rpc = "payload" /\ at <= Words
    /\ copy' = [copy EXCEPT ![at] = payload[at]] /\ at' = at + 1
    /\ UNCHANGED <<block, owner, rpc, attempt, published, highest, before, result, history,
                   window>>

Unchanged == ownerSequence = before
ReadAfter ==
    /\ rpc = "payload" /\ at = Words + 1
    /\ IF ownerSequence < before \/ headerReady # 1 \/ header # "filled"
       THEN Ends(Answer("Invalid")) /\ UNCHANGED <<highest, attempt>>
       ELSE /\ highest' = ownerSequence
            /\ IF ~Unchanged THEN Retries(TRUE)
               ELSE /\ Ends(IF copy \in Valid THEN Coherent(copy) ELSE Answer("Invalid"))
                    /\ UNCHANGED attempt
    /\ UNCHANGED <<block, owner, published, before, at, copy, history>>

ReadFails ==
    /\ rpc # "idle" /\ Ends(Answer("ReadFailure"))
    /\ UNCHANGED <<block, owner, attempt, published, highest, before, at, copy, history>>

Owner ==
    \/ ClaimHeader \/ FillHeader \/ PublishRecoveryStatus \/ StorePayload \/ EndPublication
    \/ PublishHeader
Reader == BeginRead \/ ReadReady \/ ReadHeader \/ ReadWord \/ ReadAfter \/ ReadFails
Next == Owner \/ Reader
Spec == Init /\ [][Next]_vars
-----------------------------------------------------------------------------
(* Properties.                                                             *)

\* The block implements an atomic register with bounded, refusable reads: what
\* a coherent read returns was the current payload at a moment of that read, and
\* ReadRecoveryStatusSnapshot never accuses a healthy block.  Whatever the owner
\* does between two loads, the answer is a value, Busy, Unavailable or a failed
\* load, never Invalid, which tells an operator that the process is corrupt.
Atomic == INSTANCE AtomicStatus WITH
    Values   <- {Coherent(p) : p \in Valid},
    Absent   <- NoAnswer,
    Refusals <- {Answer("Busy"), Answer("Unavailable"), Answer("ReadFailure")},
    current  <- Current(history),
    window   <- window,
    answer   <- result
ImplementsAtomic == Atomic!Spec
=============================================================================
