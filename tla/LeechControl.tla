---------------------------- MODULE LeechControl ----------------------------
(***************************************************************************)
(* The control endpoint of the leech recovery: one word, `latched', is     *)
(* claimed with compare-and-swap by the pipe worker's thread or by the     *)
(* console command on the owner thread, is read by the owner, and is given *)
(* back by the owner alone, only under schema 2 and only for a request     *)
(* rejected before any native call.  The worker also closes the endpoint   *)
(* for good, by a terminal `result', on a bad peer or message.             *)
(*                                                                         *)
(* The owner's treatment of a request is abstract here: it serves it and   *)
(* then releases or spends it.  LeechRecovery has the whole of it.         *)
(* Interlocked operations are the grain of atomicity: what the code        *)
(* decides from one and does in a later one are two steps.                 *)
(***************************************************************************)
EXTENDS Naturals

CONSTANTS
    Schema,            \* scope.schema: 1 the one-shot training, 2 the pilot
    ConsoleRequested   \* the console opt-in of the configuration

ASSUME ControlAssumption == Schema \in {1, 2} /\ ConsoleRequested \in BOOLEAN

VARIABLES
    enabled, started, stop,   \* ControlState
    result, latched, registration,
    wpc, verdict,             \* the pipe worker: its place and its local result
    opc,                      \* the owner thread inside a claim or a release
    owner, served,            \* the owner's view of the request
    spoiled                   \* history: a peer, message or pipe operation was bad

worker  == <<wpc, verdict, spoiled>>
request == <<owner, served>>
control == <<enabled, started, stop, result, latched, registration>>
vars    == <<control, worker, opc, request>>

Origins == {"Pipe", "Console"}
Failures == {"ReadFailure", "SecurityRejected", "InvalidRequest", "WorkerFailure"}
Verdicts == Failures \cup {"Latched", "AlreadyClaimed", "Stopped"}

Init ==
    /\ enabled = FALSE /\ started = FALSE /\ stop = FALSE
    /\ result = "Uninitialized" /\ latched = "None" /\ registration = "NotRegistered"
    /\ wpc = "none" /\ verdict = "Latched" /\ spoiled = FALSE
    /\ opc = "idle" /\ owner = "open" /\ served = "None"
-----------------------------------------------------------------------------
(* Start and stop.                                                         *)

\* What each stage of InitializeControl answers where it ends there: the token of
\* the process, an object's owner and access list, the file's handle, its bytes,
\* their meaning, the pipe and its events.
AdministratorIdentity == {"SecurityRejected"}
ObserveSecurity       == {"SecurityRejected"}
FileMetadata          == {"InvalidPath"}
ReadBounded           == FileMetadata \cup {"PendingWrite", "Missing", "ReadFailure"}
ParseControlConfig    == {"InvalidConfig", "Disabled"}
PreparePipe ==
    {"InvalidPath", "EndpointUnavailable", "WorkerFailure"} \cup ObserveSecurity

\* Run, root directories and operator are those of the process, or it is refused.
InitializeRefused ==
    {"InvalidIdentity", "InvalidPath", "InvalidConfig"} \cup AdministratorIdentity
        \cup ReadBounded \cup ParseControlConfig \cup FileMetadata \cup PreparePipe

\* Some of these are also verdicts of a worker, which a refused endpoint never has.
InitializeControl ==
    /\ ~enabled /\ ~started /\ result = "Uninitialized" /\ opc = "idle"
    /\ \/ result' = "Ready" /\ enabled' = TRUE
       \/ result' \in InitializeRefused /\ enabled' = enabled
    /\ UNCHANGED <<started, stop, latched, registration, worker, opc, request>>

StartControl ==
    /\ enabled /\ result = "Ready" /\ ~stop /\ ~started /\ opc = "idle"
    /\ started' = TRUE
    /\ \/ wpc' = "connect" /\ UNCHANGED <<enabled, result>>
       \/ enabled' = FALSE /\ result' = "WorkerFailure" /\ wpc' = wpc
    /\ UNCHANGED <<stop, latched, registration, verdict, spoiled, opc, request>>

StopControl ==
    /\ ~stop /\ stop' = TRUE
    /\ UNCHANGED <<enabled, started, result, latched, registration, worker, opc, request>>
-----------------------------------------------------------------------------
(* ClaimControl and ReadLatchedControl.                                    *)

ConsoleAuthority ==
    ConsoleRequested /\ registration = "Available" /\ Schema = 2

ClaimAllowed(origin) ==
    /\ enabled /\ started /\ ~stop /\ result = "Ready"
    /\ origin = "Console" => ConsoleAuthority

Swap(origin) == latched' = IF latched = "None" THEN origin ELSE latched

ReadLatched == latched = "Pipe" \/ (latched = "Console" /\ ConsoleAuthority)
-----------------------------------------------------------------------------
(* The pipe worker: ReceivePipe in a loop.                                 *)

Ends(v) == verdict' = v /\ wpc' = "disconnect"
OrStopped(v) == IF stop THEN "Stopped" ELSE v

ClientConnects ==
    /\ wpc = "connect" /\ wpc' = "read"
    /\ UNCHANGED <<control, verdict, spoiled, opc, request>>

ConnectFails ==
    /\ wpc = "connect" /\ ~stop
    /\ \E v \in {"ReadFailure", "WorkerFailure"} : Ends(v)
    /\ spoiled' = TRUE
    /\ UNCHANGED <<control, opc, request>>

ConnectUnaware == FALSE                       \* mutant
\* The stop event ends the wait for a client.
ConnectStopped ==
    /\ wpc = "connect" /\ stop /\ Ends("Stopped")
    /\ UNCHANGED <<control, spoiled, opc, request>>

MessageArrives ==
    /\ wpc = "read" /\ wpc' = "check"
    /\ UNCHANGED <<control, verdict, spoiled, opc, request>>

\* Ten seconds pass, the pipe breaks, the message is too long, or a stop.
ReadFails ==
    /\ wpc = "read"
    /\ \E v \in {"ReadFailure", "InvalidRequest", "WorkerFailure"} : Ends(OrStopped(v))
    /\ spoiled' = (spoiled \/ ~stop)
    /\ UNCHANGED <<control, opc, request>>

CheckStopped ==
    /\ wpc = "check" /\ stop /\ Ends("Stopped")
    /\ UNCHANGED <<control, spoiled, opc, request>>

\* AuthenticatePeer, then ParseControlRequest.
PeerRejected ==
    /\ wpc = "check" /\ ~stop
    /\ \E v \in {"SecurityRejected", "InvalidRequest"} : Ends(v)
    /\ spoiled' = TRUE
    /\ UNCHANGED <<control, opc, request>>

PeerAccepted ==
    /\ wpc = "check" /\ ~stop /\ wpc' = "claim"
    /\ UNCHANGED <<control, verdict, spoiled, opc, request>>

PipeGuards ==
    /\ wpc = "claim"
    /\ wpc' = IF ClaimAllowed("Pipe") THEN "swap" ELSE "lost"
    /\ UNCHANGED <<control, verdict, spoiled, opc, request>>

PipeClaims ==
    /\ wpc = "swap"
    /\ Swap("Pipe")
    /\ IF latched = "None" THEN Ends("Latched") ELSE wpc' = "lost" /\ verdict' = verdict
    /\ UNCHANGED <<enabled, started, stop, result, registration, spoiled, opc, request>>

\* Under schema 2 the owner may have released the claim since: no second look.
LostVerdictReread ==                          \* mutant
    IF latched # "None" THEN "AlreadyClaimed" ELSE "InvalidRequest"
LostVerdict ==
    IF Schema = 2 \/ latched # "None" THEN "AlreadyClaimed" ELSE "InvalidRequest"

PipeLost ==
    /\ wpc = "lost"
    /\ Ends(OrStopped(LostVerdict))
    /\ UNCHANGED <<control, spoiled, opc, request>>

Disconnect ==
    /\ wpc = "disconnect"
    /\ wpc' = IF Schema = 2 /\ verdict \in {"Latched", "AlreadyClaimed"} /\ ~stop
              THEN "connect" ELSE "exit"
    /\ UNCHANGED <<control, verdict, spoiled, opc, request>>

DisconnectFails ==
    /\ wpc = "disconnect" /\ wpc' = "exit"
    /\ verdict' = "WorkerFailure" /\ spoiled' = TRUE
    /\ UNCHANGED <<control, opc, request>>

WorkerEnds ==
    /\ wpc = "exit" /\ wpc' = "post"
    /\ verdict' = OrStopped(verdict)
    /\ UNCHANGED <<control, spoiled, opc, request>>

WorkerPosts ==
    /\ wpc = "post" /\ wpc' = "done"
    /\ result' = verdict
    /\ UNCHANGED <<enabled, started, stop, latched, registration, verdict, spoiled, opc,
                   request>>
-----------------------------------------------------------------------------
(* The owner thread: the console, and the request it serves.               *)

RegisterConsole ==
    /\ opc = "idle" /\ owner = "open" /\ started /\ ~stop /\ result = "Ready"
    /\ ConsoleRequested /\ Schema = 2 /\ registration = "NotRegistered"
    /\ registration' \in {"Available", "Unavailable"}
    /\ UNCHANGED <<enabled, started, stop, result, latched, worker, opc, request>>

ConsoleGuards ==
    /\ opc = "idle" /\ ClaimAllowed("Console") /\ opc' = "claim"
    /\ UNCHANGED <<control, worker, request>>

ConsoleClaims ==
    /\ opc = "claim" /\ opc' = "idle"
    /\ Swap("Console")
    /\ UNCHANGED <<enabled, started, stop, result, registration, worker, request>>

\* The native reply unwinds: the console is withdrawn for good.
ConsoleWithdrawn ==
    /\ opc = "idle" /\ registration = "Available" /\ registration' = "Unavailable"
    /\ UNCHANGED <<enabled, started, stop, result, latched, worker, opc, request>>

ServeRequest ==
    /\ opc = "idle" /\ owner = "open" /\ ReadLatched
    /\ owner' = "serving" /\ served' = latched
    /\ UNCHANGED <<control, worker, opc>>

\* A claim that cannot be read, an endpoint that closed or a fault of the
\* recovery's own ends the service for good.
RefuseRequest ==
    /\ opc = "idle" /\ owner = "open" /\ owner' = "spent"
    /\ UNCHANGED <<control, worker, opc, served>>

SpendRequest ==
    /\ opc = "idle" /\ owner = "serving" /\ owner' = "spent"
    /\ UNCHANGED <<control, worker, opc, served>>

\* ReleasePreflightClaim.
ReleaseAllowed ==
    Schema = 2 /\ enabled /\ started /\ ~stop /\ result = "Ready"

ReleaseGuards ==
    /\ opc = "idle" /\ owner = "serving" /\ ReleaseAllowed
    /\ opc' = "release"
    /\ UNCHANGED <<control, worker, request>>

ReleaseClaimEarly ==                          \* mutant
    /\ opc = "release" /\ opc' = "idle"
    /\ latched' = "None"
    /\ UNCHANGED <<enabled, started, stop, result, registration, worker, request>>
ReleaseClaim ==
    /\ opc = "release" /\ opc' = "idle"
    /\ latched' = "None" /\ owner' = "open" /\ served' = "None"
    /\ UNCHANGED <<enabled, started, stop, result, registration, worker>>
-----------------------------------------------------------------------------
WorkerNext ==
    \/ ConnectStopped \/ MessageArrives \/ ReadFails \/ CheckStopped \/ PeerRejected
    \/ PeerAccepted \/ PipeGuards \/ PipeClaims \/ PipeLost \/ Disconnect
    \/ DisconnectFails \/ WorkerEnds \/ WorkerPosts
ClientNext == ClientConnects \/ ConnectFails
ConsoleNext == RegisterConsole \/ ConsoleGuards \/ ConsoleClaims \/ ConsoleWithdrawn
OwnerNext ==
    \/ InitializeControl \/ StartControl
    \/ ServeRequest \/ RefuseRequest \/ SpendRequest \/ ReleaseGuards \/ ReleaseClaim

Next == StopControl \/ WorkerNext \/ ClientNext \/ ConsoleNext \/ OwnerNext

\* The worker is a thread of its own; its read is bounded by a timeout, its
\* wait for a client is not.
Spec == Init /\ [][Next]_vars
FairSpec == Spec /\ WF_vars(WorkerNext)
-----------------------------------------------------------------------------
(* Properties.                                                             *)

TypeOK ==
    /\ enabled \in BOOLEAN /\ started \in BOOLEAN /\ stop \in BOOLEAN
    /\ result \in {"Uninitialized", "Ready"} \cup InitializeRefused \cup Verdicts
    /\ latched \in Origins \cup {"None"}
    /\ registration \in {"NotRegistered", "Available", "Unavailable"}
    /\ wpc \in {"none", "connect", "read", "check", "claim", "swap", "lost",
                "disconnect", "exit", "post", "done"}
    /\ verdict \in Verdicts /\ spoiled \in BOOLEAN
    /\ opc \in {"idle", "claim", "release"}
    /\ owner \in {"open", "serving", "spent"} /\ served \in Origins \cup {"None"}

\* The request being served keeps its claim, and with it its origin, however
\* the pipe and the console compete for the latch meanwhile (ClaimControl,
\* "no competing writer can overwrite another request's payload").
ServedClaimHeld ==
    owner = "serving" => served \in Origins /\ latched = served

\* A valid message that merely lost the race for the latch never closes the
\* endpoint as a malformed one: a failure result has a bad peer, message or pipe
\* behind it (ReceivePipe after ClaimControl; Worker).
EndpointClosesForCause ==
    result \in Failures => spoiled \/ ~enabled

\* A claim is never replaced, and it ends only when the owner gives back the
\* very request it serves, under schema 2 (ClaimControl, ReleasePreflightClaim).
ClaimsAreExclusive ==
    [][latched # "None" /\ latched' # latched =>
          latched' = "None" /\ owner = "serving" /\ served = latched /\ Schema = 2]_vars

\* Once stopped, with the worker gone and no claim in flight on the owner
\* thread, nobody can open a request any more (StopControl, ClaimControl).
StopSeals ==
    [][stop /\ wpc = "done" /\ opc = "idle" /\ latched = "None" =>
          latched' = "None" /\ opc' # "claim"]_vars

\* A stop ends the worker wherever it is, blocked in a wait or not, so that the
\* pipe is closed (StopControl, WaitPipeIo, Worker).
StopEndsWorker == stop ~> wpc \in {"none", "done"}

\* A stop is final: the worker goes, and nothing is opened after it.
StopIsFinal == StopEndsWorker /\ StopSeals
=============================================================================
