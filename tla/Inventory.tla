------------------------------- MODULE Inventory -------------------------------
(***************************************************************************)
(* The runtime inventory tool beside the server process it reports on.     *)
(* The tool holds no lock: it lists the loaded modules, identifies their   *)
(* files on disk, hashes the ones it must vouch for, reads the host's code *)
(* and the companion's status words from the live process, and after each  *)
(* of these asks again if what it looked at is still the same.  Meanwhile  *)
(* modules are loaded and unloaded, files replaced, the companion moves on *)
(* and the process may exit.                                               *)
(***************************************************************************)
EXTENDS Naturals, FiniteSets

CONSTANTS
    Modules, Companion,      \* the modules of our deployment; the companion is one
    Attempts,                \* at a stable list (3)
    MaxChanges               \* bound: loads, unloads and replaced files

ASSUME InventoryAssumption == Companion \in Modules /\ Attempts \in Nat \ {0} /\ MaxChanges \in Nat

VARIABLES
    alive, loaded, file, changes, corrected,   \* the process, its modules, the disk
    words,                                    \* the companion's words in memory
    tool, tries, todo, before,              \* the tool
    previous, current, inventory,
    finding, passed, tool_report,
    out,                                       \* the status it has read so far
    atLast,                                    \* history: the files at the last list
    latchedAtGates                             \* history: a latch was set when they were last read

disk == <<loaded, file, changes>>
process == <<alive, disk, corrected, words>>
capture == <<tries, todo, before, previous, current, inventory, atLast>>
verdict == <<finding, passed, tool_report>>
observed == <<out, latchedAtGates>>
inventoryVars == <<process, tool, capture, verdict, observed>>

Empty == [m \in {} |-> 0]
Missing == [id |-> 0, wanted |-> FALSE]
SameFileIdentity(a, b) == a.id = b.id
NewStatus == [published |-> FALSE, pinned |-> FALSE, ready |-> FALSE, latched |-> FALSE]
Unread == [header |-> 0, core |-> 0, ready |-> FALSE, latched |-> FALSE, state |-> "none"]

InventoryInit ==
    /\ alive = TRUE /\ changes = 1 /\ corrected \in BOOLEAN
    /\ loaded \in [Modules -> {0, 1}] /\ file = [m \in Modules |-> [id |-> 1, wanted |-> TRUE]]
    /\ words = NewStatus
    /\ tool = "open" /\ tries = 0 /\ todo = {} /\ before = Missing
    /\ previous = Empty /\ current = Empty /\ inventory = Empty /\ atLast = Empty
    /\ finding = FALSE /\ passed = FALSE /\ tool_report = "none" /\ out = Unread /\ latchedAtGates = FALSE
-----------------------------------------------------------------------------
(* The process and the disk.                                               *)

ToolAside == UNCHANGED <<tool, capture, verdict, observed>>
Change == changes < MaxChanges /\ changes' = changes + 1 /\ ToolAside
Loads(m) ==
    /\ alive /\ loaded[m] = 0 /\ file[m] # Missing /\ Change /\ loaded' = [loaded EXCEPT ![m] = changes']
    /\ words' = (IF m = Companion THEN NewStatus ELSE words) /\ UNCHANGED <<alive, file, corrected>>
Unloads(m) ==
    /\ alive /\ loaded[m] # 0 /\ (m = Companion => ~words.pinned) /\ Change
    /\ loaded' = [loaded EXCEPT ![m] = 0] /\ UNCHANGED <<alive, file, corrected, words>>
\* A file put in place of another has an identity that its path never had.
Replaces(m) ==
    /\ Change /\ UNCHANGED <<alive, loaded, corrected, words>>
    /\ \E new \in {Missing, [id |-> changes', wanted |-> TRUE], [id |-> changes', wanted |-> FALSE]} :
           file' = [file EXCEPT ![m] = new]
CompanionMoves ==
    /\ alive /\ loaded[Companion] # 0 /\ UNCHANGED <<alive, disk, corrected>> /\ ToolAside
    /\ \/ words' = [words EXCEPT !.published = TRUE]
       \/ words.published /\ words' = [words EXCEPT !.pinned = TRUE]
       \/ words.published /\ words' = [words EXCEPT !.ready = ~@ /\ ~words.latched]
       \/ words.published /\ words' = [words EXCEPT !.latched = TRUE]
Exits == alive /\ alive' = FALSE /\ UNCHANGED <<disk, corrected, words>> /\ ToolAside
\* Bound: what happens after the report is written is not followed.
Environment ==
    tool # "done" /\ ((\E m \in Modules : Loads(m) \/ Unloads(m) \/ Replaces(m)) \/ CompanionMoves \/ Exits)
-----------------------------------------------------------------------------
(* CaptureStableRuntimeInventory: two complete lists in a row that agree.  *)

Captures == UNCHANGED <<process, verdict, observed>>
ToolGoes(next) == tool' = next
Fails ==
    /\ ToolGoes("report") /\ finding' = TRUE
    /\ UNCHANGED <<process, capture, passed, tool_report, observed>>

OpenReader ==
    /\ tool = "open"
    /\ \/ Fails
       \/ alive /\ Captures /\ ToolGoes("list") /\ tries' = 1
          /\ UNCHANGED <<todo, before, previous, current, inventory, atLast>>
\* The modules are gone through in one order.
Chosen == CHOOSE m \in todo : TRUE

\* A list or a file that changed under the tool starts the count anew.
NextAttempt(list) ==
    /\ previous' = list /\ tries' = tries + 1 /\ ToolGoes(IF tries = Attempts THEN "unstable" ELSE "list")
    /\ todo' = {} /\ current' = Empty /\ before' = Missing /\ UNCHANGED <<inventory, atLast>> /\ Captures
Invalidated == NextAttempt(Empty)
Unstable == tool = "unstable" /\ Fails

Listed == {m \in Modules : loaded[m] # 0}
ListFails == tool \in {"list", "compare"} /\ ~alive /\ Fails
Enumerate ==
    /\ tool = "list" /\ alive
    /\ \/ Invalidated                                            \* ERROR_BAD_LENGTH
       \/ /\ todo' = Listed /\ current' = Empty /\ ToolGoes(IF Listed = {} THEN "compare" ELSE "query")
          /\ atLast' = [m \in Listed |-> file[m]] /\ Captures
          /\ UNCHANGED <<tries, before, previous, inventory>>
QueryFile ==
    /\ tool = "query" /\ LET m == Chosen IN
       IF file[m] = Missing THEN Invalidated
       ELSE /\ before' = file[m] /\ ToolGoes("reread") /\ Captures
            /\ UNCHANGED <<tries, todo, previous, current, inventory, atLast>>
\* The file is parsed and asked for its identity again.
ReadPe ==
    /\ tool = "reread" /\ LET m == Chosen IN
       IF ~SameFileIdentity(file[m], before) THEN Invalidated
       ELSE /\ current' = [x \in DOMAIN current \cup {m} |-> IF x = m THEN before ELSE current[x]]
            /\ todo' = todo \ {m} /\ before' = Missing
            /\ ToolGoes(IF todo' = {} THEN "compare" ELSE "query") /\ Captures
            /\ UNCHANGED <<tries, previous, inventory, atLast>>
ParseFails == tool = "reread" /\ Fails
SameNames(a, b) == DOMAIN a = DOMAIN b                           \* mutant
SameModules(a, b) == DOMAIN a = DOMAIN b /\ \A m \in DOMAIN a : SameFileIdentity(a[m], b[m])
CompareLists ==
    /\ tool = "compare" /\ alive
    /\ IF previous # Empty /\ SameModules(previous, current)
       THEN /\ inventory' = current /\ todo' = DOMAIN current /\ ToolGoes("validate")
            /\ previous' = Empty /\ current' = Empty /\ UNCHANGED <<tries, before, atLast>> /\ Captures
       ELSE NextAttempt(current)
-----------------------------------------------------------------------------
(* ValidateRuntimeInventory.                                               *)

Validates == UNCHANGED <<process, tries, previous, current, inventory, atLast, passed, tool_report, observed>>
ModuleSet ==
    /\ tool = "validate" /\ Validates /\ UNCHANGED <<todo, before>>
    /\ ToolGoes("hash") /\ finding' = (finding \/ DOMAIN inventory # Modules)
NextArtifact(m, found) ==
    /\ todo' = todo \ {m} /\ before' = Missing /\ finding' = (finding \/ found)
    /\ ToolGoes(IF todo' = {} THEN "recon" ELSE "hash")
\* StableHash: the listed identity, the hash of what is there, the identity again.
HashModule ==
    /\ tool = "hash" /\ Validates /\ LET m == Chosen IN
       IF SameFileIdentity(file[m], inventory[m]) THEN ToolGoes("content") /\ before' = file[m] /\ UNCHANGED <<todo, finding>>
       ELSE NextArtifact(m, TRUE)
HashFile ==
    /\ tool = "content" /\ Validates /\ LET m == Chosen IN
       IF file[m].wanted THEN ToolGoes("rehash") /\ UNCHANGED <<todo, before, finding>> ELSE NextArtifact(m, TRUE)
HashAgain ==
    /\ tool = "rehash" /\ Validates /\ LET m == Chosen IN
       IF SameFileIdentity(file[m], before) THEN ToolGoes("contract") /\ UNCHANGED <<todo, before, finding>>
       ELSE NextArtifact(m, TRUE)
Contract ==
    /\ tool = "contract" /\ Validates /\ LET m == Chosen IN
       \E valid \in {TRUE, file[m].wanted} : NextArtifact(m, ~valid \/ ~SameFileIdentity(file[m], inventory[m]))
\* The host's code is only read if nothing was found so far.
ObserveReconState ==
    /\ tool = "recon" /\ Validates /\ UNCHANGED <<todo, before>>
    /\ ToolGoes("verdict") /\ finding' = (finding \/ ~alive \/ ~corrected)
Passed ==
    /\ tool = "verdict" /\ passed' = (~finding /\ alive)
    /\ finding' = ~passed' /\ ToolGoes(IF Companion \in DOMAIN inventory THEN "unchanged" ELSE "report")
    /\ UNCHANGED <<process, capture, tool_report, observed>>
-----------------------------------------------------------------------------
(* ReadReportingStatus: the companion's words, from the live process.      *)

Reads == UNCHANGED <<process, capture, verdict>>
Mapped == alive /\ loaded[Companion] # 0
RejectStatus == ToolGoes("report") /\ out' = [Unread EXCEPT !.state = "invalid"] /\ UNCHANGED latchedAtGates
Instance == IF words.published THEN loaded[Companion] ELSE 0
StatusModuleUnchanged == Mapped /\ SameFileIdentity(file[Companion], inventory[Companion]) /\ file[Companion].wanted

ReadRejected == tool \in {"identity", "header", "core", "again", "gates", "final", "sticky"} /\ ~Mapped /\ Reads /\ RejectStatus
CheckModule ==
    /\ tool \in {"unchanged", "requalify", "unchangedAfter"} /\ Reads
    /\ IF ~StatusModuleUnchanged THEN RejectStatus
       ELSE /\ ToolGoes(CASE tool = "unchanged" -> "identity" [] tool = "requalify" -> "header"
                      [] tool = "unchangedAfter" -> "final")
            /\ UNCHANGED observed
\* The identity on its own, with the recovery words under it, then both again.
ReadIdentity ==
    /\ tool = "identity" /\ Mapped /\ Reads /\ UNCHANGED latchedAtGates
    /\ out' = [out EXCEPT !.header = Instance] /\ ToolGoes(IF Instance = 0 THEN "header" ELSE "recovery")
Requalify ==
    /\ tool = "recovery" /\ Reads
    /\ IF Mapped /\ Instance = out.header THEN ToolGoes("requalify") /\ UNCHANGED observed ELSE RejectStatus
\* ReadStatusSnapshotV3: gates and header, the core, gates and header again.
ReadHeader ==
    /\ tool = "header" /\ Mapped /\ Reads /\ UNCHANGED latchedAtGates
    /\ out' = [out EXCEPT !.header = Instance, !.latched = @ \/ words.latched]
    /\ ToolGoes(IF Instance = 0 THEN "unchangedAfter" ELSE "core")
ReadCore ==
    /\ tool = "core" /\ Mapped /\ Reads /\ UNCHANGED latchedAtGates
    /\ \/ out' = [out EXCEPT !.core = loaded[Companion], !.ready = words.ready] /\ ToolGoes("again")
       \/ UNCHANGED out /\ ToolGoes("unchangedAfter")                \* busy: no core
SameHeader == Instance = out.header
ReadHeaderAgain ==
    /\ tool = "again" /\ Mapped /\ Reads
    /\ IF SameHeader THEN ToolGoes("gates") /\ UNCHANGED observed ELSE RejectStatus
ReadGates ==
    /\ tool = "gates" /\ Mapped /\ Reads /\ UNCHANGED latchedAtGates /\ ToolGoes("unchangedAfter")
    /\ out' = [out EXCEPT !.latched = @ \/ words.latched]
FinalHeader ==
    /\ tool = "final" /\ Mapped /\ Reads
    /\ IF out.header # 0 /\ Instance # out.header THEN RejectStatus ELSE ToolGoes("sticky") /\ UNCHANGED observed
\* Whatever a gate has said at any time stands.
AccumulateSticky == out.latched \/ words.latched
ReadSticky ==
    /\ tool = "sticky" /\ Mapped /\ Reads /\ ToolGoes("state")
    /\ latchedAtGates' = (words.latched /\ Instance = out.header)
    /\ out' = [out EXCEPT !.latched = AccumulateSticky]
ReportingState ==
    /\ tool = "state" /\ Reads /\ UNCHANGED latchedAtGates /\ ToolGoes("report")
    /\ out' = [out EXCEPT !.state =
           CASE out.latched -> "revoked" [] ~out.latched /\ out.header = 0 -> "uninitialized"
             [] ~out.latched /\ out.header # 0 /\ out.core = 0 -> "busy"
             [] ~out.latched /\ out.header # 0 /\ out.core # 0 /\ ~out.ready -> "not-ready"
             [] ~out.latched /\ out.header # 0 /\ out.core # 0 /\ out.ready -> "ready"]
-----------------------------------------------------------------------------
WriteRuntimeInventoryReport ==
    /\ tool = "report" /\ tool_report' = (IF passed /\ alive THEN "pass" ELSE "unsafe") /\ ToolGoes("done")
    /\ UNCHANGED <<process, capture, finding, passed, observed>>

Capture == \/ OpenReader \/ Unstable \/ ListFails \/ Enumerate \/ QueryFile \/ ReadPe \/ ParseFails \/ CompareLists
Validation == ModuleSet \/ HashModule \/ HashFile \/ HashAgain \/ Contract \/ ObserveReconState \/ Passed
ReadStatus == \/ ReadRejected \/ CheckModule \/ ReadIdentity \/ Requalify \/ ReadHeader \/ ReadCore
              \/ ReadHeaderAgain \/ ReadGates \/ FinalHeader \/ ReadSticky \/ ReportingState
InventoryNext == Environment \/ Capture \/ Validation \/ ReadStatus \/ WriteRuntimeInventoryReport
InventorySpec == InventoryInit /\ [][InventoryNext]_inventoryVars
-----------------------------------------------------------------------------
(* Properties.                                                             *)

\* The inventory the tool accepts was the truth at one instant of its run: exactly
\* these modules loaded, and these very files under their paths.
AcceptedWasTrue == inventory # Empty => inventory = atLast

\* A pass vouches for the files of the inventory: each of them has the contents asked
\* for, not a file that stood in its place while it was hashed.
PassIsOfInventory == tool_report = "pass" => \A m \in Modules : inventory[m].wanted

\* A status reported ready was read whole from one loaded companion, and no latch of
\* that companion was set when the tool read them last.
ReadyIsOfOne == out.state = "ready" => out.core = out.header /\ ~latchedAtGates

\* What the tool accepts was so: the inventory at one instant of its run, a pass
\* for the files of that inventory, a ready status of one companion.
InventoryWasTrue == AcceptedWasTrue /\ PassIsOfInventory /\ ReadyIsOfOne
=============================================================================
