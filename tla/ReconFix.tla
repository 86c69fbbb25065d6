------------------------------ MODULE ReconFix ------------------------------
(***************************************************************************)
(* The recon correction: a transaction on one operand of the host's code,  *)
(* run once at startup, and what the startup makes of its outcome.         *)
(*                                                                         *)
(* The operating system's calls may fail with or without their effect, and *)
(* may claim success without it.  A read of the image tells the truth or   *)
(* fails, so a check that passes proves its fact and a check that fails    *)
(* proves nothing.  `fetch' is the set of versions of the function that a  *)
(* processor may still execute: a write adds one, a flush leaves only the  *)
(* bytes in memory.                                                        *)
(***************************************************************************)
EXTENDS Naturals

VARIABLES
    mode,       \* kCompiledMode
    bytes,      \* the function's code in memory
    prot,       \* the protection of its pages
    fetch,      \* versions the processors may fetch
    attempted,  \* writeAttempted
    pc,         \* the place in RunReconFix
    outcome,    \* ReconResult.outcome
    host,       \* the host process: starting, running or terminated
    reporting,  \* the observer or the reporting was started
    found       \* history: the image as it was found

image == <<bytes, prot, fetch>>
vars  == <<mode, image, attempted, pc, outcome, host, reporting, found>>

Versions == {"original", "corrected", "other"}
Writable == {"RWX", "WriteCopy"}
Protections == {"RX", "other"} \cup Writable
Outcomes == {"Passive", "Disabled", "Active", "RolledBack", "Fatal"}

Init ==
    /\ mode \in {"Passive", "Active"}
    /\ bytes \in {"original", "other"} /\ prot \in {"RX", "RWX", "other"}
    /\ fetch = {bytes} /\ found = <<bytes, prot>>
    /\ attempted = FALSE /\ pc = "qualify" /\ outcome = "Disabled"
    /\ host = "starting" /\ reporting = FALSE
-----------------------------------------------------------------------------
(* The calls of ReconOps.                                                  *)

protect(p) ==
    /\ prot' \in {prot, p} \cup (IF p = "RWX" THEN {"WriteCopy"} ELSE {})
    /\ UNCHANGED <<bytes, fetch>>

writeDword(b) ==
    /\ bytes' \in {bytes, b} /\ fetch' = fetch \cup {bytes'} /\ prot' = prot

OriginalState == bytes = "original" /\ prot = "RX"

Returns(o) == pc' = "done" /\ outcome' = o
Goes(p) == pc' = p /\ outcome' = outcome
Unmoved == UNCHANGED <<mode, host, reporting, found>>
-----------------------------------------------------------------------------
(* RunReconFix: qualification, the writable window, the correction.        *)

\* Contract, host digest, startup gate, protection, code, constant or the
\* identity of the host file do not match, or cannot be read.
Unqualified ==
    /\ pc = "qualify" /\ Returns("Disabled")
    /\ UNCHANGED <<image, attempted>> /\ Unmoved

Qualified ==
    /\ pc = "qualify" /\ OriginalState
    /\ IF mode = "Passive" THEN Returns("Passive") ELSE Goes("protect")
    /\ UNCHANGED <<image, attempted>> /\ Unmoved

OpenWindow ==
    /\ pc = "protect" /\ protect("RWX")
    /\ \/ prot' \in Writable /\ Goes("window")
       \/ Goes("refused")
       \/ Goes("recover")
    /\ UNCHANGED attempted /\ Unmoved

\* The call failed: harmless if the original state can be proved.
ProtectRefused ==
    /\ pc = "refused"
    /\ \/ OriginalState /\ Returns("Disabled")
       \/ Goes("recover")
    /\ UNCHANGED <<image, attempted>> /\ Unmoved

\* The thread, the startup stage and the code once more.
CheckWindow ==
    /\ pc = "window"
    /\ \/ bytes = "original" /\ Goes("write")
       \/ Goes("recover")
    /\ UNCHANGED <<image, attempted>> /\ Unmoved

\* writeAttempted is set before the call; readback and constant follow it.
WriteCorrection ==
    /\ pc = "write" /\ attempted' = TRUE
    /\ writeDword("corrected")
    /\ \/ bytes' = "corrected" /\ Goes("restore")
       \/ Goes("rollback")
    /\ Unmoved

RestoreProtection ==
    /\ pc = "restore" /\ protect("RX")
    /\ \/ prot' = "RX" /\ bytes = "corrected" /\ Goes("flush")
       \/ Goes("rollback")
    /\ UNCHANGED attempted /\ Unmoved

FlushIgnored ==                               \* mutant
    /\ pc = "flush" /\ fetch' \in {fetch, {bytes}} /\ Goes("validate")
    /\ UNCHANGED <<bytes, prot, attempted>> /\ Unmoved
FlushCorrection ==
    /\ pc = "flush"
    /\ \/ fetch' = {bytes} /\ Goes("validate")
       \/ fetch' \in {fetch, {bytes}} /\ Goes("rollback")
    /\ UNCHANGED <<bytes, prot, attempted>> /\ Unmoved

\* The same retained file handle once more.
ValidateHost ==
    /\ pc = "validate"
    /\ Returns("Active") \/ Goes("rollback")
    /\ UNCHANGED <<image, attempted>> /\ Unmoved
-----------------------------------------------------------------------------
(* RecoverWithoutWrite and Rollback.                                       *)

RecoverWithoutWrite ==
    /\ pc = "recover"
    /\ \/ OriginalState /\ Returns("Disabled")
       \/ prot \in Writable /\ Goes("reprotect")
       \/ Returns("Fatal")
    /\ UNCHANGED <<image, attempted>> /\ Unmoved

Reprotect ==
    /\ pc = "reprotect" /\ protect("RX")
    /\ \/ bytes = "original" /\ prot' = "RX" /\ Returns("Disabled")
       \/ Returns("Fatal")
    /\ UNCHANGED attempted /\ Unmoved

RollbackInsists ==                            \* mutant
    /\ pc = "rollback" /\ protect("RWX")
    /\ \/ prot' \in Writable /\ Goes("rewrite")
       \/ Goes("rollback")
    /\ UNCHANGED attempted /\ Unmoved
RollbackOpens ==
    /\ pc = "rollback" /\ protect("RWX")
    /\ \/ prot' \in Writable /\ Goes("rewrite")
       \/ Returns("Fatal")
    /\ UNCHANGED attempted /\ Unmoved

RollbackWrites ==
    /\ pc = "rewrite" /\ writeDword("original")
    /\ \/ bytes' = "original" /\ Goes("reclose")
       \/ Returns("Fatal")
    /\ UNCHANGED attempted /\ Unmoved

RollbackCloses ==
    /\ pc = "reclose" /\ protect("RX")
    /\ \/ prot' = "RX" /\ bytes = "original" /\ Goes("reflush")
       \/ Returns("Fatal")
    /\ UNCHANGED attempted /\ Unmoved

RollbackFlushes ==
    /\ pc = "reflush"
    /\ \/ fetch' = {bytes} /\ Returns("RolledBack")
       \/ fetch' \in {fetch, {bytes}} /\ Returns("Fatal")
    /\ UNCHANGED <<bytes, prot, attempted>> /\ Unmoved
-----------------------------------------------------------------------------
\* RunCompanionInitialization: a fatal outcome ends the process; otherwise the
\* marker is written or not, and only an accepted correction starts the rest.
Conclude ==
    /\ pc = "done" /\ host = "starting"
    /\ host' = IF outcome = "Fatal" THEN "terminated" ELSE "running"
    /\ \E written \in BOOLEAN : reporting' = (written /\ outcome = "Active")
    /\ UNCHANGED <<mode, image, attempted, pc, outcome, found>>

Transaction ==
    \/ Unqualified \/ Qualified \/ OpenWindow \/ ProtectRefused \/ CheckWindow
    \/ WriteCorrection \/ RestoreProtection \/ FlushCorrection \/ ValidateHost
    \/ RecoverWithoutWrite \/ Reprotect
    \/ RollbackOpens \/ RollbackWrites \/ RollbackCloses \/ RollbackFlushes

Next == Transaction \/ Conclude

\* One thread runs straight through.
Spec == Init /\ [][Next]_vars
-----------------------------------------------------------------------------
(* Properties.                                                             *)

TypeOK ==
    /\ mode \in {"Passive", "Active"}
    /\ bytes \in Versions /\ prot \in Protections /\ fetch \in SUBSET Versions
    /\ attempted \in BOOLEAN /\ outcome \in Outcomes /\ reporting \in BOOLEAN
    /\ pc \in {"qualify", "protect", "refused", "window", "write", "restore", "flush",
               "validate", "recover", "reprotect", "rollback", "rewrite", "reclose",
               "reflush", "done"}
    /\ host \in {"starting", "running", "terminated"}
    /\ found \in Versions \X Protections

\* The host never goes on "with an uncertain patch state" (README.md:90-92): it
\* runs the correction, in memory, protected and fetched by every processor, and
\* says so, or it runs exactly what was found.
CertainImage ==
    host = "running" =>
        /\ fetch = {bytes}
        /\ IF outcome = "Active" THEN bytes = "corrected" /\ prot = "RX"
                                 ELSE <<bytes, prot>> = found /\ ~reporting

\* The code is only ever stored to while its page was seen writable: never a
\* fault on the host's startup thread (WritableCode before each writeDword).
WriteInWindow == [][bytes' # bytes => prot \in Writable]_vars
=============================================================================
