---------------------------- MODULE MCLeechControl ----------------------------
(***************************************************************************)
(* The two workers beside the owner thread, one at a time: the control     *)
(* endpoint's and the console's.  They share no state, so a behaviour goes *)
(* through one of them while the other rests.  Schema 2 with the console   *)
(* is the larger instance of LeechControl; its proofs cover both.          *)
(***************************************************************************)
EXTENDS LeechControl, ConsoleNotice

VARIABLE part

InEndpoint(step) == part = "endpoint" /\ step /\ UNCHANGED <<part, consoleVars>>
InConsole(step)  == part = "console" /\ step /\ UNCHANGED <<part, vars>>

WorkersInit == part \in {"endpoint", "console"} /\ Init /\ ConsoleInit
WorkersNext == InEndpoint(Next) \/ InConsole(NoticeNext)

\* Each part's fairness is its module's (FairSpec, ConsoleFairSpec).
WorkersSpec ==
    /\ WorkersInit /\ [][WorkersNext]_<<part, vars, consoleVars>>
    /\ WF_vars(InEndpoint(WorkerNext))
    /\ WF_consoleVars(InConsole(ConsoleWorker))
    /\ WF_consoleVars(InConsole(SecondPasses))
    /\ SF_consoleVars(InConsole(BeginCycle /\ seenRecovery' # None))
    /\ SF_consoleVars(InConsole(Sample))
    /\ SF_consoleVars(InConsole(Sample /\ seenRecovery # None))
    /\ SF_consoleVars(InConsole(Attempt))
    /\ SF_consoleVars(InConsole(WriteOk))
===============================================================================
