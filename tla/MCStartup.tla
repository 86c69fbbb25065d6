------------------------------ MODULE MCStartup ------------------------------
(***************************************************************************)
(* The process at its start, one at a time: the startup, with every mode   *)
(* and image and a second call of the host; the resolution of the genuine  *)
(* library by concurrent calls; and the inventory an outside tool takes of *)
(* the process.  A behaviour goes through one while the others rest.       *)
(***************************************************************************)
EXTENDS Startup, GenuineResolver, Inventory

VARIABLE part

InStartup(step)  == part = "startup" /\ step /\ UNCHANGED <<part, resolverVars, inventoryVars>>
InResolver(step) == part = "resolver" /\ step /\ UNCHANGED <<part, startupVars, inventoryVars>>
InTool(step)     == part = "tool" /\ step /\ UNCHANGED <<part, startupVars, resolverVars>>

HostInit ==
    /\ part \in {"startup", "resolver", "tool"}
    /\ StartupInit /\ ResolverInit /\ InventoryInit
    /\ part # "tool" => ~corrected /\ \A m \in Modules : loaded[m] = 0
    /\ part # "startup" => mode = "Active" /\ found = <<"original", "RX">>
HostNext == InStartup(StartupNext) \/ InResolver(ResolverNext) \/ InTool(InventoryNext)

\* Fair to the startup thread (StartupSpec) and to one caller of the library only
\* (ResolverSpec): the others may stop wherever they are.
HostSpec ==
    /\ HostInit /\ [][HostNext]_<<part, startupVars, resolverVars, inventoryVars>>
    /\ WF_startupVars(InStartup(Thread))
    /\ WF_resolverVars(InResolver(NoneFailed /\ Step(Unhurried)))

\* The host's calls come back: the startup's, or its process ends (Startup), and
\* an exported one although every other caller has stopped (GenuineResolver).
CallsReturn == CallReturns /\ NeverWaits
=============================================================================
