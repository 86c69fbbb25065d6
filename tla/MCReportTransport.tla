-------------------------- MODULE MCReportTransport --------------------------
(* Model-checking instances of ReportTransport: the named sets of things   *)
(* the logger, the file and the rest of the process do in each run.        *)
EXTENDS ReportTransport

BadLogger     == {"drop", "duplicate", "garble", "throw", "unsafe", "unreadable", "stop",
                  "race"}
ChangingFile  == {"truncated", "suppressed"}
FaultsOutside == {"revoke", "clock", "stop"}
=============================================================================
