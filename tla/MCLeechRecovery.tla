--------------------------- MODULE MCLeechRecovery ---------------------------
(* Model-checking instances of LeechRecovery.  RecordCap is the code's own *)
(* nine; MaxRequests bounds the requests a process serves.                 *)
EXTENDS LeechRecovery

Quiet == {}
Rough == {"throw", "foreign", "unsupported", "clock", "pause", "revoke"}
=============================================================================
