--------------------------- MODULE MCRunController ---------------------------
(* RunController with every call that may throw throwing.                   *)
EXTENDS RunController

AnyFault == FaultPoints
=============================================================================
