--------------------------- MODULE MCCronScheduler ---------------------------
(***************************************************************************)
(* CronScheduler with a task of the plugin's own and one that drives a URL *)
(* it was configured with, both listed or neither.                         *)
(***************************************************************************)
EXTENDS CronScheduler

AllOrNone == {{}, Tasks}
MCKind == [t \in Tasks |-> IF t = "http" THEN "http" ELSE "renewal"]

=============================================================================
