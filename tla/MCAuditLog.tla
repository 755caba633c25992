---------------------------- MODULE MCAuditLog ----------------------------
(***************************************************************************)
(* Bounded instances of AuditLog: an application with two threads and its  *)
(* watchdog process with one.                                              *)
(***************************************************************************)
EXTENDS AuditLogRefinement

CONSTANTS app, watchdog, t1, t2, w

MCProcesses == {app, watchdog}
MCThreads == {t1, t2, w}
MCProcessOf == [t \in MCThreads |-> IF t = w THEN watchdog ELSE app]

(* Off Linux: no file lock, and every thread in the application.            *)
MCOneProcess == {app}
MCOneProcessOf == [t \in MCThreads |-> app]
=============================================================================
