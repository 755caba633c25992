------------------------ MODULE AuditLogRefinement ------------------------
(***************************************************************************)
(* AuditLog implements AtomicLog.  An entry is appended when the fragment  *)
(* that ends its line reaches the file, wherever the line starts.          *)
(***************************************************************************)
EXTENDS AuditLog

Ends == {i \in DOMAIN file : EndsLine(i)}
Completed == {file[i].line : i \in Ends}
Order ==
    {pair \in Completed \X Completed :
        \E i, j \in Ends : i < j /\ pair = <<file[i].line, file[j].line>>}
Open == {LineOf(t) : t \in {s \in Threads : pc[s] # "idle"}}

Promise == INSTANCE AtomicLog WITH
    Entries <- Lines,
    log     <- Completed,
    before  <- Order,
    open    <- Open,
    done    <- acked

(* audit.rs:288-296: callers cannot tell the locked, fragment-by-fragment   *)
(* writes from atomic appends: Ok means the line is in the log, lines       *)
(* acknowledged before a call come before its line, and a failed or crashed *)
(* call adds at most its own line.  Whether a torn line before it spoils a  *)
(* line for verify_log is the question of DamageIsContained.                *)
AppendsLookAtomic == Promise!Spec
=============================================================================
