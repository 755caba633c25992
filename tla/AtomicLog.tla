----------------------------- MODULE AtomicLog -----------------------------
(***************************************************************************)
(* What the audit log promises its callers: between the call and the       *)
(* return of log() the entry is appended, whole, in one step; a call may   *)
(* also end without having appended anything.  The log is the set of its   *)
(* entries and the order they were appended in.                            *)
(***************************************************************************)
CONSTANT Entries

VARIABLES
    log,       \* the entries appended
    before,    \* the pairs of them of which the first came before the second
    open,      \* entries whose call has not returned
    done       \* entries whose call returned Ok

vars == <<log, before, open, done>>

Init == log = {} /\ before = {} /\ open = {} /\ done = {}

Invoke(e) ==
    /\ e \notin open \cup done \cup log
    /\ open' = open \cup {e}
    /\ UNCHANGED <<log, before, done>>

Put(e) ==
    /\ e \in open \ log
    /\ log' = log \cup {e}
    /\ before' = before \cup (log \X {e})
    /\ UNCHANGED <<open, done>>

(* Ok is returned only for an entry that is in the log.                     *)
Acknowledge(e) ==
    /\ e \in open \cap log
    /\ open' = open \ {e}
    /\ done' = done \cup {e}
    /\ UNCHANGED <<log, before>>

Abandon(lost) ==
    /\ lost \subseteq open
    /\ open' = open \ lost
    /\ UNCHANGED <<log, before, done>>

Next ==
    \/ \E e \in Entries : Invoke(e) \/ Put(e) \/ Acknowledge(e)
    \/ \E lost \in SUBSET open : Abandon(lost)

Spec == Init /\ [][Next]_vars
=============================================================================
