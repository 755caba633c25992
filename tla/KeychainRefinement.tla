------------------------ MODULE KeychainRefinement ------------------------
(***************************************************************************)
(* Keychain implements SecretStore.  A call acts when the platform acts on *)
(* the request that counts; what helpers their calls gave up may still do  *)
(* is the stray work of the store.                                         *)
(***************************************************************************)
EXTENDS Keychain

(* The call has had its effect: its request acted, and the request was the  *)
(* one that counts.  A keyctl delete whose search found nothing is done.    *)
HasActed(c) ==
    /\ pc[c] = "told"
    /\ \/ reply[c].exit = "success" /\ request[c].do # "search"
       \/ reply[c].exit = "absent" /\ op[c].op = "delete"

IsFor(l, o) ==
    \/ l.request.do = "write" /\ o = [op |-> "store", secret |-> l.request.bytes.secret]
    \/ l.request.do = "remove" /\ o = [op |-> "delete", secret |-> NoSecret]

StatusOf(c) ==
    CASE pc[c] = "idle" -> "out"
      [] HasActed(c)    -> "done"
      [] OTHER          -> "called"

SeenBy(c) == IF HasActed(c) THEN reply[c].bytes.secret ELSE NoSecret

AnswerOf(c) == [result |-> answer[c].result, secret |-> answer[c].bytes.secret]

Owed(o) == Cardinality({l \in late : IsFor(l, o)})

Promise == INSTANCE SecretStore WITH
    Nothing <- NoOperation,
    value   <- entry.secret,
    asked   <- op,
    status  <- [c \in Callers |-> StatusOf(c)],
    seen    <- [c \in Callers |-> SeenBy(c)],
    answer  <- [c \in Callers |-> AnswerOf(c)],
    stray   <- [o \in Operations |-> Owed(o)]

(* Every backend looks like one atomic secret to its callers, up to the     *)
(* form in which the bytes come back: helpers, deadlines, the two steps of  *)
(* keyctl and the fallback of macOS never make an Ok answer untrue.         *)
ActsAsStore == Promise!Spec
=============================================================================
