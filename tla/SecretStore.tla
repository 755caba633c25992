---------------------------- MODULE SecretStore ----------------------------
(***************************************************************************)
(* What the KeychainProvider trait of src/src/keychain/mod.rs promises for *)
(* one service/account pair: one secret that callers load, store ("if an   *)
(* entry already exists it is atomically replaced") and delete (a missing  *)
(* entry is Ok).  A call answered Ok acted once, at one instant between    *)
(* its start and its answer.  A call answered with an error may have acted *)
(* in that interval, may never act, or may act later: its work is stray.   *)
(***************************************************************************)
EXTENDS Naturals

CONSTANTS Callers, Secrets, NoSecret, Operations, Nothing

VARIABLES
    value,     \* the secret stored, or NoSecret
    asked,     \* [Callers -> the operation of the call, or Nothing]
    status,    \* [Callers -> "out", "called" or "done"]
    seen,      \* [Callers -> what a load found when it acted]
    answer,    \* [Callers -> the answer of the last call]
    stray      \* [Operations -> calls given up that may still act]

vars == <<value, asked, status, seen, answer, stray>>

Ok(secret) == [result |-> "Ok", secret |-> secret]
Errors == {"Keychain", "Permission", "Io"}
Err(error) == [result |-> error, secret |-> NoSecret]
NoAnswer == Err("none")

After(o) ==
    CASE o.op = "store"  -> o.secret
      [] o.op = "delete" -> NoSecret
      [] OTHER           -> value

Init ==
    /\ value \in Secrets \cup {NoSecret}
    /\ status = [c \in Callers |-> "out"]
    /\ seen = [c \in Callers |-> NoSecret]
    /\ asked = [c \in Callers |-> Nothing]
    /\ answer = [c \in Callers |-> NoAnswer]
    /\ stray = [o \in Operations |-> 0]

Invoke(c) ==
    /\ status[c] = "out"
    /\ \E o \in Operations : asked' = [asked EXCEPT ![c] = o]
    /\ status' = [status EXCEPT ![c] = "called"]
    /\ answer' = [answer EXCEPT ![c] = NoAnswer]
    /\ UNCHANGED <<value, seen, stray>>

Perform(c) ==
    /\ status[c] = "called"
    /\ status' = [status EXCEPT ![c] = "done"]
    /\ seen' = [seen EXCEPT ![c] = IF asked[c].op = "load" THEN value ELSE NoSecret]
    /\ value' = After(asked[c])
    /\ UNCHANGED <<asked, answer, stray>>

Leave(c) ==
    /\ status' = [status EXCEPT ![c] = "out"]
    /\ asked' = [asked EXCEPT ![c] = Nothing]
    /\ seen' = [seen EXCEPT ![c] = NoSecret]

Return(c) ==
    /\ status[c] = "done"
    /\ asked[c].op = "load" => seen[c] # NoSecret
    /\ answer' = [answer EXCEPT ![c] = Ok(seen[c])]
    /\ Leave(c)
    /\ UNCHANGED <<value, stray>>

Fail(c) ==
    /\ status[c] # "out"
    /\ \E error \in Errors : answer' = [answer EXCEPT ![c] = Err(error)]
    /\ \/ UNCHANGED stray
       \/ status[c] = "called" /\ stray' = [stray EXCEPT ![asked[c]] = @ + 1]
    /\ Leave(c)
    /\ UNCHANGED value

StrayActs ==
    /\ \E o \in Operations :
          /\ stray[o] > 0
          /\ stray' = [stray EXCEPT ![o] = @ - 1]
          /\ value' \in {value, After(o)}
    /\ UNCHANGED <<asked, status, seen, answer>>

Next == StrayActs \/ \E c \in Callers : Invoke(c) \/ Perform(c) \/ Return(c) \/ Fail(c)

Spec == Init /\ [][Next]_vars
=============================================================================
