---------------------------- MODULE RestorePoint ----------------------------
(***************************************************************************)
(* What the self-heal engine promises its caller, with no disk in sight:   *)
(* an installation that can be saved under a version label as a whole, a   *)
(* saved image that is put back part by part in a place of its own, one    *)
(* rollback at a time, and versions that are banned once they were rolled  *)
(* back often enough.                                                      *)
(***************************************************************************)
EXTENDS Naturals

CONSTANTS
    Labels,       \* version labels
    Parts,        \* what an installation consists of
    Values,       \* what a part can be
    Places,       \* where parts can be
    Source,       \* the place that is saved
    Target,       \* the place that is restored
    Nothing,      \* no label, no image
    Threshold,    \* rollbacks that ban a version
    ListReadable  \* whether the list of banned versions can always be read

VARIABLES
    content,    \* [Places -> [Parts -> Values]]
    saved,      \* [Labels -> [Parts -> Values] or Nothing]
    label,      \* the version being rolled back, or Nothing
    image,      \* the image that rollback is to bring back
    confirmed,  \* [Labels -> Nat]: rollbacks reported as done
    banned      \* SUBSET Labels

vars == <<content, saved, label, image, confirmed, banned>>

Init ==
    /\ content \in [Places -> [Parts -> Values]]
    /\ saved = [l \in Labels |-> Nothing]
    /\ label = Nothing /\ image = Nothing
    /\ confirmed = [l \in Labels |-> 0]
    /\ banned = {}

(* The host installs something; it does not do so during a rollback.        *)
Install ==
    /\ label = Nothing
    /\ \E m \in [Parts -> Values] : content' = [content EXCEPT ![Source] = m]
    /\ UNCHANGED <<saved, label, image, confirmed, banned>>

(* A saved image is always the whole installation of that moment.           *)
Save(l) ==
    /\ label = Nothing
    /\ saved' = [saved EXCEPT ![l] = content[Source]]
    /\ UNCHANGED <<content, label, image, confirmed, banned>>

(* Saving again first gives up the image saved before; a disk may lose it.  *)
Lose(l) ==
    /\ saved' = [saved EXCEPT ![l] = Nothing]
    /\ UNCHANGED <<content, label, image, confirmed, banned>>

(* A rollback settles at its start on what it will bring back.              *)
Begin(l) ==
    /\ label = Nothing
    /\ saved[l] # Nothing
    /\ label' = l /\ image' = saved[l]
    /\ UNCHANGED <<content, saved, confirmed, banned>>

(* One part of the target becomes, in one step, what it is in that image.   *)
Restore(p) ==
    /\ label # Nothing
    /\ content' = [content EXCEPT ![Target][p] = image[p]]
    /\ UNCHANGED <<saved, label, image, confirmed, banned>>

(* A rollback is reported as done when the whole image is in place.         *)
Confirm ==
    /\ label # Nothing
    /\ content[Target] = image
    /\ confirmed' = [confirmed EXCEPT ![label] = @ + 1]
    /\ UNCHANGED <<content, saved, label, image, banned>>

(* A ban lasts, unless the list could not be read when one was added.       *)
Ban ==
    /\ label # Nothing
    /\ content[Target] = image
    /\ confirmed[label] >= Threshold
    /\ \/ banned' = banned \cup {label}
       \/ ~ListReadable /\ banned' = {label}
    /\ UNCHANGED <<content, saved, label, image, confirmed>>

(* A rollback may end at any point: done, failed or interrupted.            *)
End ==
    /\ label # Nothing
    /\ label' = Nothing /\ image' = Nothing
    /\ UNCHANGED <<content, saved, confirmed, banned>>

Next ==
    \/ Install \/ Confirm \/ Ban \/ End
    \/ \E p \in Parts : Restore(p)
    \/ \E l \in Labels : Save(l) \/ Lose(l) \/ Begin(l)

Spec == Init /\ [][Next]_vars
=============================================================================
