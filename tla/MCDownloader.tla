---------------------------- MODULE MCDownloader ----------------------------
(***************************************************************************)
(* Bounded instances of Downloader: a good release, an older one that is   *)
(* still validly signed, something else the server may send, and a payload *)
(* past the size cap.                                                      *)
(***************************************************************************)
EXTENDS Downloader

CONSTANTS good, older, other, huge

MCPayloads == {good, older, other, huge}
MCSizeOf == [p \in MCPayloads |-> IF p = huge THEN 3 ELSE 1]

Artifact(a, b, s) == [sha256 |-> a, sha512 |-> b, sig |-> s]
Reply(age, signed, iid, artifact) ==
    [age |-> age, signed |-> signed, iid |-> iid, artifact |-> artifact]

(* Each check of the chain is failed by one reply and passed by another;    *)
(* ages lie on both sides of each boundary.                                 *)
MCReplies ==
    { Reply(age, TRUE, "ours", Artifact(good, good, good)) :
          age \in {-1, 0, 25 * Hour} }
    \cup
    { Reply(60, TRUE, iid, Artifact(older, older, older)) :
          iid \in {"absent", "other"} }
    \cup
    { Reply(60, FALSE, "ours", Artifact(other, other, other)),
      Reply(60, TRUE, "ours", NoFile),
      Reply(60, TRUE, "ours", Artifact(good, good, older)),
      Reply(60, TRUE, "ours", Artifact(good, older, good)),
      Reply(60, TRUE, "ours", Artifact(good, good, NotASig)),
      Reply(60, TRUE, "ours", Artifact(huge, huge, huge)) }
=============================================================================
