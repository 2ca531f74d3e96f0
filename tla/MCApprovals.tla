--------------------------- MODULE MCApprovals ---------------------------
(* Approvals with interchangeable calls and payloads. *)
EXTENDS Approvals, TLC

CONSTANTS c1, c2, p1, p2

CallSymmetry == Permutations({c1, c2}) \cup Permutations({p1, p2})

\* Expected, but not kept by the code: "every cross-channel READ waits for the
\* permission card [...] and reads nothing before the person answers" (front-door.js:5).
\* A call that still holds when another hold on the same card closes it reads
\* "expired", which askPerson does not tell from a yes (perms.js:241-244).
ReadsAfterYes ==
    kind = "channels" =>
        \A c \in Call, k \in Card : Ran(c, k) => row[k].st = "approved"
==========================================================================
