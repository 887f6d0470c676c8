------------------------------ MODULE MCS3Store ------------------------------
(***************************************************************************)
(* S3Store for TLC: two containers, two entries, one payload, saves that   *)
(* define one entry, and that delete it while they define the other.       *)
(***************************************************************************)
EXTENDS S3Store, TLC

CONSTANTS c1, c2, p, q, body

MCContainer == {c1, c2}
OneContainer == {c1}
MCName == {p, q}
MCValue == {body}

Define(n) == n :> body
Delete(n) == n :> None

MCEdits == {Define(p), Define(q) @@ Delete(p)}
OldClientEdits == MCEdits \cup {Define(q)}

\* S3's ETag of a plain PUT is the MD5 of the body: equal for equal bodies.
MCDigest == [d \in Dict |-> <<"md5", Keys(d)>>]

MCBackups == {EmptyDict}
NoBackups == {}

Symmetry == Permutations(MCContainer)

=============================================================================
