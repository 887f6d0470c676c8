------------------------------- MODULE MCEngine -------------------------------
(***************************************************************************)
(* Engine for TLC: a few evals over one or two names, with the kinds of    *)
(* names and payloads that vetting and loading treat differently.          *)
(***************************************************************************)
EXTENDS Engine, TLC

CONSTANTS r1, r2, a, b, v, w, say

NoOutsideEdits == {}
NothingSpecial == {}
NoBuiltins == {}
NoLimits == [x \in {} |-> 0]

OneRequest == {r1}
TwoRequests == {r1, r2}
OneName == {a}
TwoNames == {a, b}
OneValue == {v}
TwoValues == {v, w}

Say == {say}
SayLimit == say :> 1

\* b is a name that may not be saved, w a payload of one of the special kinds.
OnlyB == {b}
OnlyW == {w}

OutsideDelete == {a :> None}
OutsideWrite == {a :> v}

Symmetry == Permutations({r1, r2})

=============================================================================
