----------------------------- MODULE LibraryStore -----------------------------
(***************************************************************************)
(* What a StateStore promises to the processes that share it, seen from    *)
(* outside: there is one library of entries per category, and a save       *)
(* changes exactly the entries it names, in one indivisible step, on top   *)
(* of whatever the library holds at that moment.                           *)
(*                                                                         *)
(* A save may raise instead of returning.  Then its changes have landed,   *)
(* or have not, or (the request is still on its way) land once, later.     *)
(* A save that returns has landed before it returned.                      *)
(***************************************************************************)
EXTENDS StateDict, FiniteSets

CONSTANT Writer

VARIABLES
    library,     \* the shared entries
    request,     \* request[w]: the change set w is saving
    phase,       \* phase[w]: "ready", "saving" or "landed"
    lingering    \* change sets of raised saves that may still land

vars == <<library, request, phase, lingering>>

Init ==
    /\ library \in Dict
    /\ request = [w \in Writer |-> NoChanges]
    /\ phase = [w \in Writer |-> "ready"]
    /\ lingering = {}

Submit(w, changes) ==
    /\ phase[w] = "ready"
    /\ request' = [request EXCEPT ![w] = changes]
    /\ phase' = [phase EXCEPT ![w] = "saving"]
    /\ UNCHANGED <<library, lingering>>

\* A save takes effect.  It may do so again before it returns: re-applying
\* one's own changes is harmless.
Land(w) ==
    /\ phase[w] \in {"saving", "landed"}
    /\ library' = Apply(library, request[w])
    /\ phase' = [phase EXCEPT ![w] = "landed"]
    /\ UNCHANGED <<request, lingering>>

Finish(w) ==
    /\ request' = [request EXCEPT ![w] = NoChanges]
    /\ phase' = [phase EXCEPT ![w] = "ready"]
    /\ UNCHANGED library

Return(w) ==
    /\ phase[w] = "landed"
    /\ Finish(w)
    /\ UNCHANGED lingering

Raise(w) ==
    /\ phase[w] # "ready"
    /\ Finish(w)
    /\ lingering' \in {lingering, lingering \cup {request[w]}}

LateLand(changes) ==
    /\ library' = Apply(library, changes)
    /\ UNCHANGED <<request, phase>>
    /\ lingering' \in {lingering, lingering \ {changes}}

\* A lingering request that will never land.
Vanish(changes) ==
    /\ lingering' = lingering \ {changes}
    /\ UNCHANGED <<library, request, phase>>

\* The operator puts an earlier version back (restore-state.sh).
Restore(d) ==
    /\ library' = d
    /\ UNCHANGED <<request, phase, lingering>>

Next ==
    \/ \E w \in Writer :
          \/ \E changes \in Changes : Submit(w, changes)
          \/ Land(w) \/ Return(w) \/ Raise(w)
    \/ \E changes \in lingering : LateLand(changes) \/ Vanish(changes)
    \/ \E d \in Dict : Restore(d)

Spec == Init /\ [][Next]_vars

=============================================================================
