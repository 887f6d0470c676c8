------------------------------- MODULE S3Store -------------------------------
(***************************************************************************)
(* smeggdrop/state_s3.py: the containers that keep their state in one S3   *)
(* object per category, and the conditional PUT by which each of them      *)
(* saves.  The categories use separate objects and never interact here, so *)
(* the module is about one category.                                       *)
(*                                                                         *)
(* A container is one process with one S3StateStore: what it remembers of  *)
(* the object (_snapshots[category], _etags[category]) and the save_many   *)
(* call it is in.  The network is between it and S3: a response may get    *)
(* lost after the PUT took effect, botocore may send the request again,    *)
(* the client may give up on a request that is still on its way, and the   *)
(* container may be killed at any step.                                    *)
(***************************************************************************)
EXTENDS StateDict, Integers, FiniteSets

CONSTANTS
    Container,
    PutAttempts,        \* PUT_ATTEMPTS
    ConditionalWrites,  \* FALSE: a botocore that predates IfMatch/IfNoneMatch
    Edits,              \* the change sets the evals of this model save
    Backups,            \* earlier versions of the object an operator restores
    Digest,             \* the ETag S3 computes from an object's body
    NoObject,           \* the key does not exist
    NoETag,             \* python's None for an ETag
    MaxOrphans          \* bound on abandoned requests still on their way

ASSUME PutAttemptsAssumption == PutAttempts \in Nat \ {0}
ASSUME EditsAssumption == Edits \subseteq Changes \ {NoChanges}
ASSUME BackupsAssumption == Backups \subseteq Dict
ASSUME ObjectAssumption == NoObject \notin Dict
ASSUME DigestAssumption ==
    \A d \in Dict : /\ Digest[d] # NoETag
                    /\ \A e \in Dict : Digest[d] = Digest[e] => d = e
ASSUME MaxOrphansAssumption == MaxOrphans \in Nat

VARIABLES
    object,     \* the S3 object of the category, or NoObject
    orphans,    \* PUT requests nobody waits for any more, not yet served
    pc,         \* "cold": not running; "idle"; "put": in _put; "refetch"
    snapshots,  \* self._snapshots[category]
    etags,      \* self._etags[category]
    changes,    \* the argument of save_many
    attempt,    \* its loop variable
    reply,      \* what S3 answered to the PUT in flight
    outcome,    \* how the last save_many ended
    landed,     \* history: the save in progress took effect in the object
    churn       \* history: changes of the object since the save began

callVars == <<changes, attempt, reply, outcome, landed, churn>>
cacheVars == <<snapshots, etags>>
vars == <<object, orphans, pc, cacheVars, callVars>>

ETag == {Digest[d] : d \in Dict} \cup {NoETag}

Content(o) == IF o = NoObject THEN EmptyDict ELSE o

ETagOf(o) == IF o = NoObject THEN NoETag ELSE Digest[o]

\* Mutant of Body: _apply forgets to pop a deleted name.
BodyKeepsDeleted(c) ==
    [n \in Name |-> IF n \in DOMAIN changes[c] /\ changes[c][n] # None
                    THEN changes[c][n] ELSE snapshots[c][n]]

\* The body save_many sends: its changes on top of the cached snapshot.
Body(c) == Apply(snapshots[c], changes[c])

Saving(c) == pc[c] \in {"put", "refetch"}

Orphan == [expect : ETag, body : Dict, changes : Changes]

TypeOK ==
    /\ object \in Dict \cup {NoObject}
    /\ orphans \in SUBSET Orphan
    /\ pc \in [Container -> {"cold", "idle", "put", "refetch"}]
    /\ snapshots \in [Container -> Dict]
    /\ etags \in [Container -> ETag]
    /\ changes \in [Container -> Changes]
    /\ attempt \in [Container -> 0..PutAttempts]
    /\ reply \in [Container -> {"none", "ok", "conflict"}]
    /\ outcome \in [Container ->
                      {"none", "saved", "conflict", "error", "unsupported"}]
    /\ landed \in [Container -> BOOLEAN]
    /\ churn \in [Container -> 0..PutAttempts]

Init ==
    /\ object \in Dict \cup {NoObject}
    /\ orphans = {}
    /\ pc = [c \in Container |-> "cold"]
    /\ snapshots = [c \in Container |-> EmptyDict]
    /\ etags = [c \in Container |-> NoETag]
    /\ changes = [c \in Container |-> NoChanges]
    /\ attempt = [c \in Container |-> 0]
    /\ reply = [c \in Container |-> "none"]
    /\ outcome = [c \in Container |-> "none"]
    /\ landed = [c \in Container |-> FALSE]
    /\ churn = [c \in Container |-> 0]

-----------------------------------------------------------------------------
(* The object. *)

\* churn after the object becomes o: every save in progress has seen one
\* more change of the object, its own included (counted up to PutAttempts).
ChurnAfter(o) ==
    [c \in Container |->
        IF Saving(c) /\ o # object /\ churn[c] < PutAttempts
        THEN churn[c] + 1 ELSE churn[c]]

\* Mutant of Precondition: the PUT is sent without its conditional header.
PreconditionNotSent(expect) == TRUE

\* If-Match with an ETag, If-None-Match: * without one.
Precondition(expect) == ETagOf(object) = expect

\* Without conditional writes nothing is refused.
Accepted(expect) == ConditionalWrites => Precondition(expect)

-----------------------------------------------------------------------------
(* S3StateStore. *)

\* Mutant of CacheFetched: the conflict handler takes the content only.
CacheFetchedKeepsETag(c) ==
    /\ snapshots' = [snapshots EXCEPT ![c] = Content(object)]
    /\ etags' = etags

\* _fetch, and what its callers do with the result.
CacheFetched(c) ==
    /\ snapshots' = [snapshots EXCEPT ![c] = Content(object)]
    /\ etags' = [etags EXCEPT ![c] = ETagOf(object)]

\* load: a container starts, or reloads, and caches what it fetched.
Load(c) ==
    /\ pc[c] \in {"cold", "idle"}
    /\ pc' = [pc EXCEPT ![c] = "idle"]
    /\ CacheFetched(c)
    /\ UNCHANGED <<object, orphans, callVars>>

\* save_many begins: its first PUT leaves.
SaveMany(c, edit) ==
    /\ pc[c] = "idle"
    /\ pc' = [pc EXCEPT ![c] = "put"]
    /\ changes' = [changes EXCEPT ![c] = edit]
    /\ attempt' = [attempt EXCEPT ![c] = 1]
    /\ outcome' = [outcome EXCEPT ![c] = "none"]
    /\ UNCHANGED <<object, orphans, cacheVars, reply, landed, churn>>

\* The locals of save_many are gone when it ends.
EndSave(c, next, how) ==
    /\ pc' = [pc EXCEPT ![c] = next]
    /\ changes' = [changes EXCEPT ![c] = NoChanges]
    /\ attempt' = [attempt EXCEPT ![c] = 0]
    /\ reply' = [reply EXCEPT ![c] = "none"]
    /\ outcome' = [outcome EXCEPT ![c] = how]
    /\ landed' = [landed EXCEPT ![c] = FALSE]
    /\ churn' = [churn EXCEPT ![c] = 0]

\* S3 serves the PUT.  Without conditional writes botocore refuses the
\* IfMatch parameter and _put sends the same body unconditionally.
PutLands(c) ==
    /\ pc[c] = "put" /\ reply[c] = "none"
    /\ Accepted(etags[c])
    /\ ConditionalWrites \/ etags[c] # NoETag
    /\ object' = Body(c)
    /\ reply' = [reply EXCEPT ![c] = "ok"]
    /\ landed' = [landed EXCEPT ![c] = TRUE]
    /\ churn' = ChurnAfter(Body(c))
    /\ UNCHANGED <<orphans, pc, cacheVars, changes, attempt, outcome>>

\* S3 answers PreconditionFailed.
PutRefused(c) ==
    /\ pc[c] = "put" /\ reply[c] = "none"
    /\ ~Accepted(etags[c])
    /\ reply' = [reply EXCEPT ![c] = "conflict"]
    /\ UNCHANGED <<object, orphans, pc, cacheVars, changes, attempt, outcome,
                   landed, churn>>

\* The response is lost and botocore sends the same request again.
Resend(c) ==
    /\ pc[c] = "put" /\ reply[c] # "none"
    /\ reply' = [reply EXCEPT ![c] = "none"]
    /\ UNCHANGED <<object, orphans, pc, cacheVars, changes, attempt, outcome,
                   landed, churn>>

\* After a PUT: what was written is what is cached.
CacheSaved(c) ==
    /\ snapshots' = [snapshots EXCEPT ![c] = Body(c)]
    /\ etags' = [etags EXCEPT ![c] = Digest[Body(c)]]

\* _put returns: save_many caches what it wrote and returns.
PutReturns(c) ==
    /\ pc[c] = "put" /\ reply[c] = "ok"
    /\ CacheSaved(c)
    /\ EndSave(c, "idle", "saved")
    /\ UNCHANGED <<object, orphans>>

\* _put raises _Conflict.
PutConflicts(c) ==
    /\ pc[c] = "put" /\ reply[c] = "conflict"
    /\ pc' = [pc EXCEPT ![c] = "refetch"]
    /\ reply' = [reply EXCEPT ![c] = "none"]
    /\ UNCHANGED <<object, orphans, cacheVars, changes, attempt, outcome,
                   landed, churn>>

\* Mutant of LastAttempt: one round too many.
LastAttemptLate(c) == attempt[c] > PutAttempts

\* The conflict handler re-raises after the last attempt.
LastAttempt(c) == attempt[c] = PutAttempts

\* The conflict handler: take the other version, then try again or give up.
Refetch(c) ==
    /\ pc[c] = "refetch"
    /\ CacheFetched(c)
    /\ IF LastAttempt(c)
       THEN EndSave(c, "idle", "conflict")
       ELSE /\ pc' = [pc EXCEPT ![c] = "put"]
            /\ attempt' = [attempt EXCEPT ![c] = @ + 1]
            /\ UNCHANGED <<changes, reply, outcome, landed, churn>>
    /\ UNCHANGED <<object, orphans>>

\* A create on a botocore that does not know IfNoneMatch: the error does not
\* mention IfMatch, so _is_unsupported_parameter does not recognize it.
Unsupported(c) ==
    ~ConditionalWrites /\ pc[c] = "put" /\ reply[c] = "none" /\ etags[c] = NoETag

\* The request of c that S3 has not answered stays on its way, or is lost.
Abandon(c) ==
    LET request == [expect |-> etags[c], body |-> Body(c), changes |-> changes[c]]
    IN  orphans' \in {orphans} \cup
            IF /\ pc[c] = "put" /\ reply[c] = "none" /\ ~Unsupported(c)
               /\ Cardinality(orphans) < MaxOrphans
            THEN {orphans \cup {request}} ELSE {}

\* get_object or put_object raises something else (a timeout, a throttle, a
\* lost connection): the exception leaves save_many, the cache stays.
NetworkError(c) ==
    /\ Saving(c)
    /\ EndSave(c, "idle", IF Unsupported(c) THEN "unsupported" ELSE "error")
    /\ Abandon(c)
    /\ UNCHANGED <<object, cacheVars>>

-----------------------------------------------------------------------------
(* The platform. *)

\* Lambda stops the container (its 30 s limit, the memory cap, recycling).
Crash(c) ==
    /\ pc[c] # "cold"
    /\ EndSave(c, "cold", "none")
    /\ snapshots' = [snapshots EXCEPT ![c] = EmptyDict]
    /\ etags' = [etags EXCEPT ![c] = NoETag]
    /\ Abandon(c)
    /\ UNCHANGED object

\* S3 serves a request whose sender is gone.
OrphanServed(o) ==
    /\ orphans' = orphans \ {o}
    /\ object' = IF Accepted(o.expect) THEN o.body ELSE object
    /\ churn' = ChurnAfter(object')
    /\ UNCHANGED <<pc, cacheVars, changes, attempt, reply, outcome, landed>>

\* restore-state.sh copies an earlier version forward.
Restore(version) ==
    /\ object # NoObject
    /\ object' = version
    /\ churn' = ChurnAfter(version)
    /\ UNCHANGED <<orphans, pc, cacheVars, changes, attempt, reply, outcome, landed>>

Next ==
    \/ \E c \in Container :
          \/ Load(c)
          \/ \E edit \in Edits : SaveMany(c, edit)
          \/ PutLands(c) \/ PutRefused(c) \/ Resend(c)
          \/ PutReturns(c) \/ PutConflicts(c) \/ Refetch(c)
          \/ NetworkError(c) \/ Crash(c)
    \/ \E o \in orphans : OrphanServed(o)
    \/ \E version \in Backups : Restore(version)

Spec == Init /\ [][Next]_vars

-----------------------------------------------------------------------------
(* Correctness. *)

\* What a container believes the object was is a version the ETag it will
\* send stands for: a PUT that S3 accepts is built on the object's content
\* at that moment.  _fetch and save_many must move both caches together.
CacheMatchesETag ==
    \A c \in Container :
        \/ snapshots[c] = EmptyDict /\ etags[c] = NoETag
        \/ etags[c] = Digest[snapshots[c]]

\* A writer is refused its save only under contention: the attempt that
\* makes save_many give up is preceded by PutAttempts - 1 changes of the
\* object while the save was going on (a cache that was stale when the save
\* began costs the one other attempt).
GiveUpMeansContention ==
    \A c \in Container :
        pc[c] = "refetch" /\ attempt[c] = PutAttempts => churn[c] >= PutAttempts - 1

\* The module's promise that a second container cannot silently clobber an
\* entry someone just defined: whenever the object changes, and no operator
\* restores it, it changes by the change set of one save (in progress, or
\* raised and still on its way) applied to what the object held just before.
MergedNotClobbered ==
    [][object' # object =>
          \/ \E c \in Container :
                pc[c] = "put" /\ object' = Apply(Content(object), changes[c])
          \/ \E o \in orphans : object' = Apply(Content(object), o.changes)
          \/ \E version \in Backups : Restore(version)]_vars

\* "older botocore, or a store without conditional writes: fall back to an
\* unconditional put": no save fails for the lack of conditional writes.
FallbackIsTaken == \A c \in Container : outcome[c] # "unsupported"

\* The containers together implement LibraryStore.
Library == INSTANCE LibraryStore WITH
    Writer <- Container,
    library <- Content(object),
    request <- changes,
    phase <- [c \in Container |->
                IF ~Saving(c) THEN "ready" ELSE IF landed[c] THEN "landed" ELSE "saving"],
    lingering <- {o.changes : o \in orphans}

ImplementsLibrary == Library!Spec

=============================================================================
