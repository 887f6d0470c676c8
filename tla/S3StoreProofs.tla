---------------------------- MODULE S3StoreProofs ----------------------------
(***************************************************************************)
(* Proofs about S3Store, for any number of containers, any names, payloads *)
(* and change sets, and any PUT_ATTEMPTS.                                  *)
(***************************************************************************)
EXTENDS S3Store, TLAPS

-----------------------------------------------------------------------------
(* Dicts and change sets. *)

LEMMA EmptyDictType == EmptyDict \in Dict
BY DEF EmptyDict, Dict, Entry

LEMMA NoChangesType == NoChanges \in Changes
<1>1. NoChanges \in [{} -> Entry]
  BY DEF NoChanges
<1>2. {} \in SUBSET Name
  OBVIOUS
<1> QED BY <1>1, <1>2 DEF Changes

LEMMA ApplyType ==
    ASSUME NEW d \in Dict, NEW ch \in Changes
    PROVE  Apply(d, ch) \in Dict
<1>1. PICK S \in SUBSET Name : ch \in [S -> Entry]
  BY DEF Changes
<1>2. ASSUME NEW n \in Name
      PROVE  (IF n \in DOMAIN ch THEN ch[n] ELSE d[n]) \in Entry
  BY <1>1, <1>2 DEF Dict
<1> QED BY <1>2 DEF Apply, Dict

LEMMA ContentType ==
    ASSUME NEW o \in Dict \cup {NoObject}
    PROVE  Content(o) \in Dict /\ ETagOf(o) \in ETag
BY EmptyDictType DEF Content, ETagOf, ETag

LEMMA DigestType ==
    ASSUME NEW d \in Dict
    PROVE  Digest[d] \in ETag
BY DEF ETag

-----------------------------------------------------------------------------
(* Types. *)

LEMMA BodyType ==
    ASSUME TypeOK, NEW c \in Container
    PROVE  Body(c) \in Dict
BY ApplyType DEF Body, TypeOK

LEMMA ChurnAfterType ==
    ASSUME TypeOK, NEW o
    PROVE  ChurnAfter(o) \in [Container -> 0..PutAttempts]
BY PutAttemptsAssumption DEF ChurnAfter, TypeOK

LEMMA AbandonType ==
    ASSUME TypeOK, NEW c \in Container, Abandon(c)
    PROVE  orphans' \in SUBSET Orphan
<1> DEFINE request == [expect |-> etags[c], body |-> Body(c), changes |-> changes[c]]
<1>1. request \in Orphan
  BY BodyType DEF Orphan, TypeOK
<1>2. orphans' = orphans \/ orphans' = orphans \cup {request}
  BY DEF Abandon
<1> QED BY <1>1, <1>2 DEF TypeOK

LEMMA EndSaveType ==
    ASSUME TypeOK, NEW c \in Container,
           NEW next \in {"cold", "idle"},
           NEW how \in {"none", "saved", "conflict", "error", "unsupported"},
           EndSave(c, next, how)
    PROVE  /\ pc' \in [Container -> {"cold", "idle", "put", "refetch"}]
           /\ changes' \in [Container -> Changes]
           /\ attempt' \in [Container -> 0..PutAttempts]
           /\ reply' \in [Container -> {"none", "ok", "conflict"}]
           /\ outcome' \in [Container ->
                              {"none", "saved", "conflict", "error", "unsupported"}]
           /\ landed' \in [Container -> BOOLEAN]
           /\ churn' \in [Container -> 0..PutAttempts]
BY NoChangesType, PutAttemptsAssumption DEF EndSave, TypeOK

LEMMA TypeInit == Init => TypeOK
BY EmptyDictType, NoChangesType, PutAttemptsAssumption
   DEF Init, TypeOK, ETag, Orphan

LEMMA TypeStep == TypeOK /\ [Next]_vars => TypeOK'
<1> SUFFICES ASSUME TypeOK, [Next]_vars PROVE TypeOK'
  OBVIOUS
<1>1. ASSUME NEW c \in Container, Load(c) PROVE TypeOK'
  BY <1>1, ContentType DEF Load, CacheFetched, TypeOK, callVars
<1>2. ASSUME NEW c \in Container, NEW edit \in Edits, SaveMany(c, edit) PROVE TypeOK'
  <2>1. edit \in Changes
    BY EditsAssumption
  <2> QED BY <1>2, <2>1, PutAttemptsAssumption DEF SaveMany, TypeOK, cacheVars
<1>3. ASSUME NEW c \in Container, PutLands(c) PROVE TypeOK'
  BY <1>3, BodyType, ChurnAfterType DEF PutLands, TypeOK, cacheVars
<1>4. ASSUME NEW c \in Container, PutRefused(c) \/ Resend(c) \/ PutConflicts(c)
      PROVE  TypeOK'
  BY <1>4 DEF PutRefused, Resend, PutConflicts, TypeOK, cacheVars
<1>5. ASSUME NEW c \in Container, PutReturns(c) PROVE TypeOK'
  <2>1. Body(c) \in Dict /\ Digest[Body(c)] \in ETag
    BY BodyType, DigestType
  <2>2. EndSave(c, "idle", "saved")
    BY <1>5 DEF PutReturns
  <2> QED BY <1>5, <2>1, <2>2, EndSaveType DEF PutReturns, CacheSaved, TypeOK
<1>6. ASSUME NEW c \in Container, Refetch(c) PROVE TypeOK'
  <2>1. snapshots' \in [Container -> Dict] /\ etags' \in [Container -> ETag]
    BY <1>6, ContentType DEF Refetch, CacheFetched, TypeOK
  <2>2. CASE attempt[c] = PutAttempts
    <3>1. EndSave(c, "idle", "conflict")
      BY <1>6, <2>2 DEF Refetch, LastAttempt
    <3> QED BY <1>6, <2>1, <3>1, EndSaveType DEF Refetch, TypeOK
  <2>3. CASE attempt[c] # PutAttempts
    <3>1. attempt[c] + 1 \in 0..PutAttempts
      BY <2>3, PutAttemptsAssumption DEF TypeOK
    <3> QED BY <1>6, <2>1, <2>3, <3>1 DEF Refetch, LastAttempt, TypeOK
  <2> QED BY <2>2, <2>3
<1>7. ASSUME NEW c \in Container, NetworkError(c) PROVE TypeOK'
  <2>1. PICK how \in {"error", "unsupported"} : EndSave(c, "idle", how)
    BY <1>7 DEF NetworkError
  <2> QED BY <1>7, <2>1, EndSaveType, AbandonType DEF NetworkError, TypeOK, cacheVars
<1>9. ASSUME NEW c \in Container, Crash(c) PROVE TypeOK'
  <2>1. EndSave(c, "cold", "none")
    BY <1>9 DEF Crash
  <2>2. snapshots' \in [Container -> Dict] /\ etags' \in [Container -> ETag]
    BY <1>9, EmptyDictType DEF Crash, TypeOK, ETag
  <2> QED BY <1>9, <2>1, <2>2, EndSaveType, AbandonType DEF Crash, TypeOK
<1>10. ASSUME NEW o \in orphans, OrphanServed(o) PROVE TypeOK'
  <2>1. object' \in Dict \cup {NoObject}
    BY <1>10 DEF OrphanServed, TypeOK, Orphan
  <2> QED BY <1>10, <2>1, ChurnAfterType DEF OrphanServed, TypeOK, cacheVars
<1>11. ASSUME NEW version \in Backups, Restore(version) PROVE TypeOK'
  <2>1. version \in Dict
    BY BackupsAssumption
  <2> QED BY <1>11, <2>1, ChurnAfterType DEF Restore, TypeOK, cacheVars
<1>12. CASE UNCHANGED vars
  BY <1>12 DEF vars, cacheVars, callVars, TypeOK
<1> QED BY <1>1, <1>2, <1>3, <1>4, <1>5, <1>6, <1>7, <1>9, <1>10, <1>11, <1>12
        DEF Next

\* Every reachable state of the containers and of S3 has its type: the call
\* in progress never leaves its loop's range, the caches hold dicts.
THEOREM TypeCorrect == Spec => []TypeOK
BY TypeInit, TypeStep, PTL DEF Spec

-----------------------------------------------------------------------------
(* Merging.  A PUT that S3 accepts carries the ETag of the object; the      *)
(* cached snapshot it was built on is therefore the object's content.  The  *)
(* same has to hold of the requests nobody waits for any more.              *)

\* d is the dict that the ETag e, or no ETag, stands for.
Matches(d, e) == (d = EmptyDict /\ e = NoETag) \/ e = Digest[d]

OrphansMatchETag ==
    \A o \in orphans : \E d \in Dict : Matches(d, o.expect) /\ o.body = Apply(d, o.changes)

CacheInv == CacheMatchesETag /\ OrphansMatchETag

\* An ETag S3 accepts determines the content of the object.
LEMMA AcceptedMeansCurrent ==
    ASSUME TypeOK, NEW d \in Dict, NEW e, Matches(d, e), Precondition(e)
    PROVE  Content(object) = d
<1>1. CASE object = NoObject
  BY <1>1, DigestAssumption DEF Precondition, ETagOf, Content, Matches
<1>2. CASE object # NoObject
  <2>1. object \in Dict
    BY <1>2 DEF TypeOK
  <2> QED BY <1>2, <2>1, DigestAssumption DEF Precondition, ETagOf, Content, Matches
<1> QED BY <1>1, <1>2

LEMMA FetchMatches ==
    ASSUME TypeOK
    PROVE  Matches(Content(object), ETagOf(object))
BY DEF Content, ETagOf, Matches

LEMMA CacheInit == Init => CacheInv
BY DEF Init, CacheInv, CacheMatchesETag, OrphansMatchETag

LEMMA AbandonMatches ==
    ASSUME TypeOK, CacheInv, NEW c \in Container, Abandon(c)
    PROVE  OrphansMatchETag'
<1> DEFINE request == [expect |-> etags[c], body |-> Body(c), changes |-> changes[c]]
<1>1. orphans' = orphans \/ orphans' = orphans \cup {request}
  BY DEF Abandon
<1>2. snapshots[c] \in Dict /\ Matches(snapshots[c], etags[c])
  BY DEF CacheInv, CacheMatchesETag, Matches, TypeOK
<1>3. /\ Matches(snapshots[c], request.expect)
      /\ request.body = Apply(snapshots[c], request.changes)
  BY <1>2 DEF Body
<1> HIDE DEF request
<1>4. ASSUME NEW o \in orphans'
      PROVE  \E d \in Dict : Matches(d, o.expect) /\ o.body = Apply(d, o.changes)
  BY <1>1, <1>2, <1>3 DEF CacheInv, OrphansMatchETag
<1> QED BY <1>4 DEF OrphansMatchETag, Matches, Apply

LEMMA CacheStep == TypeOK /\ CacheInv /\ [Next]_vars => CacheInv'
<1> SUFFICES ASSUME TypeOK, CacheInv, [Next]_vars PROVE CacheInv'
  OBVIOUS
<1> USE DEF CacheInv
<1>a. UNCHANGED cacheVars => CacheMatchesETag'
  BY DEF cacheVars, CacheMatchesETag
<1>b. UNCHANGED orphans => OrphansMatchETag'
  BY DEF OrphansMatchETag
<1>1. ASSUME NEW c \in Container, Load(c) \/ Refetch(c) PROVE CacheInv'
  <2>1. /\ snapshots' = [snapshots EXCEPT ![c] = Content(object)]
        /\ etags' = [etags EXCEPT ![c] = ETagOf(object)]
        /\ UNCHANGED orphans
    BY <1>1 DEF Load, CacheFetched, Refetch
  <2>2. CacheMatchesETag'
    BY <2>1, FetchMatches DEF CacheMatchesETag, Matches, TypeOK
  <2> QED BY <2>1, <2>2, <1>b
<1>2. ASSUME NEW c \in Container, PutReturns(c) PROVE CacheInv'
  <2>1. CacheMatchesETag'
    BY <1>2 DEF PutReturns, CacheSaved, CacheMatchesETag, TypeOK
  <2> QED BY <1>2, <2>1, <1>b DEF PutReturns
<1>3. ASSUME NEW c \in Container, NetworkError(c) PROVE CacheInv'
  BY <1>3, <1>a, AbandonMatches DEF NetworkError
<1>4. ASSUME NEW c \in Container, Crash(c) PROVE CacheInv'
  <2>1. CacheMatchesETag'
    BY <1>4 DEF Crash, CacheMatchesETag, TypeOK
  <2> QED BY <1>4, <2>1, AbandonMatches DEF Crash
<1>5. ASSUME NEW o \in orphans, OrphanServed(o) PROVE CacheInv'
  <2>1. orphans' \subseteq orphans /\ UNCHANGED cacheVars
    BY <1>5 DEF OrphanServed
  <2> QED BY <2>1, <1>a DEF OrphansMatchETag
<1>6. CASE UNCHANGED cacheVars /\ UNCHANGED orphans
  BY <1>6, <1>a, <1>b
<1> QED
  BY <1>1, <1>2, <1>3, <1>4, <1>5, <1>6
     DEF Next, vars, SaveMany, PutLands, PutRefused, Resend, PutConflicts,
         Restore

\* The cached snapshot and the cached ETag of a container always belong to
\* one version of the object, whatever failed in between.
THEOREM CacheCorrect == Spec => []CacheMatchesETag
<1>1. Spec => []CacheInv
  BY TypeCorrect, CacheInit, CacheStep, PTL DEF Spec
<1> QED BY <1>1, PTL DEF CacheInv

\* The step of MergedNotClobbered.
Merges ==
    object' # object =>
        \/ \E c \in Container :
              pc[c] = "put" /\ object' = Apply(Content(object), changes[c])
        \/ \E o \in orphans : object' = Apply(Content(object), o.changes)
        \/ \E version \in Backups : Restore(version)

LEMMA PutMerges ==
    ASSUME TypeOK, CacheInv, ConditionalWrites, NEW c \in Container, PutLands(c)
    PROVE  object' = Apply(Content(object), changes[c])
<1>1. snapshots[c] \in Dict /\ Matches(snapshots[c], etags[c])
  BY DEF CacheInv, CacheMatchesETag, Matches, TypeOK
<1>2. Precondition(etags[c]) /\ object' = Body(c)
  BY DEF PutLands, Accepted
<1> QED BY <1>1, <1>2, AcceptedMeansCurrent DEF Body

LEMMA OrphanMerges ==
    ASSUME TypeOK, CacheInv, NEW o \in orphans, Precondition(o.expect)
    PROVE  o.body = Apply(Content(object), o.changes)
BY AcceptedMeansCurrent DEF CacheInv, OrphansMatchETag

LEMMA MergeStep ==
    ASSUME TypeOK, CacheInv, ConditionalWrites, [Next]_vars
    PROVE  Merges
<1>1. ASSUME NEW c \in Container, PutLands(c) PROVE Merges
  BY <1>1, PutMerges DEF Merges, PutLands
<1>2. ASSUME NEW o \in orphans, OrphanServed(o) PROVE Merges
  BY <1>2, OrphanMerges DEF Merges, OrphanServed, Accepted
<1>3. ASSUME NEW version \in Backups, Restore(version) PROVE Merges
  BY <1>3 DEF Merges
<1>4. CASE UNCHANGED object
  BY <1>4 DEF Merges
<1> QED
  BY <1>1, <1>2, <1>3, <1>4
     DEF Next, vars, Load, SaveMany, PutRefused, Resend, PutReturns, PutConflicts,
         Refetch, NetworkError, Crash

\* Where S3 honours the conditional headers, no save of any container, not
\* even one that already raised, ever undoes what another one wrote.
THEOREM NoClobber == ConditionalWrites /\ Spec => MergedNotClobbered
<1>1. Spec => []CacheInv
  BY TypeCorrect, CacheInit, CacheStep, PTL DEF Spec
<1>2. ConditionalWrites /\ TypeOK /\ CacheInv /\ [Next]_vars => [Merges]_vars
  BY MergeStep
<1>3. CASE ConditionalWrites
  BY <1>1, <1>2, <1>3, TypeCorrect, PTL DEF Spec, MergedNotClobbered, Merges
<1> QED BY <1>3

-----------------------------------------------------------------------------
(* Giving up.  Attempt k + 1 starts from what was just fetched: it can only *)
(* be refused if the object changed since, so every attempt after the first *)
(* one that ends in a conflict accounts for one more change.                *)

\* The accounts of one container that is saving.
ChurnPaysFor(c) ==
    LET conflicts == attempt[c] - 1
    IN  /\ attempt[c] \in 1..PutAttempts
        /\ churn[c] >= conflicts - 1
        /\ pc[c] = "refetch" => churn[c] >= conflicts /\ reply[c] = "none"
        /\ reply[c] = "conflict" => churn[c] >= conflicts
        /\ conflicts >= 1 /\ pc[c] = "put" /\ ETagOf(object) # etags[c] =>
              churn[c] >= conflicts

ChurnInv == \A c \in Container : Saving(c) => ChurnPaysFor(c)

LEMMA ChurnInit == Init => ChurnInv
BY DEF Init, ChurnInv, Saving

\* What one container's accounts rest on.
LEMMA ChurnLocal ==
    ASSUME TypeOK, ChurnInv, NEW c \in Container,
           UNCHANGED <<object, pc[c], etags[c], attempt[c], churn[c]>>,
           reply'[c] = reply[c] \/ (pc[c] = "put" /\ reply'[c] # "conflict")
    PROVE  Saving(c)' => ChurnPaysFor(c)'
BY DEF ChurnInv, ChurnPaysFor, Saving, ETagOf

\* A change of the object under a container that is saving is counted.
LEMMA ChurnCounts ==
    ASSUME TypeOK, ChurnInv, NEW c \in Container,
           churn' = ChurnAfter(object'),
           UNCHANGED <<pc[c], etags[c], attempt[c]>>,
           reply'[c] = reply[c] \/ (pc[c] = "put" /\ reply'[c] # "conflict")
    PROVE  Saving(c)' => ChurnPaysFor(c)'
<1> SUFFICES ASSUME Saving(c)' PROVE ChurnPaysFor(c)'
  OBVIOUS
<1>1. Saving(c) /\ ChurnPaysFor(c)
  BY DEF ChurnInv, Saving
<1>2. churn[c] \in 0..PutAttempts /\ attempt[c] \in 1..PutAttempts
  BY <1>1 DEF TypeOK, ChurnPaysFor
<1>3. churn'[c] = IF object' # object /\ churn[c] < PutAttempts THEN churn[c] + 1 ELSE churn[c]
  BY <1>1 DEF ChurnAfter
<1>4. CASE object' = object
  BY <1>1, <1>3, <1>4 DEF ChurnPaysFor, ETagOf
<1>5. CASE object' # object
  BY <1>1, <1>2, <1>3, <1>5, PutAttemptsAssumption DEF ChurnPaysFor, ETagOf
<1> QED BY <1>4, <1>5

LEMMA ChurnStep == TypeOK /\ ChurnInv /\ [Next]_vars => ChurnInv'
<1> SUFFICES ASSUME TypeOK, ChurnInv, [Next]_vars, NEW c \in Container
             PROVE  Saving(c)' => ChurnPaysFor(c)'
  BY DEF ChurnInv
<1>1. ASSUME NEW d \in Container, Load(d) PROVE Saving(c)' => ChurnPaysFor(c)'
  <2>1. CASE c = d
    BY <1>1, <2>1 DEF Load, CacheFetched, Saving, TypeOK
  <2>2. CASE c # d
    BY <1>1, <2>2, ChurnLocal DEF Load, CacheFetched, TypeOK, callVars
  <2> QED BY <2>1, <2>2
<1>2. ASSUME NEW d \in Container, NEW edit \in Edits, SaveMany(d, edit)
      PROVE  Saving(c)' => ChurnPaysFor(c)'
  <2>1. CASE c = d
    <3>1. /\ pc'[c] = "put" /\ attempt'[c] = 1 /\ churn'[c] = churn[c]
      BY <1>2, <2>1 DEF SaveMany, TypeOK
    <3>2. churn[c] \in Nat
      BY DEF TypeOK
    <3> QED BY <3>1, <3>2, PutAttemptsAssumption DEF ChurnPaysFor
  <2>2. CASE c # d
    BY <1>2, <2>2, ChurnLocal DEF SaveMany, TypeOK, cacheVars
  <2> QED BY <2>1, <2>2
<1>3. ASSUME NEW d \in Container, PutLands(d) PROVE Saving(c)' => ChurnPaysFor(c)'
  BY <1>3, ChurnCounts DEF PutLands, TypeOK, cacheVars
<1>4. ASSUME NEW d \in Container, PutRefused(d) PROVE Saving(c)' => ChurnPaysFor(c)'
  <2>1. CASE c = d
    <3>1. Saving(c) /\ ChurnPaysFor(c) /\ ETagOf(object) # etags[c]
      BY <1>4, <2>1 DEF PutRefused, Saving, ChurnInv, Accepted, Precondition
    <3>2. churn[c] \in Nat /\ attempt[c] \in 1..PutAttempts
      BY <3>1 DEF TypeOK, ChurnPaysFor
    <3> QED
      BY <1>4, <2>1, <3>1, <3>2, PutAttemptsAssumption
         DEF PutRefused, ChurnPaysFor, cacheVars, ETagOf
  <2>2. CASE c # d
    BY <1>4, <2>2, ChurnLocal DEF PutRefused, TypeOK, cacheVars
  <2> QED BY <2>1, <2>2
<1>5. ASSUME NEW d \in Container, Resend(d) PROVE Saving(c)' => ChurnPaysFor(c)'
  BY <1>5, ChurnLocal DEF Resend, TypeOK, cacheVars
<1>6. ASSUME NEW d \in Container, PutConflicts(d) PROVE Saving(c)' => ChurnPaysFor(c)'
  <2>1. CASE c = d
    <3>1. ChurnPaysFor(c) /\ churn[c] >= attempt[c] - 1
      BY <1>6, <2>1 DEF PutConflicts, Saving, ChurnInv, ChurnPaysFor
    <3>2. churn[c] \in Nat /\ attempt[c] \in 1..PutAttempts
      BY <3>1 DEF TypeOK, ChurnPaysFor
    <3> QED
      BY <1>6, <2>1, <3>1, <3>2, PutAttemptsAssumption
         DEF PutConflicts, ChurnPaysFor, TypeOK, cacheVars
  <2>2. CASE c # d
    BY <1>6, <2>2, ChurnLocal DEF PutConflicts, TypeOK, cacheVars
  <2> QED BY <2>1, <2>2
<1>7. ASSUME NEW d \in Container, Refetch(d) PROVE Saving(c)' => ChurnPaysFor(c)'
  <2>1. CASE c = d /\ attempt[d] = PutAttempts
    BY <1>7, <2>1 DEF Refetch, LastAttempt, EndSave, Saving, TypeOK
  <2>2. CASE c = d /\ attempt[d] # PutAttempts
    <3>1. ChurnPaysFor(c) /\ churn[c] >= attempt[c] - 1
      BY <1>7, <2>2 DEF Refetch, Saving, ChurnInv, ChurnPaysFor
    <3>2. churn[c] \in Nat /\ attempt[c] \in 1..PutAttempts
      BY <3>1 DEF TypeOK, ChurnPaysFor
    <3>3. attempt[c] + 1 \in 1..PutAttempts
      BY <3>2, <2>2, PutAttemptsAssumption
    <3>4. reply[c] = "none"
      BY <1>7, <2>2, <3>1 DEF Refetch, ChurnPaysFor
    <3>5. /\ pc'[c] = "put" /\ attempt'[c] = attempt[c] + 1
          /\ UNCHANGED <<object, churn[c], reply[c]>>
          /\ etags'[c] = ETagOf(object)
      BY <1>7, <2>2 DEF Refetch, CacheFetched, LastAttempt, TypeOK
    <3> QED BY <3>1, <3>2, <3>3, <3>4, <3>5 DEF ChurnPaysFor, ETagOf
  <2>3. CASE c # d
    <3>1. UNCHANGED <<object, pc[c], etags[c], attempt[c], churn[c], reply[c]>>
      BY <1>7, <2>3 DEF Refetch, CacheFetched, LastAttempt, EndSave, TypeOK
    <3> QED BY <3>1, ChurnLocal
  <2> QED BY <2>1, <2>2, <2>3
<1>8. ASSUME NEW d \in Container, NetworkError(d) \/ PutReturns(d)
      PROVE  Saving(c)' => ChurnPaysFor(c)'
  <2>1. CASE c = d
    BY <1>8, <2>1 DEF NetworkError, PutReturns, EndSave, Saving, TypeOK
  <2>2. CASE c # d
    <3>1. UNCHANGED <<object, pc[c], etags[c], attempt[c], churn[c], reply[c]>>
      BY <1>8, <2>2
         DEF NetworkError, PutReturns, CacheSaved, EndSave, TypeOK,
             cacheVars
    <3> QED BY <3>1, ChurnLocal
  <2> QED BY <2>1, <2>2
<1>9. ASSUME NEW d \in Container, Crash(d) PROVE Saving(c)' => ChurnPaysFor(c)'
  <2>1. CASE c = d
    BY <1>9, <2>1 DEF Crash, EndSave, Saving, TypeOK
  <2>2. CASE c # d
    <3>1. UNCHANGED <<object, pc[c], etags[c], attempt[c], churn[c], reply[c]>>
      BY <1>9, <2>2 DEF Crash, EndSave, TypeOK
    <3> QED BY <3>1, ChurnLocal
  <2> QED BY <2>1, <2>2
<1>10. ASSUME NEW o \in orphans, OrphanServed(o) PROVE Saving(c)' => ChurnPaysFor(c)'
  BY <1>10, ChurnCounts DEF OrphanServed, TypeOK, cacheVars
<1>11. ASSUME NEW version \in Backups, Restore(version)
       PROVE  Saving(c)' => ChurnPaysFor(c)'
  BY <1>11, ChurnCounts DEF Restore, TypeOK, cacheVars
<1>12. CASE UNCHANGED vars
  BY <1>12, ChurnLocal DEF vars, cacheVars, callVars, TypeOK
<1> QED
  BY <1>1, <1>2, <1>3, <1>4, <1>5, <1>6, <1>7, <1>8, <1>9, <1>10, <1>11, <1>12 DEF Next

\* save_many raises its conflict only after PUT_ATTEMPTS - 1 changes of the
\* object during the call: a store nobody else writes to never refuses.
THEOREM GiveUpIsJustified == Spec => []GiveUpMeansContention
<1>1. ChurnInv => GiveUpMeansContention
  BY DEF ChurnInv, ChurnPaysFor, GiveUpMeansContention, Saving
<1>2. Spec => []ChurnInv
  BY TypeCorrect, ChurnInit, ChurnStep, PTL DEF Spec
<1> QED BY <1>1, <1>2, PTL

-----------------------------------------------------------------------------
(* Refinement: the containers implement LibraryStore. *)

\* Between saves the locals of save_many hold nothing, and an "ok" is only
\* ever received for a PUT that landed.
SaveInv ==
    \A c \in Container :
        /\ ~Saving(c) => changes[c] = NoChanges /\ ~landed[c] /\ reply[c] = "none"
        /\ reply[c] = "ok" => landed[c]

LEMMA SaveInit == Init => SaveInv
BY DEF Init, SaveInv

LEMMA SaveStep == TypeOK /\ SaveInv /\ [Next]_vars => SaveInv'
<1> SUFFICES ASSUME TypeOK, SaveInv, [Next]_vars PROVE SaveInv'
  OBVIOUS
<1>1. ASSUME NEW c \in Container, NEW next \in {"cold", "idle"}, NEW how,
             EndSave(c, next, how)
      PROVE  SaveInv'
  BY <1>1 DEF EndSave, SaveInv, Saving, TypeOK
<1>2. ASSUME NEW c \in Container, PutReturns(c) \/ NetworkError(c) \/ Crash(c)
      PROVE  SaveInv'
  BY <1>1, <1>2 DEF PutReturns, CacheSaved, NetworkError, Crash
<1>3. ASSUME NEW c \in Container, Refetch(c) PROVE SaveInv'
  <2>1. CASE attempt[c] = PutAttempts
    BY <1>1, <1>3, <2>1 DEF Refetch, LastAttempt
  <2>2. CASE attempt[c] # PutAttempts
    BY <1>3, <2>2 DEF Refetch, LastAttempt, SaveInv, Saving, TypeOK
  <2> QED BY <2>1, <2>2
<1>4. ASSUME NEW c \in Container,
             Load(c) \/ (\E edit \in Edits : SaveMany(c, edit)) \/ PutLands(c)
                \/ PutRefused(c) \/ Resend(c) \/ PutConflicts(c)
      PROVE  SaveInv'
  BY <1>4
     DEF Load, CacheFetched, SaveMany, PutLands, PutRefused, Resend, PutConflicts, SaveInv,
         Saving, TypeOK, callVars
<1>5. CASE UNCHANGED <<pc, changes, landed, reply>>
  BY <1>5 DEF SaveInv, Saving
<1> QED
  BY <1>2, <1>3, <1>4, <1>5 DEF Next, OrphanServed, Restore, vars, callVars

LEMMA DictContent ==
    ASSUME NEW d \in Dict
    PROVE  Content(d) = d
BY ObjectAssumption DEF Content

LEMMA MapInit == TypeOK /\ Init => Library!Init
<1> SUFFICES ASSUME TypeOK, Init PROVE Library!Init
  OBVIOUS
<1>1. Content(object) \in Library!Dict
  BY ContentType DEF TypeOK, Library!Dict, Library!Entry, Dict, Entry
<1> QED BY <1>1 DEF Init, Library!Init, Saving, Library!NoChanges, NoChanges

\* The abstract phase and the abstract lingering requests.
Phase == [c \in Container |->
            IF ~Saving(c) THEN "ready" ELSE IF landed[c] THEN "landed" ELSE "saving"]
Lingering == {o.changes : o \in orphans}

LEMMA SamePhase ==
    ASSUME UNCHANGED landed, \A c \in Container : Saving(c)' = Saving(c)
    PROVE  Phase' = Phase
BY DEF Phase

LEMMA EndMaps ==
    ASSUME TypeOK, SaveInv, NEW c \in Container, Saving(c),
           NEW next \in {"cold", "idle"}, NEW how, EndSave(c, next, how)
    PROVE  /\ changes' = [changes EXCEPT ![c] = Library!NoChanges]
           /\ Phase' = [Phase EXCEPT ![c] = "ready"]
BY DEF EndSave, Phase, Saving, TypeOK, Library!NoChanges, NoChanges

LEMMA AbandonMaps ==
    ASSUME NEW c \in Container, Abandon(c)
    PROVE  Lingering' \in {Lingering, Lingering \cup {changes[c]}}
<1> DEFINE request == [expect |-> etags[c], body |-> Body(c), changes |-> changes[c]]
<1>1. orphans' = orphans \/ orphans' = orphans \cup {request}
  BY DEF Abandon
<1>2. request.changes = changes[c]
  OBVIOUS
<1> HIDE DEF request
<1> QED BY <1>1, <1>2 DEF Lingering

LEMMA MapStep ==
    ASSUME TypeOK, CacheInv, SaveInv, ConditionalWrites, [Next]_vars
    PROVE  [Library!Next]_(Library!vars)
<1> USE DEF Library!vars
<1>cw. ConditionalWrites
  OBVIOUS
<1>s. ASSUME UNCHANGED <<object, orphans, changes>>, Phase' = Phase
      PROVE  UNCHANGED Library!vars
  BY <1>s DEF Phase, Content
<1>1. ASSUME NEW c \in Container, Load(c) PROVE UNCHANGED Library!vars
  <2>1. Phase' = Phase
    BY <1>1, SamePhase DEF Load, CacheFetched, Saving, TypeOK, callVars
  <2> QED BY <1>1, <2>1, <1>s DEF Load, callVars
<1>2. ASSUME NEW c \in Container, NEW edit \in Edits, SaveMany(c, edit)
      PROVE  Library!Submit(c, edit)
  <2>1. Phase[c] = "ready" /\ Phase' = [Phase EXCEPT ![c] = "saving"]
    BY <1>2 DEF SaveMany, Phase, Saving, SaveInv, TypeOK
  <2> QED BY <1>2, <2>1 DEF SaveMany, Library!Submit, Phase, cacheVars
<1>3. ASSUME NEW c \in Container, PutLands(c) PROVE Library!Land(c)
  <2>1. Phase[c] \in {"saving", "landed"} /\ Phase' = [Phase EXCEPT ![c] = "landed"]
    BY <1>3 DEF PutLands, Phase, Saving, TypeOK
  <2>2. Content(object)' = Apply(Content(object), changes[c])
    BY <1>3, PutMerges, BodyType, DictContent DEF PutLands
  <2> QED BY <1>3, <2>1, <2>2 DEF PutLands, Library!Land, Library!Apply, Apply, Phase
<1>4. ASSUME NEW c \in Container, PutRefused(c) \/ Resend(c) \/ PutConflicts(c)
      PROVE  UNCHANGED Library!vars
  <2>1. Phase' = Phase
    BY <1>4, SamePhase DEF PutRefused, Resend, PutConflicts, Saving, TypeOK
  <2> QED BY <1>4, <2>1, <1>s DEF PutRefused, Resend, PutConflicts
<1>5. ASSUME NEW c \in Container, PutReturns(c) PROVE Library!Return(c)
  <2>1. Saving(c) /\ Phase[c] = "landed"
    BY <1>5 DEF PutReturns, CacheSaved, Phase, Saving, SaveInv
  <2>2. /\ changes' = [changes EXCEPT ![c] = Library!NoChanges]
        /\ Phase' = [Phase EXCEPT ![c] = "ready"]
    BY <1>5, <2>1, EndMaps DEF PutReturns
  <2> QED
    BY <1>5, <2>1, <2>2
       DEF PutReturns, CacheSaved, Library!Return, Library!Finish, Phase, Content
<1>6. ASSUME NEW c \in Container, NEW next \in {"cold", "idle"}, NEW how,
             Saving(c), EndSave(c, next, how), UNCHANGED object,
             Lingering' \in {Lingering, Lingering \cup {changes[c]}}
      PROVE  Library!Raise(c)
  <2>1. Phase[c] # "ready"
    BY <1>6 DEF Phase
  <2>2. /\ changes' = [changes EXCEPT ![c] = Library!NoChanges]
        /\ Phase' = [Phase EXCEPT ![c] = "ready"]
    BY <1>6, EndMaps
  <2> QED
    BY <1>6, <2>1, <2>2 DEF Library!Raise, Library!Finish, Phase, Lingering, Content
<1>7. ASSUME NEW c \in Container, Refetch(c) PROVE [Library!Next]_(Library!vars)
  <2>1. CASE attempt[c] = PutAttempts
    <3>1. /\ Saving(c) /\ EndSave(c, "idle", "conflict") /\ UNCHANGED object
          /\ Lingering' = Lingering
      BY <1>7, <2>1 DEF Refetch, LastAttempt, Saving, Lingering
    <3>2. Library!Raise(c)
      BY <3>1, <1>6
    <3> QED BY <3>2 DEF Library!Next
  <2>2. CASE attempt[c] # PutAttempts
    <3>1. Phase' = Phase
      BY <1>7, <2>2, SamePhase DEF Refetch, LastAttempt, Saving, TypeOK
    <3> QED BY <1>7, <2>2, <3>1, <1>s DEF Refetch, LastAttempt
  <2> QED BY <2>1, <2>2
<1>8. ASSUME NEW c \in Container, NetworkError(c) PROVE Library!Raise(c)
  <2>1. EndSave(c, "idle", "error") /\ Saving(c) /\ UNCHANGED object
    BY <1>8 DEF NetworkError, Unsupported
  <2>2. Lingering' \in {Lingering, Lingering \cup {changes[c]}}
    BY <1>8, AbandonMaps DEF NetworkError
  <2> QED BY <2>1, <2>2, <1>6
<1>9. ASSUME NEW c \in Container, Crash(c) PROVE [Library!Next]_(Library!vars)
  <2>0. EndSave(c, "cold", "none") /\ UNCHANGED object
    BY <1>9 DEF Crash
  <2>1. CASE Saving(c)
    <3>1. Lingering' \in {Lingering, Lingering \cup {changes[c]}}
      BY <1>9, AbandonMaps DEF Crash
    <3>2. Library!Raise(c)
      BY <2>0, <2>1, <3>1, <1>6
    <3> QED BY <3>2 DEF Library!Next
  <2>2. CASE ~Saving(c)
    <3>1. orphans' = orphans
      BY <1>9, <2>2 DEF Crash, Abandon, Saving
    <3>2. changes' = changes /\ Phase' = Phase
      BY <2>0, <2>2 DEF EndSave, SaveInv, Saving, Phase, TypeOK
    <3> QED BY <2>0, <3>1, <3>2, <1>s
  <2> QED BY <2>1, <2>2
<1>10. ASSUME NEW o \in orphans, OrphanServed(o) PROVE [Library!Next]_(Library!vars)
  <2>1. UNCHANGED <<changes, pc, landed>> /\ orphans' = orphans \ {o}
    BY <1>10 DEF OrphanServed
  <2>2. Phase' = Phase
    BY <2>1, SamePhase DEF Saving
  <2>3. Lingering' \in {Lingering, Lingering \ {o.changes}} /\ o.changes \in Lingering
    BY <2>1 DEF Lingering
  <2>4. CASE Precondition(o.expect)
    <3>1. o.body \in Dict
      BY DEF TypeOK, Orphan
    <3>2. Content(object)' = Apply(Content(object), o.changes)
      BY <1>10, <2>4, <3>1, OrphanMerges, DictContent DEF OrphanServed, Accepted
    <3>3. Library!LateLand(o.changes)
      BY <2>1, <2>2, <2>3, <3>2 DEF Library!LateLand, Library!Apply, Apply, Phase, Lingering
    <3> QED BY <2>3, <3>3 DEF Library!Next, Lingering
  <2>5. CASE ~Precondition(o.expect)
    <3>1. UNCHANGED object
      BY <1>10, <1>cw, <2>5 DEF OrphanServed, Accepted
    <3>2. CASE Lingering' = Lingering
      BY <2>1, <2>2, <3>1, <3>2 DEF Phase, Lingering, Content
    <3>3. CASE Lingering' = Lingering \ {o.changes}
      <4>1. Library!Vanish(o.changes)
        BY <2>1, <2>2, <3>1, <3>3 DEF Library!Vanish, Phase, Lingering, Content
      <4> QED BY <2>3, <4>1 DEF Library!Next, Lingering
    <3> QED BY <2>3, <3>2, <3>3
  <2> QED BY <2>4, <2>5
<1>11. ASSUME NEW version \in Backups, Restore(version)
       PROVE  [Library!Next]_(Library!vars)
  <2>1. version \in Library!Dict /\ Content(version) = version
    BY BackupsAssumption, DictContent DEF Library!Dict, Library!Entry, Dict, Entry
  <2>2. Phase' = Phase
    BY <1>11, SamePhase DEF Restore, Saving
  <2>3. Library!Restore(version)
    BY <1>11, <2>1, <2>2 DEF Restore, Library!Restore, Phase
  <2> QED BY <2>1, <2>3 DEF Library!Next
<1>12. CASE UNCHANGED vars
  <2>1. Phase' = Phase
    BY <1>12, SamePhase DEF vars, callVars, Saving
  <2> QED BY <1>12, <2>1, <1>s DEF vars, callVars
<1>13. ASSUME NEW edit \in Edits PROVE edit \in Library!Changes
  BY EditsAssumption DEF Changes, Library!Changes, Entry, Library!Entry
<1> QED
  BY <1>1, <1>2, <1>3, <1>4, <1>5, <1>7, <1>8, <1>9, <1>10, <1>11, <1>12, <1>13
     DEF Next, Library!Next

\* Seen from outside, containers that save through conditional PUTs behave
\* as LibraryStore promises: each save lands as one indivisible change of
\* the entries it names, and one that returned has landed.
THEOREM Refinement == ConditionalWrites /\ Spec => ImplementsLibrary
<1>1. Spec => [](TypeOK /\ CacheInv /\ SaveInv)
  BY TypeCorrect, CacheInit, CacheStep, SaveInit, SaveStep, PTL DEF Spec
<1>2. CASE ConditionalWrites
  <2>1. TypeOK /\ CacheInv /\ SaveInv /\ [Next]_vars => [Library!Next]_(Library!vars)
    BY <1>2, MapStep
  <2>2. Init => Library!Init
    BY MapInit, TypeInit
  <2> QED BY <1>1, <2>1, <2>2, PTL DEF Spec, ImplementsLibrary, Library!Spec
<1> QED BY <1>2

=============================================================================
