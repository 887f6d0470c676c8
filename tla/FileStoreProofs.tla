---------------------------- MODULE FileStoreProofs ----------------------------
(***************************************************************************)
(* Proofs about FileStore, for any names, payloads, processes and change   *)
(* sets.                                                                   *)
(***************************************************************************)
EXTENDS FileStore, TLAPS

Step == {"cold", "boot", "idle", "load", "save", "write"}

-----------------------------------------------------------------------------
(* Data. *)

LEMMA NothingReadType == NothingRead \in [Name -> Loadable]
BY DEF NothingRead, Loadable

LEMMA NoChangesType == NoChanges \in Changes
<1>1. NoChanges \in [{} -> Entry] /\ {} \in SUBSET Name
  BY DEF NoChanges
<1> QED BY <1>1 DEF Changes

LEMMA ChangesElim ==
    ASSUME NEW ch \in Changes
    PROVE  DOMAIN ch \in SUBSET Name /\ \A n \in DOMAIN ch : ch[n] \in Entry
BY DEF Changes

LEMMA EditIs ==
    ASSUME NEW edit \in Edits
    PROVE  edit \in Changes
BY EditsAssumption

\* What save_many writes of an entry, and what a load makes of it.
LEMMA ContentIs ==
    ASSUME NEW entry \in Entry
    PROVE  /\ Content(entry) \in Value \cup {Empty}
           /\ Content(entry) \in Payload => Content(entry) = entry
           /\ Content(entry) \notin Payload => entry = None
BY FileAssumption, NoneAssumption DEF Content, Entry, Payload

\* The values of a file are told apart.
LEMMA FileCases ==
    /\ Absent \notin Payload /\ Empty \notin Payload /\ None \notin Payload
    /\ Absent # Empty /\ Torn \notin Value /\ Torn \in Payload /\ Value \subseteq Payload
    /\ None \in Loadable /\ Payload \subseteq Loadable
BY FileAssumption, NoneAssumption DEF Payload, Loadable

\* The end of an operation resets its locals.
LEMMA EndOperationIs ==
    ASSUME TypeOK, NEW p \in Process, NEW next \in Step, EndOperation(p, next)
    PROVE  /\ pc' \in [Process -> Step] /\ pc'[p] = next
           /\ todo' \in [Process -> SUBSET Name]
           /\ kept' \in [Process -> SUBSET Name]
           /\ out' \in [Process -> [Name -> Loadable]] /\ out'[p] = NothingRead
           /\ changes' \in [Process -> Changes]
           /\ writing' \in [Process -> Name \cup {None}]
           /\ \A q \in Process \ {p} : pc'[q] = pc[q] /\ out'[q] = out[q]
<1>1. /\ pc' = [pc EXCEPT ![p] = next] /\ pc \in [Process -> Step]
      /\ out' = [out EXCEPT ![p] = NothingRead] /\ out \in [Process -> [Name -> Loadable]]
  BY DEF EndOperation, TypeOK, Step
<1>2. /\ changes' \in [Process -> Changes]
      /\ out' \in [Process -> [Name -> Loadable]]
  BY NothingReadType, NoChangesType DEF EndOperation, TypeOK
<1>3. /\ todo' \in [Process -> SUBSET Name]
      /\ kept' \in [Process -> SUBSET Name]
      /\ writing' \in [Process -> Name \cup {None}]
  BY DEF EndOperation, TypeOK
<1> QED BY <1>1, <1>2, <1>3

-----------------------------------------------------------------------------
(* Types, and the one operation under way. *)

Saving(p) == pc[p] \in {"save", "write"}

Solo == \A p, q \in Process : ~ Resting(p) /\ ~ Resting(q) => p = q

RestShape(p) == Resting(p) => out[p] = NothingRead

SaveShape(p) ==
    Saving(p) => /\ current = {p}
                 /\ todo[p] \subseteq DOMAIN changes[p]
                 /\ pc[p] = "write" => writing[p] \in todo[p]

LoadShape(p) ==
    Loading(p) => /\ todo[p] \subseteq index /\ kept[p] \subseteq index
                  /\ \A n \in todo[p] : out[p][n] = None

Shape ==
    /\ TypeOK /\ Solo
    /\ \A p \in Process : RestShape(p) /\ SaveShape(p) /\ LoadShape(p)

LEMMA ShapeInit == Init => Shape
<1> SUFFICES ASSUME Init PROVE Shape
  OBVIOUS
<1>1. \A n \in Name : Visible(n) \in Loadable
  BY FileCases DEF Visible
<1>2. /\ accept \in [Name -> SUBSET Loadable]
      /\ lost \in [Name -> Loadable]
      /\ out \in [Process -> [Name -> Loadable]]
      /\ changes \in [Process -> Changes]
  BY <1>1, NothingReadType, NoChangesType DEF Init
<1>3. files \in [Name -> Payload \cup {Absent, Empty}]
  BY DEF Init, Payload
<1>4. TypeOK
  BY <1>2, <1>3 DEF Init, TypeOK
<1>5. \A p \in Process : pc[p] = "cold" /\ out[p] = NothingRead
  BY DEF Init
<1> QED BY <1>4, <1>5 DEF Shape, Solo, RestShape, SaveShape, LoadShape, Resting, Saving, Loading

\* While an operation of p is under way, or begins, the others rest.
LEMMA OthersRest ==
    ASSUME Shape, NEW p \in Process, ~ Resting(p) \/ Alone(p)
    PROVE  \A q \in Process \ {p} : Resting(q) /\ ~ Saving(q) /\ ~ Loading(q)
BY DEF Shape, Solo, Alone, Resting, Saving, Loading

\* A step of p's operation leaves the others resting.
LEMMA ShapeOf ==
    ASSUME Shape, NEW p \in Process, ~ Resting(p) \/ Alone(p),
           TypeOK', \A q \in Process \ {p} : pc'[q] = pc[q] /\ out'[q] = out[q],
           RestShape(p)', SaveShape(p)', LoadShape(p)'
    PROVE  Shape'
<1>1. ASSUME NEW q \in Process \ {p}
      PROVE  /\ Resting(q)' /\ ~ Saving(q)' /\ ~ Loading(q)'
             /\ out'[q] = NothingRead
  <2>1. Resting(q) /\ ~ Saving(q) /\ ~ Loading(q)
    BY OthersRest
  <2> QED BY <2>1 DEF Shape, RestShape, Resting, Saving, Loading
<1>2. Solo'
  BY <1>1 DEF Solo
<1>3. \A q \in Process : RestShape(q)' /\ SaveShape(q)' /\ LoadShape(q)'
  BY <1>1 DEF RestShape, SaveShape, LoadShape
<1> QED BY <1>2, <1>3 DEF Shape

LEMMA EndOperationShape ==
    ASSUME Shape, NEW p \in Process, NEW next \in {"cold", "idle"},
           ~ Resting(p) \/ Alone(p), EndOperation(p, next), TypeOK'
    PROVE  Shape'
<1>1. /\ pc'[p] = next /\ out'[p] = NothingRead
      /\ \A q \in Process \ {p} : pc'[q] = pc[q] /\ out'[q] = out[q]
  BY EndOperationIs DEF Shape, Step
<1>2. RestShape(p)' /\ SaveShape(p)' /\ LoadShape(p)'
  BY <1>1 DEF RestShape, SaveShape, LoadShape, Resting, Saving, Loading
<1> QED BY <1>1, <1>2, ShapeOf

\* Only a process that saves or loads constrains the rest of the state.
LEMMA EndTypes ==
    ASSUME TypeOK, NEW p \in Process, NEW next \in {"cold", "idle"}, EndOperation(p, next),
           files' \in [Name -> Payload \cup {Absent, Empty}],
           index' \in SUBSET Name, cached' \in [Process -> SUBSET Name],
           accept' \in [Name -> SUBSET Loadable], lost' \in [Name -> Loadable],
           current' \in SUBSET Process, stale' \in BOOLEAN
    PROVE  TypeOK'
<1>1. /\ pc' \in [Process -> Step]
      /\ todo' \in [Process -> SUBSET Name]
      /\ kept' \in [Process -> SUBSET Name]
      /\ out' \in [Process -> [Name -> Loadable]]
      /\ changes' \in [Process -> Changes]
      /\ writing' \in [Process -> Name \cup {None}]
  BY EndOperationIs DEF Step
<1> QED BY <1>1 DEF TypeOK, Step

LEMMA BeginLoadShape == ASSUME Shape, NEW p \in Process, BeginLoad(p) PROVE Shape'
<1> USE DEF diskVars, loadVars, saveVars, ghostVars
<1>1. /\ Resting(p) /\ Alone(p)
      /\ pc' = [pc EXCEPT ![p] = IF @ = "cold" THEN "boot" ELSE "load"]
      /\ todo' = [todo EXCEPT ![p] = index]
      /\ kept' = [kept EXCEPT ![p] = index]
      /\ UNCHANGED <<files, index, cached, out, changes, writing, accept, lost, current, stale>>
  BY DEF BeginLoad
<1>2. TypeOK'
  BY <1>1 DEF Shape, TypeOK
<1>3. /\ pc'[p] \in {"boot", "load"} /\ todo'[p] = index /\ kept'[p] = index
      /\ \A q \in Process \ {p} : pc'[q] = pc[q] /\ out'[q] = out[q]
  BY <1>1 DEF Shape, TypeOK
<1>4. out'[p] = NothingRead
  BY <1>1 DEF Shape, RestShape
<1>5. RestShape(p)' /\ SaveShape(p)' /\ LoadShape(p)'
  BY <1>1, <1>3, <1>4 DEF RestShape, SaveShape, LoadShape, Resting, Saving, Loading,
                          NothingRead, Shape, TypeOK
<1> QED BY <1>1, <1>2, <1>3, <1>5, ShapeOf

LEMMA LoadEntryIs ==
    ASSUME Shape, NEW p \in Process, NEW n \in Name, LoadEntry(p, n)
    PROVE  /\ Loading(p) /\ n \in todo[p]
           /\ todo'[p] = todo[p] \ {n} /\ TypeOK'
           /\ UNCHANGED <<index, pc, cached, changes, writing, accept, lost, current, stale>>
           /\ \A q \in Process \ {p} : out'[q] = out[q]
           /\ \/ /\ files[n] = Empty
                 /\ files' = [files EXCEPT ![n] = Absent]
                 /\ kept'[p] = kept[p] \ {n} /\ out' = out
              \/ /\ files[n] # Empty /\ files' = files /\ kept' = kept
                 /\ \A m \in Name :
                       out'[p][m] = IF m = n THEN IF files[n] \in Payload THEN files[n] ELSE None
                                             ELSE out[p][m]
<1> USE DEF diskVars, loadVars, saveVars, ghostVars
<1>1. /\ Loading(p) /\ n \in todo[p]
      /\ todo' = [todo EXCEPT ![p] = @ \ {n}]
      /\ UNCHANGED <<index, pc, cached, changes, writing, accept, lost, current, stale>>
  BY DEF LoadEntry
<1>2. todo'[p] = todo[p] \ {n} /\ todo' \in [Process -> SUBSET Name]
  BY <1>1 DEF Shape, TypeOK
<1>3. CASE files[n] = Empty
  <2>1. /\ files' = [files EXCEPT ![n] = Absent]
        /\ kept' = [kept EXCEPT ![p] = @ \ {n}]
        /\ out' = out
    BY <1>3 DEF LoadEntry, IsDeletion
  <2>2. kept'[p] = kept[p] \ {n} /\ kept' \in [Process -> SUBSET Name]
    BY <2>1 DEF Shape, TypeOK
  <2>3. files' \in [Name -> Payload \cup {Absent, Empty}]
    BY <2>1 DEF Shape, TypeOK
  <2>4. TypeOK'
    BY <1>1, <1>2, <2>1, <2>2, <2>3 DEF Shape, TypeOK
  <2> QED BY <1>1, <1>2, <1>3, <2>1, <2>2, <2>4
<1>4. CASE files[n] # Empty
  <2> DEFINE x == IF files[n] \in Payload THEN files[n] ELSE None
  <2>1. /\ out' = [out EXCEPT ![p][n] = x]
        /\ files' = files /\ kept' = kept
    BY <1>4 DEF LoadEntry, IsDeletion
  <2>2. x \in Loadable
    BY FileCases
  <2>3. out \in [Process -> [Name -> Loadable]]
    BY DEF Shape, TypeOK
  <2> HIDE DEF x
  <2>4. /\ out' \in [Process -> [Name -> Loadable]]
        /\ \A q \in Process \ {p} : out'[q] = out[q]
        /\ \A m \in Name : out'[p][m] = IF m = n THEN x ELSE out[p][m]
    BY <2>1, <2>2, <2>3
  <2>5. TypeOK'
    BY <1>1, <1>2, <2>1, <2>4 DEF Shape, TypeOK
  <2> QED BY <1>1, <1>2, <1>4, <2>1, <2>4, <2>5 DEF x
<1> QED BY <1>3, <1>4

LEMMA LoadEntryShape ==
    ASSUME Shape, NEW p \in Process, NEW n \in Name, LoadEntry(p, n) PROVE Shape'
<1>1. /\ Loading(p) /\ n \in todo[p]
      /\ todo'[p] = todo[p] \ {n} /\ TypeOK'
      /\ UNCHANGED <<index, pc, current, changes, writing>>
      /\ \A q \in Process \ {p} : out'[q] = out[q]
      /\ kept'[p] \subseteq kept[p]
      /\ \A m \in Name \ {n} : out'[p][m] = out[p][m]
  BY LoadEntryIs
<1>2. RestShape(p)' /\ SaveShape(p)' /\ ~ Resting(p)
  BY <1>1 DEF RestShape, SaveShape, Resting, Saving, Loading
<1>3. LoadShape(p)'
  BY <1>1 DEF Shape, LoadShape, Loading, TypeOK
<1> QED BY <1>1, <1>2, <1>3, ShapeOf

LEMMA EndLoadShape == ASSUME Shape, NEW p \in Process, EndLoad(p) PROVE Shape'
<1>1. /\ ~ Resting(p) /\ EndOperation(p, "idle") /\ TypeOK
      /\ cached' = [cached EXCEPT ![p] = kept[p]]
      /\ index' = kept[p] /\ current' = current \cup {p}
      /\ UNCHANGED <<files, accept, lost, stale>>
  BY DEF EndLoad, Loading, Resting, Shape
<1>2. TypeOK'
  BY <1>1, EndTypes DEF TypeOK
<1> QED BY <1>1, <1>2, EndOperationShape

\* What the start of a save leaves.
LEMMA BeginSaveIs ==
    ASSUME Shape, NEW p \in Process, NEW edit \in Edits, BeginSave(p, edit)
    PROVE  /\ Resting(p) /\ Alone(p) /\ TypeOK'
           /\ DOMAIN edit \subseteq Name /\ \A n \in DOMAIN edit : edit[n] \in Entry
           /\ pc'[p] = "save" /\ changes'[p] = edit /\ todo'[p] = DOMAIN edit
           /\ \A q \in Process \ {p} : pc'[q] = pc[q]
           /\ \A n \in Name :
                 accept'[n] = IF n \in DOMAIN edit THEN accept[n] \cup {None, Torn, edit[n]}
                              ELSE accept[n]
           /\ current' = {p} /\ stale' = (stale \/ p \notin current)
           /\ UNCHANGED <<files, index, cached, kept, out, writing, lost>>
<1> USE DEF diskVars, loadVars, saveVars, ghostVars
<1>0. TypeOK
  BY DEF Shape
<1>1. /\ pc[p] = "idle" /\ Alone(p)
      /\ pc' = [pc EXCEPT ![p] = "save"]
      /\ changes' = [changes EXCEPT ![p] = edit]
      /\ todo' = [todo EXCEPT ![p] = DOMAIN edit]
      /\ accept' = [n \in Name |->
                      IF n \in DOMAIN edit THEN accept[n] \cup {None, Torn, edit[n]}
                      ELSE accept[n]]
      /\ current' = {p} /\ stale' = (stale \/ p \notin current)
      /\ UNCHANGED <<files, index, cached, kept, out, writing, lost>>
  BY DEF BeginSave
<1>2. edit \in Changes /\ DOMAIN edit \in SUBSET Name /\ \A n \in DOMAIN edit : edit[n] \in Entry
  BY EditIs, ChangesElim
<1>3. accept' \in [Name -> SUBSET Loadable]
  <2>1. ASSUME NEW n \in Name
        PROVE  (IF n \in DOMAIN edit THEN accept[n] \cup {None, Torn, edit[n]} ELSE accept[n])
                  \in SUBSET Loadable
    <3>1. {None, Torn} \in SUBSET Loadable /\ Entry \subseteq Loadable
      BY FileCases DEF Entry, Loadable
    <3>2. accept[n] \in SUBSET Loadable
      BY <1>0 DEF TypeOK
    <3> QED BY <1>2, <3>1, <3>2
  <2> QED BY <1>1, <2>1
<1>4. /\ changes' \in [Process -> Changes] /\ changes'[p] = edit
      /\ todo' \in [Process -> SUBSET Name] /\ todo'[p] = DOMAIN edit
  BY <1>0, <1>1, <1>2 DEF TypeOK
<1>5. /\ pc' \in [Process -> {"cold", "boot", "idle", "load", "save", "write"}]
      /\ pc'[p] = "save" /\ \A q \in Process \ {p} : pc'[q] = pc[q]
  BY <1>0, <1>1 DEF TypeOK
<1>6. current' \in SUBSET Process /\ stale' \in BOOLEAN
  BY <1>0, <1>1 DEF TypeOK
<1>7. TypeOK'
  BY <1>0, <1>1, <1>3, <1>4, <1>5, <1>6 DEF TypeOK
<1> QED BY <1>1, <1>2, <1>4, <1>5, <1>7 DEF Resting

LEMMA BeginSaveShape ==
    ASSUME Shape, NEW p \in Process, NEW edit \in Edits, BeginSave(p, edit) PROVE Shape'
<1>1. /\ Resting(p) /\ Alone(p) /\ TypeOK'
      /\ pc'[p] = "save" /\ changes'[p] = edit /\ todo'[p] = DOMAIN edit
      /\ \A q \in Process \ {p} : pc'[q] = pc[q]
      /\ current' = {p} /\ out' = out
  BY BeginSaveIs
<1>2. RestShape(p)' /\ SaveShape(p)' /\ LoadShape(p)'
  BY <1>1 DEF RestShape, SaveShape, LoadShape, Resting, Saving, Loading
<1> QED BY <1>1, <1>2, ShapeOf

\* What opening, filling and closing a file leave.
LEMMA OpenEntryIs ==
    ASSUME Shape, NEW p \in Process, NEW n \in Name, OpenEntry(p, n)
    PROVE  /\ Saving(p) /\ n \in todo[p] /\ TypeOK'
           /\ pc'[p] = "write" /\ writing'[p] = n
           /\ \A q \in Process \ {p} : pc'[q] = pc[q]
           /\ \A m \in Name : files'[m] = IF m = n THEN Empty ELSE files[m]
           /\ \A m \in Name : lost'[m] = IF m = n THEN None ELSE lost[m]
           /\ UNCHANGED <<index, cached, todo, kept, out, changes, accept, current, stale>>
<1>1. /\ pc[p] = "save" /\ n \in todo[p]
      /\ pc' = [pc EXCEPT ![p] = "write"]
      /\ writing' = [writing EXCEPT ![p] = n]
      /\ files' = [files EXCEPT ![n] = Empty]
      /\ lost' = [lost EXCEPT ![n] = None]
      /\ UNCHANGED <<index, cached, todo, kept, out, changes, accept, current, stale>>
  BY DEF OpenEntry, loadVars
<1>2. None \in Loadable
  BY FileCases
<1> QED BY <1>1, <1>2 DEF Shape, TypeOK, Saving

\* The name being written is one of the change set's.
LEMMA WritingIs ==
    ASSUME Shape, NEW p \in Process, pc[p] = "write"
    PROVE  /\ writing[p] \in Name /\ writing[p] \in todo[p]
           /\ writing[p] \in DOMAIN changes[p] /\ changes[p][writing[p]] \in Entry
<1>1. SaveShape(p) /\ Saving(p) /\ changes[p] \in Changes
  BY DEF Shape, TypeOK, Saving
<1> QED BY <1>1, ChangesElim DEF SaveShape

LEMMA WritePartIs ==
    ASSUME Shape, NEW p \in Process, WritePart(p)
    PROVE  /\ Saving(p) /\ pc[p] = "write" /\ TypeOK'
           /\ \A m \in Name : files'[m] = IF m = writing[p] THEN Torn ELSE files[m]
           /\ UNCHANGED <<index, pc, cached, todo, kept, out, changes, writing, accept,
                          lost, current, stale>>
<1>1. /\ pc[p] = "write" /\ files' = [files EXCEPT ![writing[p]] = Torn]
      /\ UNCHANGED <<index, pc, cached, todo, kept, out, changes, writing, accept,
                     lost, current, stale>>
  BY DEF WritePart, loadVars, saveVars, ghostVars
<1>2. writing[p] \in Name /\ Torn \in Payload
  BY <1>1, WritingIs, FileCases
<1> QED BY <1>1, <1>2 DEF Shape, TypeOK, Saving

LEMMA CloseEntryIs ==
    ASSUME Shape, NEW p \in Process, CloseEntry(p)
    PROVE  /\ Saving(p) /\ pc[p] = "write" /\ TypeOK'
           /\ pc'[p] = "save" /\ todo'[p] = todo[p] \ {writing[p]}
           /\ cached'[p] = cached[p] \cup {writing[p]}
           /\ \A q \in Process \ {p} : pc'[q] = pc[q] /\ cached'[q] = cached[q]
           /\ \A m \in Name :
                 files'[m] = IF m = writing[p] THEN Content(changes[p][m]) ELSE files[m]
           /\ UNCHANGED <<index, kept, out, changes, accept, lost, current, stale>>
<1> DEFINE n == writing[p]
           x == Content(changes[p][n])
<1>1. /\ pc[p] = "write" /\ files' = [files EXCEPT ![n] = x]
      /\ cached' = [cached EXCEPT ![p] = @ \cup {n}]
      /\ todo' = [todo EXCEPT ![p] = @ \ {n}]
      /\ pc' = [pc EXCEPT ![p] = "save"]
      /\ writing' = [writing EXCEPT ![p] = None]
      /\ UNCHANGED <<index, kept, out, changes, accept, lost, current, stale>>
  BY DEF CloseEntry, loadVars, ghostVars
<1>2. n \in Name /\ x \in Payload \cup {Empty}
  BY <1>1, WritingIs, ContentIs DEF Payload
<1>3. \A m \in Name : files'[m] = IF m = n THEN Content(changes[p][m]) ELSE files[m]
  BY <1>1, <1>2 DEF Shape, TypeOK
<1> HIDE DEF n, x
<1>4. TypeOK'
  BY <1>1, <1>2 DEF Shape, TypeOK
<1> QED BY <1>1, <1>2, <1>3, <1>4 DEF Shape, TypeOK, Saving, n

LEMMA WritesShape ==
    ASSUME Shape, NEW p \in Process,
           (\E n \in Name : OpenEntry(p, n)) \/ WritePart(p) \/ CloseEntry(p)
    PROVE  Shape'
<1>1. /\ Saving(p) /\ Saving(p)' /\ TypeOK'
      /\ \A q \in Process \ {p} : pc'[q] = pc[q]
      /\ UNCHANGED <<out, current, changes>>
  BY OpenEntryIs, WritePartIs, CloseEntryIs DEF Saving
<1>2. SaveShape(p) /\ current = {p} /\ todo[p] \subseteq DOMAIN changes[p]
  BY <1>1 DEF Shape, SaveShape
<1>3. ASSUME NEW n \in Name, OpenEntry(p, n) PROVE SaveShape(p)'
  BY <1>2, <1>3, OpenEntryIs DEF SaveShape
<1>4. ASSUME WritePart(p) PROVE SaveShape(p)'
  BY <1>2, <1>4, WritePartIs DEF SaveShape
<1>5. ASSUME CloseEntry(p) PROVE SaveShape(p)'
  BY <1>2, <1>5, CloseEntryIs DEF SaveShape
<1>6. RestShape(p)' /\ LoadShape(p)' /\ ~ Resting(p)
  BY <1>1 DEF RestShape, LoadShape, Resting, Saving, Loading
<1> QED BY <1>1, <1>3, <1>4, <1>5, <1>6, ShapeOf

\* What the end of a save leaves.
LEMMA EndSaveIs ==
    ASSUME Shape, NEW p \in Process, EndSave(p)
    PROVE  /\ Saving(p) /\ pc[p] = "save" /\ todo[p] = {} /\ EndOperation(p, "idle") /\ TypeOK'
           /\ DOMAIN changes[p] \subseteq Name
           /\ \A n \in DOMAIN changes[p] : changes[p][n] \in Entry
           /\ index' = cached[p]
           /\ \A n \in Name :
                 accept'[n] = IF n \in DOMAIN changes[p] THEN {changes[p][n]} ELSE accept[n]
           /\ UNCHANGED <<files, cached, lost, current, stale>>
<1>0. TypeOK
  BY DEF Shape
<1>1. /\ pc[p] = "save" /\ todo[p] = {} /\ index' = cached[p]
      /\ accept' = [n \in Name |->
                      IF n \in DOMAIN changes[p] THEN {changes[p][n]} ELSE accept[n]]
      /\ EndOperation(p, "idle")
      /\ UNCHANGED <<files, cached, lost, current, stale>>
  BY DEF EndSave, IndexWritten
<1>2. DOMAIN changes[p] \in SUBSET Name /\ \A n \in DOMAIN changes[p] : changes[p][n] \in Entry
  BY <1>0, ChangesElim DEF TypeOK
<1>3. accept' \in [Name -> SUBSET Loadable]
  <2>1. Entry \subseteq Loadable
    BY FileCases DEF Entry, Loadable
  <2>2. \A n \in Name :
           (IF n \in DOMAIN changes[p] THEN {changes[p][n]} ELSE accept[n]) \in SUBSET Loadable
    BY <1>0, <1>2, <2>1 DEF TypeOK
  <2> QED BY <1>1, <2>2
<1>4. TypeOK'
  BY <1>0, <1>1, <1>3, EndTypes DEF TypeOK
<1> QED BY <1>1, <1>2, <1>4 DEF Saving

\* The failures of an operation, and a crash.
LEMMA FailureTypes ==
    ASSUME Shape, NEW p \in Process, OperationRaises(p) \/ PruneRaises(p) \/ Crash(p)
    PROVE  /\ TypeOK' /\ \E next \in {"cold", "idle"} : EndOperation(p, next)
           /\ UNCHANGED <<files, index, accept, lost, stale>>
<1> USE DEF diskVars, ghostVars
<1>0. TypeOK
  BY DEF Shape
<1>1. PICK next \in {"cold", "idle"} : EndOperation(p, next)
  BY DEF OperationRaises, PruneRaises, Crash, AfterFailure
<1>2. UNCHANGED <<files, index, accept, lost, stale>>
  BY DEF OperationRaises, PruneRaises, Crash
<1>3. cached' \in [Process -> SUBSET Name] /\ current' \in SUBSET Process
  BY <1>0 DEF OperationRaises, PruneRaises, Crash, TypeOK
<1> QED BY <1>0, <1>1, <1>2, <1>3, EndTypes DEF TypeOK

LEMMA FailureShape ==
    ASSUME Shape, NEW p \in Process, OperationRaises(p) \/ PruneRaises(p) \/ Crash(p)
    PROVE  Shape'
<1>1. TypeOK' /\ UNCHANGED <<files, index, accept, lost, stale>>
  BY FailureTypes
<1>2. PICK next \in {"cold", "idle"} : EndOperation(p, next)
  BY FailureTypes
<1>3. CASE ~ Resting(p)
  BY <1>1, <1>2, <1>3, EndOperationShape
<1>4. CASE Resting(p)
  <2>1. Crash(p) /\ current' = current \ {p}
    BY <1>4 DEF OperationRaises, PruneRaises, Crash, Resting
  <2>2. /\ pc'[p] = next /\ out'[p] = NothingRead
        /\ \A q \in Process \ {p} : pc'[q] = pc[q] /\ out'[q] = out[q]
    BY <1>2, EndOperationIs DEF Shape, Step
  <2>3. \A q \in Process \ {p} :
           todo'[q] = todo[q] /\ kept'[q] = kept[q] /\ changes'[q] = changes[q]
           /\ writing'[q] = writing[q]
    BY <1>2 DEF EndOperation, Shape, TypeOK
  <2>4. Solo'
    BY <2>2 DEF Shape, Solo, Resting
  <2>5. \A q \in Process : RestShape(q)' /\ LoadShape(q)'
    BY <1>1, <2>2, <2>3 DEF Shape, RestShape, LoadShape, Resting, Loading
  <2>6. \A q \in Process : SaveShape(q)'
    BY <2>1, <2>2, <2>3 DEF Shape, SaveShape, Saving
  <2> QED BY <1>1, <2>4, <2>5, <2>6 DEF Shape
<1> QED BY <1>3, <1>4

\* What happens to a file behind the store's back.
LEMMA LoseFileIs ==
    ASSUME Shape, NEW n \in Name, LoseFile(n)
    PROVE  /\ n \in index /\ files[n] \in Payload /\ TypeOK'
           /\ \A p \in Process : ~ Saving(p)
           /\ \A m \in Name : files'[m] = IF m = n THEN Absent ELSE files[m]
           /\ \A m \in Name : lost'[m] = IF m = n THEN files[n] ELSE lost[m]
           /\ \A m \in Name : accept'[m] = IF m = n THEN accept[n] \cup {None} ELSE accept[m]
           /\ UNCHANGED <<index, pc, cached, todo, kept, out, changes, writing, current, stale>>
<1>1. /\ n \in index /\ files[n] \in Payload
      /\ \A p \in Process : ~ Saving(p)
      /\ files' = [files EXCEPT ![n] = Absent]
      /\ lost' = [lost EXCEPT ![n] = files[n]]
      /\ accept' = [accept EXCEPT ![n] = @ \cup {None}]
      /\ UNCHANGED <<index, pc, cached, todo, kept, out, changes, writing, current, stale>>
  BY DEF LoseFile, loadVars, saveVars, Saving
<1>2. None \in Loadable /\ files[n] \in Loadable
  BY <1>1, FileCases
<1>3. /\ files' \in [Name -> Payload \cup {Absent, Empty}]
      /\ lost' \in [Name -> Loadable]
      /\ accept' \in [Name -> SUBSET Loadable]
  BY <1>1, <1>2 DEF Shape, TypeOK
<1>4. TypeOK'
  BY <1>1, <1>3 DEF Shape, TypeOK
<1> QED BY <1>1, <1>4 DEF Shape, TypeOK

LEMMA FileTurnsUpIs ==
    ASSUME Shape, NEW n \in Name, FileTurnsUp(n)
    PROVE  /\ lost[n] \in Payload /\ TypeOK'
           /\ \A p \in Process : Resting(p)
           /\ \A m \in Name : files'[m] = IF m = n THEN lost[n] ELSE files[m]
           /\ \A m \in Name : lost'[m] = IF m = n THEN None ELSE lost[m]
           /\ \A m \in Name :
                 accept'[m] = IF m = n /\ lost[n] # Torn THEN {lost[n]} ELSE accept[m]
           /\ UNCHANGED <<index, pc, cached, todo, kept, out, changes, writing, current, stale>>
<1> DEFINE x == IF lost[n] = Torn THEN accept[n] ELSE {lost[n]}
<1>1. /\ lost[n] # None
      /\ \A p \in Process : Resting(p)
      /\ files' = [files EXCEPT ![n] = lost[n]]
      /\ lost' = [lost EXCEPT ![n] = None]
      /\ accept' = [accept EXCEPT ![n] = x]
      /\ UNCHANGED <<index, pc, cached, todo, kept, out, changes, writing, current, stale>>
  BY DEF FileTurnsUp, loadVars, saveVars
<1>2. lost[n] \in Loadable /\ lost[n] \in Payload /\ None \in Loadable
  BY <1>1, FileCases DEF Shape, TypeOK, Loadable
<1>3. x \in SUBSET Loadable
  BY <1>2 DEF Shape, TypeOK
<1>4. \A m \in Name : accept'[m] = IF m = n /\ lost[n] # Torn THEN {lost[n]} ELSE accept[m]
  BY <1>1 DEF Shape, TypeOK
<1> HIDE DEF x
<1>5. /\ files' \in [Name -> Payload \cup {Absent, Empty}]
      /\ lost' \in [Name -> Loadable]
      /\ accept' \in [Name -> SUBSET Loadable]
  BY <1>1, <1>2, <1>3 DEF Shape, TypeOK
<1>6. TypeOK'
  BY <1>1, <1>5 DEF Shape, TypeOK
<1> QED BY <1>1, <1>2, <1>4, <1>6 DEF Shape, TypeOK

LEMMA ShapeStep == Shape /\ [Next]_vars => Shape'
<1> SUFFICES ASSUME Shape, [Next]_vars PROVE Shape'
  OBVIOUS
<1>1. ASSUME NEW p \in Process, EndSave(p) PROVE Shape'
  <2>1. ~ Resting(p) /\ EndOperation(p, "idle") /\ TypeOK'
    BY <1>1, EndSaveIs DEF Resting, Saving
  <2> QED BY <2>1, EndOperationShape
<1>2. ASSUME TypeOK', UNCHANGED <<index, pc, todo, kept, out, changes, writing, current>>
      PROVE  Shape'
  BY <1>2 DEF Shape, Solo, RestShape, SaveShape, LoadShape, Resting, Saving, Loading
<1>3. ASSUME NEW n \in Name, LoseFile(n) \/ FileTurnsUp(n) PROVE Shape'
  BY <1>2, <1>3, LoseFileIs, FileTurnsUpIs
<1>4. CASE UNCHANGED vars
  BY <1>2, <1>4 DEF Shape, TypeOK, vars, diskVars, loadVars, saveVars, ghostVars
<1> QED BY <1>1, <1>3, <1>4, BeginLoadShape, LoadEntryShape, EndLoadShape, BeginSaveShape,
           WritesShape, FailureShape DEF Next

\* Type correctness.
THEOREM TypeCorrect == Spec => []TypeOK
<1>1. Init => Shape
  BY ShapeInit
<1>2. Shape /\ [Next]_vars => Shape'
  BY ShapeStep
<1>3. Shape => TypeOK
  BY DEF Shape
<1> QED BY <1>1, <1>2, <1>3, PTL DEF Spec

-----------------------------------------------------------------------------
(* What the files hold, whoever saves. *)

\* A file holds what a load may find, and one without a payload may be found
\* missing.
FileAccepted ==
    \A n \in Name : IF files[n] \in Payload THEN files[n] \in accept[n] ELSE None \in accept[n]

LostIsGone ==
    \A n \in Name : lost[n] # None => files[n] = Absent /\ {None, lost[n]} \subseteq accept[n]

\* The files a save has closed, and what a load may find until it returns.
SaveProgress(p) ==
    Saving(p) =>
        /\ pc[p] = "write" => lost[writing[p]] = None
        /\ \A n \in DOMAIN changes[p] : {None, Torn, changes[p][n]} \subseteq accept[n]
        /\ \A n \in DOMAIN changes[p] \ todo[p] :
              files[n] = Content(changes[p][n]) /\ n \in cached[p] /\ lost[n] = None

\* A load drops the markers it has removed, and nothing that went missing.
LoadProgress(p) ==
    Loading(p) => \A n \in index \ kept[p] : files[n] = Absent /\ lost[n] = None

Truth ==
    /\ FileAccepted /\ LostIsGone
    /\ \A p \in Process : SaveProgress(p) /\ LoadProgress(p)

LEMMA TruthInit == Init => Truth
<1> SUFFICES ASSUME Init PROVE Truth
  OBVIOUS
<1>1. FileAccepted
  BY FileCases DEF Init, FileAccepted, Visible
<1> QED BY <1>1 DEF Init, Truth, LostIsGone, SaveProgress, LoadProgress, Saving, Loading,
                    NothingRead

\* A step of p's operation, as far as the progress of others goes.
LEMMA ProgressOf ==
    ASSUME Shape, NEW p \in Process, ~ Resting(p) \/ Alone(p),
           \A q \in Process \ {p} : pc'[q] = pc[q],
           SaveProgress(p)', LoadProgress(p)'
    PROVE  \A q \in Process : SaveProgress(q)' /\ LoadProgress(q)'
<1>1. ASSUME NEW q \in Process \ {p} PROVE ~ Saving(q)' /\ ~ Loading(q)'
  <2>1. ~ Saving(q) /\ ~ Loading(q)
    BY OthersRest
  <2> QED BY <2>1 DEF Saving, Loading
<1> QED BY <1>1 DEF SaveProgress, LoadProgress

\* A process whose operation ends has no progress to keep.
LEMMA EndTruth ==
    ASSUME Shape, Truth, NEW p \in Process, NEW next \in {"cold", "idle"},
           EndOperation(p, next), FileAccepted', LostIsGone',
           \/ ~ Resting(p)
           \/ /\ UNCHANGED <<files, index, accept, lost>>
              /\ \A q \in Process \ {p} : cached'[q] = cached[q]
    PROVE  Truth'
<1>1. /\ pc'[p] = next
      /\ \A q \in Process \ {p} : pc'[q] = pc[q]
  BY EndOperationIs DEF Shape, Step
<1>2. SaveProgress(p)' /\ LoadProgress(p)'
  BY <1>1 DEF SaveProgress, LoadProgress, Saving, Loading
<1>3. CASE ~ Resting(p)
  BY <1>1, <1>2, <1>3, ProgressOf DEF Truth
<1>4. CASE /\ UNCHANGED <<files, index, accept, lost>>
           /\ \A q \in Process \ {p} : cached'[q] = cached[q]
  <2>1. \A q \in Process \ {p} :
           /\ todo'[q] = todo[q] /\ kept'[q] = kept[q]
           /\ changes'[q] = changes[q] /\ writing'[q] = writing[q]
    BY DEF EndOperation, Shape, TypeOK
  <2>2. \A q \in Process \ {p} : SaveProgress(q)' /\ LoadProgress(q)'
    BY <1>1, <1>4, <2>1 DEF Truth, SaveProgress, LoadProgress, Saving, Loading
  <2> QED BY <1>2, <2>2 DEF Truth
<1> QED BY <1>3, <1>4

LEMMA TruthStep == Shape /\ Truth /\ [Next]_vars => Truth'
<1> SUFFICES ASSUME Shape, Truth, [Next]_vars PROVE Truth'
  OBVIOUS
<1> USE DEF diskVars, loadVars, saveVars, ghostVars
<1>0. TypeOK
  BY DEF Shape
<1>1. ASSUME NEW p \in Process, BeginLoad(p) PROVE Truth'
  <2>1. /\ Alone(p) /\ pc'[p] \in {"boot", "load"} /\ kept'[p] = index
        /\ \A q \in Process \ {p} : pc'[q] = pc[q]
        /\ UNCHANGED <<files, index, accept, lost>>
    BY <1>0, <1>1 DEF BeginLoad, TypeOK
  <2>2. SaveProgress(p)' /\ LoadProgress(p)'
    BY <2>1 DEF SaveProgress, LoadProgress, Saving
  <2>3. FileAccepted' /\ LostIsGone'
    BY <2>1 DEF Truth, FileAccepted, LostIsGone
  <2> QED BY <2>1, <2>2, <2>3, ProgressOf DEF Truth
<1>2. ASSUME NEW p \in Process, NEW n \in Name, LoadEntry(p, n) PROVE Truth'
  <2>1. /\ Loading(p) /\ ~ Resting(p) /\ UNCHANGED <<index, pc, accept, lost>>
    BY <1>2, LoadEntryIs DEF Loading, Resting
  <2>2. CASE files[n] = Empty
    <3>1. /\ \A m \in Name : files'[m] = IF m = n THEN Absent ELSE files[m]
          /\ kept'[p] = kept[p] \ {n}
      BY <1>0, <1>2, <2>2, LoadEntryIs DEF TypeOK
    <3>2. lost[n] = None /\ None \in accept[n]
      BY <2>2, FileCases DEF Truth, LostIsGone, FileAccepted
    <3>3. FileAccepted' /\ LostIsGone'
      BY <2>1, <2>2, <3>1, <3>2, FileCases DEF Truth, FileAccepted, LostIsGone
    <3>4. LoadProgress(p)'
      BY <1>0, <2>1, <3>1, <3>2 DEF Truth, LoadProgress, TypeOK
    <3>5. SaveProgress(p)'
      BY <2>1 DEF SaveProgress, Saving, Loading
    <3> QED BY <2>1, <3>3, <3>4, <3>5, ProgressOf DEF Truth
  <2>3. CASE files[n] # Empty
    <3>1. UNCHANGED <<files, kept>>
      BY <1>2, <2>3, LoadEntryIs
    <3>2. FileAccepted' /\ LostIsGone' /\ LoadProgress(p)' /\ SaveProgress(p)'
      BY <2>1, <3>1 DEF Truth, FileAccepted, LostIsGone, LoadProgress, SaveProgress,
                        Saving, Loading
    <3> QED BY <2>1, <3>2, ProgressOf DEF Truth
  <2> QED BY <2>2, <2>3
<1>3. ASSUME NEW p \in Process, EndLoad(p) PROVE Truth'
  <2>1. /\ ~ Resting(p) /\ EndOperation(p, "idle") /\ UNCHANGED <<files, accept, lost>>
    BY <1>3 DEF EndLoad, Loading, Resting
  <2>2. FileAccepted' /\ LostIsGone'
    BY <2>1 DEF Truth, FileAccepted, LostIsGone
  <2> QED BY <2>1, <2>2, EndTruth
<1>4. ASSUME NEW p \in Process, NEW edit \in Edits, BeginSave(p, edit) PROVE Truth'
  <2>1. /\ Alone(p) /\ DOMAIN edit \subseteq Name
        /\ pc'[p] = "save" /\ changes'[p] = edit /\ todo'[p] = DOMAIN edit
        /\ \A q \in Process \ {p} : pc'[q] = pc[q]
        /\ \A n \in Name :
              accept'[n] = IF n \in DOMAIN edit THEN accept[n] \cup {None, Torn, edit[n]}
                           ELSE accept[n]
        /\ UNCHANGED <<files, index, lost>>
    BY <1>4, BeginSaveIs
  <2>2. FileAccepted' /\ LostIsGone'
    BY <2>1 DEF Truth, FileAccepted, LostIsGone
  <2>3. SaveProgress(p)' /\ LoadProgress(p)'
    BY <2>1 DEF SaveProgress, LoadProgress, Loading
  <2> QED BY <2>1, <2>2, <2>3, ProgressOf DEF Truth
<1>5. ASSUME NEW p \in Process, NEW n \in Name, OpenEntry(p, n) PROVE Truth'
  <2>1. /\ Saving(p) /\ ~ Resting(p) /\ n \in todo[p] /\ n \in DOMAIN changes[p]
        /\ pc'[p] = "write" /\ writing'[p] = n
        /\ \A q \in Process \ {p} : pc'[q] = pc[q]
        /\ \A m \in Name : files'[m] = IF m = n THEN Empty ELSE files[m]
        /\ \A m \in Name : lost'[m] = IF m = n THEN None ELSE lost[m]
        /\ UNCHANGED <<index, cached, todo, changes, accept>>
    BY <1>5, OpenEntryIs DEF Shape, SaveShape, Saving, Resting
  <2>2. DOMAIN changes[p] \subseteq Name /\ None \in accept[n]
    <3>1. changes[p] \in Changes
      BY <1>0 DEF TypeOK
    <3> QED BY <2>1, <3>1, ChangesElim DEF Truth, SaveProgress
  <2>3. FileAccepted' /\ LostIsGone'
    BY <2>1, <2>2, FileCases DEF Truth, FileAccepted, LostIsGone
  <2>4. SaveProgress(p)'
    BY <2>1, <2>2 DEF Truth, SaveProgress, Saving
  <2>5. LoadProgress(p)'
    BY <2>1 DEF LoadProgress, Loading
  <2> QED BY <2>1, <2>3, <2>4, <2>5, ProgressOf DEF Truth
<1>6. ASSUME NEW p \in Process, WritePart(p) PROVE Truth'
  <2>1. /\ Saving(p) /\ ~ Resting(p) /\ pc[p] = "write"
        /\ \A m \in Name : files'[m] = IF m = writing[p] THEN Torn ELSE files[m]
        /\ UNCHANGED <<index, pc, cached, todo, kept, changes, writing, accept, lost>>
    BY <1>6, WritePartIs DEF Saving, Resting
  <2>2. writing[p] \in todo[p] /\ writing[p] \in DOMAIN changes[p]
    BY <2>1, WritingIs
  <2>3. Torn \in accept[writing[p]] /\ lost[writing[p]] = None
    BY <2>1, <2>2 DEF Truth, SaveProgress
  <2>4. FileAccepted' /\ LostIsGone'
    BY <2>1, <2>3, FileCases DEF Truth, FileAccepted, LostIsGone
  <2>5. DOMAIN changes[p] \subseteq Name
    BY <1>0, ChangesElim DEF TypeOK
  <2>6. SaveProgress(p)'
    BY <2>1, <2>2, <2>5 DEF Truth, SaveProgress, Saving
  <2>7. LoadProgress(p)'
    BY <2>1 DEF LoadProgress, Loading, Saving
  <2> QED BY <2>1, <2>4, <2>6, <2>7, ProgressOf DEF Truth
<1>7. ASSUME NEW p \in Process, CloseEntry(p) PROVE Truth'
  <2> DEFINE n == writing[p]
  <2>1. /\ Saving(p) /\ ~ Resting(p) /\ pc[p] = "write"
        /\ pc'[p] = "save" /\ todo'[p] = todo[p] \ {n}
        /\ cached'[p] = cached[p] \cup {n}
        /\ \A q \in Process \ {p} : pc'[q] = pc[q]
        /\ \A m \in Name : files'[m] = IF m = n THEN Content(changes[p][m]) ELSE files[m]
        /\ UNCHANGED <<index, changes, accept, lost>>
    BY <1>7, CloseEntryIs DEF Saving, Resting
  <2>2. /\ n \in Name /\ n \in todo[p] /\ n \in DOMAIN changes[p] /\ changes[p][n] \in Entry
        /\ DOMAIN changes[p] \subseteq Name
    BY <1>0, <2>1, WritingIs, ChangesElim DEF TypeOK
  <2>3. {None, Torn, changes[p][n]} \subseteq accept[n] /\ lost[n] = None
    BY <2>1, <2>2 DEF Truth, SaveProgress
  <2> HIDE DEF n
  <2>4. IF files'[n] \in Payload THEN files'[n] \in accept[n] ELSE None \in accept[n]
    BY <2>1, <2>2, <2>3, ContentIs
  <2>5. FileAccepted'
    BY <2>1, <2>4 DEF Truth, FileAccepted
  <2>6. LostIsGone'
    BY <2>1, <2>3 DEF Truth, LostIsGone
  <2>7. SaveProgress(p)'
    BY <2>1, <2>2, <2>3 DEF Truth, SaveProgress
  <2>8. LoadProgress(p)'
    BY <2>1 DEF LoadProgress, Loading
  <2> QED BY <2>1, <2>5, <2>6, <2>7, <2>8, ProgressOf DEF Truth
<1>8. ASSUME NEW p \in Process, EndSave(p) PROVE Truth'
  <2>1. /\ Saving(p) /\ ~ Resting(p) /\ todo[p] = {} /\ EndOperation(p, "idle")
        /\ DOMAIN changes[p] \subseteq Name
        /\ \A n \in DOMAIN changes[p] : changes[p][n] \in Entry
        /\ \A n \in Name :
              accept'[n] = IF n \in DOMAIN changes[p] THEN {changes[p][n]} ELSE accept[n]
        /\ UNCHANGED <<files, lost>>
    BY <1>8, EndSaveIs DEF Saving, Resting
  <2>2. \A n \in DOMAIN changes[p] : files[n] = Content(changes[p][n]) /\ lost[n] = None
    BY <2>1 DEF Truth, SaveProgress
  <2>3. FileAccepted'
    <3> SUFFICES ASSUME NEW n \in Name
                 PROVE  IF files[n] \in Payload THEN files[n] \in accept'[n]
                                                ELSE None \in accept'[n]
      BY <2>1 DEF FileAccepted
    <3>1. CASE n \in DOMAIN changes[p]
      BY <2>1, <2>2, <3>1, ContentIs
    <3>2. CASE n \notin DOMAIN changes[p]
      BY <2>1, <3>2 DEF Truth, FileAccepted
    <3> QED BY <3>1, <3>2
  <2>4. LostIsGone'
    BY <2>1, <2>2 DEF Truth, LostIsGone
  <2> QED BY <2>1, <2>3, <2>4, EndTruth
<1>9. ASSUME NEW p \in Process, OperationRaises(p) \/ PruneRaises(p) \/ Crash(p) PROVE Truth'
  <2>1. PICK next \in {"cold", "idle"} : EndOperation(p, next)
    BY <1>9, FailureTypes
  <2>2. UNCHANGED <<files, index, accept, lost>>
    BY <1>9, FailureTypes
  <2>3. \A q \in Process \ {p} : cached'[q] = cached[q]
    BY <1>0, <1>9 DEF OperationRaises, PruneRaises, Crash, TypeOK
  <2>4. FileAccepted' /\ LostIsGone'
    BY <2>2 DEF Truth, FileAccepted, LostIsGone
  <2> QED BY <2>1, <2>2, <2>3, <2>4, EndTruth
<1>10. ASSUME NEW n \in Name, LoseFile(n) PROVE Truth'
  <2>1. /\ n \in index /\ files[n] \in Payload
        /\ \A p \in Process : ~ Saving(p)
        /\ \A m \in Name : files'[m] = IF m = n THEN Absent ELSE files[m]
        /\ \A m \in Name : lost'[m] = IF m = n THEN files[n] ELSE lost[m]
        /\ \A m \in Name : accept'[m] = IF m = n THEN accept[n] \cup {None} ELSE accept[m]
        /\ UNCHANGED <<index, pc, kept>>
    BY <1>10, LoseFileIs
  <2>2. FileAccepted' /\ LostIsGone'
    BY <2>1, FileCases DEF Truth, FileAccepted, LostIsGone
  <2>3. \A p \in Process : SaveProgress(p)'
    BY <2>1 DEF SaveProgress, Saving
  <2>4. \A p \in Process : LoadProgress(p)'
    BY <1>0, <2>1, FileCases DEF Truth, LoadProgress, Loading, TypeOK
  <2> QED BY <2>2, <2>3, <2>4 DEF Truth
<1>11. ASSUME NEW n \in Name, FileTurnsUp(n) PROVE Truth'
  <2>1. /\ lost[n] \in Payload
        /\ \A p \in Process : Resting(p) /\ Resting(p)'
        /\ \A m \in Name : files'[m] = IF m = n THEN lost[n] ELSE files[m]
        /\ \A m \in Name : lost'[m] = IF m = n THEN None ELSE lost[m]
        /\ \A m \in Name :
              accept'[m] = IF m = n /\ lost[n] # Torn THEN {lost[n]} ELSE accept[m]
    BY <1>11, FileTurnsUpIs DEF Resting
  <2>2. lost[n] \in accept[n]
    BY <2>1, FileCases DEF Truth, LostIsGone
  <2>3. FileAccepted' /\ LostIsGone'
    BY <2>1, <2>2 DEF Truth, FileAccepted, LostIsGone
  <2>4. \A p \in Process : SaveProgress(p)' /\ LoadProgress(p)'
    BY <2>1 DEF SaveProgress, LoadProgress, Saving, Loading, Resting
  <2> QED BY <2>3, <2>4 DEF Truth
<1>12. CASE UNCHANGED vars
  BY <1>12 DEF vars, Truth, FileAccepted, LostIsGone, SaveProgress, LoadProgress, Saving,
               Loading
<1> QED BY <1>1, <1>2, <1>3, <1>4, <1>5, <1>6, <1>7, <1>8, <1>9, <1>10, <1>11, <1>12
        DEF Next

-----------------------------------------------------------------------------
(* The index and the cached indices, while every process reloads in time. *)

\* A name that is in no index, or not in the cached index of a process that
\* may save, may be found missing.
DroppedAccepted ==
    \A n \in Name :
        n \notin index \/ (\E p \in current : n \notin cached[p]) => None \in accept[n]

\* A payload, also one that went missing, is in every index that may be
\* written next.
PayloadIndexed ==
    \A n \in Name :
        lost[n] \in Value \/ (n \in index /\ files[n] \in Value) =>
            n \in index /\ \A p \in current : n \in cached[p]

\* What a load has read so far, and what it has not found.
LoadAccepted(p) == Loading(p) => \A n \in Name \ todo[p] : out[p][n] \in accept[n]

InStep ==
    DroppedAccepted /\ PayloadIndexed /\ \A p \in Process : LoadAccepted(p)

LEMMA InStepInit == Init => InStep
<1> SUFFICES ASSUME Init PROVE InStep
  OBVIOUS
<1>1. \A n \in Name : n \notin index => None \in accept[n]
  BY DEF Init, Visible
<1>2. DroppedAccepted
  BY <1>1 DEF Init, DroppedAccepted
<1>3. PayloadIndexed
  BY NoneAssumption DEF Init, PayloadIndexed, NothingRead
<1> QED BY <1>2, <1>3 DEF Init, InStep, LoadAccepted, Loading

LEMMA LoadAcceptedOf ==
    ASSUME Shape, NEW p \in Process, ~ Resting(p) \/ Alone(p),
           \A q \in Process \ {p} : pc'[q] = pc[q],
           LoadAccepted(p)'
    PROVE  \A q \in Process : LoadAccepted(q)'
<1>1. ASSUME NEW q \in Process \ {p} PROVE ~ Loading(q)'
  <2>1. ~ Loading(q)
    BY OthersRest
  <2> QED BY <2>1 DEF Loading
<1> QED BY <1>1 DEF LoadAccepted

\* A name that a load has dropped is not missed.
LEMMA KeptIs ==
    ASSUME Shape, Truth, InStep, NEW p \in Process, Loading(p), todo[p] = {}
    PROVE  /\ kept[p] \subseteq index
           /\ \A n \in Name \ kept[p] : None \in accept[n]
           /\ \A n \in Name : lost[n] \in Value => n \in kept[p]
           /\ \A n \in index : files[n] \in Value => n \in kept[p]
<1>1. kept[p] \subseteq index
  BY DEF Shape, LoadShape
<1>2. \A n \in index \ kept[p] : files[n] = Absent /\ lost[n] = None
  BY DEF Truth, LoadProgress
<1>3. index \subseteq Name
  BY DEF Shape, TypeOK
<1>4. ASSUME NEW n \in Name \ kept[p] PROVE None \in accept[n]
  <2>1. CASE n \in index
    BY <1>2, <2>1, FileCases DEF Truth, FileAccepted
  <2>2. CASE n \notin index
    BY <2>2 DEF InStep, DroppedAccepted
  <2> QED BY <2>1, <2>2
<1>5. \A n \in Name : lost[n] \in Value => n \in kept[p]
  BY <1>2, NoneAssumption DEF InStep, PayloadIndexed
<1>6. \A n \in index : files[n] \in Value => n \in kept[p]
  BY <1>2, <1>3, FileCases
<1> QED BY <1>1, <1>4, <1>5, <1>6

\* The cached index of a process that has loaded is what it kept.
LEMMA KeptInStep ==
    ASSUME Shape, Truth, InStep, NEW p \in Process, Loading(p), todo[p] = {},
           NEW next \in {"cold", "idle"}, EndOperation(p, next),
           cached' = [cached EXCEPT ![p] = kept[p]],
           index' \in {index, kept[p]}, current' \subseteq current \cup {p},
           UNCHANGED <<files, accept, lost>>
    PROVE  InStep'
<1>1. /\ cached'[p] = kept[p]
      /\ \A q \in Process \ {p} : cached'[q] = cached[q]
      /\ current \subseteq Process /\ index \subseteq Name
  BY DEF Shape, TypeOK
<1>2. /\ kept[p] \subseteq index
      /\ \A n \in Name \ kept[p] : None \in accept[n]
      /\ \A n \in Name : lost[n] \in Value => n \in kept[p]
      /\ \A n \in index : files[n] \in Value => n \in kept[p]
  BY KeptIs
<1>3. DroppedAccepted'
  BY <1>1, <1>2 DEF InStep, DroppedAccepted
<1>4. PayloadIndexed'
  BY <1>1, <1>2 DEF InStep, PayloadIndexed
<1>5. /\ pc'[p] = next /\ ~ Resting(p)
      /\ \A q \in Process \ {p} : pc'[q] = pc[q]
  BY EndOperationIs DEF Shape, Step, Loading, Resting
<1>6. LoadAccepted(p)'
  BY <1>5 DEF LoadAccepted, Loading
<1> QED BY <1>3, <1>4, <1>5, <1>6, LoadAcceptedOf DEF InStep

LEMMA InStepStep ==
    ASSUME Shape, Truth, stale \/ InStep, [Next]_vars
    PROVE  stale' \/ InStep'
<1> USE DEF diskVars, loadVars, saveVars, ghostVars
<1>0. TypeOK
  BY DEF Shape
<1>a. stale => stale'
  BY DEF Next, BeginLoad, LoadEntry, EndLoad, BeginSave, OpenEntry, WritePart, CloseEntry,
         EndSave, OperationRaises, PruneRaises, Crash, LoseFile, FileTurnsUp, vars
<1> SUFFICES ASSUME InStep, ~ stale, ~ stale' PROVE InStep'
  BY <1>a
<1>1. ASSUME NEW p \in Process, BeginLoad(p) PROVE InStep'
  <2>1. /\ Alone(p) /\ todo'[p] = index
        /\ \A q \in Process \ {p} : pc'[q] = pc[q]
        /\ out'[p] = NothingRead
        /\ UNCHANGED <<files, index, cached, accept, lost, current>>
    BY <1>0, <1>1 DEF BeginLoad, Shape, RestShape, TypeOK
  <2>2. \A n \in Name \ index : None \in accept[n]
    BY DEF InStep, DroppedAccepted
  <2>3. LoadAccepted(p)'
    BY <2>1, <2>2 DEF LoadAccepted, NothingRead
  <2>4. DroppedAccepted' /\ PayloadIndexed'
    BY <2>1 DEF InStep, DroppedAccepted, PayloadIndexed
  <2> QED BY <2>1, <2>3, <2>4, LoadAcceptedOf DEF InStep
<1>2. ASSUME NEW p \in Process, NEW n \in Name, LoadEntry(p, n) PROVE InStep'
  <2>1. /\ Loading(p) /\ ~ Resting(p) /\ n \in todo[p] /\ todo'[p] = todo[p] \ {n}
        /\ UNCHANGED <<index, pc, cached, accept, lost, current>>
    BY <1>2, LoadEntryIs DEF Loading, Resting
  <2>2. CASE files[n] = Empty
    <3>1. /\ \A m \in Name : files'[m] = IF m = n THEN Absent ELSE files[m]
          /\ out' = out
      BY <1>0, <1>2, <2>2, LoadEntryIs DEF TypeOK
    <3>2. DroppedAccepted' /\ PayloadIndexed'
      BY <2>1, <3>1, FileCases DEF InStep, DroppedAccepted, PayloadIndexed
    <3>3. out[p][n] = None /\ None \in accept[n]
      BY <2>1, <2>2, FileCases DEF Shape, LoadShape, Truth, FileAccepted
    <3>4. LoadAccepted(p)'
      BY <2>1, <3>1, <3>3 DEF InStep, LoadAccepted
    <3> QED BY <2>1, <3>2, <3>4, LoadAcceptedOf DEF InStep
  <2>3. CASE files[n] # Empty
    <3>1. /\ files' = files
          /\ \A m \in Name :
                out'[p][m] = IF m = n THEN IF files[n] \in Payload THEN files[n] ELSE None
                                      ELSE out[p][m]
      BY <1>2, <2>3, LoadEntryIs
    <3>2. DroppedAccepted' /\ PayloadIndexed'
      BY <2>1, <3>1 DEF InStep, DroppedAccepted, PayloadIndexed
    <3>3. out'[p][n] \in accept[n]
      BY <3>1 DEF Truth, FileAccepted
    <3>4. LoadAccepted(p)'
      BY <2>1, <3>1, <3>3 DEF InStep, LoadAccepted
    <3> QED BY <2>1, <3>2, <3>4, LoadAcceptedOf DEF InStep
  <2> QED BY <2>2, <2>3
<1>3. ASSUME NEW p \in Process, EndLoad(p) PROVE InStep'
  BY <1>3, KeptInStep DEF EndLoad
<1>4. ASSUME NEW p \in Process, NEW edit \in Edits, BeginSave(p, edit) PROVE InStep'
  <2>1. /\ Alone(p) /\ pc'[p] = "save"
        /\ \A q \in Process \ {p} : pc'[q] = pc[q]
        /\ \A n \in Name : accept[n] \subseteq accept'[n]
        /\ current' = {p} /\ p \in current
        /\ UNCHANGED <<files, index, cached, lost>>
    BY <1>4, BeginSaveIs
  <2>2. DroppedAccepted' /\ PayloadIndexed'
    BY <2>1 DEF InStep, DroppedAccepted, PayloadIndexed
  <2>3. LoadAccepted(p)'
    BY <2>1 DEF LoadAccepted, Loading
  <2> QED BY <2>1, <2>2, <2>3, LoadAcceptedOf DEF InStep
<1>5. ASSUME NEW p \in Process, NEW n \in Name, OpenEntry(p, n) PROVE InStep'
  <2>1. /\ ~ Resting(p) /\ pc'[p] = "write"
        /\ \A q \in Process \ {p} : pc'[q] = pc[q]
        /\ \A m \in Name : files'[m] = IF m = n THEN Empty ELSE files[m]
        /\ \A m \in Name : lost'[m] = IF m = n THEN None ELSE lost[m]
        /\ UNCHANGED <<index, cached, accept, current>>
    BY <1>5, OpenEntryIs DEF Saving, Resting
  <2>2. DroppedAccepted' /\ PayloadIndexed'
    BY <2>1, FileCases, NoneAssumption DEF InStep, DroppedAccepted, PayloadIndexed
  <2>3. LoadAccepted(p)'
    BY <2>1 DEF LoadAccepted, Loading
  <2> QED BY <2>1, <2>2, <2>3, LoadAcceptedOf DEF InStep
<1>6. ASSUME NEW p \in Process, WritePart(p) PROVE InStep'
  <2>1. /\ ~ Resting(p) /\ pc[p] = "write" /\ pc' = pc
        /\ \A m \in Name : files'[m] = IF m = writing[p] THEN Torn ELSE files[m]
        /\ UNCHANGED <<index, cached, accept, lost, current>>
    BY <1>6, WritePartIs DEF Resting
  <2>2. DroppedAccepted' /\ PayloadIndexed'
    BY <2>1, FileCases DEF InStep, DroppedAccepted, PayloadIndexed
  <2>3. LoadAccepted(p)'
    BY <2>1 DEF LoadAccepted, Loading
  <2> QED BY <2>1, <2>2, <2>3, LoadAcceptedOf DEF InStep
<1>7. ASSUME NEW p \in Process, CloseEntry(p) PROVE InStep'
  <2>1. /\ Saving(p) /\ ~ Resting(p) /\ pc'[p] = "save"
        /\ cached'[p] = cached[p] \cup {writing[p]}
        /\ \A q \in Process \ {p} : pc'[q] = pc[q] /\ cached'[q] = cached[q]
        /\ \A m \in Name :
              files'[m] = IF m = writing[p] THEN Content(changes[p][m]) ELSE files[m]
        /\ UNCHANGED <<index, accept, lost, current>>
    BY <1>7, CloseEntryIs DEF Saving, Resting
  <2>2. current = {p}
    BY <2>1 DEF Shape, SaveShape
  <2>3. DroppedAccepted' /\ PayloadIndexed'
    BY <2>1, <2>2 DEF InStep, DroppedAccepted, PayloadIndexed
  <2>4. LoadAccepted(p)'
    BY <2>1 DEF LoadAccepted, Loading
  <2> QED BY <2>1, <2>3, <2>4, LoadAcceptedOf DEF InStep
<1>8. ASSUME NEW p \in Process, EndSave(p) PROVE InStep'
  <2>1. /\ Saving(p) /\ ~ Resting(p) /\ todo[p] = {} /\ EndOperation(p, "idle")
        /\ index' = cached[p]
        /\ \A n \in Name :
              accept'[n] = IF n \in DOMAIN changes[p] THEN {changes[p][n]} ELSE accept[n]
        /\ UNCHANGED <<files, cached, lost, current>>
    BY <1>8, EndSaveIs DEF Saving, Resting
  <2>2. current = {p} /\ \A n \in DOMAIN changes[p] : n \in cached[p]
    BY <2>1 DEF Shape, SaveShape, Truth, SaveProgress
  <2>3. DroppedAccepted' /\ PayloadIndexed'
    BY <2>1, <2>2 DEF InStep, DroppedAccepted, PayloadIndexed
  <2>4. pc'[p] = "idle" /\ \A q \in Process \ {p} : pc'[q] = pc[q]
    BY <2>1, EndOperationIs DEF Shape, Step
  <2>5. LoadAccepted(p)'
    BY <2>4 DEF LoadAccepted, Loading
  <2> QED BY <2>1, <2>3, <2>4, <2>5, LoadAcceptedOf DEF InStep
<1>b. ASSUME NEW p \in Process, NEW next \in {"cold", "idle"}, EndOperation(p, next),
             current' \subseteq current,
             \A q \in current' : cached'[q] = cached[q],
             UNCHANGED <<files, index, accept, lost>>
      PROVE  InStep'
  <2>1. /\ pc'[p] = next
        /\ \A q \in Process \ {p} : pc'[q] = pc[q] /\ out'[q] = out[q]
    BY <1>b, EndOperationIs DEF Shape, Step
  <2>2. \A q \in Process \ {p} : todo'[q] = todo[q]
    BY <1>0, <1>b DEF EndOperation, TypeOK
  <2>3. \A q \in Process : LoadAccepted(q)'
    BY <1>b, <2>1, <2>2 DEF InStep, LoadAccepted, Loading
  <2>4. DroppedAccepted' /\ PayloadIndexed'
    BY <1>b DEF InStep, DroppedAccepted, PayloadIndexed
  <2> QED BY <2>3, <2>4 DEF InStep
<1>9. ASSUME NEW p \in Process, OperationRaises(p) PROVE InStep'
  <2>1. AfterFailure(p) \in {"cold", "idle"}
    BY DEF AfterFailure
  <2> QED BY <1>9, <1>b, <2>1 DEF OperationRaises
<1>10. ASSUME NEW p \in Process, PruneRaises(p) PROVE InStep'
  <2>1. AfterFailure(p) \in {"cold", "idle"} /\ Loading(p)
    BY <1>10 DEF AfterFailure, PruneRaises, Loading
  <2> QED BY <1>10, <2>1, KeptInStep DEF PruneRaises
<1>11. ASSUME NEW p \in Process, Crash(p) PROVE InStep'
  <2>1. /\ EndOperation(p, "cold") /\ current' = current \ {p}
        /\ cached' = [cached EXCEPT ![p] = {}]
        /\ UNCHANGED <<files, index, accept, lost>>
    BY <1>11 DEF Crash
  <2>2. \A q \in current' : cached'[q] = cached[q]
    BY <1>0, <2>1 DEF TypeOK
  <2> QED BY <1>b, <2>1, <2>2
<1>12. ASSUME NEW n \in Name, LoseFile(n) PROVE InStep'
  <2>1. /\ n \in index /\ files[n] \in Payload
        /\ \A m \in Name : files'[m] = IF m = n THEN Absent ELSE files[m]
        /\ \A m \in Name : lost'[m] = IF m = n THEN files[n] ELSE lost[m]
        /\ \A m \in Name : accept'[m] = IF m = n THEN accept[n] \cup {None} ELSE accept[m]
        /\ UNCHANGED <<index, pc, cached, todo, out, current>>
    BY <1>12, LoseFileIs
  <2>2. DroppedAccepted' /\ PayloadIndexed'
    BY <2>1, FileCases DEF InStep, DroppedAccepted, PayloadIndexed
  <2>3. \A p \in Process : LoadAccepted(p)'
    BY <2>1 DEF InStep, LoadAccepted, Loading
  <2> QED BY <2>2, <2>3 DEF InStep
<1>13. ASSUME NEW n \in Name, FileTurnsUp(n) PROVE InStep'
  <2>1. /\ lost[n] \in Payload
        /\ \A p \in Process : Resting(p)
        /\ \A m \in Name : files'[m] = IF m = n THEN lost[n] ELSE files[m]
        /\ \A m \in Name : lost'[m] = IF m = n THEN None ELSE lost[m]
        /\ \A m \in Name :
              accept'[m] = IF m = n /\ lost[n] # Torn THEN {lost[n]} ELSE accept[m]
        /\ UNCHANGED <<index, pc, cached, current>>
    BY <1>13, FileTurnsUpIs
  <2>2. DroppedAccepted'
    BY <2>1 DEF InStep, DroppedAccepted, PayloadIndexed, Payload
  <2>3. PayloadIndexed'
    BY <2>1, NoneAssumption DEF InStep, PayloadIndexed
  <2>4. \A p \in Process : LoadAccepted(p)'
    BY <2>1 DEF LoadAccepted, Loading, Resting
  <2> QED BY <2>2, <2>3, <2>4 DEF InStep
<1>14. CASE UNCHANGED vars
  BY <1>14 DEF vars, InStep, DroppedAccepted, PayloadIndexed, LoadAccepted, Loading
<1> QED BY <1>1, <1>2, <1>3, <1>4, <1>5, <1>6, <1>7, <1>8, <1>9, <1>10, <1>11, <1>12, <1>13,
           <1>14 DEF Next

-----------------------------------------------------------------------------
(* Results. *)

Inv == Shape /\ Truth /\ (stale \/ InStep)

LEMMA InvInit == Init => Inv
BY ShapeInit, TruthInit, InStepInit DEF Inv

LEMMA InvStep == Inv /\ [Next]_vars => Inv'
BY ShapeStep, TruthStep, InStepStep DEF Inv

\* Whatever crashes, raises, goes missing or turns up, what a load would find
\* of an entry is what the last completed save left, or what an interrupted
\* one named, as long as each process reloads after another's save.
THEOREM EntriesSurvive == Spec => []SavesSurvive
<1>1. Inv => SavesSurvive
  <2> SUFFICES ASSUME Inv, ~ stale, NEW n \in Name PROVE Visible(n) \in accept[n]
    BY DEF SavesSurvive
  <2>1. FileAccepted /\ DroppedAccepted
    BY DEF Inv, Truth, InStep
  <2> QED BY <2>1 DEF FileAccepted, DroppedAccepted, Visible
<1> QED BY <1>1, InvInit, InvStep, PTL DEF Spec

\* No load or save takes a name whose file went missing out of the index.
THEOREM DamageIsKept == Spec => []DamageStaysVisible
<1>1. Inv => DamageStaysVisible
  BY DEF Inv, InStep, PayloadIndexed, DamageStaysVisible
<1> QED BY <1>1, InvInit, InvStep, PTL DEF Spec

\* A load returns for each name what may be there.
THEOREM LoadsAreTrue == Spec => LoadReturnsSaved
<1>1. Inv /\ [Next]_vars =>
         [\A p \in Process : EndLoad(p) /\ ~stale =>
             \A n \in Name : out[p][n] \in accept[n]]_vars
  <2> SUFFICES ASSUME Inv, NEW p \in Process, EndLoad(p), ~ stale, NEW n \in Name
               PROVE  out[p][n] \in accept[n]
    OBVIOUS
  <2>1. Loading(p) /\ todo[p] = {} /\ LoadAccepted(p)
    BY DEF EndLoad, Inv, InStep
  <2> QED BY <2>1 DEF LoadAccepted
<1> QED BY <1>1, InvInit, InvStep, PTL DEF Spec, LoadReturnsSaved

\* A process that may save has loaded, and none has saved since.
Reloaded ==
    ~ stale /\ \A p \in Process : pc[p] \in {"idle", "load", "save", "write"} => p \in current

LEMMA ReloadedStep ==
    ASSUME \A p, q \in Process : p = q, TypeOK, Reloaded, [Next]_vars
    PROVE  Reloaded'
<1> USE DEF diskVars, loadVars, saveVars, ghostVars
<1>1. ASSUME NEW p \in Process, BeginLoad(p) PROVE Reloaded'
  BY <1>1 DEF BeginLoad, Reloaded, Resting, TypeOK
<1>2. ASSUME NEW p \in Process, EndLoad(p) PROVE Reloaded'
  BY <1>2 DEF EndLoad, Reloaded, TypeOK
<1>3. ASSUME NEW p \in Process, NEW edit \in Edits, BeginSave(p, edit) PROVE Reloaded'
  BY <1>3 DEF BeginSave, Reloaded, TypeOK
<1>4. ASSUME NEW p \in Process,
             \/ \E n \in Name : LoadEntry(p, n) \/ OpenEntry(p, n)
             \/ WritePart(p) \/ CloseEntry(p)
      PROVE  Reloaded'
  BY <1>4 DEF LoadEntry, OpenEntry, WritePart, CloseEntry, Reloaded, TypeOK
<1>5. ASSUME NEW p \in Process, EndSave(p) PROVE Reloaded'
  BY <1>5 DEF EndSave, EndOperation, Reloaded, TypeOK
<1>6. ASSUME NEW p \in Process, OperationRaises(p) \/ PruneRaises(p) \/ Crash(p)
      PROVE  Reloaded'
  <2>1. stale' = stale /\ \A q \in Process : q = p
    BY <1>6 DEF OperationRaises, PruneRaises, Crash
  <2>2. CASE Crash(p)
    <3>1. pc'[p] = "cold"
      BY <2>2 DEF Crash, EndOperation, TypeOK
    <3> QED BY <2>1, <3>1 DEF Reloaded
  <2>3. CASE OperationRaises(p) \/ PruneRaises(p)
    <3>1. /\ pc'[p] = AfterFailure(p) /\ current' = current
          /\ pc[p] \in {"boot", "load", "save", "write"}
      BY <2>3 DEF OperationRaises, PruneRaises, EndOperation, Resting, TypeOK
    <3>2. pc'[p] # "cold" => p \in current
      BY <3>1 DEF Reloaded, AfterFailure
    <3> QED BY <2>1, <3>1, <3>2 DEF Reloaded
  <2> QED BY <1>6, <2>2, <2>3
<1>7. ASSUME NEW n \in Name, LoseFile(n) \/ FileTurnsUp(n) PROVE Reloaded'
  BY <1>7 DEF LoseFile, FileTurnsUp, Reloaded
<1>8. CASE UNCHANGED vars
  BY <1>8 DEF vars, Reloaded
<1> QED BY <1>1, <1>2, <1>3, <1>4, <1>5, <1>6, <1>7, <1>8 DEF Next

\* One process alone on a directory never loses a save that returned.  (With
\* two, FileStoreReplEdit shows that it may.)
THEOREM LoneProcessNeverClashes ==
    ASSUME \A p, q \in Process : p = q
    PROVE  Spec => []OnlySimultaneousWritesClash
<1>1. Init => Inv /\ Reloaded
  BY InvInit DEF Init, Reloaded
<1>2. Inv /\ Reloaded /\ [Next]_vars => Inv' /\ Reloaded'
  BY InvStep, ReloadedStep DEF Inv, Shape
<1>3. Inv /\ Reloaded => OnlySimultaneousWritesClash
  <2> SUFFICES ASSUME Inv, Reloaded, NEW n \in Name PROVE Visible(n) \in accept[n]
    BY DEF OnlySimultaneousWritesClash
  <2>1. FileAccepted /\ DroppedAccepted
    BY DEF Inv, Truth, InStep, Reloaded
  <2> QED BY <2>1 DEF FileAccepted, DroppedAccepted, Visible
<1> QED BY <1>1, <1>2, <1>3, PTL DEF Spec

=============================================================================
