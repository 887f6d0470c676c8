----------------------------- MODULE EngineProofs -----------------------------
(***************************************************************************)
(* Proofs about Engine, for any requests, names, payloads, limits, vetting *)
(* rules and outside writes.                                               *)
(***************************************************************************)
EXTENDS Engine, TLAPS

-----------------------------------------------------------------------------
(* Dicts and change sets. *)

LEMMA EmptyDictType == EmptyDict \in Dict
BY DEF EmptyDict, Dict, Entry

LEMMA NoEntriesType == NoEntries \in [Category -> Dict]
BY EmptyDictType DEF NoEntries

LEMMA NoChangesType == NoChanges \in Changes
<1>1. NoChanges \in [{} -> Entry] /\ {} \in SUBSET Name
  BY DEF NoChanges
<1> QED BY <1>1 DEF Changes

LEMMA ChangesIntro ==
    ASSUME NEW S \in SUBSET Name, NEW ch \in [S -> Entry]
    PROVE  ch \in Changes
BY DEF Changes

LEMMA ChangesElim ==
    ASSUME NEW ch \in Changes
    PROVE  DOMAIN ch \in SUBSET Name /\ \A n \in DOMAIN ch : ch[n] \in Entry
BY DEF Changes

LEMMA ApplyType ==
    ASSUME NEW d \in Dict, NEW ch \in Changes
    PROVE  Apply(d, ch) \in Dict
<1>1. ASSUME NEW n \in Name
      PROVE  (IF n \in DOMAIN ch THEN ch[n] ELSE d[n]) \in Entry
  BY <1>1, ChangesElim DEF Dict
<1> QED BY <1>1 DEF Apply, Dict

LEMMA InstalledType ==
    ASSUME NEW c \in Category, NEW d \in Dict
    PROVE  Installed(c, d) \in Dict
<1>1. ASSUME NEW n \in Name
      PROVE  (IF d[n] \in Broken \/ (c = "procs" /\ n \in Shadowed) THEN None ELSE d[n]) \in Entry
  BY <1>1 DEF Dict, Entry
<1> QED BY <1>1 DEF Installed, Dict

\* What diff_category yields: the entries that differ, as they are now.
LEMMA ChangedIs ==
    ASSUME NEW c \in Category, pre[c] \in Dict, memory[c] \in Dict
    PROVE  /\ Changed(c) \in Changes
           /\ DOMAIN Changed(c) = {n \in Name \ Automatic : pre[c][n] # memory[c][n]}
           /\ \A n \in DOMAIN Changed(c) : Changed(c)[n] = memory[c][n]
<1> DEFINE S == {n \in Name \ Automatic : pre[c][n] # memory[c][n]}
<1>1. Changed(c) = [n \in S |-> memory[c][n]]
  BY DEF Changed, diff_category
<1>2. ASSUME NEW n \in S PROVE memory[c][n] \in Entry
  BY DEF Dict
<1>3. S \in SUBSET Name
  OBVIOUS
<1> HIDE DEF S
<1>4. Changed(c) \in [S -> Entry]
  BY <1>1, <1>2
<1>5. Changed(c) \in Changes
  BY <1>3, <1>4, ChangesIntro
<1>6. DOMAIN Changed(c) = S /\ \A n \in S : Changed(c)[n] = memory[c][n]
  BY <1>1
<1> QED BY <1>5, <1>6 DEF S

\* Vetting only drops changes.
LEMMA VettedIs ==
    ASSUME NEW c \in Category, pre[c] \in Dict, memory[c] \in Dict
    PROVE  /\ Vetted(c) \in Changes
           /\ DOMAIN Vetted(c) \subseteq DOMAIN Changed(c)
           /\ \A n \in DOMAIN Vetted(c) : Vetted(c)[n] = memory[c][n]
<1>1. CASE Cardinality(DOMAIN Changed(c)) > MaxChanges
  <2>1. Vetted(c) = NoChanges
    BY <1>1 DEF Vetted, vet_changes
  <2> QED BY <2>1, NoChangesType DEF NoChanges
<1>2. CASE ~(Cardinality(DOMAIN Changed(c)) > MaxChanges)
  <2> DEFINE S == {m \in DOMAIN Changed(c) \ Unsafe : Changed(c)[m] \notin TooLarge}
  <2>1. Vetted(c) = [n \in S |-> Changed(c)[n]]
    BY <1>2 DEF Vetted, vet_changes
  <2>2. S \in SUBSET Name /\ \A n \in S : Changed(c)[n] \in Entry /\ Changed(c)[n] = memory[c][n]
    BY ChangedIs, ChangesElim
  <2>3. S \subseteq DOMAIN Changed(c)
    OBVIOUS
  <2> HIDE DEF S
  <2>4. Vetted(c) \in [S -> Entry]
    BY <2>1, <2>2
  <2> QED BY <2>1, <2>2, <2>3, <2>4, ChangesIntro
<1> QED BY <1>1, <1>2

-----------------------------------------------------------------------------
(* Types. *)

LEMMA BlankTypes ==
    /\ NoNames \in [Category -> SUBSET Name]
    /\ NoCalls \in [Builtin -> Nat]
    /\ 0 \in 0..MaxEdits /\ 0 \in 0..MaxReloads
BY BoundsAssumption DEF NoNames, NoCalls

LEMMA AppendType ==
    ASSUME TypeOK, NEW job \in Job
    PROVE  Append(queue, job) \in Seq(Job)
BY DEF TypeOK

LEMMA TypeInit == Init => TypeOK
BY NoEntriesType, BlankTypes DEF Init, TypeOK, Category, Outcome

LEMMA TakeJobType ==
    ASSUME TypeOK, NEW job, TakeJob(job)
    PROVE  queue' \in Seq(Job)
BY DEF TypeOK, TakeJob

LEMMA EndEvalType ==
    ASSUME TypeOK, NEW how, how \in Outcome, EndEval(how),
           memory' \in [Category -> Dict], disk' \in [Category -> Dict],
           unsaved' \in [Category -> SUBSET Name]
    PROVE  TypeOK'
<1>1. /\ running' = "nothing" /\ pc' = "idle" /\ category' = "procs"
      /\ UNCHANGED <<interp, calls, queue, service, answer, reloads>>
  BY DEF EndEval
<1>2. /\ pre' \in [Category -> Dict]
      /\ edits' \in 0..MaxEdits
      /\ touched' \in [Category -> SUBSET Name]
      /\ asked' \in [Builtin -> Nat] /\ performed' \in [Builtin -> Nat]
  BY NoEntriesType, BlankTypes DEF EndEval
<1>3. result' \in [Request -> Outcome]
  BY DEF EndEval, TypeOK
<1> QED BY <1>1, <1>2, <1>3 DEF TypeOK, Category

LEMMA TypeStep == TypeOK /\ [Next]_vars => TypeOK'
<1> SUFFICES ASSUME TypeOK, [Next]_vars PROVE TypeOK'
  OBVIOUS
<1> USE DEF stateVars, workerVars, evalVars, callerVars
<1>1. ASSUME NEW r \in Request, Submit(r) PROVE TypeOK'
  <2>1. Append(queue, r) \in Seq(Job)
    BY AppendType DEF Job
  <2>2. queue' \in Seq(Job)
    BY <1>1, <2>1 DEF Submit, TypeOK
  <2>3. /\ result' \in [Request -> Outcome]
        /\ answer' \in [Request -> Outcome \cup {"new", "waiting", "timeout"}]
    BY <1>1 DEF Submit, TypeOK, Outcome
  <2> QED BY <1>1, <2>2, <2>3 DEF Submit, TypeOK
<1>2. ASSUME NEW r \in Request, Receive(r) \/ GiveUp(r) PROVE TypeOK'
  BY <1>2 DEF Receive, GiveUp, TypeOK
<1>3. CASE AskReload
  <2>1. queue' \in Seq(Job)
    BY <1>3, AppendType DEF AskReload, Job
  <2>2. reloads' \in 0..MaxReloads
    BY <1>3, BoundsAssumption DEF AskReload, TypeOK
  <2> QED BY <1>3, <2>1, <2>2 DEF AskReload, TypeOK
<1>4. CASE BeginClose \/ Shutdown
  <2>1. queue' \in Seq(Job)
    BY <1>4, AppendType DEF BeginClose, Shutdown, Job, TypeOK
  <2> QED BY <1>4, <2>1 DEF BeginClose, Shutdown, TypeOK
<1>5. CASE StartReload
  BY <1>5, TakeJobType, NoEntriesType DEF StartReload, TypeOK, Category
<1>6. CASE LoadCategory
  <2>1. Installed(category, disk[category]) \in Dict
    BY InstalledType DEF TypeOK
  <2> QED BY <1>6, <2>1 DEF LoadCategory, EndLoad, TypeOK, Category
<1>7. CASE LoadRaises
  BY <1>7 DEF LoadRaises, EndLoad, TypeOK, Category
<1>8. CASE RunClose
  BY <1>8, TakeJobType DEF RunClose, TypeOK
<1>9. ASSUME NEW r \in Request, StartEval(r) PROVE TypeOK'
  <2>1. queue' \in Seq(Job)
    BY <1>9, TakeJobType DEF StartEval
  <2> QED BY <1>9, <2>1, BlankTypes DEF StartEval, ResetCounters, TypeOK
<1>10. ASSUME NEW r \in Request, EvalOnClosed(r) PROVE TypeOK'
  BY <1>10, TakeJobType DEF EvalOnClosed, TypeOK, Outcome
<1>11. ASSUME NEW c \in Category, NEW n \in Name, NEW e \in Entry, Define(c, n, e)
       PROVE  TypeOK'
  <2>1. [memory[c] EXCEPT ![n] = e] \in Dict
    BY DEF TypeOK, Dict
  <2>2. memory' = [memory EXCEPT ![c] = [memory[c] EXCEPT ![n] = e]]
    BY <1>11 DEF Define
  <2>3. edits' \in 0..MaxEdits
    BY <1>11, BoundsAssumption DEF Define, TypeOK
  <2> QED BY <1>11, <2>1, <2>2, <2>3 DEF Define, TypeOK
<1>12. ASSUME NEW b \in Builtin, Call(b) PROVE TypeOK'
  BY <1>12 DEF Call, TypeOK
<1>13. CASE ScriptFails
  <2>1. \A c \in Category : DOMAIN Changed(c) \subseteq Name
    BY ChangedIs DEF TypeOK
  <2>2. unsaved' \in [Category -> SUBSET Name]
    BY <1>13, <2>1 DEF ScriptFails, TypeOK
  <2>3. /\ EndEval("error") /\ "error" \in Outcome
        /\ memory' \in [Category -> Dict] /\ disk' \in [Category -> Dict]
    BY <1>13 DEF ScriptFails, TypeOK, Outcome
  <2> QED BY <2>2, <2>3, EndEvalType
<1>14. CASE ScriptEnds
  BY <1>14 DEF ScriptEnds, TypeOK, Category
<1>15. CASE SaveCategory
  <2>1. Apply(disk[category], Vetted(category)) \in Dict
    BY VettedIs, ApplyType DEF TypeOK
  <2>2. DOMAIN Changed(category) \subseteq Name
    BY ChangedIs DEF TypeOK
  <2>3. disk' \in [Category -> Dict] /\ unsaved' \in [Category -> SUBSET Name]
    BY <1>15, <2>1, <2>2 DEF SaveCategory, TypeOK
  <2>4. CASE LastCategory(category)
    <3>1. EndEval("ok") /\ "ok" \in Outcome /\ memory' \in [Category -> Dict]
      BY <1>15, <2>4 DEF SaveCategory, TypeOK, Outcome
    <3> QED BY <2>3, <3>1, EndEvalType
  <2>5. CASE ~LastCategory(category)
    BY <1>15, <2>3, <2>5 DEF SaveCategory, TypeOK, Category
  <2> QED BY <2>4, <2>5
<1>16. CASE SaveRaises
  <2>1. PICK written \in SUBSET DOMAIN Vetted(category) :
          disk' = [disk EXCEPT ![category] =
                     Apply(@, [n \in written |-> Vetted(category)[n]])]
    BY <1>16 DEF SaveRaises
  <2> DEFINE part == [n \in written |-> Vetted(category)[n]]
  <2>2. part \in Changes
    <3>1. written \in SUBSET Name /\ \A n \in written : Vetted(category)[n] \in Entry
      BY VettedIs, ChangesElim DEF TypeOK
    <3>2. part \in [written -> Entry]
      BY <3>1
    <3> QED BY <3>1, <3>2, ChangesIntro
  <2>3. disk' \in [Category -> Dict]
    BY <2>1, <2>2, ApplyType DEF TypeOK
  <2>4. \A c \in Category : DOMAIN Changed(c) \subseteq Name
    BY ChangedIs DEF TypeOK
  <2>5. unsaved' \in [Category -> SUBSET Name]
    BY <1>16, <2>4 DEF SaveRaises, TypeOK
  <2>6. EndEval("raised") /\ "raised" \in Outcome /\ memory' \in [Category -> Dict]
    BY <1>16 DEF SaveRaises, TypeOK, Outcome
  <2> QED BY <2>3, <2>5, <2>6, EndEvalType
<1>17. ASSUME NEW c \in Category, NEW edit \in OutsideEdits, OutsideEdit(c, edit)
       PROVE  TypeOK'
  <2>1. edit \in Changes /\ DOMAIN edit \subseteq Name
    BY OutsideEditsAssumption, ChangesElim
  <2>2. Apply(disk[c], edit) \in Dict
    BY <2>1, ApplyType DEF TypeOK
  <2> QED BY <1>17, <2>1, <2>2 DEF OutsideEdit, TypeOK
<1>18. CASE Crash
  <2>1. result' \in [Request -> Outcome]
    BY <1>18 DEF Crash, TypeOK, Outcome
  <2>2. answer' \in [Request -> Outcome \cup {"new", "waiting", "timeout"}]
    BY <1>18 DEF Crash, TypeOK, Outcome
  <2> QED BY <1>18, <2>1, <2>2, NoEntriesType, BlankTypes DEF Crash, TypeOK, Category
<1>19. CASE UNCHANGED vars
  BY <1>19 DEF vars, TypeOK
<1> QED
  BY <1>1, <1>2, <1>3, <1>4, <1>5, <1>6, <1>7, <1>8, <1>9, <1>10, <1>11, <1>12,
     <1>13, <1>14, <1>15, <1>16, <1>17, <1>18, <1>19
     DEF Next, Worker, Script, Callers, Environment

\* The state of the engine has its type in every reachable state.
THEOREM TypeCorrect == Spec => []TypeOK
BY TypeInit, TypeStep, PTL DEF Spec
-----------------------------------------------------------------------------
(* What the interpreter and the store disagree about. *)

\* While an eval is going on, it is the snapshot that the store was last
\* compared with; a category that is saved, and everything between evals,
\* is compared as it is in memory.
Compared(c) ==
    IF pc = "script" \/ (pc = "save" /\ (category = "procs" \/ c = "vars"))
    THEN pre[c] ELSE memory[c]

Explained ==
    \A c \in Category, n \in Name \ Automatic :
        Compared(c)[n] # disk[c][n] => n \in unsaved[c]

LEMMA ExplainedInit == Init => Explained
BY DEF Init, Explained

\* The jobs of the worker between evals, the environment and a failed eval.
LEMMA ExplainedStep == TypeOK /\ Explained /\ [Next]_vars => Explained'
<1> SUFFICES ASSUME TypeOK, Explained, [Next]_vars,
                    NEW c \in Category, NEW n \in Name \ Automatic,
                    Compared(c)'[n] # disk'[c][n]
             PROVE  n \in unsaved'[c]
  BY DEF Explained
<1> USE DEF stateVars, workerVars, evalVars, callerVars
<1>0. /\ Compared(c)[n] # disk[c][n] => n \in unsaved[c]
      /\ n \in Name /\ c \in {"procs", "vars"}
      /\ pre[c] \in Dict /\ memory[c] \in Dict
  BY DEF Explained, TypeOK, Category
<1>1. CASE UNCHANGED <<memory, disk, unsaved, pc, category, pre>>
  BY <1>0, <1>1 DEF Compared
<1>2. CASE StartReload \/ Crash
  BY <1>0, <1>2 DEF StartReload, Crash
<1>3. CASE LoadCategory
  <2>1. CASE c = category
    <3>1. /\ memory'[c] = Installed(c, disk[c]) /\ disk' = disk
          /\ unsaved'[c] = {m \in Name : Installed(c, disk[c])[m] # disk[c][m]}
      BY <1>3, <2>1 DEF LoadCategory, TypeOK
    <3>2. Compared(c)' = memory'[c]
      BY <1>3 DEF LoadCategory, EndLoad, Compared
    <3> QED BY <1>0, <3>1, <3>2
  <2>2. CASE c # category
    <3>1. memory'[c] = memory[c] /\ unsaved'[c] = unsaved[c] /\ disk' = disk
      BY <1>3, <2>2 DEF LoadCategory, TypeOK
    <3>2. Compared(c)' = memory'[c] /\ Compared(c) = memory[c]
      BY <1>3 DEF LoadCategory, EndLoad, Compared
    <3> QED BY <1>0, <3>1, <3>2
  <2> QED BY <2>1, <2>2
<1>4. CASE LoadRaises
  BY <1>0, <1>4 DEF LoadRaises, EndLoad, Compared
<1>5. ASSUME NEW r \in Request, StartEval(r) PROVE n \in unsaved'[c]
  <2>1. Compared(c)' = memory[c] /\ Compared(c) = memory[c]
    BY <1>5 DEF StartEval, TakeJob, Compared
  <2> QED BY <1>0, <1>5, <2>1 DEF StartEval
<1>6. ASSUME NEW d \in Category, NEW m \in Name, NEW e \in Entry, Define(d, m, e)
      PROVE  n \in unsaved'[c]
  BY <1>0, <1>6 DEF Define, Compared
<1>7. CASE ScriptFails
  <2>1. /\ unsaved'[c] = unsaved[c] \cup DOMAIN Changed(c)
        /\ Compared(c)' = memory[c] /\ Compared(c) = pre[c] /\ disk' = disk
    BY <1>7 DEF ScriptFails, EndEval, Compared
  <2>2. memory[c][n] # pre[c][n] => n \in DOMAIN Changed(c)
    BY <1>0, ChangedIs
  <2> QED BY <1>0, <2>1, <2>2
<1>8. CASE ScriptEnds
  BY <1>0, <1>8 DEF ScriptEnds, Compared
<1>9. CASE SaveCategory
  <2>1. /\ Compared(c)' = IF c = category \/ category = "vars" THEN memory[c] ELSE pre[c]
        /\ Compared(c) = IF c = "procs" /\ category = "vars" THEN memory[c] ELSE pre[c]
    BY <1>0, <1>9 DEF SaveCategory, LastCategory, EndEval, Compared, TypeOK, Category
  <2>2. CASE c # category
    <3>1. disk'[c] = disk[c] /\ unsaved'[c] = unsaved[c]
      BY <1>9, <2>2 DEF SaveCategory, TypeOK
    <3>2. Compared(c)' = Compared(c)
      BY <1>0, <2>1, <2>2 DEF TypeOK, Category
    <3> QED BY <1>0, <3>1, <3>2
  <2>3. CASE c = category
    <3>1. /\ disk'[c] = Apply(disk[c], Vetted(c))
          /\ unsaved'[c] = (unsaved[c] \ DOMAIN Vetted(c))
                             \cup (DOMAIN Changed(c) \ DOMAIN Vetted(c))
      BY <1>9, <2>3 DEF SaveCategory, TypeOK
    <3>2. Compared(c)' = memory[c] /\ Compared(c) = pre[c]
      BY <1>0, <2>1, <2>3
    <3>3. n \notin DOMAIN Vetted(c)
      BY <1>0, <3>1, <3>2, VettedIs DEF Apply
    <3>4. disk'[c][n] = disk[c][n]
      BY <1>0, <3>1, <3>3 DEF Apply
    <3>5. memory[c][n] # pre[c][n] => n \in DOMAIN Changed(c)
      BY <1>0, ChangedIs
    <3> QED BY <1>0, <3>1, <3>2, <3>3, <3>4, <3>5
  <2> QED BY <2>2, <2>3
<1>10. CASE SaveRaises
  <2>1. Compared(c)' = memory[c]
    BY <1>10 DEF SaveRaises, EndEval, Compared
  <2>2. PICK written \in SUBSET DOMAIN Vetted(category) :
          disk' = [disk EXCEPT ![category] =
                     Apply(@, [m \in written |-> Vetted(category)[m]])]
    BY <1>10 DEF SaveRaises
  <2>3. CASE c = "procs" /\ category = "vars"
    <3>1. disk'[c] = disk[c] /\ unsaved'[c] = unsaved[c] /\ Compared(c) = memory[c]
      BY <1>10, <2>2, <2>3 DEF SaveRaises, Compared, TypeOK
    <3> QED BY <1>0, <2>1, <3>1
  <2>4. CASE ~(c = "procs" /\ category = "vars")
    <3>1. unsaved'[c] = unsaved[c] \cup DOMAIN Changed(c) /\ Compared(c) = pre[c]
      BY <1>0, <1>10, <2>4 DEF SaveRaises, Compared, TypeOK, Category
    <3>2. /\ memory[c][n] # pre[c][n] => n \in DOMAIN Changed(c)
          /\ DOMAIN Vetted(c) \subseteq DOMAIN Changed(c)
      BY <1>0, ChangedIs, VettedIs
    <3>3. n \notin DOMAIN Changed(c) => disk'[c][n] = disk[c][n]
      BY <1>0, <2>2, <3>2 DEF Apply, TypeOK
    <3> QED BY <1>0, <2>1, <3>1, <3>2, <3>3
  <2> QED BY <2>3, <2>4
<1>11. ASSUME NEW d \in Category, NEW edit \in OutsideEdits, OutsideEdit(d, edit)
       PROVE  n \in unsaved'[c]
  <2>1. Compared(c)' = Compared(c)
    BY <1>11 DEF OutsideEdit, Compared
  <2>2. CASE c # d
    BY <1>0, <1>11, <2>1, <2>2 DEF OutsideEdit, TypeOK
  <2>3. CASE c = d /\ n \in DOMAIN edit
    BY <1>11, <2>3 DEF OutsideEdit, TypeOK
  <2>4. CASE c = d /\ n \notin DOMAIN edit
    <3>1. disk'[c][n] = disk[c][n] /\ unsaved[c] \subseteq unsaved'[c]
      BY <1>0, <1>11, <2>4 DEF OutsideEdit, Apply, TypeOK
    <3> QED BY <1>0, <2>1, <3>1
  <2> QED BY <2>2, <2>3, <2>4
<1>12. ASSUME NEW r \in Request, Submit(r) \/ Receive(r) \/ GiveUp(r) \/ EvalOnClosed(r)
       PROVE  UNCHANGED <<memory, disk, unsaved, pc, category, pre>>
  BY <1>12 DEF Submit, Receive, GiveUp, EvalOnClosed
<1>13. ASSUME AskReload \/ BeginClose \/ Shutdown \/ RunClose \/ \E b \in Builtin : Call(b)
       PROVE  UNCHANGED <<memory, disk, unsaved, pc, category, pre>>
  BY <1>13 DEF AskReload, BeginClose, Shutdown, RunClose, Call
<1>14. CASE UNCHANGED vars
  BY <1>1, <1>14 DEF vars
<1> QED
  BY <1>1, <1>2, <1>3, <1>4, <1>5, <1>6, <1>7, <1>8, <1>9, <1>10, <1>11, <1>12,
     <1>13, <1>14
     DEF Next, Worker, Script, Callers, Environment

\* Between jobs, memory and disk differ only where the code left them apart.
THEOREM DivergenceCorrect == Spec => []DivergenceIsExplained
<1>1. TypeOK /\ Explained => DivergenceIsExplained
  BY DEF Explained, Compared, DivergenceIsExplained
<1> QED BY <1>1, TypeInit, TypeStep, ExplainedInit, ExplainedStep, PTL DEF Spec
-----------------------------------------------------------------------------
(* What reaches the store. *)

\* During an eval, only the names it touched differ from the snapshot.
TouchedExplains ==
    pc \in {"script", "save"} =>
        \A c \in Category, n \in Name : memory[c][n] # pre[c][n] => n \in touched[c]

LEMMA TouchedInit == Init => TouchedExplains
BY DEF Init, TouchedExplains

LEMMA TouchedStep == TypeOK /\ TouchedExplains /\ [Next]_vars => TouchedExplains'
<1> SUFFICES ASSUME TypeOK, TouchedExplains, [Next]_vars,
                    pc' \in {"script", "save"},
                    NEW c \in Category, NEW n \in Name, memory'[c][n] # pre'[c][n]
             PROVE  n \in touched'[c]
  BY DEF TouchedExplains
<1> USE DEF stateVars, workerVars, evalVars, callerVars
<1>1. CASE UNCHANGED <<memory, pre, touched>> /\ pc \in {"script", "save"}
  BY <1>1 DEF TouchedExplains
<1>2. ASSUME NEW r \in Request, StartEval(r) PROVE n \in touched'[c]
  BY <1>2 DEF StartEval
<1>3. ASSUME NEW d \in Category, NEW m \in Name, NEW e \in Entry, Define(d, m, e)
      PROVE  n \in touched'[c]
  <2>1. CASE c = d /\ n = m
    BY <1>3, <2>1 DEF Define, TypeOK
  <2>2. CASE ~(c = d /\ n = m)
    <3>1. memory'[c][n] = memory[c][n] /\ pre' = pre /\ touched[c] \subseteq touched'[c]
      BY <1>3, <2>2 DEF Define, TypeOK, Dict
    <3> QED BY <1>3, <3>1 DEF Define, TouchedExplains
  <2> QED BY <2>1, <2>2
<1>4. ASSUME NEW r \in Request, Submit(r) \/ Receive(r) \/ GiveUp(r) \/ EvalOnClosed(r)
      PROVE  UNCHANGED <<memory, pre, touched, pc>>
  BY <1>4 DEF Submit, Receive, GiveUp, EvalOnClosed
<1>5. ASSUME \/ AskReload \/ BeginClose \/ Shutdown \/ RunClose
             \/ \E b \in Builtin : Call(b)
             \/ \E d \in Category, edit \in OutsideEdits : OutsideEdit(d, edit)
      PROVE  UNCHANGED <<memory, pre, touched, pc>>
  BY <1>5 DEF AskReload, BeginClose, Shutdown, RunClose, Call, OutsideEdit
<1>6. ASSUME StartReload \/ LoadCategory \/ LoadRaises \/ ScriptFails \/ SaveRaises \/ Crash
      PROVE  FALSE
  BY <1>6 DEF StartReload, LoadCategory, LoadRaises, EndLoad, ScriptFails, SaveRaises,
     EndEval, Crash
<1>7. CASE ScriptEnds
  BY <1>1, <1>7 DEF ScriptEnds
<1>8. CASE SaveCategory
  BY <1>1, <1>8 DEF SaveCategory, EndEval
<1>9. CASE UNCHANGED vars
  BY <1>1, <1>9 DEF vars
<1> QED
  BY <1>1, <1>2, <1>3, <1>4, <1>5, <1>6, <1>7, <1>8, <1>9
     DEF Next, Worker, Script, Callers, Environment

\* A change to disk is the running eval's or the outside world's.
DiskStep ==
    \A c \in Category, n \in Name :
        disk'[c][n] # disk[c][n] =>
            \/ pc = "save" /\ n \in touched[c] /\ disk'[c][n] = memory[c][n]
            \/ \E edit \in OutsideEdits : OutsideEdit(c, edit)

LEMMA OwnChangesStep == TypeOK /\ TouchedExplains /\ [Next]_vars => DiskStep
<1> SUFFICES ASSUME TypeOK, TouchedExplains, [Next]_vars,
                    NEW c \in Category, NEW n \in Name, disk'[c][n] # disk[c][n]
             PROVE  \/ pc = "save" /\ n \in touched[c] /\ disk'[c][n] = memory[c][n]
                    \/ \E edit \in OutsideEdits : OutsideEdit(c, edit)
  BY DEF DiskStep
<1> USE DEF stateVars, workerVars, evalVars, callerVars
<1>0. ASSUME n \in DOMAIN Vetted(c), pc = "save"
      PROVE  n \in touched[c] /\ Vetted(c)[n] = memory[c][n]
  <2>1. pre[c] \in Dict /\ memory[c] \in Dict
    BY DEF TypeOK
  <2>2. memory[c][n] # pre[c][n] /\ Vetted(c)[n] = memory[c][n]
    BY <1>0, <2>1, VettedIs, ChangedIs
  <2> QED BY <1>0, <2>2 DEF TouchedExplains
<1>1. CASE SaveCategory
  <2>1. c = category /\ disk'[c] = Apply(disk[c], Vetted(c)) /\ pc = "save"
    BY <1>1 DEF SaveCategory, TypeOK
  <2>2. n \in DOMAIN Vetted(c) /\ disk'[c][n] = Vetted(c)[n]
    BY <2>1 DEF Apply
  <2> QED BY <1>0, <2>1, <2>2
<1>2. CASE SaveRaises
  <2>1. PICK written \in SUBSET DOMAIN Vetted(category) :
          disk' = [disk EXCEPT ![category] =
                     Apply(@, [m \in written |-> Vetted(category)[m]])]
    BY <1>2 DEF SaveRaises
  <2>2. c = category /\ pc = "save"
    BY <1>2, <2>1 DEF SaveRaises, TypeOK
  <2>3. disk'[c] = Apply(disk[c], [m \in written |-> Vetted(c)[m]])
    BY <2>1, <2>2 DEF TypeOK
  <2>4. n \in DOMAIN Vetted(c) /\ disk'[c][n] = Vetted(c)[n]
    BY <2>1, <2>2, <2>3 DEF Apply
  <2> QED BY <1>0, <2>2, <2>4
<1>3. ASSUME NEW d \in Category, NEW edit \in OutsideEdits, OutsideEdit(d, edit)
      PROVE  c = d
  BY <1>3 DEF OutsideEdit, TypeOK
<1>4. ASSUME NEW r \in Request,
             Submit(r) \/ Receive(r) \/ GiveUp(r) \/ StartEval(r) \/ EvalOnClosed(r)
      PROVE  FALSE
  BY <1>4 DEF Submit, Receive, GiveUp, StartEval, EvalOnClosed
<1>5. ASSUME \/ AskReload \/ BeginClose \/ Shutdown \/ RunClose
             \/ StartReload \/ LoadCategory \/ LoadRaises \/ ScriptFails \/ ScriptEnds \/ Crash
             \/ \E d \in Category, m \in Name, e \in Entry : Define(d, m, e)
             \/ \E b \in Builtin : Call(b)
             \/ UNCHANGED vars
      PROVE  FALSE
  BY <1>5 DEF AskReload, BeginClose, Shutdown, RunClose, StartReload, LoadCategory,
     LoadRaises, ScriptFails, ScriptEnds, Crash, Define, Call, vars
<1> QED
  BY <1>1, <1>2, <1>3, <1>4, <1>5 DEF Next, Worker, Script, Callers, Environment

\* The engine never writes to the store an entry that the eval it runs did
\* not touch, nor a value other than the one in memory.
THEOREM OwnChangesOnly == Spec => OnlyOwnChangesReachDisk
<1>1. DiskStep => \A c \in Category, n \in Name :
                     disk'[c][n] # disk[c][n] =>
                        \/ pc = "save" /\ n \in touched[c] /\ disk'[c][n] = memory[c][n]
                        \/ \E edit \in OutsideEdits : OutsideEdit(c, edit)
  BY DEF DiskStep
<1> QED
  BY <1>1, TypeInit, TypeStep, TouchedInit, TouchedStep, OwnChangesStep, PTL
     DEF Spec, OnlyOwnChangesReachDisk

-----------------------------------------------------------------------------
(* The builtins' caps. *)

\* While a script runs, the counters count its calls and no others.
CountersAreFresh ==
    /\ BuiltinQuota
    /\ pc = "script" => \A b \in Builtin : calls[b] = asked[b]

LEMMA CountersInit == Init => CountersAreFresh
BY LimitAssumption DEF Init, CountersAreFresh, BuiltinQuota, NoCalls

LEMMA CountersStep == TypeOK /\ CountersAreFresh /\ [Next]_vars => CountersAreFresh'
<1> SUFFICES ASSUME TypeOK, CountersAreFresh, [Next]_vars PROVE CountersAreFresh'
  OBVIOUS
<1> USE DEF stateVars, workerVars, evalVars, callerVars
<1>1. ASSUME NEW r \in Request, StartEval(r) PROVE CountersAreFresh'
  BY <1>1, LimitAssumption DEF StartEval, ResetCounters, CountersAreFresh, BuiltinQuota, NoCalls
<1>2. ASSUME NEW b \in Builtin, Call(b) PROVE CountersAreFresh'
  <2>1. \A x \in Builtin : Limit[x] \in Nat /\ calls[x] \in Nat /\ asked[x] \in Nat
                           /\ performed[x] \in Nat /\ calls[x] = asked[x]
    BY <1>2, LimitAssumption DEF TypeOK, Call, CountersAreFresh
  <2>2. ASSUME NEW x \in Builtin
        PROVE  /\ performed'[x] = IF asked'[x] <= Limit[x] THEN asked'[x] ELSE Limit[x]
               /\ calls'[x] = asked'[x]
    <3>1. CASE x = b
      BY <1>2, <2>1, <3>1 DEF Call, WithinLimit, CountersAreFresh, BuiltinQuota, TypeOK
    <3>2. CASE x # b
      BY <1>2, <2>1, <3>2 DEF Call, CountersAreFresh, BuiltinQuota, TypeOK
    <3> QED BY <3>1, <3>2
  <2> QED BY <2>2 DEF CountersAreFresh, BuiltinQuota
<1>3. CASE pc' # "script" /\ UNCHANGED <<asked, performed>>
  BY <1>3 DEF CountersAreFresh, BuiltinQuota
<1>4. CASE UNCHANGED <<pc, calls, asked, performed>>
  BY <1>4 DEF CountersAreFresh, BuiltinQuota
<1>5. CASE pc' # "script" /\ asked' = NoCalls /\ performed' = NoCalls
  BY <1>5, LimitAssumption DEF CountersAreFresh, BuiltinQuota, NoCalls
<1>6. ASSUME NEW r \in Request, Submit(r) \/ Receive(r) \/ GiveUp(r) \/ EvalOnClosed(r)
      PROVE  CountersAreFresh'
  BY <1>4, <1>6 DEF Submit, Receive, GiveUp, EvalOnClosed
<1>7. CASE \/ AskReload \/ BeginClose \/ Shutdown \/ RunClose
           \/ \E c \in Category, n \in Name, e \in Entry : Define(c, n, e)
           \/ \E c \in Category, edit \in OutsideEdits : OutsideEdit(c, edit)
           \/ UNCHANGED vars
  BY <1>4, <1>7 DEF AskReload, BeginClose, Shutdown, RunClose, Define, OutsideEdit, vars
<1>8. CASE StartReload \/ LoadCategory \/ LoadRaises \/ ScriptEnds
  BY <1>3, <1>8 DEF StartReload, LoadCategory, LoadRaises, EndLoad, ScriptEnds
<1>9. CASE ScriptFails \/ SaveRaises \/ Crash
  BY <1>5, <1>9 DEF ScriptFails, SaveRaises, EndEval, Crash
<1>10. CASE SaveCategory
  BY <1>3, <1>5, <1>10 DEF SaveCategory, EndEval
<1> QED
  BY <1>1, <1>2, <1>6, <1>7, <1>8, <1>9, <1>10
     DEF Next, Worker, Script, Callers, Environment

\* Each eval gets exactly its quota of every capped builtin.
THEOREM QuotaCorrect == Spec => []BuiltinQuota
<1>1. CountersAreFresh => BuiltinQuota
  BY DEF CountersAreFresh
<1> QED BY <1>1, TypeInit, TypeStep, CountersInit, CountersStep, PTL DEF Spec
-----------------------------------------------------------------------------
(* What "ok" promises, where nobody else writes to the store. *)

\* When the variables' turn comes, the procs are saved.
ProcsAreSaved ==
    pc = "save" /\ category = "vars" =>
        \A n \in DOMAIN Vetted("procs") : disk["procs"][n] = memory["procs"][n]

LEMMA VettedUnchanged ==
    ASSUME UNCHANGED <<memory, pre>>
    PROVE  \A c \in Category : Vetted(c)' = Vetted(c)
BY DEF Vetted, vet_changes, Changed, diff_category

\* A saved category is on disk as it is in memory.
LEMMA CategorySaved ==
    ASSUME TypeOK, disk'[category] = Apply(disk[category], Vetted(category))
    PROVE  \A n \in DOMAIN Vetted(category) : disk'[category][n] = memory[category][n]
<1>1. pre[category] \in Dict /\ memory[category] \in Dict
  BY DEF TypeOK
<1>2. /\ DOMAIN Vetted(category) \subseteq Name
      /\ \A n \in DOMAIN Vetted(category) : Vetted(category)[n] = memory[category][n]
  BY <1>1, VettedIs, ChangesElim DEF TypeOK
<1>3. ASSUME NEW n \in DOMAIN Vetted(category)
      PROVE  Apply(disk[category], Vetted(category))[n] = Vetted(category)[n]
  BY <1>2 DEF Apply
<1> QED BY <1>2, <1>3

LEMMA ProcsSavedInit == Init => ProcsAreSaved
BY DEF Init, ProcsAreSaved

LEMMA ProcsSavedStep ==
    ASSUME OutsideEdits = {}, TypeOK, ProcsAreSaved, [Next]_vars
    PROVE  ProcsAreSaved'
<1> SUFFICES ASSUME pc' = "save", category' = "vars"
             PROVE  \A n \in DOMAIN Vetted("procs")' : disk'["procs"][n] = memory'["procs"][n]
  BY DEF ProcsAreSaved
<1> USE DEF stateVars, workerVars, evalVars, callerVars
<1>1. CASE UNCHANGED <<memory, disk, pre, pc, category>>
  BY <1>1, VettedUnchanged DEF ProcsAreSaved, Category
<1>2. CASE SaveCategory
  <2>1. category = "procs" /\ UNCHANGED <<memory, pre>>
    BY <1>2 DEF SaveCategory, LastCategory, EndEval, TypeOK, Category
  <2>2. disk'["procs"] = Apply(disk["procs"], Vetted("procs"))
    BY <1>2, <2>1 DEF SaveCategory, TypeOK
  <2>3. Vetted("procs")' = Vetted("procs")
    BY <2>1, VettedUnchanged DEF Category
  <2> QED BY <2>1, <2>2, <2>3, CategorySaved
<1>3. ASSUME NEW r \in Request, Submit(r) \/ Receive(r) \/ GiveUp(r) \/ EvalOnClosed(r)
      PROVE  UNCHANGED <<memory, disk, pre, pc, category>>
  BY <1>3 DEF Submit, Receive, GiveUp, EvalOnClosed
<1>4. ASSUME \/ AskReload \/ BeginClose \/ Shutdown \/ RunClose
             \/ \E b \in Builtin : Call(b)
             \/ UNCHANGED vars
      PROVE  UNCHANGED <<memory, disk, pre, pc, category>>
  BY <1>4 DEF AskReload, BeginClose, Shutdown, RunClose, Call, vars
<1>5. ASSUME StartReload \/ LoadCategory \/ LoadRaises \/ ScriptFails \/ ScriptEnds
             \/ SaveRaises \/ Crash
      PROVE  FALSE
  BY <1>5 DEF StartReload, LoadCategory, LoadRaises, EndLoad, ScriptFails, ScriptEnds,
     SaveRaises, EndEval, Crash
<1>6. ASSUME \/ \E r \in Request : StartEval(r)
             \/ \E c \in Category, n \in Name, e \in Entry : Define(c, n, e)
      PROVE  FALSE
  BY <1>6 DEF StartEval, Define
<1> QED
  BY <1>1, <1>2, <1>3, <1>4, <1>5, <1>6 DEF Next, Worker, Script, Callers, Environment

\* An eval that ends "ok" in this step has both categories on disk.
OkStep ==
    \A r \in Request : result[r] = "none" /\ result'[r] = "ok" =>
        \A c \in Category : \A n \in DOMAIN Vetted(c) : disk'[c][n] = memory[c][n]

LEMMA OkMeansSavedStep == TypeOK /\ ProcsAreSaved /\ [Next]_vars => OkStep
<1> SUFFICES ASSUME TypeOK, ProcsAreSaved, [Next]_vars,
                    NEW r \in Request, result[r] = "none", result'[r] = "ok"
             PROVE  \A c \in Category : \A n \in DOMAIN Vetted(c) :
                       disk'[c][n] = memory[c][n]
  BY DEF OkStep
<1> USE DEF stateVars, workerVars, evalVars, callerVars
<1>1. CASE SaveCategory
  <2>1. pc = "save" /\ category = "vars"
    BY <1>1 DEF SaveCategory, LastCategory
  <2>2. disk'["vars"] = Apply(disk["vars"], Vetted("vars")) /\ disk'["procs"] = disk["procs"]
    BY <1>1, <2>1 DEF SaveCategory, TypeOK, Category
  <2>3. \A n \in DOMAIN Vetted("vars") : disk'["vars"][n] = memory["vars"][n]
    BY <2>1, <2>2, CategorySaved
  <2>4. \A n \in DOMAIN Vetted("procs") : disk'["procs"][n] = memory["procs"][n]
    BY <2>1, <2>2 DEF ProcsAreSaved
  <2> QED BY <2>3, <2>4 DEF Category
<1>2. ASSUME NEW q \in Request, Submit(q) \/ EvalOnClosed(q)
      PROVE  FALSE
  BY <1>2 DEF Submit, EvalOnClosed, TypeOK
<1>3. CASE ScriptFails \/ SaveRaises \/ Crash
  BY <1>3 DEF ScriptFails, SaveRaises, EndEval, Crash, TypeOK
<1>4. ASSUME NEW q \in Request, Receive(q) \/ GiveUp(q) \/ StartEval(q)
      PROVE  FALSE
  BY <1>4 DEF Receive, GiveUp, StartEval
<1>5. ASSUME \/ AskReload \/ BeginClose \/ Shutdown \/ RunClose
             \/ StartReload \/ LoadCategory \/ LoadRaises \/ ScriptEnds
             \/ \E c \in Category, n \in Name, e \in Entry : Define(c, n, e)
             \/ \E b \in Builtin : Call(b)
             \/ \E c \in Category, edit \in OutsideEdits : OutsideEdit(c, edit)
             \/ UNCHANGED vars
      PROVE  FALSE
  BY <1>5 DEF AskReload, BeginClose, Shutdown, RunClose, StartReload, LoadCategory,
     LoadRaises, EndLoad, ScriptEnds, Define, Call, OutsideEdit, vars
<1> QED
  BY <1>1, <1>2, <1>3, <1>4, <1>5 DEF Next, Worker, Script, Callers, Environment

\* Where no other process writes to the store, an eval answered "ok" has
\* saved every accepted change of both categories, however long it took.
THEOREM OkIsSaved == OutsideEdits = {} /\ Spec => OkMeansSaved
<1>1. ASSUME OutsideEdits = {}
      PROVE  TypeOK /\ ProcsAreSaved /\ [Next]_vars => ProcsAreSaved'
  BY <1>1, ProcsSavedStep
<1>2. OkStep => \A r \in Request : result[r] = "none" /\ result'[r] = "ok" =>
                   \A c \in Category : \A n \in DOMAIN Vetted(c) :
                      disk'[c][n] = memory[c][n]
  BY DEF OkStep
<1>3. ASSUME OutsideEdits = {} PROVE Spec => OkMeansSaved
  <2>1. TypeOK /\ ProcsAreSaved /\ [Next]_vars => ProcsAreSaved'
    BY <1>1, <1>3
  <2> QED
    BY <2>1, <1>2, TypeInit, TypeStep, ProcsSavedInit, OkMeansSavedStep, PTL
       DEF Spec, OkMeansSaved
<1> QED BY <1>3

=============================================================================
