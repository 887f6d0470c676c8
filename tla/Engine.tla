-------------------------------- MODULE Engine --------------------------------
(***************************************************************************)
(* smeggdrop/engine.py: the chat platform's threads hand evals to one      *)
(* worker thread, which owns the Tcl interpreter and, after each eval,     *)
(* writes what the eval changed to the state store.                        *)
(*                                                                         *)
(* Each request is one call of Engine.eval by one platform thread.  The    *)
(* code of a request is arbitrary: it defines and deletes procs and        *)
(* variables one at a time, calls the host's builtins, and ends normally,  *)
(* with a Tcl error, or at its time limit (which is a Tcl error too).      *)
(*                                                                         *)
(* The store is what LibraryStore promises: a save changes exactly the     *)
(* entries it names; other processes and operators change others.          *)
(***************************************************************************)
EXTENDS StateDict, Integers, Sequences, FiniteSets

CONSTANTS
    Request,        \* the eval calls of this model
    Builtin,        \* the capped builtins: say, curl
    Limit,          \* say_max_calls, curl_max_calls
    MaxChanges,     \* max_changes_per_eval
    Unsafe,         \* names longer than max_name_chars or with { } \ newline
    TooLarge,       \* payloads over max_value_bytes
    Automatic,      \* errorInfo, errorCode, context::*
    Broken,         \* payloads that install_proc and install_var refuse
    Shadowed,       \* procs that alias_global_commands replaces by an alias
    OutsideEdits,   \* what other processes and operators write to the store
    MaxEdits,       \* bound on the definitions one eval makes
    MaxReloads      \* bound on the reloads the operator asks for

Category == {"procs", "vars"}

ASSUME RequestAssumption == Request \cap {"reload", "close", "boot", "nothing"} = {}
ASSUME LimitAssumption == Limit \in [Builtin -> Nat]
ASSUME BoundsAssumption == MaxChanges \in Nat /\ MaxEdits \in Nat /\ MaxReloads \in Nat
ASSUME OutsideEditsAssumption == OutsideEdits \subseteq Changes

VARIABLES
    memory,     \* the interpreter's procs and global variables
    disk,       \* the state store
    queue,      \* the executor's work queue
    running,    \* the job the worker runs
    pc,         \* where the worker is: "idle", "load", "script", "save"
    category,   \* the category being loaded or saved
    pre,        \* the snapshot taken before the eval
    calls,      \* _say_calls and _curl_calls
    interp,     \* "open", or "closed" once close() reached the worker
    service,    \* "up"; "closing": close() submitted its job; "shutdown"
    result,     \* how the worker ended each request
    answer,     \* what the thread that called eval got
    edits,      \* history: definitions the running eval made
    reloads,    \* history: reloads asked for
    touched,    \* history: the names the running eval changed
    unsaved,    \* history: the names known not to be on disk as in memory
    asked,      \* history: builtin calls the running eval made
    performed   \* history: those that were carried out

stateVars == <<memory, disk, unsaved>>
workerVars == <<running, pc, category, pre, interp>>
evalVars == <<calls, edits, touched, asked, performed>>
callerVars == <<queue, service, result, answer, reloads>>
vars == <<stateVars, workerVars, evalVars, callerVars>>

NoEntries == [c \in Category |-> EmptyDict]
NoNames == [c \in Category |-> {}]
NoCalls == [b \in Builtin |-> 0]

Job == Request \cup {"reload", "close"}
Outcome == {"none", "ok", "error", "raised", "lost"}

TypeOK ==
    /\ memory \in [Category -> Dict]
    /\ disk \in [Category -> Dict]
    /\ queue \in Seq(Job)
    /\ running \in Request \cup {"reload", "boot", "nothing"}
    /\ pc \in {"idle", "load", "script", "save"}
    /\ category \in Category
    /\ pre \in [Category -> Dict]
    /\ calls \in [Builtin -> Nat]
    /\ interp \in {"open", "closed"}
    /\ service \in {"up", "closing", "shutdown"}
    /\ result \in [Request -> Outcome]
    /\ answer \in [Request -> Outcome \cup {"new", "waiting", "timeout"}]
    /\ edits \in 0..MaxEdits
    /\ reloads \in 0..MaxReloads
    /\ touched \in [Category -> SUBSET Name]
    /\ unsaved \in [Category -> SUBSET Name]
    /\ asked \in [Builtin -> Nat]
    /\ performed \in [Builtin -> Nat]

\* A process that starts: __init__ has queued _init_interp on the worker.
Init ==
    /\ memory = NoEntries
    /\ disk \in [Category -> Dict]
    /\ queue = <<>>
    /\ running = "boot" /\ pc = "load" /\ category = "procs"
    /\ pre = NoEntries
    /\ calls = NoCalls
    /\ interp = "open"
    /\ service = "up"
    /\ result = [r \in Request |-> "none"]
    /\ answer = [r \in Request |-> "new"]
    /\ edits = 0 /\ reloads = 0
    /\ touched = NoNames
    /\ unsaved = [c \in Category |-> Name]
    /\ asked = NoCalls /\ performed = NoCalls

-----------------------------------------------------------------------------
(* Snapshots and changes. *)

\* Mutant of diff_category: compare with the store instead of the snapshot.
diff_category_disk(before, after) ==
    [n \in {m \in Name \ Automatic : disk[category][m] # after[m]} |-> after[n]]

\* Mutant of diff_category: a deletion is recorded as an empty payload.
diff_category_empty(before, after) ==
    [n \in {m \in Name \ Automatic : before[m] # after[m]} |->
        IF after[n] = None THEN "" ELSE after[n]]

diff_category(before, after) ==
    [n \in {m \in Name \ Automatic : before[m] # after[m]} |-> after[n]]

vet_changes(changes) ==
    IF Cardinality(DOMAIN changes) > MaxChanges THEN NoChanges
    ELSE [n \in {m \in DOMAIN changes \ Unsafe : changes[m] \notin TooLarge} |-> changes[n]]

\* What the eval changed in category c, and what of it is to be saved.
Changed(c) == diff_category(pre[c], memory[c])
Vetted(c) == vet_changes(Changed(c))

\* What _init_interp makes of a stored category: entries whose install
\* raises go to load_errors; aliases replace procs of the same name.
Installed(c, stored) ==
    [n \in Name |->
        IF stored[n] \in Broken \/ (c = "procs" /\ n \in Shadowed)
        THEN None ELSE stored[n]]

-----------------------------------------------------------------------------
(* Callers: Engine.eval, Engine.reload, Engine.close. *)

Booting == running = "boot"

\* eval submits the job and waits, or is refused after shutdown.
Submit(r) ==
    /\ answer[r] = "new" /\ ~Booting
    /\ IF service = "shutdown"
       THEN /\ answer' = [answer EXCEPT ![r] = "raised"]
            /\ result' = [result EXCEPT ![r] = "raised"]
            /\ UNCHANGED queue
       ELSE /\ answer' = [answer EXCEPT ![r] = "waiting"]
            /\ queue' = Append(queue, r)
            /\ UNCHANGED result
    /\ UNCHANGED <<stateVars, workerVars, evalVars, service, reloads>>

\* future.result returns, or re-raises what the worker raised.
Receive(r) ==
    /\ answer[r] = "waiting" /\ result[r] # "none"
    /\ answer' = [answer EXCEPT ![r] = result[r]]
    /\ UNCHANGED <<stateVars, workerVars, evalVars, queue, service, result, reloads>>

\* future.result times out; the job stays queued, or keeps running.
GiveUp(r) ==
    /\ answer[r] = "waiting" /\ result[r] = "none"
    /\ answer' = [answer EXCEPT ![r] = "timeout"]
    /\ UNCHANGED <<stateVars, workerVars, evalVars, queue, service, result, reloads>>

\* SIGHUP: on_hup calls reload.
AskReload ==
    /\ reloads < MaxReloads /\ service # "shutdown" /\ ~Booting
    /\ reloads' = reloads + 1
    /\ queue' = Append(queue, "reload")
    /\ UNCHANGED <<stateVars, workerVars, evalVars, service, result, answer>>

\* close: the interp is closed on the worker, behind whatever is queued...
BeginClose ==
    /\ service = "up" /\ ~Booting
    /\ service' = "closing"
    /\ queue' = Append(queue, "close")
    /\ UNCHANGED <<stateVars, workerVars, evalVars, result, answer, reloads>>

\* Mutant of Shutdown: executor.shutdown(cancel_futures=True).
ShutdownCancelling ==
    /\ service = "closing"
    /\ service' = "shutdown"
    /\ queue' = <<>>
    /\ UNCHANGED <<stateVars, workerVars, evalVars, result, answer, reloads>>

\* ...and then the executor takes no more jobs.
Shutdown ==
    /\ service = "closing"
    /\ service' = "shutdown"
    /\ UNCHANGED <<stateVars, workerVars, evalVars, queue, result, answer, reloads>>

-----------------------------------------------------------------------------
(* The worker: _init_interp and _reload. *)

TakeJob(job) ==
    /\ pc = "idle" /\ queue # <<>> /\ Head(queue) = job
    /\ queue' = Tail(queue)

\* self.interp is the new, empty interpreter from here on.
StartReload ==
    /\ TakeJob("reload")
    /\ memory' = NoEntries
    /\ unsaved' = [c \in Category |-> Name]
    /\ interp' = "open"
    /\ running' = "reload" /\ pc' = "load" /\ category' = "procs"
    /\ UNCHANGED <<disk, pre, evalVars, service, result, answer, reloads>>

EndLoad ==
    /\ running' = "nothing" /\ pc' = "idle" /\ category' = "procs"

LoadCategory ==
    /\ pc = "load"
    /\ memory' = [memory EXCEPT ![category] = Installed(category, disk[category])]
    /\ unsaved' = [unsaved EXCEPT ![category] =
                     {n \in Name : Installed(category, disk[category])[n] # disk[category][n]}]
    /\ IF category = "procs"
       THEN category' = "vars" /\ UNCHANGED <<running, pc>>
       ELSE EndLoad
    /\ UNCHANGED <<disk, pre, interp, evalVars, callerVars>>

\* store.load raises: reload raises, the half-loaded interpreter stays in
\* service.  (When booting, the process does not start and is started again.)
LoadRaises ==
    /\ pc = "load" /\ ~Booting
    /\ EndLoad
    /\ UNCHANGED <<stateVars, pre, interp, evalVars, callerVars>>

RunClose ==
    /\ TakeJob("close")
    /\ interp' = "closed"
    /\ UNCHANGED <<stateVars, running, pc, category, pre, evalVars,
                   service, result, answer, reloads>>

-----------------------------------------------------------------------------
(* The worker: _eval. *)

\* Mutant of ResetCounters: the counters run on from one eval to the next.
ResetCountersNever == UNCHANGED calls

\* _eval begins with fresh call counters.
ResetCounters == calls' = NoCalls

StartEval(r) ==
    /\ TakeJob(r) /\ interp = "open"
    /\ running' = r /\ pc' = "script"
    /\ pre' = memory
    /\ ResetCounters
    /\ edits' = 0 /\ touched' = NoNames /\ asked' = NoCalls /\ performed' = NoCalls
    /\ UNCHANGED <<stateVars, category, interp, service, result, answer, reloads>>

\* A request that slipped in between close's two steps: set_context raises.
EvalOnClosed(r) ==
    /\ TakeJob(r) /\ interp = "closed"
    /\ result' = [result EXCEPT ![r] = "raised"]
    /\ UNCHANGED <<stateVars, workerVars, evalVars, service, answer, reloads>>

\* The code defines or deletes a proc or a variable.
Define(c, n, e) ==
    /\ pc = "script" /\ edits < MaxEdits
    /\ edits' = edits + 1
    /\ memory' = [memory EXCEPT ![c][n] = e]
    /\ touched' = [touched EXCEPT ![c] = @ \cup {n}]
    /\ UNCHANGED <<disk, unsaved, workerVars, calls, asked, performed, callerVars>>

\* Mutant of WithinLimit: >= where the code has >.
WithinLimitOffByOne(b) == calls[b] + 1 < Limit[b]

\* _b_say and _fetch count the call first, then compare.
WithinLimit(b) == calls[b] + 1 <= Limit[b]

\* The code calls a capped builtin; over the limit it gets a Tcl error,
\* which it may catch.  (One call over the limit is enough to look at.)
Call(b) ==
    /\ pc = "script" /\ asked[b] <= Limit[b]
    /\ calls' = [calls EXCEPT ![b] = @ + 1]
    /\ asked' = [asked EXCEPT ![b] = @ + 1]
    /\ performed' = [performed EXCEPT ![b] = IF WithinLimit(b) THEN @ + 1 ELSE @]
    /\ UNCHANGED <<stateVars, workerVars, edits, touched, callerVars>>

\* The locals of _eval are gone when it ends.
EndEval(how) ==
    /\ result' = [result EXCEPT ![running] = how]
    /\ running' = "nothing" /\ pc' = "idle" /\ category' = "procs"
    /\ pre' = NoEntries
    /\ edits' = 0 /\ touched' = NoNames /\ asked' = NoCalls /\ performed' = NoCalls
    /\ UNCHANGED <<interp, calls, queue, service, answer, reloads>>

\* eval_limited raises TclError: the caller gets the message, nothing is
\* saved, and what the code did before it failed stays in memory.
ScriptFails ==
    /\ pc = "script"
    /\ unsaved' = [c \in Category |-> unsaved[c] \cup DOMAIN Changed(c)]
    /\ UNCHANGED <<memory, disk>>
    /\ EndEval("error")

ScriptEnds ==
    /\ pc = "script"
    /\ pc' = "save" /\ category' = "procs"
    /\ UNCHANGED <<stateVars, running, pre, interp, evalVars, callerVars>>

\* Mutant of LastCategory: the loop ends at the first category it saves.
LastCategoryOnceSaved(c) == c = "vars" \/ Vetted(c) # NoChanges

\* The categories are saved in the order of CATEGORIES.
LastCategory(c) == c = "vars"

SaveCategory ==
    /\ pc = "save"
    /\ disk' = [disk EXCEPT ![category] = Apply(@, Vetted(category))]
    /\ unsaved' = [unsaved EXCEPT ![category] =
                     (@ \ DOMAIN Vetted(category))
                        \cup (DOMAIN Changed(category) \ DOMAIN Vetted(category))]
    /\ UNCHANGED memory
    /\ IF LastCategory(category)
       THEN EndEval("ok")
       ELSE /\ category' = "vars"
            /\ UNCHANGED <<running, pc, pre, interp, evalVars, callerVars>>

\* save_many raises, having written any part of the changes; the remaining
\* category is not saved, and eval raises in the caller.
SaveRaises ==
    /\ pc = "save" /\ Vetted(category) # NoChanges
    /\ \E written \in SUBSET DOMAIN Vetted(category) :
          disk' = [disk EXCEPT ![category] =
                     Apply(@, [n \in written |-> Vetted(category)[n]])]
    /\ unsaved' = [c \in Category |->
                     IF c = "procs" /\ category = "vars" THEN unsaved[c]
                     ELSE unsaved[c] \cup DOMAIN Changed(c)]
    /\ UNCHANGED memory
    /\ EndEval("raised")

-----------------------------------------------------------------------------
(* The environment. *)

\* Another process, or restore-state.sh, writes to the store.
OutsideEdit(c, edit) ==
    /\ disk' = [disk EXCEPT ![c] = Apply(@, edit)]
    /\ unsaved' = [unsaved EXCEPT ![c] = @ \cup DOMAIN edit]
    /\ UNCHANGED <<memory, workerVars, evalVars, callerVars>>

\* The process dies (the memory cap, the platform) and is started again.
Crash ==
    /\ ~Booting
    /\ memory' = NoEntries
    /\ unsaved' = [c \in Category |-> Name]
    /\ running' = "boot" /\ pc' = "load" /\ category' = "procs"
    /\ pre' = NoEntries /\ calls' = NoCalls
    /\ interp' = "open" /\ service' = "up" /\ queue' = <<>>
    /\ result' = [r \in Request |->
                    IF answer[r] # "new" /\ result[r] = "none" THEN "lost" ELSE result[r]]
    /\ answer' = [r \in Request |-> IF answer[r] = "waiting" THEN "lost" ELSE answer[r]]
    /\ edits' = 0 /\ touched' = NoNames /\ asked' = NoCalls /\ performed' = NoCalls
    /\ UNCHANGED <<disk, reloads>>

Worker ==
    \/ StartReload \/ LoadCategory \/ LoadRaises \/ RunClose
    \/ \E r \in Request : StartEval(r) \/ EvalOnClosed(r)
    \/ ScriptFails \/ ScriptEnds \/ SaveCategory \/ SaveRaises

Script ==
    \/ \E c \in Category, n \in Name, e \in Entry : Define(c, n, e)
    \/ \E b \in Builtin : Call(b)

Callers ==
    \/ \E r \in Request : Submit(r) \/ Receive(r) \/ GiveUp(r)
    \/ AskReload \/ BeginClose \/ Shutdown

Environment ==
    \/ \E c \in Category, edit \in OutsideEdits : OutsideEdit(c, edit)
    \/ Crash

Next == Worker \/ Script \/ Callers \/ Environment

Spec == Init /\ [][Next]_vars

\* The executor's thread keeps running jobs: the interpreter's time limit
\* ends every script, and the store's operations return or raise.
FairSpec == Spec /\ WF_vars(Worker)

-----------------------------------------------------------------------------
(* Correctness. *)

\* Between jobs, the interpreter and the store disagree about an entry only
\* where the code knowingly leaves them apart: an eval that failed or whose
\* save raised, a change that vetting refused, a write by someone else, an
\* entry that does not load, a load that raised.  Everything else is saved.
DivergenceIsExplained ==
    pc = "idle" => \A c \in Category, n \in Name \ Automatic :
                      memory[c][n] # disk[c][n] => n \in unsaved[c]

\* The worker writes to the store only what the eval it runs changed, and
\* the value it left in memory: a stale or half-loaded interpreter, or an
\* entry that failed to load, never makes it overwrite or delete an entry
\* the code did not touch.
OnlyOwnChangesReachDisk ==
    [][\A c \in Category, n \in Name :
          disk'[c][n] # disk[c][n] =>
             \/ pc = "save" /\ n \in touched[c] /\ disk'[c][n] = memory[c][n]
             \/ \E edit \in OutsideEdits : OutsideEdit(c, edit)]_vars

\* An eval is answered "ok" only when both categories are saved: every
\* entry it changed and vetting accepted is on disk as it is in memory.
OkMeansSaved ==
    [][\A r \in Request : result[r] = "none" /\ result'[r] = "ok" =>
          \A c \in Category : \A n \in DOMAIN Vetted(c) : disk'[c][n] = memory[c][n]]_vars

\* The caps are exact and per eval: of the calls an eval makes, those up to
\* the limit are carried out, whatever earlier evals used up.
BuiltinQuota ==
    \A b \in Builtin :
        performed[b] = IF asked[b] <= Limit[b] THEN asked[b] ELSE Limit[b]

\* A request that was submitted is run to its end, or lost with the process,
\* even when its caller has stopped waiting or the engine is closing.
EverySubmittedEvalEnds ==
    \A r \in Request : answer[r] # "new" ~> result[r] # "none"

\* "Nothing in memory is lost by this: state is written to disk synchronously
\* after every eval, so disk is always the authoritative copy": a reload (or
\* a restart) between two jobs brings back every entry as it is in memory.
DiskIsAuthoritative ==
    pc = "idle" => \A c \in Category, n \in Name \ Automatic :
                      Installed(c, disk[c])[n] = memory[c][n]

=============================================================================
