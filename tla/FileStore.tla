------------------------------- MODULE FileStore -------------------------------
(***************************************************************************)
(* smeggdrop/state.py: one category of a FileStateStore, a directory with  *)
(* one file per entry and an _index of the names, and the processes that   *)
(* use it: a bot, and now and then a repl with which an operator edits the *)
(* same state (README.md:56-64).                                           *)
(*                                                                         *)
(* A process may be killed, and an operation may raise, at any step; a     *)
(* file that is being written is truncated first and may be left partly    *)
(* written.  The index is replaced in one step (os.replace).  A data file  *)
(* may be lost by other means than the bot's, and may turn up again.       *)
(*                                                                         *)
(* The store does not coordinate processes: operators never run two        *)
(* operations at the same instant (README.md:61-64).                       *)
(***************************************************************************)
EXTENDS StateDict, FiniteSets

CONSTANTS
    Process,
    Edits,      \* the change sets the evals of this model save
    Absent,     \* no such file
    Empty,      \* an empty file: the deletion marker
    Torn        \* a file that is partly written

ASSUME EditsAssumption == Edits \subseteq Changes \ {NoChanges}
ASSUME FileAssumption == /\ Absent \notin Value \cup {None, Empty, Torn}
                         /\ Empty \notin Value \cup {None, Torn}
                         /\ Torn \notin Value \cup {None}

VARIABLES
    files,      \* the data file of each name
    index,      \* the names in _index
    pc,         \* "cold": not running; "boot": its first load; "idle";
                \* "load": a reload; "save": in save_many; "write": in a file
    cached,     \* self._indices[category]
    todo,       \* names the loop of load or save_many has not reached
    kept,       \* load: its index, less the deleted names found so far
    out,        \* load: what it has read
    changes,    \* save_many: its argument
    writing,    \* save_many: the name whose file is open
    accept,     \* history: what a load may find for each name
    lost,       \* history: payloads of the files that went missing
    current,    \* history: the processes no other has saved after
    stale       \* history: a process saved without having reloaded

diskVars == <<files, index>>
loadVars == <<kept, out>>
saveVars == <<changes, writing>>
ghostVars == <<accept, lost, current, stale>>
vars == <<diskVars, pc, cached, todo, loadVars, saveVars, ghostVars>>

Payload == Value \cup {Torn}
Loadable == Payload \cup {None}

\* What a load finds for a name.
Visible(n) == IF n \in index /\ files[n] \in Payload THEN files[n] ELSE None

TypeOK ==
    /\ files \in [Name -> Payload \cup {Absent, Empty}]
    /\ index \in SUBSET Name
    /\ pc \in [Process -> {"cold", "boot", "idle", "load", "save", "write"}]
    /\ cached \in [Process -> SUBSET Name]
    /\ todo \in [Process -> SUBSET Name]
    /\ kept \in [Process -> SUBSET Name]
    /\ out \in [Process -> [Name -> Loadable]]
    /\ changes \in [Process -> Changes]
    /\ writing \in [Process -> Name \cup {None}]
    /\ accept \in [Name -> SUBSET Loadable]
    /\ lost \in [Name -> Loadable]
    /\ current \in SUBSET Process
    /\ stale \in BOOLEAN

NothingRead == [n \in Name |-> None]

\* A directory the perl bot or an earlier process left.
Init ==
    /\ index \in SUBSET Name
    /\ files \in [Name -> Value \cup {Absent, Empty}]
    /\ \A n \in Name : n \in index <=> files[n] # Absent
    /\ pc = [p \in Process |-> "cold"]
    /\ cached = [p \in Process |-> {}]
    /\ todo = [p \in Process |-> {}]
    /\ kept = [p \in Process |-> {}]
    /\ out = [p \in Process |-> NothingRead]
    /\ changes = [p \in Process |-> NoChanges]
    /\ writing = [p \in Process |-> None]
    /\ accept = [n \in Name |-> {Visible(n)}]
    /\ lost = NothingRead
    /\ current = {}
    /\ stale = FALSE

Resting(p) == pc[p] \in {"cold", "idle"}

\* No other process is in the middle of an operation.
Alone(p) == \A q \in Process \ {p} : Resting(q)

\* The locals of load and save_many are gone when they end.
EndOperation(p, next) ==
    /\ pc' = [pc EXCEPT ![p] = next]
    /\ todo' = [todo EXCEPT ![p] = {}]
    /\ kept' = [kept EXCEPT ![p] = {}]
    /\ out' = [out EXCEPT ![p] = NothingRead]
    /\ changes' = [changes EXCEPT ![p] = NoChanges]
    /\ writing' = [writing EXCEPT ![p] = None]

-----------------------------------------------------------------------------
(* load. *)

Loading(p) == pc[p] \in {"boot", "load"}

BeginLoad(p) ==
    /\ Resting(p) /\ Alone(p)
    /\ pc' = [pc EXCEPT ![p] = IF @ = "cold" THEN "boot" ELSE "load"]
    /\ todo' = [todo EXCEPT ![p] = index]
    /\ kept' = [kept EXCEPT ![p] = index]
    /\ UNCHANGED <<diskVars, cached, out, saveVars, ghostVars>>

\* Mutant of IsDeletion: a missing file counts as a deletion too.
IsDeletionOrDamage(file) == file \in {Empty, Absent}

IsDeletion(file) == file = Empty

\* One name of the index: a payload, a marker to clean up, or damage.
LoadEntry(p, n) ==
    /\ Loading(p) /\ n \in todo[p]
    /\ todo' = [todo EXCEPT ![p] = @ \ {n}]
    /\ IF IsDeletion(files[n])
       THEN /\ files' = [files EXCEPT ![n] = Absent]
            /\ kept' = [kept EXCEPT ![p] = @ \ {n}]
            /\ UNCHANGED out
       ELSE /\ out' = [out EXCEPT ![p][n] = IF files[n] \in Payload THEN files[n] ELSE None]
            /\ UNCHANGED <<files, kept>>
    /\ UNCHANGED <<index, pc, cached, saveVars, ghostVars>>

\* The index is cached, and written back if entries were dropped from it.
EndLoad(p) ==
    /\ Loading(p) /\ todo[p] = {}
    /\ cached' = [cached EXCEPT ![p] = kept[p]]
    /\ index' = kept[p]
    /\ current' = current \cup {p}
    /\ EndOperation(p, "idle")
    /\ UNCHANGED <<files, accept, lost, stale>>

-----------------------------------------------------------------------------
(* save_many. *)

BeginSave(p, edit) ==
    /\ pc[p] = "idle" /\ Alone(p)
    /\ pc' = [pc EXCEPT ![p] = "save"]
    /\ changes' = [changes EXCEPT ![p] = edit]
    /\ todo' = [todo EXCEPT ![p] = DOMAIN edit]
    /\ accept' = [n \in Name |->
                    IF n \in DOMAIN edit THEN accept[n] \cup {None, Torn, edit[n]}
                    ELSE accept[n]]
    /\ current' = {p}
    /\ stale' = (stale \/ p \notin current)
    /\ UNCHANGED <<diskVars, cached, loadVars, writing, lost>>

\* write_text opens the file for writing, which empties it...
OpenEntry(p, n) ==
    /\ pc[p] = "save" /\ n \in todo[p]
    /\ pc' = [pc EXCEPT ![p] = "write"]
    /\ writing' = [writing EXCEPT ![p] = n]
    /\ files' = [files EXCEPT ![n] = Empty]
    /\ lost' = [lost EXCEPT ![n] = None]
    /\ UNCHANGED <<index, cached, todo, loadVars, changes, accept, current, stale>>

\* ...some of the payload may reach it before the rest...
WritePart(p) ==
    /\ pc[p] = "write" /\ changes[p][writing[p]] # None
    /\ files' = [files EXCEPT ![writing[p]] = Torn]
    /\ UNCHANGED <<index, pc, cached, todo, loadVars, saveVars, ghostVars>>

\* Mutant of Content: a deletion is written as str(None).
ContentUnchecked(entry) == entry

\* value if value is not None else ""
Content(entry) == IF entry = None THEN Empty ELSE entry

\* ...and is closed; only then is the name in the cached index.
CloseEntry(p) ==
    /\ pc[p] = "write"
    /\ files' = [files EXCEPT ![writing[p]] = Content(changes[p][writing[p]])]
    /\ cached' = [cached EXCEPT ![p] = @ \cup {writing[p]}]
    /\ todo' = [todo EXCEPT ![p] = @ \ {writing[p]}]
    /\ pc' = [pc EXCEPT ![p] = "save"]
    /\ writing' = [writing EXCEPT ![p] = None]
    /\ UNCHANGED <<index, loadVars, changes, ghostVars>>

\* Mutant of IndexWritten: only the names of this save.
IndexOfChanges(p) == DOMAIN changes[p]

\* _write_index replaces the index by the cached one.
IndexWritten(p) == cached[p]

EndSave(p) ==
    /\ pc[p] = "save" /\ todo[p] = {}
    /\ index' = IndexWritten(p)
    /\ accept' = [n \in Name |->
                    IF n \in DOMAIN changes[p] THEN {changes[p][n]} ELSE accept[n]]
    /\ EndOperation(p, "idle")
    /\ UNCHANGED <<files, cached, lost, current, stale>>

-----------------------------------------------------------------------------
(* Failures. *)

\* A process whose first load raises does not start.
AfterFailure(p) == IF pc[p] = "boot" THEN "cold" ELSE "idle"

\* The disk is full, a file may not be read...: the operation raises.
OperationRaises(p) ==
    /\ ~Resting(p)
    /\ EndOperation(p, AfterFailure(p))
    /\ UNCHANGED <<diskVars, cached, ghostVars>>

\* load has cached the pruned index already when it cannot write it.
PruneRaises(p) ==
    /\ pc[p] = "load" /\ todo[p] = {} /\ kept[p] # index
    /\ cached' = [cached EXCEPT ![p] = kept[p]]
    /\ EndOperation(p, AfterFailure(p))
    /\ UNCHANGED <<diskVars, ghostVars>>

Crash(p) ==
    /\ pc[p] # "cold"
    /\ EndOperation(p, "cold")
    /\ cached' = [cached EXCEPT ![p] = {}]
    /\ current' = current \ {p}
    /\ UNCHANGED <<diskVars, accept, lost, stale>>

\* The file of an entry goes missing while nobody writes.
LoseFile(n) ==
    /\ n \in index /\ files[n] \in Payload
    /\ \A p \in Process : pc[p] \notin {"save", "write"}
    /\ files' = [files EXCEPT ![n] = Absent]
    /\ lost' = [lost EXCEPT ![n] = files[n]]
    /\ accept' = [accept EXCEPT ![n] = @ \cup {None}]
    /\ UNCHANGED <<index, pc, cached, todo, loadVars, saveVars, current, stale>>

FileTurnsUp(n) ==
    /\ lost[n] # None
    /\ \A p \in Process : Resting(p)
    /\ files' = [files EXCEPT ![n] = lost[n]]
    /\ lost' = [lost EXCEPT ![n] = None]
    /\ accept' = [accept EXCEPT ![n] = IF lost[n] = Torn THEN @ ELSE {lost[n]}]
    /\ UNCHANGED <<index, pc, cached, todo, loadVars, saveVars, current, stale>>

Next ==
    \/ \E p \in Process :
          \/ BeginLoad(p) \/ EndLoad(p)
          \/ \E n \in Name : LoadEntry(p, n) \/ OpenEntry(p, n)
          \/ \E edit \in Edits : BeginSave(p, edit)
          \/ WritePart(p) \/ CloseEntry(p) \/ EndSave(p)
          \/ OperationRaises(p) \/ PruneRaises(p) \/ Crash(p)
    \/ \E n \in Name : LoseFile(n) \/ FileTurnsUp(n)

Spec == Init /\ [][Next]_vars

-----------------------------------------------------------------------------
(* Correctness. *)

Quiet == \A p \in Process : Resting(p)

\* An entry survives everything but its own save: a crash, a raised save or
\* a pruned load never changes an entry the interrupted save did not name,
\* an interrupted one leaves it old, new, gone or partly written, and one
\* that returned is what every later load finds, provided each process
\* reloads before it saves after another's save.
SavesSurvive == Quiet /\ ~stale => \A n \in Name : Visible(n) \in accept[n]

\* "damage, not deletion - keep the entry so the loss stays visible (and
\* recoverable if the file turns up)": no load or save, completed or not,
\* takes a name whose file went missing out of the index.  (A file that a
\* raised save left partly written is not in the cached index if a failed
\* prune has just dropped the name, and is lost with the next save.)
DamageStaysVisible == ~stale => \A n \in Name : lost[n] \in Value => n \in index

\* What load returns is what was saved.
LoadReturnsSaved ==
    [][\A p \in Process : EndLoad(p) /\ ~stale =>
          \A n \in Name : out[p][n] \in accept[n]]_vars

\* The README has only "a repl edit and a live eval writing at the exact
\* same instant" unprotected: a save that ran alone is not lost, whether or
\* not the other process reloads before its next save.
OnlySimultaneousWritesClash == Quiet => \A n \in Name : Visible(n) \in accept[n]

=============================================================================
