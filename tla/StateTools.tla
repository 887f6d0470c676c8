------------------------------ MODULE StateTools ------------------------------
(***************************************************************************)
(* The commands that work on a whole library at once: audit_state          *)
(* (smeggdrop/audit.py) with cmd_audit and the verify of restore-state.sh, *)
(* and cmd_migrate (smeggdrop/cli.py).  A library is a StateDict: an audit *)
(* has loaded it before it looks at anything, a migration merges one into  *)
(* another, category by category.                                          *)
(*                                                                         *)
(* A payload stands for what its Tcl code does; a call of a body ends the  *)
(* way Runs says unless the body refers to a command that is not there.    *)
(***************************************************************************)
EXTENDS StateDict, Integers, Sequences, FiniteSets

CONSTANTS
    Broken,         \* payloads that install_proc, install_var refuse
    Aliases,        \* names that alias_global_commands defines
    Existing,       \* commands every safe interpreter has
    Dead,           \* SAFE_HIDDEN and the names with DEAD_PREFIXES
    Refs,           \* payload -> the words in command position of its body
    Required,       \* payload -> its arguments without a default
    Runs,           \* payload -> how a call with the audit's arguments ends
    Redefines       \* payload -> what a call changes in the procs

Ending == {"ok", "network", "time limit", "argument", "error"}

ASSUME PayloadAssumption ==
    /\ Broken \subseteq Value /\ Aliases \subseteq Name
    /\ Runs \in [Value -> Ending]
    /\ Required \in [Value -> Nat]
    /\ Redefines \in [Value -> Changes]

-----------------------------------------------------------------------------
(* audit_state: load, then look at the bodies, then call them. *)

\* install_proc for each; the aliases come last and hide procs.
LoadErrors(library) == {n \in Keys(library) : library[n] \in Broken}

\* Mutant of Shadows: the aliases are made before the procs are loaded.
ShadowsNothing(library) == {}

Shadows(library) == (Keys(library) \ LoadErrors(library)) \cap Aliases

Callable(library) == Keys(library) \ (LoadErrors(library) \cup Shadows(library))

Procs(library) == [n \in Name |-> IF n \in Callable(library) THEN library[n] ELSE None]

Commands(procs) == Keys(procs) \cup Aliases \cup Existing

Unresolved(procs, n) == (Refs[procs[n]] \ {n}) \ Commands(procs)

\* How one call ends: a word that names no command is an error.
CallEnds(procs, n) ==
    IF Unresolved(procs, n) # {} THEN "error" ELSE Runs[procs[n]]

\* Mutant of RunResult: a proc that reached the network counts as failed.
RunResultStrict(ending, required) ==
    IF ending = "ok" THEN "ok" ELSE IF ending = "network" THEN "error" ELSE ending

\* run_ok and why: a complaint about an argument excuses only procs that
\* were given one.
RunResult(ending, required) ==
    IF ending = "argument" /\ required = 0 THEN "error" ELSE ending

\* _required_args: a proc that is gone cannot be called.
MayCall(procs, n, with_args) ==
    procs[n] # None /\ (Required[procs[n]] = 0 \/ with_args)

\* One call, and what it leaves of the procs.
Called(sofar, n, with_args) ==
    IF ~MayCall(sofar.procs, n, with_args) THEN sofar
    ELSE LET payload == sofar.procs[n]
             ending == CallEnds(sofar.procs, n)
         IN  [procs |-> Apply(sofar.procs, Redefines[payload]),
              run |-> [sofar.run EXCEPT ![n] = RunResult(ending, Required[payload])]]

\* The calls share one interpreter, so what one does to the procs the next
\* ones see.  (Not so the words found in the bodies: that loop comes first.)
Calls(library, order, with_args) ==
    LET sofar[i \in 0..Len(order)] ==
            IF i = 0 THEN [procs |-> Procs(library), run |-> [n \in Name |-> "not run"]]
            ELSE IF order[i] \in Callable(library) THEN Called(sofar[i - 1], order[i], with_args)
            ELSE sofar[i - 1]
    IN  sofar

RunPhase(library, order, with_args) == Calls(library, order, with_args)[Len(order)].run

audit_state(library, order, run, with_args) ==
    LET procs == Procs(library)
        results == IF run THEN RunPhase(library, order, with_args)
                   ELSE [n \in Name |-> "not run"]
    IN  [n \in Keys(library) |->
            [loaded |-> n \notin LoadErrors(library),
             shadowed |-> n \in Shadows(library),
             broken |-> IF n \in Callable(library) THEN Unresolved(procs, n) \cap Dead ELSE {},
             unknown |-> IF n \in Callable(library) THEN Unresolved(procs, n) \ Dead ELSE {},
             run |-> results[n]]]

healthy(p) == p.loaded /\ p.broken = {} /\ p.run # "error"

\* The line cmd_audit prints for a proc, if any.
Line(p) ==
    CASE ~p.loaded -> "LOAD FAIL"
      [] p.loaded /\ p.broken # {} -> "BROKEN"
      [] p.loaded /\ p.broken = {} /\ p.run = "error" -> "RUN FAIL"
      [] healthy(p) /\ p.unknown # {} -> "SUSPECT"
      [] OTHER -> "none"

ExitCode(report) == IF \E n \in DOMAIN report : ~report[n].loaded THEN 1 ELSE 0

\* restore-state.sh verify: set -e ends it where the audit exits with 1, so
\* that what it prints of the counts is only seen if all procs load.
verify(report, varErrors) ==
    IF ExitCode(report) = 1 THEN [exit |-> 1, counts |-> FALSE]
    ELSE [exit |-> IF varErrors = {} THEN 0 ELSE 1, counts |-> TRUE]

-----------------------------------------------------------------------------
(* cmd_migrate. *)

\* Mutant of Entries: the names that the source does not have are deleted.
EntriesAndGaps(dict) == dict

\* load's result, as save_many gets it.
Entries(dict) == [n \in Keys(dict) |-> dict[n]]

\* The categories copied before it ends, or is interrupted.
cmd_migrate(source, destination, copied) ==
    [c \in DOMAIN destination |->
        IF c \in copied THEN Apply(destination[c], Entries(source[c])) ELSE destination[c]]

-----------------------------------------------------------------------------
(* What they promise. *)

\* A bot started on the library has just the procs that the audit loaded and
\* found not to be hidden by an alias (Installed is what Engine's module says
\* of a start), and verify succeeds just when it starts without load errors.
AuditFindsWhatBoots(library, variables) ==
    LET report == audit_state(library, <<>>, FALSE, FALSE)
        Installed == [n \in Name |->
                        IF library[n] \in Broken \/ n \in Aliases THEN None ELSE library[n]]
    IN  /\ {n \in DOMAIN report : report[n].loaded /\ ~report[n].shadowed} = Keys(Installed)
        /\ verify(report, LoadErrors(variables)).exit = 0
              <=> \A n \in Name : library[n] \notin Broken /\ variables[n] \notin Broken

\* If no call redefines a proc that another one is about, the audit's report
\* is that of each proc called alone, in whatever order: a call that cannot
\* be judged (network, time limit, its arguments) is not counted as failed,
\* and nothing hides a missing command.
AuditJudgesEachAlone(library, order, with_args) ==
    LET report == audit_state(library, order, TRUE, with_args)
        procs == Procs(library)
        calls == {n \in Callable(library) : Required[library[n]] = 0 \/ with_args}
        fails(n) == \/ Unresolved(procs, n) # {} \/ Runs[library[n]] = "error"
                    \/ Runs[library[n]] = "argument" /\ Required[library[n]] = 0
    IN  (\A n \in Callable(library) : Redefines[library[n]] = NoChanges) =>
            /\ {n \in DOMAIN report : report[n].run = "error"} = {n \in calls : fails(n)}
            /\ {n \in DOMAIN report : report[n].run # "not run"} = calls

\* A migration leaves the destination with all of the source and with what
\* only it had; one that was interrupted and is run again ends the same.
MigrationMerges(source, destination) ==
    LET all == DOMAIN destination
        merged == cmd_migrate(source, destination, all)
    IN  /\ \A c \in all : \A n \in Name :
              merged[c][n] = IF source[c][n] # None THEN source[c][n] ELSE destination[c][n]
        /\ \A copied \in SUBSET all :
              cmd_migrate(source, cmd_migrate(source, destination, copied), all) = merged

=============================================================================
