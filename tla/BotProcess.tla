------------------------------ MODULE BotProcess ------------------------------
(***************************************************************************)
(* The life of a bot on a file store: run-slack-dev.sh takes the lock of   *)
(* the state directory and starts cmd_slack (smeggdrop/cli.py), which      *)
(* installs on_hup, writes its pid and serves until it is stopped;         *)
(* reload-bot.sh reads the pid and sends SIGHUP.                           *)
(*                                                                         *)
(* on_hup runs on the main thread between any two of its steps, inside     *)
(* another on_hup or the closing of the engine too.  It calls              *)
(* Engine.reload: ThreadPoolExecutor.submit, under a lock that its own     *)
(* thread cannot take twice, and then a wait for the worker.  What a       *)
(* reload does is Engine's; here the state on disk is a version number.    *)
(***************************************************************************)
EXTENDS Integers, Sequences, SequencesExt, FiniteSets

CONSTANTS
    Pid,
    MaxStarts,      \* bound on the processes started
    MaxHups,        \* bound on the runs of reload-bot.sh
    MaxVersions     \* bound on the state's versions

ASSUME ProcessAssumption == {"nobody", "no file"} \cap Pid = {}
ASSUME BoundsAssumption == MaxStarts \in Nat /\ MaxHups \in Nat /\ MaxVersions \in Nat

VARIABLES
    process,    \* what runs under each pid
    handlers,   \* the bots that have installed on_hup
    memory,     \* the version each bot's interpreter was loaded from
    frames,     \* the calls on each bot's main thread that are in the executor:
                \* one for each on_hup, and one for Engine.close
    jobs,       \* the jobs submitted to each bot's worker that it has not done
    lock,       \* who holds .smeggdrop.lock
    pidfile,    \* .smeggdrop.pid
    disk,       \* the version of the state directory
    script,     \* reload-bot.sh: where it is, and the pid it read
    pending,    \* the processes with a SIGHUP to come
    starts, hups,
    stale,      \* history: whoever wrote the pid file, or a pid that the
                \* script has read, is gone
    misled,     \* history: those to come that were sent to a stale pid
    wanted,     \* history: the version on disk when each bot was last signalled
    failed      \* history: the bots with a reload that raised

botVars == <<handlers, memory, frames, jobs>>
directoryVars == <<lock, pidfile, disk>>
signalVars == <<script, pending, hups, wanted>>
ghostVars == <<stale, misled, failed>>
vars == <<process, botVars, directoryVars, signalVars, starts, ghostVars>>

\* "boot": up to the pid file; "up": in run_socket_mode; "closing": its
\* finally block, from the pid file's removal on.
Bot == {"boot", "up", "closing"}
Frame == [at : {"called", "submitting", "waiting"}, call : {"reload", "close"},
          ahead : Nat]

TypeOK ==
    /\ process \in [Pid -> Bot \cup {"none", "other"}]
    /\ handlers \in SUBSET {p \in Pid : process[p] \in Bot}
    /\ memory \in [Pid -> 0..MaxVersions]
    /\ frames \in [Pid -> Seq(Frame)] /\ jobs \in [Pid -> Nat]
    /\ lock \in {"nobody"} \cup {p \in Pid : process[p] \in Bot}
    /\ pidfile \in Pid \cup {"no file"}
    /\ disk \in 0..MaxVersions
    /\ script \in [at : {"idle"}] \cup [at : {"read", "checked"}, pid : Pid]
    /\ pending \in SUBSET Pid
    /\ starts \in 0..MaxStarts /\ hups \in 0..MaxHups
    /\ stale \in SUBSET {"pidfile", "script"} /\ misled \in SUBSET pending
    /\ wanted \in [Pid -> 0..MaxVersions]
    /\ failed \in SUBSET Pid

Init ==
    /\ process = [p \in Pid |-> "none"]
    /\ handlers = {}
    /\ memory = [p \in Pid |-> 0]
    /\ frames = [p \in Pid |-> <<>>]
    /\ jobs = [p \in Pid |-> 0]
    /\ lock = "nobody" /\ pidfile = "no file" /\ disk = 0
    /\ script = [at |-> "idle"]
    /\ pending = {} /\ starts = 0 /\ hups = 0
    /\ stale = {} /\ misled = {} /\ wanted = [p \in Pid |-> 0] /\ failed = {}

-----------------------------------------------------------------------------
(* run-slack-dev.sh and cmd_slack. *)

\* Mutant of MayStart: no flock.
MayStartAnyway == TRUE

MayStart == lock = "nobody"

\* The lock's descriptor is inherited by the bot.  Engine.__init__ loads the
\* state before it returns.
Start(p) ==
    /\ process[p] = "none" /\ starts < MaxStarts /\ MayStart
    /\ starts' = starts + 1
    /\ process' = [process EXCEPT ![p] = "boot"]
    /\ lock' = p
    /\ memory' = [memory EXCEPT ![p] = disk]
    /\ UNCHANGED <<handlers, frames, jobs, pidfile, disk, signalVars, ghostVars>>

InstallHandler(p) ==
    /\ process[p] = "boot" /\ p \notin handlers
    /\ handlers' = handlers \cup {p}
    /\ UNCHANGED <<process, memory, frames, jobs, directoryVars, signalVars, starts, ghostVars>>

\* Mutant of MayWritePid: the pid file is written first.
MayWritePidFirst(p) == TRUE

MayWritePid(p) == p \in handlers

WritePid(p) ==
    /\ process[p] = "boot" /\ MayWritePid(p)
    /\ process' = [process EXCEPT ![p] = "up"]
    /\ pidfile' = p
    /\ stale' = stale \ {"pidfile"}
    /\ UNCHANGED <<botVars, lock, disk, signalVars, starts, misled, failed>>

\* Ctrl-C, or an exception of run_socket_mode: whatever the main thread was
\* in is unwound, and the finally block begins.
Stop(p) ==
    /\ process[p] = "up"
    /\ process' = [process EXCEPT ![p] = "closing"]
    /\ frames' = [frames EXCEPT ![p] = <<[at |-> "called", call |-> "close", ahead |-> 0]>>]
    /\ pidfile' = "no file"
    /\ stale' = stale \ {"pidfile"}
    /\ UNCHANGED <<handlers, memory, jobs, lock, disk, signalVars, starts, misled, failed>>

\* Mutant of Released: a child of the bot lives on with the descriptor.
Kept(p) == lock

\* The lock goes with the last process that has its descriptor.
Released(p) == IF lock = p THEN "nobody" ELSE lock

\* The process is gone, and a signal to come with it.
Gone(p) ==
    /\ process' = [process EXCEPT ![p] = "none"]
    /\ handlers' = handlers \ {p}
    /\ memory' = [memory EXCEPT ![p] = 0]
    /\ frames' = [frames EXCEPT ![p] = <<>>]
    /\ jobs' = [jobs EXCEPT ![p] = 0]
    /\ lock' = Released(p)
    /\ pending' = pending \ {p} /\ misled' = misled \ {p}
    /\ stale' = stale \cup {x \in {"pidfile", "script"} :
                              \/ x = "pidfile" /\ pidfile = p
                              \/ x = "script" /\ script.at # "idle" /\ script.pid = p}
    /\ wanted' = [wanted EXCEPT ![p] = 0]
    /\ failed' = failed \ {p}

\* Engine.close returns once the worker has done everything.
Exit(p) ==
    /\ process[p] = "closing" /\ frames[p] = <<>> /\ jobs[p] = 0
    /\ Gone(p)
    /\ UNCHANGED <<pidfile, disk, script, hups, starts>>

\* SIGTERM, the memory cap: no finally block runs.
Crash(p) ==
    /\ process[p] \in Bot
    /\ Gone(p)
    /\ UNCHANGED <<pidfile, disk, script, hups, starts>>

\* Another program gets a pid that is free, and ends.
OtherStarts(p) ==
    /\ process[p] = "none" /\ starts < MaxStarts
    /\ starts' = starts + 1
    /\ process' = [process EXCEPT ![p] = "other"]
    /\ UNCHANGED <<botVars, directoryVars, signalVars, ghostVars>>

OtherEnds(p) ==
    /\ process[p] = "other"
    /\ Gone(p)
    /\ UNCHANGED <<pidfile, disk, script, hups, starts>>

-----------------------------------------------------------------------------
(* reload-bot.sh, run after the state was edited some other way. *)

Edit ==
    /\ disk < MaxVersions
    /\ disk' = disk + 1
    /\ UNCHANGED <<process, botVars, lock, pidfile, signalVars, starts, ghostVars>>

ReadPid ==
    /\ script.at = "idle" /\ hups < MaxHups /\ pidfile # "no file"
    /\ hups' = hups + 1
    /\ script' = [at |-> "read", pid |-> pidfile]
    /\ stale' = IF "pidfile" \in stale THEN stale \cup {"script"} ELSE stale \ {"script"}
    /\ UNCHANGED <<process, botVars, directoryVars, pending, starts, wanted, misled, failed>>

\* kill -0
CheckPid ==
    /\ script.at = "read"
    /\ script' = IF process[script.pid] = "none" THEN [at |-> "idle"]
                 ELSE [script EXCEPT !.at = "checked"]
    /\ UNCHANGED <<process, botVars, directoryVars, pending, hups, wanted, starts, ghostVars>>

\* kill -HUP; two signals to come are one.
SendHup ==
    /\ script.at = "checked"
    /\ script' = [at |-> "idle"]
    /\ IF process[script.pid] = "none" THEN UNCHANGED <<pending, wanted, misled>>
       ELSE /\ pending' = pending \cup {script.pid}
            /\ wanted' = [wanted EXCEPT ![script.pid] = disk]
            /\ misled' = IF "script" \in stale THEN misled \cup {script.pid} ELSE misled
    /\ UNCHANGED <<process, botVars, directoryVars, hups, starts, stale, failed>>

-----------------------------------------------------------------------------
(* SIGHUP arrives. *)

Dies(p) ==
    /\ p \in pending /\ p \notin handlers
    /\ Gone(p)
    /\ UNCHANGED <<pidfile, disk, script, hups, starts>>

\* Mutant of Entered: a reload that is under way is thought to be enough.
EnteredIfFree(p) ==
    IF frames[p] = <<>>
    THEN <<[at |-> "called", call |-> "reload", ahead |-> 0]>> ELSE frames[p]

\* on_hup is called from wherever the main thread is.
Entered(p) == Append(frames[p], [at |-> "called", call |-> "reload", ahead |-> 0])

OnHup(p) ==
    /\ p \in pending /\ p \in handlers
    /\ pending' = pending \ {p} /\ misled' = misled \ {p}
    /\ frames' = [frames EXCEPT ![p] = Entered(p)]
    /\ UNCHANGED <<process, handlers, memory, jobs, directoryVars, script, hups, wanted,
                   starts, stale, failed>>

\* One of the calls below holds the executor's lock.
Submitting(p) == \E i \in DOMAIN frames[p] : frames[p][i].at = "submitting"

Top(p) == frames[p][Len(frames[p])]
SetTop(p, f) == frames' = [frames EXCEPT ![p][Len(frames[p])] = f]
Pop(p) == frames' = [frames EXCEPT ![p] = Front(@)]

mainUnchanged == <<process, handlers, directoryVars, signalVars, starts>>

BeginSubmit(p) ==
    /\ frames[p] # <<>> /\ Top(p).at = "called" /\ ~Submitting(p)
    /\ SetTop(p, [Top(p) EXCEPT !.at = "submitting"])
    /\ UNCHANGED <<memory, jobs, mainUnchanged, ghostVars>>

\* The job is queued behind the others.
EndSubmit(p) ==
    /\ frames[p] # <<>> /\ Top(p).at = "submitting"
    /\ jobs' = [jobs EXCEPT ![p] = @ + 1]
    /\ SetTop(p, [Top(p) EXCEPT !.at = "waiting", !.ahead = jobs[p] + 1])
    /\ UNCHANGED <<memory, mainUnchanged, ghostVars>>

\* The result is there, or 60 seconds are over ("reload failed").
Return(p) ==
    /\ frames[p] # <<>> /\ Top(p).at = "waiting"
    /\ Top(p).call = "close" => Top(p).ahead = 0
    /\ Pop(p)
    /\ UNCHANGED <<memory, jobs, mainUnchanged, ghostVars>>

\* close may have shut the executor down: submit raises, on_hup logs it.
SubmitRaises(p) ==
    /\ frames[p] # <<>> /\ Top(p).at = "called" /\ Top(p).call = "reload"
    /\ process[p] = "closing" /\ Head(frames[p]).at = "waiting"
    /\ Pop(p)
    /\ UNCHANGED <<memory, jobs, mainUnchanged, ghostVars>>

Advanced(stack) ==
    [i \in DOMAIN stack |-> [stack[i] EXCEPT !.ahead = IF @ > 0 THEN @ - 1 ELSE 0]]

\* The worker does the next job: a reload reads the state, or raises.
Work(p, raises) ==
    /\ jobs[p] > 0
    /\ jobs' = [jobs EXCEPT ![p] = @ - 1]
    /\ frames' = [frames EXCEPT ![p] = Advanced(@)]
    /\ IF raises
       THEN failed' = failed \cup {p} /\ UNCHANGED memory
       ELSE memory' = [memory EXCEPT ![p] = disk] /\ UNCHANGED failed
    /\ UNCHANGED <<mainUnchanged, stale, misled>>

MainThread(p) ==
    \/ OnHup(p) \/ BeginSubmit(p) \/ EndSubmit(p) \/ Return(p) \/ SubmitRaises(p) \/ Exit(p)

Next ==
    \/ \E p \in Pid :
          \/ Start(p) \/ InstallHandler(p) \/ WritePid(p) \/ Stop(p) \/ Crash(p)
          \/ OtherStarts(p) \/ OtherEnds(p) \/ Dies(p)
          \/ MainThread(p)
          \/ \E raises \in BOOLEAN : Work(p, raises)
    \/ Edit \/ ReadPid \/ CheckPid \/ SendHup

Spec == Init /\ [][Next]_vars

\* The main thread goes on unless it waits for a lock; the worker works.
FairSpec ==
    /\ Spec
    /\ \A p \in Pid : WF_vars(MainThread(p)) /\ WF_vars(\E raises \in BOOLEAN : Work(p, raises))

-----------------------------------------------------------------------------
(* Correctness. *)

\* The bot that serves is the one that reload-bot.sh finds, and there is no
\* second one on the directory: nothing but its own end removes its pid.
PidFileNamesTheBot == \A p \in Pid : process[p] = "up" => pidfile = p /\ lock = p

\* reload-bot.sh ends a process only if the pid it read is that of a bot
\* which is gone: a bot that can be found can take the signal.
HupKillsNoBot ==
    [][\A p \in Pid : Dies(p) => p \in misled]_vars

\* on_hup waits for a lock that a call it interrupted holds.
Stuck(p) == frames[p] # <<>> /\ Top(p).at = "called" /\ Submitting(p)

\* What was on disk when reload-bot.sh signalled a serving bot is in its
\* memory in the end, signals that fell together and nested handlers
\* included, unless a reload raised, the bot ended, or the signal came in
\* the middle of the submit of an earlier one.
EveryHupReloads ==
    \A p \in Pid : \A v \in 1..MaxVersions :
        wanted[p] = v /\ process[p] = "up"
            ~> memory[p] >= v \/ p \in failed \/ process[p] # "up" \/ Stuck(p)

=============================================================================
