---------------------------- MODULE CommandsProofs ----------------------------
(***************************************************************************)
(* Proofs about Commands: about BotProcess, for any pids and any number of *)
(* starts, reloads and edits, and about StateTools and StateDict, for any  *)
(* names, payloads and libraries.                                          *)
(***************************************************************************)
EXTENDS Commands, RecursionProofs

-----------------------------------------------------------------------------
(* Types. *)

\* What is no pid.
LEMMA NamesAreNoPids == "nobody" \notin Pid /\ "no file" \notin Pid
BY ProcessAssumption

\* What is counted stays within its bound.
LEMMA Counting ==
    /\ \A n \in 0..MaxStarts : n < MaxStarts => n + 1 \in 0..MaxStarts
    /\ \A n \in 0..MaxHups : n < MaxHups => n + 1 \in 0..MaxHups
    /\ \A n \in 0..MaxVersions : n < MaxVersions => n + 1 \in 0..MaxVersions
    /\ 0 \in 0..MaxStarts /\ 0 \in 0..MaxHups /\ 0 \in 0..MaxVersions
    /\ \A n \in Nat : n + 1 \in Nat /\ (n > 0 => n - 1 \in Nat)
BY BoundsAssumption

\* A sequence of calls and one more, and without the last.
LEMMA StackType ==
    ASSUME NEW s \in Seq(Frame), NEW f \in Frame
    PROVE  /\ <<>> \in Seq(Frame) /\ <<f>> \in Seq(Frame) /\ Append(s, f) \in Seq(Frame)
           /\ s # <<>> => Front(s) \in Seq(Frame)
<1>1. s # <<>> => SubSeq(s, 1, Len(s) - 1) \in Seq(Frame)
  OBVIOUS
<1> QED BY <1>1 DEF Front

\* A call that begins.
LEMMA CallType ==
    /\ [at |-> "called", call |-> "close", ahead |-> 0] \in Frame
    /\ [at |-> "called", call |-> "reload", ahead |-> 0] \in Frame
BY DEF Frame

\* The latest call on a main thread.
LEMMA TopIs ==
    ASSUME TypeOK, NEW p \in Pid, frames[p] # <<>>
    PROVE  Top(p) \in Frame
<1>1. frames[p] \in Seq(Frame)
  BY DEF TypeOK
<1> QED BY <1>1 DEF Top

\* The stack of calls, changed at its top.
LEMMA SetTopType ==
    ASSUME TypeOK, NEW p \in Pid, frames[p] # <<>>, NEW f \in Frame, SetTop(p, f)
    PROVE  frames' \in [Pid -> Seq(Frame)]
<1>1. frames[p] \in Seq(Frame)
  BY DEF TypeOK
<1>2. frames' = [frames EXCEPT ![p] = [frames[p] EXCEPT ![Len(frames[p])] = f]]
  BY DEF SetTop, TypeOK
<1>3. [frames[p] EXCEPT ![Len(frames[p])] = f] \in Seq(Frame)
  BY <1>1
<1> QED BY <1>2, <1>3 DEF TypeOK

\* The stack of calls without its top.
LEMMA PopType ==
    ASSUME TypeOK, NEW p \in Pid, frames[p] # <<>>, Pop(p)
    PROVE  frames' \in [Pid -> Seq(Frame)]
<1>1. frames[p] \in Seq(Frame)
  BY DEF TypeOK
<1>2. Front(frames[p]) \in Seq(Frame)
  BY <1>1, StackType, CallType
<1> QED BY <1>2 DEF Pop, TypeOK

\* The stack of calls after the worker did a job.
LEMMA WorkType ==
    ASSUME TypeOK, NEW p \in Pid, NEW raises \in BOOLEAN, Work(p, raises)
    PROVE  frames' \in [Pid -> Seq(Frame)]
<1>1. frames[p] \in Seq(Frame)
  BY DEF TypeOK
<1>2. ASSUME NEW f \in Frame
      PROVE  [f EXCEPT !.ahead = IF @ > 0 THEN @ - 1 ELSE 0] \in Frame
  BY DEF Frame
<1>3. Advanced(frames[p]) \in Seq(Frame)
  <2>1. \A i \in DOMAIN frames[p] : frames[p][i] \in Frame
    BY <1>1
  <2> QED BY <1>1, <1>2, <2>1 DEF Advanced
<1> QED BY <1>3 DEF Work, TypeOK

\* A process ends.
LEMMA GoneType ==
    ASSUME TypeOK, NEW p \in Pid, Gone(p), UNCHANGED <<pidfile, disk, script, hups, starts>>
    PROVE  TypeOK'
<1>1. process' \in [Pid -> Bot \cup {"none", "other"}]
      /\ handlers' \in SUBSET {q \in Pid : process'[q] \in Bot}
  BY DEF TypeOK, Gone
<1>2. memory' \in [Pid -> 0..MaxVersions] /\ wanted' \in [Pid -> 0..MaxVersions]
  BY Counting DEF TypeOK, Gone
<1>3. frames' \in [Pid -> Seq(Frame)] /\ jobs' \in [Pid -> Nat]
  <2>1. <<>> \in Seq(Frame)
    OBVIOUS
  <2> QED BY <2>1 DEF TypeOK, Gone
<1>4. lock' \in {"nobody"} \cup {q \in Pid : process'[q] \in Bot}
  BY DEF TypeOK, Gone, Released
<1>5. /\ pending' \in SUBSET Pid /\ misled' \in SUBSET pending'
      /\ stale' \in SUBSET {"pidfile", "script"} /\ failed' \in SUBSET Pid
  BY DEF TypeOK, Gone
<1> QED BY <1>1, <1>2, <1>3, <1>4, <1>5 DEF TypeOK

-----------------------------------------------------------------------------
\* The types hold at the start...
LEMMA InitType == Init => TypeOK
<1>1. <<>> \in Seq(Frame)
  OBVIOUS
<1> SUFFICES ASSUME Init PROVE TypeOK
  OBVIOUS
<1>2. /\ memory \in [Pid -> 0..MaxVersions] /\ wanted \in [Pid -> 0..MaxVersions]
      /\ disk \in 0..MaxVersions /\ starts \in 0..MaxStarts /\ hups \in 0..MaxHups
  BY Counting DEF Init
<1>3. frames \in [Pid -> Seq(Frame)] /\ jobs \in [Pid -> Nat]
  BY <1>1 DEF Init
<1>4. /\ process \in [Pid -> Bot \cup {"none", "other"}] /\ handlers = {}
      /\ lock = "nobody" /\ pidfile = "no file" /\ script = [at |-> "idle"]
      /\ pending = {} /\ stale = {} /\ misled = {} /\ failed = {}
  BY DEF Init
<1> QED BY <1>2, <1>3, <1>4 DEF TypeOK

USE DEF botVars, directoryVars, signalVars, ghostVars, mainUnchanged

\* ...and every action keeps them.
LEMMA TypeStep == TypeOK /\ [Next]_vars => TypeOK'
<1> SUFFICES ASSUME TypeOK, [Next]_vars PROVE TypeOK'
  OBVIOUS
<1>1. ASSUME NEW p \in Pid, Start(p) PROVE TypeOK'
  BY <1>1, Counting DEF Start, TypeOK, Bot
<1>2. ASSUME NEW p \in Pid, InstallHandler(p) PROVE TypeOK'
  BY <1>2 DEF InstallHandler, TypeOK, Bot
<1>3. ASSUME NEW p \in Pid, WritePid(p) PROVE TypeOK'
  BY <1>3 DEF WritePid, TypeOK, Bot
<1>4. ASSUME NEW p \in Pid, Stop(p) PROVE TypeOK'
  <2>1. <<[at |-> "called", call |-> "close", ahead |-> 0]>> \in Seq(Frame)
    BY DEF Frame
  <2> QED BY <1>4, <2>1 DEF Stop, TypeOK, Bot
<1>5. ASSUME NEW p \in Pid, Exit(p) \/ Crash(p) \/ OtherEnds(p) \/ Dies(p) PROVE TypeOK'
  BY <1>5, GoneType DEF Exit, Crash, OtherEnds, Dies
<1>6. ASSUME NEW p \in Pid, OtherStarts(p) PROVE TypeOK'
  BY <1>6, Counting DEF OtherStarts, TypeOK, Bot
<1>7. CASE Edit
  BY <1>7, Counting DEF Edit, TypeOK
<1>8. CASE ReadPid
  BY <1>8, Counting DEF ReadPid, TypeOK
<1>9. CASE CheckPid
  BY <1>9 DEF CheckPid, TypeOK
<1>10. CASE SendHup
  BY <1>10 DEF SendHup, TypeOK
<1>11. ASSUME NEW p \in Pid, OnHup(p) PROVE TypeOK'
  <2>1. frames[p] \in Seq(Frame)
    BY DEF TypeOK
  <2>2. Entered(p) \in Seq(Frame)
    BY <2>1, StackType, CallType DEF Entered
  <2> QED BY <1>11, <2>2 DEF OnHup, TypeOK
<1>12. ASSUME NEW p \in Pid, BeginSubmit(p) PROVE TypeOK'
  <2>1. [Top(p) EXCEPT !.at = "submitting"] \in Frame
    BY <1>12, TopIs DEF BeginSubmit, Frame
  <2> QED BY <1>12, <2>1, SetTopType DEF BeginSubmit, TypeOK
<1>13. ASSUME NEW p \in Pid, EndSubmit(p) PROVE TypeOK'
  <2>1. [Top(p) EXCEPT !.at = "waiting", !.ahead = jobs[p] + 1] \in Frame
    <3>1. Top(p) \in Frame /\ jobs[p] + 1 \in Nat
      BY <1>13, TopIs, Counting DEF EndSubmit, TypeOK
    <3> QED BY <3>1 DEF Frame
  <2>2. frames' \in [Pid -> Seq(Frame)]
    BY <1>13, <2>1, SetTopType DEF EndSubmit
  <2>3. jobs' \in [Pid -> Nat]
    BY <1>13, Counting DEF EndSubmit, TypeOK
  <2> QED BY <1>13, <2>2, <2>3 DEF EndSubmit, TypeOK
<1>14. ASSUME NEW p \in Pid, Return(p) \/ SubmitRaises(p) PROVE TypeOK'
  BY <1>14, PopType DEF Return, SubmitRaises, TypeOK
<1>15. ASSUME NEW p \in Pid, NEW raises \in BOOLEAN, Work(p, raises) PROVE TypeOK'
  <2>1. frames' \in [Pid -> Seq(Frame)]
    BY <1>15, WorkType
  <2>2. jobs' \in [Pid -> Nat]
    BY <1>15, Counting DEF Work, TypeOK
  <2>3. memory' \in [Pid -> 0..MaxVersions] /\ failed' \in SUBSET Pid
    BY <1>15 DEF Work, TypeOK
  <2> QED BY <1>15, <2>1, <2>2, <2>3 DEF Work, TypeOK
<1>16. CASE UNCHANGED vars
  BY <1>16 DEF vars, TypeOK
<1> QED BY <1>1, <1>2, <1>3, <1>4, <1>5, <1>6, <1>7, <1>8, <1>9, <1>10, <1>11, <1>12, <1>13,
     <1>14, <1>15, <1>16 DEF Next, MainThread

\* Every variable keeps its type; only bots have a handler or hold the lock,
\* and a signal that was misled is one to come.
THEOREM TypeCorrect == Spec => []TypeOK
BY InitType, TypeStep, PTL DEF Spec

-----------------------------------------------------------------------------
(* The invariant: one bot at a time, and whom a pid leads to. *)

\* The lock is the bot's from its start to its end.
OneBot ==
    \A p \in Pid : /\ process[p] \in Bot => lock = p
                   /\ process[p] = "up" => pidfile = p

\* A pid that is not stale is that of a bot with a handler, in the file, in
\* the script, and in a signal to come.
PidsLeadToHandlers ==
    /\ pidfile # "no file" /\ "pidfile" \notin stale => pidfile \in handlers
    /\ script.at # "idle" /\ "script" \notin stale => script.pid \in handlers
    /\ pending \subseteq handlers \cup misled

BotInv == TypeOK /\ OneBot /\ PidsLeadToHandlers

\* Nothing runs and no pid is known at the start.
LEMMA InitInv == Init => BotInv
<1> SUFFICES ASSUME Init PROVE BotInv
  OBVIOUS
<1>1. OneBot
  BY DEF Init, OneBot, Bot
<1>2. PidsLeadToHandlers
  BY DEF Init, PidsLeadToHandlers
<1> QED BY <1>1, <1>2, InitType DEF BotInv

\* What the end of a process leaves behind is marked as stale.
LEMMA GoneInv ==
    ASSUME BotInv, NEW p \in Pid, Gone(p), UNCHANGED <<pidfile, disk, script, hups, starts>>
    PROVE  (OneBot /\ PidsLeadToHandlers)'
<1>1. OneBot'
  BY DEF BotInv, TypeOK, OneBot, Gone, Bot, Released
<1>2. /\ pidfile # "no file" /\ "pidfile" \notin stale' => pidfile # p /\ "pidfile" \notin stale
      /\ script.at # "idle" /\ "script" \notin stale' => script.pid # p /\ "script" \notin stale
  BY DEF Gone
<1>3. PidsLeadToHandlers'
  BY <1>2 DEF BotInv, PidsLeadToHandlers, Gone
<1> QED BY <1>1, <1>3

\* Every action keeps the invariant.
LEMMA StepInv == BotInv /\ [Next]_vars => BotInv'
<1> SUFFICES ASSUME BotInv, [Next]_vars PROVE (OneBot /\ PidsLeadToHandlers)'
  BY TypeStep DEF BotInv
<1> USE DEF BotInv
<1>1. ASSUME NEW p \in Pid, Start(p) PROVE (OneBot /\ PidsLeadToHandlers)'
  <2>1. \A q \in Pid : process[q] \notin Bot
    BY <1>1, NamesAreNoPids DEF Start, MayStart, OneBot
  <2>2. OneBot'
    BY <1>1, <2>1 DEF Start, OneBot, TypeOK, Bot
  <2> QED BY <1>1, <2>2 DEF Start, PidsLeadToHandlers
<1>2. ASSUME NEW p \in Pid, InstallHandler(p) PROVE (OneBot /\ PidsLeadToHandlers)'
  BY <1>2 DEF InstallHandler, OneBot, PidsLeadToHandlers
<1>3. ASSUME NEW p \in Pid, WritePid(p) PROVE (OneBot /\ PidsLeadToHandlers)'
  <2>1. \A q \in Pid : process[q] = "up" => q = p
    BY <1>3 DEF WritePid, OneBot, Bot
  <2>2. OneBot'
    BY <1>3, <2>1 DEF WritePid, OneBot, TypeOK, Bot
  <2> QED BY <1>3, <2>2 DEF WritePid, MayWritePid, PidsLeadToHandlers
<1>4. ASSUME NEW p \in Pid, Stop(p) PROVE (OneBot /\ PidsLeadToHandlers)'
  <2>1. \A q \in Pid : process[q] = "up" => q = p
    BY <1>4 DEF Stop, OneBot, Bot
  <2>2. OneBot'
    BY <1>4, <2>1 DEF Stop, OneBot, TypeOK, Bot
  <2> QED BY <1>4, <2>2 DEF Stop, PidsLeadToHandlers
<1>5. ASSUME NEW p \in Pid, Exit(p) \/ Crash(p) \/ OtherEnds(p) \/ Dies(p)
      PROVE  (OneBot /\ PidsLeadToHandlers)'
  BY <1>5, GoneInv DEF Exit, Crash, OtherEnds, Dies
<1>6. ASSUME NEW p \in Pid, OtherStarts(p) PROVE (OneBot /\ PidsLeadToHandlers)'
  BY <1>6 DEF OtherStarts, OneBot, PidsLeadToHandlers, TypeOK, Bot
<1>7. CASE Edit
  BY <1>7 DEF Edit, OneBot, PidsLeadToHandlers
<1>8. CASE ReadPid
  BY <1>8 DEF ReadPid, OneBot, PidsLeadToHandlers
<1>9. CASE CheckPid
  <2>1. script'.at # "idle" => script.at # "idle" /\ script'.pid = script.pid
    BY <1>9 DEF CheckPid, TypeOK
  <2>2. UNCHANGED <<process, handlers, lock, pidfile, pending, stale, misled>>
    BY <1>9 DEF CheckPid
  <2> QED BY <2>1, <2>2 DEF OneBot, PidsLeadToHandlers
<1>10. CASE SendHup
  BY <1>10 DEF SendHup, OneBot, PidsLeadToHandlers
<1>11. ASSUME NEW p \in Pid, OnHup(p) PROVE (OneBot /\ PidsLeadToHandlers)'
  BY <1>11 DEF OnHup, OneBot, PidsLeadToHandlers
<1>12. ASSUME NEW p \in Pid, BeginSubmit(p) \/ EndSubmit(p) \/ Return(p) \/ SubmitRaises(p)
       PROVE  (OneBot /\ PidsLeadToHandlers)'
  BY <1>12 DEF BeginSubmit, EndSubmit, Return, SubmitRaises, OneBot, PidsLeadToHandlers
<1>13. ASSUME NEW p \in Pid, NEW raises \in BOOLEAN, Work(p, raises)
       PROVE  (OneBot /\ PidsLeadToHandlers)'
  BY <1>13 DEF Work, OneBot, PidsLeadToHandlers
<1>14. CASE UNCHANGED vars
  BY <1>14 DEF vars, OneBot, PidsLeadToHandlers
<1> QED BY <1>1, <1>2, <1>3, <1>4, <1>5, <1>6, <1>7, <1>8, <1>9, <1>10, <1>11, <1>12, <1>13,
     <1>14 DEF Next, MainThread

\* The invariant of the bots on a state directory.
THEOREM BotsCorrect == Spec => []BotInv
BY InitInv, StepInv, PTL DEF Spec

-----------------------------------------------------------------------------
(* What follows. *)

\* Under run-slack-dev.sh's lock the bot that serves is alone on the
\* directory, and the pid file that cmd_slack wrote is its own.
THEOREM PidFileIsRight == Spec => []PidFileNamesTheBot
<1>1. BotInv => PidFileNamesTheBot
  BY DEF BotInv, OneBot, PidFileNamesTheBot, Bot
<1> QED BY <1>1, BotsCorrect, PTL

\* reload-bot.sh never ends a bot that can be found: only a signal that was
\* sent to a stale pid meets a process without on_hup.
THEOREM HupIsHarmless == Spec => HupKillsNoBot
<1>1. BotInv /\ [Next]_vars => [\A p \in Pid : Dies(p) => p \in misled]_vars
  BY DEF BotInv, PidsLeadToHandlers, Dies
<1> QED BY <1>1, BotsCorrect, PTL DEF Spec, HupKillsNoBot

-----------------------------------------------------------------------------
(* Change sets. *)

LEMMA ApplyIs ==
    ASSUME NEW d \in Dict, NEW changes \in Changes
    PROVE  /\ Apply(d, changes) \in Dict
           /\ \A n \in DOMAIN changes : n \in Name /\ Apply(d, changes)[n] = changes[n]
           /\ \A n \in Name \ DOMAIN changes : Apply(d, changes)[n] = d[n]
<1>1. DOMAIN changes \subseteq Name /\ \A n \in DOMAIN changes : changes[n] \in Entry
  BY DEF Changes
<1> QED BY <1>1 DEF Apply, Dict

LEMMA EntriesIs ==
    ASSUME NEW d \in Dict
    PROVE  /\ Entries(d) \in Changes
           /\ DOMAIN Entries(d) = Keys(d) /\ Keys(d) \subseteq Name
           /\ \A n \in Keys(d) : Entries(d)[n] = d[n]
<1>1. Keys(d) \in SUBSET Name /\ Entries(d) \in [Keys(d) -> Entry]
  BY DEF Keys, Entries, Dict
<1> QED BY <1>1 DEF Changes, Entries

\* What a merge of one dict into another holds.
LEMMA MergedIs ==
    ASSUME NEW from \in Dict, NEW to \in Dict
    PROVE  /\ Apply(to, Entries(from)) \in Dict
           /\ \A n \in Name :
                 Apply(to, Entries(from))[n] = IF from[n] # None THEN from[n] ELSE to[n]
<1>1. \A n \in Name : n \in Keys(from) <=> from[n] # None
  BY DEF Keys
<1>2. /\ Entries(from) \in Changes /\ DOMAIN Entries(from) = Keys(from)
      /\ \A n \in Keys(from) : Entries(from)[n] = from[n]
  BY EntriesIs
<1> QED BY <1>1, <1>2, ApplyIs

\* Two dicts with the same entries are equal.
LEMMA DictsEqual ==
    ASSUME NEW d \in Dict, NEW e \in Dict, \A n \in Name : d[n] = e[n]
    PROVE  d = e
BY DEF Dict

-----------------------------------------------------------------------------
(* cmd_migrate. *)

\* A migration leaves the destination with every entry of the source and
\* with those only the destination had, and one that ended early, after
\* whichever categories, can be run again to the same end.
LEMMA MigrationMergesAny ==
    ASSUME NEW Categories, NEW source \in [Categories -> Dict],
           NEW destination \in [Categories -> Dict]
    PROVE  MigrationMerges(source, destination)
<1> DEFINE merged == cmd_migrate(source, destination, Categories)
<1>1. DOMAIN destination = Categories
  OBVIOUS
<1>2. ASSUME NEW c \in Categories
      PROVE  /\ merged[c] = Apply(destination[c], Entries(source[c]))
             /\ merged[c] \in Dict
             /\ \A n \in Name :
                   merged[c][n] = IF source[c][n] # None THEN source[c][n] ELSE destination[c][n]
  <2>1. merged[c] = Apply(destination[c], Entries(source[c]))
    BY <1>1 DEF cmd_migrate
  <2> HIDE DEF merged
  <2>2. source[c] \in Dict /\ destination[c] \in Dict
    OBVIOUS
  <2> QED BY <2>1, <2>2, MergedIs
<1>3. ASSUME NEW copied \in SUBSET Categories
      PROVE  cmd_migrate(source, cmd_migrate(source, destination, copied), Categories) = merged
  <2> DEFINE partial == cmd_migrate(source, destination, copied)
             again == cmd_migrate(source, partial, Categories)
  <2>1. DOMAIN partial = Categories /\ DOMAIN merged = Categories
    BY DEF cmd_migrate
  <2>2. ASSUME NEW c \in Categories
        PROVE  partial[c] = IF c \in copied THEN merged[c] ELSE destination[c]
    BY <1>2, <2>2 DEF cmd_migrate
  <2>3. again = [c \in Categories |-> Apply(partial[c], Entries(source[c]))]
    BY <2>1 DEF cmd_migrate
  <2> HIDE DEF partial, again
  <2>4. ASSUME NEW c \in Categories
        PROVE  again[c] = merged[c]
    <3>1. /\ partial[c] \in Dict /\ source[c] \in Dict
          /\ again[c] = Apply(partial[c], Entries(source[c]))
      BY <1>2, <2>2, <2>3
    <3>2. /\ again[c] \in Dict
          /\ \A n \in Name :
                again[c][n] = IF source[c][n] # None THEN source[c][n] ELSE partial[c][n]
      BY <3>1, MergedIs
    <3>3. \A n \in Name : again[c][n] = merged[c][n]
      BY <1>2, <2>2, <3>2
    <3> QED BY <1>2, <3>2, <3>3, DictsEqual
  <2>5. merged = [c \in Categories |-> merged[c]]
    BY <1>1 DEF cmd_migrate
  <2>6. again = merged
    BY <2>3, <2>4, <2>5
  <2> QED BY <2>6 DEF again, partial
<1> QED BY <1>1, <1>2, <1>3 DEF MigrationMerges

-----------------------------------------------------------------------------
(* audit_state without calls, and verify. *)

\* What an audit reports as loaded and not hidden is what a bot started on
\* the library has, and the restore script's verify succeeds just when the
\* procs and the variables all load.
LEMMA AuditFindsWhatBootsAlways ==
    ASSUME NEW lib \in Dict, NEW variables \in Dict
    PROVE  AuditFindsWhatBoots(lib, variables)
<1> DEFINE report == audit_state(lib, <<>>, FALSE, FALSE)
           Installed == [n \in Name |->
                           IF lib[n] \in Broken \/ n \in Aliases THEN None ELSE lib[n]]
<1>1. /\ DOMAIN report = Keys(lib)
      /\ \A n \in Keys(lib) : /\ report[n].loaded <=> n \notin LoadErrors(lib)
                              /\ report[n].shadowed <=> n \in Shadows(lib)
  BY DEF audit_state
<1>2. /\ \A n \in Name : n \in Keys(lib) <=> lib[n] # None
      /\ \A n \in Name : n \in LoadErrors(lib) <=> lib[n] \in Broken
      /\ \A n \in Name : n \in LoadErrors(variables) <=> variables[n] \in Broken
  BY NoneAssumption, PayloadAssumption DEF Keys, LoadErrors
<1>3. /\ Keys(lib) \subseteq Name /\ LoadErrors(lib) \subseteq Keys(lib)
      /\ LoadErrors(variables) \subseteq Name
  BY DEF Keys, LoadErrors
<1>4. {n \in DOMAIN report : report[n].loaded /\ ~report[n].shadowed} = Keys(Installed)
  <2>1. \A n \in Keys(lib) : report[n].loaded /\ ~report[n].shadowed
                               <=> lib[n] \notin Broken /\ n \notin Aliases
    BY <1>1, <1>2, <1>3 DEF Shadows
  <2>2. \A n \in Name : n \in Keys(Installed)
                          <=> lib[n] \notin Broken /\ n \notin Aliases /\ n \in Keys(lib)
    BY <1>2 DEF Keys
  <2>3. Keys(Installed) \subseteq Name
    BY DEF Keys
  <2> HIDE DEF report, Installed
  <2> QED BY <1>1, <1>3, <2>1, <2>2, <2>3
<1>5. verify(report, LoadErrors(variables)).exit = 0
        <=> \A n \in Name : lib[n] \notin Broken /\ variables[n] \notin Broken
  <2>1. ExitCode(report) = 1 <=> \E n \in Name : lib[n] \in Broken
    <3>1. (\E n \in DOMAIN report : ~report[n].loaded) <=> \E n \in Name : lib[n] \in Broken
      BY <1>1, <1>2, <1>3
    <3> HIDE DEF report
    <3> QED BY <3>1 DEF ExitCode
  <2>2. LoadErrors(variables) = {} <=> \A n \in Name : variables[n] \notin Broken
    BY <1>2, <1>3
  <2> HIDE DEF report
  <2>3. verify(report, LoadErrors(variables)).exit = 0
          <=> ExitCode(report) # 1 /\ LoadErrors(variables) = {}
    BY DEF verify
  <2> QED BY <2>1, <2>2, <2>3
<1> QED BY <1>4, <1>5 DEF AuditFindsWhatBoots

-----------------------------------------------------------------------------
(* audit_state with calls: RunPhase is defined by recursion over the procs. *)

\* What the calls have left of the procs, and how they ended.
Calling == [procs : Dict, run : [Name -> Ending \cup {"not run"}]]

LEMMA CalledIs ==
    ASSUME NEW sofar \in Calling, NEW n \in Name, NEW with_args \in BOOLEAN
    PROVE  Called(sofar, n, with_args) \in Calling
<1>1. CASE ~MayCall(sofar.procs, n, with_args)
  BY <1>1 DEF Called
<1>2. CASE MayCall(sofar.procs, n, with_args)
  <2> DEFINE procs == sofar.procs
             payload == procs[n]
             result == RunResult(CallEnds(procs, n), Required[payload])
  <2>1. procs \in Dict /\ payload \in Value /\ sofar.run \in [Name -> Ending \cup {"not run"}]
    BY <1>2 DEF Calling, MayCall, Dict, Entry
  <2>2. result \in Ending
    BY <2>1, PayloadAssumption DEF RunResult, CallEnds, Ending
  <2>3. Apply(procs, Redefines[payload]) \in Dict
    BY <2>1, PayloadAssumption, ApplyIs
  <2>4. Called(sofar, n, with_args) =
           [procs |-> Apply(procs, Redefines[payload]), run |-> [sofar.run EXCEPT ![n] = result]]
    BY <1>2 DEF Called
  <2> DEFINE run == sofar.run
             Ends == Ending \cup {"not run"}
  <2>5. run \in [Name -> Ends] /\ result \in Ends
    BY <2>1, <2>2
  <2> HIDE DEF run, Ends, procs, payload, result
  <2>6. [run EXCEPT ![n] = result] \in [Name -> Ends]
    BY <2>5
  <2> DEFINE left == Apply(procs, Redefines[payload])
             ends == [run EXCEPT ![n] = result]
  <2>7. /\ left \in Dict /\ ends \in [Name -> Ends]
        /\ Called(sofar, n, with_args) = [procs |-> left, run |-> ends]
    BY <2>3, <2>4, <2>6 DEF run
  <2> HIDE DEF left, ends
  <2>8. [procs |-> left, run |-> ends] \in Calling
    BY <2>7 DEF Calling, Ends
  <2> QED BY <2>7, <2>8, Zenon
<1> QED BY <1>1, <1>2

\* The loop over the procs does what its definition says.
LEMMA CallsIs ==
    ASSUME NEW library \in Dict, NEW order \in Seq(Name), NEW with_args \in BOOLEAN
    PROVE  /\ Calls(library, order, with_args) \in [0..Len(order) -> Calling]
           /\ Calls(library, order, with_args)[0] =
                 [procs |-> Procs(library), run |-> [n \in Name |-> "not run"]]
           /\ \A i \in 1..Len(order) :
                 Calls(library, order, with_args)[i] =
                    IF order[i] \in Callable(library)
                    THEN Called(Calls(library, order, with_args)[i - 1], order[i], with_args)
                    ELSE Calls(library, order, with_args)[i - 1]
<1> DEFINE n == Len(order)
           start == [procs |-> Procs(library), run |-> [m \in Name |-> "not run"]]
           Loop(sofar, i) == IF order[i] \in Callable(library)
                             THEN Called(sofar, order[i], with_args) ELSE sofar
           step == [i \in Nat |-> [sofar \in Calling |-> IF i \in 1..n THEN Loop(sofar, i) ELSE start]]
           Is(f) == f = [i \in 0..n |-> IF i = 0 THEN start
                                        ELSE IF order[i] \in Callable(library)
                                        THEN Called(f[i - 1], order[i], with_args)
                                        ELSE f[i - 1]]
           G == Calls(library, order, with_args)
<1>0. n \in Nat /\ \A i \in 1..n : order[i] \in Name
  OBVIOUS
<1>1. start \in Calling
  <2>1. Procs(library) \in Dict
    BY DEF Procs, Dict, Entry
  <2> QED BY <2>1 DEF Calling
<1>2. \A i \in 1..n : \A sofar \in Calling : Loop(sofar, i) \in Calling
  BY <1>0, CalledIs
<1> HIDE DEF start
<1>3. step \in [Nat -> [Calling -> Calling]]
  <2> HIDE DEF Loop
  <2> QED BY <1>1, <1>2
<1>4. PICK f : Recurses(f, Calling, start, step, n)
  <2> HIDE DEF step, n
  <2> QED BY <1>0, <1>1, <1>3, RecursionExists
<1>5. ASSUME NEW i \in 1..n PROVE f[i] = Loop(f[i - 1], i)
  <2>1. i \in Nat /\ i - 1 \in 0..n
    BY <1>0
  <2>2. f[i - 1] \in Calling /\ f[i] = step[i][f[i - 1]]
    BY <1>4, <2>1 DEF Recurses
  <2> HIDE DEF Loop
  <2> QED BY <2>1, <2>2
<1>6. Is(f)
  <2>1. ASSUME NEW i \in 0..n
        PROVE  f[i] = IF i = 0 THEN start
                      ELSE IF order[i] \in Callable(library)
                      THEN Called(f[i - 1], order[i], with_args)
                      ELSE f[i - 1]
    <3>1. i = 0 \/ i \in 1..n
      BY <1>0
    <3> QED BY <1>4, <1>5, <3>1 DEF Recurses
  <2> QED BY <1>4, <2>1 DEF Recurses
<1>7. Is(CHOOSE g : Is(g))
  <2> HIDE DEF Is
  <2> QED BY <1>6, Zenon
<1>8. G = CHOOSE g : Is(g)
  BY DEF Calls, start
<1>9. Is(G)
  BY <1>7, <1>8
<1> HIDE DEF G
<1>10. G = [i \in 0..n |-> G[i]] /\ \A i \in 0..n : G[i] = IF i = 0 THEN start ELSE Loop(G[i - 1], i)
  BY <1>9
<1>11. G[0] = start /\ \A i \in 1..n : G[i] = Loop(G[i - 1], i)
  <2>1. 0 \in 0..n /\ \A i \in 1..n : i \in 0..n /\ i # 0
    BY <1>0
  <2> HIDE DEF n, Loop
  <2> QED BY <1>10, <2>1
<1> DEFINE S == {i \in 0..n : G[i] \in Calling}
<1>12. 0..n \subseteq S
  <2>1. 0 \in S
    BY <1>0, <1>1, <1>11
  <2>2. ASSUME NEW i \in 1..n, i - 1 \in S PROVE i \in S
    <3>1. i \in 0..n /\ G[i - 1] \in Calling /\ G[i] = Loop(G[i - 1], i)
      BY <1>0, <1>11, <2>2
    <3> HIDE DEF Loop
    <3> QED BY <1>2, <3>1
  <2> HIDE DEF S, n
  <2> QED BY <1>0, <2>1, <2>2, InductionUpTo
<1>13. G \in [0..n -> Calling]
  <2>1. \A i \in 0..n : G[i] \in Calling
    BY <1>12
  <2> HIDE DEF n
  <2> QED BY <1>10, <2>1
<1> QED BY <1>11, <1>13 DEF G, start

\* How the call of a proc ends when the others leave the procs alone.
AloneEnds(library, n) == RunResult(CallEnds(Procs(library), n), Required[library[n]])

\* The procs that are called: those without arguments, or all.
CallsOf(library, with_args) ==
    {n \in Callable(library) : Required[library[n]] = 0 \/ with_args}

LEMMA CallableIs ==
    ASSUME NEW library \in Dict
    PROVE  /\ Callable(library) \subseteq Keys(library) /\ Keys(library) \subseteq Name
           /\ Procs(library) \in Dict
           /\ \A n \in Callable(library) : /\ Procs(library)[n] = library[n]
                                           /\ library[n] \in Value /\ library[n] # None
BY NoneAssumption DEF Callable, Keys, Procs, Dict, Entry

\* The first k calls left the procs alone, and each ended as it would alone.
CalledEachAlone(library, order, with_args, k) ==
    LET calls == Calls(library, order, with_args)
    IN  /\ calls[k].procs = Procs(library)
        /\ \A n \in Name :
              calls[k].run[n] =
                 IF n \in CallsOf(library, with_args) /\ \E j \in 1..k : order[j] = n
                 THEN AloneEnds(library, n) ELSE "not run"

\* If no call changes the procs, each ends as it would alone.
LEMMA CalledAlone ==
    ASSUME NEW library \in Dict, NEW order \in Seq(Name), NEW with_args \in BOOLEAN,
           \A n \in Callable(library) : Redefines[library[n]] = NoChanges,
           NEW i \in 0..Len(order)
    PROVE  CalledEachAlone(library, order, with_args, i)
<1> DEFINE len == Len(order)
           G == Calls(library, order, with_args)
           Seen(k, n) == \E j \in 1..k : order[j] = n
           Alone(k) == /\ G[k].procs = Procs(library)
                       /\ \A n \in Name : G[k].run[n] =
                             IF n \in CallsOf(library, with_args) /\ Seen(k, n)
                             THEN AloneEnds(library, n) ELSE "not run"
           S == {k \in 0..len : Alone(k)}
<1>0. len \in Nat /\ \A k \in 1..len : order[k] \in Name
  OBVIOUS
<1>1. /\ G \in [0..len -> Calling]
      /\ G[0] = [procs |-> Procs(library), run |-> [n \in Name |-> "not run"]]
      /\ \A k \in 1..len : G[k] = IF order[k] \in Callable(library)
                                  THEN Called(G[k - 1], order[k], with_args) ELSE G[k - 1]
  BY CallsIs
<1> HIDE DEF G
<1>2. 0 \in S
  <2>1. \A n \in Name : ~Seen(0, n)
    OBVIOUS
  <2>2. G[0].procs = Procs(library) /\ \A n \in Name : G[0].run[n] = "not run"
    <3> DEFINE procs == Procs(library)
               run == [n \in Name |-> "not run"]
    <3>1. G[0] = [procs |-> procs, run |-> run]
      BY <1>1
    <3>2. \A n \in Name : run[n] = "not run"
      OBVIOUS
    <3> HIDE DEF procs, run
    <3>3. G[0].procs = procs /\ G[0].run = run
      BY <3>1
    <3> QED BY <3>2, <3>3 DEF procs
  <2> HIDE DEF Seen
  <2>3. Alone(0)
    BY <2>1, <2>2
  <2> HIDE DEF Alone
  <2> QED BY <1>0, <2>3
<1>3. ASSUME NEW k \in 1..len, k - 1 \in S PROVE k \in S
  <2> DEFINE m == order[k]
  <2>1. m \in Name /\ k \in 0..len /\ k - 1 \in 0..len /\ Alone(k - 1)
    <3> HIDE DEF Alone
    <3> QED BY <1>0, <1>3
  <2>2. \A n \in Name : Seen(k, n) <=> Seen(k - 1, n) \/ n = m
    <3>1. \A j \in 1..k : j \in 1..(k - 1) \/ j = k
      OBVIOUS
    <3>2. \A j \in 1..(k - 1) : j \in 1..k
      OBVIOUS
    <3>3. k \in 1..k
      OBVIOUS
    <3> QED BY <3>1, <3>2, <3>3
  <2>3. G[k - 1] \in Calling
    BY <1>1, <2>1
  <2> HIDE DEF Seen
  <2>4. Alone(k)
    <3>1. CASE m \notin CallsOf(library, with_args)
      <4>1. G[k] = G[k - 1]
        <5>1. CASE m \notin Callable(library)
          BY <1>1, <5>1
        <5>2. CASE m \in Callable(library)
          <6>1. ~MayCall(G[k - 1].procs, m, with_args)
            BY <2>1, <3>1, <5>2, CallableIs DEF MayCall, CallsOf
          <6> QED BY <1>1, <5>2, <6>1 DEF Called
        <5> QED BY <5>1, <5>2
      <4> QED BY <2>1, <2>2, <3>1, <4>1
    <3>2. CASE m \in CallsOf(library, with_args)
      <4>1. m \in Callable(library) /\ (Required[library[m]] = 0 \/ with_args)
        BY <3>2 DEF CallsOf
      <4>2. /\ G[k - 1].procs = Procs(library) /\ Procs(library)[m] = library[m]
            /\ library[m] # None
        BY <2>1, <4>1, CallableIs
      <4>3. MayCall(G[k - 1].procs, m, with_args)
        BY <4>1, <4>2 DEF MayCall
      <4>4. Apply(Procs(library), NoChanges) = Procs(library)
        BY DEF Apply, NoChanges, Procs
      <4>5. G[k] = [procs |-> Procs(library),
                    run |-> [G[k - 1].run EXCEPT ![m] = AloneEnds(library, m)]]
        <5>1. G[k] = Called(G[k - 1], m, with_args)
          BY <1>1, <4>1
        <5>2. Redefines[library[m]] = NoChanges
          BY <4>1
        <5> QED BY <4>2, <4>3, <4>4, <5>1, <5>2 DEF Called, AloneEnds
      <4>6. G[k - 1].run \in [Name -> Ending \cup {"not run"}]
        BY <2>3 DEF Calling
      <4>7. /\ G[k].procs = Procs(library)
            /\ G[k].run[m] = AloneEnds(library, m)
            /\ \A n \in Name : n # m => G[k].run[n] = G[k - 1].run[n]
        <5> DEFINE run == G[k - 1].run
                   e == AloneEnds(library, m)
        <5>1. run \in [Name -> Ending \cup {"not run"}]
          BY <4>6
        <5> HIDE DEF run, e
        <5>2. /\ [run EXCEPT ![m] = e][m] = e
              /\ \A n \in Name : n # m => [run EXCEPT ![m] = e][n] = run[n]
          BY <2>1, <5>1
        <5>3. G[k] = [procs |-> Procs(library), run |-> [run EXCEPT ![m] = e]]
          BY <4>5 DEF run, e
        <5> QED BY <5>2, <5>3 DEF run, e
      <4> QED BY <2>1, <2>2, <3>2, <4>7
    <3> QED BY <3>1, <3>2
  <2> HIDE DEF Alone
  <2> QED BY <2>1, <2>4
<1>4. 0..len \subseteq S
  <2> HIDE DEF S, len
  <2> QED BY <1>0, <1>2, <1>3, InductionUpTo
<1>5. Alone(i)
  <2> HIDE DEF Alone
  <2> QED BY <1>4
<1> QED BY <1>5 DEF G, CalledEachAlone

\* Whatever the library, if no call redefines a proc, an audit that comes to
\* every proc judges each as if it were called alone.
LEMMA AuditJudges ==
    ASSUME NEW library \in Dict, NEW order \in Seq(Name), NEW with_args \in BOOLEAN,
           \A n \in Keys(library) : \E i \in DOMAIN order : order[i] = n
    PROVE  AuditJudgesEachAlone(library, order, with_args)
<1> DEFINE report == audit_state(library, order, TRUE, with_args)
           procs == Procs(library)
           calls == CallsOf(library, with_args)
           fails(n) == \/ Unresolved(procs, n) # {} \/ Runs[library[n]] = "error"
                       \/ Runs[library[n]] = "argument" /\ Required[library[n]] = 0
<1>1. SUFFICES ASSUME \A n \in Callable(library) : Redefines[library[n]] = NoChanges
               PROVE  /\ {n \in DOMAIN report : report[n].run = "error"} = {n \in calls : fails(n)}
                      /\ {n \in DOMAIN report : report[n].run # "not run"} = calls
  BY DEF AuditJudgesEachAlone, CallsOf
<1>2. /\ DOMAIN report = Keys(library)
      /\ \A n \in Keys(library) : report[n].run = RunPhase(library, order, with_args)[n]
  BY DEF audit_state
<1>3. /\ Callable(library) \subseteq Keys(library) /\ Keys(library) \subseteq Name
      /\ calls \subseteq Callable(library)
      /\ \A n \in Callable(library) : procs[n] = library[n] /\ library[n] \in Value
  BY CallableIs DEF CallsOf
<1>4. \A n \in Keys(library) : RunPhase(library, order, with_args)[n] =
         IF n \in calls THEN AloneEnds(library, n) ELSE "not run"
  <2>1. Len(order) \in Nat /\ Len(order) \in 0..Len(order) /\ DOMAIN order = 1..Len(order)
    OBVIOUS
  <2>2. \A n \in Name : RunPhase(library, order, with_args)[n] =
           IF n \in calls /\ \E j \in 1..Len(order) : order[j] = n
           THEN AloneEnds(library, n) ELSE "not run"
    <3> DEFINE n == Len(order)
               last == Calls(library, order, with_args)[n]
    <3>1. /\ n \in 0..Len(order)
          /\ RunPhase(library, order, with_args) = last.run
      BY <2>1 DEF RunPhase
    <3> HIDE DEF n
    <3>2. \A m \in Name : last.run[m] =
             IF m \in CallsOf(library, with_args) /\ \E j \in 1..n : order[j] = m
             THEN AloneEnds(library, m) ELSE "not run"
      <4>1. CalledEachAlone(library, order, with_args, n)
        BY <1>1, <3>1, CalledAlone
      <4> QED BY <4>1 DEF CalledEachAlone
    <3> HIDE DEF last
    <3> QED BY <3>1, <3>2 DEF n
  <2> HIDE DEF calls
  <2> QED BY <1>3, <2>1, <2>2
<1>5. ASSUME NEW n \in calls
      PROVE  AloneEnds(library, n) # "not run" /\ (AloneEnds(library, n) = "error" <=> fails(n))
  <2>1. procs[n] = library[n] /\ Runs[library[n]] \in Ending
    BY <1>3, PayloadAssumption
  <2> QED BY <2>1 DEF AloneEnds, CallEnds, RunResult, Ending
<1> HIDE DEF report, calls, fails
<1>6. \A n \in DOMAIN report :
         /\ report[n].run = "error" <=> n \in calls /\ fails(n)
         /\ report[n].run # "not run" <=> n \in calls
  BY <1>2, <1>4, <1>5
<1>7. calls \subseteq DOMAIN report
  BY <1>2, <1>3
<1> QED BY <1>6, <1>7

-----------------------------------------------------------------------------
(* What the commands on a library promise. *)

\* What audit and verify say loads is what a bot started on the library has,
\* for any library (audit_state, restore-state.sh).
THEOREM AuditsAgreeWithBoots == Spec => []AuditAgreesWithBoot
<1>1. AuditAgreesWithBoot
  BY LibrariesAssumption, AuditFindsWhatBootsAlways DEF AuditAgreesWithBoot
<1> QED BY <1>1, PTL

\* In whatever order an audit comes to the procs of whatever library, it
\* fails those with a missing command or an error of their own, unless a
\* call redefines procs (audit_state).
THEOREM AuditsAreFair == Spec => []AuditIsFair
<1>1. ASSUME NEW library \in Dict, NEW order \in Orders, NEW with_args \in BOOLEAN
      PROVE  AuditJudgesEachAlone(library, order, with_args)
  <2>1. order \in Seq(Name) /\ \A n \in Name : \E i \in DOMAIN order : order[i] = n
    BY LibrariesAssumption
  <2>2. Keys(library) \subseteq Name
    BY DEF Keys
  <2> QED BY <2>1, <2>2, AuditJudges
<1>2. AuditIsFair
  BY <1>1 DEF AuditIsFair
<1> QED BY <1>2, PTL

\* A migration leaves the destination with every entry of the source and
\* with those only the destination had, interrupted and repeated or not, for
\* any libraries (cmd_migrate).
THEOREM MigrationsMerge == Spec => []MigrationIsRepeatable
<1>1. ASSUME NEW source \in [Category -> Libraries], NEW destination \in [Category -> Libraries]
      PROVE  MigrationMerges(source, destination)
  <2>1. source \in [Category -> Dict] /\ destination \in [Category -> Dict]
    BY LibrariesAssumption
  <2> QED BY <2>1, MigrationMergesAny
<1>2. MigrationIsRepeatable
  BY <1>1 DEF MigrationIsRepeatable
<1> QED BY <1>2, PTL
================================================================================
