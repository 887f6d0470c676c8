# smeggdrop in TLA+

smeggdrop is a chat bot that evaluates Tcl sent to it in a channel. What a Tcl
script defines (procs and global variables) persists: it is saved to a state
store after the eval and loaded again by the next process. This directory holds
TLA+ modules of the parts where that can go wrong, the TLC runs that check
them, and proofs that TLAPS checks. Paths below are relative to the repository
(`src/` here).

To check a model, `tlc -config S3Writers.cfg MCS3Store.tla`, with the
configurations and modules listed under *Runs*; to check the proofs,
`tlapm` on the eight modules `*Proofs.tla`. The community modules and the TLAPS
library must be on the module path.

## 1. The system

The python package `smeggdrop/` is the program. `app/` holds the perl bot it
replaces, whose state directories it still reads.

| component | state it keeps | operations |
|---|---|---|
| Engine (`engine.py`) | one Tcl interpreter, one worker thread with a queue, call counters of the running eval | `eval`, `reload`, `close`; on the worker `_eval`, `_reload`, `_init_interp` |
| Interpreter wrapper (`interp.py`, `tcl/*.tcl`) | the safe slave interpreter | `eval`, `eval_limited`, `procs`, `vars`, `install_*`, `alias_global_commands`, `close` |
| File store (`state.py`) | a directory: a data file per entry, an `_index`; in memory, the index it cached | `load`, `save_many` |
| S3 store (`state_s3.py`) | an object per category; in memory, a snapshot and its ETag | `load`, `save_many` with a conditional PUT |
| Slack platform (`platforms/slack.py`) | claimed event ids (in memory or in dynamo), caches of nicks and channels, chat log | `drop_duplicates`, `evaluate`, `handle_message_event`, `post` |
| Shared platform code (`platforms/__init__.py`) | chat log per channel | `extract_code`, `append`, `slurp`, `chunk_output` |
| Fetcher (`security.py`) | a call's url, method, body and hop | `fetch`, `validate` |
| Hardening (`hardening.py`) | the process's memory cap | `apply_memory_limit` |
| Commands (`cli.py`, `lambda_handler.py`, `run-slack-dev.sh`, `reload-bot.sh`) | the process, its lock and pid file | `repl`, `slack`, `migrate`, `audit`; SIGHUP reloads |
| Audit (`audit.py`) | none | `audit_state` over a directory |
| Operations (`restore-state.sh`, `sst.config.ts`) | the versions of the S3 objects | put an earlier version back; the lambda and its permissions |
| Perl bot (`app/lib/*.pm`) | connections, a git work tree of state | reconnecting, versioned saves |

How they interact. Slack delivers an event to a process, which claims its id,
hands the message to a listener and acks; on lambda the listener is a second
invocation, perhaps in another container. The listener calls `Engine.eval` from
its own thread. The engine queues a job for its single worker, which runs the
script, compares snapshots of the interpreter taken before and after it, and
calls `save_many` once per category with the differences. The store merges them
into what other processes (containers, a repl, an operator) may have written
meanwhile. A reload builds a new interpreter from the store. While a script runs
it may call the fetcher and post messages through the builtins; when it is done
the listener formats its output and posts it message by message. A line of chat
is kept in a log that the next eval takes along.

### What is hard

* Several writers of one S3 object, no lock: the conditional PUT, the merge
  after a conflict, lost responses, requests served late, stopped containers.
* A directory written in place: a data file is truncated before it is written,
  the index is written last, from a copy cached at the last load.
* Memory and store are two copies with several ways to part: an eval that
  fails, a save that raises, entries that vetting refuses or that do not load,
  a reload that stops halfway, a writer elsewhere.
* Slack delivers again what it has no ack for, the claim is made before the
  eval is handed over, and the process may die in between.
* Callers time out while their job is queued; `close` has two steps.
* Every message of a channel has a thread: the chat log and the name caches are
  shared without a lock, and what is taken for an eval is gone if it fails.
* A post that fails may have arrived, or arrive later; replies have several.
* SIGHUP interrupts the main thread anywhere, also within a reload; a pid may
  name a process that is gone, or another one.

`PROJECT.json` lists each hazard at its line with the properties about it.

### What makes each component correct

* S3 store: no save overwrites what it did not merge; a cached snapshot and the
  ETag kept with it always belong together; a save gives up only under
  contention; together the containers are one library of entries.
* File store: an entry is changed by its own saves only, whatever fails or is
  killed; missing files are not forgotten; loads return what was saved.
* Engine: what is answered "ok" is saved; memory and store differ only for a
  reason the code knows; a save writes only what its eval changed; caps per
  eval are exact; a submitted eval ends.
* Slack delivery: an event runs at most once, and an event that arrived runs.
* Replies: what is in the channel is the reply's beginning, without a hole, and
  each message once unless a post was in doubt; an eval that ran is answered.
* Chat log: a line goes to one eval. Name caches: a name, once settled, stays.
* Fetcher: every request was validated in its hop; a value is the end of an
  unbroken chain of redirects; every call ends.
* Process: the pid file names the bot that serves; SIGHUP ends in a reload and
  kills no bot that can be found.
* Audit, verify, migrate: they agree with what a bot would load; verdicts do not
  depend on an order; a migration can be repeated.

## 2. Modules

| module | of | builds on |
|---|---|---|
| `StateDict` | dicts of entries, change sets, `_apply` | |
| `LibraryStore` | what a state store promises: abstract specification | `StateDict` |
| `S3Store` | `state_s3.py`, any number of containers | `StateDict`; INSTANCE of `LibraryStore` |
| `S3StoreProofs` | its theorems | `S3Store` |
| `Engine` | `engine.py` with the interpreter as its scripts use it | `StateDict` |
| `EngineProofs` | its theorems | `Engine` |
| `FileStore` | `state.py`: one category, several processes | `StateDict` |
| `FileStoreProofs` | its theorems | `FileStore` |
| `SlackDelivery` | `platforms/slack.py`, from delivery to eval | |
| `SlackDeliveryProofs` | its theorems | `SlackDelivery`, `RecursionProofs` |
| `ReplyFormat` | `chunk_output`, `format_reply`: pure | |
| `SlackReply` | `platforms/slack.py` and the chat log, from a claimed message to its reply | `ReplyFormat` |
| `SlackReplyProofs` | the theorems of both | `SlackReply`, `RecursionProofs` |
| `SafeFetcher` | `security.py`, called through `core::http` | |
| `SafeFetcherProofs` | its theorems | `SafeFetcher` |
| `BotProcess` | `cmd_slack`, its lock, pid file and SIGHUP; `reload-bot.sh` | |
| `StateTools` | `audit.py`, `restore-state.sh verify`, `cmd_migrate`: pure | `StateDict` |
| `Commands` | what the command line offers: the process and the commands on a library | `BotProcess`, `StateTools` |
| `CommandsProofs` | the theorems of these | `Commands`, `RecursionProofs` |
| `RecursionProofs` | induction over numbers and sequences, recursion, what `FlattenSeq` returns: for the other proofs | |
| `MC*` | constants for TLC | the module of that name |

Common conventions. A dict is a total function from names to entries, with
`None` for a missing key; a change set is a partial one, with `None` for a
deletion. A payload is a model value: its text never matters here. Locals of a
call are reset when it ends, so that a state does not remember a finished call.
Variables marked *history* are read by properties only and restrict no action.
Operators named as mutants are plausible errors of one definition; nothing uses
them, and each breaks one property (`PROJECT.json`, "mutants").

### S3Store

One category, as the categories are independent objects. `object` is the S3
object; `snapshots[c]`, `etags[c]` are the two caches of container `c`;
`changes`, `attempt`, `reply` are the state of its `save_many`. An ETag is an
injective function of the content, as S3's is for plain PUTs, so an object that
returns to an earlier content has that ETag again. Actions follow a save:
`SaveMany` (the call), `PutLands` or `PutRefused` (S3 serves the request),
`Resend` (botocore repeats it), `PutReturns`, `PutConflicts` (the response
arrives), `Refetch` (the conflict handler with its last-attempt test),
`NetworkError` (anything else raised), `Unsupported` (what an old client
raises, the fallback's gap included).
`Crash` stops a container anywhere. A request in flight when its sender gives up
or dies may stay in `orphans` and be served at any later time, its precondition
tested then. `Restore` is `restore-state.sh`. The fetch of the conflict handler
and the one of `load` are single steps: GET returns one version.
S3's 409 *ConditionalRequestConflict* is taken for the 412 that follows from a
version that changed. `PUT_ATTEMPTS` is 5 in the code and a constant here.

`LibraryStore` is what a client may rely on: a library of entries, in which a
save lands as a whole on top of whatever is there, before the save returns. A
save that raised has landed, or not, or lands later. The mapping takes the
library to be the object's content, and a save's phase to be whether it has
landed (`landed`).

### Engine

`memory` is the interpreter, `disk` the store behind `LibraryStore`'s promise,
`queue`, `running`, `pc`, `category` the executor and its worker, `pre` the
snapshot `_eval` takes first. A script is arbitrary: `Define` changes one entry
at a time, `Call` calls a capped builtin, and `ScriptEnds` or `ScriptFails` may
come at any point (a Tcl error, or the time limit, which is one). `SaveCategory`
is one round of the saving loop: diff, vetting and `save_many`; `SaveRaises` lets
`save_many` write any part and raise. `LoadCategory` is one round of the loading
loop, `LoadRaises` the failure that leaves a half-loaded interpreter in service.
What names and payloads vetting or loading treat differently is given by the
constants `Unsafe`, `TooLarge`, `Automatic`, `Broken`, `Shadowed`. `Crash` ends the
process anywhere. `OutsideEdit` is any other writer. Booting is a load: Init is
a process that has just started, over an arbitrary store.

`unsaved` is the reason book-keeping: the action that leaves memory and store
apart enters the name, with the reason a comment of the property lists.
Namespaced variables other than globals (`commands::eval_count`, the context)
are not part of the snapshots and are left out.

### FileStore

One category: `files` (payload, empty, partly written or absent) and `index` on
disk; `cached`, the index a process keeps; `todo`, `kept`, `out` the loop of
`load`; `changes`, `writing` that of `save_many`. A write opens (and so empties)
the file, may leave it partly written, and closes it; only then is the name in
the cached index; the index is replaced in one step at the end. Loop orders are
free, as python's dict order is the caller's. Failures: an operation raises at
any step, a process is killed at any step, a file goes missing and turns up.
Processes never overlap two operations (`Alone`): README.md:61-64 puts that case
out of the store's promise. `accept` says what a load may find for each name;
`stale` remembers that a process saved without having reloaded after another's
save.

### SlackDelivery

`front[e][k]` is the k-th delivery of event e up to its ack, `back[e][k]` the eval
it hands over; `place` and `site` say in which process. The three deployments are
socket mode (threads of one process, record in memory), lambda (one invocation
per container at a time, claims in dynamo) and lambda without the table. An
in-memory claim takes two steps (`FindUnclaimed`, `Record`), because the
middleware of two deliveries may run in two threads; a claim in dynamo is one
conditional write, which may fail, or take effect without its response
arriving. `OtherTraffic` is what the rest of the workspace does to a record of
limited size: it evicts. `Answer` follows `HandOver`: bolt starts the listener, or the second
invocation, before the response leaves. `excused` and `orphaned` record the
cases in which a claim does not hold, or stands for nobody.

### ReplyFormat and SlackReply

`ReplyFormat` has the two functions that cut an output into messages. A text is a
sequence of lines of characters; what `format_reply` adds counts as one character
each, of its own (`CharacterAssumption`), so that `Unadded` can tell the output's
characters from the rest. `Piece` is one slice of a line, `Gathered` the loop that joins lines as long
as they fit (`Overflows`); what the loop has after each line is the recursive
function `Gatherings`. Substitutions within a line (mentions,
irc codes, fences) come before and are left out.

`SlackReply` is one channel with one user. `phase[m]` is where the handler of message
m is; `asking` the handlers inside a lookup, `names` the two caches; `lines` the
deque of `ChatLog`, `holding` the handlers that have found it and not yet appended
(`setdefault` and `append` are two steps, and `slurp` may pop the deque in
between); `queue`, `running` the engine as a thread sees it; `sending[m]` the post
that m's thread is in, or the worker for `core::bot_say`. A post that fails has
one of three fates: lost, taken, taken later (`late`). `Raises` is the retry
rule; `AfterRaise` what a post that failed for good does to the reply.
`pushedOut`, `raced`, `doubtful` record the excused cases. The engine's
queue is a set, as two threads may submit in another order than they slurped.

### SafeFetcher

One call of `fetch` at a time, as the worker is the only caller. `Call` is the
builtin with its count and the checks before the loop; then, hop by hop,
`Validate`, `Open` or `OpenFails`, and `Redirect`, `Read` or `ReadFails`. `Refused` are urls that
`validate` refuses by their text; what addresses a name has is chosen at each
`Validate`, since DNS may change its answer. Servers answer any status with any
`Location`. `validated`, `requests`, `answers` record one call. The connection
looks the name up again; that second answer is not modelled, a limit the module
docstring of `security.py` states itself.

### BotProcess, StateTools and Commands

`process[p]` is what runs under pid p: a bot in one of three stages, another
program, or nothing. `frames[p]` are the calls on the main thread that are in the
executor: python runs `on_hup` on top of whatever the main thread does, another
`on_hup` or `close` included, so it is a stack. `jobs[p]` counts what the worker has
to do, a frame's `ahead` what it waits for. The state is a version number: `disk`
grows when somebody edits it, and `memory` is the version of the last load; what
a load does is `Engine`'s. A signal is a flag per pid (`pending`): two that fall
together are one. `Dies` is SIGHUP without a handler. `stale` and `misled` record
that the pid the script has read belonged to a bot that is gone.

The wait for a result is interruptible, but `submit` holds a lock that its own
thread cannot take twice: a signal that comes within the submit of an earlier
reload blocks for ever (`Stuck`; only ending the process helps).
`EveryHupReloads` excuses it.

`StateTools` has the commands that look at a whole library. `audit_state` is a
function of the library, the order of the names and the flags: install, alias,
scan the bodies, call them one after the other in one interpreter (`Called` is one
call, `Calls` what they leave, as a recursive function). What the code of a payload does is given by constants: the words in
command position (`Refs`), how a call ends (`Runs`), what it changes (`Redefines`).
`verify` and `ExitCode` are what a caller sees: under `set -e` an audit that exits
with 1 ends `verify` before it prints its counts. `cmd_migrate` copies a set of
categories, so that an interrupted one is a smaller set.

`Commands` puts the two together and states what the commands on a library
promise; `Orders` and `Libraries` are the inputs that are quantified over.

## 3. Runs

Twelve runs. Those expected to find a violation show a disagreement between
the code and what the repository says of it.

| run | module | what it shows |
|---|---|---|
| `S3Writers` | `MCS3Store` | `CacheMatchesETag`, `GiveUpMeansContention`, `MergedNotClobbered`; `ImplementsLibrary`: refinement of `LibraryStore` |
| `S3OldClientFallback` | `MCS3Store` | violated: `FallbackIsTaken` |
| `EngineEvals` | `MCEngine` | `BuiltinQuota`, `OkMeansSaved`, `EverySubmittedEvalEnds` |
| `EngineOutside` | `MCEngine` | `DivergenceIsExplained`, `OnlyOwnChangesReachDisk` |
| `EngineReloadClaim` | `MCEngine` | violated: `DiskIsAuthoritative` |
| `FileStoreFailures` | `MCFileStore` | `SavesSurvive`, `DamageStaysVisible`, `LoadReturnsSaved` |
| `FileStoreReplEdit` | `MCFileStore` | violated: `OnlySimultaneousWritesClash` |
| `SlackDeliveries` | `MCSlackDelivery` | `AtMostOnce`, `DropIsExplained`, `EveryArrivalRuns` |
| `SlackUnackedRetry` | `MCSlackDelivery` | violated: `DroppedOnlyIfTakenOn` |
| `SlackReplies` | `MCSlackReply` | `ReplyWithoutHoles`, `RepeatedOnlyInDoubt`, `EveryLineOnce`, `SettledNamesStay`, `EveryEvalIsAnswered`; of the format, `ReplyKeepsText`, `ReplyFitsSlack` |
| `Fetches` | `MCSafeFetcher` | `EveryRequestValidated`, `RequestsFollowTheCall`, `ValueEndsTheChain`, `EveryCallEnds` |
| `Commands` | `MCCommands` | `PidFileNamesTheBot`, `HupKillsNoBot`, `EveryHupReloads`; of the tools, `AuditAgreesWithBoot`, `AuditIsFair`, `MigrationIsRepeatable` |

Each module's `TypeOK` is checked by its first run.

### Bounds, and why they are enough

* S3: two containers, two entries, one payload. One entry is defined, or deleted
  while the other is defined, so a clobber, a lost deletion and a resurrected
  entry are all visible. Three attempts leave a first, a middle and a last one.
  One orphan: a late request meets a cold, an idle and a saving container. Only
  in the model of an old client is there no orphan: with unconditional writes a
  late request is a clobber by design.
* Engine: two requests are enough for one eval to inherit what another left
  (counters, queue, closing). `EngineEvals` has one entry per category and a
  limit of one call, reached, and exceeded by one. `EngineOutside` has one
  request and two names, one of which may not be saved and is shadowed by an
  alias, and a payload that is too large and does not load, with a change limit
  of one that two edits exceed, one reload and an outside write. Evals of one
  request at a time are enough there: a request may also run after a crash.
* Files: two processes, two names, two payloads; one save names both entries.
* Slack deliveries: one event with three deliveries, so that one more is behind a
  drop; one kill is a death before a retry. Events meet only in the record of
  ids, where `OtherTraffic` stands for all the others and forces evictions.
* Slack replies: one eval between two lines of chat, one of which mentions the
  operator, over a log of one line, so that one line pushes the other out, or is
  slurped, or loses the race with the slurp. Replies of none, one and two messages,
  one say, two attempts, two failures: a post that fails for good, one that is
  doubled, one that is late. One eval only: evals share nothing but the log and
  the engine's queue, whose order is `Engine`'s; with two, checking the liveness
  property takes TLC hours. The inductive invariant of `SlackReplyProofs` was
  also checked with two evals, and its theorems are for any number.
* Formats: every text of up to eight characters and newlines, messages of two
  characters, at most two, at most five chunks: every limit is met, exceeded by
  one, and met exactly, alone and together.
* Fetches: two urls that may redirect to each other and a third that is refused,
  two redirects (a first, a middle and a last hop), two calls and one too many,
  bodies of up to one byte more than the limits.
* Commands: two pids, three processes, so that a pid is used again by a bot and by
  a stranger; three runs of the script, so that a signal interrupts a reload and
  another falls together with one; two edits. Libraries of three names, one of
  them an alias, over nine payloads, one for each thing the audit tells apart.
* `MaxEdits`, `MaxReloads`, `MaxDeliveries`, `MaxKills`, `MaxRequeues`, `MaxOrphans`,
  `MaxFailures`, `MaxStarts`, `MaxHups`, `MaxVersions` bound what the environment does
  and appear in guards; each is a named constant.
  `churn` saturates at `PutAttempts`, the largest value a property asks about;
  a script stops calling a builtin one call over the limit.

The properties of the two pure modules are about every input in a set, not about
a state; they are stated of the initial states (`AtFirst`), so that TLC evaluates
them once.

Symmetry is used for containers (with the refinement too, whose specification has
no fairness) and for processes of `FileStore`, never with a liveness property.
`CHECK_DEADLOCK FALSE` is for runs whose system may really stop: the Slack runs,
when all that Slack delivers is handled; `Fetches`, when the calls of an eval are
used up; `Commands`, when no more processes start.

### Fairness

* `Engine!FairSpec`: weak fairness of `Worker`. The executor's thread runs
  whatever is queued; the interpreter's time limit ends every script; the store's
  operations return or raise. Nothing is assumed of callers, of `Define` and
  `Call`, or of a crash. A script that never ends on its own is ended by
  `ScriptFails`, an action of the worker.
* `SlackDelivery!FairSpec`: weak fairness of the handler of each delivery. A
  process that is running goes on. Nothing is assumed of Slack: it need not
  deliver again. `EveryArrivalRuns` therefore speaks of a delivery that reached a
  process.

* `SlackReply!FairSpec`: weak fairness of each message's handler, of each post and of
  the engine's worker. Threads go on, the sdk's requests return or raise, and that the
  engine ends every eval is `EverySubmittedEvalEnds`. Nothing is assumed of a
  late post, of a lookup's result or of the code that is run.
* `SafeFetcher!FairSpec`: weak fairness of `Fetch`. Every socket operation has the
  policy's timeout, and bodies are read to a limit.
* `BotProcess!FairSpec`: weak fairness of each main thread and each worker: they go on
  unless they wait. Nothing is assumed of the script, of signals or of who stops.

### What the violated runs show

* `FallbackIsTaken`. The comment at `state_s3.py:125-126` has an older botocore fall
  back to an unconditional put. `_is_unsupported_parameter` looks for the text
  "IfMatch"; a put that creates the object sends IfNoneMatch, so its error is
  raised. The first save of a category never succeeds there.
* `DiskIsAuthoritative`. `Engine.reload`'s docstring (`engine.py:143-145`) says that
  nothing in memory is lost. An eval that fails keeps its effects in the
  interpreter and saves none. `DivergenceIsExplained` is the statement that holds.
* `OnlySimultaneousWritesClash`. README.md:61-64 leaves unprotected only writes at
  the same instant. The bot's saves rewrite the index from the cache of its last
  load, so between a repl's edit and the reload any save of the bot drops a name
  the repl added. `SavesSurvive` holds provided processes reload first.
* `DroppedOnlyIfTakenOn`. README.md:137-139 has a retry run whose first delivery
  was never acked. With the claim in dynamo, a container that dies after the
  claim, or whose second invocation is refused, leaves a claim that drops the
  retry. `DropIsExplained` and `EveryArrivalRuns` are what holds.

## 4. Proofs

Checked by TLAPS for every value of the constants that their named assumptions
admit; each component's theorems are in a module of their own.

`S3StoreProofs` (assumptions: at least one attempt, injective ETags that differ
from `NoETag`, edits that change something).

* `TypeCorrect`: `TypeOK`.
* `CacheCorrect`: `CacheMatchesETag`. The inductive invariant `CacheInv` adds that
  every request still on its way was built from content its ETag stands for; a
  late request would otherwise break the next step of the argument.
* `NoClobber`: with conditional writes, `MergedNotClobbered`. A request that is
  accepted finds the content its body was built on, because ETags are injective.
* `GiveUpIsJustified`: `GiveUpMeansContention`, from `ChurnInv`, which says at each
  point of a save how many attempts the changes of the object so far pay for.
  It needs the first attempt's stale cache as a case of its own.
* `Refinement`: with conditional writes, `ImplementsLibrary`. Every step of `S3Store` maps
  to a step of `LibraryStore` or a stutter; `SaveInv` relates the phase of a save
  to its reply.

`EngineProofs` (assumptions: the limits are numbers, jobs are distinct).

* `TypeCorrect`: `TypeOK`.
* `DivergenceCorrect`: `DivergenceIsExplained`. The invariant `Explained` extends it
  to the middle of a job: while a script runs or its changes are saved, an entry
  that differs is in `unsaved` or was changed since the snapshot, in a category
  still to be compared; while loading, in a category still to be loaded.
* `OwnChangesOnly`: `OnlyOwnChangesReachDisk`, from `TouchedExplains`: memory
  differs from the snapshot only in names the running eval touched.
* `QuotaCorrect`: `BuiltinQuota`, from the equality of `calls` and `asked` while a
  script runs (`CountersAreFresh`).
* `OkIsSaved`: without outside writes, `OkMeansSaved`. The procs were saved one
  step earlier; `ProcsAreSaved` carries that over the saving of the vars. With an
  outside writer the property does not hold as stated: another process may write
  between the two saves.

`SafeFetcherProofs` (assumptions: the refused urls are urls, a value may have a byte
at least, the other limits are numbers).

* `FetchCorrect`: the inductive invariant `FetchInv`. The three properties speak of
  requests made and of the value returned; in the middle of a call they rest on
  what the loop carries: `Progress` (nothing is known of later hops, and a url that
  is about to be opened is the one validated in this hop), `Chain` (each hop so far
  was a redirect to the next) and `Carried` (method and body are the call's, or GET
  without a body once a 303 was followed).
* From it `TypeCorrect` (`TypeOK`), `RequestsAreValidated` (`EveryRequestValidated`),
  `RequestsAreTheCalls` (`RequestsFollowTheCall`) and `ValuesEndChains`
  (`ValueEndsTheChain`).

`CommandsProofs` (assumptions: the names for "nobody" and "no file" are no pids,
the bounds are numbers, what a payload does is given for every payload, an audit
comes to every name).

* `TypeCorrect`: `TypeOK` of `BotProcess`, with stacks of calls of any depth.
* `BotsCorrect`: of the process, the inductive invariant `BotInv`. `OneBot`: a process that is a bot
  holds the lock from its start to its end, so there is one, and the pid file is
  its own once it serves. `PidsLeadToHandlers`: a pid in the file, in the script's hands or in
  a pending signal is that of a bot with a handler, or is marked as stale; the end
  of a process does the marking.
* From it `PidFileIsRight` (`PidFileNamesTheBot`) and `HupIsHarmless` (`HupKillsNoBot`).
* `MigrationsMerge` (`MigrationIsRepeatable`) and `AuditsAgreeWithBoots`
  (`AuditAgreesWithBoot`), for any libraries.
* `AuditsAreFair` (`AuditIsFair`): any library, called in any order. `CalledAlone` is
  its induction over the calls: as long as none changes the procs, each that was
  called ended as it would have alone, and the others did not run.

`FileStoreProofs` (assumptions: a save changes something, the markers for an absent,
an empty and a partly written file differ from payloads).

* `TypeCorrect` (`TypeOK`) is proved with `Shape`: one operation at a time, a save works
  on its own change set, a load on names of the index.
* `Truth` holds whoever saves: a file holds what a load may find (`FileAccepted`), also
  behind the position of a save in progress (`SaveProgress`) and of a load that has
  taken markers out (`LoadProgress`); a file that went missing is gone and may come back
  (`LostIsGone`).
* `InStep` holds until a process saves from an index that another's save has
  outdated: what is in no index, or not in the cached index of a process that may
  save, may be found missing (`DroppedAccepted`), and payloads are in every index
  that may be written next (`PayloadIndexed`). It is the part the code relies on
  and does not enforce; without it an index is written that drops names.
* From `Shape`, `Truth` and, unless stale, `InStep`: `EntriesSurvive` (`SavesSurvive`),
  `DamageIsKept` (`DamageStaysVisible`), `LoadsAreTrue` (`LoadReturnsSaved`).
* `LoneProcessNeverClashes`: with one process, `OnlySimultaneousWritesClash`, which
  `FileStoreReplEdit` refutes for two.

`SlackDeliveryProofs` (assumptions: the record holds an id at least, bounds are numbers,
the deployments are the three, the names for other traffic and for no process are
not those of an event or a process).

* `TypeCorrect`: `TypeOK`; that the record keeps its capacity is about sequences
  that are appended to, cut in front and reordered, whose lemmas come first.
* `RunsAtMostOnce`: `AtMostOnce`, from `Once`: of an event that is not excused one
  delivery has passed the claim (`OnePasses`), what ran was passed (`RunsPassed`), and the
  claim of who passed still stands (`ClaimStands`), which is what stops the next one.
* `DropsAreExplained`: `DropIsExplained`, from `Explained`: an id in memory or in the table
  is that of an event that ran, is orphaned, or has a delivery that goes on, in
  memory one in the same process: a kill takes both.
* `SocketDropsAreTakenOn`: in socket mode, `DroppedOnlyIfTakenOn`, which
  `SlackUnackedRetry` refutes on lambda.

`SlackReplyProofs` (assumptions: code, chat that mentions and ignored messages are
disjoint, bounds are numbers, "nobody" is no message, the characters of outputs
are none of those `format_reply` adds: a line has no newline, and the words it adds
count as characters of their own).

* `PostsRepeatOnlyInDoubt` (`RepeatedOnlyInDoubt`), from `CopiesCounted`: what counts is a
  post's copies in the channel and on the way together (`Copies`). While a post is
  being sent it has fewer copies than the attempt's number, and none if no
  earlier attempt is in doubt.
* `RepliesHaveNoHoles` (`ReplyWithoutHoles`), from `InOrder`: a message that is, or will be, in
  the channel has those before it there. It needs `EvalOrder`, by which an eval
  is queued, run, answered and replied to in this order, so that the worker's posts and
  those of the thread never meet.
* `LinesAreOnce` (`EveryLineOnce`), from `LinesPlaced`: a line of chat that was appended is in
  one of the log, a backlog, `pushedOut`, `raced`, in one backlog at most and once.
* `NamesSettle`: `SettledNamesStay`.
* `RepliesFitSlack` (`ReplyFitsSlack`), for any text: the chunks are no longer than a
  message (`ChunksAre`), and the loop that joins them keeps the message it fills
  so, and never finishes an empty one (`GatheredFrom`).
* `RepliesKeepText` (`ReplyKeepsText`), for any text, in two parts.
  The text: `Unadded` of two sequences is that of one and then of the other, so that the
  output's characters pass unchanged through what comes before and after them
  (`BodyText`), the slices (`PiecesText`, `SlicesText`) and the loop, whose invariant is that
  the messages done and the one being filled hold the text of the lines so far
  (`GatherText`, `GatheredText`); both cuts leave a beginning (`CutText`).
  The number of messages: the loop begins a message only when the next line does not
  fit, so that every second one is paid for by more than `MaxChars` characters of text,
  the newlines between the lines counted. `Paid` says by how many d messages and the one
  being filled are paid for, `PaidStep` that each line pays its share. The lines the loop
  sees are slices, with no newline in the text between two of the same line; there the
  first is full and the next one does not fit anyhow (`PaidFor`). `Weight` counts what the
  slices pay, which is no more than the text has (`WeightOfText`).
* `TypeCorrect`: `TypeOK`; that a reply keeps its limit is a case of `RepliesFitSlack`.
* `SlicesKeepTheLine`: of `chunk_output`, for lines of any length: no slice is empty or too
  long, and every character is in its place of one slice.

`RecursionProofs` is for proofs about recursive functions: the loops over lines, over
the slices of a text and over an audit's procs, and the position of the first of a
kind in a sequence. `InductionOnNat` and `InductionOnSeq` are induction with the property
given as a set, `RecursionExists` says that a recursion whose step is given as a
function has a solution; the theorems of the library take them as operators, which
the provers cannot instantiate. From these, what `FlattenSeq` returns: of one part more
(`FlattenAppend`), of two sequences of parts (`FlattenConcat`), and of parts that are what
a function makes of each element (`Expanded`), the form of `Slices` and `Unadded`.

Only model-checked: the liveness properties (`EverySubmittedEvalEnds`,
`EveryArrivalRuns`, `EveryEvalIsAnswered`, `EveryCallEnds`, `EveryHupReloads`), as liveness
under fairness is outside the prover's reach. Every other property of the passing runs
is the statement of a theorem.

## 5. Plan

Done: all components of section 2, each with the proofs of its safety properties.
Next, most important first:

1. `Containers`: several engines over one `S3Store`. So far a container meets the
   others through a promise: `S3Store` implements `LibraryStore`, and `Engine` assumes
   of its store what `LibraryStore` says, the others' saves being `OutsideEdit`. A
   composition would also show that containers which have diverged
   (README.md:232-237) agree again once they are recycled.
2. `FileStore` implements `LibraryStore` when no operation is interrupted.
3. `cache.tcl`: buckets, expiry and `fetch` as an abstract map.

## 6. Not modelled, and why

Tcl itself, the text formats of payloads and of the index, parsing of messages and
the substitutions within a line of a reply, the repl's line editing, argument
parsing, deploy scripts and configuration (their effects are actions), vendored
Tcl libraries. `cache.tcl` is planned; `meta.tcl` and `httpx.tcl` are thin wrappers.
The perl bot is superseded by the python one; its state directories are what
`FileStore` starts from.
Time appears only as "may happen now": timeouts, backoff between posts
(`retry_after_seconds`), the 15-minute expiry of a claim in dynamo (longer than
Slack retries, `platforms/slack.py:219-221`) and the Lambda limit have no clock.
Overlapping operations on one state directory are outside `FileStore`; they include
an audit or a migration beside a running bot, whose load may write the index.
Memory ordering inside python's interpreter is sequential.
`FetchPolicy.allow_private` is for tests and not modelled.
