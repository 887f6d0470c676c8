------------------------------- MODULE SlackReply -------------------------------
(***************************************************************************)
(* smeggdrop/platforms/slack.py and platforms/__init__.py: what a process  *)
(* does with the messages of a channel once they passed drop_duplicates.   *)
(* Each message is handled by a thread of its own (handle_message_event):  *)
(* chat goes to the channel's log, code takes the log along into an eval,  *)
(* whose output is posted message by message.  The engine runs one eval at *)
(* a time, in the order they come; its worker posts what the code says     *)
(* while it runs.                                                          *)
(*                                                                         *)
(* One channel and one user: logs and cached names of different ones are   *)
(* separate.  A post may fail after Slack took it, or be taken after its   *)
(* sender gave up on it.                                                   *)
(***************************************************************************)
EXTENDS ReplyFormat, FiniteSets

CONSTANTS
    Message,        \* message events
    Code,           \* those whose text starts with the trigger
    Mentioning,     \* chat that names the operator
    Ignored,        \* bots' messages, other subtypes, channels and users
    Results,        \* [ok, output, warnings]: what evals may return
    MaxLines,       \* ChatLog's max_lines
    PostAttempts,   \* POST_ATTEMPTS
    MaxSays,        \* say_max_calls
    MaxFailures     \* bound on the posts that fail

ASSUME MessagesAssumption ==
    /\ Code \subseteq Message /\ Ignored \subseteq Message \ Code
    /\ Mentioning \subseteq Message \ (Code \cup Ignored)
    /\ Results \subseteq [ok : BOOLEAN, output : Outputs, warnings : Warnings]
ASSUME BoundsAssumption ==
    /\ MaxLines \in Nat \ {0} /\ PostAttempts \in Nat \ {0}
    /\ MaxSays \in Nat /\ MaxFailures \in Nat
ASSUME NobodyAssumption == "nobody" \notin Code

Cache == {"nick", "channel"}

VARIABLES
    phase,      \* where handle_message_event is
    asking,     \* the messages waiting for users_info or conversations_info
    names,      \* NickCache._names[user], ChannelCache._names[channel]
    lines,      \* ChatLog._logs[channel]
    holding,    \* the messages about to append to that very deque
    backlog,    \* EvalRequest.loglines
    queue,      \* the evals submitted to the engine that it has not begun
    running,    \* the eval its worker runs, or "nobody"
    says,       \* core::bot_say calls of each eval
    result,     \* how each eval ended
    reply,      \* the number of messages format_reply makes of its output
    sending,    \* the post each message's thread, or eval, is in
    late,       \* posts whose senders gave up, that Slack may still take
    failures,
    posted,     \* history: how many times each post is in the channel
    doubtful,   \* history: posts that failed although Slack takes them
    pushedOut,  \* history: lines the log's limit dropped
    raced       \* history: lines appended to a log already taken

logVars == <<lines, holding, backlog, pushedOut, raced>>
nameVars == <<asking, names>>
evalVars == <<queue, running, says, result, reply>>
postVars == <<sending, late, failures, posted, doubtful>>
vars == <<phase, logVars, nameVars, evalVars, postVars>>

Post == ({"say"} \X (1..MaxSays)) \cup ({"reply"} \X (1..MaxMessages))

NoPost == [post |-> <<"none", 0>>, attempt |-> 0]
First(post) == [post |-> post, attempt |-> 1]

Final == {"ignored", "logged", "answered", "silent", "unposted", "failed", "timed out"}

TypeOK ==
    /\ phase \in [Message -> Final \cup Cache \cup
                    {"log", "append", "slurp", "waiting", "replying"}]
    /\ asking \in SUBSET Message
    /\ names \in [Cache -> {"unknown", "name", "id"}]
    /\ lines \in Seq(Message) /\ Len(lines) <= MaxLines
    /\ holding \in SUBSET Message
    /\ backlog \in [Code -> Seq(Message)]
    /\ queue \in SUBSET Code
    /\ running \in Code \cup {"nobody"}
    /\ says \in [Code -> 0..MaxSays]
    /\ result \in [Code -> {"none", "raised", "returned"}]
    /\ reply \in [Code -> 0..MaxMessages]
    /\ sending \in [Code -> {NoPost} \cup [post : Post, attempt : 1..PostAttempts]]
    /\ late \in SUBSET (Code \X Post)
    /\ failures \in 0..MaxFailures
    /\ posted \in [Code -> [Post -> Nat]]
    /\ doubtful \in SUBSET (Code \X Post)
    /\ pushedOut \in SUBSET Message /\ raced \in SUBSET Message

Init ==
    /\ phase = [m \in Message |-> "nick"]
    /\ asking = {} /\ names = [k \in Cache |-> "unknown"]
    /\ lines = <<>> /\ holding = {}
    /\ backlog = [m \in Code |-> <<>>]
    /\ queue = {} /\ running = "nobody"
    /\ says = [m \in Code |-> 0]
    /\ result = [m \in Code |-> "none"] /\ reply = [m \in Code |-> 0]
    /\ sending = [m \in Code |-> NoPost]
    /\ late = {} /\ failures = 0
    /\ posted = [m \in Code |-> [p \in Post |-> 0]]
    /\ doubtful = {} /\ pushedOut = {} /\ raced = {}

Go(m, next) == phase' = [phase EXCEPT ![m] = next]

-----------------------------------------------------------------------------
(* Who says what where: the filters and the name caches. *)

Ignore(m) ==
    /\ phase[m] = "nick" /\ m \in Ignored
    /\ Go(m, "ignored")
    /\ UNCHANGED <<logVars, nameVars, evalVars, postVars>>

AfterName(m) ==
    CASE phase[m] = "nick" /\ m \notin Code -> "log"
      [] phase[m] = "nick" /\ m \in Code -> "channel"
      [] phase[m] = "channel" /\ m \in Code -> "slurp"
      [] OTHER -> "logged"

\* Mutant of Cached: what is only an id is looked up again.
CachedName(k) == names[k] = "name"

Cached(k) == names[k] # "unknown"

Wanting(m) == phase[m] \in Cache /\ m \notin Ignored \cup asking

UseCached(m) ==
    /\ Wanting(m) /\ Cached(phase[m])
    /\ Go(m, AfterName(m))
    /\ UNCHANGED <<logVars, nameVars, evalVars, postVars>>

Ask(m) ==
    /\ Wanting(m) /\ ~Cached(phase[m])
    /\ asking' = asking \cup {m}
    /\ UNCHANGED <<phase, names, logVars, evalVars, postVars>>

\* The api answers, or fails, or knows no name: the id is cached as the name.
Told(m, name) ==
    /\ m \in asking
    /\ asking' = asking \ {m}
    /\ names' = [names EXCEPT ![phase[m]] = name]
    /\ Go(m, AfterName(m))
    /\ UNCHANGED <<logVars, evalVars, postVars>>

-----------------------------------------------------------------------------
(* ChatLog. *)

\* append: setdefault finds the channel's deque, or makes it...
FindLog(m) ==
    /\ phase[m] = "log"
    /\ Go(m, "append")
    /\ holding' = holding \cup {m}
    /\ UNCHANGED <<lines, backlog, pushedOut, raced, nameVars, evalVars, postVars>>

\* Mutant of Kept: the deque has no limit.
KeptAll(log) == log

\* deque(maxlen): the oldest line goes.
Kept(log) == IF Len(log) > MaxLines THEN Tail(log) ELSE log

\* ...and the line is appended to it, even if slurp has taken it meanwhile.
\* Only the operator's name makes the handler look the channel up as well.
AppendLine(m) ==
    LET log == Append(lines, m)
    IN  /\ phase[m] = "append"
        /\ Go(m, IF m \in Mentioning THEN "channel" ELSE "logged")
        /\ holding' = holding \ {m}
        /\ IF m \in holding
           THEN /\ lines' = Kept(log)
                /\ pushedOut' = IF Len(log) > MaxLines THEN pushedOut \cup {Head(log)}
                                ELSE pushedOut
                /\ UNCHANGED raced
           ELSE raced' = raced \cup {m} /\ UNCHANGED <<lines, pushedOut>>
        /\ UNCHANGED <<backlog, nameVars, evalVars, postVars>>

\* Mutant of TakeLog: the lines are read and left where they are.
TakeLogCopying == UNCHANGED <<lines, holding>>

\* slurp: the deque is popped.
TakeLog == lines' = <<>> /\ holding' = {}

\* handle_message_event submits the eval, with the lines slurp returns.  The
\* engine's queue is a set: another thread may slurp later and submit first.
Slurp(m) ==
    /\ phase[m] = "slurp"
    /\ Go(m, "waiting")
    /\ TakeLog
    /\ backlog' = [backlog EXCEPT ![m] = lines]
    /\ queue' = queue \cup {m}
    /\ UNCHANGED <<pushedOut, raced, nameVars, running, says, result, reply, postVars>>

-----------------------------------------------------------------------------
(* The engine's worker, and the thread that waits for it. *)

StartEval ==
    /\ running = "nobody"
    /\ \E m \in queue : running' = m /\ queue' = queue \ {m}
    /\ UNCHANGED <<phase, logVars, nameVars, says, result, reply, postVars>>

\* The code says something: the worker posts it.
Say(m) ==
    /\ running = m /\ sending[m] = NoPost /\ says[m] < MaxSays
    /\ says' = [says EXCEPT ![m] = @ + 1]
    /\ sending' = [sending EXCEPT ![m] = First(<<"say", says[m] + 1>>)]
    /\ UNCHANGED <<phase, logVars, nameVars, queue, running, result, reply, late,
                   failures, posted, doubtful>>

EndEval(m, how, messages) ==
    /\ running = m /\ sending[m] = NoPost
    /\ running' = "nobody"
    /\ result' = [result EXCEPT ![m] = how]
    /\ reply' = [reply EXCEPT ![m] = messages]
    /\ UNCHANGED <<phase, logVars, nameVars, queue, says, postVars>>

\* Its output is formatted; what counts here is how many messages it makes.
EvalReturns(m) ==
    \E r \in Results :
        EndEval(m, "returned", Len(format_reply(r.ok, r.output, r.warnings)))

EvalRaises(m) == EndEval(m, "raised", 0)

Receive(m) ==
    /\ phase[m] = "waiting" /\ result[m] # "none"
    /\ IF reply[m] = 0
       THEN /\ Go(m, IF result[m] = "raised" THEN "failed" ELSE "silent")
            /\ UNCHANGED sending
       ELSE /\ Go(m, "replying")
            /\ sending' = [sending EXCEPT ![m] = First(<<"reply", 1>>)]
    /\ UNCHANGED <<logVars, nameVars, evalVars, late, failures, posted, doubtful>>

\* future.result times out: evaluate logs the exception, nothing is posted.
GiveUp(m) ==
    /\ phase[m] = "waiting" /\ result[m] = "none"
    /\ Go(m, "timed out")
    /\ UNCHANGED <<logVars, nameVars, evalVars, postVars>>

-----------------------------------------------------------------------------
(* post. *)

Posting(m) == sending[m] # NoPost

Landed(m, post) == posted' = [posted EXCEPT ![m][post] = @ + 1]

\* Mutant of LastMessage: the reply loop returns after its first post.
LastMessageIsFirst(m) == TRUE

LastMessage(m) == sending[m].post[2] = reply[m]

\* chat_postMessage returns: post returns, and the reply loop goes on.
PostReturns(m) ==
    LET post == sending[m].post
    IN  /\ Posting(m)
        /\ Landed(m, post)
        /\ IF post[1] = "reply" /\ ~LastMessage(m)
           THEN sending' = [sending EXCEPT ![m] = First(<<"reply", post[2] + 1>>)]
           ELSE sending' = [sending EXCEPT ![m] = NoPost]
        /\ IF post[1] = "reply" /\ LastMessage(m) THEN Go(m, "answered") ELSE UNCHANGED phase
        /\ UNCHANGED <<logVars, nameVars, evalVars, late, failures, doubtful>>

\* Mutant of Raises: the attempts are counted from zero.
RaisesLate(m, transient) == sending[m].attempt = PostAttempts + 1 \/ ~transient

\* Mutant of AfterRaise: the failure is logged and the loop goes on.
AfterRaiseGoOn(m) ==
    LET post == sending[m].post
    IN  IF post[1] = "reply" /\ ~LastMessage(m)
        THEN /\ sending' = [sending EXCEPT ![m] = First(<<"reply", post[2] + 1>>)]
             /\ UNCHANGED phase
        ELSE /\ sending' = [sending EXCEPT ![m] = NoPost]
             /\ IF post[1] = "reply" THEN Go(m, "answered") ELSE UNCHANGED phase

\* A reply that cannot be posted ends the handler; a say ends in a Tcl
\* error, which the code may catch.
AfterRaise(m) ==
    /\ sending' = [sending EXCEPT ![m] = NoPost]
    /\ IF sending[m].post[1] = "reply" THEN Go(m, "unposted") ELSE UNCHANGED phase

Raises(m, transient) == sending[m].attempt = PostAttempts \/ ~transient

\* Whether Slack took a post that failed: not at all, before the sender
\* learns of the failure, or some time later.
Fate(m, fate) ==
    LET post == sending[m].post
    IN  /\ IF fate = "taken" THEN Landed(m, post) ELSE UNCHANGED posted
        /\ late' = IF fate = "later" THEN late \cup {<<m, post>>} ELSE late
        /\ doubtful' = IF fate = "lost" THEN doubtful ELSE doubtful \cup {<<m, post>>}

\* chat_postMessage raises: a transient failure is tried again.
PostFails(m, transient, fate) ==
    /\ Posting(m) /\ failures < MaxFailures
    /\ fate = "later" => late = {}
    /\ failures' = failures + 1
    /\ Fate(m, fate)
    /\ IF Raises(m, transient) THEN AfterRaise(m)
       ELSE /\ sending' = [sending EXCEPT ![m].attempt = @ + 1]
            /\ UNCHANGED phase
    /\ UNCHANGED <<logVars, nameVars, evalVars>>

TakenLate(m, post) ==
    /\ <<m, post>> \in late
    /\ late' = late \ {<<m, post>>}
    /\ Landed(m, post)
    /\ UNCHANGED <<phase, logVars, nameVars, evalVars, sending, failures, doubtful>>

-----------------------------------------------------------------------------
Handle(m) ==
    \/ Ignore(m) \/ UseCached(m) \/ Ask(m)
    \/ \E name \in {"name", "id"} : Told(m, name)
    \/ FindLog(m) \/ AppendLine(m)
    \/ m \in Code /\ (Slurp(m) \/ Receive(m))

Sends(m) ==
    \/ PostReturns(m)
    \/ \E transient \in BOOLEAN, fate \in {"lost", "taken", "later"} :
          PostFails(m, transient, fate)

Worker ==
    \/ StartEval
    \/ \E m \in Code : EvalReturns(m) \/ EvalRaises(m)

Next ==
    \/ \E m \in Message : Handle(m)
    \/ Worker
    \/ \E m \in Code : Say(m) \/ GiveUp(m) \/ Sends(m)
    \/ \E m \in Code, post \in Post : TakenLate(m, post)

Spec == Init /\ [][Next]_vars

\* Threads go on with what they do; requests to Slack return or raise; the
\* engine ends every eval (Engine's EverySubmittedEvalEnds).
FairSpec ==
    /\ Spec /\ WF_vars(Worker)
    /\ \A m \in Message : WF_vars(Handle(m))
    /\ \A m \in Code : WF_vars(Sends(m))

-----------------------------------------------------------------------------
(* Correctness. *)

\* What is in the channel of a reply is its beginning, without a hole: a
\* message is posted only after the one before it, however late Slack takes
\* it, and a handler that ends normally has posted all.
ReplyWithoutHoles ==
    \A m \in Code : \A i \in 1..MaxMessages :
        /\ posted[m][<<"reply", i>>] > 0 => \A j \in 1..i : posted[m][<<"reply", j>>] > 0
        /\ phase[m] = "answered" /\ i <= reply[m] => posted[m][<<"reply", i>>] > 0

\* A message is in the channel twice only if a post of it failed although
\* Slack had it, and no more than POST_ATTEMPTS times.
RepeatedOnlyInDoubt ==
    \A m \in Code : \A p \in Post :
        /\ posted[m][p] > 1 => <<m, p>> \in doubtful
        /\ posted[m][p] <= PostAttempts

Places(m) ==
    Cardinality({i \in DOMAIN lines : lines[i] = m})
    + Cardinality({c \in Code : \E i \in DOMAIN backlog[c] : backlog[c][i] = m})
    + Cardinality({s \in {pushedOut, raced} : m \in s})

\* A line of chat whose handler has appended it is waiting in the log, was
\* given to exactly one eval, or is lost for one of two reasons: MaxLines
\* newer ones, or an eval that took the log between the append's two steps.
EveryLineOnce ==
    \A m \in Message \ (Code \cup Ignored) :
        Places(m) = IF phase[m] \in {"logged", "channel"} THEN 1 ELSE 0

\* A name that is cached when no thread is asking for it stays as it is, the
\* id that a failed lookup left included; only lookups that overlap with the
\* first one still write it.
SettledNamesStay ==
    [][\A k \in Cache :
          names[k] # "unknown" /\ (\A m \in asking : phase[m] # k) =>
             names'[k] = names[k] /\ \A m \in asking' : phase[m] # k]_vars

\* What a reply looks like says nothing of the state: it is stated of the
\* states in which no message was handled yet.
AtFirst == \A m \in Message : phase[m] = "nick"

\* No character of an output is lost or out of order in its reply but for
\* the cuts at the limits (format_reply, chunk_output).
ReplyKeepsText ==
    AtFirst => \A ok \in BOOLEAN, output \in Outputs, warnings \in Warnings :
                  KeepsText(ok, output, warnings)

\* Every message of a reply can be posted, and there is one unless the
\* output is newlines only (format_reply).
ReplyFitsSlack ==
    AtFirst => \A ok \in BOOLEAN, output \in Outputs, warnings \in Warnings :
                  FitsSlack(ok, output, warnings)

\* A message with code ends with its whole reply in the channel, unless the
\* output was nothing but newlines, the eval raised or took too long, or a
\* post of it failed for good.
EveryEvalIsAnswered ==
    \A m \in Code :
        <>(\/ phase[m] \in {"silent", "failed", "timed out", "unposted"}
           \/ reply[m] > 0 /\ \A i \in 1..reply[m] : posted[m][<<"reply", i>>] > 0)

=============================================================================
