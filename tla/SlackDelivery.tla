----------------------------- MODULE SlackDelivery -----------------------------
(***************************************************************************)
(* smeggdrop/platforms/slack.py: from Slack's delivery of an event to the  *)
(* eval it runs, once.  Slack delivers an event again while it has seen no *)
(* ack; drop_duplicates claims the event's id before anything else, in an  *)
(* EventDeduper (a bounded record in the process's memory) or in a         *)
(* DynamoDeduper (a table all processes share).                            *)
(*                                                                         *)
(* Off lambda ("socket") a process handles deliveries in many threads, and *)
(* acks before, or while, the listener runs in another thread.  On lambda  *)
(* a container handles one invocation at a time: the first acks and asks   *)
(* the platform to invoke the function again, which runs the eval in       *)
(* whatever container (is_lazy_invocation exempts it from the claim).      *)
(*                                                                         *)
(* A process may be killed at any step; it is then started again, with     *)
(* nothing in its memory.  A delivery may meet no process at all.          *)
(***************************************************************************)
EXTENDS Integers, Sequences, SequencesExt, FiniteSets

CONSTANTS
    Event,          \* slack event ids
    Process,        \* the bot's processes, or lambda containers
    Capacity,       \* EventDeduper's capacity
    MaxDeliveries,  \* deliveries Slack makes of an event, the first included
    MaxKills,       \* bound on the processes killed
    MaxRequeues,    \* bound on lambda's own retries of a killed invocation
    ClientResends,  \* the dynamo client repeats a put that was not answered
    Deployments     \* those of Deployment that this model covers

\* The wiring, and whether SMEGGDROP_DEDUPE_TABLE is set.
Deployment == {"socket", "lambda", "lambda without table"}

ASSUME CapacityAssumption == Capacity \in Nat \ {0}
ASSUME MaxDeliveriesAssumption == MaxDeliveries \in Nat
ASSUME BoundsAssumption == MaxKills \in Nat /\ MaxRequeues \in Nat
ASSUME ClientResendsAssumption == ClientResends \in BOOLEAN
ASSUME DeploymentsAssumption == Deployments \subseteq Deployment

VARIABLES
    deployment,
    delivered,  \* delivered[e]: deliveries of e so far
    acked,      \* the events Slack has seen an ack for
    front,      \* front[e][k]: the k-th delivery of e, up to its ack
    place,      \* place[e][k]: the process that handles it
    back,       \* back[e][k]: the eval it hands over
    site,       \* site[e][k]: the process that runs it
    seen,       \* EventDeduper._seen, oldest first; Other for ids not in Event
    table,      \* the ids claimed in dynamo
    kills, requeues,
    runs,       \* history: evals started for e
    excused,    \* history: events whose claim did not hold (see AtMostOnce)
    orphaned    \* history: events whose claim stands, made by nobody who goes on

wires == <<delivered, acked>>
handlers == <<front, place, back, site>>
claims == <<seen, table>>
history == <<runs, excused, orphaned>>
vars == <<deployment, wires, handlers, claims, kills, requeues, history>>

Delivery == 1..MaxDeliveries

\* Any event of other traffic: its deliveries are not followed.
Other == "other"

ASSUME NamesAssumption == Other \notin Event /\ "none" \notin Process

FrontPhase == {"none", "arrived", "checked", "taken", "handed", "answered", "dropped", "dead"}
BackPhase == {"none", "queued", "running", "done", "dead"}

TypeOK ==
    /\ deployment \in Deployments
    /\ delivered \in [Event -> 0..MaxDeliveries]
    /\ acked \in SUBSET Event
    /\ front \in [Event -> [Delivery -> FrontPhase]]
    /\ place \in [Event -> [Delivery -> Process \cup {"none"}]]
    /\ back \in [Event -> [Delivery -> BackPhase]]
    /\ site \in [Event -> [Delivery -> Process \cup {"none"}]]
    /\ seen \in [Process -> Seq(Event \cup {Other})]
    /\ \A p \in Process : Len(seen[p]) <= Capacity
    /\ table \in SUBSET Event
    /\ kills \in 0..MaxKills
    /\ requeues \in 0..MaxRequeues
    /\ runs \in [Event -> Nat]
    /\ excused \in SUBSET Event
    /\ orphaned \in SUBSET Event

Blank(x) == [e \in Event |-> [k \in Delivery |-> x]]

Init ==
    /\ deployment \in Deployments
    /\ delivered = [e \in Event |-> 0]
    /\ acked = {}
    /\ front = Blank("none") /\ place = Blank("none")
    /\ back = Blank("none") /\ site = Blank("none")
    /\ seen = [p \in Process |-> <<>>]
    /\ table = {}
    /\ kills = 0 /\ requeues = 0
    /\ runs = [e \in Event |-> 0]
    /\ excused = {} /\ orphaned = {}

-----------------------------------------------------------------------------
(* Slack and the platform. *)

Handling(e, k) == front[e][k] \in {"arrived", "checked", "taken", "handed"}

\* A lambda container is free for another invocation.
Free(p) ==
    deployment # "socket" =>
        \A e \in Event, k \in Delivery :
            /\ Handling(e, k) => place[e][k] # p
            /\ back[e][k] = "running" => site[e][k] # p

\* Slack delivers an event it has seen no ack for.
Deliver(e, p) ==
    /\ e \notin acked /\ delivered[e] < MaxDeliveries /\ Free(p)
    /\ delivered' = [delivered EXCEPT ![e] = @ + 1]
    /\ front' = [front EXCEPT ![e][delivered'[e]] = "arrived"]
    /\ place' = [place EXCEPT ![e][delivered'[e]] = p]
    /\ UNCHANGED <<deployment, acked, back, site, claims, kills, requeues, history>>

\* Nobody is there (the bot is restarting).
Miss(e) ==
    /\ e \notin acked /\ delivered[e] < MaxDeliveries
    /\ delivered' = [delivered EXCEPT ![e] = @ + 1]
    /\ UNCHANGED <<deployment, acked, handlers, claims, kills, requeues, history>>

-----------------------------------------------------------------------------
(* drop_duplicates: the claim. *)

InMemory == deployment # "lambda"

At(e, k, step) == front[e][k] = step

Advance(e, k, step) == front' = [front EXCEPT ![e][k] = step]

\* A dropped delivery may count as acked or not: bolt decides.
Drop(e, k) ==
    /\ Advance(e, k, "dropped")
    /\ acked' \in {acked, acked \cup {e}}

Remembers(p, e) == \E i \in DOMAIN seen[p] : seen[p][i] = e

\* move_to_end of an id the record holds.
MovedToEnd(record, e) == Append(RemoveFirst(record, e), e)

\* Mutant of Evicted: the record is never cut.
EvictedNever(record) == record

\* The oldest ids are evicted when the record is full.
Evicted(record) ==
    SubSeq(record, IF Len(record) > Capacity THEN Len(record) - Capacity + 1 ELSE 1,
           Len(record))

\* The events process p no longer remembers once its record is cut.
Forgotten(p, record) ==
    {x \in Event : Remembers(p, x) /\ \A i \in DOMAIN record : record[i] # x}

\* Mutant of Claimed: every retry counts as claimed.
ClaimedIfRetry(e, k) == k > 1

Claimed(e, k) == Remembers(place[e][k], e)

\* EventDeduper.claim finds the id: move_to_end, and drop.
FindClaimed(e, k) ==
    /\ At(e, k, "arrived") /\ InMemory /\ Claimed(e, k)
    /\ seen' = [seen EXCEPT ![place[e][k]] = MovedToEnd(@, e)]
    /\ Drop(e, k)
    /\ UNCHANGED <<deployment, delivered, place, back, site, table, kills, requeues,
                   history>>

\* It does not find the id...
FindUnclaimed(e, k) ==
    /\ At(e, k, "arrived") /\ InMemory /\ ~Claimed(e, k)
    /\ Advance(e, k, "checked")
    /\ UNCHANGED <<deployment, wires, place, back, site, claims, kills, requeues,
                   history>>

\* ...and records it; another thread may have done so in between.
Record(e, k) ==
    LET p == place[e][k]
        record == Evicted(IF Remembers(p, e) THEN seen[p] ELSE Append(seen[p], e))
    IN  /\ At(e, k, "checked")
        /\ Advance(e, k, "taken")
        /\ seen' = [seen EXCEPT ![p] = record]
        /\ excused' = excused \cup Forgotten(p, record)
                        \cup (IF Remembers(p, e) THEN {e} ELSE {})
                        \cup (IF \E q \in Process \ {p} : Remembers(q, e) THEN {e} ELSE {})
        /\ UNCHANGED <<deployment, wires, place, back, site, table, kills, requeues,
                       runs, orphaned>>

\* The process claims another event.
OtherTraffic(p) ==
    LET record == Evicted(Append(seen[p], Other))
    IN  /\ InMemory /\ Free(p)
        /\ seen' = [seen EXCEPT ![p] = record]
        /\ excused' = excused \cup Forgotten(p, record)
        /\ UNCHANGED <<deployment, wires, handlers, table, kills, requeues, runs, orphaned>>

\* Mutant of MayClaim: the put is made without its condition.
MayClaimUnconditionally(e) == TRUE

\* ConditionExpression: attribute_not_exists(event_id)
MayClaim(e) == e \notin table

\* DynamoDeduper.claim: the conditional write decides.
Claim(e, k) ==
    /\ At(e, k, "arrived") /\ ~InMemory
    /\ IF MayClaim(e)
       THEN /\ table' = table \cup {e}
            /\ Advance(e, k, "taken")
            /\ UNCHANGED acked
       ELSE Drop(e, k) /\ UNCHANGED table
    /\ UNCHANGED <<deployment, delivered, place, back, site, seen, kills, requeues,
                   history>>

\* The write took effect, its response is lost, and the client sends it again.
ClaimResent(e, k) ==
    /\ ClientResends
    /\ At(e, k, "arrived") /\ ~InMemory /\ MayClaim(e)
    /\ table' = table \cup {e}
    /\ orphaned' = orphaned \cup {e}
    /\ UNCHANGED <<deployment, wires, handlers, seen, kills, requeues, runs, excused>>

\* Dynamo does not answer, whatever it did: the event runs anyway.
ClaimFails(e, k) ==
    /\ At(e, k, "arrived") /\ ~InMemory
    /\ table' \in {table, table \cup {e}}
    /\ Advance(e, k, "taken")
    /\ excused' = excused \cup {e}
    /\ UNCHANGED <<deployment, wires, place, back, site, seen, kills, requeues,
                   runs, orphaned>>

-----------------------------------------------------------------------------
(* The listener. *)

\* bolt hands the eval to a thread, or to another invocation...
HandOver(e, k) ==
    /\ At(e, k, "taken")
    /\ Advance(e, k, "handed")
    /\ back' = [back EXCEPT ![e][k] = "queued"]
    /\ site' = [site EXCEPT ![e][k] = IF deployment = "socket" THEN place[e][k] ELSE "none"]
    /\ UNCHANGED <<deployment, wires, place, claims, kills, requeues, history>>

\* The other invocation is refused (permissions, throttling): no ack, no eval.
HandOverRaises(e, k) ==
    /\ At(e, k, "taken") /\ deployment # "socket"
    /\ Advance(e, k, "dead")
    /\ orphaned' = orphaned \cup {e}
    /\ UNCHANGED <<deployment, wires, place, back, site, claims, kills, requeues,
                   runs, excused>>

\* ...and acks; the ack may not reach Slack, or not in time.
Answer(e, k) ==
    /\ At(e, k, "handed")
    /\ Advance(e, k, "answered")
    /\ acked' \in {acked, acked \cup {e}}
    /\ UNCHANGED <<deployment, delivered, place, back, site, claims, kills, requeues,
                   history>>

\* Mutant of PassesClaim: the lazy invocation is not exempt from the claim.
PassesClaimIfUnclaimed(e, p) ==
    deployment = "socket" \/ IF InMemory THEN ~Remembers(p, e) ELSE e \notin table

\* is_lazy_invocation: the second invocation repeats the id, and passes.
PassesClaim(e, p) == TRUE

\* evaluate starts handle_message_event, and the eval.
Run(e, k, p) ==
    /\ back[e][k] = "queued"
    /\ site[e][k] \in {p, "none"} /\ Free(p)
    /\ back' = [back EXCEPT ![e][k] = "running"]
    /\ site' = [site EXCEPT ![e][k] = p]
    /\ runs' = [runs EXCEPT ![e] = IF PassesClaim(e, p) THEN @ + 1 ELSE @]
    /\ UNCHANGED <<deployment, wires, front, place, claims, kills, requeues,
                   excused, orphaned>>

\* evaluate returns, whatever handle_message_event raised.
Finish(e, k) ==
    /\ back[e][k] = "running"
    /\ back' = [back EXCEPT ![e][k] = "done"]
    /\ UNCHANGED <<deployment, wires, front, place, site, claims, kills, requeues,
                   history>>

-----------------------------------------------------------------------------
(* Failures. *)

\* A process is killed (a restart, the memory cap, lambda's 30 s, recycling)
\* and started again.  What it was handling is gone; what lambda has queued
\* is not.
Kill(p) ==
    /\ kills < MaxKills
    /\ kills' = kills + 1
    /\ front' = [e \in Event |-> [k \in Delivery |->
                    IF Handling(e, k) /\ place[e][k] = p THEN "dead" ELSE front[e][k]]]
    /\ back' = [e \in Event |-> [k \in Delivery |->
                    IF back[e][k] \in {"queued", "running"} /\ site[e][k] = p
                    THEN "dead" ELSE back[e][k]]]
    /\ seen' = [seen EXCEPT ![p] = <<>>]
    /\ excused' = excused \cup {e \in Event : Remembers(p, e)}
    /\ orphaned' = orphaned \cup
          {e \in Event : ~InMemory /\ \E k \in Delivery : At(e, k, "taken") /\ place[e][k] = p}
    /\ UNCHANGED <<deployment, wires, place, site, table, requeues, runs>>

\* Lambda makes an asynchronous invocation that was killed once more.
Requeue(e, k) ==
    /\ deployment # "socket" /\ back[e][k] = "dead" /\ requeues < MaxRequeues
    /\ requeues' = requeues + 1
    /\ back' = [back EXCEPT ![e][k] = "queued"]
    /\ site' = [site EXCEPT ![e][k] = "none"]
    /\ excused' = excused \cup {e}
    /\ UNCHANGED <<deployment, wires, front, place, claims, kills, runs, orphaned>>

Handle(e, k) ==
    \/ FindClaimed(e, k) \/ FindUnclaimed(e, k) \/ Record(e, k)
    \/ Claim(e, k) \/ ClaimFails(e, k)
    \/ HandOver(e, k) \/ HandOverRaises(e, k) \/ Answer(e, k)
    \/ \E p \in Process : Run(e, k, p)
    \/ Finish(e, k)

Next ==
    \/ \E e \in Event :
          \/ \E p \in Process : Deliver(e, p)
          \/ Miss(e)
          \/ \E k \in Delivery : Handle(e, k) \/ ClaimResent(e, k) \/ Requeue(e, k)
    \/ \E p \in Process : Kill(p) \/ OtherTraffic(p)

Spec == Init /\ [][Next]_vars

\* The processes are running: each goes on with what it handles.
FairSpec == Spec /\ \A e \in Event, k \in Delivery : WF_vars(Handle(e, k))

-----------------------------------------------------------------------------
(* Correctness. *)

\* "Run each event at most once", with every exception there is: the record
\* of the claim was lost with the process or evicted, kept by another
\* process only, or made by two threads at the same moment; dynamo did not
\* answer; lambda repeated the invocation that runs the eval.
AtMostOnce == \A e \in Event \ excused : runs[e] <= 1

\* The eval that a delivery hands over, or has yet to.
UnderWay(e, k) ==
    \/ Handling(e, k)
    \/ back[e][k] \in {"queued", "running", "done"}

\* "But do run one whose first delivery we never saw": a delivery is dropped
\* only when another delivery of the same event is being handled, its eval is
\* waiting to run, or has started.
DroppedOnlyIfTakenOn ==
    [][\A e \in Event, k \in Delivery :
          front[e][k] # "dropped" /\ front'[e][k] = "dropped" =>
             runs[e] > 0 \/ \E j \in Delivery \ {k} : UnderWay(e, j)]_vars

\* The same, but for an event whose claim stands although the delivery that
\* made it hands nothing over: it was killed before it could (the table
\* outlives it, a record in memory does not), the invocation it asked for
\* was refused, or it was refused itself because its claim was sent twice.
DropIsExplained ==
    [][\A e \in Event, k \in Delivery :
          front[e][k] # "dropped" /\ front'[e][k] = "dropped" =>
             \/ runs[e] > 0
             \/ \E j \in Delivery \ {k} : UnderWay(e, j)
             \/ e \in orphaned]_vars

\* As long as no process is killed, an event that reaches one gets its eval,
\* by this delivery or by the one that made it a duplicate, unless it is one
\* of those.
EveryArrivalRuns ==
    \A e \in Event, k \in Delivery :
        front[e][k] = "arrived" ~> runs[e] > 0 \/ kills > 0 \/ e \in orphaned

=============================================================================
