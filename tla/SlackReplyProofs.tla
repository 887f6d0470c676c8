--------------------------- MODULE SlackReplyProofs ---------------------------
(***************************************************************************)
(* Proofs about SlackReply, for any messages, any number of attempts, says *)
(* and failures, any limits, and whatever evals return; and about          *)
(* ReplyFormat, for any texts.                                             *)
(***************************************************************************)
EXTENDS SlackReply, FiniteSetTheorems, RecursionProofs

-----------------------------------------------------------------------------
(* The invariant. *)

Kind == {"say", "reply"}
SomePost == Kind \X (Nat \ {0})
Sending == [post : SomePost, attempt : 1..PostAttempts]

AfterSlurp == {"waiting", "replying", "answered", "silent", "unposted", "failed", "timed out"}

\* The handler posts the reply, or has done so.
InReply == {"replying", "answered", "unposted"}

\* Where chat can be, and where code can.
ChatPhase == {"nick", "ignored", "log", "append", "channel", "logged"}
CodePhase == {"nick", "channel", "slurp"} \cup AfterSlurp

\* TypeOK, but for the number of messages of a reply, which the other parts
\* of the invariant do not need.
Types ==
    /\ phase \in [Message -> ChatPhase \cup CodePhase]
    /\ asking \in SUBSET Message
    /\ names \in [Cache -> {"unknown", "name", "id"}]
    /\ lines \in Seq(Message) /\ Len(lines) <= MaxLines
    /\ holding \in SUBSET Message
    /\ backlog \in [Code -> Seq(Message)]
    /\ queue \in SUBSET Code
    /\ running \in Code \cup {"nobody"}
    /\ says \in [Code -> 0..MaxSays]
    /\ result \in [Code -> {"none", "raised", "returned"}]
    /\ reply = [m \in Code |-> reply[m]]
    /\ sending \in [Code -> {NoPost} \cup Sending]
    /\ late \in SUBSET (Code \X SomePost)
    /\ failures \in 0..MaxFailures
    /\ posted \in [Code -> [Post -> Nat]]
    /\ doubtful \in SUBSET (Code \X SomePost)
    /\ pushedOut \in SUBSET Message /\ raced \in SUBSET Message

\* Each message on the path of its kind.
Paths ==
    /\ \A m \in asking : phase[m] \in Cache /\ m \notin Ignored
    /\ \A m \in Message \ Code : phase[m] \in ChatPhase
    /\ \A m \in Code : phase[m] \in CodePhase

\* An eval is queued, runs and ends in this order; its worker posts what it
\* says, and after that its thread the reply.
OrderOf(m) ==
    /\ m \in queue => running # m
    /\ m \in queue \/ running = m => result[m] = "none"
    /\ m \in queue \/ running = m \/ result[m] # "none" => phase[m] \in AfterSlurp
    /\ phase[m] \in InReply => result[m] # "none"
    /\ sending[m] # NoPost =>
          \/ sending[m].post[1] = "say" /\ running = m /\ sending[m].post[2] <= says[m]
          \/ sending[m].post[1] = "reply" /\ phase[m] = "replying"
    /\ phase[m] = "replying" => sending[m] # NoPost

EvalOrder == \A m \in Code : OrderOf(m)

\* The posts nobody has tried yet.
Ahead(m, p) ==
    \/ p[1] = "say" /\ p[2] > says[m]
    \/ p[1] = "reply" /\ phase[m] \notin InReply
    \/ p[1] = "reply" /\ phase[m] = "replying" /\ p[2] > sending[m].post[2]

\* How many times a post is, or will be, in the channel.
Copies(m, p) == posted[m][p] + (IF <<m, p>> \in late THEN 1 ELSE 0)

\* One copy at most of what is not in doubt, and one for each attempt else.
CopiesAre(m, p) ==
    /\ Ahead(m, p) => Copies(m, p) = 0 /\ <<m, p>> \notin doubtful
    /\ Copies(m, p) <= PostAttempts
    /\ <<m, p>> \notin doubtful => Copies(m, p) <= 1
    /\ sending[m] # NoPost /\ sending[m].post = p =>
          /\ Copies(m, p) < sending[m].attempt
          /\ <<m, p>> \notin doubtful => Copies(m, p) = 0

CopiesCounted == \A m \in Code : \A p \in Post : CopiesAre(m, p)

\* A message of a reply is sent when those before it are in the channel.
OrderIs(m, i) ==
    /\ Copies(m, <<"reply", i>>) > 0 => \A j \in 1..(i - 1) : posted[m][<<"reply", j>>] > 0
    /\ phase[m] = "replying" /\ i < sending[m].post[2] => posted[m][<<"reply", i>>] > 0
    /\ phase[m] = "answered" /\ i <= reply[m] => posted[m][<<"reply", i>>] > 0

InOrder == \A m \in Code : \A i \in 1..MaxMessages : OrderIs(m, i)

\* The places of a line of chat.
Within(log, m) == \E i \in DOMAIN log : log[i] = m
Distinct(log) == \A i, j \in DOMAIN log : log[i] = log[j] => i = j
InLog(m) == Within(lines, m)
GivenTo(m, c) == Within(backlog[c], m)
Given(m) == \E c \in Code : GivenTo(m, c)
Lost(m) == m \in pushedOut \/ m \in raced

LinesPlaced ==
    /\ Distinct(lines)
    /\ \A c \in Code : phase[c] \notin AfterSlurp => backlog[c] = <<>>
    /\ \A m \in Message : InLog(m) => ~Given(m) /\ ~Lost(m)
    /\ \A m \in Message : Given(m) => ~Lost(m)
    /\ \A m \in Message : \A c, d \in Code : GivenTo(m, c) /\ GivenTo(m, d) => c = d
    /\ \A m \in Message : ~(m \in pushedOut /\ m \in raced)
    /\ \A m \in Message \ Code :
          InLog(m) \/ Given(m) \/ Lost(m) <=> phase[m] \in {"logged", "channel"}

Inv == Types /\ Paths /\ EvalOrder /\ CopiesCounted /\ InOrder /\ LinesPlaced

-----------------------------------------------------------------------------
(* Data. *)

Phase == ChatPhase \cup CodePhase

LEMMA PostIs ==
    /\ \A i \in 1..MaxSays : <<"say", i>> \in Post
    /\ \A i \in 1..MaxMessages : <<"reply", i>> \in Post
    /\ \A p \in Post : p \in SomePost /\ p[2] \in Nat \ {0}
    /\ \A p \in Post : p[1] = "say" \/ (p[1] = "reply" /\ p[2] \in 1..MaxMessages)
<1>1. \A p \in {"say"} \X (1..MaxSays) : p \in SomePost /\ p[2] \in Nat \ {0} /\ p[1] = "say"
  BY BoundsAssumption DEF Kind, SomePost
<1>2. \A p \in {"reply"} \X (1..MaxMessages) :
         p \in SomePost /\ p[2] \in Nat \ {0} /\ p[1] = "reply" /\ p[2] \in 1..MaxMessages
  BY FormatAssumption DEF Kind, SomePost
<1> QED BY <1>1, <1>2 DEF Post

LEMMA FirstIs ==
    ASSUME NEW k \in Kind, NEW i \in Nat \ {0}
    PROVE  /\ First(<<k, i>>) \in Sending /\ First(<<k, i>>) # NoPost
           /\ First(<<k, i>>).post = <<k, i>> /\ First(<<k, i>>).attempt = 1
BY BoundsAssumption DEF First, Sending, SomePost, NoPost, Kind

LEMMA SendingIs ==
    ASSUME NEW s \in Sending
    PROVE  /\ s # NoPost /\ s.post \in SomePost /\ s.attempt \in 1..PostAttempts
           /\ s.post = <<s.post[1], s.post[2]>>
           /\ s.post[1] \in Kind /\ s.post[2] \in Nat \ {0}
BY BoundsAssumption DEF Sending, SomePost, NoPost, Kind

LEMMA NoPostIs == NoPost \notin Sending
BY BoundsAssumption DEF NoPost, Sending

LEMMA GoIs ==
    ASSUME Types, NEW m \in Message, NEW next \in Phase, Go(m, next)
    PROVE  /\ phase' \in [Message -> Phase] /\ phase'[m] = next
           /\ \A x \in Message \ {m} : phase'[x] = phase[x]
BY DEF Types, Go, Phase

LEMMA AfterNameIs ==
    ASSUME Paths, NEW m \in Message, phase[m] \in Cache
    PROVE  /\ m \in Code => AfterName(m) \in {"channel", "slurp"}
           /\ m \notin Code => AfterName(m) \in {"log", "logged"}
           /\ m \notin Code /\ phase[m] = "nick" => AfterName(m) = "log"
           /\ m \notin Code /\ phase[m] = "channel" => AfterName(m) = "logged"
           /\ AfterName(m) \in Phase
BY DEF Paths, AfterName, Cache, Phase, ChatPhase, CodePhase

LEMMA InitInv == Init => Inv
<1> SUFFICES ASSUME Init PROVE Inv
  OBVIOUS
<1>1. Types
  <2>1. posted \in [Code -> [Post -> Nat]]
    BY DEF Init
  <2>2. sending \in [Code -> {NoPost} \cup Sending]
    BY DEF Init
  <2>3. lines \in Seq(Message) /\ Len(lines) <= MaxLines /\ backlog \in [Code -> Seq(Message)]
    BY BoundsAssumption DEF Init
  <2>4. says \in [Code -> 0..MaxSays] /\ failures \in 0..MaxFailures
    BY BoundsAssumption DEF Init
  <2>5. phase \in [Message -> ChatPhase \cup CodePhase]
    BY DEF Init, ChatPhase
  <2> QED BY <2>1, <2>2, <2>3, <2>4, <2>5 DEF Init, Types
<1>2. Paths
  BY MessagesAssumption DEF Init, Paths, ChatPhase, CodePhase
<1>3. /\ \A m \in Code : /\ phase[m] = "nick" /\ sending[m] = NoPost /\ result[m] = "none"
                         /\ running # m /\ m \notin queue /\ backlog[m] = <<>>
      /\ \A m \in Message : phase[m] = "nick"
  BY MessagesAssumption, NobodyAssumption DEF Init
<1>4. EvalOrder
  BY <1>3, Zenon DEF EvalOrder, OrderOf, InReply
<1>5. \A m \in Code : \A p \in Post : Copies(m, p) = 0 /\ <<m, p>> \notin doubtful
  BY DEF Init, Copies
<1>6. CopiesCounted
  <2> SUFFICES ASSUME NEW m \in Code, NEW p \in Post
               PROVE  CopiesAre(m, p)
    BY DEF CopiesCounted
  <2>1. Copies(m, p) = 0 /\ <<m, p>> \notin doubtful /\ sending[m] = NoPost
    BY <1>3, <1>5
  <2> QED BY <2>1, BoundsAssumption DEF CopiesAre
<1>7. InOrder
  <2> SUFFICES ASSUME NEW m \in Code, NEW i \in 1..MaxMessages
               PROVE  OrderIs(m, i)
    BY DEF InOrder
  <2>1. Copies(m, <<"reply", i>>) = 0 /\ phase[m] = "nick"
    BY <1>3, <1>5, PostIs
  <2> QED BY <2>1 DEF OrderIs
<1>8. \A m \in Message : ~InLog(m) /\ ~Given(m) /\ ~Lost(m)
  BY <1>3 DEF Init, InLog, Within, Given, GivenTo, Lost
<1>9. LinesPlaced
  BY <1>3, <1>8 DEF Init, LinesPlaced, Distinct, Given, Lost, AfterSlurp
<1> QED BY <1>1, <1>2, <1>4, <1>6, <1>7, <1>9 DEF Inv

-----------------------------------------------------------------------------
(* Steps that leave a part of the state alone. *)

LEMMA PostsKept ==
    ASSUME Inv, UNCHANGED <<says, sending, late, posted, doubtful>>,
           \A c \in Code : phase[c] \in InReply \/ phase'[c] \in InReply =>
               phase'[c] = phase[c] /\ reply'[c] = reply[c]
    PROVE  CopiesCounted' /\ InOrder'
<1>1. \A m \in Code, p \in Post : Copies(m, p)' = Copies(m, p)
  BY DEF Copies
<1>2. \A m \in Code, p \in Post : Ahead(m, p)' => Ahead(m, p)
  BY DEF Ahead, InReply
<1>3. CopiesCounted'
  BY <1>1, <1>2 DEF Inv, CopiesCounted, CopiesAre
<1>4. InOrder'
  <2> SUFFICES ASSUME NEW m \in Code, NEW i \in 1..MaxMessages PROVE OrderIs(m, i)'
    BY DEF InOrder
  <2>1. OrderIs(m, i) /\ Copies(m, <<"reply", i>>)' = Copies(m, <<"reply", i>>)
    BY <1>1, PostIs DEF Inv, InOrder
  <2>2. phase'[m] \in InReply => phase'[m] = phase[m] /\ reply'[m] = reply[m]
    OBVIOUS
  <2> QED BY <2>1, <2>2 DEF OrderIs, InReply
<1> QED BY <1>3, <1>4

LEMMA LinesKept ==
    ASSUME Inv, UNCHANGED <<lines, backlog, pushedOut, raced>>,
           \A m \in Message \ Code :
               phase'[m] \in {"logged", "channel"} <=> phase[m] \in {"logged", "channel"},
           \A c \in Code : phase[c] \in AfterSlurp => phase'[c] \in AfterSlurp
    PROVE  LinesPlaced'
<1>1. \A m \in Message : /\ InLog(m)' <=> InLog(m)
                         /\ Given(m)' <=> Given(m)
                         /\ Lost(m)' <=> Lost(m)
                         /\ \A c \in Code : GivenTo(m, c)' <=> GivenTo(m, c)
  BY DEF InLog, Given, GivenTo, Lost
<1> QED BY <1>1 DEF Inv, LinesPlaced

LEMMA OrderKept ==
    ASSUME Inv, UNCHANGED <<queue, running, says, result, sending>>,
           \A c \in Code : phase[c] \in AfterSlurp => phase'[c] \in AfterSlurp,
           \A c \in Code : phase[c] \in InReply \/ phase'[c] \in InReply => phase'[c] = phase[c]
    PROVE  EvalOrder'
<1> SUFFICES ASSUME NEW c \in Code PROVE OrderOf(c)'
  BY DEF EvalOrder
<1>1. OrderOf(c)
  BY DEF Inv, EvalOrder
<1> QED BY <1>1 DEF OrderOf, InReply

-----------------------------------------------------------------------------
(* The handler, until it submits an eval. *)

\* A step of a handler that has not submitted an eval.
LEMMA HandlerKeeps ==
    ASSUME Inv, NEW m \in Message, NEW next \in Phase,
           phase[m] \notin AfterSlurp, next \notin InReply,
           phase' \in [Message -> Phase], phase'[m] = next,
           \A x \in Message \ {m} : phase'[x] = phase[x],
           UNCHANGED evalVars, UNCHANGED postVars
    PROVE  /\ EvalOrder' /\ CopiesCounted' /\ InOrder'
           /\ \A c \in Code : phase[c] \in AfterSlurp => phase'[c] \in AfterSlurp
<1>1. \A c \in Code : phase[c] \in InReply \/ phase'[c] \in InReply => phase'[c] = phase[c]
  BY MessagesAssumption DEF InReply, AfterSlurp
<1>2. \A c \in Code : phase[c] \in AfterSlurp => phase'[c] \in AfterSlurp
  BY MessagesAssumption
<1> QED BY <1>1, <1>2, PostsKept, OrderKept DEF evalVars, postVars

LEMMA IgnoreInv ==
    ASSUME Inv, NEW m \in Message, Ignore(m)
    PROVE  Inv'
<1>1. /\ phase[m] = "nick" /\ m \notin Code /\ "ignored" \in Phase
      /\ phase[m] \notin AfterSlurp /\ "ignored" \notin InReply
  BY MessagesAssumption DEF Ignore, Phase, ChatPhase, AfterSlurp, InReply
<1>2. /\ phase' \in [Message -> Phase] /\ phase'[m] = "ignored"
      /\ \A x \in Message \ {m} : phase'[x] = phase[x]
  BY <1>1, GoIs DEF Ignore, Inv
<1>3. EvalOrder' /\ CopiesCounted' /\ InOrder'
  BY <1>1, <1>2, HandlerKeeps DEF Ignore
<1>4. LinesPlaced'
  BY <1>1, <1>2, LinesKept, MessagesAssumption DEF Ignore, logVars
<1>5. Types'
  BY <1>2 DEF Inv, Types, Ignore, Phase, logVars, nameVars, evalVars, postVars
<1>6. Paths'
  <2>1. m \notin asking
    BY DEF Inv, Paths, Ignore
  <2> QED BY <1>1, <1>2, <2>1, MessagesAssumption DEF Inv, Paths, Types, Ignore, nameVars, ChatPhase
<1> QED BY <1>3, <1>4, <1>5, <1>6 DEF Inv

\* UseCached, Told: the handler goes on with the name.
LEMMA NamedInv ==
    ASSUME Inv, NEW m \in Message \ Ignored, phase[m] \in Cache, Go(m, AfterName(m)),
           asking' \in SUBSET asking, m \notin asking',
           names' \in [Cache -> {"unknown", "name", "id"}],
           UNCHANGED logVars, UNCHANGED evalVars, UNCHANGED postVars
    PROVE  Inv'
<1>1. /\ phase[m] \notin AfterSlurp /\ AfterName(m) \notin InReply
      /\ AfterName(m) \in Phase
      /\ m \in Code => AfterName(m) \in CodePhase
      /\ m \notin Code => AfterName(m) \in ChatPhase
  <2>1. phase[m] \notin AfterSlurp
    BY DEF Cache, AfterSlurp
  <2>2. AfterName(m) \in {"channel", "slurp", "log", "logged"}
    BY AfterNameIs DEF Inv
  <2> QED BY <2>1, <2>2, AfterNameIs, Zenon DEF Inv, InReply, ChatPhase, CodePhase
<1>2. /\ phase' \in [Message -> Phase] /\ phase'[m] = AfterName(m)
      /\ \A x \in Message \ {m} : phase'[x] = phase[x]
  BY <1>1, GoIs DEF Inv
<1>3. /\ EvalOrder' /\ CopiesCounted' /\ InOrder'
      /\ \A c \in Code : phase[c] \in AfterSlurp => phase'[c] \in AfterSlurp
  BY <1>1, <1>2, HandlerKeeps
<1>4. LinesPlaced'
  <2>1. m \notin Code => (AfterName(m) \in {"logged", "channel"} <=> phase[m] \in {"logged", "channel"})
    BY AfterNameIs DEF Inv, Cache
  <2> QED BY <2>1, <1>2, <1>3, LinesKept DEF logVars
<1>5. Types'
  BY <1>2 DEF Inv, Types, Phase, logVars, evalVars, postVars
<1>6. Paths'
  <2>1. \A x \in asking' : phase'[x] \in Cache /\ x \notin Ignored
    BY <1>2 DEF Inv, Paths, Types
  <2>2. \A x \in Message \ Code : phase'[x] \in ChatPhase
    BY <1>1, <1>2 DEF Inv, Paths
  <2>3. \A x \in Code : phase'[x] \in CodePhase
    BY <1>1, <1>2, MessagesAssumption DEF Inv, Paths
  <2> QED BY <2>1, <2>2, <2>3 DEF Paths
<1> QED BY <1>3, <1>4, <1>5, <1>6 DEF Inv

LEMMA UseCachedInv ==
    ASSUME Inv, NEW m \in Message, UseCached(m)
    PROVE  Inv'
<1>1. m \notin Ignored /\ m \notin asking /\ phase[m] \in Cache
  BY DEF UseCached, Wanting
<1> QED BY <1>1, NamedInv DEF UseCached, nameVars, Inv, Types

LEMMA ToldInv ==
    ASSUME Inv, NEW m \in Message, NEW name \in {"name", "id"}, Told(m, name)
    PROVE  Inv'
<1>1. m \notin Ignored /\ phase[m] \in Cache
  BY DEF Told, Inv, Paths
<1>2. /\ asking' \in SUBSET asking /\ m \notin asking'
      /\ names' \in [Cache -> {"unknown", "name", "id"}]
  BY DEF Told, Inv, Types
<1> QED BY <1>1, <1>2, NamedInv DEF Told

LEMMA AskInv ==
    ASSUME Inv, NEW m \in Message, Ask(m)
    PROVE  Inv'
<1>1. m \notin Ignored /\ phase[m] \in Cache /\ asking' = asking \cup {m}
  BY DEF Ask, Wanting
<1>2. Types' /\ Paths'
  BY <1>1 DEF Inv, Types, Paths, Ask, logVars, evalVars, postVars
<1>3. EvalOrder' /\ CopiesCounted' /\ InOrder'
  BY OrderKept, PostsKept DEF Ask, evalVars, postVars
<1>4. LinesPlaced'
  BY LinesKept DEF Ask, logVars
<1> QED BY <1>2, <1>3, <1>4 DEF Inv

LEMMA FindLogInv ==
    ASSUME Inv, NEW m \in Message, FindLog(m)
    PROVE  Inv'
<1>1. /\ phase[m] = "log" /\ m \notin Code /\ m \notin asking
      /\ phase[m] \notin AfterSlurp /\ "append" \notin InReply /\ "append" \in Phase
  BY DEF FindLog, Inv, Paths, CodePhase, AfterSlurp, InReply, Phase, ChatPhase, Cache
<1>2. /\ phase' \in [Message -> Phase] /\ phase'[m] = "append"
      /\ \A x \in Message \ {m} : phase'[x] = phase[x]
  BY <1>1, GoIs DEF FindLog, Inv
<1>3. /\ EvalOrder' /\ CopiesCounted' /\ InOrder'
      /\ \A c \in Code : phase[c] \in AfterSlurp => phase'[c] \in AfterSlurp
  BY <1>1, <1>2, HandlerKeeps DEF FindLog
<1>4. LinesPlaced'
  BY <1>1, <1>2, <1>3, LinesKept DEF FindLog
<1>5. Types'
  BY <1>2 DEF Inv, Types, FindLog, Phase, nameVars, evalVars, postVars
<1>6. Paths'
  BY <1>1, <1>2, MessagesAssumption DEF Inv, Paths, Types, FindLog, nameVars, ChatPhase
<1> QED BY <1>3, <1>4, <1>5, <1>6 DEF Inv

-----------------------------------------------------------------------------
(* The log. *)

\* deque.append of a line that is not in the deque.
LEMMA KeptIs ==
    ASSUME NEW s \in Seq(Message), Len(s) <= MaxLines, Distinct(s),
           NEW m \in Message, ~Within(s, m), NEW log, log = Append(s, m)
    PROVE  /\ Kept(log) \in Seq(Message) /\ Len(Kept(log)) <= MaxLines
           /\ Distinct(Kept(log))
           /\ Len(log) <= MaxLines => \A x : Within(Kept(log), x) <=> Within(s, x) \/ x = m
           /\ Len(log) > MaxLines =>
                /\ Head(log) \in Message /\ Within(s, Head(log))
                /\ \A x : Within(Kept(log), x) <=> (Within(s, x) \/ x = m) /\ x # Head(log)
<1>1. /\ log \in Seq(Message) /\ Len(log) = Len(s) + 1 /\ Len(s) \in Nat
      /\ DOMAIN s = 1..Len(s) /\ DOMAIN log = 1..(Len(s) + 1)
      /\ \A i \in 1..Len(s) : log[i] = s[i]
      /\ log[Len(s) + 1] = m
  OBVIOUS
<1>2. \A x : Within(log, x) <=> Within(s, x) \/ x = m
  BY <1>1 DEF Within
<1>3. Distinct(log)
  BY <1>1 DEF Distinct, Within
<1>4. CASE Len(log) <= MaxLines
  <2>0. ~(Len(log) > MaxLines)
    BY <1>1, <1>4, BoundsAssumption
  <2>1. Kept(log) = log
    BY <2>0, Zenon DEF Kept
  <2> QED BY <1>1, <1>2, <1>3, <1>4, <2>1, BoundsAssumption
<1>5. CASE Len(log) > MaxLines
  <2>1. /\ Kept(log) = Tail(log) /\ Len(s) = MaxLines /\ log # <<>>
        /\ Head(log) = log[1] /\ 1 \in DOMAIN s
    <3>1. Kept(log) = Tail(log)
      BY <1>5, Zenon DEF Kept
    <3>2. Len(s) = MaxLines /\ 1 \in DOMAIN s
      <4> DEFINE n == Len(s)
      <4>1. n \in Nat /\ n <= MaxLines /\ n + 1 > MaxLines /\ MaxLines \in Nat \ {0}
        BY <1>1, <1>5, BoundsAssumption
      <4> HIDE DEF n
      <4>2. n = MaxLines /\ 1 \in 1..n
        BY <4>1
      <4> QED BY <1>1, <4>2 DEF n
    <3>3. log # <<>> /\ Head(log) = log[1]
      BY <1>1
    <3> QED BY <3>1, <3>2, <3>3
  <2>2. /\ Tail(log) \in Seq(Message) /\ DOMAIN Tail(log) = 1..Len(s) /\ Len(Tail(log)) = Len(s)
        /\ \A i \in 1..Len(s) : Tail(log)[i] = log[i + 1]
    BY <1>1, <2>1
  <2>3. Distinct(Tail(log))
    BY <1>1, <1>3, <2>2 DEF Distinct
  <2>4. Within(s, Head(log)) /\ Head(log) \in Message
    BY <1>1, <2>1 DEF Within
  <2>5. ASSUME NEW x
        PROVE  Within(Tail(log), x) <=> Within(log, x) /\ x # Head(log)
    <3>1. ASSUME NEW i \in DOMAIN Tail(log), Tail(log)[i] = x
          PROVE  Within(log, x) /\ x # Head(log)
      BY <1>1, <1>3, <2>1, <2>2, <3>1 DEF Distinct, Within
    <3>2. ASSUME NEW i \in DOMAIN log, log[i] = x, x # Head(log)
          PROVE  Within(Tail(log), x)
      <4>1. i # 1 /\ i - 1 \in 1..Len(s) /\ (i - 1) + 1 = i
        BY <1>1, <2>1, <3>2
      <4>2. Tail(log)[i - 1] = x
        BY <2>2, <3>2, <4>1
      <4> QED BY <2>2, <4>1, <4>2 DEF Within
    <3> QED BY <3>1, <3>2 DEF Within
  <2> QED BY <1>2, <1>5, <2>1, <2>2, <2>3, <2>4, <2>5
<1> QED BY <1>1, <1>4, <1>5, BoundsAssumption

LEMMA AppendLineInv ==
    ASSUME Inv, NEW m \in Message, AppendLine(m)
    PROVE  Inv'
<1> DEFINE log == Append(lines, m)
           next == IF m \in Mentioning THEN "channel" ELSE "logged"
<1>1. /\ phase[m] = "append" /\ m \notin Code /\ m \notin asking
      /\ phase[m] \notin AfterSlurp /\ next \notin InReply /\ next \in Phase
      /\ next \in {"logged", "channel"} /\ next \in ChatPhase
  BY DEF AppendLine, Inv, Paths, CodePhase, AfterSlurp, InReply, Phase, ChatPhase, Cache
<1>2. /\ phase' \in [Message -> Phase] /\ phase'[m] = next
      /\ \A x \in Message \ {m} : phase'[x] = phase[x]
  BY <1>1, GoIs DEF AppendLine, Inv
<1>3. /\ EvalOrder' /\ CopiesCounted' /\ InOrder'
      /\ \A c \in Code : phase[c] \in AfterSlurp => phase'[c] \in AfterSlurp
  BY <1>1, <1>2, HandlerKeeps DEF AppendLine
<1>4. ~InLog(m) /\ ~Given(m) /\ ~Lost(m)
  BY <1>1 DEF Inv, LinesPlaced
<1>5. /\ lines \in Seq(Message) /\ Len(lines) <= MaxLines /\ Distinct(lines) /\ ~Within(lines, m)
  BY <1>4 DEF Inv, Types, LinesPlaced, InLog
<1>6. /\ Kept(log) \in Seq(Message) /\ Len(Kept(log)) <= MaxLines
      /\ Distinct(Kept(log))
      /\ Len(log) <= MaxLines => \A x : Within(Kept(log), x) <=> InLog(x) \/ x = m
      /\ Len(log) > MaxLines =>
            /\ Head(log) \in Message /\ InLog(Head(log))
            /\ \A x : Within(Kept(log), x) <=> (InLog(x) \/ x = m) /\ x # Head(log)
  BY <1>5, KeptIs DEF InLog
<1>7. /\ backlog' = backlog /\ holding' \in SUBSET Message
      /\ \/ m \in holding /\ ~(Len(log) > MaxLines) /\ lines' = Kept(log)
            /\ pushedOut' = pushedOut /\ raced' = raced
         \/ m \in holding /\ Len(log) > MaxLines /\ lines' = Kept(log)
            /\ pushedOut' = pushedOut \cup {Head(log)} /\ raced' = raced
         \/ m \notin holding /\ lines' = lines /\ pushedOut' = pushedOut /\ raced' = raced \cup {m}
  BY DEF AppendLine, Inv, Types
<1> HIDE DEF log, next
<1>8. Len(log) <= MaxLines \/ Len(log) > MaxLines
  BY <1>5, BoundsAssumption DEF log
<1>9. /\ lines' \in Seq(Message) /\ Len(lines') <= MaxLines /\ Distinct(lines')
      /\ pushedOut' \in SUBSET Message /\ raced' \in SUBSET Message
  BY <1>5, <1>6, <1>7 DEF Inv, Types
<1>10. Types'
  BY <1>2, <1>7, <1>9 DEF Inv, Types, AppendLine, Phase, nameVars, evalVars, postVars
<1>11. Paths'
  BY <1>1, <1>2, MessagesAssumption DEF Inv, Paths, Types, AppendLine, nameVars
<1>12. LinesPlaced'
  <2>1. /\ \A x \in Message, c \in Code : GivenTo(x, c)' <=> GivenTo(x, c)
        /\ \A x \in Message : Given(x)' <=> Given(x)
    BY <1>7 DEF GivenTo, Given
  <2>2. \A c \in Code : phase'[c] \notin AfterSlurp => backlog'[c] = <<>>
    BY <1>3, <1>7 DEF Inv, LinesPlaced
  <2>3. \A x \in Message \ Code : x # m =>
           (phase'[x] \in {"logged", "channel"} <=> phase[x] \in {"logged", "channel"})
    BY <1>2
  <2>4. CASE m \in holding /\ ~(Len(log) > MaxLines) /\ lines' = Kept(log)
             /\ pushedOut' = pushedOut /\ raced' = raced
    <3>1. \A x \in Message : (InLog(x)' <=> InLog(x) \/ x = m) /\ (Lost(x)' <=> Lost(x))
      BY <1>6, <1>8, <2>4 DEF InLog, Lost
    <3> QED BY <1>1, <1>2, <1>4, <1>9, <2>1, <2>2, <2>3, <2>4, <3>1 DEF Inv, LinesPlaced
  <2>5. CASE m \in holding /\ Len(log) > MaxLines /\ lines' = Kept(log)
             /\ pushedOut' = pushedOut \cup {Head(log)} /\ raced' = raced
    <3> DEFINE h == Head(log)
    <3>0. h \in Message /\ InLog(h) /\ h # m /\ ~Given(h) /\ ~Lost(h)
      BY <1>4, <1>6, <2>5 DEF Inv, LinesPlaced
    <3>1. \A x \in Message : /\ InLog(x)' <=> (InLog(x) \/ x = m) /\ x # h
                             /\ Lost(x)' <=> Lost(x) \/ x = h
      BY <1>6, <2>5 DEF InLog, Lost
    <3>2. \A x \in Message : ~(x \in pushedOut' /\ x \in raced')
      BY <2>5, <3>0 DEF Inv, LinesPlaced, Lost
    <3> HIDE DEF h
    <3> QED BY <1>1, <1>2, <1>4, <1>9, <2>1, <2>2, <2>3, <3>0, <3>1, <3>2 DEF Inv, LinesPlaced
  <2>6. CASE m \notin holding /\ lines' = lines /\ pushedOut' = pushedOut /\ raced' = raced \cup {m}
    <3>1. \A x \in Message : /\ InLog(x)' <=> InLog(x)
                             /\ Lost(x)' <=> Lost(x) \/ x = m
                             /\ ~(x \in pushedOut' /\ x \in raced')
      BY <1>4, <2>6 DEF InLog, Lost, Inv, LinesPlaced
    <3> QED BY <1>1, <1>2, <1>4, <1>9, <2>1, <2>2, <2>3, <3>1 DEF Inv, LinesPlaced
  <2> QED BY <1>7, <2>4, <2>5, <2>6
<1> QED BY <1>3, <1>10, <1>11, <1>12 DEF Inv

LEMMA SlurpInv ==
    ASSUME Inv, NEW m \in Code, Slurp(m)
    PROVE  Inv'
<1>1. /\ m \in Message /\ phase[m] = "slurp" /\ m \notin asking
      /\ phase[m] \notin AfterSlurp /\ "waiting" \in AfterSlurp
      /\ "waiting" \notin InReply /\ "waiting" \in Phase
  BY MessagesAssumption DEF Slurp, Inv, Paths, AfterSlurp, InReply, Phase, CodePhase, Cache
<1>2. /\ phase' \in [Message -> Phase] /\ phase'[m] = "waiting"
      /\ \A x \in Message \ {m} : phase'[x] = phase[x]
  BY <1>1, GoIs DEF Slurp, Inv
<1>3. CopiesCounted' /\ InOrder'
  BY <1>1, <1>2, PostsKept, MessagesAssumption DEF Slurp, InReply, postVars
<1>4. EvalOrder'
  <2> SUFFICES ASSUME NEW c \in Code PROVE OrderOf(c)'
    BY DEF EvalOrder
  <2>1. /\ OrderOf(c) /\ queue' = queue \cup {m} /\ sending' = sending
        /\ UNCHANGED <<running, says, result>>
    BY DEF Inv, EvalOrder, Slurp, postVars
  <2>2. CASE c = m
    BY <1>1, <1>2, <2>1, <2>2 DEF OrderOf, InReply
  <2>3. CASE c # m
    BY <1>2, <2>1, <2>3, MessagesAssumption DEF OrderOf
  <2> QED BY <2>2, <2>3
<1>5. /\ lines' = <<>> /\ holding' = {} /\ backlog' = [backlog EXCEPT ![m] = lines]
      /\ backlog \in [Code -> Seq(Message)] /\ lines \in Seq(Message)
      /\ UNCHANGED <<pushedOut, raced>>
  BY DEF Slurp, TakeLog, Inv, Types
<1>6. Types'
  <2>1. /\ lines' \in Seq(Message) /\ Len(lines') <= MaxLines /\ holding' \in SUBSET Message
        /\ backlog' \in [Code -> Seq(Message)]
    BY <1>5, BoundsAssumption
  <2> QED BY <1>2, <2>1 DEF Inv, Types, Slurp, Phase, nameVars, postVars
<1>7. Paths'
  BY <1>1, <1>2, MessagesAssumption DEF Inv, Paths, Types, Slurp, nameVars, CodePhase
<1>8. LinesPlaced'
  <2>1. backlog[m] = <<>>
    BY <1>1 DEF Inv, LinesPlaced
  <2>2. \A x \in Message : ~GivenTo(x, m)
    BY <2>1 DEF GivenTo, Within
  <2>3. \A x \in Message :
           /\ ~InLog(x)'
           /\ GivenTo(x, m)' <=> InLog(x)
           /\ \A c \in Code : c # m => (GivenTo(x, c)' <=> GivenTo(x, c))
           /\ Lost(x)' <=> Lost(x)
    BY <1>5 DEF InLog, GivenTo, Within, Lost
  <2>4. \A x \in Message : Given(x)' <=> Given(x) \/ InLog(x)
    BY <2>2, <2>3 DEF Given
  <2>5. \A c \in Code : phase'[c] \notin AfterSlurp => backlog'[c] = <<>>
    BY <1>1, <1>2, <1>5, MessagesAssumption DEF Inv, LinesPlaced
  <2>6. \A x \in Message \ Code : phase'[x] = phase[x]
    BY <1>2
  <2>7. \A x \in Message : \A c, d \in Code : GivenTo(x, c)' /\ GivenTo(x, d)' => c = d
    BY <2>3 DEF Inv, LinesPlaced, Given
  <2>8. Distinct(lines)'
    BY <1>5 DEF Distinct
  <2> QED BY <1>5, <2>3, <2>4, <2>5, <2>6, <2>7, <2>8 DEF Inv, LinesPlaced
<1> QED BY <1>3, <1>4, <1>6, <1>7, <1>8 DEF Inv

-----------------------------------------------------------------------------
(* The engine, and the thread that waits for it. *)

LEMMA StartEvalInv ==
    ASSUME Inv, StartEval
    PROVE  Inv'
<1>1. PICK m \in queue : running' = m /\ queue' = queue \ {m}
  BY DEF StartEval
<1>2. m \in Code
  BY DEF Inv, Types
<1>3. Types' /\ Paths'
  BY <1>1, <1>2 DEF Inv, Types, Paths, StartEval, logVars, nameVars, postVars
<1>4. EvalOrder'
  <2> SUFFICES ASSUME NEW c \in Code PROVE OrderOf(c)'
    BY DEF EvalOrder
  <2>1. OrderOf(c) /\ OrderOf(m) /\ running # c
    BY <1>2, NobodyAssumption DEF Inv, EvalOrder, StartEval
  <2> QED BY <1>1, <2>1 DEF OrderOf, StartEval, postVars
<1>5. CopiesCounted' /\ InOrder'
  BY PostsKept DEF StartEval, postVars
<1>6. LinesPlaced'
  BY LinesKept DEF StartEval, logVars
<1> QED BY <1>3, <1>4, <1>5, <1>6 DEF Inv

LEMMA EndEvalInv ==
    ASSUME Inv, NEW m \in Code, NEW how \in {"raised", "returned"}, NEW messages,
           EndEval(m, how, messages)
    PROVE  Inv'
<1>1. /\ running = m /\ running' = "nobody" /\ sending[m] = NoPost
      /\ result'[m] = how /\ \A c \in Code \ {m} : result'[c] = result[c]
      /\ reply'[m] = messages /\ \A c \in Code \ {m} : reply'[c] = reply[c]
  BY DEF EndEval, Inv, Types
<1>2. phase[m] \notin InReply /\ result[m] = "none" /\ phase[m] \in AfterSlurp /\ m \notin queue
  BY <1>1 DEF Inv, EvalOrder, OrderOf
<1>3. Types' /\ Paths'
  BY DEF Inv, Types, Paths, EndEval, logVars, nameVars, postVars
<1>4. EvalOrder'
  <2> SUFFICES ASSUME NEW c \in Code PROVE OrderOf(c)'
    BY DEF EvalOrder
  <2>1. OrderOf(c)
    BY DEF Inv, EvalOrder
  <2> QED BY <1>1, <1>2, <2>1, NobodyAssumption DEF OrderOf, EndEval, postVars
<1>5. CopiesCounted' /\ InOrder'
  BY <1>1, <1>2, PostsKept DEF EndEval, postVars
<1>6. LinesPlaced'
  BY LinesKept DEF EndEval, logVars
<1> QED BY <1>3, <1>4, <1>5, <1>6 DEF Inv

LEMMA GiveUpInv ==
    ASSUME Inv, NEW m \in Code, GiveUp(m)
    PROVE  Inv'
<1>1. /\ m \in Message /\ phase[m] = "waiting" /\ m \notin asking
      /\ {"waiting", "timed out"} \subseteq AfterSlurp \ InReply /\ "timed out" \in Phase
  BY MessagesAssumption DEF GiveUp, Inv, Paths, AfterSlurp, InReply, Phase, CodePhase, Cache
<1>2. /\ phase' \in [Message -> Phase] /\ phase'[m] = "timed out"
      /\ \A x \in Message \ {m} : phase'[x] = phase[x]
  BY <1>1, GoIs DEF GiveUp, Inv
<1>3. Types' /\ Paths'
  BY <1>1, <1>2, MessagesAssumption DEF Inv, Types, Paths, GiveUp, Phase, CodePhase, logVars, nameVars, evalVars, postVars
<1>4. EvalOrder' /\ CopiesCounted' /\ InOrder'
  BY <1>1, <1>2, OrderKept, PostsKept, MessagesAssumption DEF GiveUp, evalVars, postVars
<1>5. LinesPlaced'
  BY <1>1, <1>2, LinesKept, MessagesAssumption DEF GiveUp, logVars
<1> QED BY <1>3, <1>4, <1>5 DEF Inv

-----------------------------------------------------------------------------
(* Posts. *)

LEMMA LandedIs ==
    ASSUME Types, NEW m \in Code, NEW post, Landed(m, post)
    PROVE  /\ posted' \in [Code -> [Post -> Nat]]
           /\ \A c \in Code, p \in Post :
                 posted'[c][p] = posted[c][p] + (IF c = m /\ p = post THEN 1 ELSE 0)
<1>1. posted \in [Code -> [Post -> Nat]] /\ posted' = [posted EXCEPT ![m][post] = @ + 1]
  BY DEF Types, Landed
<1>2. posted[m] \in [Post -> Nat] /\ posted'[m] = [posted[m] EXCEPT ![post] = @ + 1]
  BY <1>1
<1>3. posted'[m] \in [Post -> Nat]
  <2>1. posted'[m] = [p \in Post |-> IF p = post THEN posted[m][p] + 1 ELSE posted[m][p]]
    BY <1>2
  <2>2. \A p \in Post : posted[m][p] \in Nat
    BY <1>2
  <2>3. \A p \in Post : (IF p = post THEN posted[m][p] + 1 ELSE posted[m][p]) \in Nat
    BY <2>2
  <2> QED BY <2>1, <2>3
<1>4. \A c \in Code : c # m => posted'[c] = posted[c]
  BY <1>1
<1>5. posted' \in [Code -> [Post -> Nat]]
  BY <1>1, <1>3
<1>6. \A p \in Post : posted'[m][p] = posted[m][p] + (IF p = post THEN 1 ELSE 0)
  BY <1>2
<1>7. \A c \in Code, p \in Post : posted[c][p] \in Nat
  BY <1>1
<1> QED BY <1>4, <1>5, <1>6, <1>7

LEMMA CopiesAreNat ==
    ASSUME Types, NEW m \in Code, NEW p \in Post
    PROVE  Copies(m, p) \in Nat /\ posted[m][p] \in Nat /\ posted[m][p] <= Copies(m, p)
BY DEF Types, Copies

\* What the invariant says of a post under way.
LEMMA PostingIs ==
    ASSUME Inv, NEW m \in Code, Posting(m)
    PROVE  /\ sending[m] \in Sending /\ sending[m].post \in SomePost
           /\ sending[m].post = <<sending[m].post[1], sending[m].post[2]>>
           /\ sending[m].post[1] \in Kind /\ sending[m].post[2] \in Nat \ {0}
           /\ sending[m].attempt \in 1..PostAttempts
           /\ sending[m].post[1] = "say" =>
                 /\ running = m /\ sending[m].post[2] <= says[m]
                 /\ phase[m] \in AfterSlurp \ InReply
           /\ sending[m].post[1] = "reply" => phase[m] = "replying" /\ result[m] # "none"
<1>1. sending[m] \in Sending
  BY DEF Inv, Types, Posting
<1>2. OrderOf(m) /\ sending[m] # NoPost
  BY DEF Inv, EvalOrder, Posting
<1> QED BY <1>1, <1>2, SendingIs DEF OrderOf, Kind, InReply

\* A step of a thread, or of the worker, that posts for m.
LEMMA PosterKeeps ==
    ASSUME Inv, NEW m \in Code, UNCHANGED logVars, UNCHANGED nameVars,
           phase[m] \in AfterSlurp, NEW next \in AfterSlurp,
           phase' \in [Message -> Phase], phase'[m] = next,
           \A x \in Message \ {m} : phase'[x] = phase[x]
    PROVE  Paths' /\ LinesPlaced'
<1>1. m \in Message
  BY MessagesAssumption
<1>2. m \notin asking
  BY DEF Inv, Paths, AfterSlurp, Cache
<1>3. Paths'
  BY <1>1, <1>2, MessagesAssumption DEF Inv, Paths, Types, nameVars, CodePhase
<1>4. LinesPlaced'
  BY <1>1, LinesKept, MessagesAssumption DEF logVars
<1> QED BY <1>3, <1>4

LEMMA SayInv ==
    ASSUME Inv, NEW m \in Code, Say(m)
    PROVE  Inv'
<1> DEFINE n == says[m] + 1
           post == <<"say", n>>
<1>1. /\ running = m /\ sending[m] = NoPost /\ n \in 1..MaxSays /\ n \in Nat \ {0}
      /\ says'[m] = n /\ \A c \in Code \ {m} : says'[c] = says[c]
      /\ sending'[m] = First(post) /\ \A c \in Code \ {m} : sending'[c] = sending[c]
      /\ says' \in [Code -> 0..MaxSays] /\ DOMAIN sending' = Code
      /\ sending' = [sending EXCEPT ![m] = First(post)]
  BY BoundsAssumption DEF Say, Inv, Types
<1>2. /\ First(post) \in Sending /\ First(post) # NoPost
      /\ First(post).post = post /\ First(post).attempt = 1
  BY <1>1, FirstIs DEF Kind
<1>3. post \in Post /\ post[1] = "say" /\ post[2] = n
  BY <1>1, PostIs
<1> HIDE DEF n, post
<1>4. phase[m] \notin InReply /\ result[m] = "none"
  BY <1>1 DEF Inv, EvalOrder, OrderOf
<1>5. Types'
  <2>1. sending' \in [Code -> {NoPost} \cup Sending]
    BY <1>1, <1>2 DEF Inv, Types
  <2> QED BY <1>1, <2>1 DEF Inv, Types, Say, logVars, nameVars
<1>6. Paths' /\ LinesPlaced'
  <2>1. Paths'
    BY DEF Inv, Paths, Say, nameVars
  <2> QED BY <2>1, LinesKept DEF Say, logVars
<1>7. EvalOrder'
  <2> SUFFICES ASSUME NEW c \in Code PROVE OrderOf(c)'
    BY DEF EvalOrder
  <2>1. OrderOf(c) /\ UNCHANGED <<phase, queue, running, result>>
    BY DEF Inv, EvalOrder, Say
  <2>2. CASE c = m
    BY <1>1, <1>2, <1>3, <1>4, <2>1, <2>2 DEF OrderOf, InReply
  <2>3. CASE c # m
    BY <1>1, <2>1, <2>3 DEF OrderOf
  <2> QED BY <2>2, <2>3
<1>8. UNCHANGED <<phase, reply, late, posted, doubtful>>
  BY DEF Say
<1>9. CopiesCounted'
  <2> SUFFICES ASSUME NEW c \in Code, NEW p \in Post PROVE CopiesAre(c, p)'
    BY DEF CopiesCounted
  <2>1. CopiesAre(c, p)
    BY DEF Inv, CopiesCounted
  <2>2. CASE c # m
    <3>1. Ahead(c, p)' <=> Ahead(c, p)
      BY <1>1, <2>2 DEF Ahead, Say
    <3>2. Copies(c, p)' = Copies(c, p) /\ sending'[c] = sending[c]
      BY <1>1, <1>8, <2>2 DEF Copies
    <3> QED BY <1>8, <2>1, <3>1, <3>2 DEF CopiesAre
  <2>3. CASE c = m
    <3>1. Ahead(m, p)' => Ahead(m, p)
      <4>1. p[2] \in Nat /\ says[m] \in Nat
        BY PostIs DEF Inv, Types
      <4> QED BY <1>1, <1>4, <4>1 DEF Ahead, Say, n
    <3>2. p = post => Ahead(m, p)
      <4>1. says[m] \in Nat
        BY DEF Inv, Types
      <4> QED BY <1>3, <4>1 DEF Ahead, n
    <3>3. Copies(m, p) \in Nat
      BY CopiesAreNat DEF Inv
    <3>4. Copies(c, p)' = Copies(c, p)
      BY <1>8 DEF Copies
    <3>5. sending'[c].post = post /\ sending'[c].attempt = 1
      BY <1>1, <1>2, <2>3
    <3> QED BY <1>8, <2>1, <2>3, <3>1, <3>2, <3>3, <3>4, <3>5 DEF CopiesAre
  <2> QED BY <2>2, <2>3
<1>10. InOrder'
  <2> SUFFICES ASSUME NEW c \in Code, NEW i \in 1..MaxMessages PROVE OrderIs(c, i)'
    BY DEF InOrder
  <2> DEFINE p == <<"reply", i>>
  <2>0. p \in Post
    BY PostIs
  <2> HIDE DEF p
  <2>1. OrderIs(c, i) /\ Copies(c, p)' = Copies(c, p)
    BY <1>8, <2>0 DEF Inv, InOrder, Copies
  <2> QED BY <1>1, <1>4, <1>8, <2>1 DEF OrderIs, InReply, p
<1> QED BY <1>5, <1>6, <1>7, <1>9, <1>10 DEF Inv

LEMMA ReceiveInv ==
    ASSUME Inv, NEW m \in Code, Receive(m)
    PROVE  Inv'
<1>1. /\ m \in Message /\ phase[m] = "waiting" /\ result[m] # "none"
      /\ phase[m] \in AfterSlurp /\ phase[m] \notin InReply
      /\ {"failed", "silent", "replying"} \subseteq AfterSlurp \cap Phase
      /\ "replying" \in InReply /\ "failed" \notin InReply /\ "silent" \notin InReply
  BY MessagesAssumption DEF Receive, AfterSlurp, InReply, Phase, CodePhase
<1>2. sending[m] = NoPost
  BY <1>1, Zenon DEF Inv, EvalOrder, OrderOf, InReply
<1>3. UNCHANGED <<logVars, nameVars, evalVars, late, failures, posted, doubtful>>
  BY DEF Receive
<1>4. CASE reply[m] = 0
  <2> DEFINE next == IF result[m] = "raised" THEN "failed" ELSE "silent"
  <2>1. Go(m, next) /\ sending' = sending
    BY <1>4 DEF Receive
  <2>2. next \in AfterSlurp \cap Phase /\ next \notin InReply
    BY <1>1
  <2> HIDE DEF next
  <2>3. /\ phase' \in [Message -> Phase] /\ phase'[m] = next
        /\ \A x \in Message \ {m} : phase'[x] = phase[x]
    BY <1>1, <2>1, <2>2, GoIs DEF Inv
  <2>4. Paths' /\ LinesPlaced'
    BY <1>1, <1>3, <2>2, <2>3, PosterKeeps
  <2>5. Types'
    BY <1>3, <2>1, <2>3 DEF Inv, Types, Phase, logVars, nameVars, evalVars
  <2>6. EvalOrder' /\ CopiesCounted' /\ InOrder'
    BY <1>1, <1>3, <2>1, <2>2, <2>3, OrderKept, PostsKept, MessagesAssumption DEF evalVars
  <2> QED BY <2>4, <2>5, <2>6 DEF Inv
<1>5. CASE reply[m] # 0
  <2> DEFINE post == <<"reply", 1>>
  <2>1. Go(m, "replying") /\ sending' = [sending EXCEPT ![m] = First(post)]
    BY <1>5 DEF Receive
  <2>2. /\ phase' \in [Message -> Phase] /\ phase'[m] = "replying"
        /\ \A x \in Message \ {m} : phase'[x] = phase[x]
    BY <1>1, <2>1, GoIs DEF Inv
  <2>3. /\ First(post) \in Sending /\ First(post) # NoPost
        /\ First(post).post = post /\ First(post).attempt = 1
        /\ post[1] = "reply" /\ post[2] = 1
    BY FirstIs DEF Kind
  <2> HIDE DEF post
  <2>4. /\ sending' \in [Code -> {NoPost} \cup Sending] /\ sending'[m] = First(post)
        /\ \A c \in Code \ {m} : sending'[c] = sending[c]
    BY <2>1, <2>3 DEF Inv, Types
  <2>5. Paths' /\ LinesPlaced'
    BY <1>1, <1>3, <2>2, PosterKeeps
  <2>6. Types'
    BY <1>3, <2>2, <2>4 DEF Inv, Types, Phase, logVars, nameVars, evalVars
  <2>7. EvalOrder'
    <3> SUFFICES ASSUME NEW c \in Code PROVE OrderOf(c)'
      BY DEF EvalOrder
    <3>1. OrderOf(c) /\ UNCHANGED <<queue, running, says, result>>
      BY <1>3 DEF Inv, EvalOrder, evalVars
    <3>2. CASE c = m
      BY <1>1, <2>2, <2>3, <2>4, <3>1, <3>2 DEF OrderOf
    <3>3. CASE c # m
      BY <2>2, <2>4, <3>1, <3>3, MessagesAssumption DEF OrderOf
    <3> QED BY <3>2, <3>3
  <2>8. CopiesCounted'
    <3> SUFFICES ASSUME NEW c \in Code, NEW p \in Post PROVE CopiesAre(c, p)'
      BY DEF CopiesCounted
    <3>1. CopiesAre(c, p) /\ Copies(c, p)' = Copies(c, p) /\ Copies(c, p) \in Nat
      BY <1>3, CopiesAreNat DEF Inv, CopiesCounted, Copies
    <3>2. CASE c = m
      <4>1. p[1] = "reply" => Ahead(c, p)
        BY <1>1, <3>2 DEF Ahead
      <4>2. Ahead(c, p)' => Ahead(c, p)
        BY <1>1, <1>3, <3>2, <4>1 DEF Ahead, evalVars
      <4>3. p = post => Ahead(c, p)
        BY <2>3, <4>1
      <4> QED BY <1>3, <2>3, <2>4, <3>1, <3>2, <4>2, <4>3 DEF CopiesAre
    <3>3. CASE c # m
      <4>1. Ahead(c, p)' <=> Ahead(c, p)
        BY <1>3, <2>2, <2>4, <3>3, MessagesAssumption DEF Ahead, evalVars
      <4> QED BY <1>3, <2>4, <3>1, <3>3, <4>1 DEF CopiesAre
    <3> QED BY <3>2, <3>3
  <2>9. InOrder'
    <3> SUFFICES ASSUME NEW c \in Code, NEW i \in 1..MaxMessages PROVE OrderIs(c, i)'
      BY DEF InOrder
    <3> DEFINE p == <<"reply", i>>
    <3>1. p \in Post
      BY PostIs
    <3> HIDE DEF p
    <3>2. OrderIs(c, i) /\ Copies(c, p)' = Copies(c, p) /\ UNCHANGED <<posted, reply>>
      BY <1>3, <3>1 DEF Inv, InOrder, Copies, evalVars
    <3>3. CASE c = m
      BY <2>2, <2>3, <2>4, <3>2, <3>3, FormatAssumption DEF OrderIs, p
    <3>4. CASE c # m
      BY <2>2, <2>4, <3>2, <3>4, MessagesAssumption DEF OrderIs, p
    <3> QED BY <3>3, <3>4
  <2> QED BY <2>5, <2>6, <2>7, <2>8, <2>9 DEF Inv
<1> QED BY <1>4, <1>5

\* A post of m returns or fails: every post but that one is as it was.
LEMMA OthersKept ==
    ASSUME Inv, NEW m \in Code, Posting(m), NEW next \in Phase,
           phase' \in [Message -> Phase], phase'[m] = next,
           \A x \in Message \ {m} : phase'[x] = phase[x],
           \A c \in Code \ {m} : sending'[c] = sending[c],
           UNCHANGED evalVars,
           NEW c \in Code, c # m
    PROVE  /\ OrderOf(c)'
           /\ \A p : Ahead(c, p)' <=> Ahead(c, p)
<1>1. OrderOf(c) /\ UNCHANGED <<queue, running, says, result>>
  BY DEF Inv, EvalOrder, evalVars
<1>2. phase'[c] = phase[c] /\ sending'[c] = sending[c]
  BY MessagesAssumption
<1> QED BY <1>1, <1>2 DEF OrderOf, Ahead

LEMMA PostReturnsInv ==
    ASSUME Inv, NEW m \in Code, PostReturns(m)
    PROVE  Inv'
<1> DEFINE post == sending[m].post
           i == post[2]
           on == post[1] = "reply" /\ ~LastMessage(m)
           s == IF on THEN First(<<"reply", i + 1>>) ELSE NoPost
           next == IF post[1] = "reply" /\ LastMessage(m) THEN "answered" ELSE phase[m]
<1>1. /\ Posting(m) /\ Landed(m, post) /\ sending' = [sending EXCEPT ![m] = s]
      /\ UNCHANGED <<logVars, nameVars, evalVars, late, failures, doubtful>>
      /\ IF post[1] = "reply" /\ LastMessage(m) THEN Go(m, "answered") ELSE UNCHANGED phase
  BY Zenon DEF PostReturns
<1>2. /\ post \in SomePost /\ post = <<post[1], i>> /\ i \in Nat \ {0}
      /\ post[1] \in Kind /\ sending[m].attempt \in 1..PostAttempts
      /\ sending[m] # NoPost /\ m \in Message
      /\ post[1] = "say" => /\ running = m /\ i <= says[m] /\ phase[m] \in AfterSlurp \ InReply
      /\ post[1] = "reply" => phase[m] = "replying" /\ result[m] # "none"
  BY <1>1, PostingIs, MessagesAssumption DEF Posting
<1>3. LastMessage(m) <=> i = reply[m]
  BY DEF LastMessage
<1>4. /\ post[1] = "say" => s = NoPost /\ next = phase[m]
      /\ on => /\ s = First(<<"reply", i + 1>>) /\ s \in Sending /\ s # NoPost
                /\ s.post = <<"reply", i + 1>> /\ s.attempt = 1 /\ next = "replying"
      /\ post[1] = "reply" /\ ~on => s = NoPost /\ next = "answered" /\ i = reply[m]
  <2>1. First(<<"reply", i + 1>>) \in Sending /\ First(<<"reply", i + 1>>) # NoPost
        /\ First(<<"reply", i + 1>>).post = <<"reply", i + 1>> /\ First(<<"reply", i + 1>>).attempt = 1
    BY <1>2, FirstIs DEF Kind
  <2> QED BY <1>2, <1>3, <2>1
<1>5. /\ phase[m] \in AfterSlurp /\ next \in AfterSlurp /\ next \in Phase
      /\ phase \in [Message -> Phase]
  BY <1>2 DEF AfterSlurp, InReply, Kind, Phase, CodePhase, Inv, Types
<1>6. /\ phase' \in [Message -> Phase] /\ phase'[m] = next
      /\ \A x \in Message \ {m} : phase'[x] = phase[x]
  <2>1. CASE post[1] = "reply" /\ LastMessage(m)
    BY <1>1, <1>2, <1>5, <2>1, GoIs DEF Inv
  <2>2. CASE ~(post[1] = "reply" /\ LastMessage(m))
    BY <1>1, <1>2, <1>5, <2>2
  <2> QED BY <2>1, <2>2
<1>7. post[1] = "say" \/ on \/ (post[1] = "reply" /\ ~on)
  BY <1>2 DEF Kind
<1>8. s \in {NoPost} \cup Sending
  BY <1>4, <1>7
<1>9. /\ posted' \in [Code -> [Post -> Nat]]
      /\ \A c \in Code, p \in Post :
             posted'[c][p] = posted[c][p] + (IF c = m /\ p = post THEN 1 ELSE 0)
  BY <1>1, LandedIs DEF Inv
<1>p. post[1] = "reply" => post = <<"reply", i>>
  BY <1>2
<1> HIDE DEF post, i, on, s, next
<1>10. /\ sending' \in [Code -> {NoPost} \cup Sending] /\ sending'[m] = s
       /\ \A c \in Code \ {m} : sending'[c] = sending[c]
  BY <1>1, <1>8 DEF Inv, Types
<1>11. Types'
  BY <1>1, <1>6, <1>9, <1>10 DEF Inv, Types, Phase, logVars, nameVars, evalVars
<1>12. Paths' /\ LinesPlaced'
  BY <1>1, <1>5, <1>6, PosterKeeps
<1>13. ASSUME NEW c \in Code, c # m
       PROVE  OrderOf(c)' /\ \A p : Ahead(c, p)' <=> Ahead(c, p)
  BY <1>1, <1>5, <1>6, <1>10, <1>13, OthersKept
<1>14. EvalOrder'
  <2>1. OrderOf(m)'
    <3>1. OrderOf(m) /\ UNCHANGED <<queue, running, says, result>>
      BY <1>1 DEF Inv, EvalOrder, evalVars
    <3>2. CASE post[1] = "say"
      BY <1>2, <1>4, <1>5, <1>6, <1>10, <3>1, <3>2 DEF OrderOf, InReply
    <3>3. CASE on
      BY <1>2, <1>4, <1>5, <1>6, <1>10, <3>1, <3>3 DEF OrderOf, InReply, on
    <3>4. CASE post[1] = "reply" /\ ~on
      BY <1>2, <1>4, <1>5, <1>6, <1>10, <3>1, <3>4 DEF OrderOf, InReply
    <3> QED BY <1>7, <3>2, <3>3, <3>4
  <2> QED BY <1>13, <2>1 DEF EvalOrder
<1>15. CopiesCounted'
  <2> SUFFICES ASSUME NEW c \in Code, NEW p \in Post PROVE CopiesAre(c, p)'
    BY DEF CopiesCounted
  <2>0. CopiesAre(c, p) /\ Copies(c, p) \in Nat /\ posted[c][p] \in Nat
    BY CopiesAreNat DEF Inv, CopiesCounted
  <2>1. /\ CopiesAre(c, p) /\ Copies(c, p) \in Nat
        /\ Copies(c, p)' = Copies(c, p) + (IF c = m /\ p = post THEN 1 ELSE 0)
    BY <1>1, <1>9, <2>0 DEF Copies
  <2>2. CASE c # m
    BY <1>1, <1>10, <1>13, <2>1, <2>2 DEF CopiesAre
  <2>3. CASE c = m
    <3>1. p \in SomePost /\ p[2] \in Nat
      BY PostIs
    <3>2. Ahead(m, p)' => Ahead(m, p) /\ p # post
      <4>1. UNCHANGED says /\ says[m] \in Nat
        BY <1>1 DEF evalVars, Inv, Types
      <4>2. CASE post[1] = "say"
        BY <1>2, <1>4, <1>6, <4>1, <4>2 DEF Ahead, InReply, i
      <4>3. CASE on
        BY <1>2, <1>4, <1>6, <1>10, <3>1, <4>1, <4>3 DEF Ahead, InReply, i, on, post
      <4>4. CASE post[1] = "reply" /\ ~on
        BY <1>2, <1>4, <1>6, <1>10, <4>1, <4>4 DEF Ahead, InReply
      <4> QED BY <1>7, <4>2, <4>3, <4>4
    <3>3. p = post => /\ Copies(m, p) < sending[m].attempt
                      /\ <<m, p>> \notin doubtful => Copies(m, p) = 0
      BY <1>2, <2>1, <2>3 DEF CopiesAre, post
    <3>4. s # NoPost /\ s.post = p => Ahead(m, p) /\ p # post
      BY <1>2, <1>4, <1>7 DEF Ahead, i, on, post
    <3>5. s # NoPost => s.attempt = 1
      BY <1>4, <1>7
    <3> QED BY <1>1, <1>2, <1>10, <2>1, <2>3, <3>2, <3>3, <3>4, <3>5, BoundsAssumption DEF CopiesAre
  <2> QED BY <2>2, <2>3
<1>16. InOrder'
  <2> SUFFICES ASSUME NEW c \in Code, NEW k \in 1..MaxMessages PROVE OrderIs(c, k)'
    BY DEF InOrder
  <2> DEFINE p == <<"reply", k>>
  <2>1. /\ p \in Post /\ k \in Nat
        /\ \A j \in 1..(k - 1) : j \in 1..MaxMessages /\ <<"reply", j>> \in Post
    BY PostIs, FormatAssumption
  <2>2. /\ OrderIs(c, k) /\ reply' = reply
        /\ \A j \in 1..(k - 1) : OrderIs(c, j)
    BY <1>1, <2>1 DEF Inv, InOrder, evalVars
  <2>3. \A q \in Post : posted[c][q] \in Nat /\ posted'[c][q] \in Nat /\ posted'[c][q] >= posted[c][q]
    BY <1>9, CopiesAreNat DEF Inv
  <2>4. Copies(c, p)' = Copies(c, p) + (IF c = m /\ p = post THEN 1 ELSE 0)
    BY <1>1, <1>9, <2>1, <2>3 DEF Copies
  <2>5. c = m /\ p = post => posted'[c][p] > 0
    BY <1>9, <2>1, <2>3
  <2>6. p = post <=> post[1] = "reply" /\ k = i
    BY <1>2, <1>p
  <2> HIDE DEF p
  <2>7. ASSUME Copies(c, p)' > 0, NEW j \in 1..(k - 1)
        PROVE  posted'[c][<<"reply", j>>] > 0
    <3>1. CASE c = m /\ p = post
      <4>1. phase[m] = "replying" /\ j < sending[m].post[2]
        BY <1>2, <2>1, <2>6, <3>1 DEF i, post
      <4>2. posted[c][<<"reply", j>>] > 0
        BY <2>2, <3>1, <4>1 DEF OrderIs
      <4> QED BY <2>1, <2>3, <4>2
    <3>2. CASE ~(c = m /\ p = post)
      <4>1. Copies(c, p) > 0
        BY <2>1, <2>4, <2>7, <3>2, CopiesAreNat DEF Inv
      <4>2. posted[c][<<"reply", j>>] > 0
        BY <2>2, <4>1 DEF OrderIs, p
      <4> QED BY <2>1, <2>3, <4>2
    <3> QED BY <3>1, <3>2
  <2>8. ASSUME phase'[c] = "replying", k < sending'[c].post[2]
        PROVE  posted'[c][p] > 0
    <3>1. CASE c = m
      <4>1. on /\ sending'[m].post[2] = i + 1
        BY <1>2, <1>4, <1>6, <1>7, <1>10, <2>8, <3>1 DEF InReply
      <4>2. k = i \/ k < i
        BY <1>2, <2>1, <2>8, <3>1, <4>1
      <4>3. CASE k = i
        BY <2>5, <2>6, <3>1, <4>1, <4>3 DEF on
      <4>4. CASE k < i
        <5>1. posted[c][p] > 0
          BY <1>2, <2>2, <3>1, <4>1, <4>4 DEF OrderIs, p, i, post, on
        <5> QED BY <2>1, <2>3, <5>1
      <4> QED BY <4>2, <4>3, <4>4
    <3>2. CASE c # m
      <4>1. phase'[c] = phase[c] /\ sending'[c] = sending[c]
        BY <1>6, <1>10, <3>2, MessagesAssumption
      <4>2. posted[c][p] > 0
        BY <2>2, <2>8, <4>1 DEF OrderIs, p
      <4> QED BY <2>1, <2>3, <4>2
    <3> QED BY <3>1, <3>2
  <2>9. ASSUME phase'[c] = "answered", k <= reply'[c]
        PROVE  posted'[c][p] > 0
    <3>1. CASE c = m
      <4>1. post[1] = "reply" /\ ~on /\ i = reply[m]
        BY <1>2, <1>4, <1>6, <1>7, <2>9, <3>1 DEF InReply
      <4>2. k = i \/ k < i
        BY <1>2, <2>1, <2>2, <2>9, <3>1, <4>1
      <4>3. CASE k = i
        BY <2>5, <2>6, <3>1, <4>1, <4>3
      <4>4. CASE k < i
        <5>1. posted[c][p] > 0
          BY <1>2, <2>2, <3>1, <4>1, <4>4 DEF OrderIs, p, i, post
        <5> QED BY <2>1, <2>3, <5>1
      <4> QED BY <4>2, <4>3, <4>4
    <3>2. CASE c # m
      <4>1. phase'[c] = phase[c]
        BY <1>6, <3>2, MessagesAssumption
      <4>2. posted[c][p] > 0
        BY <2>2, <2>9, <4>1 DEF OrderIs, p
      <4> QED BY <2>1, <2>3, <4>2
    <3> QED BY <3>1, <3>2
  <2> QED BY <2>7, <2>8, <2>9 DEF OrderIs, p
<1> QED BY <1>11, <1>12, <1>14, <1>15, <1>16 DEF Inv

Fates == {"lost", "taken", "later"}

\* What a post that fails may leave in the channel.
LEMMA FateTypes ==
    ASSUME Types, NEW m \in Code, NEW fate \in Fates, Fate(m, fate),
           sending[m].post \in SomePost
    PROVE  /\ posted' \in [Code -> [Post -> Nat]]
           /\ late' \in SUBSET (Code \X SomePost)
           /\ doubtful' \in SUBSET (Code \X SomePost)
           /\ \A c \in Code, p \in Post : posted'[c][p] >= posted[c][p]
<1>1. /\ late' \in SUBSET (Code \X SomePost) /\ doubtful' \in SUBSET (Code \X SomePost)
  BY DEF Fate, Types
<1>2. \A c \in Code, p \in Post : posted[c][p] \in Nat
  BY DEF Types
<1>3. CASE fate = "taken"
  <2>1. Landed(m, sending[m].post)
    BY <1>3 DEF Fate
  <2> QED BY <1>1, <1>2, <2>1, LandedIs
<1>4. CASE fate # "taken"
  <2>1. posted' = posted
    BY <1>4 DEF Fate
  <2> QED BY <1>1, <1>2, <2>1 DEF Types
<1> QED BY <1>3, <1>4

LEMMA FateIs ==
    ASSUME Types, NEW m \in Code, NEW fate \in Fates, Fate(m, fate),
           fate = "later" => late = {},
           NEW c \in Code, NEW p \in Post
    PROVE  /\ ~(c = m /\ p = sending[m].post) =>
                 /\ Copies(c, p)' = Copies(c, p)
                 /\ <<c, p>> \in doubtful' <=> <<c, p>> \in doubtful
           /\ c = m /\ p = sending[m].post =>
                 /\ Copies(c, p)' \in Nat /\ Copies(c, p)' <= Copies(c, p) + 1
                 /\ <<c, p>> \notin doubtful' =>
                       <<c, p>> \notin doubtful /\ Copies(c, p)' = Copies(c, p)
<1> DEFINE post == sending[m].post
<1>1. posted[c][p] \in Nat /\ Copies(c, p) \in Nat
  BY CopiesAreNat
<1>2. CASE fate = "lost"
  <2>1. posted' = posted /\ late' = late /\ doubtful' = doubtful
    BY <1>2, Zenon DEF Fate
  <2>2. Copies(c, p)' = Copies(c, p)
    BY <2>1 DEF Copies
  <2> QED BY <1>1, <2>1, <2>2
<1>3. CASE fate = "taken"
  <2>1. Landed(m, post) /\ late' = late /\ doubtful' = doubtful \cup {<<m, post>>}
    BY <1>3 DEF Fate
  <2>2. posted'[c][p] = posted[c][p] + (IF c = m /\ p = post THEN 1 ELSE 0)
    BY <2>1, LandedIs
  <2> HIDE DEF post
  <2>3. Copies(c, p)' = Copies(c, p) + (IF c = m /\ p = post THEN 1 ELSE 0)
    BY <1>1, <2>1, <2>2 DEF Copies
  <2>4. <<c, p>> \in doubtful' <=> <<c, p>> \in doubtful \/ (c = m /\ p = post)
    BY <2>1
  <2> QED BY <1>1, <2>3, <2>4 DEF post
<1>4. CASE fate = "later"
  <2>1. /\ posted' = posted /\ late = {} /\ late' = {<<m, post>>}
        /\ doubtful' = doubtful \cup {<<m, post>>}
    BY <1>4 DEF Fate
  <2> HIDE DEF post
  <2>2. <<c, p>> \in late' <=> c = m /\ p = post
    BY <2>1
  <2>3. Copies(c, p)' = Copies(c, p) + (IF c = m /\ p = post THEN 1 ELSE 0)
    BY <1>1, <2>1, <2>2 DEF Copies
  <2>4. <<c, p>> \in doubtful' <=> <<c, p>> \in doubtful \/ (c = m /\ p = post)
    BY <2>1
  <2> QED BY <1>1, <2>3, <2>4 DEF post
<1> QED BY <1>2, <1>3, <1>4 DEF Fates

LEMMA PostFailsInv ==
    ASSUME Inv, NEW m \in Code, NEW transient \in BOOLEAN, NEW fate \in Fates,
           PostFails(m, transient, fate)
    PROVE  Inv'
<1> DEFINE post == sending[m].post
           i == post[2]
           gone == Raises(m, transient)
           s == IF gone THEN NoPost ELSE [sending[m] EXCEPT !.attempt = @ + 1]
           next == IF gone /\ post[1] = "reply" THEN "unposted" ELSE phase[m]
<1>1. /\ Posting(m) /\ Fate(m, fate)
      /\ fate = "later" => late = {}
      /\ failures < MaxFailures /\ failures' = failures + 1
      /\ UNCHANGED <<logVars, nameVars, evalVars>>
  BY DEF PostFails
<1>2. /\ post \in SomePost /\ post = <<post[1], i>> /\ i \in Nat \ {0}
      /\ post[1] \in Kind /\ sending[m].attempt \in 1..PostAttempts
      /\ sending[m] # NoPost /\ sending[m] \in Sending /\ m \in Message
      /\ post[1] = "say" => /\ running = m /\ i <= says[m] /\ phase[m] \in AfterSlurp \ InReply
      /\ post[1] = "reply" => phase[m] = "replying" /\ result[m] # "none"
  BY <1>1, PostingIs, MessagesAssumption DEF Posting
<1>3. /\ gone => s = NoPost
      /\ ~gone => /\ s \in Sending /\ s # NoPost /\ s.post = post
                 /\ s.attempt = sending[m].attempt + 1 /\ next = phase[m]
      /\ post[1] = "say" => next = phase[m]
      /\ gone /\ post[1] = "reply" => next = "unposted"
  <2>1. ~gone => sending[m].attempt + 1 \in 1..PostAttempts
    BY <1>2, BoundsAssumption DEF Raises
  <2>2. ~gone => [sending[m] EXCEPT !.attempt = @ + 1]
                   = [post |-> post, attempt |-> sending[m].attempt + 1]
    BY <1>2 DEF Sending
  <2>3. ~gone => s \in Sending /\ s.post = post /\ s.attempt = sending[m].attempt + 1
    BY <1>2, <2>1, <2>2 DEF Sending
  <2> QED BY <1>2, <2>3, NoPostIs DEF Kind
<1>4. /\ phase[m] \in AfterSlurp /\ next \in AfterSlurp /\ next \in Phase
      /\ phase \in [Message -> Phase]
  BY <1>2 DEF AfterSlurp, InReply, Kind, Phase, CodePhase, Inv, Types
<1>5. sending' = [sending EXCEPT ![m] = s]
  <2>1. CASE gone
    BY <2>1 DEF PostFails, AfterRaise
  <2>2. CASE ~gone
    BY <2>2 DEF PostFails
  <2> QED BY <2>1, <2>2
<1>6. /\ phase' \in [Message -> Phase] /\ phase'[m] = next
      /\ \A x \in Message \ {m} : phase'[x] = phase[x]
  <2>1. CASE gone /\ post[1] = "reply"
    <3>1. Go(m, next)
      BY <2>1 DEF PostFails, AfterRaise
    <3> QED BY <1>2, <1>4, <3>1, GoIs DEF Inv
  <2>2. CASE ~(gone /\ post[1] = "reply")
    <3>1. phase' = phase
      BY <2>2 DEF PostFails, AfterRaise
    <3> QED BY <1>2, <1>4, <2>2, <3>1
  <2> QED BY <2>1, <2>2
<1>7. s \in {NoPost} \cup Sending /\ (post[1] = "say" \/ post[1] = "reply")
  BY <1>2, <1>3 DEF Kind
<1>8. /\ posted' \in [Code -> [Post -> Nat]]
      /\ late' \in SUBSET (Code \X SomePost)
      /\ doubtful' \in SUBSET (Code \X SomePost)
      /\ \A c \in Code, p \in Post : posted'[c][p] >= posted[c][p]
  BY <1>1, <1>2, FateTypes DEF Inv
<1> HIDE DEF gone, s, next
<1>9. /\ sending' \in [Code -> {NoPost} \cup Sending] /\ sending'[m] = s
      /\ \A c \in Code \ {m} : sending'[c] = sending[c]
  BY <1>5, <1>7 DEF Inv, Types
<1>10. Types'
  <2>1. failures' \in 0..MaxFailures
    BY <1>1, BoundsAssumption DEF Inv, Types
  <2> QED BY <1>1, <1>6, <1>8, <1>9, <2>1 DEF Inv, Types, Phase, logVars, nameVars, evalVars
<1>11. Paths' /\ LinesPlaced'
  BY <1>1, <1>4, <1>6, PosterKeeps
<1>12. ASSUME NEW c \in Code, c # m
       PROVE  OrderOf(c)' /\ \A p : Ahead(c, p)' <=> Ahead(c, p)
  BY <1>1, <1>4, <1>6, <1>9, <1>12, OthersKept
<1> HIDE DEF post, i
<1>13. EvalOrder'
  <2>1. OrderOf(m)'
    <3>1. OrderOf(m) /\ UNCHANGED <<queue, running, says, result>>
      BY <1>1 DEF Inv, EvalOrder, evalVars
    <3>2. CASE post[1] = "say"
      BY <1>2, <1>3, <1>4, <1>6, <1>9, <3>1, <3>2 DEF OrderOf, InReply, i
    <3>3. CASE post[1] = "reply"
      BY <1>2, <1>3, <1>4, <1>6, <1>9, <3>1, <3>3 DEF OrderOf, InReply
    <3> QED BY <1>7, <3>2, <3>3
  <2> QED BY <1>12, <2>1 DEF EvalOrder
<1>14. ASSUME NEW c \in Code, NEW p \in Post
       PROVE  /\ ~(c = m /\ p = post) =>
                    /\ Copies(c, p)' = Copies(c, p)
                    /\ <<c, p>> \in doubtful' <=> <<c, p>> \in doubtful
              /\ c = m /\ p = post =>
                    /\ Copies(c, p)' \in Nat /\ Copies(c, p)' <= Copies(c, p) + 1
                    /\ <<c, p>> \notin doubtful' =>
                          <<c, p>> \notin doubtful /\ Copies(c, p)' = Copies(c, p)
  BY <1>1, FateIs DEF Inv, post
<1>15. CopiesCounted'
  <2> SUFFICES ASSUME NEW c \in Code, NEW p \in Post PROVE CopiesAre(c, p)'
    BY DEF CopiesCounted
  <2>1. CopiesAre(c, p) /\ Copies(c, p) \in Nat
    BY CopiesAreNat DEF Inv, CopiesCounted
  <2>2. CASE c # m
    <3>1. /\ Copies(c, p)' = Copies(c, p)
          /\ <<c, p>> \in doubtful' <=> <<c, p>> \in doubtful
      BY <1>14, <2>2
    <3>2. sending'[c] = sending[c] /\ (Ahead(c, p)' <=> Ahead(c, p))
      BY <1>9, <1>12, <2>2
    <3> QED BY <2>1, <3>1, <3>2 DEF CopiesAre
  <2>3. CASE c = m
    <3>1. Ahead(m, p)' => Ahead(m, p) /\ p # post
      <4>1. UNCHANGED says /\ says[m] \in Nat
        BY <1>1 DEF evalVars, Inv, Types
      <4>2. CASE post[1] = "say"
        BY <1>2, <1>3, <1>6, <4>1, <4>2 DEF Ahead, InReply, i
      <4>3. CASE post[1] = "reply" /\ gone
        BY <1>2, <1>3, <1>6, <4>1, <4>3 DEF Ahead, InReply
      <4>4. CASE post[1] = "reply" /\ ~gone
        BY <1>2, <1>3, <1>6, <1>9, <4>1, <4>4 DEF Ahead, InReply, i, post
      <4> QED BY <1>7, <4>2, <4>3, <4>4
    <3>2. CASE p # post
      <4>1. /\ Copies(c, p)' = Copies(c, p)
            /\ <<c, p>> \in doubtful' <=> <<c, p>> \in doubtful
        BY <1>14, <3>2
      <4>2. ~(sending'[c] # NoPost /\ sending'[c].post = p)
        BY <1>3, <1>9, <2>3, <3>2
      <4> QED BY <2>1, <2>3, <3>1, <4>1, <4>2 DEF CopiesAre
    <3>3. CASE p = post
      <4>1. /\ Copies(c, p)' \in Nat /\ Copies(c, p)' <= Copies(c, p) + 1
            /\ <<c, p>> \notin doubtful' =>
                  <<c, p>> \notin doubtful /\ Copies(c, p)' = Copies(c, p)
        BY <1>14, <2>3, <3>3
      <4>2. /\ Copies(c, p) < sending[c].attempt
            /\ <<c, p>> \notin doubtful => Copies(c, p) = 0
        BY <1>2, <2>1, <2>3, <3>3 DEF CopiesAre, post
      <4>3. Copies(c, p)' <= sending[c].attempt /\ Copies(c, p)' <= PostAttempts
        BY <1>2, <2>1, <2>3, <4>1, <4>2, BoundsAssumption
      <4>4. sending'[c] # NoPost => sending'[c].attempt = sending[c].attempt + 1
        BY <1>3, <1>9, <2>3
      <4>5. sending'[c] # NoPost => Copies(c, p)' < sending'[c].attempt
        BY <1>2, <2>3, <4>1, <4>3, <4>4
      <4> QED BY <2>3, <3>1, <3>3, <4>1, <4>2, <4>3, <4>5 DEF CopiesAre
    <3> QED BY <3>2, <3>3
  <2> QED BY <2>2, <2>3
<1>16. InOrder'
  <2> SUFFICES ASSUME NEW c \in Code, NEW k \in 1..MaxMessages PROVE OrderIs(c, k)'
    BY DEF InOrder
  <2> DEFINE p == <<"reply", k>>
  <2>1. /\ p \in Post /\ k \in Nat
        /\ \A j \in 1..(k - 1) : j \in Nat /\ <<"reply", j>> \in Post
    BY PostIs, FormatAssumption
  <2>2. OrderIs(c, k) /\ reply' = reply
    BY <1>1, <2>1 DEF Inv, InOrder, evalVars
  <2>3. \A q \in Post : posted[c][q] > 0 => posted'[c][q] > 0
    BY <1>8, CopiesAreNat DEF Inv, Types
  <2>4. p = post => post[1] = "reply" /\ k = i
    BY <1>2
  <2> HIDE DEF p
  <2>5. ASSUME Copies(c, p)' > 0, NEW j \in 1..(k - 1)
        PROVE  posted'[c][<<"reply", j>>] > 0
    <3>1. CASE c = m /\ p = post
      <4>1. phase[m] = "replying" /\ j < sending[m].post[2]
        BY <1>2, <2>1, <2>4, <3>1 DEF i, post
      <4>2. OrderIs(m, j)
        BY <2>1, FormatAssumption DEF Inv, InOrder
      <4>3. posted[c][<<"reply", j>>] > 0
        BY <3>1, <4>1, <4>2 DEF OrderIs
      <4> QED BY <2>1, <2>3, <4>3
    <3>2. CASE ~(c = m /\ p = post)
      <4>1. Copies(c, p) > 0
        BY <1>14, <2>1, <2>5, <3>2
      <4>2. posted[c][<<"reply", j>>] > 0
        BY <2>2, <4>1 DEF OrderIs, p
      <4> QED BY <2>1, <2>3, <4>2
    <3> QED BY <3>1, <3>2
  <2>6. phase'[c] = "replying" => phase[c] = "replying" /\ sending'[c].post[2] = sending[c].post[2]
    <3>1. CASE c = m
      BY <1>2, <1>3, <1>6, <1>7, <1>9, <3>1 DEF InReply, post
    <3>2. CASE c # m
      BY <1>6, <1>9, <3>2, MessagesAssumption
    <3> QED BY <3>1, <3>2
  <2>7. phase'[c] = "answered" => phase[c] = "answered"
    <3>1. CASE c = m
      BY <1>2, <1>3, <1>6, <1>7, <3>1 DEF InReply
    <3>2. CASE c # m
      BY <1>6, <3>2, MessagesAssumption
    <3> QED BY <3>1, <3>2
  <2>8. /\ phase'[c] = "replying" /\ k < sending'[c].post[2] => posted'[c][p] > 0
        /\ phase'[c] = "answered" /\ k <= reply'[c] => posted'[c][p] > 0
    BY <2>1, <2>2, <2>3, <2>6, <2>7 DEF OrderIs, p
  <2> QED BY <2>5, <2>8 DEF OrderIs, p
<1> QED BY <1>10, <1>11, <1>13, <1>15, <1>16 DEF Inv

\* Slack takes a post after all: as many copies as before, counted or to come.
LEMMA TakenLateInv ==
    ASSUME Inv, NEW m \in Code, NEW post \in Post, TakenLate(m, post)
    PROVE  Inv'
<1>1. /\ <<m, post>> \in late /\ late' = late \ {<<m, post>>} /\ Landed(m, post)
      /\ UNCHANGED <<phase, logVars, nameVars, evalVars, sending, failures, doubtful>>
  BY DEF TakenLate
<1>2. /\ posted' \in [Code -> [Post -> Nat]]
      /\ \A c \in Code, p \in Post :
             posted'[c][p] = posted[c][p] + (IF c = m /\ p = post THEN 1 ELSE 0)
  BY <1>1, LandedIs DEF Inv
<1>3. Types'
  BY <1>1, <1>2 DEF Inv, Types, logVars, nameVars, evalVars
<1>4. Paths'
  BY <1>1 DEF Inv, Paths, nameVars
<1>5. LinesPlaced' /\ EvalOrder'
  BY <1>1, LinesKept, OrderKept DEF logVars, evalVars
<1>6. ASSUME NEW c \in Code, NEW p \in Post
      PROVE  /\ Copies(c, p)' = Copies(c, p) /\ (Ahead(c, p)' <=> Ahead(c, p))
             /\ posted[c][p] > 0 => posted'[c][p] > 0
  <2>1. posted[c][p] \in Nat /\ posted'[c][p] = posted[c][p] + (IF c = m /\ p = post THEN 1 ELSE 0)
    BY <1>2, CopiesAreNat DEF Inv
  <2>2. <<c, p>> \in late' <=> <<c, p>> \in late /\ ~(c = m /\ p = post)
    BY <1>1
  <2>3. Copies(c, p)' = Copies(c, p)
    BY <1>1, <2>1, <2>2 DEF Copies
  <2>4. Ahead(c, p)' <=> Ahead(c, p)
    BY <1>1 DEF Ahead, evalVars
  <2> QED BY <2>1, <2>3, <2>4
<1>7. CopiesCounted'
  <2> SUFFICES ASSUME NEW c \in Code, NEW p \in Post PROVE CopiesAre(c, p)'
    BY DEF CopiesCounted
  <2>1. CopiesAre(c, p) /\ Copies(c, p)' = Copies(c, p) /\ (Ahead(c, p)' <=> Ahead(c, p))
    BY <1>6 DEF Inv, CopiesCounted
  <2> QED BY <1>1, <2>1 DEF CopiesAre
<1>8. InOrder'
  <2> SUFFICES ASSUME NEW c \in Code, NEW k \in 1..MaxMessages PROVE OrderIs(c, k)'
    BY DEF InOrder
  <2> DEFINE p == <<"reply", k>>
  <2>1. p \in Post /\ \A j \in 1..(k - 1) : <<"reply", j>> \in Post
    BY PostIs, FormatAssumption
  <2> HIDE DEF p
  <2>2. OrderIs(c, k) /\ Copies(c, p)' = Copies(c, p) /\ reply' = reply
    BY <1>1, <1>6, <2>1 DEF Inv, InOrder, evalVars
  <2>3. /\ posted[c][p] > 0 => posted'[c][p] > 0
        /\ \A j \in 1..(k - 1) : posted[c][<<"reply", j>>] > 0 => posted'[c][<<"reply", j>>] > 0
    BY <1>6, <2>1
  <2> QED BY <1>1, <2>2, <2>3 DEF OrderIs, p
<1> QED BY <1>3, <1>4, <1>5, <1>7, <1>8 DEF Inv

-----------------------------------------------------------------------------
(* Every step. *)

LEMMA NextInv == Inv /\ [Next]_vars => Inv'
<1> SUFFICES ASSUME Inv, [Next]_vars PROVE Inv'
  OBVIOUS
<1>1. ASSUME NEW m \in Message, Handle(m) PROVE Inv'
  BY <1>1, IgnoreInv, UseCachedInv, AskInv, ToldInv, FindLogInv, AppendLineInv, SlurpInv, ReceiveInv
     DEF Handle
<1>2. ASSUME Worker PROVE Inv'
  BY <1>2, StartEvalInv, EndEvalInv DEF Worker, EvalReturns, EvalRaises
<1>3. ASSUME NEW m \in Code, Say(m) \/ GiveUp(m) \/ Sends(m) PROVE Inv'
  BY <1>3, SayInv, GiveUpInv, PostReturnsInv, PostFailsInv DEF Sends, Fates
<1>4. ASSUME NEW m \in Code, NEW post \in Post, TakenLate(m, post) PROVE Inv'
  BY <1>4, TakenLateInv
<1>5. ASSUME UNCHANGED vars PROVE Inv'
  <2>1. Types' /\ Paths'
    BY <1>5 DEF vars, logVars, nameVars, evalVars, postVars, Inv, Types, Paths
  <2>2. EvalOrder' /\ CopiesCounted' /\ InOrder' /\ LinesPlaced'
    BY <1>5, OrderKept, PostsKept, LinesKept DEF vars, logVars, nameVars, evalVars, postVars
  <2> QED BY <2>1, <2>2 DEF Inv
<1> QED BY <1>1, <1>2, <1>3, <1>4, <1>5 DEF Next

LEMMA AlwaysInv == Spec => []Inv
BY InitInv, NextInv, PTL DEF Spec

-----------------------------------------------------------------------------
(* What is in the channel. *)

\* A post is in the channel more than once only if Slack had taken it when
\* it failed, and no more than POST_ATTEMPTS times: neither a retry nor a
\* post that Slack takes late repeats another one (SlackDriver.post).
THEOREM PostsRepeatOnlyInDoubt == Spec => []RepeatedOnlyInDoubt
<1>1. ASSUME Inv PROVE RepeatedOnlyInDoubt
  <2> SUFFICES ASSUME NEW m \in Code, NEW p \in Post
               PROVE  /\ posted[m][p] > 1 => <<m, p>> \in doubtful
                      /\ posted[m][p] <= PostAttempts
    BY DEF RepeatedOnlyInDoubt
  <2>1. /\ CopiesAre(m, p) /\ Copies(m, p) \in Nat /\ posted[m][p] \in Nat
        /\ posted[m][p] <= Copies(m, p)
    BY <1>1, CopiesAreNat DEF Inv, CopiesCounted
  <2> QED BY <2>1, BoundsAssumption DEF CopiesAre
<1> QED BY <1>1, AlwaysInv, PTL

\* Of a reply's messages, those in the channel are the first ones, whatever
\* posts fail and whenever Slack takes them, and all of them are there when
\* the handler ends as it should (the reply loop of handle_message_event).
THEOREM RepliesHaveNoHoles == Spec => []ReplyWithoutHoles
<1>1. ASSUME Inv PROVE ReplyWithoutHoles
  <2> SUFFICES ASSUME NEW m \in Code, NEW i \in 1..MaxMessages
               PROVE  /\ posted[m][<<"reply", i>>] > 0 =>
                            \A j \in 1..i : posted[m][<<"reply", j>>] > 0
                      /\ phase[m] = "answered" /\ i <= reply[m] => posted[m][<<"reply", i>>] > 0
    BY DEF ReplyWithoutHoles
  <2> DEFINE p == <<"reply", i>>
  <2>1. p \in Post /\ i \in Nat /\ \A j \in 1..i : j = i \/ j \in 1..(i - 1)
    BY PostIs, FormatAssumption
  <2> HIDE DEF p
  <2>2. /\ OrderIs(m, i) /\ posted[m][p] \in Nat /\ Copies(m, p) \in Nat
        /\ posted[m][p] <= Copies(m, p)
    BY <1>1, <2>1, CopiesAreNat DEF Inv, InOrder
  <2>3. posted[m][p] > 0 => Copies(m, p) > 0
    BY <2>2
  <2> QED BY <2>1, <2>2, <2>3 DEF OrderIs, p
<1> QED BY <1>1, AlwaysInv, PTL

-----------------------------------------------------------------------------
(* Where the lines are. *)

LEMMA Counts ==
    ASSUME NEW S
    PROVE  /\ S = {} => Cardinality(S) = 0
           /\ \A x : S = {x} => Cardinality(S) = 1
BY FS_EmptySet, FS_Singleton

\* A line of chat is in the log, in one eval's loglines, or lost to the
\* log's limit or to an append that came between: never twice, never gone
\* without one of these reasons (ChatLog.append, ChatLog.slurp).
THEOREM LinesAreOnce == Spec => []EveryLineOnce
<1>1. ASSUME Inv PROVE EveryLineOnce
  <2> SUFFICES ASSUME NEW m \in Message \ (Code \cup Ignored)
               PROVE  Places(m) = IF phase[m] \in {"logged", "channel"} THEN 1 ELSE 0
    BY DEF EveryLineOnce
  <2> DEFINE A == {i \in DOMAIN lines : lines[i] = m}
             B == {c \in Code : \E i \in DOMAIN backlog[c] : backlog[c][i] = m}
             C == {s \in {pushedOut, raced} : m \in s}
  <2>1. Places(m) = Cardinality(A) + Cardinality(B) + Cardinality(C)
    BY DEF Places
  <2>2. /\ InLog(m) => ~Given(m) /\ ~Lost(m)
        /\ Given(m) => ~Lost(m)
        /\ InLog(m) \/ Given(m) \/ Lost(m) <=> phase[m] \in {"logged", "channel"}
    BY <1>1 DEF Inv, LinesPlaced
  <2>3. /\ ~InLog(m) => Cardinality(A) = 0
        /\ InLog(m) => Cardinality(A) = 1
    <3>1. ~InLog(m) => A = {}
      BY DEF InLog, Within
    <3>2. InLog(m) => \E i : A = {i}
      BY <1>1 DEF InLog, Within, Inv, LinesPlaced, Distinct
    <3> QED BY <3>1, <3>2, Counts
  <2>4. /\ ~Given(m) => Cardinality(B) = 0
        /\ Given(m) => Cardinality(B) = 1
    <3>1. ~Given(m) => B = {}
      BY DEF Given, GivenTo, Within
    <3>2. Given(m) => \E c : B = {c}
      <4>1. \A c, d \in Code : GivenTo(m, c) /\ GivenTo(m, d) => c = d
        BY <1>1 DEF Inv, LinesPlaced
      <4>2. B = {c \in Code : GivenTo(m, c)}
        BY DEF GivenTo, Within
      <4> QED BY <4>1, <4>2 DEF Given
    <3> QED BY <3>1, <3>2, Counts
  <2>5. /\ ~Lost(m) => Cardinality(C) = 0
        /\ Lost(m) => Cardinality(C) = 1
    <3>1. ~Lost(m) => C = {}
      BY DEF Lost
    <3>2. Lost(m) => \E s : C = {s}
      BY <1>1 DEF Lost, Inv, LinesPlaced
    <3> QED BY <3>1, <3>2, Counts
  <2> HIDE DEF A, B, C
  <2> QED BY <2>1, <2>2, <2>3, <2>4, <2>5
<1> QED BY <1>1, AlwaysInv, PTL

-----------------------------------------------------------------------------
(* Names. *)

\* A name that is cached while nobody asks for it is never written again,
\* nor asked for (NickCache.get, ChannelCache.get).
THEOREM NamesSettle == Spec => SettledNamesStay
<1> DEFINE Settled(k) == names[k] # "unknown" /\ \A m \in asking : phase[m] # k
           Stays(k) == names'[k] = names[k] /\ \A m \in asking' : phase[m] # k
<1>1. ASSUME Inv, [Next]_vars, NEW k \in Cache, Settled(k)
      PROVE  Stays(k)
  <2>1. ASSUME UNCHANGED nameVars PROVE Stays(k)
    BY <1>1, <2>1 DEF nameVars
  <2>2. ASSUME NEW m \in Message, Ask(m) PROVE Stays(k)
    BY <1>1, <2>2 DEF Ask, Cached
  <2>3. ASSUME NEW m \in Message, NEW name \in {"name", "id"}, Told(m, name) PROVE Stays(k)
    BY <1>1, <2>3 DEF Told, Inv, Types, Paths
  <2>4. ASSUME NEW m \in Message, Handle(m) PROVE Stays(k)
    BY <2>1, <2>2, <2>3, <2>4
       DEF Handle, Ignore, UseCached, FindLog, AppendLine, Slurp, Receive
  <2>5. ASSUME Worker PROVE Stays(k)
    BY <2>1, <2>5 DEF Worker, StartEval, EvalReturns, EvalRaises, EndEval
  <2>6. ASSUME NEW m \in Code, Say(m) \/ GiveUp(m) \/ Sends(m) PROVE Stays(k)
    BY <2>1, <2>6 DEF Say, GiveUp, Sends, PostReturns, PostFails, nameVars
  <2>7. ASSUME NEW m \in Code, NEW post \in Post, TakenLate(m, post) PROVE Stays(k)
    BY <2>1, <2>7 DEF TakenLate
  <2>8. ASSUME UNCHANGED vars PROVE Stays(k)
    BY <2>1, <2>8 DEF vars
  <2> QED BY <1>1, <2>4, <2>5, <2>6, <2>7, <2>8 DEF Next
<1>2. Inv /\ [Next]_vars => \A k \in Cache : Settled(k) => Stays(k)
  BY <1>1
<1>3. Inv /\ [Next]_vars =>
        [\A k \in Cache :
            names[k] # "unknown" /\ (\A m \in asking : phase[m] # k) =>
               names'[k] = names[k] /\ \A m \in asking' : phase[m] # k]_vars
  BY <1>2
<1> QED BY <1>3, AlwaysInv, PTL DEF Spec, SettledNamesStay

-----------------------------------------------------------------------------
(* chunk_output. *)

LEMMA DivisionIs ==
    ASSUME NEW a \in Nat, NEW b \in Nat \ {0}
    PROVE  /\ a \div b \in Nat /\ a % b \in 0..(b - 1)
           /\ a = (a \div b) * b + (a % b)
           /\ \A k \in Nat : k <= a \div b <=> k * b <= a
OBVIOUS

\* A slice of a line.
LEMMA PieceIs ==
    ASSUME NEW Char, NEW line \in Seq(Char), line # Blank,
           NEW k \in 1..((Len(line) - 1) \div MaxChars + 1)
    PROVE  /\ Piece(line, k) \in Seq(Char)
           /\ Len(Piece(line, k)) \in 1..MaxChars
           /\ k * MaxChars < Len(line) => Len(Piece(line, k)) = MaxChars
           /\ k * MaxChars >= Len(line) => Len(Piece(line, k)) = Len(line) - (k - 1) * MaxChars
           /\ \A j \in 1..Len(Piece(line, k)) :
                 /\ (k - 1) * MaxChars + j \in 1..Len(line)
                 /\ Piece(line, k)[j] = line[(k - 1) * MaxChars + j]
<1> DEFINE n == Len(line)
           first == (k - 1) * MaxChars
           last == IF k * MaxChars < n THEN k * MaxChars ELSE n
<1>1. n \in Nat \ {0} /\ n - 1 \in Nat /\ MaxChars \in Nat \ {0} /\ k \in Nat \ {0} /\ k - 1 \in Nat
  BY FormatAssumption DEF Blank
<1>2. first <= n - 1
  <2> DEFINE q == (n - 1) \div MaxChars
  <2>1. q \in Nat /\ \A x \in Nat : x <= q <=> x * MaxChars <= n - 1
    BY <1>1, DivisionIs
  <2>2. k \in 1..(q + 1)
    OBVIOUS
  <2> HIDE DEF q
  <2>3. k - 1 <= q
    BY <1>1, <2>1, <2>2
  <2> QED BY <1>1, <2>1, <2>3
<1>3. first \in Nat /\ k * MaxChars \in Nat /\ k * MaxChars = first + MaxChars
  BY <1>1
<1>4. Piece(line, k) = SubSeq(line, first + 1, last)
  BY DEF Piece
<1>5. last \in Nat /\ first + 1 <= last /\ last <= n /\ last - first <= MaxChars
  BY <1>1, <1>2, <1>3
<1>5b. (k * MaxChars < n => last = first + MaxChars) /\ (k * MaxChars >= n => last = n)
  BY <1>1, <1>3
<1> HIDE DEF first, last
<1>6. /\ SubSeq(line, first + 1, last) \in Seq(Char)
      /\ Len(SubSeq(line, first + 1, last)) = last - first
      /\ \A j \in 1..(last - first) : SubSeq(line, first + 1, last)[j] = line[first + j]
  <2>1. \A i \in (first + 1)..last : line[i] \in Char
    BY <1>1, <1>3, <1>5
  <2>2. SubSeq(line, first + 1, last) = [i \in 1..(1 + last - (first + 1)) |-> line[i + (first + 1) - 1]]
    BY <1>1, <1>3, <1>5
  <2>3. 1 + last - (first + 1) = last - first
    BY <1>3, <1>5
  <2>4. \A i \in 1..(last - first) : i + (first + 1) - 1 = first + i
    BY <1>3, <1>5
  <2>5. SubSeq(line, first + 1, last) \in Seq(Char)
    BY <1>1, <1>3, <1>5
  <2> QED BY <1>1, <1>3, <1>5, <2>2, <2>3, <2>4, <2>5
<1>7. /\ last - first \in 1..MaxChars
      /\ \A j \in 1..(last - first) : first + j \in 1..n
  BY <1>1, <1>3, <1>5
<1>8. /\ Piece(line, k) \in Seq(Char)
      /\ Len(Piece(line, k)) = last - first /\ Len(Piece(line, k)) \in 1..MaxChars
      /\ \A j \in 1..Len(Piece(line, k)) :
            first + j \in 1..n /\ Piece(line, k)[j] = line[first + j]
  BY <1>4, <1>6, <1>7
<1>9. /\ k * MaxChars < n => Len(Piece(line, k)) = MaxChars
      /\ k * MaxChars >= n => Len(Piece(line, k)) = n - first
  BY <1>1, <1>3, <1>5b, <1>8
<1> QED BY <1>8, <1>9 DEF first

\* A line that is too long is cut into slices of MaxChars characters, the
\* last one of the rest: none is empty, and every character of the line is in
\* its place of one of them (the while loop of chunk_output).
THEOREM SlicesKeepTheLine ==
    ASSUME NEW Char, NEW line \in Seq(Char), line # Blank
    PROVE  /\ \A k \in DOMAIN Pieces(line) :
                 /\ Len(Pieces(line)[k]) \in 1..MaxChars
                 /\ \A j \in 1..Len(Pieces(line)[k]) :
                       /\ (k - 1) * MaxChars + j \in 1..Len(line)
                       /\ Pieces(line)[k][j] = line[(k - 1) * MaxChars + j]
           /\ \A i \in 1..Len(line) :
                 \E k \in DOMAIN Pieces(line) : \E j \in 1..Len(Pieces(line)[k]) :
                    i = (k - 1) * MaxChars + j
<1> DEFINE n == Len(line)
           q == (n - 1) \div MaxChars
<1>1. n \in Nat \ {0} /\ n - 1 \in Nat /\ MaxChars \in Nat \ {0}
  BY FormatAssumption DEF Blank
<1>2. Pieces(line) = [k \in 1..(q + 1) |-> Piece(line, k)]
  BY DEF Pieces
<1>3. \A k \in DOMAIN Pieces(line) :
         /\ Len(Pieces(line)[k]) \in 1..MaxChars
         /\ \A j \in 1..Len(Pieces(line)[k]) :
               /\ (k - 1) * MaxChars + j \in 1..n
               /\ Pieces(line)[k][j] = line[(k - 1) * MaxChars + j]
  BY <1>2, PieceIs
<1>4. ASSUME NEW i \in 1..n
      PROVE  \E k \in DOMAIN Pieces(line) : \E j \in 1..Len(Pieces(line)[k]) :
                i = (k - 1) * MaxChars + j
  <2> DEFINE d == (i - 1) \div MaxChars
             r == (i - 1) % MaxChars
  <2>1. /\ i - 1 \in Nat /\ d \in Nat /\ r \in 0..(MaxChars - 1) /\ i - 1 = d * MaxChars + r
        /\ d * MaxChars <= n - 1
    <3>1. i - 1 \in Nat /\ i - 1 <= n - 1
      BY <1>1
    <3>2. d \in Nat /\ r \in 0..(MaxChars - 1) /\ i - 1 = d * MaxChars + r
      BY <1>1, <3>1, DivisionIs
    <3> HIDE DEF d, r
    <3>3. d * MaxChars \in Nat
      BY <1>1, <3>2
    <3>4. d * MaxChars <= n - 1
      BY <1>1, <3>1, <3>2, <3>3
    <3> QED BY <3>1, <3>2, <3>4
  <2>2. d + 1 \in 1..(q + 1)
    <3>1. d <= q /\ q \in Nat
      BY <1>1, <2>1, DivisionIs
    <3> HIDE DEF d, q
    <3> QED BY <2>1, <3>1
  <2> HIDE DEF d, r
  <2>3. (d + 1) - 1 = d /\ (d + 1) * MaxChars = d * MaxChars + MaxChars /\ d * MaxChars \in Nat
    BY <1>1, <2>1
  <2>4. r + 1 \in 1..Len(Piece(line, d + 1))
    <3> DEFINE x == d * MaxChars
    <3>1. /\ (d + 1) * MaxChars < n => Len(Piece(line, d + 1)) = MaxChars
          /\ (d + 1) * MaxChars >= n => Len(Piece(line, d + 1)) = n - x
      BY <2>2, <2>3, PieceIs
    <3>2. x \in Nat /\ i = x + r + 1 /\ i <= n /\ (d + 1) * MaxChars = x + MaxChars
      BY <1>1, <2>1, <2>3
    <3> HIDE DEF x
    <3>3. x + MaxChars < n \/ x + MaxChars >= n
      BY <1>1, <3>2
    <3> QED BY <1>1, <2>1, <3>1, <3>2, <3>3
  <2>5. i = ((d + 1) - 1) * MaxChars + (r + 1)
    BY <1>1, <2>1, <2>3
  <2> QED BY <1>2, <2>2, <2>4, <2>5
<1> QED BY <1>3, <1>4

\* The state of the loop of format_reply, over characters of C.
Gathering(C) == [done : Seq(Seq(C)), current : Seq(C)]

LEMMA JoinedIs ==
    ASSUME NEW C, Newline \in C, NEW current \in Seq(C), NEW line \in Seq(C)
    PROVE  /\ Joined(current, line) \in Seq(C)
           /\ Len(Joined(current, line)) =
                 IF current = Blank THEN Len(line) ELSE Len(current) + 1 + Len(line)
           /\ Joined(current, line) = Blank <=> current = Blank /\ line = Blank
<1>1. CASE current = Blank
  BY <1>1 DEF Joined, Blank
<1>2. CASE current # Blank
  <2>1. <<Newline>> \in Seq(C) /\ Len(<<Newline>>) = 1
    OBVIOUS
  <2>2. current \o <<Newline>> \in Seq(C) /\ Len(current \o <<Newline>>) = Len(current) + 1
    BY <2>1
  <2>3. /\ (current \o <<Newline>>) \o line \in Seq(C)
        /\ Len((current \o <<Newline>>) \o line) = Len(current) + 1 + Len(line)
    BY <2>2
  <2>4. Len((current \o <<Newline>>) \o line) # 0
    BY <2>3
  <2>5. Joined(current, line) = (current \o <<Newline>>) \o line
    BY <1>2 DEF Joined
  <2> QED BY <1>2, <2>3, <2>4, <2>5 DEF Blank
<1> QED BY <1>1, <1>2

LEMMA GatherIs ==
    ASSUME NEW C, Newline \in C, NEW sofar \in Gathering(C), NEW line \in Seq(C)
    PROVE  Gather(sofar, line) \in Gathering(C)
BY JoinedIs DEF Gather, Gathering

\* The loop over text does what its definition says.
LEMMA GatheringsIs ==
    ASSUME NEW C, Newline \in C, NEW text \in Seq(Seq(C))
    PROVE  /\ Gatherings(text) \in [0..Len(text) -> Gathering(C)]
           /\ Gatherings(text)[0] = [done |-> <<>>, current |-> Blank]
           /\ \A i \in 1..Len(text) :
                 Gatherings(text)[i] = Gather(Gatherings(text)[i - 1], text[i])
<1> DEFINE start == [done |-> <<>>, current |-> Blank]
           step == [i \in Nat |-> [sofar \in Gathering(C) |->
                      IF i \in 1..Len(text) THEN Gather(sofar, text[i]) ELSE start]]
           Is(f) == f = [i \in 0..Len(text) |-> IF i = 0 THEN start ELSE Gather(f[i - 1], text[i])]
<1>1. start \in Gathering(C)
  BY DEF Gathering, Blank
<1>2. step \in [Nat -> [Gathering(C) -> Gathering(C)]]
  <2>1. ASSUME NEW i \in Nat, NEW sofar \in Gathering(C)
        PROVE (IF i \in 1..Len(text) THEN Gather(sofar, text[i]) ELSE start) \in Gathering(C)
    BY <1>1, GatherIs
  <2> HIDE DEF start
  <2> QED BY <2>1
<1>3. PICK f : Recurses(f, Gathering(C), start, step, Len(text))
  <2> HIDE DEF start, step
  <2>1. Len(text) \in Nat
    OBVIOUS
  <2> QED BY <1>1, <1>2, <2>1, RecursionExists
<1>4. \A i \in 1..Len(text) : f[i] = Gather(f[i - 1], text[i])
  <2> SUFFICES ASSUME NEW i \in 1..Len(text) PROVE f[i] = Gather(f[i - 1], text[i])
    OBVIOUS
  <2> HIDE DEF step, start
  <2>0. i \in Nat /\ i - 1 \in 0..Len(text)
    OBVIOUS
  <2>1. i \in Nat /\ i - 1 \in 0..Len(text) /\ f[i - 1] \in Gathering(C)
    BY <1>3, <2>0 DEF Recurses
  <2> USE DEF step
  <2> HIDE DEF start
  <2>2. step[i][f[i - 1]] = Gather(f[i - 1], text[i])
    BY <2>1
  <2> QED BY <1>3, <2>2 DEF Recurses
<1>5. Is(f)
  <2> HIDE DEF start, step
  <2>1. \A i \in 0..Len(text) : f[i] = IF i = 0 THEN start ELSE Gather(f[i - 1], text[i])
    <3> SUFFICES ASSUME NEW i \in 0..Len(text)
                 PROVE f[i] = IF i = 0 THEN start ELSE Gather(f[i - 1], text[i])
      OBVIOUS
    <3>1. i = 0 \/ i \in 1..Len(text)
      OBVIOUS
    <3> QED BY <1>3, <1>4, <3>1 DEF Recurses
  <2> QED BY <1>3, <2>1 DEF Recurses
<1>6. Is(CHOOSE g : Is(g))
  <2>1. \E g : Is(g)
    BY <1>5
  <2> HIDE DEF Is
  <2> QED BY <2>1, Zenon
<1>7. Gatherings(text) = CHOOSE g : Is(g)
  BY DEF Gatherings
<1>8. Is(Gatherings(text))
  BY <1>6, <1>7
<1> HIDE DEF start
<1>9. \A i \in 0..Len(text) :
        Gatherings(text)[i] = IF i = 0 THEN start ELSE Gather(Gatherings(text)[i - 1], text[i])
  BY <1>8
<1> DEFINE G == Gatherings(text)
           S == {i \in 0..Len(text) : G[i] \in Gathering(C)}
<1>10. 0..Len(text) \subseteq S
  <2>1. 0 \in S
    BY <1>1, <1>9
  <2>2. ASSUME NEW i \in 1..Len(text), i - 1 \in S PROVE i \in S
    <3>1. i \in 0..Len(text) /\ i # 0
      OBVIOUS
    <3>2. G[i] = Gather(G[i - 1], text[i])
      <4> HIDE DEF G
      <4> QED BY <1>9, <3>1 DEF G
    <3>3. G[i - 1] \in Gathering(C) /\ text[i] \in Seq(C)
      BY <2>2
    <3> HIDE DEF G
    <3> QED BY <3>1, <3>2, <3>3, GatherIs
  <2>3. Len(text) \in Nat
    OBVIOUS
  <2> HIDE DEF S
  <2> QED BY <2>1, <2>2, <2>3, InductionUpTo
<1>11. DOMAIN G = 0..Len(text) /\ G = [i \in 0..Len(text) |-> G[i]]
  BY <1>8
<1>12. ASSUME NEW i \in 0..Len(text) PROVE G[i] \in Gathering(C)
  <2> HIDE DEF G
  <2>1. i \in S
    BY <1>10
  <2> QED BY <2>1
<1>13. ASSUME NEW i \in 1..Len(text) PROVE G[i] = Gather(G[i - 1], text[i])
  <2> HIDE DEF G
  <2>1. i \in 0..Len(text) /\ i # 0
    OBVIOUS
  <2> QED BY <1>9, <2>1 DEF G
<1>14. G[0] = start
  <2>1. 0 \in 0..Len(text)
    OBVIOUS
  <2> HIDE DEF G
  <2> QED BY <1>9, <2>1 DEF G
<1>15. G \in [0..Len(text) -> Gathering(C)]
  <2> HIDE DEF G
  <2> QED BY <1>11, <1>12
<1> QED BY <1>13, <1>14, <1>15 DEF start

\* What FlattenSeq returns: a sequence of the parts' elements, each of them
\* in it, one for each part if the parts are single elements.
LEMMA FlattenIs ==
    ASSUME NEW X, NEW parts \in Seq(Seq(X)), parts # <<>>
    PROVE  /\ FlattenSeq(parts) \in Seq(X)
           /\ \A i \in DOMAIN parts : \A j \in DOMAIN parts[i] :
                 \E k \in DOMAIN FlattenSeq(parts) : FlattenSeq(parts)[k] = parts[i][j]
           /\ (\A i \in DOMAIN parts : Len(parts[i]) = 1) => Len(FlattenSeq(parts)) = Len(parts)
<1> DEFINE n == Len(parts)
           F == Flattened(parts)
           In(i, x) == \E k \in DOMAIN F[i] : F[i][k] = x
<1>0. n \in Nat \ {0} /\ DOMAIN parts = 1..n
  OBVIOUS
<1>1. /\ FlattenSeq(parts) = F[n]
      /\ F[1] = parts[1] /\ \A i \in 2..n : F[i] = F[i - 1] \o parts[i]
      /\ \A i \in 1..n : F[i] \in Seq(X)
  BY FlattenedIs
<1> HIDE DEF F
<1>2. ASSUME NEW i \in 2..n
      PROVE  /\ i - 1 \in 1..n /\ i \in 1..n
             /\ Len(F[i]) = Len(F[i - 1]) + Len(parts[i])
             /\ \A k \in DOMAIN F[i - 1] : k \in DOMAIN F[i] /\ F[i][k] = F[i - 1][k]
             /\ \A j \in DOMAIN parts[i] : \E k \in DOMAIN F[i] : F[i][k] = parts[i][j]
  <2>1. i - 1 \in 1..n /\ i \in 1..n /\ F[i - 1] \in Seq(X) /\ parts[i] \in Seq(X)
    BY <1>0, <1>1
  <2> DEFINE s == F[i - 1]
             t == parts[i]
  <2>2. s \in Seq(X) /\ t \in Seq(X)
    BY <2>1
  <2> HIDE DEF s, t
  <2>3. /\ Len(s \o t) = Len(s) + Len(t)
        /\ \A k \in DOMAIN s : k \in DOMAIN (s \o t) /\ (s \o t)[k] = s[k]
        /\ \A j \in DOMAIN t : Len(s) + j \in DOMAIN (s \o t) /\ (s \o t)[Len(s) + j] = t[j]
    BY <2>2
  <2>4. F[i] = s \o t
    BY <1>1 DEF s, t
  <2>5. \A j \in DOMAIN t : \E k \in DOMAIN (s \o t) : (s \o t)[k] = t[j]
    BY <2>3
  <2> QED BY <2>1, <2>3, <2>4, <2>5 DEF s, t
<1>3. ASSUME NEW i \in 1..n PROVE /\ \A h \in 1..i : \A j \in DOMAIN parts[h] : In(i, parts[h][j])
                                  /\ (\A h \in 1..n : Len(parts[h]) = 1) => Len(F[i]) = i
  <2> DEFINE Has(m) == /\ \A h \in 1..m : \A j \in DOMAIN parts[h] : In(m, parts[h][j])
                       /\ (\A h \in 1..n : Len(parts[h]) = 1) => Len(F[m]) = m
             S == {0} \cup {m \in 1..n : Has(m)}
  <2>1. ASSUME NEW m \in 1..n, m - 1 \in S PROVE m \in S
    <3>1. CASE m = 1
      <4>1. \A h \in 1..m : h = 1
        BY <3>1
      <4>2. Has(1)
        BY <1>0, <1>1, <3>1, <4>1
      <4> QED BY <3>1, <4>2
    <3>2. CASE m \in 2..n
      <4>1. Has(m - 1) /\ m - 1 \in 1..n
        <5>1. m - 1 \in S /\ m - 1 # 0
          BY <2>1, <3>2
        <5> HIDE DEF Has
        <5> QED BY <5>1
      <4>2. ASSUME NEW h \in 1..m, NEW j \in DOMAIN parts[h] PROVE In(m, parts[h][j])
        <5>1. CASE h = m
          BY <1>2, <3>2, <5>1
        <5>2. CASE h \in 1..(m - 1)
          <6>1. PICK k \in DOMAIN F[m - 1] : F[m - 1][k] = parts[h][j]
            BY <4>1, <5>2
          <6>2. k \in DOMAIN F[m] /\ F[m][k] = parts[h][j]
            BY <1>2, <3>2, <6>1
          <6> QED BY <6>2
        <5> QED BY <5>1, <5>2
      <4>3. ASSUME \A h \in 1..n : Len(parts[h]) = 1 PROVE Len(F[m]) = m
        <5>1. Len(F[m]) = Len(F[m - 1]) + Len(parts[m]) /\ Len(F[m - 1]) = m - 1 /\ Len(parts[m]) = 1
          BY <1>2, <3>2, <4>1, <4>3
        <5> QED BY <5>1
      <4> HIDE DEF In
      <4>4. Has(m)
        BY <4>2, <4>3
      <4> HIDE DEF Has
      <4> QED BY <4>4
    <3> QED BY <1>0, <3>1, <3>2
  <2>2. 0..n \subseteq S
    <3>1. 0 \in S /\ n \in Nat
      BY <1>0
    <3> HIDE DEF S, n
    <3> QED BY <2>1, <3>1, InductionUpTo
  <2>3. i \in S
    <3>1. i \in 0..n
      BY <1>0
    <3> HIDE DEF S
    <3> QED BY <2>2, <3>1
  <2>4. i # 0
    BY <1>0
  <2> HIDE DEF Has
  <2>5. Has(i)
    BY <2>3, <2>4
  <2> QED BY <2>5 DEF Has
<1>4. n \in 1..n
  BY <1>0
<1>5. ASSUME NEW i \in DOMAIN parts, NEW j \in DOMAIN parts[i] PROVE In(n, parts[i][j])
  <2> HIDE DEF In
  <2> QED BY <1>0, <1>3, <1>4
<1>6. (\A i \in DOMAIN parts : Len(parts[i]) = 1) => Len(F[n]) = n
  <2> HIDE DEF In
  <2> QED BY <1>0, <1>3, <1>4
<1>7. F[n] \in Seq(X)
  BY <1>1, <1>4
<1> QED BY <1>1, <1>5, <1>6, <1>7

\* What a message may be: no more than MaxChars characters.
Short(C) == {s \in Seq(C) : Len(s) <= MaxChars}

LEMMA PiecesIs ==
    ASSUME NEW C, NEW line \in Seq(C)
    PROVE  /\ Pieces(line) \in Seq(Short(C)) /\ 1 \in DOMAIN Pieces(line)
           /\ line = Blank => Pieces(line) = <<Blank>>
           /\ line # Blank => \A k \in DOMAIN Pieces(line) : Pieces(line)[k] # Blank
<1>1. CASE line = Blank
  <2>1. Pieces(line) = <<Blank>>
    BY <1>1 DEF Pieces
  <2>2. Blank \in Short(C)
    BY FormatAssumption DEF Blank, Short
  <2> HIDE DEF Blank
  <2> QED BY <1>1, <2>1, <2>2
<1>2. CASE line # Blank
  <2> DEFINE q == (Len(line) - 1) \div MaxChars
  <2>1. q \in Nat
    <3>1. Len(line) - 1 \in Nat
      BY <1>2 DEF Blank
    <3> QED BY <3>1, FormatAssumption, DivisionIs
  <2>2. Pieces(line) = [k \in 1..(q + 1) |-> Piece(line, k)]
    BY <1>2 DEF Pieces
  <2>3. ASSUME NEW k \in 1..(q + 1)
        PROVE  Piece(line, k) \in Short(C) /\ Piece(line, k) # Blank
    <3>1. Piece(line, k) \in Seq(C) /\ Len(Piece(line, k)) \in 1..MaxChars
      BY <1>2, PieceIs
    <3> QED BY <3>1, FormatAssumption DEF Short, Blank
  <2> HIDE DEF q
  <2>4. Pieces(line) \in Seq(Short(C)) /\ DOMAIN Pieces(line) = 1..(q + 1) /\ 1 \in 1..(q + 1)
    BY <2>1, <2>2, <2>3
  <2> QED BY <1>2, <2>2, <2>3, <2>4
<1> QED BY <1>1, <1>2

AllBlank(text) == \A i \in DOMAIN text : text[i] = Blank

\* The slices of a text are short; they are blank only if all of the text is.
LEMMA SlicesIs ==
    ASSUME NEW C, NEW text \in Seq(Seq(C)), text # <<>>
    PROVE  /\ Slices(text) \in Seq(Short(C)) /\ Slices(text) # <<>>
           /\ AllBlank(Slices(text)) <=> AllBlank(text)
           /\ AllBlank(text) => Len(Slices(text)) = Len(text)
<1> DEFINE parts == [i \in DOMAIN text |-> Pieces(text[i])]
<1>1. /\ DOMAIN text = 1..Len(text) /\ Len(text) \in Nat \ {0}
      /\ \A i \in DOMAIN text : text[i] \in Seq(C)
  OBVIOUS
<1>2. parts \in Seq(Seq(Short(C))) /\ DOMAIN parts = DOMAIN text /\ Len(parts) = Len(text)
  <2>1. \A i \in DOMAIN text : Pieces(text[i]) \in Seq(Short(C))
    BY <1>1, PiecesIs
  <2> QED BY <1>1, <2>1
<1>3. \A i \in DOMAIN text : parts[i] = Pieces(text[i])
  OBVIOUS
<1>4. Slices(text) = FlattenSeq(parts)
  BY DEF Slices
<1> HIDE DEF parts
<1>5. parts # <<>>
  BY <1>1, <1>2
<1>6. /\ FlattenSeq(parts) \in Seq(Short(C))
      /\ \A i \in DOMAIN parts : \A j \in DOMAIN parts[i] :
            \E k \in DOMAIN FlattenSeq(parts) : FlattenSeq(parts)[k] = parts[i][j]
      /\ (\A i \in DOMAIN parts : Len(parts[i]) = 1) => Len(FlattenSeq(parts)) = Len(parts)
  BY <1>2, <1>5, FlattenIs
<1>7. Slices(text) # <<>>
  <2>1. 1 \in DOMAIN parts /\ 1 \in DOMAIN parts[1]
    <3>1. 1 \in DOMAIN text /\ text[1] \in Seq(C)
      BY <1>1
    <3> QED BY <1>2, <1>3, <3>1, PiecesIs
  <2>2. DOMAIN FlattenSeq(parts) # {}
    BY <1>6, <2>1
  <2> QED BY <1>4, <2>2
<1>8. ASSUME AllBlank(text) PROVE Len(Slices(text)) = Len(text) /\ AllBlank(Slices(text))
  <2>1. \A i \in DOMAIN text : parts[i] = <<Blank>>
    BY <1>1, <1>3, <1>8, PiecesIs DEF AllBlank
  <2>2. parts \in Seq(Seq({Blank}))
    <3>1. \A i \in DOMAIN parts : parts[i] \in Seq({Blank})
      <4>1. <<Blank>> \in Seq({Blank})
        OBVIOUS
      <4> QED BY <1>2, <2>1, <4>1
    <3> DEFINE T == Seq({Blank})
    <3>2. DOMAIN parts = 1..Len(parts) /\ Len(parts) \in Nat
      BY <1>2
    <3>3. parts = [i \in 1..Len(parts) |-> parts[i]]
      BY <1>2
    <3>4. parts \in Seq(T)
      <4>1. \A i \in 1..Len(parts) : parts[i] \in T
        BY <3>1, <3>2
      <4> HIDE DEF T
      <4>2. parts \in [1..Len(parts) -> T]
        BY <3>3, <4>1
      <4>3. \A m \in Nat : [1..m -> T] \subseteq Seq(T)
        OBVIOUS
      <4> QED BY <3>2, <4>2, <4>3
    <3> QED BY <3>4 DEF T
  <2>3. FlattenSeq(parts) \in Seq({Blank})
    BY <1>5, <2>2, FlattenIs
  <2>4. \A i \in DOMAIN parts : Len(parts[i]) = 1
    <3>1. Len(<<Blank>>) = 1
      OBVIOUS
    <3> QED BY <1>2, <2>1, <3>1, Zenon
  <2> QED BY <1>2, <1>4, <1>6, <2>3, <2>4 DEF AllBlank
<1>9. ASSUME NEW i \in DOMAIN text, text[i] # Blank PROVE ~AllBlank(Slices(text))
  <2>1. 1 \in DOMAIN parts[i] /\ parts[i][1] # Blank
    BY <1>1, <1>3, <1>9, PiecesIs
  <2>2. PICK k \in DOMAIN FlattenSeq(parts) : FlattenSeq(parts)[k] = parts[i][1]
    BY <1>2, <1>6, <2>1
  <2> QED BY <1>4, <2>1, <2>2 DEF AllBlank
<1> QED BY <1>4, <1>6, <1>7, <1>8, <1>9 DEF AllBlank

LEMMA ChunksAre ==
    ASSUME NEW C, Added \subseteq C, NEW text \in Seq(Seq(C)), text # <<>>
    PROVE  /\ chunk_output(text) \in Seq(Short(C))
           /\ AllBlank(chunk_output(text)) <=> AllBlank(text) /\ Len(text) <= MaxChunks
<1>1. /\ Slices(text) \in Seq(Short(C)) /\ Slices(text) # <<>>
      /\ AllBlank(Slices(text)) <=> AllBlank(text)
      /\ AllBlank(text) => Len(Slices(text)) = Len(text)
  BY SlicesIs
<1>2. LinesCut \in Short(C) /\ LinesCut # Blank
  <2> DEFINE x == "error: output truncated to ... lines total"
  <2>1. x \in C /\ LinesCut = <<x>>
    BY DEF Added, LinesCut
  <2> HIDE DEF x
  <2>2. LinesCut \in Seq(C) /\ Len(LinesCut) = 1 /\ Len(LinesCut) # 0
    BY <2>1
  <2>3. 1 <= MaxChars
    BY FormatAssumption
  <2>4. LinesCut # <<>>
    <3>1. Len(<<>>) = 0
      OBVIOUS
    <3> QED BY <2>2, <3>1, Zenon
  <2> QED BY <2>2, <2>3, <2>4 DEF Short, Blank
<1>3. CASE Len(Slices(text)) > MaxChunks
  <2> DEFINE kept == SubSeq(Slices(text), 1, MaxChunks - 1)
  <2>1. chunk_output(text) = Append(kept, LinesCut)
    BY <1>3 DEF chunk_output
  <2>2. kept \in Seq(Short(C))
    BY <1>1, <1>3, FormatAssumption
  <2> HIDE DEF kept
  <2>3. /\ Append(kept, LinesCut) \in Seq(Short(C))
        /\ Len(kept) + 1 \in DOMAIN Append(kept, LinesCut)
        /\ Append(kept, LinesCut)[Len(kept) + 1] = LinesCut
    BY <1>2, <2>2
  <2>4. AllBlank(text) => ~(Len(text) <= MaxChunks)
    BY <1>1, <1>3, FormatAssumption
  <2> QED BY <1>2, <2>1, <2>3, <2>4 DEF AllBlank
<1>4. CASE ~(Len(Slices(text)) > MaxChunks)
  <2>1. chunk_output(text) = Slices(text)
    BY <1>4 DEF chunk_output
  <2>2. AllBlank(text) => Len(text) <= MaxChunks
    BY <1>1, <1>4, FormatAssumption
  <2> QED BY <1>1, <2>1, <2>2
<1> QED BY <1>3, <1>4

\* What the loop has made of some text: full messages and one that is not
\* too long, none of them if the text are all blank.
GatheredFrom(sofar, C, blank) ==
    /\ sofar.done \in Seq(Short(C) \ {Blank})
    /\ sofar.current \in Short(C)
    /\ sofar.done = <<>> /\ sofar.current = Blank <=> blank

LEMMA GatherFrom ==
    ASSUME NEW C, Newline \in C, NEW line \in Short(C), NEW blank \in BOOLEAN,
           NEW sofar \in Gathering(C), GatheredFrom(sofar, C, blank)
    PROVE  GatheredFrom(Gather(sofar, line), C, blank /\ line = Blank)
<1>1. /\ line \in Seq(C) /\ Len(line) \in Nat /\ Len(line) <= MaxChars
      /\ sofar.current \in Seq(C) /\ Len(sofar.current) \in Nat /\ Len(sofar.current) <= MaxChars
      /\ sofar = [done |-> sofar.done, current |-> sofar.current]
  BY DEF Short, GatheredFrom, Gathering
<1>2. /\ Joined(sofar.current, line) \in Seq(C)
      /\ Len(Joined(sofar.current, line)) \in Nat
      /\ sofar.current = Blank => Len(Joined(sofar.current, line)) = Len(line)
      /\ Joined(sofar.current, line) = Blank <=> sofar.current = Blank /\ line = Blank
  BY <1>1, JoinedIs
<1>3. CASE Overflows(sofar.current, line)
  <2>1. sofar.current \in Short(C) \ {Blank}
    BY <1>1, <1>2, <1>3, FormatAssumption DEF Overflows, Short
  <2>2. Gather(sofar, line) = [done |-> Append(sofar.done, sofar.current), current |-> line]
    BY <1>3 DEF Gather
  <2>3. sofar.done \in Seq(Short(C) \ {Blank}) /\ ~blank
    BY <2>1 DEF GatheredFrom
  <2> DEFINE done == sofar.done
             next == sofar.current
             T == Short(C) \ {Blank}
  <2>4. Append(done, next) \in Seq(T) /\ Append(done, next) # <<>>
    <3>1. done \in Seq(T) /\ next \in T
      BY <2>1, <2>3
    <3> HIDE DEF done, next, T
    <3> QED BY <3>1
  <2> QED BY <2>2, <2>3, <2>4 DEF GatheredFrom
<1>4. CASE ~Overflows(sofar.current, line)
  <2>1. Joined(sofar.current, line) \in Short(C)
    BY <1>2, <1>4, FormatAssumption DEF Overflows, Short
  <2>2. Gather(sofar, line) = [done |-> sofar.done, current |-> Joined(sofar.current, line)]
    BY <1>1, <1>4 DEF Gather
  <2>3. /\ Gather(sofar, line).done = sofar.done
        /\ Gather(sofar, line).current = Joined(sofar.current, line)
    BY <2>2
  <2> QED BY <1>2, <2>1, <2>3 DEF GatheredFrom
<1> QED BY <1>3, <1>4

\* The messages: not blank, not too long, none if the text are all blank.
LEMMA GatheredIs ==
    ASSUME NEW C, Newline \in C, NEW text \in Seq(Short(C))
    PROVE  /\ Gathered(text) \in Seq(Short(C) \ {Blank})
           /\ Gathered(text) = <<>> <=> AllBlank(text)
<1> DEFINE n == Len(text)
           G == Gatherings(text)
           BlankTo(i) == \A j \in 1..i : text[j] = Blank
           S == {i \in 0..n : GatheredFrom(G[i], C, BlankTo(i))}
<1>0. n \in Nat /\ DOMAIN text = 1..n /\ \A i \in 1..n : text[i] \in Short(C)
  OBVIOUS
<1>1. /\ G \in [0..n -> Gathering(C)]
      /\ G[0] = [done |-> <<>>, current |-> Blank]
      /\ \A i \in 1..n : G[i] = Gather(G[i - 1], text[i])
  <2>1. text \in Seq(Seq(C))
    BY DEF Short
  <2> QED BY <2>1, GatheringsIs
<1> HIDE DEF G, n
<1>2. 0..n \subseteq S
  <2>1. 0 \in S
    <3>1. BlankTo(0)
      OBVIOUS
    <3>2. Blank \in Short(C)
      BY FormatAssumption DEF Short, Blank
    <3>3. GatheredFrom(G[0], C, BlankTo(0))
      BY <1>1, <3>1, <3>2 DEF GatheredFrom
    <3> HIDE DEF BlankTo
    <3> QED BY <1>0, <3>3
  <2>2. ASSUME NEW i \in 1..n, i - 1 \in S PROVE i \in S
    <3>1. i \in 0..n /\ i - 1 \in 0..n /\ text[i] \in Short(C)
      BY <1>0
    <3>2. GatheredFrom(G[i - 1], C, BlankTo(i - 1)) /\ BlankTo(i - 1) \in BOOLEAN
      BY <2>2
    <3>3. BlankTo(i) <=> BlankTo(i - 1) /\ text[i] = Blank
      BY <1>0
    <3> HIDE DEF BlankTo
    <3>4. GatheredFrom(G[i], C, BlankTo(i - 1) /\ text[i] = Blank)
      <4>1. G[i - 1] \in Gathering(C) /\ G[i] = Gather(G[i - 1], text[i])
        BY <1>1, <3>1
      <4> QED BY <3>1, <3>2, <4>1, GatherFrom
    <3>5. GatheredFrom(G[i], C, BlankTo(i))
      BY <3>3, <3>4 DEF GatheredFrom
    <3> QED BY <3>1, <3>5
  <2> HIDE DEF S
  <2> QED BY <1>0, <2>1, <2>2, InductionUpTo
<1>3. GatheredFrom(G[n], C, BlankTo(n))
  <2>1. n \in 0..n
    BY <1>0
  <2> HIDE DEF BlankTo
  <2> QED BY <1>2, <2>1
<1>4. BlankTo(n) <=> AllBlank(text)
  BY <1>0 DEF AllBlank
<1> DEFINE end == G[n]
           T == Short(C) \ {Blank}
<1>5. Gathered(text) = IF end.current = Blank THEN end.done ELSE Append(end.done, end.current)
  BY DEF Gathered, G, n
<1>6. /\ end.done \in Seq(T)
      /\ end.current # Blank => end.current \in T
      /\ end.done = <<>> /\ end.current = Blank <=> AllBlank(text)
  BY <1>3, <1>4 DEF GatheredFrom
<1> DEFINE done == end.done
           current == end.current
<1>7. /\ done \in Seq(T) /\ (current # Blank => current \in T)
      /\ done = <<>> /\ current = Blank <=> AllBlank(text)
      /\ Gathered(text) = IF current = Blank THEN done ELSE Append(done, current)
  BY <1>5, <1>6
<1> HIDE DEF done, current, T
<1>8. CASE current = Blank
  BY <1>7, <1>8 DEF T
<1>9. CASE current # Blank
  <2>1. Append(done, current) \in Seq(T) /\ Append(done, current) # <<>>
    BY <1>7, <1>9
  <2> QED BY <1>7, <1>9, <2>1 DEF T
<1> QED BY <1>8, <1>9

\* What format_reply cuts up: the output, or a word about there being none,
\* with "error: " before it and the warnings after it.
LEMMA BodyIs ==
    ASSUME NEW C, Added \subseteq C, NEW ok \in BOOLEAN, NEW warnings \in Nat,
           NEW output \in Seq(Seq(C)), output # <<>>
    PROVE  /\ Body(ok, output, warnings) \in Seq(Seq(C))
           /\ Len(Body(ok, output, warnings)) = Len(output) + warnings
           /\ AllBlank(Body(ok, output, warnings)) <=>
                 ok /\ warnings = 0 /\ Len(output) >= 2 /\ AllBlank(output)
<1> DEFINE shown == IF output = <<Blank>> THEN <<NoOutput>> ELSE output
           marked == IF ok THEN shown ELSE [shown EXCEPT ![1] = ErrorPrefix \o @]
           warned == [i \in 1..warnings |-> Warning]
<1>1. /\ NoOutput \in Seq(C) /\ NoOutput # Blank
      /\ ErrorPrefix \in Seq(C) /\ Len(ErrorPrefix) = 1
      /\ Warning \in Seq(C) /\ Warning # Blank
  <2> DEFINE x == "(no output)"
             y == "error: "
             z == "warning: ..."
  <2>1. /\ x \in C /\ y \in C /\ z \in C
        /\ NoOutput = <<x>> /\ ErrorPrefix = <<y>> /\ Warning = <<z>> /\ Blank = <<>>
    BY DEF Added, NoOutput, ErrorPrefix, Warning, Blank
  <2> HIDE DEF x, y, z
  <2>2. \A c \in C : <<c>> \in Seq(C) /\ Len(<<c>>) = 1 /\ <<c>> # <<>>
    OBVIOUS
  <2> QED BY <2>1, <2>2
<1>2. Len(output) \in Nat \ {0} /\ DOMAIN output = 1..Len(output)
  OBVIOUS
<1>3. /\ shown \in Seq(Seq(C)) /\ Len(shown) = Len(output)
      /\ AllBlank(shown) <=> Len(output) >= 2 /\ AllBlank(output)
  <2>1. CASE output = <<Blank>>
    <3>1. shown = <<NoOutput>> /\ Len(output) = 1
      BY <2>1
    <3>2. /\ <<NoOutput>> \in Seq(Seq(C)) /\ Len(<<NoOutput>>) = 1
          /\ 1 \in DOMAIN <<NoOutput>> /\ <<NoOutput>>[1] = NoOutput
      BY <1>1
    <3> HIDE DEF shown
    <3> QED BY <1>1, <3>1, <3>2 DEF AllBlank
  <2>2. CASE output # <<Blank>>
    <3>1. ASSUME AllBlank(output), Len(output) < 2 PROVE FALSE
      <4>1. Len(output) = 1 /\ output[1] = Blank
        BY <1>2, <3>1 DEF AllBlank
      <4>2. output = <<output[1]>>
        BY <4>1
      <4> QED BY <2>2, <4>1, <4>2
    <3> QED BY <1>2, <2>2, <3>1
  <2> QED BY <2>1, <2>2
<1> HIDE DEF shown
<1>4. /\ marked \in Seq(Seq(C)) /\ Len(marked) = Len(output)
      /\ AllBlank(marked) <=> ok /\ AllBlank(shown)
  <2>1. CASE ok
    BY <1>3, <2>1
  <2>2. CASE ~ok
    <3> DEFINE T == Seq(C)
               first == ErrorPrefix \o shown[1]
    <3>1. marked = [shown EXCEPT ![1] = first]
      BY <2>2
    <3>2. 1 \in DOMAIN shown /\ shown[1] \in Seq(C)
      BY <1>2, <1>3
    <3>3. first \in T /\ Len(first) = 1 + Len(shown[1]) /\ Len(shown[1]) \in Nat
      <4>1. ErrorPrefix \in Seq(C) /\ Len(ErrorPrefix) = 1
        BY <1>1
      <4>2. /\ first \in Seq(C) /\ Len(first) = Len(ErrorPrefix) + Len(shown[1])
            /\ Len(shown[1]) \in Nat
        <5> DEFINE s == shown[1]
        <5>1. s \in Seq(C)
          BY <3>2
        <5> HIDE DEF s
        <5>2. /\ ErrorPrefix \o s \in Seq(C) /\ Len(s) \in Nat
              /\ Len(ErrorPrefix \o s) = Len(ErrorPrefix) + Len(s)
          BY <4>1, <5>1, ConcatIs
        <5> QED BY <5>2 DEF s
      <4> QED BY <4>1, <4>2
    <3>4. first # Blank
      BY <3>3 DEF Blank
    <3> HIDE DEF first, T
    <3>5. /\ [shown EXCEPT ![1] = first] \in Seq(T)
          /\ Len([shown EXCEPT ![1] = first]) = Len(shown)
          /\ 1 \in DOMAIN [shown EXCEPT ![1] = first]
          /\ [shown EXCEPT ![1] = first][1] = first
      BY <1>3, <3>2, <3>3 DEF T
    <3> QED BY <1>3, <2>2, <3>1, <3>4, <3>5 DEF AllBlank, T
  <2> QED BY <2>1, <2>2
<1> HIDE DEF marked
<1>5. warned \in Seq(Seq(C)) /\ Len(warned) = warnings /\ \A i \in 1..warnings : warned[i] = Warning
  BY <1>1
<1>6. Body(ok, output, warnings) = marked \o warned
  BY DEF Body, marked, shown
<1> HIDE DEF warned
<1>7. /\ marked \o warned \in Seq(Seq(C))
      /\ Len(marked \o warned) = Len(marked) + Len(warned)
      /\ \A i \in 1..Len(marked) : (marked \o warned)[i] = marked[i]
      /\ \A i \in 1..Len(warned) : (marked \o warned)[Len(marked) + i] = warned[i]
  <2> DEFINE T == Seq(C)
  <2>1. marked \in Seq(T) /\ warned \in Seq(T)
    BY <1>4, <1>5
  <2> HIDE DEF T
  <2>2. marked \o warned \in Seq(T)
    BY <2>1, ConcatIs
  <2> QED BY <2>1, <2>2, ConcatIs DEF T
<1>8. AllBlank(marked \o warned) <=> warnings = 0 /\ AllBlank(marked)
  <2>1. ASSUME warnings = 0 PROVE AllBlank(marked \o warned) <=> AllBlank(marked)
    <3>1. DOMAIN (marked \o warned) = 1..Len(marked) /\ DOMAIN marked = 1..Len(marked)
      BY <1>4, <1>5, <1>7, <2>1
    <3> QED BY <1>7, <3>1 DEF AllBlank
  <2>2. ASSUME warnings # 0 PROVE ~AllBlank(marked \o warned)
    <3>1. 1 \in 1..Len(warned) /\ Len(marked) \in Nat
      BY <1>4, <1>5, <2>2
    <3>2. /\ (marked \o warned)[Len(marked) + 1] = Warning
          /\ Len(marked) + 1 \in DOMAIN (marked \o warned)
      BY <1>5, <1>7, <3>1
    <3> QED BY <1>1, <3>2 DEF AllBlank
  <2> QED BY <2>1, <2>2
<1> QED BY <1>3, <1>4, <1>5, <1>6, <1>7, <1>8

\* The reply to one output, for any ending, warnings and text.
LEMMA ReplyFits ==
    ASSUME NEW C, NEW ok \in BOOLEAN, NEW warnings \in Nat,
           NEW output \in Seq(Seq(C)), output # <<>>
    PROVE  /\ FitsSlack(ok, output, warnings)
           /\ Len(format_reply(ok, output, warnings)) \in Nat
<1> DEFINE D == C \cup Added
           chunks == chunk_output(Body(ok, output, warnings))
           messages == Gathered(chunks)
           T == Short(D) \ {Blank}
<1>0. Newline \in D /\ Added \subseteq D /\ output \in Seq(Seq(D))
  <2>1. Newline \in D /\ Added \subseteq D
    BY DEF Added
  <2>2. \A s \in Seq(C) : s \in Seq(D)
    OBVIOUS
  <2> HIDE DEF D
  <2> QED BY <2>1, <2>2
<1> HIDE DEF D
<1>1. /\ Body(ok, output, warnings) \in Seq(Seq(D))
      /\ Len(Body(ok, output, warnings)) = Len(output) + warnings
      /\ Len(output) \in Nat \ {0}
      /\ AllBlank(Body(ok, output, warnings)) <=>
            ok /\ warnings = 0 /\ Len(output) >= 2 /\ AllBlank(output)
  <2>1. Len(output) \in Nat \ {0}
    OBVIOUS
  <2> QED BY <1>0, <2>1, BodyIs
<1>2. Body(ok, output, warnings) # <<>>
  BY <1>1
<1>3. /\ chunks \in Seq(Short(D))
      /\ AllBlank(chunks) <=>
            AllBlank(Body(ok, output, warnings)) /\ Len(output) + warnings <= MaxChunks
  BY <1>0, <1>1, <1>2, ChunksAre
<1> HIDE DEF chunks
<1>4. /\ messages \in Seq(T)
      /\ messages = <<>> <=> ok /\ warnings = 0 /\ Len(output) \in 2..MaxChunks /\ AllBlank(output)
  <2>1. messages \in Seq(T) /\ (messages = <<>> <=> AllBlank(chunks))
    BY <1>0, <1>3, GatheredIs
  <2>2. /\ Len(output) >= 2 /\ Len(output) <= MaxChunks <=> Len(output) \in 2..MaxChunks
        /\ warnings = 0 => Len(output) + warnings = Len(output)
    BY <1>1, FormatAssumption
  <2> QED BY <1>1, <1>3, <2>1, <2>2
<1>5. format_reply(ok, output, warnings) =
         IF Len(messages) > MaxMessages
         THEN [SubSeq(messages, 1, MaxMessages) EXCEPT ![MaxMessages] = @ \o MessagesCut]
         ELSE messages
  BY DEF format_reply, chunks
<1> HIDE DEF messages
<1>6. /\ Len(messages) \in Nat
      /\ \A i \in 1..Len(messages) : messages[i] \in T
      /\ \A s \in T : s \in Seq(D) /\ s # Blank /\ Len(s) \in Nat /\ Len(s) <= MaxChars
  BY <1>4 DEF Short
<1>7. MessagesCut \in Seq(D) /\ Len(MessagesCut) = 2
  <2> DEFINE x == "(truncated)"
  <2>1. x \in D /\ MessagesCut = <<Newline, x>>
    BY <1>0 DEF Added, MessagesCut
  <2> HIDE DEF x
  <2> QED BY <1>0, <2>1
<1> DEFINE Fits(s) ==
      /\ Len(s) \in Nat /\ Len(s) <= MaxMessages
      /\ \A i \in DOMAIN s :
            /\ s[i] # Blank
            /\ Len(s[i]) <= MaxChars + (IF i = MaxMessages THEN Len(MessagesCut) ELSE 0)
      /\ s = <<>> <=> messages = <<>>
<1>8. ASSUME Len(messages) > MaxMessages
      PROVE  Fits(format_reply(ok, output, warnings))
  <2> DEFINE kept == SubSeq(messages, 1, MaxMessages)
             last == messages[MaxMessages] \o MessagesCut
             s == [kept EXCEPT ![MaxMessages] = last]
  <2>1. /\ Len(kept) = MaxMessages /\ DOMAIN kept = 1..MaxMessages
        /\ \A i \in 1..MaxMessages : kept[i] = messages[i]
        /\ MaxMessages \in 1..Len(messages) /\ MaxMessages \in 1..MaxMessages
    BY <1>4, <1>8, FormatAssumption
  <2>2. kept \in Seq(T) /\ messages[MaxMessages] \in Seq(D)
    <3>1. messages[MaxMessages] \in T
      BY <1>6, <2>1
    <3> QED BY <1>4, <1>6, <1>8, <3>1, FormatAssumption
  <2>3. /\ last \in Seq(D) /\ Len(last) = Len(messages[MaxMessages]) + 2
        /\ Len(messages[MaxMessages]) \in Nat /\ Len(messages[MaxMessages]) <= MaxChars
    <3>1. Len(messages[MaxMessages]) \in Nat /\ Len(messages[MaxMessages]) <= MaxChars
      BY <1>6, <2>1
    <3>2. last \in Seq(D) /\ Len(last) = Len(messages[MaxMessages]) + Len(MessagesCut)
      BY <1>7, <2>2, ConcatIs
    <3> QED BY <1>7, <3>1, <3>2
  <2>4. last # Blank
    BY <2>3 DEF Blank
  <2>5. format_reply(ok, output, warnings) = s
    BY <1>5, <1>8, <2>1
  <2> HIDE DEF kept, last
  <2>6. /\ Len(s) = MaxMessages /\ DOMAIN s = 1..MaxMessages
        /\ s[MaxMessages] = last /\ \A i \in 1..MaxMessages : i # MaxMessages => s[i] = messages[i]
    BY <2>1, <2>2
  <2> HIDE DEF s
  <2>7. ASSUME NEW i \in DOMAIN s
        PROVE  /\ s[i] # Blank
               /\ Len(s[i]) <= MaxChars + (IF i = MaxMessages THEN Len(MessagesCut) ELSE 0)
    <3>1. CASE i = MaxMessages
      BY <1>7, <2>3, <2>4, <2>6, <3>1, FormatAssumption
    <3>2. CASE i # MaxMessages
      <4>1. s[i] = messages[i] /\ i \in 1..Len(messages)
        BY <1>6, <1>8, <2>6, <3>2, FormatAssumption
      <4> QED BY <1>6, <3>2, <4>1, FormatAssumption
    <3> QED BY <3>1, <3>2
  <2>8. s # <<>> /\ messages # <<>>
    <3>1. 1 \in DOMAIN s
      BY <2>6, FormatAssumption
    <3>2. Len(messages) # 0
      BY <1>8, FormatAssumption
    <3> QED BY <3>1, <3>2
  <2>9. Fits(s)
    BY <2>6, <2>7, <2>8, FormatAssumption
  <2> QED BY <2>5, <2>9, Zenon
<1>9. ASSUME ~(Len(messages) > MaxMessages)
      PROVE  Fits(format_reply(ok, output, warnings))
  <2>1. DOMAIN messages = 1..Len(messages)
    BY <1>4
  <2>2. Fits(messages)
    BY <1>6, <1>7, <1>9, <2>1, FormatAssumption
  <2>3. format_reply(ok, output, warnings) = messages
    BY <1>5, <1>9
  <2> QED BY <2>2, <2>3, Zenon
<1>10. Fits(format_reply(ok, output, warnings))
  <2> HIDE DEF Fits
  <2> QED BY <1>8, <1>9
<1> QED BY <1>4, <1>10 DEF FitsSlack, AllBlank

\* Whatever an eval returns, its reply is a few messages that Slack takes:
\* none is empty or too long, and there is none only if the output consists
\* of newlines, of fewer than chunk_output cuts off (format_reply).
THEOREM RepliesFitSlack == Spec => []ReplyFitsSlack
<1>1. ASSUME NEW ok \in BOOLEAN, NEW output \in Outputs, NEW warnings \in Warnings
      PROVE  FitsSlack(ok, output, warnings)
  <2>1. output \in Seq(Seq(Character)) /\ output # <<>> /\ warnings \in Nat
    BY FormatAssumption
  <2> QED BY <2>1, ReplyFits
<1>2. ReplyFitsSlack
  BY <1>1 DEF ReplyFitsSlack
<1> QED BY <1>2, PTL

-----------------------------------------------------------------------------
(* The text of a reply. *)

Keeping(C) == [x \in C |-> IF x \in Added THEN <<>> ELSE <<x>>]

\* Unadded is one expansion...
LEMMA UnaddedIs ==
    ASSUME NEW C, NEW s \in Seq(C)
    PROVE  Unadded(s) = Expanded(Keeping(C), s) /\ Expands(Keeping(C), C, C)
<1> DEFINE f == Keeping(C)
<1>1. \A x \in C : f[x] = (IF x \in Added THEN <<>> ELSE <<x>>) /\ f[x] \in Seq(C)
  BY DEF Keeping
<1>2. Expands(f, C, C)
  <2>1. f = [x \in C |-> f[x]]
    BY DEF Keeping
  <2> HIDE DEF f
  <2> QED BY <1>1, <2>1 DEF Expands
<1>3. \A i \in DOMAIN s : s[i] \in C
  OBVIOUS
<1>4. \A i \in DOMAIN s : f[s[i]] = IF s[i] \in Added THEN <<>> ELSE <<s[i]>>
  BY <1>1, <1>3
<1> HIDE DEF f
<1>5. [i \in DOMAIN s |-> f[s[i]]] =
         [i \in DOMAIN s |-> IF s[i] \in Added THEN <<>> ELSE <<s[i]>>]
  BY <1>4
<1>6. Unadded(s) = Expanded(f, s)
  BY <1>5, Zenon DEF Unadded, Expanded
<1> QED BY <1>2, <1>6 DEF f

\* ...so that it goes along with putting sequences together.
LEMMA UnaddedConcat ==
    ASSUME NEW C, NEW s \in Seq(C), NEW t \in Seq(C)
    PROVE  /\ Unadded(s) \in Seq(C)
           /\ Unadded(s \o t) = Unadded(s) \o Unadded(t)
<1> DEFINE f == Keeping(C)
           u == s \o t
<1>1. u \in Seq(C)
  OBVIOUS
<1> HIDE DEF u
<1>2. /\ Unadded(s) = Expanded(f, s) /\ Unadded(t) = Expanded(f, t) /\ Unadded(u) = Expanded(f, u)
      /\ Expands(f, C, C)
  BY <1>1, UnaddedIs
<1> HIDE DEF f
<1>3. Expanded(f, s \o t) = Expanded(f, s) \o Expanded(f, t)
  BY <1>2, ExpandedConcat
<1>4. Expanded(f, s) \in Seq(C)
  BY <1>2, ExpandedType
<1> QED BY <1>2, <1>3, <1>4 DEF u

\* It leaves nothing of what was added, and everything else.
LEMMA UnaddedAlike ==
    ASSUME NEW Z, NEW s \in Seq(Z)
    PROVE  /\ Z \subseteq Added => Unadded(s) = <<>>
           /\ Z \cap Added = {} => Unadded(s) = s
<1> DEFINE f == Keeping(Z)
<1>1. Unadded(s) = Expanded(f, s) /\ Expands(f, Z, Z)
  BY UnaddedIs
<1>2. /\ Z \subseteq Added => \A x \in Z : f[x] = <<>>
      /\ Z \cap Added = {} => \A x \in Z : f[x] = <<x>>
  BY DEF Keeping
<1> HIDE DEF f
<1>3. /\ (\A x \in Z : f[x] = <<>>) => Expanded(f, s) = <<>>
      /\ (\A x \in Z : f[x] = <<x>>) => Expanded(f, s) = s
  <2>1. Z \in SUBSET Z
    OBVIOUS
  <2> QED BY <1>1, <2>1, ExpandedAlike
<1> QED BY <1>1, <1>2, <1>3

\* The output's characters of some messages.
Text(messages) == Unadded(FlattenSeq(messages))

LEMMA TextConcat ==
    ASSUME NEW C, NEW s \in Seq(Seq(C)), NEW t \in Seq(Seq(C))
    PROVE  Text(s) \in Seq(C) /\ Text(s \o t) = Text(s) \o Text(t)
<1>1. FlattenSeq(s \o t) = FlattenSeq(s) \o FlattenSeq(t)
  BY FlattenConcat
<1>2. FlattenSeq(s) \in Seq(C) /\ FlattenSeq(t) \in Seq(C)
  BY FlattenType
<1> QED BY <1>1, <1>2, UnaddedConcat DEF Text

LEMMA TextAppend ==
    ASSUME NEW C, NEW s \in Seq(Seq(C)), NEW e \in Seq(C)
    PROVE  /\ Text(s) \in Seq(C) /\ Text(<<>>) = <<>>
           /\ Text(Append(s, e)) = Text(s) \o Unadded(e)
           /\ Text(<<e>>) = Unadded(e)
<1>1. /\ FlattenSeq(<<>>) = <<>> /\ FlattenSeq(s) \in Seq(C)
      /\ FlattenSeq(Append(s, e)) = FlattenSeq(s) \o e
  BY FlattenAppend
<1>2. Unadded(<<>>) = <<>>
  <2> DEFINE Z == {}
             s0 == <<>>
  <2>1. s0 \in Seq(Z) /\ Z \subseteq Added
    OBVIOUS
  <2> HIDE DEF Z, s0
  <2>2. Unadded(s0) = <<>>
    BY <2>1, UnaddedAlike
  <2> QED BY <2>2 DEF s0
<1>3. FlattenSeq(<<e>>) = e
  <2>1. <<>> \in Seq(Seq(C)) /\ Append(<<>>, e) = <<e>> /\ <<>> \o e = e
    BY ConcatEmptySeq
  <2>2. FlattenSeq(Append(<<>>, e)) = FlattenSeq(<<>>) \o e
    BY <2>1, FlattenAppend
  <2> QED BY <1>1, <2>1, <2>2
<1>4. Unadded(FlattenSeq(s) \o e) = Unadded(FlattenSeq(s)) \o Unadded(e) /\ Unadded(FlattenSeq(s)) \in Seq(C)
  BY <1>1, UnaddedConcat
<1> QED BY <1>1, <1>2, <1>3, <1>4, Zenon DEF Text

LEMMA NothingKept == Unadded(Blank) = <<>> /\ Text(<<>>) = <<>>
<1> DEFINE none == <<>>
<1>1. none \in Seq(Seq({})) /\ none \in Seq({})
  OBVIOUS
<1> HIDE DEF none
<1>2. Text(<<>>) = <<>>
  BY <1>1, TextAppend
<1>3. FlattenSeq(<<>>) = <<>>
  BY <1>1, FlattenAppend
<1> QED BY <1>2, <1>3, Zenon DEF Text, Blank

\* Joining adds a newline at most...
LEMMA JoinedText ==
    ASSUME NEW C, Newline \in C, NEW current \in Seq(C), NEW line \in Seq(C)
    PROVE  Unadded(Joined(current, line)) = Unadded(current) \o Unadded(line)
<1>1. Unadded(<<>>) = <<>> /\ Unadded(line) \in Seq(C) /\ Unadded(current) \in Seq(C)
  BY NothingKept, UnaddedConcat DEF Blank
<1>2. CASE current = Blank
  <2>1. <<>> \o Unadded(line) = Unadded(line)
    BY <1>1, ConcatEmptySeq
  <2> QED BY <1>1, <1>2, <2>1, Zenon DEF Joined, Blank
<1>3. CASE current # Blank
  <2> DEFINE nl == <<Newline>>
             u == current \o nl
  <2>1. nl \in Seq(C) /\ nl \in Seq({Newline}) /\ {Newline} \subseteq Added
    BY DEF Added
  <2> HIDE DEF nl
  <2>2. u \in Seq(C)
    BY <2>1
  <2>3. Unadded(nl) = <<>>
    BY <2>1, UnaddedAlike
  <2>4. Unadded(u) = Unadded(current) \o <<>>
    BY <2>1, <2>3, UnaddedConcat
  <2>5. Unadded(u) = Unadded(current)
    BY <1>1, <2>4, ConcatEmptySeq
  <2> HIDE DEF u
  <2>6. Unadded(u \o line) = Unadded(u) \o Unadded(line)
    BY <2>2, UnaddedConcat
  <2>7. Joined(current, line) = u \o line
    BY <1>3 DEF Joined, u, nl
  <2> QED BY <2>5, <2>6, <2>7
<1> QED BY <1>2, <1>3

\* ...so that the loop of format_reply keeps the text of its lines.
LEMMA GatherText ==
    ASSUME NEW C, Newline \in C, NEW sofar \in Gathering(C), NEW line \in Seq(C)
    PROVE  Text(Gather(sofar, line).done) \o Unadded(Gather(sofar, line).current) =
           (Text(sofar.done) \o Unadded(sofar.current)) \o Unadded(line)
<1> DEFINE done == sofar.done
           current == sofar.current
           next == Gather(sofar, line)
<1>1. done \in Seq(Seq(C)) /\ current \in Seq(C)
  BY DEF Gathering
<1>2. /\ Overflows(current, line) => next.done = Append(done, current) /\ next.current = line
      /\ ~Overflows(current, line) => next.done = done /\ next.current = Joined(current, line)
  <2>1. sofar = [done |-> done, current |-> current]
    BY DEF Gathering
  <2> HIDE DEF done, current
  <2> QED BY <2>1 DEF Gather
<1> HIDE DEF done, current, next
<1>3. /\ Text(Append(done, current)) = Text(done) \o Unadded(current)
      /\ Text(done) \in Seq(C)
  BY <1>1, TextAppend
<1>4. Unadded(current) \in Seq(C) /\ Unadded(line) \in Seq(C)
  BY <1>1, UnaddedConcat
<1>5. Unadded(Joined(current, line)) = Unadded(current) \o Unadded(line)
  BY <1>1, JoinedText
<1>6. Text(done) \o (Unadded(current) \o Unadded(line)) =
         (Text(done) \o Unadded(current)) \o Unadded(line)
  <2> DEFINE x == Text(done)
             y == Unadded(current)
             z == Unadded(line)
  <2>1. x \in Seq(C) /\ y \in Seq(C) /\ z \in Seq(C)
    BY <1>3, <1>4
  <2> HIDE DEF x, y, z
  <2>2. (x \o y) \o z = x \o (y \o z)
    BY <2>1, ConcatAssociative
  <2> QED BY <2>2 DEF x, y, z
<1>7. CASE Overflows(current, line)
  BY <1>2, <1>3, <1>7 DEF next, done, current
<1>8. CASE ~Overflows(current, line)
  BY <1>2, <1>5, <1>6, <1>8 DEF next, done, current
<1> QED BY <1>7, <1>8

Upto(s, i) == SubSeq(s, 1, i)

LEMMA UptoIs ==
    ASSUME NEW A, NEW s \in Seq(A)
    PROVE  /\ Upto(s, 0) = <<>> /\ Upto(s, Len(s)) = s
           /\ \A i \in 0..Len(s) : Upto(s, i) \in Seq(A)
           /\ \A i \in 1..Len(s) : Upto(s, i) = Append(Upto(s, i - 1), s[i])
<1>1. Upto(s, 0) = <<>> /\ Upto(s, Len(s)) = s
  BY SubSeqEmpty, SubSeqFull DEF Upto
<1>2. \A i \in 0..Len(s) : Upto(s, i) \in Seq(A)
  BY DEF Upto
<1>3. ASSUME NEW i \in 1..Len(s) PROVE Upto(s, i) = Append(Upto(s, i - 1), s[i])
  <2> DEFINE t == Upto(s, i - 1)
  <2>1. t \in Seq(A) /\ s[i] \in A
    BY <1>2
  <2>2. Upto(s, i) = t \o <<s[i]>>
    <3>1. 1 \in 1..Len(s) /\ i \in 1..Len(s)
      OBVIOUS
    <3> QED BY <3>1, SubSeqRecursiveSecond DEF Upto
  <2> HIDE DEF t
  <2>3. Append(t, s[i]) = t \o <<s[i]>>
    BY <2>1, AppendIsConcat
  <2> QED BY <2>2, <2>3 DEF t
<1> QED BY <1>1, <1>2, <1>3

LEMMA GatheredText ==
    ASSUME NEW C, Newline \in C, NEW text \in Seq(Seq(C))
    PROVE  /\ Gathered(text) \in Seq(Seq(C))
           /\ Text(Gathered(text)) = Text(text)
<1> DEFINE n == Len(text)
           G == Gatherings(text)
           Is(i) == Text(G[i].done) \o Unadded(G[i].current) = Text(Upto(text, i))
           S == {i \in 0..n : Is(i)}
<1>0. n \in Nat /\ \A i \in 1..n : text[i] \in Seq(C)
  OBVIOUS
<1>1. /\ G \in [0..n -> Gathering(C)]
      /\ G[0] = [done |-> <<>>, current |-> Blank]
      /\ \A i \in 1..n : G[i] = Gather(G[i - 1], text[i])
  BY GatheringsIs
<1> HIDE DEF G
<1>2. /\ Upto(text, 0) = <<>> /\ Upto(text, n) = text
      /\ \A i \in 1..n : /\ Upto(text, i - 1) \in Seq(Seq(C))
                         /\ Upto(text, i) = Append(Upto(text, i - 1), text[i])
  <2> DEFINE A == Seq(C)
  <2>1. text \in Seq(A)
    OBVIOUS
  <2> HIDE DEF A
  <2>2. \A i \in 1..n : i - 1 \in 0..n
    BY <1>0
  <2> QED BY <2>1, <2>2, UptoIs DEF A
<1> HIDE DEF n
<1>3. Is(0)
  <2>1. G[0].done = <<>> /\ G[0].current = Blank
    BY <1>1
  <2>2. <<>> \o <<>> = <<>>
    OBVIOUS
  <2>3. Text(G[0].done) = <<>> /\ Unadded(G[0].current) = <<>> /\ Text(Upto(text, 0)) = <<>>
    BY <1>2, <2>1, NothingKept
  <2> QED BY <2>2, <2>3
<1>4. ASSUME NEW i \in 1..n, Is(i - 1) PROVE Is(i)
  <2>1. /\ G[i - 1] \in Gathering(C) /\ text[i] \in Seq(C) /\ G[i] = Gather(G[i - 1], text[i])
    BY <1>0, <1>1
  <2>2. Text(G[i].done) \o Unadded(G[i].current) = Text(Upto(text, i - 1)) \o Unadded(text[i])
    BY <1>4, <2>1, GatherText
  <2>3. Text(Upto(text, i)) = Text(Upto(text, i - 1)) \o Unadded(text[i])
    BY <1>2, <2>1, TextAppend
  <2> QED BY <2>2, <2>3
<1>5. Is(n)
  <2>1. 0 \in S
    BY <1>0, <1>3
  <2>2. ASSUME NEW i \in 1..n, i - 1 \in S PROVE i \in S
    <3>1. Is(i - 1) /\ i \in 0..n
      BY <1>0, <2>2
    <3> HIDE DEF Is
    <3>2. Is(i)
      BY <1>4, <3>1
    <3> QED BY <3>1, <3>2
  <2> HIDE DEF S
  <2>3. 0..n \subseteq S
    BY <1>0, <2>1, <2>2, InductionUpTo
  <2>4. n \in S
    BY <1>0, <2>3
  <2> QED BY <2>4 DEF S
<1> DEFINE done == G[n].done
           current == G[n].current
<1>6. /\ Gathered(text) = IF current = Blank THEN done ELSE Append(done, current)
      /\ done \in Seq(Seq(C)) /\ current \in Seq(C)
  <2>1. Gathered(text) = IF current = Blank THEN done ELSE Append(done, current)
    BY DEF Gathered, G, n
  <2>2. n \in 0..n
    BY <1>0
  <2> QED BY <1>1, <2>1, <2>2 DEF Gathering
<1>7. Text(done) \o Unadded(current) = Text(text)
  BY <1>2, <1>5
<1> HIDE DEF done, current
<1>8. Text(Append(done, current)) = Text(done) \o Unadded(current) /\ Text(done) \in Seq(C)
  BY <1>6, TextAppend
<1>9. CASE current = Blank
  <2>1. Unadded(current) = <<>>
    BY <1>9, NothingKept
  <2>2. Text(done) \o <<>> = Text(done)
    BY <1>8, ConcatEmptySeq
  <2> QED BY <1>6, <1>7, <1>9, <2>1, <2>2
<1>10. CASE current # Blank
  <2>1. Append(done, current) \in Seq(Seq(C))
    BY <1>6
  <2> QED BY <1>6, <1>7, <1>8, <1>10, <2>1
<1> QED BY <1>9, <1>10

\* The slices of a line, put together, are the line.
LEMMA PiecesText ==
    ASSUME NEW C, NEW line \in Seq(C)
    PROVE  FlattenSeq(Pieces(line)) = line
<1>1. CASE line = Blank
  <2>1. Blank \in Seq(C) /\ <<>> \in Seq(Seq(C)) /\ <<Blank>> = Append(<<>>, Blank)
    BY DEF Blank
  <2>2. FlattenSeq(<<>>) = <<>> /\ FlattenSeq(Append(<<>>, Blank)) = FlattenSeq(<<>>) \o Blank
    BY <2>1, FlattenAppend
  <2>3. <<>> \o Blank = Blank
    BY DEF Blank
  <2>4. FlattenSeq(<<Blank>>) = Blank
    BY <2>1, <2>2, <2>3
  <2>5. Pieces(line) = <<Blank>>
    BY <1>1 DEF Pieces
  <2> QED BY <1>1, <2>4, <2>5
<1>2. CASE line # Blank
  <2> DEFINE n == Len(line)
             q == (n - 1) \div MaxChars
             parts == Pieces(line)
             last(k) == IF k * MaxChars < n THEN k * MaxChars ELSE n
             F == Flattened(parts)
             S == {0} \cup {k \in 1..(q + 1) : F[k] = SubSeq(line, 1, last(k))}
  <2>1. n \in Nat \ {0} /\ MaxChars \in Nat \ {0} /\ q \in Nat
        /\ \A k \in Nat : k <= q <=> k * MaxChars <= n - 1
    <3>1. n \in Nat \ {0} /\ n - 1 \in Nat /\ MaxChars \in Nat \ {0}
      BY <1>2, FormatAssumption DEF Blank
    <3> QED BY <3>1, DivisionIs
  <2>2. /\ parts = [k \in 1..(q + 1) |-> Piece(line, k)]
        /\ \A k \in 1..(q + 1) : parts[k] = SubSeq(line, (k - 1) * MaxChars + 1, last(k))
    BY <1>2 DEF Pieces, Piece
  <2>3. parts \in Seq(Seq(C)) /\ parts # <<>> /\ Len(parts) = q + 1
    <3>1. \A k \in 1..(q + 1) : Piece(line, k) \in Seq(C)
      BY <1>2, PieceIs
    <3> HIDE DEF q, parts
    <3> DEFINE A == Seq(C)
    <3>2. \A k \in 1..(q + 1) : Piece(line, k) \in A
      BY <3>1
    <3> HIDE DEF A
    <3>3. parts \in Seq(A) /\ Len(parts) = q + 1
      BY <2>1, <2>2, <3>2
    <3> QED BY <2>1, <3>3 DEF A
  <2>4. /\ FlattenSeq(parts) = F[q + 1] /\ F[1] = parts[1]
        /\ \A k \in 2..(q + 1) : F[k] = F[k - 1] \o parts[k]
    <3> HIDE DEF parts, q
    <3> QED BY <2>3, FlattenedIs
  <2> HIDE DEF n, q, parts, F
  <2>5. ASSUME NEW k \in 1..(q + 1), k # q + 1
        PROVE  k * MaxChars <= n - 1
    BY <2>1, <2>5
  <2>6. (q + 1) * MaxChars > n - 1
    <3>1. ~(q + 1 <= q) /\ q + 1 \in Nat
      BY <2>1
    <3>2. (q + 1) * MaxChars \in Nat
      BY <2>1
    <3> QED BY <2>1, <3>1, <3>2
  <2>7. last(q + 1) = n
    BY <2>1, <2>6
  <2>8. ASSUME NEW k \in 1..(q + 1), k - 1 \in S PROVE k \in S
    <3>1. CASE k = 1
      <4>1. (1 - 1) * MaxChars + 1 = 1
        BY <2>1
      <4> QED BY <2>2, <2>4, <3>1, <4>1
    <3>2. CASE k # 1
      <4>1. k \in 2..(q + 1) /\ k - 1 \in 1..(q + 1) /\ k - 1 # 0 /\ k - 1 # q + 1
        BY <2>1, <3>2
      <4>2. F[k - 1] = SubSeq(line, 1, last(k - 1))
        <5>1. k - 1 \in S
          BY <2>8
        <5> HIDE DEF last
        <5> QED BY <4>1, <5>1
      <4> DEFINE m == (k - 1) * MaxChars
      <4>3. m <= n - 1 /\ m \in Nat /\ m >= 1
        <5>1. m \in Nat /\ m >= k - 1
          BY <2>1, <4>1
        <5> QED BY <2>1, <2>5, <4>1, <5>1
      <4>4. k * MaxChars = m + MaxChars /\ k * MaxChars \in Nat
        BY <2>1, <4>1
      <4> HIDE DEF m
      <4>5. last(k - 1) = m /\ last(k) \in m..n
        BY <2>1, <4>3, <4>4 DEF m
      <4> HIDE DEF last
      <4>6. SubSeq(line, 1, m) \o SubSeq(line, m + 1, last(k)) = SubSeq(line, 1, last(k))
        <5>1. 1 \in 1..(Len(line) + 1) /\ m \in (1 - 1)..Len(line) /\ last(k) \in m..Len(line)
          BY <2>1, <4>3, <4>5 DEF n
        <5> QED BY <5>1, ConcatAdjacentSubSeq
      <4>7. parts[k] = SubSeq(line, m + 1, last(k))
        BY <2>2 DEF m
      <4> QED BY <2>4, <4>1, <4>2, <4>5, <4>6, <4>7
    <3> QED BY <3>1, <3>2
  <2>9. F[q + 1] = SubSeq(line, 1, last(q + 1))
    <3>1. 0 \in S /\ q + 1 \in Nat /\ q + 1 # 0 /\ q + 1 \in 0..(q + 1)
      BY <2>1
    <3> HIDE DEF S
    <3>2. 0..(q + 1) \subseteq S
      BY <2>8, <3>1, InductionUpTo
    <3>3. q + 1 \in S
      BY <3>1, <3>2
    <3> HIDE DEF last
    <3> QED BY <3>1, <3>3 DEF S
  <2>10. SubSeq(line, 1, n) = line
    BY SubSeqFull DEF n
  <2> HIDE DEF last
  <2> QED BY <2>4, <2>7, <2>9, <2>10 DEF parts
<1> QED BY <1>1, <1>2

\* The slices of a text are those of its lines, one after the other...
LEMMA SlicesAppend ==
    ASSUME NEW C, NEW text \in Seq(Seq(C)), NEW line \in Seq(C)
    PROVE  /\ Slices(<<>>) = <<>>
           /\ Slices(text) \in Seq(Seq(C)) /\ Pieces(line) \in Seq(Seq(C))
           /\ Slices(Append(text, line)) = Slices(text) \o Pieces(line)
<1> DEFINE A == Seq(C)
           f == [l \in A |-> Pieces(l)]
<1>1. \A l \in A : Pieces(l) \in Seq(A)
  <2> SUFFICES ASSUME NEW l \in A PROVE Pieces(l) \in Seq(A)
    OBVIOUS
  <2>1. Pieces(l) \in Seq(Short(C)) /\ Short(C) \subseteq A
    BY PiecesIs DEF Short
  <2> QED BY <2>1, SeqMonotonic
<1>2. Expands(f, A, A)
  <2> HIDE DEF A
  <2> QED BY <1>1 DEF Expands
<1>3. ASSUME NEW t \in Seq(A) PROVE Slices(t) = Expanded(f, t)
  <2>1. \A i \in DOMAIN t : f[t[i]] = Pieces(t[i])
    <3> HIDE DEF A
    <3> QED OBVIOUS
  <2>2. [i \in DOMAIN t |-> Pieces(t[i])] = [i \in DOMAIN t |-> f[t[i]]]
    BY <2>1
  <2> QED BY <2>2, Zenon DEF Slices, Expanded
<1>4. text \in Seq(A) /\ line \in A /\ f[line] = Pieces(line)
  OBVIOUS
<1> HIDE DEF f, A
<1>5. Append(text, line) \in Seq(A) /\ <<>> \in Seq(A)
  BY <1>4
<1>6. /\ Expanded(f, <<>>) = <<>>
      /\ Expanded(f, text) \in Seq(A)
      /\ Expanded(f, Append(text, line)) = Expanded(f, text) \o f[line]
  <2>1. text \in Seq(A) /\ line \in A
    BY <1>4
  <2>2. Expanded(f, text) \in Seq(A)
    BY <1>2, <2>1, ExpandedType
  <2>3. Expanded(f, Append(text, line)) = Expanded(f, text) \o f[line]
    BY ONLY <1>2, <2>1, ExpandedAppend
  <2> QED BY <2>2, <2>3, ExpandedEmpty
<1>7. Slices(<<>>) = <<>> /\ Slices(text) \in Seq(A) /\ Pieces(line) \in Seq(A)
  BY <1>1, <1>3, <1>4, <1>5, <1>6
<1>8. Slices(Append(text, line)) = Slices(text) \o Pieces(line)
  BY <1>3, <1>4, <1>5, <1>6
<1> QED BY <1>7, <1>8 DEF A

\* ...and hold the text.
LEMMA SlicesText ==
    ASSUME NEW C, NEW text \in Seq(Seq(C))
    PROVE  FlattenSeq(Slices(text)) = FlattenSeq(text)
<1> DEFINE A == Seq(C)
           P == {t \in Seq(A) : FlattenSeq(Slices(t)) = FlattenSeq(t)}
<1>1. <<>> \in P
  <2>1. <<>> \in Seq(A) /\ <<>> \in A
    OBVIOUS
  <2>2. Slices(<<>>) = <<>>
    BY SlicesAppend
  <2> QED BY <2>1, <2>2
<1>2. ASSUME NEW t \in Seq(A), NEW line \in A, t \in P PROVE Append(t, line) \in P
  <2>1. /\ t \in Seq(Seq(C)) /\ line \in Seq(C) /\ Append(t, line) \in Seq(A)
        /\ FlattenSeq(Slices(t)) = FlattenSeq(t)
    <3>1. FlattenSeq(Slices(t)) = FlattenSeq(t)
      BY <1>2
    <3>2. Append(t, line) \in Seq(A)
      <4> HIDE DEF A
      <4> QED OBVIOUS
    <3> QED BY <3>1, <3>2
  <2>2. /\ Slices(Append(t, line)) = Slices(t) \o Pieces(line)
        /\ Slices(t) \in Seq(Seq(C)) /\ Pieces(line) \in Seq(Seq(C))
    BY <2>1, SlicesAppend
  <2>3. FlattenSeq(Slices(t) \o Pieces(line)) = FlattenSeq(Slices(t)) \o FlattenSeq(Pieces(line))
    BY <2>2, FlattenConcat
  <2>4. FlattenSeq(Pieces(line)) = line
    BY PiecesText
  <2>5. FlattenSeq(Append(t, line)) = FlattenSeq(t) \o line
    BY <2>1, FlattenAppend
  <2> QED BY <2>1, <2>2, <2>3, <2>4, <2>5
<1>3. Seq(A) \subseteq P
  <2> HIDE DEF A, P
  <2> QED BY <1>1, <1>2, InductionOnSeq
<1> QED BY <1>3

LEMMA PrefixIs ==
    ASSUME NEW C, NEW s \in Seq(C), NEW t \in Seq(C)
    PROVE  IsPrefix(s, s \o t)
<1> DEFINE u == s \o t
<1>1. /\ u \in Seq(C) /\ Len(u) = Len(s) + Len(t) /\ Len(s) \in Nat /\ Len(t) \in Nat
      /\ \A i \in 1..Len(s) : u[i] = s[i]
  BY ConcatIs
<1> HIDE DEF u
<1>2. SubSeq(u, 1, Len(s)) = SubSeq(s, 1, Len(s))
  <2>1. /\ SubSeq(u, 1, Len(s)) = [i \in 1..Len(s) |-> u[i]]
        /\ SubSeq(s, 1, Len(s)) = [i \in 1..Len(s) |-> s[i]]
    BY <1>1
  <2> QED BY <1>1, <2>1
<1> QED BY <1>1, <1>2 DEF IsPrefix, u

\* A cut leaves the text in front of it.
LEMMA CutText ==
    ASSUME NEW C, NEW messages \in Seq(Seq(C)), NEW k \in 0..Len(messages)
    PROVE  \E rest \in Seq(C) : Text(messages) = Text(SubSeq(messages, 1, k)) \o rest
<1> DEFINE A == Seq(C)
           front == SubSeq(messages, 1, k)
           back == SubSeq(messages, k + 1, Len(messages))
<1>1. messages \in Seq(A)
  OBVIOUS
<1> HIDE DEF A
<1>2. front \in Seq(A) /\ back \in Seq(A) /\ messages = front \o back
  <2>1. /\ Len(messages) \in Nat /\ 1 \in 1..(Len(messages) + 1) /\ k \in (1 - 1)..Len(messages)
        /\ Len(messages) \in k..Len(messages)
    BY <1>1
  <2>2. front \in Seq(A) /\ back \in Seq(A)
    BY <1>1, <2>1
  <2>3. front \o back = SubSeq(messages, 1, Len(messages))
    BY <1>1, <2>1, ConcatAdjacentSubSeq
  <2> QED BY <1>1, <2>2, <2>3, SubSeqFull
<1> HIDE DEF front, back
<1>3. front \in Seq(Seq(C)) /\ back \in Seq(Seq(C))
  BY <1>2 DEF A
<1>4. Text(front \o back) = Text(front) \o Text(back) /\ Text(back) \in Seq(C)
  BY <1>3, TextConcat
<1>5. Text(messages) = Text(front) \o Text(back)
  BY <1>2, <1>4
<1> QED BY <1>4, <1>5 DEF front

LEMMA ChunksText ==
    ASSUME NEW C, Added \subseteq C, NEW text \in Seq(Seq(C)), text # <<>>
    PROVE  /\ chunk_output(text) \in Seq(Seq(C))
           /\ \E rest \in Seq(C) : Text(text) = Text(chunk_output(text)) \o rest
           /\ Len(Slices(text)) <= MaxChunks => Text(chunk_output(text)) = Text(text)
<1> DEFINE slices == Slices(text)
<1>1. slices \in Seq(Seq(C)) /\ Len(slices) \in Nat /\ Text(slices) = Text(text)
  <2>1. slices \in Seq(Short(C)) /\ Short(C) \subseteq Seq(C)
    BY SlicesIs DEF Short
  <2>2. slices \in Seq(Seq(C))
    BY <2>1, SeqMonotonic
  <2> HIDE DEF slices
  <2>3. Len(slices) \in Nat
    BY <2>2
  <2>4. Text(slices) = Text(text)
    BY SlicesText DEF Text, slices
  <2> QED BY <2>2, <2>3, <2>4
<1> HIDE DEF slices
<1>2. chunk_output(text) = IF Len(slices) > MaxChunks
                           THEN Append(SubSeq(slices, 1, MaxChunks - 1), LinesCut) ELSE slices
  BY DEF chunk_output, slices
<1>3. CASE Len(slices) > MaxChunks
  <2> DEFINE kept == SubSeq(slices, 1, MaxChunks - 1)
  <2>1. MaxChunks - 1 \in 0..Len(slices)
    BY <1>1, <1>3, FormatAssumption
  <2>2. PICK rest \in Seq(C) : Text(slices) = Text(kept) \o rest
    BY <1>1, <2>1, CutText
  <2>3. kept \in Seq(Seq(C))
    <3> DEFINE A == Seq(C)
    <3>1. slices \in Seq(A)
      BY <1>1
    <3> HIDE DEF A
    <3>2. kept \in Seq(A)
      BY <1>1, <2>1, <3>1
    <3> QED BY <3>2 DEF A
  <2>4. LinesCut \in Seq(C) /\ Unadded(LinesCut) = <<>>
    <3> DEFINE x == "error: output truncated to ... lines total"
    <3>1. x \in C /\ {x} \subseteq Added /\ LinesCut = <<x>>
      BY DEF Added, LinesCut
    <3> HIDE DEF x
    <3>2. LinesCut \in Seq(C) /\ LinesCut \in Seq({x})
      BY <3>1
    <3> QED BY <3>1, <3>2, UnaddedAlike
  <2> HIDE DEF kept
  <2>5. Text(Append(kept, LinesCut)) = Text(kept) \o Unadded(LinesCut) /\ Text(kept) \in Seq(C)
    BY <2>3, <2>4, TextAppend
  <2>6. Text(Append(kept, LinesCut)) = Text(kept)
    BY <2>4, <2>5, ConcatEmptySeq
  <2>7. chunk_output(text) = Append(kept, LinesCut)
    BY <1>2, <1>3 DEF kept
  <2>8. Append(kept, LinesCut) \in Seq(Seq(C))
    <3> DEFINE A == Seq(C)
    <3>1. kept \in Seq(A) /\ LinesCut \in A
      BY <2>3, <2>4
    <3> HIDE DEF A
    <3>2. Append(kept, LinesCut) \in Seq(A)
      BY <3>1
    <3> QED BY <3>2 DEF A
  <2>9. ~(Len(Slices(text)) <= MaxChunks)
    BY <1>1, <1>3, FormatAssumption DEF slices
  <2> QED BY <1>1, <2>2, <2>6, <2>7, <2>8, <2>9
<1>4. CASE ~(Len(slices) > MaxChunks)
  <2>1. Text(slices) \o <<>> = Text(slices) /\ <<>> \in Seq(C)
    <3>1. Text(slices) \in Seq(C)
      BY <1>1, TextConcat
    <3> QED BY <3>1, ConcatEmptySeq
  <2> QED BY <1>1, <1>2, <1>4, <2>1
<1> QED BY <1>3, <1>4

LEMMA AroundIs ==
    ASSUME NEW A, NEW s \in Seq(A), NEW k \in 1..Len(s)
    PROVE  /\ SubSeq(s, 1, k - 1) \in Seq(A) /\ SubSeq(s, k + 1, Len(s)) \in Seq(A)
           /\ s = (SubSeq(s, 1, k - 1) \o <<s[k]>>) \o SubSeq(s, k + 1, Len(s))
<1>1. /\ Len(s) \in Nat /\ k \in Nat /\ 1 \in 1..Len(s) /\ k \in (1 - 1)..Len(s)
      /\ 1 \in 1..(Len(s) + 1) /\ Len(s) \in k..Len(s) /\ k \in 1..Len(s)
  OBVIOUS
<1>2. SubSeq(s, 1, k - 1) \in Seq(A) /\ SubSeq(s, k + 1, Len(s)) \in Seq(A)
  BY <1>1
<1>3. SubSeq(s, 1, k) = SubSeq(s, 1, k - 1) \o <<s[k]>>
  BY <1>1, SubSeqRecursiveSecond
<1>4. SubSeq(s, 1, k) \o SubSeq(s, k + 1, Len(s)) = SubSeq(s, 1, Len(s))
  BY <1>1, ConcatAdjacentSubSeq
<1>5. SubSeq(s, 1, Len(s)) = s
  BY SubSeqFull
<1> QED BY <1>2, <1>3, <1>4, <1>5

LEMMA SameBack ==
    ASSUME NEW A, NEW s \in Seq(A), NEW t \in Seq(A), Len(s) = Len(t),
           NEW k \in 1..(Len(s) + 1), \A i \in k..Len(s) : s[i] = t[i]
    PROVE  SubSeq(s, k, Len(s)) = SubSeq(t, k, Len(s))
<1>1. CASE k = Len(s) + 1
  <2>1. Len(s) < k /\ k \in Int /\ Len(s) \in Int
    BY <1>1
  <2> QED BY <2>1, SubSeqEmpty
<1>2. CASE k \in 1..Len(s)
  <2> DEFINE n == Len(s)
  <2>1. n \in Nat /\ k \in 1..n /\ \A i \in 1..(1 + n - k) : i + k - 1 \in k..n
    BY <1>2
  <2>2. /\ SubSeq(s, k, n) = [i \in 1..(1 + n - k) |-> s[i + k - 1]]
        /\ SubSeq(t, k, n) = [i \in 1..(1 + n - k) |-> t[i + k - 1]]
    BY <2>1
  <2> HIDE DEF n
  <2>3. \A i \in k..n : s[i] = t[i]
    BY DEF n
  <2> QED BY <2>1, <2>2, <2>3 DEF n
<1> QED BY <1>1, <1>2

\* Adding something to one of the messages does not change their text.
Replaced(s, k, x) == [s EXCEPT ![k] = x]

LEMMA ReplacedText ==
    ASSUME NEW C, NEW s \in Seq(Seq(C)), NEW k \in 1..Len(s), NEW x \in Seq(C),
           Unadded(x) = Unadded(s[k])
    PROVE  Replaced(s, k, x) \in Seq(Seq(C)) /\ Text(Replaced(s, k, x)) = Text(s)
<1> DEFINE A == Seq(C)
           r == [s EXCEPT ![k] = x]
           n == Len(s)
           Before(u) == SubSeq(u, 1, k - 1)
           After(u) == SubSeq(u, k + 1, n)
<1>1. s \in Seq(A) /\ x \in A
  OBVIOUS
<1> HIDE DEF A
<1>2. r \in Seq(A) /\ Len(r) = n /\ r[k] = x /\ \A i \in 1..n : i # k => r[i] = s[i]
  BY <1>1
<1>3. n \in Nat /\ k \in 1..n
  BY <1>1
<1> HIDE DEF r, n
<1>4. Before(r) = Before(s) /\ After(r) = After(s)
  <2>1. \A i \in 1..(k - 1) : r[i] = s[i]
    BY <1>2, <1>3
  <2>2. Before(r) = [i \in 1..(k - 1) |-> r[i]] /\ Before(s) = [i \in 1..(k - 1) |-> s[i]]
    BY <1>1, <1>2, <1>3 DEF n
  <2>3. k + 1 \in 1..(n + 1) /\ \A i \in (k + 1)..n : r[i] = s[i]
    BY <1>2, <1>3
  <2>4. After(r) = After(s)
    BY <1>1, <1>2, <2>3, SameBack DEF n
  <2> QED BY <2>1, <2>2, <2>4
<1>5. /\ Before(s) \in Seq(A) /\ After(s) \in Seq(A)
      /\ s = (Before(s) \o <<s[k]>>) \o After(s)
  BY <1>1, AroundIs DEF n
<1>6. r = (Before(r) \o <<r[k]>>) \o After(r)
  <2>1. k \in 1..Len(r) /\ r \in Seq(A)
    BY <1>2, <1>3
  <2>2. r = (SubSeq(r, 1, k - 1) \o <<r[k]>>) \o SubSeq(r, k + 1, Len(r))
    BY <2>1, AroundIs
  <2> QED BY <1>2, <2>2
<1>7. r = (Before(s) \o <<x>>) \o After(s)
  BY <1>2, <1>4, <1>6
<1> DEFINE front == Before(s)
           back == After(s)
<1> HIDE DEF Before, After
<1>8. ASSUME NEW y \in A
      PROVE  Text((front \o <<y>>) \o back) = (Text(front) \o Unadded(y)) \o Text(back)
  <2> HIDE DEF front, back
  <2> DEFINE p == <<y>>
  <2>1. p \in Seq(A) /\ front \in Seq(A) /\ back \in Seq(A)
    BY <1>5 DEF front, back
  <2>2. Text(p) = Unadded(y)
    BY <2>1, TextAppend DEF A
  <2> HIDE DEF p
  <2>3. Text(front \o p) = Text(front) \o Text(p)
    BY <2>1, TextConcat DEF A
  <2> DEFINE u == front \o p
  <2>4. u \in Seq(A)
    BY <2>1
  <2> HIDE DEF u
  <2>5. Text(u \o back) = Text(u) \o Text(back)
    BY <2>1, <2>4, TextConcat DEF A
  <2> QED BY <2>2, <2>3, <2>5 DEF u, p
<1>9. s[k] \in A
  BY <1>1, <1>3 DEF n
<1> QED BY <1>1, <1>2, <1>5, <1>7, <1>8, <1>9 DEF r, A, Replaced

\* What format_reply adds to an output before it cuts it up.
LEMMA BodyText ==
    ASSUME NEW ok \in BOOLEAN, NEW warnings \in Nat,
           NEW output \in Seq(Seq(Character)), output # <<>>
    PROVE  Text(Body(ok, output, warnings)) = FlattenSeq(output)
<1> DEFINE C == Character \cup Added
           A == Seq(C)
           shown == IF output = <<Blank>> THEN <<NoOutput>> ELSE output
           marked == IF ok THEN shown ELSE [shown EXCEPT ![1] = ErrorPrefix \o @]
           warned == [i \in 1..warnings |-> Warning]
<1>1. /\ NoOutput \in A /\ Unadded(NoOutput) = <<>>
      /\ ErrorPrefix \in A /\ Unadded(ErrorPrefix) = <<>>
      /\ Warning \in Seq(Added)
  <2> DEFINE x == "(no output)"
             y == "error: "
             z == "warning: ..."
  <2>1. /\ NoOutput = <<x>> /\ ErrorPrefix = <<y>> /\ Warning = <<z>>
        /\ x \in Added /\ y \in Added /\ z \in Added
    BY DEF Added, NoOutput, ErrorPrefix, Warning
  <2> HIDE DEF x, y, z
  <2>2. /\ <<x>> \in Seq(Added) /\ <<y>> \in Seq(Added) /\ <<z>> \in Seq(Added)
        /\ <<x>> \in Seq(C) /\ <<y>> \in Seq(C)
    BY <2>1
  <2>3. Unadded(<<x>>) = <<>> /\ Unadded(<<y>>) = <<>>
    <3>1. Added \subseteq Added
      OBVIOUS
    <3> HIDE DEF C
    <3> QED BY <2>2, <3>1, UnaddedAlike
  <2> QED BY <2>1, <2>2, <2>3
<1>2. /\ output \in Seq(A) /\ Len(output) \in Nat \ {0}
      /\ Text(output) = FlattenSeq(output)
  <2>1. FlattenSeq(output) \in Seq(Character)
    BY FlattenType
  <2>2. Character \cap Added = {}
    BY CharacterAssumption
  <2>3. Text(output) = FlattenSeq(output)
    BY <2>1, <2>2, UnaddedAlike DEF Text
  <2>4. Seq(Character) \subseteq A
    OBVIOUS
  <2>5. output \in Seq(A)
    BY <2>4, SeqMonotonic
  <2> QED BY <2>3, <2>5
<1> HIDE DEF A, C
<1>3. shown \in Seq(A) /\ Len(shown) \in Nat \ {0} /\ Text(shown) = FlattenSeq(output)
  <2>1. CASE output = <<Blank>>
    <3>1. <<>> \in Seq(Seq(C)) /\ NoOutput \in Seq(C) /\ Blank \in Seq(C)
      BY <1>1 DEF A, Blank
    <3>2. Text(<<NoOutput>>) = Unadded(NoOutput) /\ Text(<<Blank>>) = Unadded(Blank)
      BY <3>1, TextAppend
    <3>3. Text(<<NoOutput>>) = FlattenSeq(output)
      BY <1>1, <1>2, <2>1, <3>2, NothingKept
    <3>4. <<NoOutput>> \in Seq(A) /\ Len(<<NoOutput>>) = 1
      BY <1>1
    <3> QED BY <2>1, <3>3, <3>4
  <2>2. CASE output # <<Blank>>
    BY <1>2, <2>2
  <2> QED BY <2>1, <2>2
<1> HIDE DEF shown
<1>4. marked \in Seq(A) /\ Text(marked) = Text(shown)
  <2>1. CASE ok
    BY <1>3, <2>1
  <2>2. CASE ~ok
    <3> DEFINE s == shown[1]
               prefixed == ErrorPrefix \o s
    <3>1. 1 \in 1..Len(shown) /\ s \in Seq(C) /\ shown \in Seq(Seq(C)) /\ ErrorPrefix \in Seq(C)
      <4>1. 1 \in 1..Len(shown) /\ s \in A
        BY <1>3
      <4> QED BY <1>1, <1>3, <4>1 DEF A
    <3>2. prefixed \in Seq(C) /\ Unadded(prefixed) = Unadded(s)
      <4> HIDE DEF s
      <4>1. prefixed \in Seq(C)
        BY <3>1, ConcatIs
      <4>2. Unadded(prefixed) = <<>> \o Unadded(s) /\ Unadded(s) \in Seq(C)
        BY <1>1, <3>1, UnaddedConcat
      <4> QED BY <4>1, <4>2, ConcatEmptySeq
    <3>3. marked = [shown EXCEPT ![1] = prefixed]
      BY <2>2
    <3> HIDE DEF prefixed, marked
    <3>4. Replaced(shown, 1, prefixed) \in Seq(A) /\ Text(Replaced(shown, 1, prefixed)) = Text(shown)
      BY <3>1, <3>2, ReplacedText DEF A
    <3> QED BY <3>3, <3>4 DEF Replaced
  <2> QED BY <2>1, <2>2
<1> HIDE DEF marked
<1>5. warned \in Seq(A) /\ Text(warned) = <<>>
  <2> DEFINE B == Seq(Added)
  <2>1. B \subseteq A
    BY DEF C, A
  <2>2. warned \in Seq(B)
    <3>1. Warning \in B
      BY <1>1
    <3> HIDE DEF B
    <3> QED BY <3>1
  <2> HIDE DEF warned
  <2>3. FlattenSeq(warned) \in Seq(Added)
    BY <2>2, FlattenType
  <2>4. Text(warned) = <<>>
    BY <2>3, UnaddedAlike DEF Text
  <2> HIDE DEF B
  <2>5. warned \in Seq(A)
    BY <2>1, <2>2, SeqMonotonic
  <2> QED BY <2>4, <2>5
<1>6. Body(ok, output, warnings) = marked \o warned
  BY DEF Body, marked, shown
<1> HIDE DEF warned
<1>7. Text(marked \o warned) = Text(marked) \o Text(warned) /\ Text(marked) \in Seq(C)
  BY <1>4, <1>5, TextConcat DEF A
<1>8. Text(marked) \o <<>> = Text(marked)
  BY <1>7, ConcatEmptySeq
<1> QED BY <1>3, <1>4, <1>5, <1>6, <1>7, <1>8

\* What format_reply keeps of an output: a beginning, and all of it if no
\* limit is reached.
LEMMA ReplyText ==
    ASSUME NEW ok \in BOOLEAN, NEW warnings \in Nat,
           NEW output \in Seq(Seq(Character)), output # <<>>
    PROVE  LET body == Body(ok, output, warnings)
               messages == Gathered(chunk_output(body))
               kept == Text(format_reply(ok, output, warnings))
           IN  /\ IsPrefix(kept, FlattenSeq(output))
               /\ Len(Slices(body)) <= MaxChunks /\ Len(messages) <= MaxMessages
                     => kept = FlattenSeq(output)
<1> DEFINE C == Character \cup Added
           A == Seq(C)
           body == Body(ok, output, warnings)
           chunks == chunk_output(body)
           messages == Gathered(chunks)
           reply1 == format_reply(ok, output, warnings)
<1>1. Added \subseteq C /\ Newline \in C
  BY DEF Added
<1>2. output \in Seq(A)
  <2>1. Seq(Character) \subseteq A
    OBVIOUS
  <2> QED BY <2>1, SeqMonotonic
<1> HIDE DEF C
<1>3. body \in Seq(A) /\ body # <<>> /\ Text(body) = FlattenSeq(output)
  <2>1. body \in Seq(A) /\ Len(body) = Len(output) + warnings
    BY <1>1, <1>2, BodyIs
  <2>2. Len(output) \in Nat \ {0}
    OBVIOUS
  <2> QED BY <2>1, <2>2, BodyText
<1> HIDE DEF body
<1>4. PICK cut \in Seq(C) :
         /\ chunks \in Seq(A)
         /\ Text(body) = Text(chunks) \o cut
         /\ Len(Slices(body)) <= MaxChunks => Text(chunks) = Text(body)
  BY <1>1, <1>3, ChunksText
<1> HIDE DEF chunks
<1>5. messages \in Seq(A) /\ Text(messages) = Text(chunks)
  BY <1>1, <1>4, GatheredText
<1>6. reply1 = IF Len(messages) > MaxMessages
               THEN [SubSeq(messages, 1, MaxMessages) EXCEPT ![MaxMessages] = @ \o MessagesCut]
               ELSE messages
  BY DEF format_reply, messages, chunks, body
<1> HIDE DEF messages, reply1
<1>7. Len(messages) \in Nat /\ MaxMessages \in Nat \ {0}
  <2> HIDE DEF A
  <2> QED BY <1>5, FormatAssumption
<1>8. \E rest \in Seq(C) :
         /\ Text(reply1) \in Seq(C) /\ Text(messages) = Text(reply1) \o rest
         /\ Len(messages) <= MaxMessages => Text(reply1) = Text(messages)
  <2>1. CASE Len(messages) > MaxMessages
    <3> DEFINE front == SubSeq(messages, 1, MaxMessages)
               last == front[MaxMessages]
               longer == last \o MessagesCut
    <3>1. PICK rest \in Seq(C) : Text(messages) = Text(front) \o rest
      <4>1. MaxMessages \in 0..Len(messages)
        BY <1>7, <2>1
      <4> QED BY <1>5, <4>1, CutText
    <3>2. front \in Seq(A) /\ MaxMessages \in 1..Len(front) /\ last \in A
      <4> HIDE DEF A
      <4> QED BY <1>5, <1>7, <2>1
    <3>3. MessagesCut \in Seq(C) /\ Unadded(MessagesCut) = <<>>
      <4> DEFINE x == "(truncated)"
                 Z == {Newline, x}
      <4>1. x \in C /\ Z \subseteq Added /\ MessagesCut = <<Newline, x>>
        BY <1>1 DEF Added, MessagesCut
      <4>2. MessagesCut \in Seq(C) /\ MessagesCut \in Seq(Z)
        <5> HIDE DEF x
        <5> QED BY <1>1, <4>1
      <4> HIDE DEF Z
      <4> QED BY <4>1, <4>2, UnaddedAlike
    <3> HIDE DEF front, A
    <3>4. longer \in Seq(C) /\ Unadded(longer) = Unadded(last)
      <4> HIDE DEF last
      <4>1. last \in Seq(C)
        BY <3>2 DEF A
      <4>2. longer \in Seq(C)
        BY <3>3, <4>1, ConcatIs
      <4>3. Unadded(longer) = Unadded(last) \o Unadded(MessagesCut) /\ Unadded(last) \in Seq(C)
        BY <3>3, <4>1, UnaddedConcat
      <4>4. Unadded(last) \o <<>> = Unadded(last)
        BY <4>3, ConcatEmptySeq
      <4> QED BY <3>3, <4>2, <4>3, <4>4
    <3>5. reply1 = Replaced(front, MaxMessages, longer)
      BY <1>6, <2>1, <3>2 DEF Replaced, front
    <3> HIDE DEF longer
    <3>6. Text(reply1) = Text(front)
      BY <3>2, <3>4, <3>5, ReplacedText DEF A
    <3>7. Text(front) \in Seq(C)
      BY <3>2, TextConcat DEF A
    <3>8. ~(Len(messages) <= MaxMessages)
      BY <1>7, <2>1
    <3> QED BY <3>1, <3>6, <3>7, <3>8
  <2>2. CASE ~(Len(messages) > MaxMessages)
    <3>1. reply1 = messages /\ Text(messages) \in Seq(C) /\ <<>> \in Seq(C)
      BY <1>5, <1>6, <2>2, TextConcat
    <3>2. Text(messages) = Text(messages) \o <<>>
      BY <3>1, ConcatEmptySeq
    <3> QED BY <3>1, <3>2
  <2> QED BY <2>1, <2>2
<1>9. PICK rest \in Seq(C) :
         /\ Text(reply1) \in Seq(C) /\ Text(messages) = Text(reply1) \o rest
         /\ Len(messages) <= MaxMessages => Text(reply1) = Text(messages)
  BY <1>8
<1>10. IsPrefix(Text(reply1), FlattenSeq(output))
  <2> DEFINE x == Text(reply1)
  <2>1. x \in Seq(C)
    BY <1>9
  <2>2. FlattenSeq(output) = (x \o rest) \o cut
    BY <1>3, <1>4, <1>5, <1>9
  <2> HIDE DEF x
  <2>3. (x \o rest) \o cut = x \o (rest \o cut) /\ rest \o cut \in Seq(C)
    BY <2>1, ConcatAssociative
  <2> DEFINE y == rest \o cut
  <2> HIDE DEF y
  <2>4. IsPrefix(x, x \o y)
    BY <2>1, <2>3, PrefixIs DEF y
  <2> QED BY <2>2, <2>3, <2>4 DEF x, y
<1> QED BY <1>3, <1>4, <1>5, <1>9, <1>10 DEF messages, chunks, body, reply1

-----------------------------------------------------------------------------
(* The number of messages.  A message is begun when the next line does not   *)
(* fit: two in a row have more than MaxChars characters between them, the    *)
(* newline counted, and more than MaxMessages of them more than              *)
(* ((MaxMessages + 1) \div 2) * MaxChars.                                    *)

\* The loop of format_reply has begun d messages and one more of c
\* characters, out of x characters of text.
Paid(d, c, x) ==
    \E q \in Nat :
       \/ d = 2 * q /\ x >= q * (MaxChars + 1) + c
       \/ /\ d = 2 * q + 1 /\ x >= q * (MaxChars + 1) + MaxChars
          /\ c > 0 => x >= (q + 1) * (MaxChars + 1)

\* A line of l characters and, if g = 1, the newline before it.  There is
\* one but between two slices of a line, of which the first is full.
LEMMA PaidStep ==
    ASSUME NEW d \in Nat, NEW c \in 0..MaxChars, NEW x \in Nat,
           NEW l \in 0..MaxChars, NEW g \in 0..1, Paid(d, c, x),
           c = 0 \/ c = MaxChars \/ g = 1
    PROVE  LET j == IF c = 0 THEN l ELSE c + 1 + l
           IN  /\ j > MaxChars => Paid(d + 1, l, x + l + g)
               /\ j <= MaxChars => Paid(d, j, x + l + g)
<1> DEFINE j == IF c = 0 THEN l ELSE c + 1 + l
           y == x + l + g
<1>1. MaxChars \in Nat \ {0} /\ c \in Nat /\ l \in Nat /\ g \in Nat /\ y \in Nat /\ j \in Nat
  BY FormatAssumption
<1>2. PICK q \in Nat :
        \/ d = 2 * q /\ x >= q * (MaxChars + 1) + c
        \/ /\ d = 2 * q + 1 /\ x >= q * (MaxChars + 1) + MaxChars
           /\ c > 0 => x >= (q + 1) * (MaxChars + 1)
  BY DEF Paid
<1> DEFINE p == q * (MaxChars + 1)
<1>3. p \in Nat /\ (q + 1) * (MaxChars + 1) = p + MaxChars + 1 /\ q + 1 \in Nat
  BY <1>1
<1> HIDE DEF p
<1>4. CASE d = 2 * q /\ x >= p + c
  <2>1. CASE j > MaxChars
    <3>1. c > 0 /\ y >= p + MaxChars
      BY <1>1, <1>3, <1>4, <2>1
    <3>2. l > 0 => y >= p + MaxChars + 1
      BY <1>1, <1>3, <1>4, <2>1
    <3>3. Paid(d + 1, l, y)
      <4>1. d + 1 = 2 * q + 1
        BY <1>4
      <4> HIDE DEF y, j
      <4> QED BY <1>3, <3>1, <3>2, <4>1 DEF Paid, p
    <3> QED BY <2>1, <3>3, <1>1
  <2>2. CASE j <= MaxChars
    <3>1. y >= p + j
      BY <1>1, <1>3, <1>4, <2>2
    <3>2. Paid(d, j, y)
      <4> HIDE DEF y, j
      <4> QED BY <1>4, <3>1 DEF Paid, p
    <3> QED BY <2>2, <3>2, <1>1
  <2> QED BY <1>1, <2>1, <2>2
<1>5. CASE /\ d = 2 * q + 1 /\ x >= p + MaxChars
           /\ c > 0 => x >= (q + 1) * (MaxChars + 1)
  <2>1. CASE j > MaxChars
    <3>1. c > 0 /\ y >= (p + MaxChars + 1) + l
      BY <1>1, <1>3, <1>5, <2>1
    <3>2. d + 1 = 2 * (q + 1)
      BY <1>5
    <3>3. Paid(d + 1, l, y)
      <4> HIDE DEF y, j
      <4> QED BY <1>3, <3>1, <3>2 DEF Paid
    <3> QED BY <2>1, <3>3, <1>1
  <2>2. CASE j <= MaxChars
    <3>1. y >= p + MaxChars /\ (j > 0 => y >= p + MaxChars + 1)
      BY <1>1, <1>3, <1>5, <2>2
    <3>2. Paid(d, j, y)
      <4> HIDE DEF y, j
      <4> QED BY <1>3, <1>5, <3>1 DEF Paid, p
    <3> QED BY <2>2, <3>2, <1>1
  <2> QED BY <1>1, <2>1, <2>2
<1> QED BY <1>2, <1>4, <1>5 DEF p

\* More than MaxMessages messages take more than half as many full ones.
LEMMA PaidEnd ==
    ASSUME NEW d \in Nat, NEW c \in 0..MaxChars, NEW x \in Nat, Paid(d, c, x),
           (IF c = 0 THEN d ELSE d + 1) > MaxMessages
    PROVE  x > ((MaxMessages + 1) \div 2) * MaxChars
<1> DEFINE h == (MaxMessages + 1) \div 2
<1> SUFFICES x > h * MaxChars
  OBVIOUS
<1>1. /\ MaxChars \in Nat \ {0} /\ MaxMessages \in Nat \ {0} /\ c \in Nat
  BY FormatAssumption
<1>2. h \in Nat \ {0} /\ (MaxMessages + 1 = 2 * h \/ MaxMessages + 1 = 2 * h + 1)
  BY <1>1
<1> HIDE DEF h
<1>3. PICK q \in Nat :
        \/ d = 2 * q /\ x >= q * (MaxChars + 1) + c
        \/ /\ d = 2 * q + 1 /\ x >= q * (MaxChars + 1) + MaxChars
           /\ c > 0 => x >= (q + 1) * (MaxChars + 1)
  BY DEF Paid
<1>4. /\ q * (MaxChars + 1) = q * MaxChars + q /\ q * MaxChars \in Nat
      /\ (q + 1) * (MaxChars + 1) = q * MaxChars + q + MaxChars + 1
      /\ h * MaxChars \in Nat /\ (q + 1) * MaxChars = q * MaxChars + MaxChars
  BY <1>1, <1>2
<1>5. q >= h => q * MaxChars >= h * MaxChars
  <2> SUFFICES ASSUME q >= h PROVE q * MaxChars >= h * MaxChars
    OBVIOUS
  <2>1. PICK e \in Nat : q = h + e
    <3>1. q - h \in Nat /\ q = h + (q - h)
      BY <1>2
    <3> QED BY <3>1
  <2>2. q * MaxChars = h * MaxChars + e * MaxChars /\ e * MaxChars \in Nat
    BY <1>1, <1>2, <2>1
  <2> QED BY <1>4, <2>2
<1>6. q + 1 >= h => (q + 1) * MaxChars >= h * MaxChars
  <2> SUFFICES ASSUME q + 1 >= h PROVE (q + 1) * MaxChars >= h * MaxChars
    OBVIOUS
  <2>1. PICK e \in Nat : q + 1 = h + e
    <3>1. (q + 1) - h \in Nat /\ q + 1 = h + ((q + 1) - h)
      BY <1>2
    <3> QED BY <3>1
  <2>2. (q + 1) * MaxChars = h * MaxChars + e * MaxChars /\ e * MaxChars \in Nat
    BY <1>1, <1>2, <2>1
  <2> QED BY <1>4, <2>2
<1>7. CASE d = 2 * q /\ x >= q * (MaxChars + 1) + c
  <2>1. CASE c = 0
    <3>1. 2 * q >= MaxMessages + 1
      BY <1>1, <1>7, <2>1
    <3>2. q >= h
      BY <1>1, <1>2, <3>1
    <3> QED BY <1>1, <1>2, <1>4, <1>5, <1>7, <3>2
  <2>2. CASE c > 0
    <3>1. 2 * q + 1 >= MaxMessages + 1
      BY <1>1, <1>7, <2>2
    <3>2. q >= h
      BY <1>1, <1>2, <3>1
    <3> QED BY <1>1, <1>2, <1>4, <1>5, <1>7, <2>2, <3>2
  <2> QED BY <1>1, <2>1, <2>2
<1>8. CASE /\ d = 2 * q + 1 /\ x >= q * (MaxChars + 1) + MaxChars
           /\ c > 0 => x >= (q + 1) * (MaxChars + 1)
  <2>1. CASE c = 0
    <3>1. 2 * q + 1 >= MaxMessages + 1
      BY <1>1, <1>8, <2>1
    <3>2. q >= h
      BY <1>1, <1>2, <3>1
    <3> QED BY <1>1, <1>2, <1>4, <1>5, <1>8, <3>2
  <2>2. CASE c > 0
    <3>1. 2 * q + 2 >= MaxMessages + 1
      BY <1>1, <1>8, <2>2
    <3>2. q + 1 >= h
      BY <1>1, <1>2, <3>1
    <3> QED BY <1>1, <1>2, <1>4, <1>6, <1>8, <2>2, <3>2
  <2> QED BY <1>1, <2>1, <2>2
<1> QED BY <1>3, <1>7, <1>8

\* One mark for each slice that is not full: a newline goes before the next.
Marks(C) == [s \in Seq(C) |-> IF Len(s) < MaxChars THEN <<Blank>> ELSE <<>>]

Loose(C, slices) == Len(Expanded(Marks(C), slices))

Full(C) == {s \in Seq(C) : Len(s) = MaxChars}

LEMMA MarksExpand ==
    ASSUME NEW C
    PROVE  Expands(Marks(C), Seq(C), {Blank})
<1> DEFINE f == Marks(C)
           A == Seq(C)
           B == Seq({Blank})
<1>1. <<Blank>> \in B /\ <<>> \in B
  OBVIOUS
<1>2. f = [s \in A |-> IF Len(s) < MaxChars THEN <<Blank>> ELSE <<>>]
  BY DEF Marks
<1> HIDE DEF f, A, B
<1>3. f \in [A -> B]
  BY <1>1, <1>2
<1> QED BY <1>3 DEF f, A, B, Expands

LEMMA LooseIs ==
    ASSUME NEW C, NEW s \in Seq(Seq(C)), NEW t \in Seq(Seq(C)), NEW e \in Seq(C)
    PROVE  /\ Loose(C, s) \in Nat /\ Loose(C, <<>>) = 0
           /\ Loose(C, s \o t) = Loose(C, s) + Loose(C, t)
           /\ Loose(C, Append(s, e)) = Loose(C, s) + IF Len(e) < MaxChars THEN 1 ELSE 0
<1> DEFINE f == Marks(C)
           A == Seq(C)
           x == Expanded(f, s)
           y == Expanded(f, t)
           z == f[e]
<1>1. Expands(f, A, {Blank})
  BY MarksExpand
<1>2. z = IF Len(e) < MaxChars THEN <<Blank>> ELSE <<>>
  BY DEF Marks
<1>3. s \in Seq(A) /\ t \in Seq(A) /\ e \in A
  OBVIOUS
<1> HIDE DEF f, A
<1>4. x \in Seq({Blank}) /\ y \in Seq({Blank})
  BY <1>1, <1>3, ExpandedType
<1>5. Expanded(f, s \o t) = x \o y
  BY <1>1, <1>3, ExpandedConcat
<1>6. Expanded(f, Append(s, e)) = x \o z
  BY <1>1, <1>3, ExpandedAppend
<1>7. Expanded(f, <<>>) = <<>>
  BY ExpandedEmpty
<1>8. Len(<<>>) = 0
  OBVIOUS
<1>9. z \in Seq({Blank}) /\ Len(z) = IF Len(e) < MaxChars THEN 1 ELSE 0
  <2>1. /\ <<Blank>> \in Seq({Blank}) /\ <<>> \in Seq({Blank})
        /\ Len(<<Blank>>) = 1 /\ Len(<<>>) = 0
    OBVIOUS
  <2> HIDE DEF z
  <2>2. CASE Len(e) < MaxChars
    <3>1. z = <<Blank>>
      BY <1>2, <2>2
    <3>2. z \in Seq({Blank}) /\ Len(z) = 1
      BY <2>1, <3>1, Zenon
    <3> QED BY <2>2, <3>2
  <2>3. CASE ~(Len(e) < MaxChars)
    <3>1. z = <<>>
      BY <1>2, <2>3
    <3>2. z \in Seq({Blank}) /\ Len(z) = 0
      BY <2>1, <3>1, Zenon
    <3> QED BY <2>3, <3>2
  <2> QED BY <2>2, <2>3
<1> HIDE DEF x, y, z
<1>10. Len(x) \in Nat /\ Len(x \o y) = Len(x) + Len(y) /\ Len(x \o z) = Len(x) + Len(z)
  BY <1>4, <1>9, ConcatIs
<1>11. /\ Loose(C, s) = Len(x) /\ Loose(C, t) = Len(y) /\ Loose(C, <<>>) = Len(<<>>)
       /\ Loose(C, s \o t) = Len(x \o y) /\ Loose(C, Append(s, e)) = Len(x \o z)
  BY <1>5, <1>6, <1>7, Zenon DEF Loose, f, x, y
<1> QED BY <1>8, <1>9, <1>10, <1>11

LEMMA FullIsNotLoose ==
    ASSUME NEW C, NEW s \in Seq(Full(C))
    PROVE  s \in Seq(Seq(C)) /\ Loose(C, s) = 0
<1> DEFINE f == Marks(C)
           A == Seq(C)
           Z == Full(C)
<1>1. Expands(f, A, {Blank}) /\ Z \in SUBSET A
  BY MarksExpand DEF Full
<1>2. \A x \in Z : f[x] = <<>>
  BY FormatAssumption DEF Full, Marks
<1>3. s \in Seq(Z)
  OBVIOUS
<1> HIDE DEF f, A, Z
<1>4. Expanded(f, s) = <<>>
  BY <1>1, <1>2, <1>3, ExpandedAlike
<1>5. s \in Seq(A)
  BY <1>1, <1>3, SeqMonotonic
<1>6. Len(<<>>) = 0
  OBVIOUS
<1>7. Loose(C, s) = 0
  BY <1>4, <1>6, Zenon DEF Loose, f
<1> QED BY <1>5, <1>7 DEF A

\* All slices of a line but the last are full.
LEMMA PiecesFull ==
    ASSUME NEW C, NEW line \in Seq(C)
    PROVE  \E front \in Seq(Full(C)), last \in Seq(C) : Pieces(line) = Append(front, last)
<1>1. CASE line = Blank
  <2>1. <<>> \in Seq(Full(C)) /\ Blank \in Seq(C) /\ <<Blank>> = Append(<<>>, Blank)
    BY DEF Blank
  <2> QED BY <1>1, <2>1 DEF Pieces
<1>2. CASE line # Blank
  <2> DEFINE n == Len(line)
             q == (n - 1) \div MaxChars
             front == [k \in 1..q |-> Piece(line, k)]
             last == Piece(line, q + 1)
  <2>1. n \in Nat \ {0} /\ MaxChars \in Nat \ {0} /\ q \in Nat
        /\ \A k \in Nat : k <= q <=> k * MaxChars <= n - 1
    <3>1. n \in Nat \ {0} /\ n - 1 \in Nat /\ MaxChars \in Nat \ {0}
      BY <1>2, FormatAssumption DEF Blank
    <3> QED BY <3>1, DivisionIs
  <2>2. ASSUME NEW k \in 1..q PROVE Piece(line, k) \in Full(C)
    <3>1. k \in 1..(q + 1) /\ k * MaxChars <= n - 1 /\ k * MaxChars \in Nat
      <4> HIDE DEF q
      <4> QED BY <2>1, <2>2
    <3>2. k * MaxChars < n
      BY <2>1, <3>1
    <3> QED BY <1>2, <3>1, <3>2, PieceIs DEF Full
  <2>3. last \in Seq(C)
    <3>1. q + 1 \in 1..(q + 1)
      BY <2>1
    <3> QED BY <1>2, <3>1, PieceIs
  <2>4. Pieces(line) = [k \in 1..(q + 1) |-> Piece(line, k)]
    BY <1>2 DEF Pieces
  <2> HIDE DEF q, n
  <2> DEFINE P == [k \in 1..(q + 1) |-> Piece(line, k)]
             A == Seq(C)
  <2>5. front \in Seq(Full(C)) /\ Len(front) = q /\ \A k \in 1..q : front[k] = Piece(line, k)
    BY <2>1, <2>2
  <2>6. front \in Seq(A) /\ last \in A
    BY <2>3, <2>5, FullIsNotLoose
  <2> HIDE DEF front, A
  <2>7. P = Append(front, last)
    <3> DEFINE z == last
               a == Append(front, z)
    <3>1. z \in A /\ P[q + 1] = z /\ \A k \in 1..q : P[k] = front[k]
      BY <2>1, <2>5, <2>6
    <3> HIDE DEF z, P
    <3>2. a \in Seq(A) /\ Len(a) = q + 1 /\ a[q + 1] = z /\ \A k \in 1..q : a[k] = front[k]
      BY <2>5, <2>6, <3>1, AppendProperties
    <3> HIDE DEF a
    <3>3. \A k \in 1..(q + 1) : a[k] = P[k]
      <4> SUFFICES ASSUME NEW k \in 1..(q + 1) PROVE a[k] = P[k]
        OBVIOUS
      <4>1. k \in 1..q \/ k = q + 1
        BY <2>1
      <4> QED BY <3>1, <3>2, <4>1
    <3>4. a = [k \in 1..(q + 1) |-> a[k]]
      BY <3>2
    <3>5. P = [k \in 1..(q + 1) |-> P[k]]
      BY DEF P
    <3>6. a = P
      BY <3>3, <3>4, <3>5
    <3> QED BY <3>6 DEF a, z
  <2> QED BY <2>3, <2>4, <2>5, <2>7
<1> QED BY <1>1, <1>2

LEMMA AppendAfter ==
    ASSUME NEW A, NEW s \in Seq(A), NEW t \in Seq(A), NEW e \in A
    PROVE  /\ s \o t \in Seq(A) /\ s \o Append(t, e) = Append(s \o t, e)
           /\ Append(s, e) \in Seq(A) /\ Len(Append(s, e)) = Len(s) + 1
OBVIOUS

\* A text's slices but the last have no more newlines after them than its
\* lines but the last.
LEMMA SlicesLoose ==
    ASSUME NEW C, NEW text \in Seq(Seq(C))
    PROVE  /\ Loose(C, Slices(text)) <= Len(text)
           /\ text # <<>> => \E front \in Seq(Seq(C)), last \in Seq(C) :
                                /\ Slices(text) = Append(front, last)
                                /\ Loose(C, front) <= Len(text) - 1
<1> DEFINE A == Seq(C)
           P == {t \in Seq(A) : Loose(C, Slices(t)) <= Len(t)}
<1>1. ASSUME NEW t \in Seq(A), NEW line \in A
      PROVE  \E front \in Seq(A), last \in A :
                /\ Slices(Append(t, line)) = Append(front, last)
                /\ Loose(C, front) = Loose(C, Slices(t))
  <2>1. /\ Slices(Append(t, line)) = Slices(t) \o Pieces(line)
        /\ Slices(t) \in Seq(A)
    BY SlicesAppend
  <2>2. PICK pieces \in Seq(Full(C)), last \in A : Pieces(line) = Append(pieces, last)
    BY PiecesFull
  <2>3. pieces \in Seq(A) /\ Loose(C, pieces) = 0
    BY FullIsNotLoose
  <2> DEFINE slices == Slices(t)
             front == slices \o pieces
  <2>4. slices \in Seq(A)
    BY <2>1
  <2> HIDE DEF slices, A
  <2>5. front \in Seq(A) /\ slices \o Append(pieces, last) = Append(front, last)
    BY <2>3, <2>4, AppendAfter
  <2>6. Loose(C, front) = Loose(C, slices) + Loose(C, pieces) /\ Loose(C, slices) \in Nat
    BY <2>3, <2>4, LooseIs DEF A
  <2>7. Loose(C, front) = Loose(C, slices)
    BY <2>3, <2>6
  <2>8. Slices(Append(t, line)) = Append(front, last)
    BY <2>1, <2>2, <2>5 DEF slices
  <2> QED BY <2>5, <2>7, <2>8 DEF slices
<1>2. <<>> \in P
  <2>1. <<>> \in Seq(A) /\ <<>> \in A /\ Len(<<>>) = 0
    OBVIOUS
  <2>2. Slices(<<>>) = <<>> /\ Loose(C, <<>>) = 0
    BY <2>1, SlicesAppend, LooseIs
  <2>3. Loose(C, Slices(<<>>)) <= Len(<<>>)
    BY <2>1, <2>2
  <2> QED BY <2>1, <2>3
<1>3. ASSUME NEW t \in Seq(A), NEW line \in A, t \in P PROVE Append(t, line) \in P
  <2>1. PICK front \in Seq(A), last \in A :
           /\ Slices(Append(t, line)) = Append(front, last)
           /\ Loose(C, front) = Loose(C, Slices(t))
    BY <1>1
  <2>2. /\ Loose(C, front) \in Nat
        /\ Loose(C, Append(front, last)) = Loose(C, front) + IF Len(last) < MaxChars THEN 1 ELSE 0
    BY LooseIs
  <2>3. Loose(C, Slices(t)) <= Len(t)
    BY <1>3
  <2> HIDE DEF A
  <2>4. Append(t, line) \in Seq(A) /\ Len(Append(t, line)) = Len(t) + 1 /\ Len(t) \in Nat
    BY AppendAfter
  <2>5. Loose(C, Slices(Append(t, line))) <= Len(Append(t, line))
    BY <2>1, <2>2, <2>3, <2>4
  <2> QED BY <2>4, <2>5
<1>4. \A t \in Seq(A) : Loose(C, Slices(t)) <= Len(t)
  <2>1. Seq(A) \subseteq P
    <3> HIDE DEF A, P
    <3> QED BY <1>2, <1>3, InductionOnSeq
  <2> QED BY <2>1
<1>5. ASSUME text # <<>>
      PROVE  \E front \in Seq(A), last \in A :
                Slices(text) = Append(front, last) /\ Loose(C, front) <= Len(text) - 1
  <2>1. text \in Seq(A)
    OBVIOUS
  <2> HIDE DEF A
  <2>2. PICK t \in Seq(A), line \in A : text = Append(t, line)
    BY <1>5, <2>1, SequenceEmptyOrAppend
  <2>3. Len(text) = Len(t) + 1 /\ Len(t) \in Nat
    BY <2>2, AppendAfter
  <2>4. Loose(C, Slices(t)) <= Len(t)
    BY <1>4
  <2>5. PICK front \in Seq(A), last \in A :
           /\ Slices(text) = Append(front, last)
           /\ Loose(C, front) = Loose(C, Slices(t))
    BY <1>1, <2>2
  <2>6. Loose(C, front) <= Len(text) - 1
    BY <2>3, <2>4, <2>5
  <2> QED BY <2>5, <2>6
<1> QED BY <1>4, <1>5

\* The characters of the first i slices, and the newlines after all of them
\* but the last.
Weight(C, s, i) == Len(FlattenSeq(Upto(s, i))) + IF i = 0 THEN 0 ELSE Loose(C, Upto(s, i - 1))

LEMMA WeightIs ==
    ASSUME NEW C, NEW s \in Seq(Seq(C))
    PROVE  /\ Weight(C, s, 0) = 0
           /\ \A i \in 1..Len(s) :
                 /\ Weight(C, s, i - 1) \in Nat
                 /\ Weight(C, s, i) = Weight(C, s, i - 1) + Len(s[i])
                                      + IF i > 1 /\ Len(s[i - 1]) < MaxChars THEN 1 ELSE 0
<1> DEFINE A == Seq(C)
<1>1. s \in Seq(A)
  OBVIOUS
<1> HIDE DEF A
<1>2. /\ Upto(s, 0) = <<>>
      /\ \A i \in 0..Len(s) : Upto(s, i) \in Seq(A)
      /\ \A i \in 1..Len(s) : Upto(s, i) = Append(Upto(s, i - 1), s[i])
      /\ \A i \in 1..Len(s) : s[i] \in A
      /\ Len(s) \in Nat
  BY <1>1, UptoIs
<1>3. Weight(C, s, 0) = 0
  <2>1. FlattenSeq(<<>>) = <<>> /\ Len(<<>>) = 0
    <3>1. <<>> \in Seq(A) /\ <<>> \in A
      BY DEF A
    <3> QED BY <3>1, FlattenAppend DEF A
  <2>2. Weight(C, s, 0) = Len(FlattenSeq(Upto(s, 0))) + 0
    BY DEF Weight
  <2> QED BY <1>2, <2>1, <2>2
<1>4. ASSUME NEW i \in 1..Len(s)
      PROVE  /\ Weight(C, s, i - 1) \in Nat
             /\ Weight(C, s, i) = Weight(C, s, i - 1) + Len(s[i])
                                  + IF i > 1 /\ Len(s[i - 1]) < MaxChars THEN 1 ELSE 0
  <2> DEFINE t == Upto(s, i - 1)
             e == s[i]
             x == FlattenSeq(t)
  <2>1. /\ i \in Nat \ {0} /\ i - 1 \in 0..Len(s) /\ i # 0
        /\ t \in Seq(A) /\ e \in A /\ Upto(s, i) = Append(t, e)
    <3>1. Len(s) \in Nat
      BY <1>2, Zenon
    <3>2. i \in Nat \ {0} /\ i - 1 \in 0..Len(s) /\ i # 0
      BY <3>1
    <3>3. t \in Seq(A) /\ e \in A /\ Upto(s, i) = Append(t, e)
      BY <1>2, <3>2, Zenon
    <3> QED BY <3>2, <3>3, Zenon
  <2> HIDE DEF t, e
  <2>2. x \in Seq(C) /\ FlattenSeq(Append(t, e)) = x \o e
    BY <2>1, FlattenAppend DEF A
  <2>3. Len(x) \in Nat /\ Len(e) \in Nat /\ Len(x \o e) = Len(x) + Len(e)
    BY <2>1, <2>2, ConcatIs DEF A
  <2>4. Weight(C, s, i) = Len(x) + Len(e) + Loose(C, t)
    BY <2>1, <2>2, <2>3 DEF Weight, t
  <2>5. CASE i = 1
    <3>1. Loose(C, t) = 0
      <4>1. t = <<>>
        BY <1>2, <2>5 DEF t
      <4>2. Loose(C, <<>>) = 0
        BY <2>1, LooseIs DEF A
      <4> QED BY <4>1, <4>2
    <3>2. Weight(C, s, i - 1) = Len(x)
      BY <2>3, <2>5 DEF Weight, t
    <3>3. (IF i > 1 /\ Len(s[i - 1]) < MaxChars THEN 1 ELSE 0) = 0
      <4>1. ~(i > 1)
        BY <2>5
      <4> QED BY <4>1, Zenon
    <3> QED BY <2>3, <2>4, <3>1, <3>2, <3>3 DEF e
  <2>6. CASE i > 1
    <3> DEFINE u == Upto(s, i - 2)
               d == s[i - 1]
    <3>1. /\ i - 1 \in 1..Len(s) /\ (i - 1) - 1 = i - 2 /\ i - 2 \in 0..Len(s) /\ i - 1 # 0
      BY <2>1, <2>6
    <3>2. u \in Seq(A) /\ d \in A /\ t = Append(u, d)
      <4>1. Upto(s, i - 1) = Append(Upto(s, (i - 1) - 1), s[i - 1])
        BY <1>2, <3>1
      <4> QED BY <1>2, <3>1, <4>1 DEF t
    <3> HIDE DEF u, d
    <3>3. /\ Loose(C, u) \in Nat
          /\ Loose(C, Append(u, d)) = Loose(C, u) + IF Len(d) < MaxChars THEN 1 ELSE 0
      BY <3>2, LooseIs DEF A
    <3>4. Weight(C, s, i - 1) = Len(x) + Loose(C, u)
      BY <3>1 DEF Weight, t, u
    <3>5. Weight(C, s, i - 1) \in Nat
      BY <2>3, <3>3, <3>4
    <3>6. Loose(C, t) = Loose(C, u) + IF Len(d) < MaxChars THEN 1 ELSE 0
      BY <3>2, <3>3
    <3> DEFINE g == IF Len(d) < MaxChars THEN 1 ELSE 0
    <3>7. g = IF i > 1 /\ Len(s[i - 1]) < MaxChars THEN 1 ELSE 0
      BY <2>6 DEF d
    <3>8. g \in Nat /\ Loose(C, t) = Loose(C, u) + g
      BY <3>6
    <3> HIDE DEF g
    <3>9. Weight(C, s, i) = Weight(C, s, i - 1) + Len(e) + g
      BY <2>3, <2>4, <3>3, <3>4, <3>8
    <3> QED BY <3>5, <3>7, <3>9 DEF e
  <2> QED BY <2>1, <2>5, <2>6
<1> QED BY <1>3, <1>4

\* The slices of a text are no heavier than its lines and the newlines
\* between them.
LEMMA WeightOfText ==
    ASSUME NEW C, NEW text \in Seq(Seq(C)), text # <<>>
    PROVE  Weight(C, Slices(text), Len(Slices(text))) <= LengthOf(text)
<1> DEFINE A == Seq(C)
           slices == Slices(text)
           n == Len(slices)
<1>1. PICK front \in Seq(A), last \in A :
         slices = Append(front, last) /\ Loose(C, front) <= Len(text) - 1
  BY SlicesLoose
<1>2. FlattenSeq(slices) = FlattenSeq(text)
  BY SlicesText
<1>3. Len(FlattenSeq(text)) \in Nat
  <2>1. FlattenSeq(text) \in Seq(C)
    BY FlattenType
  <2> QED BY <2>1
<1>4. text \in Seq(A)
  OBVIOUS
<1>5. Loose(C, front) \in Nat
  <2>1. last \in Seq(C) /\ front \in Seq(Seq(C))
    OBVIOUS
  <2> QED BY <2>1, LooseIs
<1> HIDE DEF slices, A
<1>6. Len(text) \in Nat
  BY <1>4
<1>7. slices \in Seq(A) /\ n = Len(front) + 1 /\ Len(front) \in Nat
  BY <1>1
<1>8. Upto(slices, n) = slices /\ Upto(slices, n - 1) = front
  <2>1. Upto(slices, n) = slices /\ Upto(slices, n) = Append(Upto(slices, n - 1), slices[n])
    <3>1. n \in 1..Len(slices)
      BY <1>7
    <3> QED BY <1>7, <3>1, UptoIs
  <2>2. Upto(slices, n - 1) \in Seq(A)
    BY <1>7, UptoIs
  <2>3. slices[n] \in A
    BY <1>7
  <2> DEFINE u == Upto(slices, n - 1)
             e == slices[n]
  <2> HIDE DEF u, e
  <2>4. Append(u, e) = Append(front, last) /\ u \in Seq(A) /\ e \in A
    BY <1>1, <2>1, <2>2, <2>3 DEF u, e
  <2>5. u = front
    BY <2>4, AppendInjective
  <2> QED BY <2>1, <2>5 DEF u
<1>9. n # 0
  BY <1>7
<1>10. Weight(C, slices, n) = Len(FlattenSeq(slices)) + Loose(C, front)
  BY <1>8, <1>9 DEF Weight
<1>11. Weight(C, slices, n) <= Len(FlattenSeq(text)) + Len(text) - 1
  BY <1>1, <1>2, <1>3, <1>5, <1>6, <1>10
<1> QED BY <1>11 DEF LengthOf, slices

\* What the loop has made of the first i slices.
PaidFor(sofar, C, s, i) ==
    /\ Len(sofar.current) <= MaxChars
    /\ Paid(Len(sofar.done), Len(sofar.current), Weight(C, s, i))
    /\ i > 0 /\ Len(s[i]) = MaxChars => Len(sofar.current) = MaxChars

LEMMA GatherPaid ==
    ASSUME NEW C, Newline \in C, NEW s \in Seq(Short(C)), NEW i \in 1..Len(s),
           NEW sofar \in Gathering(C), PaidFor(sofar, C, s, i - 1), i = 1 => sofar.current = Blank
    PROVE  PaidFor(Gather(sofar, s[i]), C, s, i)
<1> DEFINE done == sofar.done
           current == sofar.current
           line == s[i]
           d == Len(done)
           c == Len(current)
           l == Len(line)
           x == Weight(C, s, i - 1)
           g == IF i > 1 /\ Len(s[i - 1]) < MaxChars THEN 1 ELSE 0
           j == IF c = 0 THEN l ELSE c + 1 + l
           next == Gather(sofar, line)
<1>1. line \in Short(C) /\ s \in Seq(Seq(C)) /\ i \in Nat \ {0} /\ (i > 1 => s[i - 1] \in Short(C))
  <2>1. line \in Short(C) /\ i \in Nat \ {0} /\ (i > 1 => s[i - 1] \in Short(C))
    OBVIOUS
  <2>2. Short(C) \subseteq Seq(C)
    BY DEF Short
  <2> QED BY <2>1, <2>2, SeqMonotonic
<1>2. done \in Seq(Seq(C)) /\ current \in Seq(C) /\ line \in Seq(C) /\ l <= MaxChars
  BY <1>1 DEF Gathering, Short
<1>3. MaxChars \in Nat \ {0} /\ d \in Nat /\ c \in 0..MaxChars /\ l \in 0..MaxChars
  <2>1. c <= MaxChars
    BY DEF PaidFor
  <2>2. d \in Nat
    <3> DEFINE A == Seq(C)
    <3> HIDE DEF A, done
    <3>1. done \in Seq(A)
      BY <1>2 DEF A
    <3> QED BY <3>1
  <2>3. c \in Nat /\ l \in Nat
    <3> HIDE DEF current, line
    <3> QED BY <1>2
  <2> QED BY <1>2, <2>1, <2>2, <2>3, FormatAssumption
<1>4. x \in Nat /\ Weight(C, s, i) = x + l + g
  BY <1>1, WeightIs
<1>5. g \in 0..1 /\ (c = 0 \/ c = MaxChars \/ g = 1)
  <2>1. g \in 0..1
    OBVIOUS
  <2>2. CASE i = 1
    <3>1. Len(<<>>) = 0
      OBVIOUS
    <3>2. c = 0
      BY <2>2, <3>1, Zenon DEF Blank
    <3> QED BY <2>1, <3>2
  <2>3. CASE i > 1
    <3>1. i - 1 > 0 /\ (Len(s[i - 1]) = MaxChars => c = MaxChars)
      BY <1>1, <2>3 DEF PaidFor
    <3>2. Len(s[i - 1]) \in Nat /\ Len(s[i - 1]) <= MaxChars
      <4>1. s[i - 1] \in Short(C)
        BY <1>1, <2>3
      <4> DEFINE e == s[i - 1]
      <4> HIDE DEF e
      <4>2. e \in Short(C)
        BY <4>1 DEF e
      <4>3. Len(e) \in Nat /\ Len(e) <= MaxChars
        BY <4>2 DEF Short
      <4> QED BY <4>3 DEF e
    <3>3. CASE Len(s[i - 1]) < MaxChars
      BY <2>1, <2>3, <3>3
    <3>4. CASE Len(s[i - 1]) = MaxChars
      BY <2>1, <3>1, <3>4
    <3> QED BY <1>3, <3>2, <3>3, <3>4
  <2> QED BY <1>1, <2>2, <2>3
<1>6. Paid(d, c, x)
  BY DEF PaidFor
<1>7. /\ j > MaxChars => Paid(d + 1, l, x + l + g)
      /\ j <= MaxChars => Paid(d, j, x + l + g)
  <2> HIDE DEF d, c, x, l, g
  <2> QED BY <1>3, <1>4, <1>5, <1>6, PaidStep
<1>8. Len(Joined(current, line)) = j
  <2>1. Len(Joined(current, line)) = IF current = Blank THEN l ELSE c + 1 + l
    BY <1>2, JoinedIs
  <2>2. current = Blank <=> c = 0
    BY <1>2 DEF Blank
  <2> QED BY <2>1, <2>2
<1>9. /\ j > MaxChars => next.done = Append(done, current) /\ next.current = line
      /\ j <= MaxChars => next.done = done /\ next.current = Joined(current, line)
  <2>1. Overflows(current, line) <=> j > MaxChars
    BY <1>8 DEF Overflows
  <2>2. sofar = [done |-> done, current |-> current]
    BY DEF Gathering
  <2>3. j > MaxChars <=> ~(j <= MaxChars)
    <3> HIDE DEF c, l
    <3>1. j \in Nat
      BY <1>3
    <3> HIDE DEF j
    <3> QED BY <1>3, <3>1
  <2> HIDE DEF done, current, line, j
  <2> QED BY <2>1, <2>2, <2>3 DEF Gather
<1>10. Len(Append(done, current)) = d + 1
  <2> DEFINE A == Seq(C)
  <2>1. done \in Seq(A) /\ current \in A
    BY <1>2
  <2> HIDE DEF A, done, current
  <2> QED BY <2>1
<1> HIDE DEF next
<1>11. CASE j > MaxChars
  <2>1. Len(next.done) = d + 1 /\ Len(next.current) = l
    BY <1>9, <1>10, <1>11
  <2> HIDE DEF d, c, x, l, g, j
  <2>2. Paid(Len(next.done), Len(next.current), Weight(C, s, i))
    BY <1>4, <1>7, <1>11, <2>1
  <2> QED BY <1>3, <2>1, <2>2 DEF PaidFor, next, l
<1>12. CASE j <= MaxChars
  <2>1. Len(next.done) = d /\ Len(next.current) = j
    BY <1>8, <1>9, <1>12
  <2>2. l = MaxChars => j = MaxChars
    BY <1>3, <1>12
  <2> HIDE DEF d, c, x, l, g, j
  <2>3. Paid(Len(next.done), Len(next.current), Weight(C, s, i))
    BY <1>4, <1>7, <1>12, <2>1
  <2> QED BY <1>12, <2>1, <2>2, <2>3 DEF PaidFor, next, l
<1>13. j > MaxChars \/ j <= MaxChars
  <2> HIDE DEF c, l
  <2>1. j \in Nat
    BY <1>3
  <2> HIDE DEF j
  <2> QED BY <1>3, <2>1
<1> QED BY <1>11, <1>12, <1>13

\* Not too heavy a text fits into the messages of a reply.
LEMMA GatheredPaid ==
    ASSUME NEW C, Newline \in C, NEW text \in Seq(Short(C)),
           Len(Gathered(text)) > MaxMessages
    PROVE  Weight(C, text, Len(text)) > ((MaxMessages + 1) \div 2) * MaxChars
<1> DEFINE n == Len(text)
           G == Gatherings(text)
           S == {i \in 0..n : PaidFor(G[i], C, text, i)}
<1>0. n \in Nat /\ text \in Seq(Seq(C))
  <2>1. Short(C) \subseteq Seq(C)
    BY DEF Short
  <2> QED BY <2>1, SeqMonotonic
<1>1. /\ G \in [0..n -> Gathering(C)]
      /\ G[0] = [done |-> <<>>, current |-> Blank]
      /\ \A i \in 1..n : G[i] = Gather(G[i - 1], text[i])
  BY <1>0, GatheringsIs
<1>2. Gathered(text) = IF G[n].current = Blank THEN G[n].done ELSE Append(G[n].done, G[n].current)
  BY DEF Gathered
<1> HIDE DEF G
<1>3. 0 \in S
  <2>1. /\ G[0].done = <<>> /\ G[0].current = <<>> /\ Len(<<>>) = 0
        /\ Weight(C, text, 0) = 0
    BY <1>0, <1>1, WeightIs DEF Blank
  <2>2. Paid(0, 0, 0)
    <3>1. 0 \in Nat /\ 0 = 2 * 0 /\ 0 >= 0 * (MaxChars + 1) + 0
      BY FormatAssumption
    <3> QED BY <3>1 DEF Paid
  <2>3. Len(G[0].done) = 0 /\ Len(G[0].current) = 0
    BY <2>1
  <2>4. Paid(Len(G[0].done), Len(G[0].current), Weight(C, text, 0))
    BY <2>1, <2>2, <2>3
  <2>5. PaidFor(G[0], C, text, 0)
    BY <2>3, <2>4, FormatAssumption DEF PaidFor
  <2> QED BY <1>0, <2>5
<1>4. ASSUME NEW i \in 1..n, i - 1 \in S PROVE i \in S
  <2>1. /\ PaidFor(G[i - 1], C, text, i - 1) /\ i \in 0..n /\ i - 1 \in 0..n
        /\ G[i - 1] \in Gathering(C) /\ G[i] = Gather(G[i - 1], text[i])
    <3>1. i \in 0..n /\ i - 1 \in 0..n
      BY <1>0
    <3>2. PaidFor(G[i - 1], C, text, i - 1)
      BY <1>4
    <3> QED BY <1>1, <3>1, <3>2
  <2>2. i = 1 => G[i - 1].current = Blank
    BY <1>1
  <2>3. PaidFor(Gather(G[i - 1], text[i]), C, text, i)
    BY <2>1, <2>2, GatherPaid
  <2> QED BY <2>1, <2>3
<1>5. n \in S
  <2> HIDE DEF S
  <2>1. 0..n \subseteq S
    BY <1>0, <1>3, <1>4, InductionUpTo
  <2> QED BY <1>0, <2>1
<1> DEFINE done == G[n].done
           current == G[n].current
           d == Len(done)
           c == Len(current)
           x == Weight(C, text, n)
<1>6. Paid(d, c, x) /\ c <= MaxChars
  BY <1>5 DEF PaidFor
<1>7. done \in Seq(Seq(C)) /\ current \in Seq(C)
  <2>1. G[n] \in Gathering(C)
    BY <1>0, <1>1
  <2> QED BY <2>1 DEF Gathering
<1>8. x \in Nat
  <2>1. CASE n = 0
    BY <1>0, <2>1, WeightIs
  <2>2. CASE n # 0
    <3>1. n \in 1..n
      BY <1>0, <2>2
    <3>2. /\ Weight(C, text, n - 1) \in Nat
          /\ x = Weight(C, text, n - 1) + Len(text[n])
                 + IF n > 1 /\ Len(text[n - 1]) < MaxChars THEN 1 ELSE 0
      BY <1>0, <3>1, WeightIs
    <3>3. Len(text[n]) \in Nat
      <4> DEFINE e == text[n]
      <4>1. e \in Seq(C)
        BY <1>0, <3>1
      <4> HIDE DEF e
      <4>2. Len(e) \in Nat
        BY <4>1
      <4> QED BY <4>2 DEF e
    <3> DEFINE w == Weight(C, text, n - 1)
               l == Len(text[n])
    <3> HIDE DEF w, l, x
    <3>4. w \in Nat /\ l \in Nat /\ (x = w + l + 1 \/ x = w + l + 0)
      BY <3>2, <3>3 DEF w, l
    <3> QED BY <3>4
  <2> QED BY <2>1, <2>2
<1> DEFINE A == Seq(C)
<1>9. done \in Seq(A) /\ current \in A
  BY <1>7
<1>10. /\ c \in Nat /\ (current = Blank <=> c = 0)
  <2> HIDE DEF current
  <2> QED BY <1>7 DEF Blank
<1> HIDE DEF done, current, A
<1>11. d \in Nat /\ Len(Append(done, current)) = d + 1
  BY <1>9
<1>12. Len(Gathered(text)) = IF c = 0 THEN d ELSE d + 1
  <2>1. Gathered(text) = IF current = Blank THEN done ELSE Append(done, current)
    BY <1>2 DEF done, current
  <2> QED BY <1>10, <1>11, <2>1
<1>13. c \in 0..MaxChars
  BY <1>6, <1>10, FormatAssumption
<1> HIDE DEF d, c, x
<1>14. x > ((MaxMessages + 1) \div 2) * MaxChars
  BY <1>6, <1>8, <1>11, <1>12, <1>13, PaidEnd
<1> QED BY <1>14 DEF x

LEMMA ReplyKeeps ==
    ASSUME NEW ok \in BOOLEAN, NEW warnings \in Nat,
           NEW output \in Seq(Seq(Character)), output # <<>>
    PROVE  KeepsText(ok, output, warnings)
<1> DEFINE C == Character \cup Added
           body == Body(ok, output, warnings)
           messages == Gathered(chunk_output(body))
           kept == Text(format_reply(ok, output, warnings))
<1>1. Added \subseteq C /\ Newline \in C
  BY DEF Added
<1>2. output \in Seq(Seq(C))
  <2>1. Seq(Character) \subseteq Seq(C)
    OBVIOUS
  <2> QED BY <2>1, SeqMonotonic
<1> HIDE DEF C
<1>3. body \in Seq(Seq(C)) /\ body # <<>>
  <2>1. body \in Seq(Seq(C)) /\ Len(body) = Len(output) + warnings
    BY <1>1, <1>2, BodyIs
  <2>2. Len(output) \in Nat \ {0}
    OBVIOUS
  <2> HIDE DEF body
  <2> QED BY <2>1, <2>2
<1>4. /\ IsPrefix(kept, FlattenSeq(output))
      /\ Len(Slices(body)) <= MaxChunks /\ Len(messages) <= MaxMessages => kept = FlattenSeq(output)
  BY ReplyText
<1> HIDE DEF body, kept
<1>5. ASSUME Len(Slices(body)) <= MaxChunks,
             LengthOf(body) <= ((MaxMessages + 1) \div 2) * MaxChars
      PROVE  Len(messages) <= MaxMessages
  <2> DEFINE slices == Slices(body)
             w == Weight(C, slices, Len(slices))
             h == ((MaxMessages + 1) \div 2) * MaxChars
  <2>1. slices \in Seq(Short(C)) /\ Len(slices) \in Nat
    <3>1. slices \in Seq(Short(C))
      BY <1>3, SlicesIs
    <3> HIDE DEF slices
    <3> QED BY <3>1
  <2>2. messages = Gathered(slices)
    <3>1. ~(Len(slices) > MaxChunks)
      <4> HIDE DEF slices
      <4> QED BY <1>5, <2>1, FormatAssumption DEF slices
    <3> QED BY <3>1 DEF chunk_output
  <2>3. Gathered(slices) \in Seq(Short(C) \ {Blank})
    BY <1>1, <2>1, GatheredIs
  <2>4. w <= LengthOf(body) /\ w \in Int /\ LengthOf(body) \in Int
    <3>1. w <= LengthOf(body)
      BY <1>3, WeightOfText
    <3>2. slices \in Seq(Seq(C)) /\ slices # <<>>
      BY <1>3, SlicesAppend, SlicesIs
    <3>3. w \in Int
      <4> HIDE DEF slices
      <4> DEFINE n == Len(slices)
                 x == Weight(C, slices, n - 1)
                 g == IF n > 1 /\ Len(slices[n - 1]) < MaxChars THEN 1 ELSE 0
                 l == Len(slices[n])
      <4>1. n \in 1..n /\ slices[n] \in Short(C)
        BY <2>1, <3>2
      <4>2. w = x + l + g /\ x \in Nat
        BY <3>2, <4>1, WeightIs
      <4>3. l \in Nat
        <5> DEFINE e == slices[n]
        <5>1. e \in Seq(C)
          BY <4>1 DEF Short
        <5> HIDE DEF e
        <5>2. Len(e) \in Nat
          BY <5>1
        <5> QED BY <5>2 DEF e
      <4>4. g \in Nat
        OBVIOUS
      <4> HIDE DEF x, l, g, w
      <4> QED BY <4>2, <4>3, <4>4
    <3>4. LengthOf(body) \in Int
      <4>1. FlattenSeq(body) \in Seq(C)
        BY <1>3, FlattenType
      <4>2. Len(FlattenSeq(body)) \in Nat
        BY <4>1
      <4>3. Len(body) \in Nat
        <5> DEFINE A == Seq(C)
        <5>1. body \in Seq(A)
          BY <1>3
        <5> HIDE DEF A
        <5> QED BY <5>1
      <4> QED BY <4>2, <4>3 DEF LengthOf
    <3> QED BY <3>1, <3>3, <3>4
  <2>5. h \in Int
    <3> DEFINE q == (MaxMessages + 1) \div 2
    <3>1. q \in Nat /\ MaxChars \in Nat
      BY FormatAssumption
    <3> HIDE DEF q
    <3>2. q * MaxChars \in Int
      BY <3>1
    <3> QED BY <3>2 DEF q
  <2>6. ~(w > h)
    <3> HIDE DEF w, h
    <3> QED BY <1>5, <2>4, <2>5 DEF h
  <2>7. ~(Len(Gathered(slices)) > MaxMessages)
    <3> HIDE DEF slices
    <3> QED BY <1>1, <2>1, <2>6, GatheredPaid
  <2>8. Len(Gathered(slices)) \in Nat /\ MaxMessages \in Nat
    <3> DEFINE T == Short(C) \ {Blank}
               m == Gathered(slices)
    <3>1. m \in Seq(T)
      BY <2>3
    <3> HIDE DEF T, m
    <3>2. Len(m) \in Nat
      BY <3>1
    <3> QED BY <3>2, FormatAssumption DEF m
  <2> HIDE DEF slices, messages
  <2> QED BY <2>2, <2>7, <2>8
<1> HIDE DEF messages
<1>6. /\ IsPrefix(kept, FlattenSeq(output))
      /\ Len(Slices(body)) <= MaxChunks /\ LengthOf(body) <= ((MaxMessages + 1) \div 2) * MaxChars
            => kept = FlattenSeq(output)
  BY <1>4, <1>5
<1>7. kept = Unadded(FlattenSeq(format_reply(ok, output, warnings)))
  BY DEF kept, Text
<1> QED BY <1>6, <1>7, Zenon DEF KeepsText, body

\* What an eval says is not lost on the way: the messages of its reply hold
\* its characters in their order, from the first on, and all of them if there
\* are not too many lines and half as many full messages could hold them
\* (chunk_output and format_reply).
THEOREM RepliesKeepText == Spec => []ReplyKeepsText
<1>1. ASSUME NEW ok \in BOOLEAN, NEW output \in Outputs, NEW warnings \in Warnings
      PROVE  KeepsText(ok, output, warnings)
  <2>1. output \in Seq(Seq(Character)) /\ output # <<>> /\ warnings \in Nat
    BY FormatAssumption
  <2> QED BY <2>1, ReplyKeeps
<1>2. ReplyKeepsText
  BY <1>1 DEF ReplyKeepsText
<1> QED BY <1>2, PTL

-----------------------------------------------------------------------------
(* Types. *)

\* No reply has more messages than its limit.
LEMMA RepliesAreShort ==
    \A r \in Results : Len(format_reply(r.ok, r.output, r.warnings)) \in 0..MaxMessages
<1> SUFFICES ASSUME NEW r \in Results
             PROVE  Len(format_reply(r.ok, r.output, r.warnings)) \in 0..MaxMessages
  OBVIOUS
<1>1. r.ok \in BOOLEAN /\ r.output \in Outputs /\ r.warnings \in Warnings
  BY MessagesAssumption
<1>2. r.output \in Seq(Seq(Character)) /\ r.output # <<>> /\ r.warnings \in Nat
  BY <1>1, FormatAssumption
<1>3. /\ FitsSlack(r.ok, r.output, r.warnings)
      /\ Len(format_reply(r.ok, r.output, r.warnings)) \in Nat
  BY <1>1, <1>2, ReplyFits
<1> QED BY <1>3, FormatAssumption DEF FitsSlack

\* A reply is no longer than its limit, and sent no further than it is long.
Bounded ==
    /\ \A m \in Code : reply[m] \in 0..MaxMessages
    /\ \A m \in Code : sending[m] # NoPost /\ sending[m].post[1] = "reply" =>
          sending[m].post[2] <= reply[m]
    /\ late \in SUBSET (Code \X Post) /\ doubtful \in SUBSET (Code \X Post)

LEMMA PostingInPost ==
    ASSUME Inv, Bounded, NEW m \in Code, Posting(m)
    PROVE  sending[m].post \in Post
<1> DEFINE post == sending[m].post
<1>1. /\ sending[m] # NoPost /\ post = <<post[1], post[2]>> /\ post[2] \in Nat \ {0}
      /\ post[1] = "say" \/ post[1] = "reply"
      /\ post[1] = "say" => post[2] <= says[m]
  BY PostingIs DEF Posting, Kind
<1>2. says[m] \in 0..MaxSays /\ reply[m] \in 0..MaxMessages
  BY DEF Inv, Types, Bounded
<1>3. CASE post[1] = "say"
  <2>1. post[2] \in 1..MaxSays
    BY <1>1, <1>2, <1>3, BoundsAssumption
  <2> QED BY <1>1, <1>3, <2>1, PostIs
<1>4. CASE post[1] = "reply"
  <2>1. post[2] <= reply[m]
    BY <1>1, <1>4 DEF Bounded
  <2>2. post[2] \in 1..MaxMessages
    BY <1>1, <1>2, <2>1, FormatAssumption
  <2> QED BY <1>1, <1>4, <2>2, PostIs
<1> QED BY <1>1, <1>3, <1>4

LEMMA BoundedInit == Init => Bounded
BY FormatAssumption DEF Init, Bounded

LEMMA BoundedNext ==
    ASSUME Inv, Bounded, [Next]_vars
    PROVE  Bounded'
<1>1. ASSUME UNCHANGED <<reply, sending, late, doubtful>> PROVE Bounded'
  BY <1>1 DEF Bounded
<1>2. ASSUME NEW m \in Code, NEW how, NEW n \in 0..MaxMessages, EndEval(m, how, n)
      PROVE  Bounded'
  <2>1. /\ sending' = sending /\ late' = late /\ doubtful' = doubtful /\ sending[m] = NoPost
        /\ reply'[m] = n /\ \A c \in Code \ {m} : reply'[c] = reply[c]
    BY <1>2 DEF EndEval, postVars, Inv, Types
  <2> QED BY <2>1 DEF Bounded
<1>3. ASSUME NEW m \in Code, EvalReturns(m) \/ EvalRaises(m) PROVE Bounded'
  BY <1>2, <1>3, FormatAssumption, RepliesAreShort DEF EvalReturns, EvalRaises
<1>4. ASSUME NEW m \in Code, Say(m) PROVE Bounded'
  <2> DEFINE post == <<"say", says[m] + 1>>
  <2>1. says[m] + 1 \in Nat \ {0}
    BY DEF Inv, Types
  <2>2. First(post).post = post /\ post[1] = "say"
    BY <2>1, FirstIs DEF Kind
  <2>3. /\ sending' = [sending EXCEPT ![m] = First(post)] /\ UNCHANGED <<reply, late, doubtful>>
    BY <1>4 DEF Say
  <2> HIDE DEF post
  <2>4. sending'[m] = First(post) /\ \A c \in Code \ {m} : sending'[c] = sending[c]
    BY <2>3 DEF Inv, Types
  <2> QED BY <2>2, <2>3, <2>4 DEF Bounded
<1>5. ASSUME NEW m \in Code, Receive(m) PROVE Bounded'
  <2> DEFINE post == <<"reply", 1>>
  <2>1. First(post).post = post /\ post[1] = "reply" /\ post[2] = 1
    BY FirstIs DEF Kind
  <2>2. UNCHANGED <<reply, late, doubtful>>
    BY <1>5 DEF Receive, evalVars
  <2>3. CASE reply[m] = 0
    BY <1>1, <1>5, <2>2, <2>3 DEF Receive
  <2>4. CASE reply[m] # 0
    <3>1. sending' = [sending EXCEPT ![m] = First(post)]
      BY <1>5, <2>4 DEF Receive
    <3> HIDE DEF post
    <3>2. sending'[m] = First(post) /\ \A c \in Code \ {m} : sending'[c] = sending[c]
      BY <3>1 DEF Inv, Types
    <3>3. 1 <= reply[m]
      BY <2>4, FormatAssumption DEF Bounded
    <3> QED BY <2>1, <2>2, <3>2, <3>3 DEF Bounded
  <2> QED BY <2>3, <2>4
<1>6. ASSUME NEW m \in Code, PostReturns(m) PROVE Bounded'
  <2> DEFINE post == sending[m].post
             next == <<"reply", post[2] + 1>>
             on == post[1] = "reply" /\ ~LastMessage(m)
             s == IF on THEN First(next) ELSE NoPost
  <2>1. /\ Posting(m) /\ sending' = [sending EXCEPT ![m] = s]
        /\ UNCHANGED <<reply, late, doubtful>>
    BY <1>6, Zenon DEF PostReturns, evalVars
  <2>2. post[2] \in Nat \ {0} /\ sending[m] # NoPost
    BY <2>1, PostingIs DEF Posting
  <2>3. First(next).post = next /\ next[2] = post[2] + 1
    BY <2>2, FirstIs DEF Kind
  <2>4. on => post[2] + 1 <= reply[m]
    <3>1. on => post[2] <= reply[m] /\ post[2] # reply[m] /\ reply[m] \in Nat
      BY <2>2, FormatAssumption DEF Bounded, LastMessage
    <3> QED BY <2>2, <3>1
  <2>5. s # NoPost => s = First(next) /\ on
    OBVIOUS
  <2> HIDE DEF post, next, on, s
  <2>6. sending'[m] = s /\ \A c \in Code \ {m} : sending'[c] = sending[c]
    BY <2>1 DEF Inv, Types
  <2> QED BY <2>1, <2>3, <2>4, <2>5, <2>6 DEF Bounded
<1>7. ASSUME NEW m \in Code, NEW transient \in BOOLEAN, NEW fate \in Fates,
             PostFails(m, transient, fate)
      PROVE  Bounded'
  <2> DEFINE post == sending[m].post
             s == IF Raises(m, transient) THEN NoPost ELSE [sending[m] EXCEPT !.attempt = @ + 1]
  <2>1. /\ Posting(m) /\ Fate(m, fate) /\ reply' = reply
        /\ sending' = [sending EXCEPT ![m] = s]
    <3>1. Posting(m) /\ Fate(m, fate) /\ reply' = reply
      BY <1>7 DEF PostFails, evalVars
    <3>2. CASE Raises(m, transient)
      BY <1>7, <3>1, <3>2 DEF PostFails, AfterRaise
    <3>3. CASE ~Raises(m, transient)
      BY <1>7, <3>1, <3>3 DEF PostFails
    <3> QED BY <3>1, <3>2, <3>3
  <2>2. post \in Post /\ sending[m] # NoPost /\ sending[m] \in Sending
    BY <2>1, PostingInPost, PostingIs DEF Posting
  <2>3. s # NoPost => s.post = post
    BY <2>2 DEF Sending
  <2>4. late' \in SUBSET (Code \X Post) /\ doubtful' \in SUBSET (Code \X Post)
    BY <2>1, <2>2 DEF Bounded, Fate
  <2> HIDE DEF s
  <2>5. sending'[m] = s /\ \A c \in Code \ {m} : sending'[c] = sending[c]
    BY <2>1 DEF Inv, Types
  <2> QED BY <2>1, <2>2, <2>3, <2>4, <2>5 DEF Bounded
<1>8. ASSUME NEW m \in Code, NEW post \in Post, TakenLate(m, post) PROVE Bounded'
  BY <1>8 DEF TakenLate, Bounded, evalVars
<1>9. ASSUME NEW m \in Message, Handle(m) PROVE Bounded'
  BY <1>1, <1>5, <1>9
     DEF Handle, Ignore, UseCached, Ask, Told, FindLog, AppendLine, Slurp, evalVars, postVars
<1>10. ASSUME Worker PROVE Bounded'
  BY <1>1, <1>3, <1>10 DEF Worker, StartEval, postVars
<1>11. ASSUME NEW m \in Code, Say(m) \/ GiveUp(m) \/ Sends(m) PROVE Bounded'
  BY <1>1, <1>4, <1>6, <1>7, <1>11 DEF Sends, GiveUp, Fates, evalVars, postVars
<1>12. ASSUME UNCHANGED vars PROVE Bounded'
  BY <1>1, <1>12 DEF vars, evalVars, postVars
<1> QED BY <1>8, <1>9, <1>10, <1>11, <1>12 DEF Next

\* Every variable keeps its type, and the log, the replies and the posts
\* their limits.
THEOREM TypeCorrect == Spec => []TypeOK
<1>1. ASSUME Inv, Bounded PROVE TypeOK
  <2>1. phase \in [Message -> Final \cup Cache \cup {"log", "append", "slurp", "waiting", "replying"}]
    <3>1. ChatPhase \cup CodePhase
            \subseteq Final \cup Cache \cup {"log", "append", "slurp", "waiting", "replying"}
      BY DEF ChatPhase, CodePhase, AfterSlurp, Final, Cache
    <3> HIDE DEF Cache
    <3> QED BY <1>1, <3>1 DEF Inv, Types
  <2>2. reply \in [Code -> 0..MaxMessages]
    BY <1>1 DEF Inv, Types, Bounded
  <2>3. sending \in [Code -> {NoPost} \cup [post : Post, attempt : 1..PostAttempts]]
    <3>1. \A m \in Code : sending[m] \in {NoPost} \cup [post : Post, attempt : 1..PostAttempts]
      <4> SUFFICES ASSUME NEW m \in Code, sending[m] # NoPost
                   PROVE  sending[m] \in [post : Post, attempt : 1..PostAttempts]
        OBVIOUS
      <4>1. sending[m].post \in Post /\ sending[m] \in Sending
        BY <1>1, PostingInPost, PostingIs DEF Posting
      <4> QED BY <4>1 DEF Sending
    <3> QED BY <1>1, <3>1 DEF Inv, Types
  <2> QED BY <1>1, <2>1, <2>2, <2>3 DEF Inv, Types, Bounded, TypeOK
<1>2. Inv /\ Bounded /\ [Next]_vars => Bounded'
  BY BoundedNext
<1> QED BY <1>1, <1>2, AlwaysInv, BoundedInit, PTL DEF Spec
================================================================================
