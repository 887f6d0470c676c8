--------------------------- MODULE SafeFetcherProofs ---------------------------
(***************************************************************************)
(* Proofs about SafeFetcher, for any urls, whichever validate refuses, any *)
(* limits, and whatever DNS and the servers answer.                        *)
(***************************************************************************)
EXTENDS SafeFetcher, TLAPS

-----------------------------------------------------------------------------
(* The invariant: what holds in the middle of a call. *)

\* A request is ready, nothing is returned yet, nothing is known of later
\* hops, and the url of this hop is validated before it is opened.
Progress ==
    /\ at # "code" =>
          outcome.kind = "none" /\ url \in Url /\ method \in {"GET", "HEAD", "POST"}
    /\ \A h \in Hop : h > hop => requests[h] = NoRequest
    /\ at \in {"validate", "open"} => requests[hop] = NoRequest
    /\ at = "open" => validated[hop] = url
    /\ at = "answer" =>
          /\ requests[hop] = [url |-> url, method |-> method, data |-> data]
          /\ answers[hop] \in [status : Status, location : Location]

\* Every hop before this one was answered by a redirect to the next.
Chain ==
    at # "code" =>
        /\ \A h \in 1..(hop - 1) : answers[h].status \in Redirecting
        /\ \A h \in 1..(hop - 1) : h + 1 < hop => requests[h + 1].url = answers[h].location
        /\ hop > 1 => url = answers[hop - 1].location

\* Method and body are still those of the call, up to the first 303.
Carried ==
    at # "code" =>
        /\ SeeOtherBefore(hop) => method = "GET" /\ data = NoData
        /\ ~SeeOtherBefore(hop) => [method |-> method, data |-> data] = given

FetchInv ==
    /\ TypeOK /\ Progress /\ Chain /\ Carried
    /\ EveryRequestValidated /\ RequestsFollowTheCall /\ ValueEndsTheChain

-----------------------------------------------------------------------------
(* Hops, requests and outcomes. *)

Body == (0..MaxPostBytes) \cup {NoData}
Request == [url : Url, method : {"GET", "HEAD", "POST"}, data : Body]
Answer == [status : Status, location : Location]

\* Hops are numbers from 1 on, and so are those before a hop.
LEMMA HopIs == /\ Hop \subseteq Nat /\ 1 \in Hop
               /\ \A h \in Hop : h # MaxRedirects + 1 => h + 1 \in Hop
               /\ \A h \in Hop : 1..(h - 1) \subseteq Hop
               /\ \A h \in Hop : \A i \in 1..(h - 1) : i + 1 \in Hop /\ i < h
BY FetchAssumption, SMT DEF Hop

\* An error is no value.
LEMMA ErrorsAreOutcomes ==
    /\ [kind |-> "FetchError"] \in Outcome /\ [kind |-> "TclError"] \in Outcome
    /\ [kind |-> "other"] \in Outcome /\ [kind |-> "none"] \in Outcome
    /\ \A k \in {"FetchError", "TclError", "other", "none"} : [kind |-> k].kind # "value"
BY DEF Outcome

\* A value that was cut is an outcome.
LEMMA ValuesAreOutcomes ==
    ASSUME NEW s \in Status, NEW n \in 0..MaxBytes
    PROVE  [kind |-> "value", status |-> s, size |-> n] \in Outcome
BY DEF Outcome

\* A call that has just begun, or none, is at the start of its chain.
LEMMA InitInv == Init => FetchInv
<1> SUFFICES ASSUME Init PROVE FetchInv
  OBVIOUS
<1>1. TypeOK
  BY FetchAssumption, HopIs, ErrorsAreOutcomes DEF Init, TypeOK, NoData, NoRequest, NoAnswer
<1>2. Progress /\ Chain /\ Carried
  BY HopIs DEF Init, Progress, Chain, Carried
<1>3. EveryRequestValidated /\ RequestsFollowTheCall /\ ValueEndsTheChain
  BY DEF Init, EveryRequestValidated, RequestsFollowTheCall, ValueEndsTheChain
<1> QED BY <1>1, <1>2, <1>3 DEF FetchInv

-----------------------------------------------------------------------------
(* Each action keeps the invariant. *)

\* A call forgets the one before it, whether it is refused or goes on.
LEMMA CallStep ==
    ASSUME FetchInv, NEW u \in Url, NEW m \in Method, NEW size \in Size, Call(u, m, size)
    PROVE  FetchInv'
<1> DEFINE refused == \/ calls = CurlMaxCalls
                      \/ upper(m) \notin {"GET", "HEAD", "POST"}
                      \/ upper(m) = "POST" /\ size > MaxPostBytes
<1> USE DEF FetchInv
<1>1. /\ at = "code" /\ hop' = 1
      /\ requests' = [h \in Hop |-> NoRequest]
      /\ validated' = [h \in Hop |-> "none"]
      /\ answers' = [h \in Hop |-> NoAnswer]
      /\ calls' \in 0..(CurlMaxCalls + 1)
  BY FetchAssumption DEF Call, TypeOK
<1>2. (EveryRequestValidated /\ RequestsFollowTheCall)'
  BY <1>1 DEF EveryRequestValidated, RequestsFollowTheCall
<1>3. CASE refused
  <2>1. at' = "code" /\ outcome' \in Outcome /\ outcome'.kind # "value"
        /\ UNCHANGED <<given, url, method, data>>
    BY <1>3, ErrorsAreOutcomes DEF Call, End
  <2>2. TypeOK'
    BY <1>1, <2>1, HopIs DEF TypeOK, NoRequest, NoAnswer
  <2>3. (Progress /\ Chain /\ Carried)'
    BY <1>1, <2>1 DEF Progress, Chain, Carried
  <2> QED BY <1>2, <2>1, <2>2, <2>3 DEF ValueEndsTheChain
<1>4. CASE ~refused
  <2>1. /\ at' = "validate" /\ outcome' = [kind |-> "none"] /\ url' = u
        /\ method' \in {"GET", "HEAD", "POST"} /\ data' \in Body
        /\ given' = [method |-> method', data |-> data']
    BY <1>4, FetchAssumption DEF Call, Body, Size, NoData
  <2>2. given' \in [method : {"none", "GET", "HEAD", "POST"}, data : Size \cup {NoData}]
    BY <2>1, FetchAssumption DEF Body, Size, NoData
  <2>3. TypeOK'
    BY <1>1, <2>1, <2>2, HopIs, ErrorsAreOutcomes DEF TypeOK, NoRequest, NoAnswer, Body
  <2>4. (Progress /\ Chain /\ Carried)'
    BY <1>1, <2>1, HopIs DEF Progress, Chain, Carried, SeeOtherBefore
  <2> QED BY <1>2, <2>1, <2>3, <2>4 DEF ValueEndsTheChain
<1> QED BY <1>3, <1>4

\* A hop before the current one keeps what is known of it, whatever is
\* entered for the current one.
LEMMA SeeOtherStays ==
    ASSUME TypeOK, NEW a, answers' = [answers EXCEPT ![hop] = a], NEW h \in Hop, h <= hop
    PROVE  SeeOtherBefore(h)' <=> SeeOtherBefore(h)
<1>1. \A i \in 1..(h - 1) : i \in Hop /\ i # hop
  BY HopIs DEF TypeOK
<1>2. \A i \in 1..(h - 1) : answers'[i] = answers[i]
  BY <1>1 DEF TypeOK
<1> QED BY <1>2 DEF SeeOtherBefore

\* Validating enters one url, or ends the call.
LEMMA ValidateStep ==
    ASSUME FetchInv, NEW addresses \in SUBSET {"public", "private"}, Validate(addresses)
    PROVE  FetchInv'
<1> USE DEF FetchInv
<1>1. /\ at = "validate" /\ at' \in {"code", "open"}
      /\ UNCHANGED <<calls, given, url, method, data, hop, requests, answers>>
      /\ outcome' \in Outcome /\ outcome'.kind # "value"
      /\ at' # "code" => outcome' = outcome
      /\ at' = "open" => validated'[hop] = url
      /\ \A h \in Hop : h # hop => validated'[h] = validated[h]
      /\ validated' \in [Hop -> Url \cup {"none"}]
  <2>1. CASE url \in Refused \/ addresses # {"public"}
    BY <2>1, ErrorsAreOutcomes DEF Validate, End, TypeOK
  <2>2. CASE ~(url \in Refused \/ addresses # {"public"})
    BY <2>2 DEF Validate, TypeOK, Progress
  <2> QED BY <2>1, <2>2
<1>2. requests[hop] = NoRequest
  BY <1>1 DEF Progress
<1>3. TypeOK'
  BY <1>1 DEF TypeOK
<1>4. Progress'
  BY <1>1 DEF Progress
<1>5. (Chain /\ Carried /\ RequestsFollowTheCall)'
  BY <1>1 DEF Chain, Carried, RequestsFollowTheCall, SeeOtherBefore
<1>6. EveryRequestValidated'
  BY <1>1, <1>2 DEF EveryRequestValidated
<1>7. ValueEndsTheChain'
  BY <1>1 DEF ValueEndsTheChain
<1> QED BY <1>3, <1>4, <1>5, <1>6, <1>7

\* What goes out in this hop is validated and is what the call asked for.
LEMMA RequestIsRight ==
    ASSUME FetchInv, at = "open",
           requests' = [requests EXCEPT ![hop] = [url |-> url, method |-> method, data |-> data]],
           UNCHANGED <<given, url, method, data, hop, validated>>,
           \A h \in Hop : h <= hop => (SeeOtherBefore(h)' <=> SeeOtherBefore(h))
    PROVE  /\ (EveryRequestValidated /\ RequestsFollowTheCall)'
           /\ \A h \in Hop : h > hop => requests'[h] = NoRequest
<1> USE DEF FetchInv
<1>1. \A h \in Hop : h # hop => requests'[h] = requests[h]
  BY DEF TypeOK
<1>2. requests'[hop] = [url |-> url, method |-> method, data |-> data] /\ hop \in Hop
  BY DEF TypeOK
<1>3. \A h \in Hop : h > hop => requests'[h] = NoRequest
  BY <1>1, HopIs DEF Progress, TypeOK
<1>4. EveryRequestValidated'
  BY <1>1, <1>2 DEF EveryRequestValidated, Progress
<1>5. ASSUME NEW h \in Hop, requests'[h] # NoRequest
      PROVE  /\ SeeOtherBefore(h)' => requests'[h].method = "GET" /\ requests'[h].data = NoData
             /\ ~SeeOtherBefore(h)' =>
                   [method |-> requests'[h].method, data |-> requests'[h].data] = given'
  <2>1. CASE h = hop
    <3>1. SeeOtherBefore(h)' <=> SeeOtherBefore(hop)
      BY <2>1, <1>2, HopIs
    <3>2. requests'[h].method = method /\ requests'[h].data = data
      BY <2>1, <1>2
    <3> QED BY <3>1, <3>2 DEF Carried
  <2>2. CASE h # hop
    <3>1. h < hop
      BY <2>2, <1>3, <1>5, HopIs DEF TypeOK
    <3>2. requests'[h] = requests[h] /\ (SeeOtherBefore(h)' <=> SeeOtherBefore(h))
      BY <2>2, <3>1, <1>1, <1>2, HopIs
    <3>3. /\ SeeOtherBefore(h) => requests[h].method = "GET" /\ requests[h].data = NoData
          /\ ~SeeOtherBefore(h) =>
                [method |-> requests[h].method, data |-> requests[h].data] = given
      BY <3>2, <1>5 DEF RequestsFollowTheCall
    <3> QED BY <3>2, <3>3
  <2> QED BY <2>1, <2>2
<1>6. RequestsFollowTheCall'
  BY <1>5 DEF RequestsFollowTheCall
<1> QED BY <1>3, <1>4, <1>6

\* The request and its answer are entered for this hop alone.
LEMMA OpenStep ==
    ASSUME FetchInv, NEW status \in Status, NEW location \in Location, Open(status, location)
    PROVE  FetchInv'
<1> DEFINE answer == [status |-> status, location |-> location]
<1> USE DEF FetchInv
<1>1. /\ at = "open" /\ at' = "answer"
      /\ requests' = [requests EXCEPT ![hop] = [url |-> url, method |-> method, data |-> data]]
      /\ answers' = [answers EXCEPT ![hop] = answer]
      /\ UNCHANGED <<calls, given, url, method, data, hop, outcome, validated>>
  BY DEF Open
<1>2. answer \in Answer /\ [url |-> url, method |-> method, data |-> data] \in Request
  BY <1>1 DEF Answer, Request, Progress, TypeOK, Body
<1>3. \A h \in Hop : h <= hop => (SeeOtherBefore(h)' <=> SeeOtherBefore(h))
  BY <1>1, SeeOtherStays
<1>4. /\ (EveryRequestValidated /\ RequestsFollowTheCall)'
      /\ \A h \in Hop : h > hop => requests'[h] = NoRequest
  BY <1>1, <1>3, RequestIsRight
<1>5. TypeOK'
  <2>1. requests' \in [Hop -> Request \cup {NoRequest}]
    BY <1>1, <1>2 DEF TypeOK, Request, Body
  <2>2. answers' \in [Hop -> Answer \cup {NoAnswer}]
    BY <1>1, <1>2 DEF TypeOK, Answer
  <2> QED BY <1>1, <2>1, <2>2 DEF TypeOK, Request, Answer, Body
<1>6. Progress'
  BY <1>1, <1>2, <1>4 DEF Progress, TypeOK, Answer
<1>7. Chain'
  <2>1. \A h \in 1..(hop - 1) : h \in Hop /\ h # hop
    BY HopIs DEF TypeOK
  <2>2. \A h \in 1..(hop - 1) : answers'[h] = answers[h]
    BY <1>1, <2>1 DEF TypeOK
  <2>3. \A h \in 1..(hop - 1) : h + 1 < hop => requests'[h + 1] = requests[h + 1]
    BY <1>1, HopIs DEF TypeOK
  <2>4. hop > 1 => hop - 1 \in 1..(hop - 1)
    BY HopIs DEF TypeOK
  <2> QED BY <1>1, <2>2, <2>3, <2>4 DEF Chain
<1>8. Carried'
  <2>1. SeeOtherBefore(hop)' <=> SeeOtherBefore(hop)
    BY <1>1, <1>3, HopIs DEF TypeOK
  <2> QED BY <1>1, <2>1 DEF Carried
<1>9. ValueEndsTheChain'
  BY <1>1 DEF ValueEndsTheChain, Progress
<1> QED BY <1>4, <1>5, <1>6, <1>7, <1>8, <1>9

\* A request without an answer may have gone out.
LEMMA OpenFailsStep ==
    ASSUME FetchInv, NEW kind \in {"FetchError", "other"}, OpenFails(kind)
    PROVE  FetchInv'
<1> USE DEF FetchInv
<1>1. /\ at = "open" /\ at' = "code" /\ outcome' = [kind |-> kind]
      /\ \/ requests' = [requests EXCEPT ![hop] = [url |-> url, method |-> method, data |-> data]]
         \/ UNCHANGED requests
      /\ UNCHANGED <<calls, given, url, method, data, hop, validated, answers>>
  BY DEF OpenFails, End
<1>2. [url |-> url, method |-> method, data |-> data] \in Request
  BY <1>1 DEF Request, Progress, TypeOK, Body
<1>3. \A h \in Hop : SeeOtherBefore(h)' <=> SeeOtherBefore(h)
  BY <1>1 DEF SeeOtherBefore
<1>4. /\ (EveryRequestValidated /\ RequestsFollowTheCall)'
      /\ \A h \in Hop : h > hop => requests'[h] = NoRequest
  <2>1. CASE UNCHANGED requests
    BY <1>1, <1>3, <2>1 DEF EveryRequestValidated, RequestsFollowTheCall, Progress
  <2>2. CASE requests' = [requests EXCEPT ![hop] = [url |-> url, method |-> method, data |-> data]]
    BY <1>1, <1>3, <2>2, RequestIsRight
  <2> QED BY <1>1, <2>1, <2>2
<1>5. TypeOK'
  <2>1. requests' \in [Hop -> Request \cup {NoRequest}]
    BY <1>1, <1>2 DEF TypeOK, Request, Body
  <2> QED BY <1>1, <2>1, ErrorsAreOutcomes DEF TypeOK, Request, Body
<1>6. (Progress /\ Chain /\ Carried)'
  BY <1>1, <1>4 DEF Progress, Chain, Carried
<1>7. ValueEndsTheChain'
  BY <1>1, ErrorsAreOutcomes DEF ValueEndsTheChain
<1> QED BY <1>4, <1>5, <1>6, <1>7

\* A call that ends with an error leaves nothing to be shown but types.
LEMMA EndsWithError ==
    ASSUME FetchInv, NEW k \in {"FetchError", "other"}, End([kind |-> k]),
           UNCHANGED <<calls, given, hop, history>>,
           url' \in Url \cup {"none"}, method' \in {"none", "GET", "HEAD", "POST"}, data' \in Body
    PROVE  FetchInv'
<1> USE DEF FetchInv, history
<1>1. at' = "code" /\ outcome' = [kind |-> k] /\ outcome' \in Outcome /\ outcome'.kind # "value"
  BY ErrorsAreOutcomes DEF End
<1>2. TypeOK'
  BY <1>1 DEF TypeOK, Body
<1>3. (Progress /\ Chain /\ Carried /\ EveryRequestValidated /\ ValueEndsTheChain)'
  BY <1>1 DEF Progress, Chain, Carried, EveryRequestValidated, ValueEndsTheChain
<1>4. RequestsFollowTheCall'
  BY DEF RequestsFollowTheCall, SeeOtherBefore
<1> QED BY <1>2, <1>3, <1>4

\* A call that ends with a value is at the end of its chain.
LEMMA EndsWithValue ==
    ASSUME FetchInv, at = "answer", NEW size \in 0..MaxBytes,
           End([kind |-> "value", status |-> answers[hop].status, size |-> size]),
           answers[hop].status \in Redirecting =>
               size = 0 /\ answers[hop].location = "missing",
           UNCHANGED <<calls, given, url, method, data, hop, history>>
    PROVE  FetchInv'
<1> USE DEF FetchInv, history
<1>1. answers[hop] \in Answer /\ requests[hop].url = url
  BY DEF Progress, Answer
<1>2. /\ at' = "code" /\ outcome' \in Outcome
      /\ outcome'.status = answers[hop].status /\ outcome'.size = size
  BY <1>1, ValuesAreOutcomes DEF End, Answer
<1>3. TypeOK'
  BY <1>2 DEF TypeOK
<1>4. (Progress /\ Chain /\ Carried /\ EveryRequestValidated)'
  BY <1>2 DEF Progress, Chain, Carried, EveryRequestValidated
<1>5. RequestsFollowTheCall'
  BY DEF RequestsFollowTheCall, SeeOtherBefore
<1>6. ValueEndsTheChain'
  <2>1. ASSUME NEW h \in 1..(hop - 1)
        PROVE  answers[h].status \in Redirecting /\ requests[h + 1].url = answers[h].location
    <3>1. h \in Nat /\ hop \in Nat /\ (h + 1 < hop \/ h = hop - 1)
      BY <2>1, HopIs DEF TypeOK
    <3>2. CASE h + 1 < hop
      BY <3>2 DEF Chain
    <3>3. CASE h = hop - 1
      <4>1. h + 1 = hop /\ hop > 1
        BY <3>1, <3>3
      <4> QED BY <1>1, <3>3, <4>1 DEF Chain
    <3> QED BY <3>1, <3>2, <3>3
  <2>2. \A h \in (hop + 1)..(MaxRedirects + 1) : h \in Hop /\ h > hop
    BY HopIs, FetchAssumption DEF TypeOK, Hop
  <2>3. \A h \in (hop + 1)..(MaxRedirects + 1) : requests[h] = NoRequest
    BY <2>2 DEF Progress
  <2> QED BY <1>2, <2>1, <2>3 DEF ValueEndsTheChain
<1> QED BY <1>3, <1>4, <1>5, <1>6

\* A redirect ends the call, or makes the next hop part of its chain.
LEMMA RedirectStep == ASSUME FetchInv, Redirect PROVE FetchInv'
<1> DEFINE answer == answers[hop]
<1> USE DEF FetchInv
<1>1. at = "answer" /\ answer.status \in Redirecting /\ answer \in Answer
  BY DEF Redirect, Progress, Answer
<1>2. UNCHANGED <<calls, given, history>>
  BY DEF Redirect
<1>3. CASE answer.location = "missing"
           /\ End([kind |-> "value", status |-> answer.status, size |-> 0])
           /\ UNCHANGED <<url, method, data, hop>>
  <2>1. 0 \in 0..MaxBytes
    BY FetchAssumption
  <2> QED BY <1>1, <1>2, <1>3, <2>1, EndsWithValue
<1>4. CASE End([kind |-> "other"]) /\ UNCHANGED <<url, method, data, hop>>
  BY <1>2, <1>4, EndsWithError DEF TypeOK, Body
<1>5. CASE answer.location \in Url /\ Follow(answer.location) /\ SeeOther(answer.status)
  <2>1. /\ url' = answer.location
        /\ method' \in {"GET", "HEAD", "POST"} /\ data' \in Body
        /\ answer.status = "303" => method' = "GET" /\ data' = NoData
        /\ answer.status # "303" => UNCHANGED <<method, data>>
    BY <1>1, <1>5 DEF Follow, SeeOther, Progress, TypeOK, Body
  <2>2. CASE hop = MaxRedirects + 1
    BY <1>2, <1>5, <2>1, <2>2, EndsWithError DEF Follow
  <2>3. CASE hop # MaxRedirects + 1
    <3>1. at' = "validate" /\ hop' = hop + 1 /\ UNCHANGED outcome
      BY <1>5, <2>3 DEF Follow, EveryHop
    <3>2. hop \in Nat /\ hop' \in Hop /\ UNCHANGED <<given, requests, answers, validated>>
      BY <1>2, <2>3, <3>1, HopIs DEF TypeOK, history
    <3>3. TypeOK'
      BY <1>2, <1>5, <2>1, <3>1, <3>2 DEF TypeOK, Body, history
    <3>4. Progress'
      <4>1. \A h \in Hop : h > hop' => h > hop
        BY <3>1, <3>2, HopIs
      <4> QED BY <1>1, <1>5, <2>1, <3>1, <3>2, <4>1 DEF Progress
    <3>5. Chain'
      <4>1. ASSUME NEW h \in 1..(hop' - 1)
            PROVE  /\ answers[h].status \in Redirecting
                   /\ h + 1 < hop' => requests[h + 1].url = answers[h].location
        <5>1. CASE h = hop
          BY <1>1, <3>1, <3>2, <5>1
        <5>2. CASE h # hop
          <6>1. h \in 1..(hop - 1) /\ (h + 1 < hop \/ (h = hop - 1 /\ hop > 1 /\ h + 1 = hop))
            BY <3>1, <3>2, <5>2
          <6>2. requests[hop].url = url
            BY <1>1 DEF Progress
          <6> QED BY <1>1, <6>1, <6>2 DEF Chain
        <5> QED BY <5>1, <5>2
      <4>2. hop' - 1 = hop
        BY <3>1, <3>2
      <4> QED BY <2>1, <3>2, <4>1, <4>2 DEF Chain
    <3>6. Carried'
      <4>1. 1..(hop' - 1) = (1..(hop - 1)) \cup {hop}
        BY <3>1, <3>2, HopIs DEF TypeOK, Hop
      <4>2. SeeOtherBefore(hop)' <=> (SeeOtherBefore(hop) \/ answer.status = "303")
        BY <3>2, <4>1 DEF SeeOtherBefore
      <4> QED BY <1>1, <2>1, <3>1, <3>2, <4>2 DEF Carried
    <3>7. (EveryRequestValidated /\ RequestsFollowTheCall /\ ValueEndsTheChain)'
      BY <1>1, <3>1, <3>2 DEF EveryRequestValidated, RequestsFollowTheCall, SeeOtherBefore,
         ValueEndsTheChain, Progress
    <3> QED BY <3>3, <3>4, <3>5, <3>6, <3>7
  <2> QED BY <2>2, <2>3
<1> QED BY <1>3, <1>4, <1>5 DEF Redirect

\* Every action keeps the invariant.
LEMMA StepInv == FetchInv /\ [Next]_vars => FetchInv'
<1> SUFFICES ASSUME FetchInv, [Next]_vars PROVE FetchInv'
  OBVIOUS
<1>1. ASSUME NEW u \in Url, NEW m \in Method, NEW size \in Size, Call(u, m, size)
      PROVE  FetchInv'
  BY <1>1, CallStep
<1>2. ASSUME NEW addresses \in SUBSET {"public", "private"}, Validate(addresses)
      PROVE  FetchInv'
  BY <1>2, ValidateStep
<1>3. ASSUME NEW status \in Status, NEW location \in Location, Open(status, location)
      PROVE  FetchInv'
  BY <1>3, OpenStep
<1>4. ASSUME NEW kind \in {"FetchError", "other"}, OpenFails(kind)
      PROVE  FetchInv'
  BY <1>4, OpenFailsStep
<1>5. CASE Redirect
  BY <1>5, RedirectStep
<1>6. ASSUME NEW size \in 0..(MaxBytes + 1), Read(size)
      PROVE  FetchInv'
  <2>1. Cut(size) \in 0..MaxBytes
    BY FetchAssumption DEF Cut
  <2> QED BY <1>6, <2>1, EndsWithValue DEF Read
<1>7. CASE ReadFails
  BY <1>7, EndsWithError DEF ReadFails, FetchInv, TypeOK, Body
<1>8. CASE UNCHANGED vars
  BY <1>8 DEF vars, history, FetchInv, TypeOK, Progress, Chain, Carried, SeeOtherBefore,
     EveryRequestValidated, RequestsFollowTheCall, ValueEndsTheChain
<1> QED BY <1>1, <1>2, <1>3, <1>4, <1>5, <1>6, <1>7, <1>8 DEF Next, Fetch

\* The invariant of fetch.
THEOREM FetchCorrect == Spec => []FetchInv
BY InitInv, StepInv, PTL DEF Spec

-----------------------------------------------------------------------------
(* What follows for every call. *)

\* Every variable of a call keeps its type: what is read is cut at MaxBytes
\* and the hops end after MaxRedirects (fetch).
THEOREM TypeCorrect == Spec => []TypeOK
BY FetchCorrect, PTL DEF FetchInv

\* No request goes out, in any hop of any chain of redirects, whose url was
\* not accepted by validate in that hop.
THEOREM RequestsAreValidated == Spec => []EveryRequestValidated
BY FetchCorrect, PTL DEF FetchInv

\* Method and body are the call's up to the first 303, and GET without a
\* body from there on.
THEOREM RequestsAreTheCalls == Spec => []RequestsFollowTheCall
BY FetchCorrect, PTL DEF FetchInv

\* What a call returns was answered by the last request of an unbroken
\* chain of redirects.
THEOREM ValuesEndChains == Spec => []ValueEndsTheChain
BY FetchCorrect, PTL DEF FetchInv

================================================================================
