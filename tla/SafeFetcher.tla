------------------------------ MODULE SafeFetcher ------------------------------
(***************************************************************************)
(* smeggdrop/security.py: SafeFetcher.fetch, as the code of one eval calls *)
(* it through core::http and core::curl (engine.py, and the wrapper that   *)
(* interp.py puts around every builtin).  A call follows redirects by      *)
(* itself, hop by hop: validate, open, look at the answer.  DNS and the    *)
(* servers answer as they like.                                            *)
(*                                                                         *)
(* validate and the connection that follows resolve the name separately;   *)
(* what the second lookup says is not modelled (security.py's known gap).  *)
(***************************************************************************)
EXTENDS Integers, FiniteSets

CONSTANTS
    Url,
    Refused,        \* urls that validate refuses as they are written
    Method,         \* what Tcl code gives as a method
    MaxBytes,       \* FetchPolicy
    MaxPostBytes,
    MaxRedirects,
    CurlMaxCalls    \* Limits.curl_max_calls

ASSUME FetchAssumption ==
    /\ Refused \subseteq Url
    /\ MaxBytes \in Nat \ {0} /\ MaxPostBytes \in Nat
    /\ MaxRedirects \in Nat /\ CurlMaxCalls \in Nat

NoData == -1                    \* data = None
Size == 0..(MaxPostBytes + 1)   \* of bodies given to core::http
Hop == 1..(MaxRedirects + 1)

Redirecting == {"301", "303"}   \* 302, 307 and 308 are treated like 301
Status == {"200", "404"} \cup Redirecting
Location == Url \cup {"missing", "unjoinable"}

NoRequest == [url |-> "none", method |-> "none", data |-> NoData]
NoAnswer == [status |-> "none", location |-> "missing"]

VARIABLES
    at,         \* where the call is, or "code" between the calls
    calls,      \* _curl_calls
    given,      \* the method and body of the call
    url, method, data,      \* fetch's variables
    hop,        \* the iteration of its loop
    outcome,    \* how the last call ended, and what it returned
    validated,  \* history: [Hop -> the url validate accepted]
    requests,   \* history: [Hop -> what was opened]
    answers     \* history: [Hop -> status and Location]

history == <<validated, requests, answers>>
vars == <<at, calls, given, url, method, data, hop, outcome, history>>

Outcome == [kind : {"none", "FetchError", "TclError", "other"}]
           \cup [kind : {"value"}, status : Status, size : 0..MaxBytes]

TypeOK ==
    /\ at \in {"code", "validate", "open", "answer"}
    /\ calls \in 0..(CurlMaxCalls + 1)
    /\ given \in [method : {"none", "GET", "HEAD", "POST"}, data : Size \cup {NoData}]
    /\ url \in Url \cup {"none"}
    /\ method \in {"none", "GET", "HEAD", "POST"}
    /\ data \in (0..MaxPostBytes) \cup {NoData}
    /\ hop \in Hop
    /\ outcome \in Outcome
    /\ validated \in [Hop -> Url \cup {"none"}]
    /\ requests \in [Hop -> [url : Url, method : {"GET", "HEAD", "POST"},
                             data : (0..MaxPostBytes) \cup {NoData}] \cup {NoRequest}]
    /\ answers \in [Hop -> [status : Status, location : Location] \cup {NoAnswer}]

Init ==
    /\ at = "code" /\ calls = 0
    /\ given = [method |-> "none", data |-> NoData]
    /\ url = "none" /\ method = "none" /\ data = NoData /\ hop = 1
    /\ outcome = [kind |-> "none"]
    /\ validated = [h \in Hop |-> "none"]
    /\ requests = [h \in Hop |-> NoRequest]
    /\ answers = [h \in Hop |-> NoAnswer]

\* Whatever fetch raises becomes a Tcl error, whatever it returns a value.
End(result) == at' = "code" /\ outcome' = result

upper(m) == CASE m = "get" -> "GET" [] m = "post" -> "POST" [] OTHER -> m

-----------------------------------------------------------------------------
\* core::http, and core::curl, whose method is GET.
Call(u, m, size) ==
    /\ at = "code" /\ calls <= CurlMaxCalls
    /\ calls' = calls + 1
    /\ validated' = [h \in Hop |-> "none"]
    /\ requests' = [h \in Hop |-> NoRequest]
    /\ answers' = [h \in Hop |-> NoAnswer]
    /\ hop' = 1
    /\ IF \/ calls = CurlMaxCalls
          \/ upper(m) \notin {"GET", "HEAD", "POST"}
          \/ upper(m) = "POST" /\ size > MaxPostBytes
       THEN /\ End([kind |-> IF calls = CurlMaxCalls THEN "TclError" ELSE "FetchError"])
            /\ UNCHANGED <<given, url, method, data>>
       ELSE /\ at' = "validate" /\ outcome' = [kind |-> "none"]
            /\ given' = [method |-> upper(m),
                         data |-> IF upper(m) = "POST" THEN size ELSE NoData]
            /\ url' = u /\ method' = given'.method /\ data' = given'.data

\* validate, with the kinds of addresses getaddrinfo returns, none when the
\* name cannot be resolved: one that is not public is enough to refuse it.
Validate(addresses) ==
    /\ at = "validate"
    /\ IF url \in Refused \/ addresses # {"public"}
       THEN End([kind |-> "FetchError"]) /\ UNCHANGED validated
       ELSE /\ at' = "open" /\ validated' = [validated EXCEPT ![hop] = url]
            /\ UNCHANGED outcome
    /\ UNCHANGED <<calls, given, url, method, data, hop, requests, answers>>

\* The request goes out; an answer of any status comes back.
Open(status, location) ==
    /\ at = "open" /\ at' = "answer"
    /\ requests' = [requests EXCEPT ![hop] = [url |-> url, method |-> method, data |-> data]]
    /\ answers' = [answers EXCEPT ![hop] = [status |-> status, location |-> location]]
    /\ UNCHANGED <<calls, given, url, method, data, hop, outcome, validated>>

\* It goes out, or does not, and nothing usable comes back: URLError and
\* OSError become FetchError, http.client's own exceptions stay what they are.
OpenFails(kind) ==
    /\ at = "open"
    /\ \/ requests' = [requests EXCEPT ![hop] = [url |-> url, method |-> method, data |-> data]]
       \/ UNCHANGED requests
    /\ End([kind |-> kind])
    /\ UNCHANGED <<calls, given, url, method, data, hop, validated, answers>>

\* Mutant of SeeOther: the body stays.
SeeOtherKeepingBody(status) ==
    IF status = "303" THEN method' = "GET" /\ UNCHANGED data ELSE UNCHANGED <<method, data>>

\* 303: the next request is a GET.
SeeOther(status) ==
    IF status = "303" THEN method' = "GET" /\ data' = NoData ELSE UNCHANGED <<method, data>>

\* Mutant of EveryHop: the url is validated once, before the loop.
EveryHopOnce == "open"

EveryHop == "validate"

\* Mutant of Follow: redirects are not counted.
FollowUncounted(location) ==
    url' = location /\ at' = EveryHop /\ UNCHANGED <<hop, outcome>>

\* Mutant of Follow: the joined url is not the one the loop goes on with.
FollowSameUrl(location) ==
    /\ IF hop = MaxRedirects + 1
       THEN End([kind |-> "FetchError"]) /\ UNCHANGED hop
       ELSE at' = EveryHop /\ hop' = hop + 1 /\ UNCHANGED outcome
    /\ UNCHANGED url

\* The loop goes on, or has run out.
Follow(location) ==
    /\ url' = location
    /\ IF hop = MaxRedirects + 1
       THEN End([kind |-> "FetchError"]) /\ UNCHANGED hop
       ELSE at' = EveryHop /\ hop' = hop + 1 /\ UNCHANGED outcome

Redirect ==
    LET answer == answers[hop]
    IN  /\ at = "answer" /\ answer.status \in Redirecting
        /\ \/ /\ answer.location = "missing"
              /\ End([kind |-> "value", status |-> answer.status, size |-> 0])
              /\ UNCHANGED <<url, method, data, hop>>
           \/ /\ answer.location = "unjoinable"
              /\ End([kind |-> "other"])
              /\ UNCHANGED <<url, method, data, hop>>
           \/ /\ answer.location \in Url
              /\ Follow(answer.location) /\ SeeOther(answer.status)
        /\ UNCHANGED <<calls, given, history>>

\* Mutant of Cut: the byte read beyond the limit is returned, too.
CutLate(size) == size

Cut(size) == IF size > MaxBytes THEN MaxBytes ELSE size

Read(size) ==
    /\ at = "answer" /\ answers[hop].status \notin Redirecting
    /\ End([kind |-> "value", status |-> answers[hop].status, size |-> Cut(size)])
    /\ UNCHANGED <<calls, given, url, method, data, hop, history>>

\* The connection breaks or times out in the middle of a body.
ReadFails ==
    /\ at = "answer" /\ answers[hop].status \notin Redirecting
    /\ End([kind |-> "other"])
    /\ UNCHANGED <<calls, given, url, method, data, hop, history>>

Fetch ==
    \/ \E addresses \in SUBSET {"public", "private"} : Validate(addresses)
    \/ \E status \in Status, location \in Location : Open(status, location)
    \/ \E kind \in {"FetchError", "other"} : OpenFails(kind)
    \/ Redirect
    \/ \E size \in 0..(MaxBytes + 1) : Read(size)
    \/ ReadFails

Next ==
    \/ \E u \in Url, m \in Method, size \in Size : Call(u, m, size)
    \/ Fetch

Spec == Init /\ [][Next]_vars

\* Every operation of a socket times out and a body is read to a limit.
FairSpec == Spec /\ WF_vars(Fetch)

-----------------------------------------------------------------------------
(* Correctness. *)

\* The url of every request, a redirect's included, was accepted by validate
\* in the same iteration of fetch's loop.
EveryRequestValidated ==
    \A h \in Hop : requests[h] # NoRequest => validated[h] = requests[h].url

SeeOtherBefore(h) == \E i \in 1..(h - 1) : answers[i].status = "303"

\* What goes out is what the code asked for, hop after hop, until a 303
\* makes the rest of the chain GETs without a body.
RequestsFollowTheCall ==
    \A h \in Hop : requests[h] # NoRequest =>
        /\ SeeOtherBefore(h) => requests[h].method = "GET" /\ requests[h].data = NoData
        /\ ~SeeOtherBefore(h) => [method |-> requests[h].method, data |-> requests[h].data] = given

\* A value belongs to the last request of an unbroken chain of redirects,
\* each leading to the next; it is a redirect itself only if it leads
\* nowhere, and then it is empty.
ValueEndsTheChain ==
    outcome.kind = "value" =>
        /\ \A h \in 1..(hop - 1) :
              answers[h].status \in Redirecting /\ requests[h + 1].url = answers[h].location
        /\ \A h \in (hop + 1)..(MaxRedirects + 1) : requests[h] = NoRequest
        /\ outcome.status = answers[hop].status
        /\ outcome.status \in Redirecting =>
              outcome.size = 0 /\ answers[hop].location = "missing"

\* Every call ends: the code goes on with a value or an error, however the
\* servers redirect.
EveryCallEnds == at # "code" ~> at = "code"

=============================================================================
