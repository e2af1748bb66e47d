-------------------------- MODULE OutboundTransport --------------------------
(***************************************************************************)
(* Transport.RoundTrip (network_transport.go): the tracing transport that  *)
(* SetupInterceptors puts around http.DefaultTransport.  It writes its     *)
(* headers into the caller's request, sends it, sends it once more without *)
(* them when the answer is a 400 or a 403, records the call and may read   *)
(* the answer's body before the caller does.                               *)
(*                                                                         *)
(* Transports nest: a second SetupInterceptors, or a client built with     *)
(* NewTransport(nil) after the first, puts one around another.  Layers of  *)
(* them stand between the caller and the base transport, which talks to    *)
(* the server.  A call goes down the layers, is answered, and comes up.    *)
(* The caller may use its request object again for the next call.          *)
(*                                                                         *)
(* A body is what the server sees of it; a status is "ok" or, for 400 and  *)
(* 403, "rejected"; the answer's body is a number of bytes, after which it *)
(* ends, breaks, or never ends.                                            *)
(***************************************************************************)
EXTENDS Naturals, Sequences

CONSTANTS
    Layers,         \* the transports around the base transport
    RespLimit,      \* responseBodyLimitBytes
    Sizes,          \* the sizes of answers
    MaxCalls,       \* bound on the calls that are made
    None            \* no configuration, no header

ASSUME LayersAssumption == Layers \in Nat \ {0}
ASSUME SizesAssumption == RespLimit \in Nat /\ Sizes \subseteq Nat
ASSUME MaxCallsAssumption == MaxCalls \in Nat
ASSUME NoneAssumption == None \notin Nat

VARIABLES
    config,     \* None, or the part of the configuration that matters here
    request,    \* the caller's request object
    dir,        \* "idle", or the way the call is going: "down" or "up"
    depth,      \* the layers the call is in
    frames,     \* the locals of RoundTrip in each of them
    response,   \* what the base transport, or the layer below, returned
    issued,     \* the request ids given out so far
    calls,      \* the calls made so far
    wire,       \* history: the attempts of this call that were sent
    posts,      \* history: the network requests this call has recorded
    open        \* history: the attempts whose answer has an open body

vars == <<config, request, dir, depth, frames, response, issued, calls,
          wire, posts, open>>

Configs == [captureResponseBody : BOOLEAN]
\* "own" has telemetryOutboundHeader, "excluded" goes to an excluded domain.
Kinds == {"traced", "own", "excluded"}
\* Reading a "broken" body fails; a "spent" one has been read to its end.
GivenBodies == {"none", "whole", "broken"}
Bodies == GivenBodies \cup {"empty", "spent"}
Answered == {"ok", "rejected"}
Ends == {"eof", "error", "never"}

NoHeaders == [trace |-> None, override |-> None]
NoFrame == [rid |-> None, saved |-> "none", retried |-> FALSE]
NoResponse == [status |-> "none", attempt |-> 0, text |-> FALSE, size |-> 0,
               left |-> 0, ends |-> "eof", state |-> "closed"]

Init ==
    /\ config = None
    /\ request = [kind |-> "traced", given |-> "none", body |-> "none",
                  ctxOverride |-> FALSE, headers |-> NoHeaders]
    /\ dir = "idle"
    /\ depth = 0
    /\ frames = [l \in 1..Layers |-> NoFrame]
    /\ response = NoResponse
    /\ issued = 0
    /\ calls = 0
    /\ wire = <<>>
    /\ posts = <<>>
    /\ open = {}

\* initConfig; transports may be in use before.
Configure ==
    /\ config = None
    /\ config' \in Configs
    /\ UNCHANGED <<request, dir, depth, frames, response, issued, calls,
                   wire, posts, open>>

\* The caller sends a new request, to which it may have given an override
\* header of its own, or its last one again; its body is a new one. It has
\* closed the answer it got before.
Call(kind, body, ctxOverride, headers) ==
    /\ dir = "idle"
    /\ calls < MaxCalls
    /\ calls' = calls + 1
    /\ request' = [kind |-> kind, given |-> body, body |-> body,
                   ctxOverride |-> ctxOverride, headers |-> headers]
    /\ dir' = "down"
    /\ response' = NoResponse
    /\ wire' = <<>>
    /\ posts' = <<>>
    /\ open' = {}
    /\ UNCHANGED <<config, depth, frames, issued>>

-----------------------------------------------------------------------------
\* Down.

\* The layer hands the request on as it is: there is no configuration, it is
\* the SDK's own, or its domain is excluded.
PassOn ==
    /\ dir = "down" /\ depth < Layers
    /\ config = None \/ request.kind # "traced"
    /\ depth' = depth + 1
    /\ frames' = [frames EXCEPT ![depth + 1] = NoFrame]
    /\ UNCHANGED <<config, request, dir, response, issued, calls, wire, posts, open>>

\* What io.ReadAll makes of a body, and what is put in its place: a body that
\* cannot be read leaves nothing to send again, and an empty one to send.
Saved(body) ==
    CASE body = "broken" -> "nothing"
      [] body = "spent" -> "empty"
      [] OTHER -> body
Replaced(body) == IF body \in {"broken", "spent"} THEN "empty" ELSE body

\* The headers are set on the caller's request itself and its body is buffered.
Trace ==
    /\ dir = "down" /\ depth < Layers
    /\ config # None /\ request.kind = "traced"
    /\ depth' = depth + 1
    /\ issued' = issued + 1
    /\ frames' = [frames EXCEPT ![depth + 1] =
           [rid |-> issued + 1, saved |-> Saved(request.body), retried |-> FALSE]]
    /\ request' = [request EXCEPT
           !.headers = [trace |-> issued + 1,
                        override |-> IF request.ctxOverride THEN "context" ELSE @.override],
           !.body = Replaced(@)]
    /\ UNCHANGED <<config, dir, response, calls, wire, posts, open>>

\* The base transport sends the request and gets an answer, or none; a broken
\* body may be answered before it breaks. A spent one is an empty one.
Attempt(status, text, size, ends) ==
    /\ dir = "down" /\ depth = Layers
    /\ wire' = Append(wire, [headers |-> request.headers, status |-> status,
                             body |-> IF request.body = "spent" THEN "empty"
                                      ELSE request.body])
    /\ request' = [request EXCEPT !.body = IF @ = "none" THEN @ ELSE "spent"]
    /\ response' = IF status = "failed" THEN [NoResponse EXCEPT !.status = "failed"]
                   ELSE [status |-> status, attempt |-> Len(wire) + 1, text |-> text,
                         size |-> size, left |-> size, ends |-> ends, state |-> "stream"]
    /\ open' = IF status = "failed" THEN open ELSE open \cup {Len(wire) + 1}
    /\ dir' = "up"
    /\ UNCHANGED <<config, depth, frames, issued, calls, posts>>

-----------------------------------------------------------------------------
\* Up.

Return ==
    /\ depth' = depth - 1
    /\ dir' = IF depth = 1 THEN "idle" ELSE "up"

PassBack ==
    /\ dir = "up" /\ frames[depth].rid = None
    /\ Return
    /\ UNCHANGED <<config, request, frames, response, issued, calls, wire, posts, open>>

ToRetry == response.status = "rejected" /\ ~frames[depth].retried

\* Mutant: the rejected answer's body stays open.
RetryLeavesOpen ==
    /\ dir = "up" /\ frames[depth].rid # None /\ ToRetry
    /\ request' = [request EXCEPT
           !.headers = NoHeaders,
           !.body = IF frames[depth].saved \in {"whole", "empty"}
                    THEN frames[depth].saved ELSE @]
    /\ frames' = [frames EXCEPT ![depth].retried = TRUE]
    /\ dir' = "down"
    /\ UNCHANGED <<config, depth, response, issued, calls, wire, posts, open>>

\* Mutant: the override header is sent again.
RetryKeepsOverride ==
    /\ dir = "up" /\ frames[depth].rid # None /\ ToRetry
    /\ request' = [request EXCEPT
           !.headers.trace = None,
           !.body = IF frames[depth].saved \in {"whole", "empty"}
                    THEN frames[depth].saved ELSE @]
    /\ frames' = [frames EXCEPT ![depth].retried = TRUE]
    /\ open' = open \ {response.attempt}
    /\ dir' = "down"
    /\ UNCHANGED <<config, depth, response, issued, calls, wire, posts>>

\* Mutant: the body is not reset.
RetryWithSpentBody ==
    /\ dir = "up" /\ frames[depth].rid # None /\ ToRetry
    /\ request' = [request EXCEPT !.headers = NoHeaders]
    /\ frames' = [frames EXCEPT ![depth].retried = TRUE]
    /\ open' = open \ {response.attempt}
    /\ dir' = "down"
    /\ UNCHANGED <<config, depth, response, issued, calls, wire, posts>>

\* A 400 or a 403 may be due to the headers: they are removed, also one that
\* the caller had set, the body is reset if there is a copy of it, and the
\* layer below is called a second time.
Retry ==
    /\ dir = "up" /\ frames[depth].rid # None /\ ToRetry
    /\ request' = [request EXCEPT
           !.headers = NoHeaders,
           !.body = IF frames[depth].saved \in {"whole", "empty"}
                    THEN frames[depth].saved ELSE @]
    /\ frames' = [frames EXCEPT ![depth].retried = TRUE]
    /\ open' = open \ {response.attempt}
    /\ dir' = "down"
    /\ UNCHANGED <<config, depth, response, issued, calls, wire, posts>>

Captured == config.captureResponseBody /\ response.status \in Answered /\ response.text

\* Mutant: the body is read without a limit.
FullWhenEnded(r) == r.left > RespLimit /\ r.ends # "never"

\* The reader finds one byte more than the limit.
Full(r) == r.left > RespLimit
Stalls(r) == r.state # "closed" /\ ~Full(r) /\ r.ends = "never"

\* The bytes that were read, limit + 1 at most, take the place of the body; if
\* there are none, or reading failed, the body is left closed.
AfterCapture(r) ==
    IF r.state # "closed" /\ r.left > 0 /\ (Full(r) \/ r.ends = "eof")
    THEN [r EXCEPT !.state = "restored", !.ends = "eof",
                   !.left = IF Full(r) THEN RespLimit + 1 ELSE @]
    ELSE [r EXCEPT !.state = "closed"]

\* Mutant: a call that failed is not recorded.
RecordAnswers ==
    /\ dir = "up" /\ frames[depth].rid # None /\ ~ToRetry
    /\ Captured => ~Stalls(response)
    /\ response' = IF Captured THEN AfterCapture(response) ELSE response
    /\ open' = IF Captured THEN open \ {response.attempt} ELSE open
    /\ posts' = IF response.status = "failed" THEN posts
                ELSE Append(posts, [rid |-> frames[depth].rid, status |-> response.status,
                                    retried |-> frames[depth].retried])
    /\ Return
    /\ UNCHANGED <<config, request, frames, issued, calls, wire>>

\* The call is recorded, as a network request and a hop, and returns. The
\* answer's body is captured before, if it is text: it is read up to the limit
\* and closed.
Record ==
    /\ dir = "up" /\ frames[depth].rid # None /\ ~ToRetry
    /\ Captured => ~Stalls(response)
    /\ response' = IF Captured THEN AfterCapture(response) ELSE response
    /\ open' = IF Captured THEN open \ {response.attempt} ELSE open
    /\ posts' = Append(posts, [rid |-> frames[depth].rid, status |-> response.status,
                               retried |-> frames[depth].retried])
    /\ Return
    /\ UNCHANGED <<config, request, frames, issued, calls, wire>>

-----------------------------------------------------------------------------

Base ==
    \E status \in Answered \cup {"failed"}, text \in BOOLEAN, size \in Sizes, ends \in Ends :
        Attempt(status, text, size, ends)

Sdk == PassOn \/ Trace \/ PassBack \/ Retry \/ Record

Next ==
    \/ Configure
    \/ \E kind \in Kinds, body \in GivenBodies, ctxOverride \in BOOLEAN :
          \E headers \in {NoHeaders, [NoHeaders EXCEPT !.override = "caller"],
                          request.headers} :
              Call(kind, body, ctxOverride, headers)
    \/ Base
    \/ Sdk

Spec == Init /\ [][Next]_vars

\* The calling goroutine runs, and the base transport answers or fails: it has
\* the deadlines of the caller's request. Nobody has to call.
FairSpec == Spec /\ WF_vars(Sdk) /\ WF_vars(Base)

-----------------------------------------------------------------------------
\* Properties.

Headers == [trace : Nat \cup {None}, override : {None, "caller", "context"}]

Requests == [kind : Kinds, given : GivenBodies, body : Bodies,
             ctxOverride : BOOLEAN, headers : Headers]
Frames == [rid : Nat \cup {None}, retried : BOOLEAN,
           saved : {"none", "whole", "empty", "nothing"}]
Responses == [status : Answered \cup {"none", "failed"}, attempt : Nat,
              text : BOOLEAN, size : Nat, left : Nat, ends : Ends,
              state : {"stream", "restored", "closed"}]
Attempts == [headers : Headers, status : Answered \cup {"failed"}, body : Bodies]
Posts == [rid : Nat, status : Answered \cup {"failed"}, retried : BOOLEAN]

TypeOK ==
    /\ config \in Configs \cup {None}
    /\ request \in Requests
    /\ dir \in {"idle", "down", "up"}
    /\ depth \in 0..Layers
    /\ frames \in [1..Layers -> Frames]
    /\ response \in Responses
    /\ issued \in Nat
    /\ calls \in Nat
    /\ wire \in Seq(Attempts)
    /\ posts \in Seq(Posts)
    /\ open \subseteq 1..Len(wire)

\* No answer is left open behind the caller's back: of all the answers to a
\* call only the one on its way up, or in the caller's hands, has an open body,
\* and it has one unless its bytes were captured (resp.Body.Close).
OneOpenAnswer ==
    /\ dir = "idle" => depth = 0
    /\ dir = "up" => depth > 0 /\ response.status # "none"
    /\ open = IF response.state = "stream" /\ dir # "down" THEN {response.attempt} ELSE {}

\* The layers that trace the call they are in. Once one of them does, all those
\* below it do; what the lowest repeats has no headers, and a rejection that has
\* come past it is the answer to such an attempt.
Tracing == {l \in 1..depth : frames[l].rid # None}
Settled == response.status = "rejected" => wire[Len(wire)].headers = NoHeaders

LayersTrace ==
    /\ Tracing # {} => config # None /\ request.kind = "traced"
    /\ \A l \in Tracing : \A k \in l..depth : k \in Tracing
    /\ posts # <<>> /\ (dir = "down" \/ depth = Layers) => Tracing # {}
    /\ depth = Layers /\ frames[Layers].retried =>
          IF dir = "down" THEN request.headers = NoHeaders ELSE Settled
    /\ dir # "down" /\ depth < Layers /\ (posts # <<>> \/ Tracing # {}) => Settled

\* On the way down the body is the caller's, or an empty one for one that could
\* not be read; what the layers hold is a copy of it.
BodyAtHand ==
    CASE request.given = "broken" -> IF Tracing = {} THEN {"broken"} ELSE {"empty", "spent"}
      [] OTHER -> {request.given}
CopyOf(given) == IF given = "broken" THEN {"nothing", "empty"} ELSE {given}

BodyIsReady ==
    /\ dir = "down" => request.body \in BodyAtHand
    /\ dir = "up" => request.body = IF request.given = "none" THEN "none" ELSE "spent"
    /\ \A l \in Tracing : frames[l].saved \in CopyOf(request.given)
    /\ dir = "down" /\ Tracing = {} => wire = <<>>
    /\ request.given # "broken" => \A k \in DOMAIN wire : wire[k].body = request.given
    /\ request.given = "broken" =>
          \/ \A k \in DOMAIN wire : wire[k].body = "empty"
          \/ Len(wire) = 1 /\ wire[1].body = "broken" /\ dir # "down" /\ Tracing = {}

\* Every id is given to one layer and recorded once.
IdsAreFresh ==
    /\ \A l \in Tracing : frames[l].rid <= issued
    /\ \A l, k \in Tracing : frames[l].rid = frames[k].rid => l = k
    /\ \A i \in DOMAIN posts :
          /\ posts[i].rid <= issued
          /\ \A l \in Tracing : posts[i].rid # frames[l].rid
    /\ \A i, j \in DOMAIN posts : posts[i].rid = posts[j].rid => i = j

\* The attempt that record p of attempt k tells the outcome of: the one that
\* carried the id, or the repeated one after it.
Outcome(k, p) == IF p.retried THEN k + 1 ELSE k

RecordedAs(k, p) ==
    /\ p.rid = wire[k].headers.trace
    /\ Outcome(k, p) \in DOMAIN wire
    /\ p.status = wire[Outcome(k, p)].status
\* The lowest layer has made attempt k, and not recorded it yet.
Pending(k) ==
    /\ depth = Layers /\ Layers \in Tracing
    /\ wire[k].headers.trace = frames[Layers].rid
    /\ dir = "up" => k = IF frames[Layers].retried THEN Len(wire) - 1 ELSE Len(wire)
    /\ dir = "down" => frames[Layers].retried /\ k = Len(wire)

\* Of the attempts of a call that is traced, those with an id are recorded.
AttemptsAreRecorded ==
    /\ dir = "up" /\ depth = Layers =>
          wire # <<>> /\ response.status = wire[Len(wire)].status
    /\ dir = "down" /\ depth = Layers /\ Layers \in Tracing /\ ~frames[Layers].retried =>
          request.headers.trace = frames[Layers].rid
    /\ Tracing # {} \/ posts # <<>> =>
          \A k \in DOMAIN wire : wire[k].headers.trace # None =>
              Pending(k) \/ \E i \in DOMAIN posts : RecordedAs(k, posts[i])

TransportInv ==
    TypeOK /\ OneOpenAnswer /\ LayersTrace /\ BodyIsReady /\ IdsAreFresh /\ AttemptsAreRecorded

\* The call has been recorded, so some layer has traced it.
Recorded == dir = "idle" /\ posts # <<>>

\* A caller that gets a 400 or a 403 got it for an attempt without tracing
\* headers: the headers are never the reason, however the layers repeat each
\* other's attempts, whether the request object was used before, and wherever
\* the override header came from.
RejectionIsUntraced ==
    Recorded /\ response.status = "rejected" => wire[Len(wire)].headers = NoHeaders

\* The server sees the caller's body on every attempt, although each attempt
\* uses it up; one that could not be read is sent as an empty one each time.
SameBodyOnEveryAttempt ==
    \A k \in DOMAIN wire :
        /\ wire[k].body = wire[1].body
        /\ \/ wire[k].body = request.given
           \/ request.given = "broken" /\ wire[k].body = "empty"

\* Every request id a server was told has exactly one network request that was
\* recorded under it, with the status of the attempt that decided, whether the
\* call failed or was answered: what the server records below it is not orphaned.
TracedAttemptsRecorded ==
    Recorded =>
        \A k \in DOMAIN wire : wire[k].headers.trace # None =>
            \E i \in DOMAIN posts :
                /\ RecordedAs(k, posts[i])
                /\ \A j \in DOMAIN posts : posts[j].rid = posts[i].rid => i = j

\* A call returns, after however many attempts, unless it is kept for ever by
\* an answer it captures whose body neither ends nor reaches the limit (a
\* stream of events): a long one does not keep it.
AnsweredCallReturns ==
    dir # "idle" ~>
        (dir = "idle" \/ [](response.ends = "never" /\ response.left <= RespLimit))

\* How much layer l has still to do for the call: nothing, to return what it is
\* given, to repeat the attempt, or all of it. The base transport is layer
\* Layers + 1.
Left(l) ==
    CASE dir = "idle" -> 0
      [] dir # "idle" /\ l > depth -> IF dir = "down" THEN 3 ELSE 0
      [] dir # "idle" /\ l <= depth ->
            IF frames[l].rid # None /\ ~frames[l].retried THEN 2 ELSE 1

\* Some layer has less to do, those around it as much as before.
LessIsLeft ==
    \E l \in 1..(Layers + 1) :
        /\ Left(l)' < Left(l)
        /\ \A k \in 1..(l - 1) : Left(k)' = Left(k)

\* Layers that repeat each other's rejected attempts do not do so for ever:
\* every step of a call leaves less to do, in the lexicographic order of the
\* layers, so that a call has at most 4 ^ (Layers + 1) steps.
AttemptsEnd == [][dir # "idle" => LessIsLeft \/ Configure]_vars

-----------------------------------------------------------------------------
\* What a comment says and the code does not do.

\* "Restore the body so the caller can still read it" (network_transport.go):
\* an answer that the server has sent to its end can be read to its end.
ResponseBodyRestored ==
    dir = "idle" /\ response.status \in Answered =>
        response.state # "closed" /\ (response.ends = "eof" => response.left = response.size)

=============================================================================
