------------------------ MODULE OutboundTransportProofs ------------------------
(***************************************************************************)
(* The tracing transport, proved for every number of nested layers, every  *)
(* limit and every number of calls.  TransportInv is the inductive         *)
(* invariant.                                                              *)
(***************************************************************************)
EXTENDS OutboundTransport, SequenceTheorems, TLAPS

USE LayersAssumption, SizesAssumption, MaxCallsAssumption, NoneAssumption

\* The initial state satisfies the inductive invariant.
LEMMA InitInv == Init => TransportInv
<1> SUFFICES ASSUME Init PROVE TransportInv
  OBVIOUS
<1> USE DEF Init
<1>0. /\ \A S : <<>> \in Seq(S)
      /\ Len(<<>>) = 0
  BY EmptySeq
<1>1. TypeOK
  BY <1>0 DEF TypeOK, Kinds, GivenBodies, Bodies, Headers, NoHeaders, NoFrame,
              NoResponse, Answered, Ends, Requests, Frames, Responses
<1>2. OneOpenAnswer
  BY DEF OneOpenAnswer, NoResponse
<1>3. Tracing = {}
  BY DEF Tracing
<1>4. LayersTrace
  BY <1>3 DEF LayersTrace, Settled, NoResponse
<1>5. BodyIsReady
  BY <1>0, <1>3 DEF BodyIsReady
<1>6. IdsAreFresh /\ AttemptsAreRecorded
  BY <1>0, <1>3 DEF IdsAreFresh, AttemptsAreRecorded
<1> QED BY <1>1, <1>2, <1>4, <1>5, <1>6 DEF TransportInv

-----------------------------------------------------------------------------
(* Types, and the one open answer.                                         *)

\* The call of the caller.
LEMMA CallTypes ==
    ASSUME TypeOK, OneOpenAnswer,
           NEW kind \in Kinds, NEW body \in GivenBodies, NEW ctxOverride \in BOOLEAN,
           NEW headers \in Headers, Call(kind, body, ctxOverride, headers)
    PROVE  TypeOK' /\ OneOpenAnswer'
<1> USE DEF Call
<1>0. <<>> \in Seq(Attempts)
      /\ <<>> \in Seq(Posts)
  BY EmptySeq
<1>1. NoResponse \in Responses
  BY DEF NoResponse, Responses, Ends
<1>2. TypeOK'
  BY <1>0, <1>1 DEF TypeOK, Requests, Bodies
<1>3. OneOpenAnswer'
  BY DEF OneOpenAnswer, NoResponse
<1> QED BY <1>2, <1>3

\* On the way down.
LEMMA DownTypes ==
    ASSUME TypeOK, OneOpenAnswer, PassOn \/ Trace
    PROVE  TypeOK' /\ OneOpenAnswer'
<1>1. CASE PassOn
  BY <1>1 DEF PassOn, TypeOK, OneOpenAnswer, Frames, NoFrame
<1>2. CASE Trace
  <2> USE <1>2 DEF Trace
  <2>1. /\ Saved(request.body) \in {"none", "whole", "empty", "nothing"}
        /\ Replaced(request.body) \in Bodies
    BY DEF TypeOK, Requests, Saved, Replaced, Bodies, GivenBodies
  <2> DEFINE told == [trace |-> issued + 1,
                      override |-> IF request.ctxOverride THEN "context"
                                   ELSE request.headers.override]
  <2>a. told \in Headers
    BY DEF TypeOK, Requests, Headers
  <2>b. request' = [request EXCEPT !.headers = told, !.body = Replaced(@)]
    OBVIOUS
  <2>2. request' \in Requests
    <3> HIDE DEF told
    <3> QED BY <2>1, <2>a, <2>b DEF TypeOK, Requests
  <2>3. frames' \in [1..Layers -> Frames]
    BY <2>1 DEF TypeOK, Frames
  <2>4. TypeOK'
    BY <2>2, <2>3 DEF TypeOK
  <2>5. OneOpenAnswer'
    BY DEF OneOpenAnswer
  <2> QED BY <2>4, <2>5
<1> QED BY <1>1, <1>2

\* An attempt of the base transport.
LEMMA AttemptTypes ==
    ASSUME TypeOK, OneOpenAnswer,
           NEW status \in Answered \cup {"failed"}, NEW text \in BOOLEAN,
           NEW size \in Sizes, NEW ends \in Ends,
           Attempt(status, text, size, ends)
    PROVE  TypeOK' /\ OneOpenAnswer'
<1> USE DEF Attempt
<1> DEFINE sent == [headers |-> request.headers, status |-> status,
                    body |-> IF request.body = "spent" THEN "empty" ELSE request.body]
<1>1. sent \in Attempts
  BY DEF TypeOK, Requests, Attempts, Bodies
<1>2. /\ wire' = Append(wire, sent)
      /\ wire' \in Seq(Attempts)
      /\ Len(wire') = Len(wire) + 1
      /\ Len(wire) \in Nat
  BY <1>1, AppendProperties, LenProperties DEF TypeOK
<1>3. request' \in Requests
  BY DEF TypeOK, Requests, Bodies
<1>4. response' \in Responses
  <2>1. CASE status = "failed"
    <3>1. response' = [NoResponse EXCEPT !.status = "failed"]
      BY <2>1
    <3>2. NoResponse \in Responses
      BY DEF NoResponse, Responses, Ends
    <3> QED BY <3>1, <3>2 DEF Responses
  <2>2. CASE status # "failed"
    <3>1. response' = [status |-> status, attempt |-> Len(wire) + 1, text |-> text,
                       size |-> size, left |-> size, ends |-> ends, state |-> "stream"]
      BY <2>2
    <3> QED BY <1>2, <2>2, <3>1 DEF Responses
  <2> QED BY <2>1, <2>2
<1>5. TypeOK'
  BY <1>2, <1>3, <1>4 DEF TypeOK
<1>6. OneOpenAnswer'
  <2>0. open = {} /\ depth > 0
    BY DEF OneOpenAnswer
  <2>1. CASE status = "failed"
    <3>1. response'.state = "closed" /\ response'.status = "failed" /\ open' = {}
      BY <2>0, <2>1 DEF NoResponse
    <3> QED BY <2>0, <3>1 DEF OneOpenAnswer
  <2>2. CASE status # "failed"
    <3>1. /\ response'.state = "stream" /\ response'.status = status
          /\ response'.attempt = Len(wire) + 1
          /\ open' = {Len(wire) + 1}
      BY <2>0, <2>2
    <3> QED BY <2>0, <3>1 DEF OneOpenAnswer, Answered
  <2> QED BY <2>1, <2>2
<1> QED BY <1>5, <1>6

\* What is captured leaves an answer without a stream, and the same status.
LEMMA AfterCaptureType ==
    ASSUME NEW r \in Responses
    PROVE  /\ AfterCapture(r) \in Responses
           /\ AfterCapture(r).state # "stream"
           /\ AfterCapture(r).status = r.status
<1>1. RespLimit + 1 \in Nat /\ "eof" \in Ends
  BY DEF Ends
<1> QED BY <1>1 DEF AfterCapture, Responses

\* On the way up.
LEMMA UpTypes ==
    ASSUME TypeOK, OneOpenAnswer, PassBack \/ Retry \/ Record
    PROVE  TypeOK' /\ OneOpenAnswer'
<1>0. depth \in 1..Layers
  BY DEF TypeOK, OneOpenAnswer, PassBack, Retry, Record
<1>1. CASE PassBack
  BY <1>0, <1>1 DEF PassBack, Return, TypeOK, OneOpenAnswer
<1>2. CASE Retry
  <2> USE <1>2 DEF Retry
  <2>a. NoHeaders \in Headers
    BY DEF Headers, NoHeaders
  <2>1. request' \in Requests
    BY <2>a DEF TypeOK, Requests, Bodies, GivenBodies
  <2>2. frames' \in [1..Layers -> Frames]
    BY <1>0 DEF TypeOK, Frames
  <2>3. TypeOK'
    BY <2>1, <2>2 DEF TypeOK
  <2>4. OneOpenAnswer'
    BY <1>0 DEF OneOpenAnswer
  <2> QED BY <2>3, <2>4
<1>3. CASE Record
  <2> USE <1>3 DEF Record, Return
  <2> DEFINE post == [rid |-> frames[depth].rid, status |-> response.status,
                      retried |-> frames[depth].retried]
  <2>1. post \in Posts
    BY <1>0 DEF TypeOK, OneOpenAnswer, Frames, Responses, Posts
  <2>2. posts' \in Seq(Posts)
    <3> HIDE DEF post
    <3>1. posts' = Append(posts, post)
      BY DEF post
    <3> QED BY <2>1, <3>1, AppendProperties DEF TypeOK
  <2>3. /\ AfterCapture(response) \in Responses
        /\ AfterCapture(response).state # "stream"
        /\ AfterCapture(response).status = response.status
    BY AfterCaptureType DEF TypeOK
  <2>a. response' \in {response, AfterCapture(response)}
    OBVIOUS
  <2>b. depth' \in 0..Layers /\ dir' \in {"idle", "up"} /\ (dir' = "idle" <=> depth' = 0)
    BY <1>0
  <2>4. TypeOK'
    <3>1. response' \in Responses
      BY <2>3, <2>a DEF TypeOK
    <3>2. open' \subseteq 1..Len(wire)
      BY DEF TypeOK
    <3> QED BY <2>2, <2>b, <3>1, <3>2 DEF TypeOK
  <2>5. OneOpenAnswer'
    <3>1. CASE Captured
      BY <2>3, <2>b, <3>1 DEF OneOpenAnswer, TypeOK
    <3>2. CASE ~Captured
      BY <2>b, <3>2 DEF OneOpenAnswer, TypeOK
    <3> QED BY <3>1, <3>2
  <2> QED BY <2>4, <2>5
<1> QED BY <1>1, <1>2, <1>3

\* What a layer records is the last of the records.
LEMMA RecordPosts ==
    ASSUME TypeOK, Record
    PROVE  /\ DOMAIN posts = 1..Len(posts) /\ Len(posts) \in Nat
           /\ DOMAIN posts' = 1..(Len(posts) + 1)
           /\ DOMAIN posts' = DOMAIN posts \cup {Len(posts) + 1}
           /\ \A i \in DOMAIN posts : posts'[i] = posts[i]
           /\ posts'[Len(posts) + 1] =
                 [rid |-> frames[depth].rid, status |-> response.status,
                  retried |-> frames[depth].retried]
<1> DEFINE post == [rid |-> frames[depth].rid, status |-> response.status,
                    retried |-> frames[depth].retried]
<1>1. posts' = Append(posts, post)
  BY DEF Record
<1> HIDE DEF post
<1>2. DOMAIN posts = 1..Len(posts) /\ Len(posts) \in Nat
  BY LenProperties DEF TypeOK
<1>3. /\ DOMAIN posts' = 1..(Len(posts) + 1)
      /\ \A i \in 1..Len(posts) : posts'[i] = posts[i]
      /\ posts'[Len(posts) + 1] = post
  BY <1>1, AppendProperties DEF TypeOK
<1> QED BY <1>2, <1>3 DEF post

-----------------------------------------------------------------------------
(* What the layers have traced, and the headers of the last attempt.       *)

\* What the steps of the layers and of the base transport do to the layers
\* that trace the call.
LEMMA TracingSteps ==
    ASSUME TypeOK, OneOpenAnswer
    PROVE  /\ Tracing \subseteq 1..depth
           /\ PassOn => Tracing' = Tracing
           /\ Trace => Tracing' = Tracing \cup {depth + 1}
           /\ PassBack => Tracing' = Tracing /\ depth \notin Tracing
           /\ Retry => Tracing' = Tracing /\ depth \in Tracing
           /\ Record => Tracing' = Tracing \ {depth} /\ depth \in Tracing
<1>1. Tracing \subseteq 1..depth
  BY DEF Tracing
<1>2. ASSUME PassOn PROVE Tracing' = Tracing
  BY <1>2 DEF PassOn, TypeOK, Tracing, NoFrame
<1>3. ASSUME Trace PROVE Tracing' = Tracing \cup {depth + 1}
  BY <1>3 DEF Trace, TypeOK, Tracing
<1>4. ASSUME PassBack PROVE Tracing' = Tracing /\ depth \notin Tracing
  BY <1>4 DEF PassBack, Return, TypeOK, OneOpenAnswer, Tracing
<1>5. ASSUME Retry PROVE Tracing' = Tracing /\ depth \in Tracing
  BY <1>5 DEF Retry, TypeOK, OneOpenAnswer, Tracing, Frames
<1>6. ASSUME Record PROVE Tracing' = Tracing \ {depth} /\ depth \in Tracing
  BY <1>6 DEF Record, Return, TypeOK, OneOpenAnswer, Tracing
<1> QED BY <1>1, <1>2, <1>3, <1>4, <1>5, <1>6

\* LayersTrace is preserved.
LEMMA LayersTraceStep ==
    ASSUME TypeOK, OneOpenAnswer, LayersTrace, [Next]_vars
    PROVE  LayersTrace'
<1> USE DEF LayersTrace
<1>1. CASE UNCHANGED vars
  BY <1>1 DEF vars, Tracing, Settled
<1>2. CASE Configure
  BY <1>2 DEF Configure, Tracing, Settled, Configs
<1>3. ASSUME NEW kind, NEW body, NEW ctxOverride, NEW headers,
             Call(kind, body, ctxOverride, headers)
      PROVE  LayersTrace'
  <2>1. depth = 0 /\ depth' = 0 /\ posts' = <<>> /\ dir' = "down" /\ Layers # 0
    BY <1>3 DEF Call, OneOpenAnswer
  <2>2. Tracing' = {}
    BY <2>1 DEF Tracing
  <2> QED BY <2>1, <2>2
<1>4. CASE PassOn
  <2>0. Tracing' = Tracing /\ Tracing \subseteq 1..depth
    BY <1>4, TracingSteps
  <2>1. Tracing = {}
    BY <1>4 DEF PassOn
  <2>2. /\ dir' = "down" /\ posts = <<>> /\ posts' = posts
        /\ ~frames'[depth'].retried
    BY <1>4, <2>1 DEF PassOn, TypeOK, NoFrame
  <2> QED BY <2>0, <2>1, <2>2
<1>5. CASE Trace
  <2>0. Tracing' = Tracing \cup {depth + 1} /\ Tracing \subseteq 1..depth
    BY <1>5, TracingSteps
  <2>1. /\ config' # None /\ request'.kind = "traced"
        /\ depth \in Nat /\ depth' = depth + 1 /\ dir' = "down"
        /\ ~frames'[depth'].retried
    BY <1>5 DEF Trace, TypeOK, Requests
  <2>2. \A l \in Tracing' : \A k \in l..depth' : k \in Tracing'
    BY <2>0, <2>1
  <2> QED BY <2>0, <2>1, <2>2
<1>6. ASSUME NEW status, NEW text, NEW size, NEW ends, Attempt(status, text, size, ends)
      PROVE  LayersTrace'
  <2>1. /\ depth' = depth /\ depth = Layers /\ dir = "down" /\ dir' = "up"
        /\ UNCHANGED <<config, frames, posts>>
        /\ request'.kind = request.kind
        /\ Tracing' = Tracing
    BY <1>6 DEF Attempt, Tracing, TypeOK, Requests
  <2>2. wire'[Len(wire')].headers = request.headers
    BY <1>6, AppendProperties DEF Attempt, TypeOK, Requests, Attempts
  <2>3. frames[Layers].retried => Settled'
    BY <2>1, <2>2 DEF Settled
  <2> QED BY <2>1, <2>3
<1>7. CASE PassBack
  <2>0. Tracing' = Tracing /\ depth \notin Tracing /\ Tracing \subseteq 1..depth
    BY <1>7, TracingSteps
  <2>1. /\ depth \in 1..Layers /\ depth' = depth - 1 /\ dir' # "down"
        /\ UNCHANGED <<config, request, frames, posts, wire, response>>
    BY <1>7 DEF PassBack, Return, TypeOK, OneOpenAnswer
  <2>2. \A l \in Tracing' : \A k \in l..depth' : k \in Tracing'
    BY <2>0, <2>1
  <2>3. posts # <<>> \/ Tracing # {} => Settled
    <3>1. CASE depth = Layers
      <4>1. Tracing = {}
        BY <2>0, <2>1
      <4> QED BY <3>1, <4>1
    <3>2. CASE depth # Layers
      BY <1>7, <2>1, <3>2 DEF PassBack
    <3> QED BY <3>1, <3>2
  <2> QED BY <2>0, <2>1, <2>2, <2>3 DEF Settled
<1>8. CASE Retry
  <2>0. Tracing' = Tracing /\ depth \in Tracing
    BY <1>8, TracingSteps
  <2>1. /\ depth' = depth /\ dir' = "down" /\ UNCHANGED <<config, posts>>
        /\ request'.kind = request.kind /\ request'.headers = NoHeaders
    BY <1>8 DEF Retry, TypeOK, Requests
  <2> QED BY <2>0, <2>1
<1>9. CASE Record
  <2>0. Tracing' = Tracing \ {depth} /\ depth \in Tracing /\ Tracing \subseteq 1..depth
    BY <1>9, TracingSteps
  <2>1. /\ depth \in 1..Layers /\ depth' = depth - 1 /\ dir' # "down" /\ dir = "up"
        /\ UNCHANGED <<config, request, frames, wire>>
        /\ ~ToRetry /\ response'.status = response.status
    BY <1>9, AfterCaptureType DEF Record, Return, TypeOK, OneOpenAnswer
  <2>2. \A l \in Tracing' : \A k \in l..depth' : k \in Tracing'
    <3> TAKE l \in Tracing'
    <3> TAKE k \in l..depth'
    <3>1. l \in Tracing /\ k \in l..depth /\ k # depth
      BY <2>0, <2>1
    <3> QED BY <2>0, <3>1
  <2>3. Settled
    BY <2>0, <2>1 DEF Settled, ToRetry
  <2> QED BY <2>0, <2>1, <2>2, <2>3 DEF Settled
<1> QED BY <1>1, <1>2, <1>3, <1>4, <1>5, <1>6, <1>7, <1>8, <1>9 DEF Next, Base, Sdk

-----------------------------------------------------------------------------
(* The body.                                                               *)

\* BodyIsReady is preserved.
LEMMA BodyIsReadyStep ==
    ASSUME TypeOK, OneOpenAnswer, LayersTrace, BodyIsReady, [Next]_vars
    PROVE  BodyIsReady'
<1> USE DEF BodyIsReady
<1>1. CASE UNCHANGED vars
  BY <1>1 DEF vars, Tracing, BodyAtHand
<1>2. CASE Configure
  BY <1>2 DEF Configure, Tracing, BodyAtHand
<1>3. ASSUME NEW kind \in Kinds, NEW body \in GivenBodies, NEW ctxOverride, NEW headers,
             Call(kind, body, ctxOverride, headers)
      PROVE  BodyIsReady'
  <2>1. /\ depth = 0 /\ depth' = 0 /\ wire' = <<>> /\ dir' = "down"
        /\ request'.given = body /\ request'.body = body
    BY <1>3 DEF Call, OneOpenAnswer
  <2>2. Tracing' = {}
    BY <2>1 DEF Tracing
  <2> QED BY <2>1, <2>2, EmptySeq DEF BodyAtHand
<1>4. CASE PassOn
  <2>0. Tracing' = Tracing /\ Tracing \subseteq 1..depth
    BY <1>4, TracingSteps
  <2>1. Tracing = {}
    BY <1>4 DEF PassOn, LayersTrace
  <2> QED BY <1>4, <2>0, <2>1 DEF PassOn, BodyAtHand
<1>5. CASE Trace
  <2>0. Tracing' = Tracing \cup {depth + 1} /\ Tracing \subseteq 1..depth
    BY <1>5, TracingSteps
  <2>1. /\ depth \in 0..(Layers - 1) /\ dir = "down" /\ UNCHANGED <<dir, wire>>
        /\ request.given \in GivenBodies /\ request'.given = request.given
        /\ request'.body = Replaced(request.body)
        /\ frames'[depth + 1].saved = Saved(request.body)
        /\ \A l \in Tracing : frames'[l] = frames[l]
    BY <1>5, <2>0 DEF Trace, TypeOK, Requests
  <2>2. /\ request'.body \in BodyAtHand'
        /\ frames'[depth + 1].saved \in CopyOf(request.given)
    BY <2>0, <2>1 DEF BodyAtHand, CopyOf, Saved, Replaced, GivenBodies
  <2>3. \A l \in Tracing' : frames'[l].saved \in CopyOf(request'.given)
    BY <2>0, <2>1, <2>2
  <2>4. \/ \A k \in DOMAIN wire : wire[k].body = "empty"
        \/ request.given # "broken"
    BY <2>1
  <2> QED BY <2>0, <2>1, <2>2, <2>3, <2>4
<1>6. ASSUME NEW status, NEW text, NEW size, NEW ends, Attempt(status, text, size, ends)
      PROVE  BodyIsReady'
  <2>1. /\ dir = "down" /\ dir' = "up"
        /\ request.given \in GivenBodies /\ request'.given = request.given
        /\ request.body \in BodyAtHand
        /\ request'.body = IF request.given = "none" THEN "none" ELSE "spent"
        /\ Tracing' = Tracing /\ frames' = frames
    BY <1>6 DEF Attempt, TypeOK, Requests, Tracing, BodyAtHand, GivenBodies
  <2> DEFINE sent == [headers |-> request.headers, status |-> status,
                      body |-> IF request.body = "spent" THEN "empty" ELSE request.body]
  <2>2. /\ wire' = Append(wire, sent) /\ Len(wire) \in Nat
        /\ DOMAIN wire = 1..Len(wire)
        /\ DOMAIN wire' = 1..(Len(wire) + 1) /\ Len(wire') = Len(wire) + 1
        /\ \A k \in DOMAIN wire : wire'[k] = wire[k]
        /\ wire'[Len(wire) + 1].body = sent.body
    BY <1>6, AppendProperties, LenProperties DEF Attempt, TypeOK
  <2>3. CASE request.given # "broken"
    <3>1. sent.body = request.given
      BY <2>1, <2>3 DEF BodyAtHand, GivenBodies
    <3> HIDE DEF sent
    <3>2. \A k \in DOMAIN wire' : wire'[k].body = request.given
      BY <2>1, <2>2, <2>3, <3>1
    <3> QED BY <2>1, <2>3, <3>2
  <2>4. CASE request.given = "broken" /\ Tracing = {}
    <3>1. sent.body = "broken" /\ wire = <<>>
      BY <2>1, <2>4 DEF BodyAtHand
    <3> HIDE DEF sent
    <3>2. Len(wire') = 1 /\ wire'[1].body = "broken"
      BY <2>2, <3>1, EmptySeq
    <3> QED BY <2>1, <2>4, <3>2
  <2>5. CASE request.given = "broken" /\ Tracing # {}
    <3>1. sent.body = "empty"
      BY <2>1, <2>5 DEF BodyAtHand
    <3> HIDE DEF sent
    <3>2. \A k \in DOMAIN wire' : wire'[k].body = "empty"
      BY <2>1, <2>2, <2>5, <3>1
    <3> QED BY <2>1, <2>5, <3>2
  <2> QED BY <2>3, <2>4, <2>5
<1>7. CASE PassBack
  <2>0. Tracing' = Tracing
    BY <1>7, TracingSteps
  <2>1. /\ dir' # "down" /\ dir = "up" /\ UNCHANGED <<request, frames, wire>>
    BY <1>7 DEF PassBack, Return
  <2> QED BY <2>0, <2>1
<1>8. CASE Retry
  <2>0. Tracing' = Tracing /\ depth \in Tracing
    BY <1>8, TracingSteps
  <2>1. /\ dir = "up" /\ dir' = "down" /\ UNCHANGED wire
        /\ request.given \in GivenBodies /\ request'.given = request.given
        /\ request'.body = IF frames[depth].saved \in {"whole", "empty"}
                           THEN frames[depth].saved ELSE request.body
        /\ \A l \in Tracing : frames'[l].saved = frames[l].saved
    BY <1>8 DEF Retry, TypeOK, Requests, Frames, Tracing
  <2>2. frames[depth].saved \in CopyOf(request.given)
    BY <2>0
  <2>3. request'.body \in BodyAtHand'
    BY <2>0, <2>1, <2>2 DEF BodyAtHand, CopyOf, GivenBodies
  <2> QED BY <2>0, <2>1, <2>3
<1>9. CASE Record
  <2>0. Tracing' = Tracing \ {depth} /\ depth \in Tracing
    BY <1>9, TracingSteps
  <2>1. dir' # "down" /\ dir = "up" /\ UNCHANGED <<request, frames, wire>>
    BY <1>9 DEF Record, Return
  <2> QED BY <2>0, <2>1
<1> QED BY <1>1, <1>2, <1>3, <1>4, <1>5, <1>6, <1>7, <1>8, <1>9 DEF Next, Base, Sdk

-----------------------------------------------------------------------------
(* The records.                                                            *)

\* IdsAreFresh is preserved.
LEMMA IdsAreFreshStep ==
    ASSUME TypeOK, OneOpenAnswer, IdsAreFresh, [Next]_vars
    PROVE  IdsAreFresh'
<1> USE DEF IdsAreFresh
<1>0. \A l \in Tracing : l \in 1..Layers /\ frames[l].rid \in Nat
  BY DEF Tracing, TypeOK, Frames
<1>1. CASE UNCHANGED vars
  BY <1>1 DEF vars, Tracing
<1>2. CASE Configure
  BY <1>2 DEF Configure, Tracing
<1>3. ASSUME NEW kind, NEW body, NEW ctxOverride, NEW headers,
             Call(kind, body, ctxOverride, headers)
      PROVE  IdsAreFresh'
  <2>1. depth = 0 /\ depth' = 0 /\ posts' = <<>>
    BY <1>3 DEF Call, OneOpenAnswer
  <2>2. Tracing' = {}
    BY <2>1 DEF Tracing
  <2> QED BY <2>1, <2>2
<1>4. CASE PassOn
  <2>1. Tracing' = Tracing /\ Tracing \subseteq 1..depth
    BY <1>4, TracingSteps
  <2>2. (\A l \in Tracing : frames'[l] = frames[l]) /\ UNCHANGED <<issued, posts>>
    BY <1>4, <2>1 DEF PassOn, TypeOK
  <2> QED BY <2>1, <2>2
<1>5. CASE Trace
  <2>1. /\ Tracing' = Tracing \cup {depth + 1}
        /\ Tracing \subseteq 1..depth /\ depth \in Nat
    BY <1>5, TracingSteps DEF TypeOK
  <2>2. /\ \A l \in Tracing : frames'[l] = frames[l]
        /\ frames'[depth + 1].rid = issued + 1 /\ issued' = issued + 1
        /\ issued \in Nat /\ posts' = posts
    BY <1>5, <2>1 DEF Trace, TypeOK
  <2>3. \A i \in DOMAIN posts : posts[i].rid \in Nat
    <3> TAKE i \in DOMAIN posts
    <3>1. posts \in Seq(Posts) /\ i \in 1..Len(posts)
      BY LenProperties DEF TypeOK
    <3>2. posts[i] \in Posts
      BY <3>1, ElementOfSeq
    <3> QED BY <3>2 DEF Posts
  <2> QED BY <1>0, <2>1, <2>2, <2>3
<1>6. ASSUME NEW status, NEW text, NEW size, NEW ends, Attempt(status, text, size, ends)
      PROVE  IdsAreFresh'
  BY <1>6 DEF Attempt, Tracing
<1>7. CASE PassBack
  BY <1>7, TracingSteps DEF PassBack, Return
<1>8. CASE Retry
  <2>1. /\ Tracing' = Tracing /\ UNCHANGED <<issued, posts>>
        /\ \A l \in Tracing : frames'[l].rid = frames[l].rid
    BY <1>0, <1>8, TracingSteps DEF Retry, TypeOK, Frames
  <2> QED BY <2>1
<1>9. CASE Record
  <2>1. Tracing' = Tracing \ {depth} /\ depth \in Tracing /\ UNCHANGED <<issued, frames>>
    BY <1>9, TracingSteps DEF Record
  <2>2. /\ DOMAIN posts = 1..Len(posts) /\ Len(posts) \in Nat
        /\ DOMAIN posts' = 1..(Len(posts) + 1)
        /\ \A i \in DOMAIN posts : posts'[i] = posts[i]
        /\ posts'[Len(posts) + 1].rid = frames[depth].rid
    BY <1>9, RecordPosts
  <2>3. \A i \in DOMAIN posts' : i \in DOMAIN posts \/ i = Len(posts) + 1
    BY <2>2
  <2> QED BY <2>1, <2>2, <2>3
<1> QED BY <1>1, <1>2, <1>3, <1>4, <1>5, <1>6, <1>7, <1>8, <1>9 DEF Next, Base, Sdk

\* AttemptsAreRecorded is preserved.
LEMMA AttemptsAreRecordedStep ==
    ASSUME TypeOK, OneOpenAnswer, LayersTrace, BodyIsReady, AttemptsAreRecorded, [Next]_vars
    PROVE  AttemptsAreRecorded'
<1> USE DEF AttemptsAreRecorded
<1>0. DOMAIN wire = 1..Len(wire) /\ Len(wire) \in Nat
  BY LenProperties DEF TypeOK
<1>1. CASE UNCHANGED vars
  BY <1>1 DEF vars, Tracing, Pending, RecordedAs, Outcome
<1>2. CASE Configure
  BY <1>2 DEF Configure, Tracing, Pending, RecordedAs, Outcome
<1>3. ASSUME NEW kind, NEW body, NEW ctxOverride, NEW headers,
             Call(kind, body, ctxOverride, headers)
      PROVE  AttemptsAreRecorded'
  BY <1>3 DEF Call, OneOpenAnswer
<1>4. CASE PassOn
  <2>1. Tracing' = Tracing /\ Tracing \subseteq 1..depth
    BY <1>4, TracingSteps
  <2>2. /\ depth < Layers /\ depth' = depth + 1 /\ depth \in Nat /\ dir' = "down"
        /\ UNCHANGED <<wire, posts>>
    BY <1>4 DEF PassOn, TypeOK
  <2>3. depth' \notin Tracing'
    BY <2>1, <2>2
  <2>4. \A k \in DOMAIN wire : ~Pending(k)
    BY <2>2 DEF Pending
  <2> QED BY <2>1, <2>2, <2>3, <2>4 DEF RecordedAs, Outcome
<1>5. CASE Trace
  <2>1. Tracing' = Tracing \cup {depth + 1} /\ Tracing \subseteq 1..depth
    BY <1>5, TracingSteps
  <2>2. /\ depth < Layers /\ depth' = depth + 1 /\ depth \in Nat
        /\ dir = "down" /\ dir' = "down"
        /\ UNCHANGED <<wire, posts>>
        /\ request'.headers.trace = issued + 1 /\ frames'[depth'].rid = issued + 1
    BY <1>5 DEF Trace, TypeOK, Requests
  <2>3. \A k \in DOMAIN wire : ~Pending(k)
    BY <2>2 DEF Pending
  <2>4. Tracing # {} \/ posts # <<>> \/ wire = <<>>
    BY <2>2 DEF BodyIsReady
  <2> QED BY <2>1, <2>2, <2>3, <2>4 DEF RecordedAs, Outcome
<1>6. ASSUME NEW status, NEW text, NEW size, NEW ends, Attempt(status, text, size, ends)
      PROVE  AttemptsAreRecorded'
  <2>1. /\ depth = Layers /\ depth' = Layers /\ dir = "down" /\ dir' = "up"
        /\ UNCHANGED <<frames, posts>> /\ Tracing' = Tracing
    BY <1>6 DEF Attempt, Tracing
  <2> DEFINE sent == [headers |-> request.headers, status |-> status,
                      body |-> IF request.body = "spent" THEN "empty" ELSE request.body]
  <2>2. /\ DOMAIN wire' = 1..(Len(wire) + 1) /\ Len(wire') = Len(wire) + 1
        /\ \A k \in DOMAIN wire : wire'[k] = wire[k]
        /\ wire'[Len(wire) + 1] = sent
    BY <1>6, AppendProperties, LenProperties DEF Attempt, TypeOK
  <2>3. response'.status = status
    BY <1>6 DEF Attempt, NoResponse
  <2>4. wire' # <<>> /\ response'.status = wire'[Len(wire')].status
    BY <1>0, <2>2, <2>3
  <2>5. ASSUME Tracing # {} \/ posts # <<>>, NEW k \in DOMAIN wire',
               wire'[k].headers.trace # None
        PROVE  (Pending(k) \/ \E i \in DOMAIN posts : RecordedAs(k, posts[i]))'
    <3>1. Layers \in Tracing
      <4>1. PICK l \in Tracing : TRUE
        BY <2>1, <2>5 DEF LayersTrace
      <4>2. Layers \in l..depth
        BY <2>1, <4>1 DEF Tracing
      <4> QED BY <4>2 DEF LayersTrace
    <3>2. CASE k = Len(wire) + 1
      <4>1. request.headers.trace # None
        BY <2>2, <2>5, <3>2
      <4>2. ~frames[Layers].retried
        BY <2>1, <4>1 DEF LayersTrace, NoHeaders
      <4>3. request.headers.trace = frames[Layers].rid
        BY <2>1, <3>1, <4>2
      <4> QED BY <1>0, <2>1, <2>2, <3>1, <3>2, <4>2, <4>3 DEF Pending
    <3>3. CASE k # Len(wire) + 1
      <4>1. k \in DOMAIN wire /\ wire'[k] = wire[k]
        BY <1>0, <2>2, <3>3
      <4>2. CASE Pending(k)
        BY <1>0, <2>1, <2>2, <3>1, <4>1, <4>2 DEF Pending
      <4>3. CASE ~Pending(k)
        <5>1. PICK i \in DOMAIN posts : RecordedAs(k, posts[i])
          BY <2>5, <4>1, <4>3
        <5>2. RecordedAs(k, posts[i])'
          BY <1>0, <2>1, <2>2, <4>1, <5>1 DEF RecordedAs, Outcome
        <5> QED BY <2>1, <5>2
      <4> QED BY <4>2, <4>3
    <3> QED BY <3>2, <3>3
  <2> QED BY <2>1, <2>4, <2>5
<1>7. CASE PassBack
  <2>1. Tracing' = Tracing /\ depth \notin Tracing /\ Tracing \subseteq 1..depth
    BY <1>7, TracingSteps
  <2>2. /\ depth \in 1..Layers /\ depth' = depth - 1 /\ dir' # "down"
        /\ UNCHANGED <<wire, posts>>
    BY <1>7 DEF PassBack, Return, TypeOK, OneOpenAnswer
  <2>3. \A k \in DOMAIN wire : ~Pending(k)
    BY <2>1, <2>2 DEF Pending
  <2> QED BY <2>1, <2>2, <2>3 DEF RecordedAs, Outcome
<1>8. CASE Retry
  <2>1. /\ Tracing' = Tracing /\ depth \in Tracing
        /\ depth' = depth /\ dir = "up" /\ dir' = "down" /\ ~frames[depth].retried
        /\ UNCHANGED <<wire, posts>>
    BY <1>8, TracingSteps DEF Retry, ToRetry
  <2>2. frames'[depth].retried /\ frames'[depth].rid = frames[depth].rid
    BY <1>8, <2>1 DEF Retry, TypeOK, OneOpenAnswer, Frames
  <2>3. \A k \in DOMAIN wire : Pending(k) => Pending(k)'
    BY <2>1, <2>2 DEF Pending
  <2> QED BY <2>1, <2>2, <2>3 DEF RecordedAs, Outcome
<1>9. CASE Record
  <2>1. /\ Tracing' = Tracing \ {depth} /\ depth \in Tracing
        /\ depth \in 1..Layers /\ depth' = depth - 1 /\ dir = "up" /\ dir' # "down"
        /\ UNCHANGED <<wire, frames>>
    BY <1>9, TracingSteps DEF Record, Return, TypeOK, OneOpenAnswer
  <2>2. /\ DOMAIN posts' = DOMAIN posts \cup {Len(posts) + 1}
        /\ \A i \in DOMAIN posts : posts'[i] = posts[i]
        /\ posts'[Len(posts) + 1] = [rid |-> frames[depth].rid, status |-> response.status,
                                     retried |-> frames[depth].retried]
    BY <1>9, RecordPosts
  <2>3. ASSUME NEW k \in DOMAIN wire, wire[k].headers.trace # None
        PROVE  (\E i \in DOMAIN posts : RecordedAs(k, posts[i]))'
    <3>1. CASE Pending(k)
      <4>1. depth = Layers /\ response.status = wire[Len(wire)].status
        BY <2>1, <3>1 DEF Pending
      <4> DEFINE n == Len(posts) + 1
      <4>2. /\ n \in DOMAIN posts'
            /\ posts'[n].rid = wire[k].headers.trace
            /\ posts'[n].status = response.status
            /\ posts'[n].retried = frames[Layers].retried
        BY <2>2, <3>1, <4>1 DEF Pending
      <4>3. Outcome(k, posts'[n]) = Len(wire)
        BY <1>0, <2>1, <3>1, <4>2 DEF Outcome, Pending
      <4>4. k \in 1..Len(wire)
        BY <1>0
      <4>5. Len(wire) \in DOMAIN wire
        BY <1>0, <4>4
      <4> QED BY <2>1, <4>1, <4>2, <4>3, <4>5 DEF RecordedAs, Outcome
    <3>2. CASE ~Pending(k)
      <4>1. PICK i \in DOMAIN posts : RecordedAs(k, posts[i])
        BY <2>1, <2>3, <3>2
      <4>2. RecordedAs(k, posts[i])'
        BY <2>1, <2>2, <4>1 DEF RecordedAs, Outcome
      <4> QED BY <2>2, <4>2
    <3> QED BY <3>1, <3>2
  <2> QED BY <2>1, <2>3
<1> QED BY <1>1, <1>2, <1>3, <1>4, <1>5, <1>6, <1>7, <1>8, <1>9 DEF Next, Base, Sdk

-----------------------------------------------------------------------------
(* The theorems.                                                           *)

\* TypeOK and OneOpenAnswer are preserved.
LEMMA TypeStep ==
    ASSUME TypeOK, OneOpenAnswer, [Next]_vars
    PROVE  TypeOK' /\ OneOpenAnswer'
<1>1. CASE UNCHANGED vars
  BY <1>1 DEF vars, TypeOK, OneOpenAnswer
<1>2. CASE Configure
  BY <1>2 DEF Configure, TypeOK, OneOpenAnswer
<1>3. ASSUME NEW kind \in Kinds, NEW body \in GivenBodies, NEW ctxOverride \in BOOLEAN,
             NEW headers \in {NoHeaders, [NoHeaders EXCEPT !.override = "caller"],
                              request.headers},
             Call(kind, body, ctxOverride, headers)
      PROVE  TypeOK' /\ OneOpenAnswer'
  <2>1. headers \in Headers
    BY DEF NoHeaders, Headers, TypeOK, Requests
  <2> QED BY <1>3, <2>1, CallTypes
<1>4. CASE PassOn \/ Trace
  BY <1>4, DownTypes
<1>5. CASE Base
  BY <1>5, AttemptTypes DEF Base
<1>6. CASE PassBack \/ Retry \/ Record
  BY <1>6, UpTypes
<1> QED BY <1>1, <1>2, <1>3, <1>4, <1>5, <1>6 DEF Next, Sdk

\* The inductive invariant holds, whatever the number of layers and calls: of
\* all answers to a call at most one has an open body, the one returned.
THEOREM InvariantHolds == Spec => []TransportInv
<1>1. TransportInv /\ [Next]_vars => TransportInv'
  BY TypeStep, LayersTraceStep, BodyIsReadyStep, IdsAreFreshStep, AttemptsAreRecordedStep
     DEF TransportInv
<1> QED BY <1>1, InitInv, PTL DEF Spec

\* The caller is never given a rejection of the tracing headers.
THEOREM RejectionsAreUntraced == Spec => []RejectionIsUntraced
<1>1. TransportInv => RejectionIsUntraced
  BY DEF TransportInv, OneOpenAnswer, LayersTrace, Settled, RejectionIsUntraced, Recorded
<1> QED BY <1>1, InvariantHolds, PTL

\* Every attempt carries the body the caller gave, or an empty one each time.
THEOREM BodiesAreRepeated == Spec => []SameBodyOnEveryAttempt
<1>1. TransportInv => SameBodyOnEveryAttempt
  <2> SUFFICES ASSUME TypeOK, BodyIsReady PROVE SameBodyOnEveryAttempt
    BY DEF TransportInv
  <2>1. DOMAIN wire = 1..Len(wire) /\ Len(wire) \in Nat
    BY LenProperties DEF TypeOK
  <2>2. \A k \in DOMAIN wire : 1 \in DOMAIN wire
    BY <2>1
  <2> QED BY <2>1, <2>2 DEF BodyIsReady, SameBodyOnEveryAttempt
<1> QED BY <1>1, InvariantHolds, PTL

\* Every id a server was told is recorded exactly once, with the status of the
\* attempt that decided, however many layers traced the call and repeated it.
THEOREM AttemptsAreAccountedFor == Spec => []TracedAttemptsRecorded
<1>1. TransportInv => TracedAttemptsRecorded
  <2> SUFFICES ASSUME TransportInv, Recorded, NEW k \in DOMAIN wire,
                      wire[k].headers.trace # None
               PROVE  \E i \in DOMAIN posts :
                        /\ RecordedAs(k, posts[i])
                        /\ \A j \in DOMAIN posts : posts[j].rid = posts[i].rid => i = j
    BY DEF TracedAttemptsRecorded
  <2>1. ~Pending(k)
    BY DEF TransportInv, OneOpenAnswer, Recorded, Pending
  <2>2. PICK i \in DOMAIN posts : RecordedAs(k, posts[i])
    BY <2>1 DEF TransportInv, AttemptsAreRecorded, Recorded
  <2> QED BY <2>2 DEF TransportInv, IdsAreFresh
<1> QED BY <1>1, InvariantHolds, PTL

-----------------------------------------------------------------------------
(* The end of the repeated attempts.                                       *)

\* How much is left takes four values.
LEMMA LeftType ==
    ASSUME TypeOK, NEW l \in 1..(Layers + 1)
    PROVE  Left(l) \in 0..3
BY DEF TypeOK, Left

\* However many layers repeat an attempt, the call makes progress.
THEOREM RepetitionEnds == Spec => AttemptsEnd
<1> DEFINE Progress == dir # "idle" => LessIsLeft \/ Configure
<1>1. TransportInv /\ [Next]_vars => [Progress]_vars
  <2> SUFFICES ASSUME TypeOK, OneOpenAnswer, Next, dir # "idle", ~Configure
               PROVE  LessIsLeft
    BY DEF TransportInv
  <2>0. /\ depth \in 0..Layers /\ Layers \in Nat
        /\ frames \in [1..Layers -> Frames]
        /\ dir \in {"down", "up"} /\ (dir = "up" => depth > 0)
    BY DEF TypeOK, OneOpenAnswer
  <2>1. CASE PassOn \/ Trace
    <3>1. /\ dir = "down" /\ dir' = "down" /\ depth < Layers /\ depth' = depth + 1
          /\ \A l \in 1..depth : frames'[l] = frames[l]
      BY <2>0, <2>1 DEF PassOn, Trace
    <3>2. PICK d \in 1..(Layers + 1) : d = depth + 1
      BY <2>0, <3>1
    <3>3. Left(d) = 3 /\ Left(d)' \in {1, 2}
      BY <2>0, <3>1, <3>2 DEF Left
    <3>4. \A k \in 1..(d - 1) : Left(k)' = Left(k)
      BY <2>0, <3>1, <3>2 DEF Left
    <3> QED BY <3>3, <3>4 DEF LessIsLeft
  <2>2. CASE Base
    <3>1. dir = "down" /\ dir' = "up" /\ depth = Layers /\ depth' = depth /\ frames' = frames
      BY <2>2 DEF Base, Attempt
    <3>2. Left(Layers + 1) = 3 /\ Left(Layers + 1)' = 0
      BY <2>0, <3>1 DEF Left
    <3>3. \A k \in 1..Layers : Left(k)' = Left(k)
      BY <2>0, <3>1 DEF Left
    <3> QED BY <2>0, <3>2, <3>3 DEF LessIsLeft
  <2>3. CASE Retry
    <3>1. /\ dir = "up" /\ dir' = "down" /\ depth' = depth /\ depth \in 1..Layers
          /\ frames[depth].rid # None /\ ~frames[depth].retried
          /\ frames' = [frames EXCEPT ![depth].retried = TRUE]
      BY <2>0, <2>3 DEF Retry, ToRetry
    <3>2. /\ frames'[depth].retried
          /\ \A l \in 1..Layers : l # depth => frames'[l] = frames[l]
      BY <2>0, <3>1 DEF Frames
    <3>3. Left(depth) = 2 /\ Left(depth)' = 1
      BY <2>0, <3>1, <3>2 DEF Left
    <3>4. \A k \in 1..(depth - 1) : Left(k)' = Left(k)
      BY <2>0, <3>1, <3>2 DEF Left
    <3> QED BY <2>0, <3>1, <3>3, <3>4 DEF LessIsLeft
  <2>4. CASE PassBack \/ Record
    <3>1. /\ dir = "up" /\ depth' = depth - 1 /\ depth \in 1..Layers /\ frames' = frames
          /\ dir' = IF depth = 1 THEN "idle" ELSE "up"
      BY <2>0, <2>4 DEF PassBack, Record, Return
    <3>2. PICK d \in 1..(Layers + 1) : d = depth
      BY <2>0, <3>1
    <3>3. Left(d) \in {1, 2} /\ Left(d)' = 0
      BY <2>0, <3>1, <3>2 DEF Left
    <3>4. \A k \in 1..(d - 1) : Left(k)' = Left(k)
      BY <2>0, <3>1, <3>2 DEF Left
    <3> QED BY <3>3, <3>4 DEF LessIsLeft
  <2> QED BY <2>1, <2>2, <2>3, <2>4 DEF Next, Sdk, Call
<1> QED BY <1>1, InvariantHolds, PTL DEF Spec, AttemptsEnd

=============================================================================
