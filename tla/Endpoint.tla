------------------------------ MODULE Endpoint -------------------------------
(***************************************************************************)
(* One client request through an endpoint handler (router/mux/endpoint.go, *)
(* also used by chi, gorilla and the others, and router/gin/endpoint.go)   *)
(* and the chain it calls (proxy/factory.go): request modifiers, the       *)
(* merger or the single backend, flatmap, response modifiers, static data, *)
(* and back to the handler, which sets the headers and renders.            *)
(*                                                                         *)
(* What the backends come to is PipeReply, the replies that MergeContract  *)
(* allows a merger and those of a single backend.  The context of the      *)
(* request may end at any moment.                                          *)
(***************************************************************************)
EXTENDS Integers, Sequences, FiniteSets

CONSTANTS Setups   \* the endpoints to check

\* Fields of a response: what the backends sent, the static data, and a value of
\* a modifier that no encoder takes.
Items == {"field", "static", "opaque"}

\* The rendered fields, a copied body, the text of an error.
BodyParts == Items \cup {"stream", "error"}

Strategies == {"off", "always", "success", "errored", "complete", "incomplete"}

\* The renderers each router has under a name of its own.
Registered(router) ==
    {"json", "string", "no-op", "json-collection"}
        \cup IF router = "gin" THEN {"xml", "yaml", "negotiate"} ELSE {}

\* A modifier keeps what it is given, hands over something else, or fails.
Modifiers == {"keep", "change", "fail"}

\* output: the endpoint's output_encoding; encoding: that of its first backend;
\* modifiers, requestModifiers: of the endpoint; flatmap: it has operations.
ASSUME SetupsAssumption ==
    Setups \subseteq [router : {"mux", "gin"}, output : STRING, encoding : STRING,
                      multi : BOOLEAN, flatmap : BOOLEAN,
                      requestModifiers : Seq(Modifiers),
                      modifiers : Seq(Modifiers), static : Strategies]

NilResponse == [nil |-> TRUE, data |-> {}, complete |-> FALSE, headers |-> 0,
                status |-> 0, io |-> FALSE]
Responses == [nil : {FALSE}, data : SUBSET Items, complete : BOOLEAN,
              headers : {0, 1}, status : {0, 200, 500}, io : BOOLEAN]
Errors == {"none", "plain", "204", "404"}   \* with or without a status code

ClientAnswers ==
    [status : {0, 200, 204, 404, 405, 500}, completed : {"unset", "true", "false"},
     cached : BOOLEAN, headers : 0 .. 2, body : SUBSET BodyParts]

VARIABLES
    setup,      \* the endpoint, fixed
    handlerPc,  \* what runs next
    response,   \* the (response, err) on its way up
    err,
    full,       \* every backend that was asked has answered completely, or the
                \* modifier that replaced what they answered calls it complete
    ctx,        \* requestCtx: "none" yet, "live" or "done"
    w           \* the client's answer: status (0: none yet), the two headers
                \* the handler is in charge of, how many times it has the
                \* backend's headers, and its body

endpointVars == <<setup, handlerPc, response, err, full, ctx, w>>

EndpointTypeOK ==
    /\ setup \in Setups
    /\ handlerPc \in {"request", "requestModifiers", "pipe", "flatmap", "modifiers",
                      "static", "deadline", "headers", "render", "answered", "panicked"}
    /\ response \in Responses \cup {NilResponse} /\ err \in Errors
    /\ full \in BOOLEAN /\ ctx \in {"none", "live", "done"}
    /\ w \in ClientAnswers

EndpointInit ==
    /\ setup \in Setups
    /\ handlerPc = "request"
    /\ response = NilResponse /\ err = "none"
    /\ full = FALSE /\ ctx = "none"
    /\ w = [status |-> 0, completed |-> "unset", cached |-> FALSE,
            headers |-> 0, body |-> {}]

-----------------------------------------------------------------------------
(* The chain of proxies.                                                   *)

\* The request arrives with a method that the mux handler does not serve.
WrongMethod ==
    /\ handlerPc = "request" /\ setup.router = "mux"
    /\ w' = [w EXCEPT !.status = 405, !.completed = "false", !.body = {"error"}]
    /\ handlerPc' = "answered"
    /\ UNCHANGED <<setup, response, err, full, ctx>>

\* requestCtx, the endpoint's timeout, and the call of the proxy.
Handle ==
    /\ handlerPc = "request"
    /\ ctx' = "live"
    /\ handlerPc' = "requestModifiers"
    /\ UNCHANGED <<setup, response, err, full, w>>

Fails(modifiers) == \E i \in DOMAIN modifiers : modifiers[i] = "fail"

\* executeRequestModifiers: after an error nobody is asked.
ModifyRequest ==
    /\ handlerPc = "requestModifiers"
    /\ IF Fails(setup.requestModifiers)
       THEN err' = "plain" /\ handlerPc' = "static"
       ELSE handlerPc' = "pipe" /\ UNCHANGED err
    /\ UNCHANGED <<setup, response, full, ctx, w>>

\* An answer that may have headers; one of a no-op backend has nothing else, a
\* body to copy and any status.  The others are complete with 200 or 201, or
\* carry the details of a backend's error and its status.
Answers == IF setup.encoding = "no-op" /\ ~setup.multi
           THEN {r \in Responses : r.data = {} /\ r.io /\ r.complete /\ r.status # 0}
           ELSE {r \in Responses : /\ r.data \subseteq {"field"} /\ ~r.io
                                   /\ r.complete => r.status # 500}

\* The response and error of the merger (MergeContract) or of the backend:
\* complete exactly if all is well, neither if every backend was filtered out
\* (or nobody was heard before the end of the context).
PipeReply ==
    /\ handlerPc = "pipe"
    /\ \/ /\ response' \in Answers
          /\ err' = "none"
          /\ full' = response'.complete
       \/ /\ response' \in {r \in Answers : ~r.complete}
          /\ err' = "plain"
          /\ full' = FALSE
       \/ /\ err' \in (IF setup.multi THEN {"plain"} ELSE Errors \ {"none"})
          /\ UNCHANGED <<response, full>>
       \/ /\ setup.multi \/ ctx = "done"
          /\ UNCHANGED <<response, err, full>>
    /\ handlerPc' = IF setup.multi /\ setup.flatmap THEN "flatmap" ELSE "modifiers"
    /\ UNCHANGED <<setup, ctx, w>>

\* The pipe returns because its context is done.
PipeGivesUp == ctx = "done" /\ PipeReply

\* flatmapFormatter.Format works on the response's data, whatever err is.
Flatmap ==
    /\ handlerPc = "flatmap"
    /\ handlerPc' = IF err = "none" /\ response.nil THEN "panicked" ELSE "modifiers"
    /\ UNCHANGED <<setup, response, err, full, ctx, w>>

\* What a modifier may hand over in place of a response: all of it is its own,
\* IsComplete included.
Modified == {r \in Responses : "static" \notin r.data}

Modifies == setup.modifiers # <<>> /\ err = "none"

\* executeResponseModifiers: only after a success, whether or not there is a
\* response; the response is lost when one of them fails.
ModifyResponse ==
    /\ handlerPc = "modifiers"
    /\ \/ /\ ~Modifies
          /\ handlerPc' = "static" /\ UNCHANGED <<response, err, full>>
       \/ /\ Modifies /\ response.nil
          /\ handlerPc' = "panicked" /\ UNCHANGED <<response, err, full>>
       \/ /\ Modifies /\ ~response.nil /\ Fails(setup.modifiers)
          /\ response' = NilResponse /\ err' = "plain"
          /\ handlerPc' = "static" /\ UNCHANGED full
       \/ /\ Modifies /\ ~response.nil /\ ~Fails(setup.modifiers)
          /\ IF \E i \in DOMAIN setup.modifiers : setup.modifiers[i] = "change"
             THEN response' \in Modified /\ full' = response'.complete
             ELSE UNCHANGED <<response, full>>
          /\ handlerPc' = "static" /\ UNCHANGED err
    /\ UNCHANGED <<setup, ctx, w>>

\* staticConfig.Match
Match == CASE setup.static = "off"        -> FALSE
           [] setup.static = "always"     -> TRUE
           [] setup.static = "success"    -> err = "none"
           [] setup.static = "errored"    -> err # "none"
           [] setup.static = "complete"   -> err = "none" /\ response.complete
           [] setup.static = "incomplete" -> ~response.complete

\* A static response that counts as a complete one.
AddStaticAsComplete ==
    /\ handlerPc = "static"
    /\ handlerPc' = "deadline"
    /\ response' = IF Match THEN [response EXCEPT !.nil = FALSE, !.complete = TRUE,
                                                  !.data = @ \cup {"static"}]
                            ELSE response
    /\ UNCHANGED <<setup, err, full, ctx, w>>

\* The static data joins the response, or is all of it.  The error stays.
AddStatic ==
    /\ handlerPc = "static"
    /\ handlerPc' = "deadline"
    /\ response' = IF Match THEN [response EXCEPT !.nil = FALSE,
                                                  !.data = @ \cup {"static"}]
                            ELSE response
    /\ UNCHANGED <<setup, err, full, ctx, w>>

-----------------------------------------------------------------------------
(* The handlers.                                                           *)

\* select on requestCtx.Done(): an end of the context is an error.
CheckDeadline ==
    /\ handlerPc = "deadline"
    /\ err' = IF ctx = "done" /\ err = "none" THEN "plain" ELSE err
    /\ handlerPc' = "headers"
    /\ UNCHANGED <<setup, response, full, ctx, w>>

HasData == ~response.nil /\ response.data # {}

\* Headers added once more for every value they have.
HeadersTwice ==
    IF HasData
    THEN [w EXCEPT !.completed = IF response.complete THEN "true" ELSE "false",
                   !.cached = response.complete, !.headers = @ + 2 * response.headers]
    ELSE [w EXCEPT !.completed = "false"]

\* Completed, Cache-Control (the endpoint has a cache_ttl), metadata headers.
HandlerHeaders ==
    IF HasData
    THEN [w EXCEPT !.completed = IF response.complete THEN "true" ELSE "false",
                   !.cached = response.complete, !.headers = @ + response.headers]
    ELSE [w EXCEPT !.completed = "false"]

\* ErrorStatus: that of the error if it has one, or that of DefaultToHTTPError.
ErrorStatus == CASE err = "204" -> 204 [] err = "404" -> 404 [] OTHER -> 500

\* The error's text, where the status allows a body.
ErrorPage == IF ErrorStatus = 204 THEN {} ELSE {"error"}

\* mux: no data and an error is an error page, and the end of the context.
FailMux ==
    /\ handlerPc = "headers" /\ setup.router = "mux"
    /\ ~HasData /\ err # "none"
    /\ w' = [HandlerHeaders EXCEPT !.status = ErrorStatus, !.body = ErrorPage]
    /\ ctx' = "done"
    /\ handlerPc' = "answered"
    /\ UNCHANGED <<setup, response, err, full>>

\* gin: no response and an error is an error status (the page is optional), with
\* the headers of the error if it has some.
FailGin ==
    /\ handlerPc = "headers" /\ setup.router = "gin"
    /\ response.nil /\ err # "none"
    /\ \E n \in (IF err = "plain" THEN {0} ELSE {0, 1}) :
         w' = [HandlerHeaders EXCEPT !.status = ErrorStatus, !.body = ErrorPage,
                                     !.headers = @ + n]
    /\ ctx' = "done"
    /\ handlerPc' = "answered"
    /\ UNCHANGED <<setup, response, err, full>>

\* Everything else is rendered.
SetHeaders ==
    /\ handlerPc = "headers"
    /\ err # "none" => IF setup.router = "mux" THEN HasData ELSE ~response.nil
    /\ w' = HandlerHeaders
    /\ handlerPc' = "render"
    /\ UNCHANGED <<setup, response, err, full, ctx>>

getWithFallback(key, fallback) ==
    IF key \in Registered(setup.router) THEN key ELSE fallback

\* The renderer of the endpoint; of a lone backend's encoding if its own has none.
getRender ==
    getWithFallback(setup.output,
                    IF setup.multi THEN "json" ELSE getWithFallback(setup.encoding, "json"))

\* What a renderer shows: all the data (json, yaml, negotiate), or the value of
\* "collection" or "content", which is what the backend's encoding puts there.
Rendered(data) == IF getRender \in {"json", "yaml", "negotiate"} THEN data
                                                                ELSE data \ {"static"}

\* The value that is to be rendered may be one that cannot be encoded: the string
\* renderer does not mind, and xml knows no objects.
MayEncode(data) == getRender = "string" \/ "opaque" \notin Rendered(data)
MayNotEncode(data) == \/ getRender # "string" /\ "opaque" \in Rendered(data)
                      \/ getRender = "xml" /\ Rendered(data) # {}

\* Every renderer but the no-op one answers 200; the string renderer sends
\* strings only.
RenderData ==
    /\ handlerPc = "render" /\ getRender # "no-op"
    /\ MayEncode(response.data)
    /\ w' = [w EXCEPT !.status = 200,
                      !.body = Rendered(response.data) \ {"opaque"}]
    /\ ctx' = "done"
    /\ handlerPc' = "answered"
    /\ UNCHANGED <<setup, response, err, full>>

\* The status a response is sent with, 0 standing for none.
SentStatus == IF response.status = 0 THEN 200 ELSE response.status

\* HTTPErrorInterceptor: not 200 is not complete, with the mux engine.
Intercepted(status) ==
    IF setup.router = "mux" /\ status # 200 THEN "false" ELSE w.completed

\* The data cannot be encoded: mux answers an error page, after the headers of a
\* success are set; gin notes the error and answers 200 with nothing.
RenderFails ==
    /\ handlerPc = "render" /\ getRender # "no-op"
    /\ MayNotEncode(response.data)
    /\ w' = IF setup.router = "mux"
            THEN [w EXCEPT !.status = 500, !.completed = Intercepted(500), !.body = {"error"}]
            ELSE [w EXCEPT !.status = 200]
    /\ ctx' = "done"
    /\ handlerPc' = "answered"
    /\ UNCHANGED <<setup, response, err, full>>

\* noopRender: the backend's headers, status and body as they are.
RenderNoop ==
    /\ handlerPc = "render" /\ getRender = "no-op"
    /\ w' = IF response.nil
            THEN [w EXCEPT !.status = 500, !.completed = Intercepted(500)]
            ELSE [w EXCEPT !.status = SentStatus, !.headers = @ + response.headers,
                           !.completed = Intercepted(SentStatus),
                           !.body = IF response.io THEN {"stream"} ELSE {}]
    /\ ctx' = "done"
    /\ handlerPc' = "answered"
    /\ UNCHANGED <<setup, response, err, full>>

\* An endpoint without a timeout, and a patient client.
CtxNeverDone == FALSE /\ UNCHANGED endpointVars

\* The endpoint's timeout fires or the client goes away.
RequestCtxDone ==
    /\ ctx = "live"
    /\ ctx' = "done"
    /\ UNCHANGED <<setup, handlerPc, response, err, full, w>>

EndpointFinished == handlerPc \in {"answered", "panicked"} /\ UNCHANGED endpointVars

HandlerStep == \/ WrongMethod \/ Handle \/ ModifyRequest \/ Flatmap \/ ModifyResponse
               \/ AddStatic \/ CheckDeadline \/ FailMux \/ FailGin \/ SetHeaders
               \/ RenderData \/ RenderFails \/ RenderNoop

EndpointNext == HandlerStep \/ PipeReply \/ RequestCtxDone \/ EndpointFinished

(***************************************************************************)
(* The handler's goroutine runs, the timer of requestCtx fires, and the    *)
(* pipe returns once its context is done (ParallelMerge, Concurrent).      *)
(***************************************************************************)
EndpointFairness == /\ WF_endpointVars(HandlerStep)
                    /\ WF_endpointVars(PipeGivesUp)
                    /\ WF_endpointVars(RequestCtxDone)

EndpointSpec == EndpointInit /\ [][EndpointNext]_endpointVars /\ EndpointFairness

-----------------------------------------------------------------------------
(* Properties                                                              *)

Answered == handlerPc = "answered"

(***************************************************************************)
(* X-Krakend-Completed is true only if every backend that was asked has    *)
(* answered completely, or a response modifier vouches for what it put in  *)
(* the place of their answers (plugin.go:190-195): no static data,         *)
(* flatmap or late context on the way from the merger to the client turns  *)
(* a partial answer into a complete one (server.go:37-39,                  *)
(* static.go:42-46, mux/endpoint.go:66-74, gin/endpoint.go:60-77).         *)
(***************************************************************************)
CompleteIsTrue == (Answered /\ w.completed = "true") => full

(***************************************************************************)
(* Only what is complete may be kept by a cache: Cache-Control is sent     *)
(* with data, and only if that is complete (mux/endpoint.go:67-71,         *)
(* gin/endpoint.go:63-68).  It goes with an error in two cases, for both   *)
(* come after the header is set: the response has an error's status and    *)
(* the no-op renderer sends it as it is (mux/render.go:133), and mux       *)
(* cannot encode the data (mux/render.go:75-79, 95-99).                    *)
(***************************************************************************)
CachedIsWhole ==
    (Answered /\ w.cached) =>
        /\ full /\ HasData
        /\ w.status # 200 => \/ getRender = "no-op" /\ w.status = response.status
                             \/ setup.router = "mux" /\ "opaque" \in response.data
        /\ "error" \in w.body => w.status # 200

(***************************************************************************)
(* A failure that left no data, the end of the context among them, reaches *)
(* the client as an error status, or as the status of the backend that     *)
(* failed: a 204 is not one of the backend's successes, but one for the    *)
(* client.  The gin handler fails only without a response: an empty one is *)
(* rendered, where mux answers 500 (mux/endpoint.go:81-91,                 *)
(* gin/endpoint.go:83-114).                                                *)
(***************************************************************************)
FailureIsNotASuccess ==
    (/\ Answered /\ err # "none"
     /\ response.nil \/ (setup.router = "mux" /\ ~HasData)) =>
        w.status >= 400 \/ (err = "204" /\ w.status = 204)

(***************************************************************************)
(* The client gets the backend's headers once: the handler adds them to a  *)
(* response with data, the no-op renderer to one without                   *)
(* (mux/endpoint.go:76-80, mux/render.go:127-131).                         *)
(***************************************************************************)
HeadersOnce ==
    Answered => w.headers <= 1 \/ (getRender = "no-op" /\ HasData)

(***************************************************************************)
(* The context of the request is ended on every way out of the handler, so *)
(* no timer and no call of a backend outlives an answer                    *)
(* (mux/endpoint.go:89, 95; gin/endpoint.go:111, 117).                     *)
(***************************************************************************)
NothingOutlivesTheAnswer == Answered => ctx # "live"

(***************************************************************************)
(* Every request is answered, by the endpoint's timeout if a backend never *)
(* answers (or the handler panics, which the server recovers).             *)
(***************************************************************************)
EveryRequestIsAnswered == <>(handlerPc \in {"answered", "panicked"})

(***************************************************************************)
(* A handler panics in one case only: the proxy below returned neither     *)
(* response nor error, as the merger does when every backend was filtered  *)
(* out, and response modifiers or flatmap run on that nil (plugin.go:169,  *)
(* formatter.go:345).                                                      *)
(***************************************************************************)
PanicsOnlyWithoutReply ==
    handlerPc = "panicked" =>
        /\ response.nil /\ err = "none" /\ ~full
        /\ setup.modifiers # <<>> \/ (setup.multi /\ setup.flatmap)

(***************************************************************************)
(* What the client is told is true: of completeness, of failure, of what   *)
(* may be cached, and it is told once; nothing goes on behind it.          *)
(***************************************************************************)
AnswerIsTrue ==
    /\ CompleteIsTrue /\ CachedIsWhole /\ FailureIsNotASuccess
    /\ HeadersOnce /\ NothingOutlivesTheAnswer /\ PanicsOnlyWithoutReply

(***************************************************************************)
(* "ResponseModifiers are executed once the response is returned from the  *)
(* next middleware" (plugin.go:18-19); they are executed also when the     *)
(* next middleware returns neither response nor error, as the merger does  *)
(* when every backend is filtered out: the nil response is dereferenced    *)
(* (plugin.go:169), and so it is by flatmap (formatter.go:345).            *)
(***************************************************************************)
NoPanic == handlerPc # "panicked"
=============================================================================
