---------------------------- MODULE BackendAnswer ----------------------------
(***************************************************************************)
(* One call of a backend over HTTP (proxy/http.go): the request's body is  *)
(* handed to the client, the status handler                                *)
(* (transport/http/client/status.go) judges the answer, a decoder          *)
(* (encoding/encoding.go) or the no-op parser (proxy/http_response.go)     *)
(* turns its body into a Response.  Either body may break half way, and    *)
(* the context may end at any moment, after the return at the latest.      *)
(***************************************************************************)
EXTENDS Integers

CONSTANTS Setups   \* the calls to check

Encodings == {"no-op", "NO-OP", "json", "safejson", "string", "xml"}

\* What a body begins with: a JSON value, something else, nothing.
Values == {"object", "list", "scalar", "null"}
Contents == Values \cup {"text", "empty"}

\* How far a body, and the gzip stream in it, comes before it breaks: not past
\* the gzip header; somewhere in its first JSON value; past that value, with the
\* byte after it that ends a scalar; to its end.
Nowhere == 0
Inside  == 1
PastValue == 2
ToItsEnd  == 3

\* encoding, collection, details, code, resend: the backend's encoding,
\* is_collection, return_error_details, return_error_code and
\* send_body_on_redirect.  incoming: the body of the client's request, and
\* whether the proxy is told its length: the Content-Length of the client is one
\* of the headers that are passed on (it is not by default); broken: the body
\* ends before its end.
ASSUME SetupsAssumption ==
    Setups \subseteq [encoding : Encodings, collection : BOOLEAN,
                      details : {"absent", "blank", "name"}, code : BOOLEAN,
                      resend : BOOLEAN, incoming : {"none", "told", "untold"},
                      broken : BOOLEAN]

Answers == {a \in [status : {200, 201, 204, 404}, content : Contents,
                   arrives : Nowhere .. ToItsEnd, gzip : {"no", "yes", "fake"}] :
                a.arrives = PastValue => a.content \in Values}
NoAnswer == [status |-> 0, content |-> "empty", arrives |-> Nowhere, gzip |-> "no"]

\* nil: there is no response.  data: its kind; error: the error's kind;
\* message: of the backend's error page.
NoReply == [nil |-> TRUE, data |-> "nil", complete |-> FALSE, stream |-> FALSE,
            status |-> 0, error |-> "none", message |-> "none"]

Replies == [nil : BOOLEAN,
            data : {"nil", "none", "object", "collection", "content", "error"},
            complete : BOOLEAN, stream : BOOLEAN, status : {0, 200, 201, 204, 404},
            error : {"none", "network", "context", "status", "code", "decode"},
            message : {"none", "whole", "empty"}]

VARIABLES
    setup,      \* the call, fixed
    proxyPc,    \* what runs next
    callCtx,    \* its context: "live" or "done"
    incoming,   \* the body of the request: "none", "open" or "closed"
    buffer,     \* what of it was read into memory: "none", "whole" or "part"
    received,   \* what the backend took for the body: "nothing", "whole",
                \* "part", or "broken" if it saw it break
    answer,     \* of the backend
    answerBody, \* of the answer: "none", "open" or "closed"
    proxyReply  \* what the proxy returns

answerVars == <<setup, proxyPc, callCtx, incoming, buffer, received, answer, answerBody, proxyReply>>

AnswerTypeOK ==
    /\ setup \in Setups
    /\ proxyPc \in {"build", "call", "deadline", "status", "parse", "returned"}
    /\ callCtx \in {"live", "done"}
    /\ incoming \in {"none", "open", "closed"} /\ answerBody \in {"none", "open", "closed"}
    /\ buffer \in {"none", "whole", "part"}
    /\ received \in {"nothing", "whole", "part", "broken"}
    /\ answer \in Answers \cup {NoAnswer}
    /\ proxyReply \in Replies

AnswerInit ==
    /\ setup \in Setups
    /\ proxyPc = "build" /\ callCtx = "live"
    /\ incoming = IF setup.incoming = "none" THEN "none" ELSE "open"
    /\ buffer = "none" /\ received = "nothing"
    /\ answer = NoAnswer /\ answerBody = "none" /\ proxyReply = NoReply

ReturnReply(r) == proxyPc' = "returned" /\ proxyReply' = r
Failure(kind) == [NoReply EXCEPT !.error = kind]

-----------------------------------------------------------------------------
(* The request                                                             *)

\* redirectPostReaderFactory: the body is read to be sent again after a
\* redirect.  An error of that read is not looked at.
ReadBody ==
    /\ proxyPc = "build"
    /\ IF setup.resend /\ incoming = "open"
       THEN /\ buffer' = IF setup.broken THEN "part" ELSE "whole"
            /\ incoming' = "closed"
       ELSE UNCHANGED <<buffer, incoming>>
    /\ \/ proxyPc' = "call" /\ UNCHANGED proxyReply
       \/ ReturnReply(Failure("network"))   \* http.NewRequest
    /\ UNCHANGED <<setup, callCtx, received, answer, answerBody>>

\* net/http: a body that is not as long as was said, or breaks, is an error.  The
\* buffer does not break, and its length is that of what was read unless the
\* client's is told.
Sent == IF setup.incoming = "none" THEN "nothing"
        ELSE IF ~setup.broken THEN "whole"
        ELSE IF buffer = "part" /\ setup.incoming = "untold" THEN "part" ELSE "broken"

\* The executor's answer or error; then the request's body is closed.
Execute ==
    /\ proxyPc = "call"
    /\ received' = Sent
    /\ \/ proxyReply' = Failure("network") /\ UNCHANGED <<answer, answerBody>>
       \/ /\ callCtx = "live" /\ received' # "broken"
          /\ answer' \in Answers
          /\ answerBody' = "open"
          /\ UNCHANGED proxyReply
    /\ incoming' = IF incoming = "open" THEN "closed" ELSE incoming
    /\ proxyPc' = "deadline"
    /\ UNCHANGED <<setup, callCtx, buffer>>

\* An end of the context first, then an error of the client.
CheckDeadline ==
    /\ proxyPc = "deadline"
    /\ IF callCtx = "done" THEN ReturnReply(Failure("context"))
       ELSE IF proxyReply.error # "none" THEN ReturnReply(proxyReply)
       ELSE proxyPc' = "status" /\ UNCHANGED proxyReply
    /\ UNCHANGED <<setup, callCtx, incoming, buffer, received, answer, answerBody>>

-----------------------------------------------------------------------------
(* The answer                                                              *)

\* NewHTTPProxyWithHTTPExecutor and GetHTTPStatusHandler.
StatusHandler == IF setup.encoding = "no-op" THEN "no-op"
                 ELSE IF setup.details = "name" THEN "detailed"
                 ELSE IF setup.details = "absent" /\ setup.code THEN "error" ELSE "default"

Accepted == StatusHandler = "no-op" \/ answer.status \in {200, 201}

\* How far a read of the body gets before an error, if there is one: as far as
\* the body comes, or less if the context has ended.
MayRead == IF callCtx = "live" THEN {answer.arrives} ELSE Nowhere .. answer.arrives

\* A page that breaks is told as far as it was read.
PartialMessage(read) == IF read = ToItsEnd THEN "whole" ELSE "part"

\* newHTTPResponseError: a page that breaks counts as empty.
Message(read) == IF read = ToItsEnd THEN "whole" ELSE "empty"

\* The details of an answer are a response, its code alone is an error.
Refusal(read) ==
    IF StatusHandler = "error"
    THEN [Failure("code") EXCEPT !.status = answer.status, !.message = Message(read)]
    ELSE [NoReply EXCEPT !.nil = FALSE, !.data = "error", !.status = answer.status,
                         !.message = Message(read)]

\* Only the two handlers that tell what was answered read the body and close it.
CheckStatus ==
    /\ proxyPc = "status"
    /\ IF Accepted THEN proxyPc' = "parse" /\ UNCHANGED <<answerBody, proxyReply>>
       ELSE IF StatusHandler = "default"
       THEN ReturnReply(Failure("status")) /\ UNCHANGED answerBody
       ELSE /\ answerBody' = "closed"
            /\ \E read \in MayRead : ReturnReply(Refusal(read))
    /\ UNCHANGED <<setup, callCtx, incoming, buffer, received, answer>>

\* The register's decoder for the encoding in lower case: JSON if unknown.
Decoder == CASE setup.encoding = "xml" -> "json"
             [] setup.encoding = "NO-OP" -> "no-op"
             [] OTHER -> setup.encoding

\* The four decoders on a body that is read as far as they want: the kind of
\* data, or "error".
Decoded ==
    CASE Decoder = "no-op"  -> "nil"
      [] Decoder = "string" -> "content"
      [] OTHER ->
            IF answer.content \in {"text", "empty"} THEN "error"
            ELSE IF Decoder = "json" /\ setup.collection
            THEN IF answer.content \in {"list", "null"} THEN "collection" ELSE "error"
            ELSE CASE answer.content = "object" -> "object"
                   [] answer.content = "null" /\ Decoder = "json" -> "nil"
                   [] answer.content = "list" /\ Decoder # "json" -> "collection"
                   [] OTHER -> IF Decoder = "json" THEN "error" ELSE "content"   \* safejson

\* json.Decoder.Decode returns after the first value and does not see what comes
\* then; io.ReadAll reads on to the end; "no-op" reads nothing, but gzip.NewReader
\* has read its header.
Wanted == CASE Decoder = "string" -> ToItsEnd
            [] Decoder = "no-op"  -> IF answer.gzip = "yes" THEN Inside ELSE Nowhere
            [] OTHER              -> PastValue

\* A string decoder that keeps what it could read.
DecodeWhatIsThere(read) ==
    IF answer.gzip = "fake" \/ (read < Wanted /\ Decoder # "string") THEN "error" ELSE Decoded

\* gzip.NewReader and the decoder on what can be read.
Decode(read) == IF answer.gzip = "fake" \/ read < Wanted THEN "error" ELSE Decoded

\* DefaultHTTPResponseParserFactory: the body is closed whatever happens.
Parse ==
    /\ proxyPc = "parse" /\ StatusHandler # "no-op"
    /\ \E read \in MayRead :
           IF Decode(read) = "error" THEN ReturnReply(Failure("decode"))
           ELSE ReturnReply([NoReply EXCEPT !.nil = FALSE, !.complete = TRUE,
                                            !.data = Decode(read)])
    /\ answerBody' = "closed"
    /\ UNCHANGED <<setup, callCtx, incoming, buffer, received, answer>>

\* NoOpHTTPResponseParser: the body goes to the caller as it is.
Stream ==
    /\ proxyPc = "parse" /\ StatusHandler = "no-op"
    /\ ReturnReply([NoReply EXCEPT !.nil = FALSE, !.complete = TRUE, !.data = "none",
                                   !.stream = TRUE, !.status = answer.status])
    /\ UNCHANGED <<setup, callCtx, incoming, buffer, received, answer, answerBody>>

\* The goroutine of the readCloserWrapper.
closeOnCancel ==
    /\ proxyReply.stream /\ callCtx = "done" /\ answerBody = "open"
    /\ answerBody' = "closed"
    /\ UNCHANGED <<setup, proxyPc, callCtx, incoming, buffer, received, answer, proxyReply>>

\* The timeout, the client's leaving, or the caller's cancel after the return.
CtxEnds ==
    /\ callCtx = "live"
    /\ callCtx' = "done"
    /\ UNCHANGED <<setup, proxyPc, incoming, buffer, received, answer, answerBody, proxyReply>>

AnswerFinished == proxyPc = "returned" /\ callCtx = "done" /\ UNCHANGED answerVars

ProxyStep == ReadBody \/ Execute \/ CheckDeadline \/ CheckStatus \/ Parse \/ Stream

AnswerNext == ProxyStep \/ closeOnCancel \/ CtxEnds \/ AnswerFinished

(***************************************************************************)
(* The proxy and its goroutine run; every handler ends the context of its  *)
(* request (NothingOutlivesTheAnswer of Endpoint).                         *)
(***************************************************************************)
AnswerFairness == /\ WF_answerVars(ProxyStep)
                  /\ WF_answerVars(closeOnCancel)
                  /\ WF_answerVars(CtxEnds)

AnswerSpec == AnswerInit /\ [][AnswerNext]_answerVars /\ AnswerFairness

-----------------------------------------------------------------------------
(* Properties                                                              *)

Returned == proxyPc = "returned"

(***************************************************************************)
(* A response that is decoded and complete is of an answer with 200 or     *)
(* 201, and what it holds was sent whole: all of the body if it is the     *)
(* content of a string, the first JSON value otherwise.  A break after     *)
(* that value, or anything else there, is not looked at: the response is   *)
(* complete (encoding.go:48-58, 75-78).  No break before, no false         *)
(* Content-Encoding and no unregistered encoding makes a response complete *)
(* and empty.  The encoding "NO-OP" does: its decoder is found without     *)
(* regard to case, the no-op parser is not (config.go:619, http.go:41,     *)
(* http_response.go:33-59, encoding.go:46-108).                            *)
(***************************************************************************)
CompleteIsTheAnswer ==
    (proxyReply.complete /\ ~proxyReply.stream /\ setup.encoding # "NO-OP") =>
        /\ answer.status \in {200, 201} /\ answer.gzip # "fake"
        /\ answer.arrives >= IF setup.encoding = "string" THEN ToItsEnd ELSE PastValue
        /\ setup.encoding # "string" => answer.content \in Values
        /\ proxyReply.data = "nil" => answer.content = "null"

(***************************************************************************)
(* Any other status but that of a no-op backend reaches the caller as an   *)
(* error or as a response that is not complete; with the error options     *)
(* the caller is told that status and the backend's page, all of it or     *)
(* none (status.go:52-156, http.go:121-132).                               *)
(***************************************************************************)
RefusalIsTold ==
    (/\ Returned /\ setup.encoding # "no-op" /\ answer.status \in {204, 404}
     /\ proxyReply.error # "context") =>
        /\ ~proxyReply.complete /\ (proxyReply.error # "none" \/ proxyReply.data = "error")
        /\ (setup.details = "name" \/ (setup.details = "absent" /\ setup.code)) =>
               /\ proxyReply.status = answer.status
               /\ proxyReply.message = "empty" \/ (proxyReply.message = "whole" /\ answer.arrives = ToItsEnd)

(***************************************************************************)
(* On its return the proxy leaves the body of an answer open only if it is *)
(* the caller's stream, if the context has ended, which ends the           *)
(* connection, or if the default handler refused it: that body is never    *)
(* closed, and holds its connection until the context ends                 *)
(* (http.go:112-116, status.go:79-86, http_response.go:35).                *)
(***************************************************************************)
OnlyRefusedBodiesAreLeft ==
    (Returned /\ answerBody = "open") => proxyReply.stream \/ proxyReply.error \in {"context", "status"}

(***************************************************************************)
(* A stream stays open as long as its context lives: nothing on the way    *)
(* back closes it under the reader (proxy.go:34-55, http_response.go:63).  *)
(***************************************************************************)
StreamStaysOpen == (proxyReply.stream /\ callCtx = "live") => answerBody = "open"

(***************************************************************************)
(* What the caller is told of a backend is what the backend said, and what *)
(* it may still read is what it was promised (http.go:66-136).             *)
(***************************************************************************)
AnswerIsTold ==
    /\ CompleteIsTheAnswer /\ RefusalIsTold
    /\ OnlyRefusedBodiesAreLeft /\ StreamStaysOpen

(***************************************************************************)
(* A stream is closed in the end, read or not: with its context            *)
(* (proxy.go:51-55).                                                       *)
(***************************************************************************)
StreamIsClosed == (Returned /\ proxyReply.stream) ~> (answerBody = "closed")
=============================================================================
