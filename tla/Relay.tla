------------------------------- MODULE Relay -------------------------------
(***************************************************************************)
(* The data path of ProxyImpl.PassThrough (network/proxy.go) for one       *)
(* inbound connection, exchange after exchange: read the request, run the  *)
(* OnIngressTraffic hooks on trafficData and take a replacement through    *)
(* extractField, Send, Receive (reconnecting on a backend EOF), run the    *)
(* OnEgressTraffic hooks the same way, AsyncWrite the response.  The       *)
(* control of the pools is in the Proxy module; here the bytes, the errors *)
(* and what the hooks see are followed.                                    *)
(*                                                                         *)
(* A byte slice is <<"req", k>> (the request of the k-th exchange),       *)
(* <<"resp", k>> (the backend's answer to it), Hooked (a hook's            *)
(* replacement), Empty (empty, not nil) or Nil (a nil slice).  Addresses are  *)
(* left out of the hook payload.  The backend answers every request it    *)
(* gets, in order, but may answer after the receive deadline.              *)
(***************************************************************************)
EXTENDS Naturals, Sequences

CONSTANTS
    Nil,            \* Go's nil (nil slice, nil map, nil error)
    MaxExchanges    \* bound on the PassThrough calls of the connection

\* Go's nil is none of the byte slices a variable can hold.
ASSUME RelayConstants ==
    /\ MaxExchanges \in Nat
    /\ Nil \notin {<<"empty", 0>>, <<"hook", 0>>} \cup ({"req", "resp"} \X Nat)

VARIABLES
    rpc,        \* where PassThrough is
    n,          \* PassThrough calls made
    backend,    \* "up" or "dropped": the backend closed the connection
    owed,       \* exchanges whose request the backend got and not answered
    readBytes,  \* what gconn.Next returned
    readErr,    \* the error kind of gconn.Next: "nil" or "error"
    request,    \* the request variable
    sentReq,    \* what client.Send was given
    received,   \* the byte count of client.Receive is not zero
    response,   \* the response variable (already cut to [:received])
    recvErr,    \* "none", "deadline" or "eof": what client.Receive returned
    res,        \* res[d]: the result the hooks of direction d returned
    hookErr,    \* the error kind returned by the last hookConfig.Run
    saw,        \* saw[d]: the "error" text the hooks of direction d were given
    written,    \* what gconn.AsyncWrite was given, Nil before it
    ret         \* what PassThrough returned

vars == <<rpc, n, backend, owed, readBytes, readErr, request, sentReq, received,
          response, recvErr, res, hookErr, saw, written, ret>>

Directions == {"request", "response"}

Empty == <<"empty", 0>>
Hooked == <<"hook", 0>>

-----------------------------------------------------------------------------
(* trafficData and extractField (network/utils.go).                         *)

\* The kinds of the err argument: a nil interface, a *gerr.GatewayDError
\* (nil or not, an interface holding it is not nil), an error, a string,
\* anything else.
ErrKinds == {"nil", "gerr", "error", "string", "other"}

\* Go's empty string "" (and an empty []byte under a hook's field).
NoText == "empty"

\* The texts trafficData puts under "error".
TrafficTexts == {NoText, "error text", "string text", "formatted value"}

\* Mutant: the error case left empty like the *gerr.GatewayDError one.
TrafficDataDropsError(fieldName, fieldValue, err) ==
    [field |-> fieldName, value |-> fieldValue,
     error |-> CASE err \in {"nil", "gerr", "error"} -> NoText
               []   err = "string"                   -> "string text"
               []   err = "other"                    -> "formatted value"]

\* trafficData: the payload a hook is given.  The type switch has an empty
\* case for *gerr.GatewayDError, so that error is reported as "" (NoText).
TrafficData(fieldName, fieldValue, err) ==
    [field |-> fieldName, value |-> fieldValue,
     error |-> CASE err \in {"nil", "gerr"} -> NoText
               []   err = "error"           -> "error text"
               []   err = "string"          -> "string text"
               []   err = "other"           -> "formatted value"]

\* What hookConfig.Run can return: a nil map, or a map whose field is
\* missing, not a []byte, replaced ("hook", or ""), or the one it was given
\* ("echo"), and whose "error" is missing, not a string, "" or a message.
HookResults ==
    {Nil} \cup [val : {"absent", "notbytes", "hook", NoText, "echo"},
                err : {"absent", "notstring", NoText, "message"}]

\* extractField: the []byte under fieldName, if there is one, and the
\* error message if it is a non-empty string.
ExtractField(result, payload) ==
    IF result = Nil THEN <<Nil, NoText>>
    ELSE <<CASE result.val = "hook"                -> Hooked
           []   result.val = NoText                -> Empty
           []   result.val = "echo"                -> payload.value
           []   result.val \in {"absent", "notbytes"} -> Nil,
           IF result.err = "message" THEN "message" ELSE NoText>>

\* Mutant: only a non-empty replacement is used.
SupersededNonEmpty(m, v) == IF m \notin {Nil, Empty} THEN m ELSE v

\* The bytes that a hook's result leaves in place of v.
Superseded(m, v) == IF m # Nil THEN m ELSE v

-----------------------------------------------------------------------------

Init ==
    /\ rpc = "idle"
    /\ n = 0
    /\ backend = "up"
    /\ owed = <<>>
    /\ readBytes = Nil /\ readErr = "nil"
    /\ request = Nil /\ sentReq = Nil
    /\ received = FALSE /\ response = Nil /\ recvErr = "none"
    /\ res = [d \in Directions |-> Nil] /\ hookErr = "nil"
    /\ saw = [d \in Directions |-> NoText]
    /\ written = Nil
    /\ ret = [kind |-> "none", cause |-> "nil"]

\* The database closes its side of the connection; what it owed is lost.
BackendDrop ==
    /\ backend = "up"
    /\ backend' = "dropped"
    /\ owed' = <<>>
    /\ UNCHANGED <<rpc, n, readBytes, readErr, request, sentReq, received,
                   response, recvErr, res, hookErr, saw, written, ret>>

\* The busy pool has the binding (the Proxy module covers ErrClientNotFound);
\* gconn.Next(-1) returns the buffered request, or an error (logged) and
\* no bytes.
Read ==
    /\ rpc = "idle" /\ n < MaxExchanges
    /\ n' = n + 1
    /\ \/ readBytes' = <<"req", n + 1>> /\ readErr' = "nil"
       \/ readBytes' = Nil /\ readErr' = "error"
    /\ request' = readBytes'
    /\ rpc' = "ingress"
    /\ written' = Nil /\ ret' = [kind |-> "none", cause |-> "nil"]
    /\ UNCHANGED <<backend, owed, sentReq, received, response, recvErr, res,
                   hookErr, saw>>

\* The OnIngressTraffic or OnEgressTraffic hooks on payload: the result, its
\* extracted replacement for direction d, the error of hookConfig.Run.
RunHooks(d, payload, v) ==
    \E result \in HookResults, herr \in {"nil", "gerr"} :
        LET m == ExtractField(result, payload)[1] IN
        /\ v' = Superseded(m, payload.value)
        /\ res' = [res EXCEPT ![d] = result]
        /\ hookErr' = herr
        /\ saw' = [saw EXCEPT ![d] = payload.error]

\* Hooks on trafficData(gconn, client, "request", request, origErr); a hook
\* error and a reported message are logged; a non-nil replacement becomes
\* the request.
Ingress ==
    /\ rpc = "ingress"
    /\ RunHooks("request", TrafficData("request", request, readErr), request)
    /\ rpc' = "send"
    /\ UNCHANGED <<n, backend, owed, readBytes, readErr, sentReq, received,
                   response, recvErr, written, ret>>

\* client.Send(request); its error is logged.  The backend owes an answer
\* to every non-empty request it gets.
Send ==
    /\ rpc = "send"
    /\ sentReq' = request
    /\ owed' = IF request \in {Nil, Empty} \/ backend = "dropped" THEN owed
               ELSE Append(owed, n)
    /\ rpc' = "receive"
    /\ UNCHANGED <<n, backend, readBytes, readErr, request, received,
                   response, recvErr, res, hookErr, saw, written, ret>>

\* client.Receive: the oldest answer the backend owes, or nothing before
\* the deadline; once the backend dropped, 0 bytes and io.EOF: then Close,
\* NewClient, Remove and Put bind a fresh client, and this exchange goes
\* on with an empty response.
Receive ==
    /\ rpc = "receive"
    /\ IF backend = "dropped"
         THEN /\ received' = FALSE /\ response' = Empty /\ recvErr' = "eof"
              /\ backend' = "up"
              /\ UNCHANGED owed
         ELSE /\ \/ /\ owed # <<>>
                    /\ received' = TRUE /\ recvErr' = "none"
                    /\ response' = <<"resp", Head(owed)>>
                    /\ owed' = Tail(owed)
                 \/ /\ received' = FALSE /\ response' = Empty /\ recvErr' = "deadline"
                    /\ UNCHANGED owed
              /\ UNCHANGED backend
    /\ rpc' = "egress"
    /\ UNCHANGED <<n, readBytes, readErr, request, sentReq, res, hookErr,
                   saw, written, ret>>

\* Hooks on trafficData(gconn, client, "response", response[:received], err),
\* err being Receive's *gerr.GatewayDError, and err becomes the hooks'
\* error; a non-nil replacement becomes the response.
Egress ==
    /\ rpc = "egress"
    /\ RunHooks("response", TrafficData("response", response, "gerr"), response)
    /\ rpc' = "write"
    /\ UNCHANGED <<n, backend, owed, readBytes, readErr, request, sentReq,
                   received, recvErr, written, ret>>

\* gconn.AsyncWrite(response[:received], ...).  When the submission fails,
\* PassThrough returns ErrServerSendFailed wrapping err, the hooks' error.
Write ==
    /\ rpc = "write"
    /\ \/ /\ written' = response
          /\ ret' = [kind |-> "ok", cause |-> "nil"]
       \/ /\ written' = Nil
          /\ ret' = [kind |-> "ServerSendFailed", cause |-> hookErr]
    /\ rpc' = "idle"
    /\ UNCHANGED <<n, backend, owed, readBytes, readErr, request, sentReq,
                   received, response, recvErr, res, hookErr, saw>>

\* The connection has made its last exchange.
Done == rpc = "idle" /\ n = MaxExchanges /\ UNCHANGED vars

Next == BackendDrop \/ Read \/ Ingress \/ Send \/ Receive \/ Egress \/ Write
        \/ Done

Spec == Init /\ [][Next]_vars

-----------------------------------------------------------------------------
(* Properties.                                                              *)

Slices == {Nil, Empty, Hooked} \cup ({"req", "resp"} \X Nat)

\* Type invariant of the relay.
TypeOK ==
    /\ rpc \in {"idle", "ingress", "send", "receive", "egress", "write"}
    /\ n \in 0..MaxExchanges
    /\ backend \in {"up", "dropped"}
    /\ owed \in Seq(1..MaxExchanges)
    /\ {readBytes, request, sentReq, response, written} \subseteq Slices
    /\ res \in [Directions -> HookResults]
    /\ readErr \in {"nil", "error"} /\ hookErr \in {"nil", "gerr"}
    /\ recvErr \in {"none", "deadline", "eof"} /\ received \in BOOLEAN
    /\ saw \in [Directions -> TrafficTexts]
    /\ ret \in [kind : {"none", "ok", "ServerSendFailed"},
                cause : {"nil", "gerr", "write error"}]

(***************************************************************************)
(* Spec, PassThrough steps 3 and 4: a hook's replacement of the request,   *)
(* and only a hook's, reaches the backend; without one, the bytes read     *)
(* from the inbound connection do.  Concerns trafficData, extractField on  *)
(* every shape of hook result, and the nil test before the replacement:   *)
(* an empty replacement is a replacement.                                  *)
(***************************************************************************)
RequestSuperseded ==
    rpc \in {"receive", "egress", "write"} =>
        sentReq = IF res["request"] # Nil /\ res["request"].val = "hook"
                    THEN Hooked
                  ELSE IF res["request"] # Nil /\ res["request"].val = NoText
                    THEN Empty
                  ELSE readBytes

(***************************************************************************)
(* Spec, PassThrough step 3: the ingress hooks are told of a failed read   *)
(* of the inbound connection, through the "error" field of trafficData.    *)
(***************************************************************************)
IngressSeesReadError ==
    rpc \in {"send", "receive", "egress", "write"} =>
        (saw["request"] # NoText <=> readErr = "error")

(***************************************************************************)
(* Spec, PassThrough step 8: a failed AsyncWrite submission is returned as *)
(* ServerSendFailed wrapping the underlying cause, the write's error.      *)
(***************************************************************************)
SendFailureWrapsCause ==
    ret.kind = "ServerSendFailed" => ret.cause = "write error"

(***************************************************************************)
(* Spec, ordering of PassThrough: each exchange's response depends on its  *)
(* own request, so the inbound peer is never written the backend's answer  *)
(* to an earlier request.  Concerns Receive after a deadline that left an  *)
(* answer in flight.                                                       *)
(***************************************************************************)
NoStaleResponse ==
    written \notin {<<"resp", k>> : k \in 1..(n - 1)}

(***************************************************************************)
(* Spec, user-visible behaviour: a backend disconnect is invisible to the  *)
(* inbound peer beyond the reconnection's latency, so an exchange that     *)
(* met the backend's EOF still writes the peer an answer (unless a hook    *)
(* replaced the response).                                                 *)
(***************************************************************************)
ReconnectAnswers ==
    (/\ ret.kind = "ok" /\ recvErr = "eof"
     /\ (res["response"] = Nil \/ res["response"].val \in {"absent", "notbytes"})) =>
        written \notin {Nil, Empty}

=============================================================================
