---------------------------- MODULE RelayProofs ----------------------------
(***************************************************************************)
(* Proofs about Relay for every bound on the exchanges: type correctness,  *)
(* that the backend is sent the request the ingress hooks chose, and that  *)
(* the ingress hooks are told of a failed read.                            *)
(***************************************************************************)
EXTENDS Relay, TLAPS

Post == {"send", "receive", "egress", "write"}

\* What extractField and the nil test leave in place of the read bytes.
ChosenRequest ==
    IF res["request"] # Nil /\ res["request"].val = "hook" THEN Hooked
    ELSE IF res["request"] # Nil /\ res["request"].val = NoText THEN Empty
    ELSE readBytes

\* TypeOK in four parts, apart from owed and received, so that each step
\* re-establishes only the part its action touches.
TCtl ==
    /\ rpc \in {"idle", "ingress", "send", "receive", "egress", "write"}
    /\ n \in 0..MaxExchanges
    /\ backend \in {"up", "dropped"}
TData ==
    /\ {readBytes, request, sentReq, response, written} \subseteq Slices
    /\ res \in [Directions -> HookResults]
TFlags ==
    /\ readErr \in {"nil", "error"} /\ hookErr \in {"nil", "gerr"}
    /\ recvErr \in {"none", "deadline", "eof"}
TObs ==
    /\ saw \in [Directions -> TrafficTexts]
    /\ ret \in [kind : {"none", "ok", "ServerSendFailed"},
                cause : {"nil", "gerr", "write error"}]

\* An exchange under way has counted its call to Read.
Counted == rpc # "idle" => n \in 1..MaxExchanges
\* The request is the read bytes until the ingress hooks ran ...
Unhooked == rpc = "ingress" => request = readBytes
\* ... and their choice after.
Chosen == rpc \in Post => request = ChosenRequest
\* Send passed the request on.
Passed == rpc \in Post \ {"send"} => sentReq = request
\* The ingress hooks saw trafficData's error for the read.
SawRead ==
    rpc \in Post =>
        saw["request"] = TrafficData("request", readBytes, readErr).error

\* The inductive invariant behind RequestSuperseded and IngressSeesReadError.
RInv == TypeOK /\ Counted /\ Unhooked /\ Chosen /\ Passed /\ SawRead

-----------------------------------------------------------------------------

\* The tags of the empty string and of the byte slices are distinct values;
\* the directions and the phases after the ingress hooks are fixed sets.
USE DEF NoText, Hooked, Empty, Directions, Post

\* The parts of RelayConstants the proofs use: the bound is a number, and
\* nil is neither the empty nor a hook's replacement slice.
LEMMA MaxNat == MaxExchanges \in Nat
BY RelayConstants

LEMMA NilNotReplacement == Nil # Hooked /\ Nil # Empty
BY RelayConstants

\* extractField and the nil test: a hook's "hook" or empty bytes (NoText)
\* replace the bytes, every other result (nil map, missing field, not
\* bytes, the bytes given) leaves them.
LEMMA SupersededChoice ==
    ASSUME NEW result \in HookResults, NEW p, p.value \in Slices
    PROVE  Superseded(ExtractField(result, p)[1], p.value) =
               IF result # Nil /\ result.val = "hook" THEN Hooked
               ELSE IF result # Nil /\ result.val = NoText THEN Empty
               ELSE p.value
<1> USE NilNotReplacement
<1>1. CASE result = Nil
    BY <1>1 DEF ExtractField, Superseded
<1> DEFINE m == ExtractField(result, p)[1]
<1>2. CASE result # Nil /\ result.val = "hook"
    <2>1. m = Hooked
        BY <1>2, Zenon DEF ExtractField
    <2>. QED
        BY <1>2, <2>1 DEF Superseded
<1>3. CASE result # Nil /\ result.val = NoText
    <2>1. m = Empty
        BY <1>3, Zenon DEF ExtractField
    <2>. QED
        BY <1>3, <2>1 DEF Superseded
<1>4. CASE result # Nil /\ result.val = "echo"
    <2>1. m = p.value
        BY <1>4, Zenon DEF ExtractField
    <2>. QED
        BY <1>4, <2>1 DEF Superseded
<1>5. CASE result # Nil /\ result.val \in {"absent", "notbytes"}
    <2>1. m = Nil
        BY <1>5, Zenon DEF ExtractField
    <2>. QED
        BY <1>5, <2>1 DEF Superseded
<1>. QED
    BY <1>1, <1>2, <1>3, <1>4, <1>5 DEF HookResults

\* trafficData carries the bytes it is given, and one of its texts, empty
\* exactly for no error and for a *gerr.GatewayDError.
LEMMA TrafficDataType ==
    ASSUME NEW f, NEW v, NEW e \in ErrKinds
    PROVE  /\ TrafficData(f, v, e).value = v
           /\ TrafficData(f, v, e).error \in TrafficTexts
           /\ TrafficData(f, v, e).error # NoText <=> e \in {"error", "string", "other"}
<1>1. TrafficData(f, v, e).value = v
    BY DEF TrafficData
<1>2. CASE e \in {"nil", "gerr"}
    BY <1>2, Zenon DEF TrafficData, TrafficTexts
<1>3. CASE e = "error"
    BY <1>3, Zenon DEF TrafficData, TrafficTexts
<1>4. CASE e = "string"
    BY <1>4, Zenon DEF TrafficData, TrafficTexts
<1>5. CASE e = "other"
    BY <1>5, Zenon DEF TrafficData, TrafficTexts
<1>. QED
    BY <1>1, <1>2, <1>3, <1>4, <1>5 DEF ErrKinds

\* TypeOK is its parts.
LEMMA TypeSplit ==
    ASSUME TypeOK
    PROVE  /\ TCtl /\ TData /\ TFlags /\ TObs
           /\ owed \in Seq(1..MaxExchanges) /\ received \in BOOLEAN
BY DEF TypeOK, TCtl, TData, TFlags, TObs

LEMMA TypeJoin ==
    ASSUME TCtl', TData', TFlags', TObs',
           owed' \in Seq(1..MaxExchanges), received' \in BOOLEAN
    PROVE  TypeOK'
BY DEF TypeOK, TCtl, TData, TFlags, TObs

LEMMA NilInSlices == Nil \in Slices
BY DEF Slices

LEMMA InitRInv == Init => RInv
<1> SUFFICES ASSUME Init PROVE RInv
    OBVIOUS
<1>1. owed \in Seq(1..MaxExchanges)
    BY DEF Init
<1>2. TData
    BY DEF Init, TData, Slices, HookResults
<1>3. TObs
    BY DEF Init, TObs, TrafficTexts
<1>4. TCtl /\ TFlags
    BY MaxNat DEF Init, TCtl, TFlags
<1>5. received \in BOOLEAN
    BY DEF Init
<1>6. TypeOK
    BY <1>1, <1>2, <1>3, <1>4, <1>5 DEF TypeOK, TCtl, TData, TFlags, TObs
<1>7. rpc = "idle"
    BY DEF Init
<1>. QED
    BY <1>6, <1>7 DEF RInv, Counted, Unhooked, Chosen, Passed, SawRead

\* Each step keeps RInv: one step per action, and under it the parts of
\* TypeOK that the action changes, then the rest of the invariant.
LEMMA NextRInv == RInv /\ [Next]_vars => RInv'
<1> SUFFICES ASSUME RInv, [Next]_vars PROVE RInv'
    OBVIOUS
<1>t. /\ TCtl /\ TData /\ TFlags /\ TObs
      /\ owed \in Seq(1..MaxExchanges) /\ received \in BOOLEAN
    BY TypeSplit DEF RInv
<1>s. owed \in Seq(1..MaxExchanges)
    BY <1>t
<1>i. Counted /\ Unhooked /\ Chosen /\ Passed /\ SawRead
    BY DEF RInv
<1>0. received' \in BOOLEAN
    BY <1>t DEF Next, vars, BackendDrop, Read, Ingress, Send, Receive,
       Egress, Write, Done
<1> SUFFICES /\ TCtl' /\ TData' /\ TFlags' /\ TObs'
             /\ owed' \in Seq(1..MaxExchanges)
             /\ (Counted /\ Unhooked /\ Chosen /\ Passed /\ SawRead)'
    BY <1>0, TypeJoin DEF RInv
<1>1. CASE BackendDrop
    <2>1. TCtl' /\ TData' /\ TFlags' /\ TObs'
        BY <1>t, <1>1 DEF BackendDrop, TCtl, TData, TFlags, TObs
    <2>2. owed' \in Seq(1..MaxExchanges)
        BY <1>1 DEF BackendDrop
    <2>3. (Counted /\ Unhooked /\ Chosen /\ Passed /\ SawRead)'
        BY <1>i, <1>1 DEF BackendDrop, Counted, Unhooked, Chosen, Passed,
           SawRead, ChosenRequest
    <2>. QED
        BY <2>1, <2>2, <2>3
<1>2. CASE Read
    <2>1. TCtl' /\ TFlags'
        BY <1>t, <1>2, MaxNat DEF Read, TCtl, TFlags
    <2>5. n + 1 \in Nat
        BY <1>t, MaxNat DEF TCtl
    <2>6. <<"req", n + 1>> \in Slices
        BY <2>5 DEF Slices
    <2>7. readBytes' \in Slices /\ written' \in Slices
        BY <1>2, <2>6, NilInSlices DEF Read
    <2>8. TData'
        BY <1>t, <1>2, <2>7 DEF Read, TData
    <2>9. TObs'
        BY <1>t, <1>2 DEF Read, TObs
    <2>2. TData' /\ TObs'
        BY <2>8, <2>9
    <2>3. owed' \in Seq(1..MaxExchanges)
        BY <1>t, <1>2 DEF Read
    <2>4. (Counted /\ Unhooked /\ Chosen /\ Passed /\ SawRead)'
        BY <1>t, <1>2, MaxNat DEF Read, TCtl, Counted, Unhooked, Chosen,
           Passed, SawRead
    <2>. QED
        BY <2>1, <2>2, <2>3, <2>4
<1>3. CASE Ingress
    <2>1. PICK result \in HookResults, herr \in {"nil", "gerr"} :
            LET p == TrafficData("request", request, readErr)
                m == ExtractField(result, p)[1] IN
            /\ request' = Superseded(m, p.value)
            /\ res' = [res EXCEPT !["request"] = result]
            /\ hookErr' = herr
            /\ saw' = [saw EXCEPT !["request"] = p.error]
        BY <1>3 DEF Ingress, RunHooks
    <2> DEFINE p == TrafficData("request", request, readErr)
    <2>2. request = readBytes
        BY <1>i, <1>3 DEF Ingress, Unhooked
    <2>3. p.value = readBytes /\ p.error \in TrafficTexts
        BY <1>t, <2>2, TrafficDataType DEF TFlags, ErrKinds
    <2>4. request' = ChosenRequest'
        BY <1>t, <1>3, <2>1, <2>3, SupersededChoice
           DEF Ingress, ChosenRequest, TData
    <2>5. request' \in Slices
        BY <1>t, <2>1, <2>3, SupersededChoice DEF TData, Slices
    <2>6. TCtl' /\ TFlags'
        BY <1>t, <1>3, <2>1 DEF Ingress, TCtl, TFlags
    <2>7. TData' /\ TObs'
        BY <1>t, <1>3, <2>1, <2>3, <2>5 DEF Ingress, TData, TObs
    <2>8. owed' \in Seq(1..MaxExchanges)
        BY <1>t, <1>3 DEF Ingress
    <2>9. (Counted /\ Unhooked /\ Chosen /\ Passed /\ SawRead)'
        BY <1>i, <1>t, <1>3, <2>1, <2>2, <2>4
           DEF Ingress, TObs, Counted, Unhooked, Chosen, Passed, SawRead
    <2>. QED
        BY <2>6, <2>7, <2>8, <2>9
<1>4. CASE Send
    <2>1. n \in 1..MaxExchanges
        BY <1>i, <1>4 DEF Send, Counted
    <2>5. Append(owed, n) \in Seq(1..MaxExchanges)
        BY <1>s, <2>1
    <2>2. owed' \in Seq(1..MaxExchanges)
        BY <1>s, <1>4, <2>5 DEF Send
    <2>3. TCtl' /\ TData' /\ TFlags' /\ TObs'
        BY <1>t, <1>4 DEF Send, TCtl, TData, TFlags, TObs
    <2>4. (Counted /\ Unhooked /\ Chosen /\ Passed /\ SawRead)'
        BY <1>i, <1>4 DEF Send, Counted, Unhooked, Chosen, Passed, SawRead,
           ChosenRequest
    <2>. QED
        BY <2>2, <2>3, <2>4
<1>5. CASE Receive
    <2>1. owed # <<>> => /\ Head(owed) \in 1..MaxExchanges
                         /\ Tail(owed) \in Seq(1..MaxExchanges)
        BY <1>s, MaxNat
    <2>2. owed' \in Seq(1..MaxExchanges)
        BY <1>t, <1>5, <2>1 DEF Receive
    <2>3. TCtl' /\ TFlags'
        BY <1>t, <1>5 DEF Receive, TCtl, TFlags
    <2>6. owed # <<>> => <<"resp", Head(owed)>> \in Slices
        BY <2>1, MaxNat DEF Slices
    <2>7. {Empty} \subseteq Slices
        BY DEF Slices
    <2>4. TData' /\ TObs'
        BY <1>t, <1>5, <2>6, <2>7 DEF Receive, TData, TObs
    <2>5. (Counted /\ Unhooked /\ Chosen /\ Passed /\ SawRead)'
        BY <1>i, <1>5 DEF Receive, Counted, Unhooked, Chosen, Passed,
           SawRead, ChosenRequest
    <2>. QED
        BY <2>2, <2>3, <2>4, <2>5
<1>6. CASE Egress
    <2>1. PICK result \in HookResults, herr \in {"nil", "gerr"} :
            LET p == TrafficData("response", response, "gerr")
                m == ExtractField(result, p)[1] IN
            /\ response' = Superseded(m, p.value)
            /\ res' = [res EXCEPT !["response"] = result]
            /\ hookErr' = herr
            /\ saw' = [saw EXCEPT !["response"] = p.error]
        BY <1>6 DEF Egress, RunHooks
    <2> DEFINE p == TrafficData("response", response, "gerr")
    <2>2. p.value = response /\ p.error \in TrafficTexts
        BY TrafficDataType DEF ErrKinds
    <2>3. response' \in Slices
        BY <1>t, <2>1, <2>2, SupersededChoice DEF TData, Slices
    <2>9. res'["request"] = res["request"]
        BY <1>t, <2>1 DEF TData
    <2>10. saw'["request"] = saw["request"]
        BY <1>t, <2>1 DEF TObs
    <2>4. ChosenRequest' = ChosenRequest /\ saw'["request"] = saw["request"]
        BY <1>6, <2>9, <2>10 DEF Egress, ChosenRequest
    <2>5. TCtl' /\ TFlags'
        BY <1>t, <1>6, <2>1 DEF Egress, TCtl, TFlags
    <2>6. TData' /\ TObs'
        BY <1>t, <1>6, <2>1, <2>2, <2>3 DEF Egress, TData, TObs
    <2>7. owed' \in Seq(1..MaxExchanges)
        BY <1>t, <1>6 DEF Egress
    <2>8. (Counted /\ Unhooked /\ Chosen /\ Passed /\ SawRead)'
        BY <1>i, <1>6, <2>4 DEF Egress, Counted, Unhooked, Chosen, Passed,
           SawRead
    <2>. QED
        BY <2>5, <2>6, <2>7, <2>8
<1>7. CASE Write
    <2>4. written' \in Slices
        BY <1>t, <1>7, NilInSlices DEF Write, TData
    <2>5. TCtl' /\ TFlags'
        BY <1>t, <1>7 DEF Write, TCtl, TFlags
    <2>6. TData'
        BY <1>t, <1>7, <2>4 DEF Write, TData
    <2>8. ret' \in {[kind |-> "ok", cause |-> "nil"],
                    [kind |-> "ServerSendFailed", cause |-> hookErr]}
        BY <1>7 DEF Write
    <2>9. hookErr \in {"nil", "gerr"}
        BY <1>t DEF TFlags
    <2>10. ret' \in [kind : {"none", "ok", "ServerSendFailed"},
                     cause : {"nil", "gerr", "write error"}]
        <3>1. [kind |-> "ok", cause |-> "nil"]
                \in [kind : {"none", "ok", "ServerSendFailed"},
                     cause : {"nil", "gerr", "write error"}]
            OBVIOUS
        <3>2. [kind |-> "ServerSendFailed", cause |-> hookErr]
                \in [kind : {"none", "ok", "ServerSendFailed"},
                     cause : {"nil", "gerr", "write error"}]
            BY <2>9
        <3>. QED
            BY <2>8, <3>1, <3>2
    <2>7. TObs'
        BY <1>t, <1>7, <2>10 DEF Write, TObs
    <2>1. TCtl' /\ TData' /\ TFlags' /\ TObs'
        BY <2>5, <2>6, <2>7
    <2>2. owed' \in Seq(1..MaxExchanges)
        BY <1>t, <1>7 DEF Write
    <2>3. (Counted /\ Unhooked /\ Chosen /\ Passed /\ SawRead)'
        BY <1>7 DEF Write, Counted, Unhooked, Chosen, Passed, SawRead
    <2>. QED
        BY <2>1, <2>2, <2>3
<1>8. CASE Done \/ UNCHANGED vars
    BY <1>t, <1>i, <1>8 DEF Done, vars, TCtl, TData, TFlags, TObs, Counted,
       Unhooked, Chosen, Passed, SawRead, ChosenRequest
<1>. QED
    BY <1>1, <1>2, <1>3, <1>4, <1>5, <1>6, <1>7, <1>8 DEF Next

-----------------------------------------------------------------------------
(* The theorems.                                                           *)

\* Every variable of PassThrough's relay keeps its type: the phases, the
\* count of exchanges below its bound, the byte slices, the hooks' results
\* and the texts trafficData gave them, whatever the hooks return.
THEOREM RelayTypeCorrect == Spec => []TypeOK
<1>1. Init => RInv
    BY InitRInv
<1>2. RInv /\ [Next]_vars => RInv'
    BY NextRInv
<1>3. RInv => TypeOK
    BY DEF RInv
<1>. QED
    BY <1>1, <1>2, <1>3, PTL DEF Spec

\* RInv gives RequestSuperseded: Send passed on the request the ingress
\* hooks chose, and ChosenRequest is the choice the property names.
LEMMA RInvSuperseded == RInv => RequestSuperseded
BY DEF RInv, Chosen, Passed, ChosenRequest, RequestSuperseded

\* Spec, PassThrough steps 3 and 4: from Receive on, the backend was sent
\* the hook's replacement of the request if the ingress hooks gave one
\* (an empty one included), and the bytes read from the inbound connection
\* otherwise.  Concerns trafficData, extractField and the nil test before
\* client.Send, for every bound on the exchanges.
THEOREM RequestSupersededSafety == Spec => []RequestSuperseded
<1>1. Init => RInv
    BY InitRInv
<1>2. RInv /\ [Next]_vars => RInv'
    BY NextRInv
<1>3. RInv => RequestSuperseded
    BY RInvSuperseded
<1>. QED
    BY <1>1, <1>2, <1>3, PTL DEF Spec

\* RInv gives IngressSeesReadError: the hooks saw trafficData's text for
\* the read's error, which is empty exactly when the read succeeded.
LEMMA RInvSeesReadError == RInv => IngressSeesReadError
<1> SUFFICES ASSUME RInv, rpc \in Post
             PROVE  saw["request"] # NoText <=> readErr = "error"
    BY DEF IngressSeesReadError
<1>1. readErr \in {"nil", "error"}
    BY TypeSplit DEF RInv, TFlags
<1>2. saw["request"] = TrafficData("request", readBytes, readErr).error
    BY DEF RInv, SawRead
<1>3. TrafficData("request", readBytes, readErr).error # NoText
          <=> readErr \in {"error", "string", "other"}
    BY <1>1, TrafficDataType DEF ErrKinds
<1>. QED
    BY <1>1, <1>2, <1>3

\* Spec, PassThrough step 3: once the ingress hooks ran, they were told of
\* a failed gconn.Next through a non-empty "error" field of trafficData,
\* and of a successful one through an empty field, for every bound.
THEOREM IngressSeesReadErrorSafety == Spec => []IngressSeesReadError
<1>1. Init => RInv
    BY InitRInv
<1>2. RInv /\ [Next]_vars => RInv'
    BY NextRInv
<1>3. RInv => IngressSeesReadError
    BY RInvSeesReadError
<1>. QED
    BY <1>1, <1>2, <1>3, PTL DEF Spec

\* The step form of RequestSuperseded, about client.Send itself: no step
\* of Send hands the backend anything but what extractField and the nil
\* test left of the ingress hooks' result over the read bytes.
THEOREM SendCarriesChoice ==
    Spec => [][Send => sentReq' = ChosenRequest]_vars
<1>1. Spec => []RInv
    BY InitRInv, NextRInv, PTL DEF Spec
<1>2. RInv => [Send => sentReq' = ChosenRequest]_vars
    BY DEF RInv, Chosen, Send
<1>. QED
    BY <1>1, <1>2, PTL

=====
