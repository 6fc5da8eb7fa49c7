------------------------------- MODULE Gateway -------------------------------
(***************************************************************************)
(* The two servers of a process from the arrival of a request to its       *)
(* reply: the token and session checks in front of the HTTP routes, the    *)
(* interceptor in front of the gRPC methods, the binding of parameters,    *)
(* the call of a service and the answer.  It composes the start of the     *)
(* process, the session store and the tickets.  What the services do with  *)
(* a call is in the other modules; here they succeed or fail in one of     *)
(* their ways.  Strings are names, "" is the empty one.                    *)
(***************************************************************************)
EXTENDS Ticket, Startup, Integers

CONSTANTS
    AsksOf,        \* [Requests -> set of asks]: what each request may ask
    HasKey,        \* auth.rsa_public_key is configured
    ServiceTag,    \* auth.service_tag
    MaxRestarts    \* bound on the restarts of the process

Sends == {"SendToUser", "SendToUsers", "SendToAll"}
Ones == {"MarkRead", "DeleteNotify"}
Batches == {"BatchMarkRead", "BatchDeleteNotify"}
Pages == {"GetPersonalPage", "GetTenantPage"}
WebOps == {"Dashboard", "Index", "LoginPage"}
RPCOnly == {"GetUserNotifyStats", "Connect"}
Ops == Sends \cup Ones \cup Batches \cup Pages \cup WebOps \cup RPCOnly \cup {"ApplyTicket", "Subscribe"}

\* num is the sender type of a send and the category of a one-click operation;
\* api tells a fetch from the load of a page.
AskFields == {"form", "op", "token", "cookie", "tenant", "num", "targets", "ttl", "index", "size", "api"}

ASSUME AsksAssumption ==
    \A q \in Requests : \A a \in AsksOf[q] :
        /\ DOMAIN a = AskFields
        /\ a.form \in {"http", "grpc", "web", "stream"} /\ a.op \in Ops
        /\ a.num \in Int /\ a.targets \in Nat /\ a.ttl \in Int /\ a.index \in Int /\ a.size \in Int
        /\ a.token # None => a.token.exp \in Nat \cup {None}

VARIABLES
    ask,       \* of each request: what it asks, or None
    began,     \* when it arrived
    tenantID,  \* TenantIDKey of its context: the tenant of its credential
    call,      \* the service call it makes, or None
    reply,     \* its reply, or None
    restarts

askVars == <<ask, began, tenantID, call, reply>>
vars == <<sessionVars, ticketVars, startVars, askVars, restarts>>

Init ==
    /\ SessionInit /\ TicketInit /\ StartInit
    /\ ask = [q \in Requests |-> None]
    /\ began = [q \in Requests |-> None]
    /\ tenantID = [q \in Requests |-> ""]
    /\ call = [q \in Requests |-> None]
    /\ reply = [q \in Requests |-> None]
    /\ restarts = 0

-----------------------------------------------------------------------------
(* Replies: pkg/httpcode, pkg/response and the status of a gRPC call *)

Success == 0
BadRequest == 400
Unauthorized == 401
Forbidden == 403
NotFound == 404
InternalError == 500   \* DBError has the same number

\* kind: how it is answered; code: what the client sees; cause: the category of
\* the error that the service or the adapter returned.
OkResp == [kind |-> "json", code |-> Success, cause |-> Success]
ErrResp(c) == [kind |-> "json", code |-> InternalError, cause |-> c]
Status401 == [kind |-> "json", code |-> Unauthorized, cause |-> Unauthorized]
Empty == [kind |-> "empty", code |-> Success, cause |-> BadRequest]
File(name) == [kind |-> name, code |-> Success, cause |-> Success]
Redirect(name) == [kind |-> name, code |-> 302, cause |-> Success]

\* grpc: an error without a status of its own is sent as Unknown.
RPCStatus(c) ==
    [kind |-> "rpc", cause |-> c,
     code |-> CASE c = Success -> 0 [] c = Unauthorized -> 16 [] OTHER -> 2]

Answer(q, r) ==
    /\ reply' = [reply EXCEPT ![q] = r]
    /\ Goto(q, "done")

\* The reply to an error or a success of a service.
Respond(q, c) ==
    Answer(q, IF ask[q].form = "grpc" THEN RPCStatus(c) ELSE IF c = Success THEN OkResp ELSE ErrResp(c))

-----------------------------------------------------------------------------
(* Credentials: jwtutil.ValidateToken, middleware.AuthMiddleware, TokenInterceptor *)

\* Mutant: the expiry of a token is not looked at, as with WithoutClaimsValidation.
ValidateTokenNoExp(token, time) == token.sig /\ token.tag = ServiceTag

\* The signature (RS256), exp if there is one, and the tag.
ValidateToken(token, time) ==
    /\ token.sig
    /\ token.exp # None => time < token.exp
    /\ ServiceTag # "" /\ token.tag = ServiceTag

ValidTokenOf(q) == HasKey /\ ask[q].token # None /\ ValidateToken(ask[q].token, now)

\* Mutant: what the request says comes first.
ResolveTenantIDBody(credential, body) == IF body # "" THEN body ELSE credential

\* The tenant of the credential, or else of the body.
ResolveTenantID(credential, body) == IF credential # "" THEN credential ELSE body

-----------------------------------------------------------------------------
(* The adapters: handler/*.go and service/grpc.go *)

Int8(v) == ((v + 128) % 256) - 128

\* BindAndValidate with the vd tags of the dto types.
BindOK(a) ==
    /\ a.tenant # ""
    /\ a.op \in Sends => a.num \in -128..127
    /\ a.op = "SendToUsers" => a.targets > 0
    /\ a.op \in Batches => a.num \in {0, 1}
    /\ a.op \in Pages => a.index > 0 /\ a.size \in 1..100

TargetCount(a) == CASE a.op = "SendToUser" -> 1 [] a.op = "SendToUsers" -> a.targets [] OTHER -> 0

\* The category of a one-click operation chooses the service's method.
BatchMethod(op, tenantWide) ==
    IF op = "BatchMarkRead" THEN (IF tenantWide THEN "TenantBatchMarkRead" ELSE "UserBatchMarkRead")
                            ELSE (IF tenantWide THEN "TenantBatchDelete" ELSE "UserBatchDelete")

\* Mutant: only page sizes are corrected.
PageArgsSizeOnly(index, size) == <<index, IF size < 1 THEN 10 ELSE size>>

\* GetPersonalPage, GetTenantPage: the corrections of the repository.
PageArgs(index, size) == <<IF index < 1 THEN 1 ELSE index, IF size < 1 THEN 10 ELSE size>>

Call(svc, tenant, args) == [svc |-> svc, tenant |-> tenant, args |-> args]

\* handler/sender.go, handler/status.go and hub.go, handler/inbox.go.
HTTPSend(a, tenant) == Call(a.op, tenant, <<a.num, TargetCount(a), a.ttl>>)

HTTPStatus(a, tenant) ==
    IF a.op \in Batches THEN Call(BatchMethod(a.op, a.num = 1), tenant, << >>) ELSE Call(a.op, tenant, << >>)

HTTPQuery(a, tenant) == Call(a.op, tenant, PageArgs(a.index, a.size))

HTTPCall(a, credential) ==
    LET tenant == ResolveTenantID(credential, a.tenant) IN
    CASE a.op \in Sends -> HTTPSend(a, tenant)
      [] a.op \in Pages -> HTTPQuery(a, tenant)
      [] OTHER -> HTTPStatus(a, tenant)

\* service/grpc.go: toSenderTypeCode keeps eight bits of the enumeration's number.
GRPCSend(a) == Call(a.op, a.tenant, <<Int8(a.num), TargetCount(a), a.ttl>>)

\* Mutant: the category is mistaken for the one of the user.
GRPCStatusSwapped(a) ==
    IF a.op \in Batches THEN Call(BatchMethod(a.op, a.num = 0), a.tenant, << >>) ELSE Call(a.op, a.tenant, << >>)

GRPCStatus(a) ==
    IF a.op \in Batches THEN Call(BatchMethod(a.op, a.num = 1), a.tenant, << >>) ELSE Call(a.op, a.tenant, << >>)

\* Pages, and the statistics and the connection test without arguments.
GRPCQuery(a) == Call(a.op, a.tenant, IF a.op \in Pages THEN PageArgs(a.index, a.size) ELSE << >>)

GRPCCall(a) ==
    CASE a.op \in Sends -> GRPCSend(a)
      [] a.op \in Pages \cup RPCOnly -> GRPCQuery(a)
      [] OTHER -> GRPCStatus(a)

\* validateSendProp, of a call <<sender type, number of targets, TTL>>.
SendPropOK(c) ==
    /\ c.tenant # ""
    /\ c.args[1] \in {0, 1}
    /\ c.args[3] >= 0
    /\ CASE c.svc = "SendToUser"  -> c.args[2] = 1
         [] c.svc = "SendToUsers" -> c.args[2] > 0
         [] c.svc = "SendToAll"   -> c.args[2] = 0

\* The categories that a call may end with: what the services return.
Outcomes(c) ==
    CASE c.svc \in Sends -> IF SendPropOK(c) THEN {Success, InternalError} ELSE {BadRequest}
      [] c.svc \in Ones  -> IF c.tenant = "" THEN {BadRequest}
                            ELSE {Success, BadRequest, NotFound, Forbidden, InternalError}
      [] c.svc = "Connect" -> {Success}
      [] OTHER -> {Success, InternalError}

-----------------------------------------------------------------------------
(* The process and the console *)

Start ==
    /\ Boot \/ BootFails \/ Listen
    /\ UNCHANGED <<sessionVars, ticketVars, askVars, restarts>>

\* The process ends, for whatever reason, and is started again.  Sessions and
\* requests in progress are lost, the keys in Redis are not; of a request that
\* was answered nothing remains but its ticket.
Restart ==
    /\ restarts < MaxRestarts
    /\ restarts' = restarts + 1
    /\ Vanish
    /\ at' = 1 /\ mode' = "starting" /\ grpc' = "none" /\ ready' = {}
    /\ pc' = [q \in Requests |-> IF pc[q] = "idle" THEN "idle" ELSE "lost"]
    /\ sid' = [q \in Requests |-> None] /\ entry' = sid' /\ uses' = sid' /\ late' = {}
    /\ ask' = sid' /\ began' = sid' /\ tenantID' = [q \in Requests |-> ""] /\ call' = sid' /\ reply' = sid'
    /\ UNCHANGED <<now, applied, key, stored, told, taken>>

\* Login with the right password (a refused one changes nothing), Logout and
\* the sweeper.
Console ==
    /\ mode = "serving"
    /\ \/ \E s \in Sessions : Create(s) \/ Delete(s)
       \/ SweepStart \/ Sweep
    /\ UNCHANGED <<now, pc, sid, entry, late, ticketVars, startVars, askVars, restarts>>

Time == Tick /\ UNCHANGED <<startVars, askVars, restarts>>

-----------------------------------------------------------------------------
(* A request *)

\* It arrives with a cookie, or presents a ticket, that a client was given.
Arrive(q, a) ==
    /\ pc[q] = "idle"
    /\ Up(a.form)
    /\ \E s \in IF a.cookie THEN {x \in Sessions : born[x] # None} ELSE {None} :
          /\ sid' = [sid EXCEPT ![q] = s]
          /\ late' = IF s \in ended THEN late \cup {q} ELSE late
    /\ \E t \in IF a.form = "stream" THEN {x \in Tickets : applied[x] = "given"} ELSE {uses[q]} :
          uses' = [uses EXCEPT ![q] = t]
    /\ ask' = [ask EXCEPT ![q] = a]
    /\ began' = [began EXCEPT ![q] = now]
    /\ Goto(q, CASE a.form = "stream" -> "verify" [] a.form = "web" -> "read" [] OTHER -> "token")
    /\ UNCHANGED <<now, storeVars, entry, applied, key, stored, told, taken, startVars, tenantID, call, reply, restarts>>

\* The token: the HTTP side falls back on the cookie, the gRPC side does not.
CheckToken(q) ==
    /\ pc[q] = "token"
    /\ IF ValidTokenOf(q)
       THEN /\ tenantID' = [tenantID EXCEPT ![q] = ask[q].token.tenant]
            /\ Goto(q, "bind")
            /\ UNCHANGED reply
       ELSE /\ IF ask[q].form = "grpc" THEN Answer(q, RPCStatus(Unauthorized))
                                       ELSE Goto(q, "read") /\ UNCHANGED reply
            /\ UNCHANGED tenantID
    /\ UNCHANGED <<now, storeVars, sid, entry, late, ticketVars, startVars, ask, began, call, restarts>>

Lookup(q) ==
    /\ GetRead(q) \/ GetCheck(q)
    /\ UNCHANGED <<ticketVars, startVars, askVars, restarts>>

\* A console session has no tenant; the console's own pages are answered here.
Admit(q) ==
    /\ pc[q] = "accepted"
    /\ IF ask[q].form = "http"
       THEN Goto(q, "bind") /\ UNCHANGED reply
       ELSE Answer(q, CASE ask[q].op = "Dashboard" -> OkResp
                        [] ask[q].op = "Index" -> File("index")
                        [] ask[q].op = "LoginPage" -> Redirect("index"))
    /\ UNCHANGED <<now, storeVars, sid, entry, late, ticketVars, startVars, ask, began, tenantID, call, restarts>>

\* AuthMiddleware, SessionMiddleware, the login page, HubHandler.Subscribe.
Reject(q) ==
    /\ pc[q] = "refused"
    /\ Answer(q, CASE ask[q].form = "http" -> Status401
                   [] ask[q].form = "stream" -> ErrResp(Unauthorized)
                   [] ask[q].form = "web" /\ ask[q].op = "LoginPage" -> File("login")
                   [] OTHER -> IF ask[q].api THEN Status401 ELSE Redirect("login"))
    /\ UNCHANGED <<now, storeVars, sid, entry, late, ticketVars, startVars, ask, began, tenantID, call, restarts>>

\* The handler: parameters that do not bind end it, for a ticket without any
\* reply; otherwise it calls its service.
Bind(q) ==
    LET a == ask[q] IN
    /\ pc[q] = "bind"
    /\ IF a.form = "http" /\ ~BindOK(a)
       THEN /\ Answer(q, IF a.op = "ApplyTicket" THEN Empty ELSE ErrResp(BadRequest))
            /\ UNCHANGED call
       ELSE /\ call' = [call EXCEPT ![q] = IF a.form = "http" THEN HTTPCall(a, tenantID[q]) ELSE GRPCCall(a)]
            /\ Goto(q, IF a.op = "ApplyTicket" THEN "apply" ELSE "call")
            /\ UNCHANGED reply
    /\ UNCHANGED <<now, storeVars, sid, entry, late, ticketVars, startVars, ask, began, tenantID, restarts>>

TicketStep(q) ==
    /\ \/ \E t \in Tickets : ApplyTicket(q, t)
       \/ StoreTicket(q) \/ StoreFails(q) \/ VerifyTicket(q) \/ VerifyFails(q)
    /\ UNCHANGED <<startVars, askVars, restarts>>

\* Mutant: the error of ApplyTicket is returned from without a reply.
ServeNoError(q) ==
    /\ \/ pc[q] = "call" /\ \E c \in Outcomes(call[q]) : Respond(q, c)
       \/ pc[q] = "stored" /\ Respond(q, Success)
    /\ UNCHANGED <<now, storeVars, sid, entry, late, ticketVars, startVars, ask, began, tenantID, call, restarts>>

\* The service returns, and the adapter answers.
Serve(q) ==
    /\ \/ pc[q] = "call" /\ \E c \in Outcomes(call[q]) : Respond(q, c)
       \/ pc[q] = "stored" /\ Respond(q, Success)
       \/ pc[q] = "notStored" /\ Respond(q, InternalError)
    /\ UNCHANGED <<now, storeVars, sid, entry, late, ticketVars, startVars, ask, began, tenantID, call, restarts>>

RequestStep(q) ==
    CheckToken(q) \/ Lookup(q) \/ Admit(q) \/ Reject(q) \/ Bind(q) \/ TicketStep(q) \/ Serve(q)

Next ==
    \/ Start \/ Restart \/ Console \/ Time
    \/ \E q \in Requests : RequestStep(q) \/ \E a \in AsksOf[q] : Arrive(q, a)

\* Go runs every goroutine that can run: main, the gRPC server, every handler.
Fairness == WF_vars(Start) /\ \A q \in Requests : WF_vars(RequestStep(q))

Spec == Init /\ [][Next]_vars /\ Fairness
-----------------------------------------------------------------------------
(* Properties *)

Called(q, form) == call[q] # None /\ ask[q].form = form

SameParameters(a, b) ==
    \A f \in {"op", "num", "targets", "ttl", "index", "size"} : a[f] = b[f]

\* The HTTP handlers and service/grpc.go translate one operation separately:
\* whenever both accept the same parameters they call the same method with the
\* same arguments, and for the same tenant if the HTTP credential names none.
SameCall ==
    \A q, r \in Requests :
        Called(q, "http") /\ Called(r, "grpc") /\ SameParameters(ask[q], ask[r]) =>
            /\ call[q].svc = call[r].svc /\ call[q].args = call[r].args
            /\ tenantID[q] = "" /\ ask[q].tenant = ask[r].tenant => call[q].tenant = call[r].tenant

\* The gRPC side does not validate pages: still, whatever a client sends on
\* either side, the query runs with a page index and size of at least one, so
\* that its OFFSET and LIMIT are not negative.
PageInRange ==
    \A q \in Requests :
        call[q] # None /\ call[q].svc \in Pages => call[q].args[1] >= 1 /\ call[q].args[2] >= 1

\* ResolveTenantID: a request that got in by a token with a tenant acts on that
\* tenant and not on the one in its body, also when the token expires while
\* the request is served; one that fell back on a session acts on its body's.
TenantOfCredential ==
    \A q \in Requests :
        Called(q, "http") =>
            \/ call[q].tenant = ask[q].tenant /\ (ask[q].token = None \/ ask[q].token.tenant = "" \/ sid[q] # None)
            \/ ask[q].token # None /\ ask[q].token.tenant # "" /\ call[q].tenant = ask[q].token.tenant

\* Whoever makes a call had, when the request arrived, a token in its time or a
\* session in its TTL, whichever of the two the fall back of AuthMiddleware
\* ends with and however long the checks take.
CalledInTime ==
    \A q \in Requests :
        call[q] # None =>
            \/ ask[q].token # None /\ (ask[q].token.exp = None \/ began[q] < ask[q].token.exp)
            \/ sid[q] # None /\ began[q] < born[sid[q]] + TTL

\* No path through the middleware, the handlers and the ticket service ends
\* without a reply or a stream: a request that a server took can always go on
\* until it has one, unless the process ends.  Since no step of a request leads
\* back, with Fairness every request is answered.
NeverStuck ==
    \A q \in Requests : pc[q] \notin {"idle", "done", "subscribed", "lost"} => ENABLED RequestStep(q)

\* pkg/httpcode describes code as the category of the error: the claim is that
\* the reply to a failed request carries the category that the failure had.
ErrorCategoryKept ==
    \A q \in Requests : reply[q] # None /\ reply[q].kind = "json" => reply[q].code = reply[q].cause
=============================================================================
