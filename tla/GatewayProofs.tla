---------------------------- MODULE GatewayProofs ----------------------------
(***************************************************************************)
(* Proofs about Gateway: the start of the process, the session store, the  *)
(* tickets and the requests, for any set of requests and asks, any number  *)
(* of sessions, tickets and restarts, and any lives and clock.             *)
(***************************************************************************)
EXTENDS Gateway, TLAPS

USE SessionAssumption, TicketAssumption
USE DEF storeVars, sessionVars, ticketVars, startVars, askVars, Goto, Answer

-----------------------------------------------------------------------------
(* The inductive invariant, by component *)

Times == Nat \cup {None}

Places ==
    {"idle", "token", "read", "check", "accepted", "refused", "bind", "call", "apply", "store",
     "stored", "notStored", "verify", "subscribed", "done", "lost"}

\* Types of the clock, the store and the tickets.
StateTypes ==
    /\ now \in Nat
    /\ data \in [Sessions -> Times] /\ born \in [Sessions -> Times]
    /\ ended \in SUBSET Sessions
    /\ sweepAt \in Times
    /\ applied \in [Tickets -> {"no", "made", "given", "failed"}]
    /\ key \in [Tickets -> Times] /\ stored \in [Tickets -> Times] /\ told \in [Tickets -> Times]
    /\ taken \in SUBSET Tickets

\* Types of the requests; asks, tenants, calls and replies are any values.
RequestTypes ==
    /\ pc \in [Requests -> Places]
    /\ sid \in [Requests -> Sessions \cup {None}]
    /\ entry \in [Requests -> Times]
    /\ late \in SUBSET Requests
    /\ uses \in [Requests -> Tickets \cup {None}]
    /\ began \in [Requests -> Times]
    /\ ask = [q \in Requests |-> ask[q]]
    /\ tenantID = [q \in Requests |-> tenantID[q]]
    /\ call = [q \in Requests |-> call[q]]
    /\ reply = [q \in Requests |-> reply[q]]

\* A request that a server has taken asks what it may ask and arrived before
\* now; one that looks up a session or works on a ticket has one.
Taken(q) == pc[q] \notin {"idle", "lost"}

AskInv ==
    \A q \in Requests :
        /\ Taken(q) => ask[q] \in AsksOf[q] /\ began[q] \in Nat /\ began[q] <= now
        /\ pc[q] \in {"store", "verify", "subscribed"} => uses[q] \in Tickets

Types == StateTypes /\ RequestTypes /\ AskInv

\* Step i of main runs with the globals of the steps before it; the gRPC
\* goroutine exists only once its step has run.
ReadyBefore(i) == {g \in Globals : \E j \in 1..(i - 1) : Main[j] = g}

StartInv ==
    /\ at \in 1..(Len(Main) + 1)
    /\ mode \in {"starting", "serving", "halted"}
    /\ mode = "starting" => at <= Len(Main)
    /\ mode = "serving" => at = Len(Main) + 1
    /\ mode # "halted" => ready = ReadyBefore(at)
    /\ grpc # "none" => mode # "halted" /\ at >= 9

\* An entry of the store is of a session that has not ended, with the time of
\* its Login; the sweeper's time is past.
StoreInv ==
    /\ sweepAt # None => sweepAt <= now
    /\ \A s \in Sessions :
          /\ data[s] # None => data[s] = born[s] /\ s \notin ended
          /\ s \in ended => born[s] # None
    /\ LiveKept

\* A request looks at an entry with the time of its session's Login; one that
\* began after the Logout is never that far.
EntryInv ==
    \A q \in Requests :
        /\ pc[q] = "check" => sid[q] \in Sessions /\ entry[q] \in Nat /\ entry[q] = born[sid[q]]
        /\ q \in late => sid[q] \in ended /\ pc[q] \notin {"idle", "check", "accepted"}

\* One request stores a ticket, only given tickets are presented, and a stream
\* has taken the key of its ticket.
HolderInv ==
    /\ \A q \in Requests :
          /\ pc[q] = "store" => applied[uses[q]] = "made"
          /\ pc[q] = "verify" => applied[uses[q]] = "given"
          /\ pc[q] = "subscribed" => applied[uses[q]] = "given" /\ key[uses[q]] = None
    /\ \A q, r \in Requests : pc[q] = "store" /\ pc[r] = "store" /\ uses[q] = uses[r] => q = r
    /\ SingleUse

\* A key lives for ExpireSeconds from its SET, which the response's time does
\* not outlast; until then only a GETDEL removes it.
KeyInv ==
    \A t \in Tickets :
        /\ key[t] # None => stored[t] \in Nat /\ key[t] = stored[t] + ExpireSeconds /\ now < key[t]
        /\ applied[t] = "made" => told[t] \in Nat /\ told[t] <= now + ExpireSeconds
        /\ applied[t] = "given" => told[t] \in Nat /\ stored[t] \in Nat /\ told[t] <= stored[t] + ExpireSeconds
        /\ applied[t] = "given" /\ t \notin taken /\ now < told[t] => key[t] # None

\* The credential of a request that has got in.
InTime(q) ==
    \/ ask[q].token # None /\ (ask[q].token.exp = None \/ began[q] < ask[q].token.exp)
    \/ sid[q] # None /\ began[q] < born[sid[q]] + TTL

TenantKnown(q) ==
    \/ tenantID[q] = "" /\ (ask[q].token = None \/ ask[q].token.tenant = "" \/ sid[q] # None)
    \/ ask[q].token # None /\ tenantID[q] = ask[q].token.tenant

\* A call is what its adapter makes of the ask and the credential, none of
\* which changes any more.
CallOf(q) ==
    /\ sid[q] # None => born[sid[q]] # None
    /\ pc[q] \in {"idle", "token", "read", "check", "accepted"} => call[q] = None /\ tenantID[q] = ""
    /\ pc[q] = "accepted" => sid[q] # None /\ began[q] < born[sid[q]] + TTL
    /\ pc[q] = "bind" => InTime(q) /\ TenantKnown(q)
    /\ call[q] # None =>
          /\ InTime(q) /\ TenantKnown(q) /\ Taken(q)
          /\ ask[q].form = "http" => BindOK(ask[q]) /\ call[q] = HTTPCall(ask[q], tenantID[q])
          /\ ask[q].form # "http" => call[q] = GRPCCall(ask[q])

CallInv == \A q \in Requests : CallOf(q)

-----------------------------------------------------------------------------
(* Types *)

\* Initially everything is of its type.
LEMMA TypesInit == Init => Types
<1> SUFFICES ASSUME Init PROVE Types
    OBVIOUS
<1> USE DEF Init
<1>1. StateTypes
    BY DEF SessionInit, TicketInit, StateTypes, Times
<1>2. RequestTypes
    BY DEF SessionInit, TicketInit, RequestTypes, Times, Places
<1>3. AskInv
    BY DEF SessionInit, AskInv, Taken
<1> QED
    BY <1>1, <1>2, <1>3 DEF Types

\* The types of the clock, the store and the tickets, action by action.
LEMMA StateTypesStep == Types /\ [Next]_vars => StateTypes'
<1> SUFFICES ASSUME Types, [Next]_vars PROVE StateTypes'
    OBVIOUS
<1> USE DEF Types, StateTypes, RequestTypes, Times
<1>0. AskInv
    OBVIOUS
<1>1. CASE Start
    BY <1>1 DEF Start
<1>2. CASE Restart
    BY <1>2 DEF Restart, Vanish
<1>3. CASE Console
    BY <1>3 DEF Console, Create, Delete, SweepStart, Sweep
<1>4. CASE Time
    BY <1>4 DEF Time, Tick
<1>5. ASSUME NEW q \in Requests, CheckToken(q) \/ Admit(q) \/ Reject(q) \/ Bind(q) \/ Serve(q)
      PROVE  StateTypes'
    BY <1>5 DEF CheckToken, Admit, Reject, Bind, Serve
<1>6. ASSUME NEW q \in Requests, Lookup(q) PROVE StateTypes'
    BY <1>6 DEF Lookup, GetRead, GetCheck
<1>7. ASSUME NEW q \in Requests, TicketStep(q) PROVE StateTypes'
    BY <1>0, <1>7 DEF AskInv, TicketStep, ApplyTicket, StoreTicket, StoreFails, SetKey, VerifyTicket, VerifyFails
<1>8. ASSUME NEW q \in Requests, NEW a \in AsksOf[q], Arrive(q, a) PROVE StateTypes'
    BY <1>8 DEF Arrive
<1>9. CASE UNCHANGED vars
    BY <1>9 DEF vars
<1> QED
    BY <1>1, <1>2, <1>3, <1>4, <1>5, <1>6, <1>7, <1>8, <1>9 DEF Next, RequestStep

\* The types of the requests, action by action.
LEMMA RequestTypesStep == Types /\ [Next]_vars => RequestTypes'
<1> SUFFICES ASSUME Types, [Next]_vars PROVE RequestTypes'
    OBVIOUS
<1> USE DEF Types, RequestTypes, Times, Places
<1>1. CASE Start
    BY <1>1 DEF Start
<1>2. CASE Restart
    BY <1>2 DEF Restart
<1>3. CASE Console
    BY <1>3 DEF Console
<1>4. CASE Time
    BY <1>4 DEF Time, Tick
<1>5. ASSUME NEW q \in Requests, CheckToken(q) \/ Admit(q) \/ Reject(q) \/ Bind(q) \/ Serve(q)
      PROVE  RequestTypes'
    BY <1>5 DEF CheckToken, Admit, Reject, Bind, Serve, Respond
<1>6. ASSUME NEW q \in Requests, Lookup(q) PROVE RequestTypes'
    BY <1>6 DEF Lookup, GetRead, GetCheck, StateTypes
<1>7. ASSUME NEW q \in Requests, TicketStep(q) PROVE RequestTypes'
    BY <1>7 DEF TicketStep, ApplyTicket, StoreTicket, StoreFails, VerifyTicket, VerifyFails
<1>8. ASSUME NEW q \in Requests, NEW a \in AsksOf[q], Arrive(q, a) PROVE RequestTypes'
    <2>1. PICK s \in Sessions \cup {None} : sid' = [sid EXCEPT ![q] = s] /\ late' \in {late, late \cup {q}}
        BY <1>8 DEF Arrive
    <2>2. PICK t \in Tickets \cup {None} : uses' = [uses EXCEPT ![q] = t]
        BY <1>8 DEF Arrive
    <2>3. pc' \in [Requests -> Places]
        BY <1>8 DEF Arrive
    <2> QED
        BY <1>8, <2>1, <2>2, <2>3 DEF Arrive, StateTypes
<1>9. CASE UNCHANGED vars
    BY <1>9 DEF vars
<1> QED
    BY <1>1, <1>2, <1>3, <1>4, <1>5, <1>6, <1>7, <1>8, <1>9 DEF Next, RequestStep

\* What a request that a server has taken carries, action by action.
LEMMA AskStep == Types /\ [Next]_vars => AskInv'
<1> SUFFICES ASSUME Types, [Next]_vars PROVE AskInv'
    OBVIOUS
<1> USE DEF Types, RequestTypes, StateTypes, AskInv, Taken, Places
<1>1. CASE Start
    BY <1>1 DEF Start
<1>2. CASE Restart
    BY <1>2 DEF Restart
<1>3. CASE Console
    BY <1>3 DEF Console
<1>4. CASE Time
    BY <1>4 DEF Time, Tick
<1>5. ASSUME NEW q \in Requests, CheckToken(q) \/ Admit(q) \/ Reject(q) \/ Bind(q) \/ Serve(q)
      PROVE  AskInv'
    BY <1>5 DEF CheckToken, Admit, Reject, Bind, Serve, Respond
<1>6. ASSUME NEW q \in Requests, Lookup(q) PROVE AskInv'
    BY <1>6 DEF Lookup, GetRead, GetCheck
<1>7. ASSUME NEW q \in Requests, TicketStep(q) PROVE AskInv'
    BY <1>7 DEF TicketStep, ApplyTicket, StoreTicket, StoreFails, VerifyTicket, VerifyFails
<1>8. ASSUME NEW q \in Requests, NEW a \in AsksOf[q], Arrive(q, a) PROVE AskInv'
    BY <1>8 DEF Arrive
<1>9. CASE UNCHANGED vars
    BY <1>9 DEF vars
<1> QED
    BY <1>1, <1>2, <1>3, <1>4, <1>5, <1>6, <1>7, <1>8, <1>9 DEF Next, RequestStep

LEMMA TypesStep == Types /\ [Next]_vars => Types'
BY StateTypesStep, RequestTypesStep, AskStep DEF Types

-----------------------------------------------------------------------------
(* The start of the process *)

\* The steps of main, by number.
LEMMA MainSteps ==
    /\ Len(Main) = 10
    /\ Main[1] = "config" /\ Main[2] = "ttl" /\ Main[3] = "logger" /\ Main[4] = "redis" /\ Main[5] = "db"
    /\ Main[6] = "dispatcher" /\ Main[7] = "cleanup" /\ Main[8] = "grpc" /\ Main[9] = "routes"
    /\ Main[10] = "console"
BY DEF Main

\* Nothing is set before the first step.
LEMMA NothingBefore == ReadyBefore(1) = {}
BY 1..(1 - 1) = {} DEF ReadyBefore

\* A step adds its global to those of the steps before it.
LEMMA ReadyGrows ==
    ASSUME NEW i \in 1..10
    PROVE  ReadyBefore(i + 1) = ReadyBefore(i) \cup Gives(Main[i])
BY DEF ReadyBefore, Gives

\* What a step needs has been set by the steps before it.
LEMMA NeedsMet ==
    ASSUME NEW i \in 1..10
    PROVE  Needs(Main[i]) \subseteq ReadyBefore(i)
<1> USE MainSteps DEF Needs, ReadyBefore, Globals
<1>1. CASE i \in 1..5
    BY <1>1
<1>2. CASE i = 6
    BY <1>2, 4 \in 1..(6 - 1)
<1>3. CASE i = 7
    BY <1>3, 5 \in 1..(7 - 1)
<1>4. CASE i \in 8..9
    BY <1>4, 4 \in 1..(i - 1), 5 \in 1..(i - 1), 6 \in 1..(i - 1)
<1>5. CASE i = 10
    BY <1>5, 6 \in 1..(10 - 1)
<1> QED
    BY <1>1, <1>2, <1>3, <1>4, <1>5

\* From the step of the gRPC server on, every global is set.
LEMMA AllReady ==
    ASSUME NEW i \in 9..11
    PROVE  ReadyBefore(i) = Globals
BY MainSteps, 1 \in 1..(i - 1), 2 \in 1..(i - 1), 4 \in 1..(i - 1), 5 \in 1..(i - 1), 6 \in 1..(i - 1)
   DEF ReadyBefore, Globals

LEMMA StartStep == StartInv /\ [Next]_vars => StartInv'
<1> SUFFICES ASSUME StartInv, [Next]_vars PROVE StartInv'
    OBVIOUS
<1>1. ASSUME Boot PROVE StartInv'
    <2>1. at \in 1..10 /\ ready = ReadyBefore(at) /\ mode = "starting"
        BY <1>1, MainSteps DEF Boot, StartInv
    <2>2. Needs(Main[at]) \subseteq ready
        BY <2>1, NeedsMet
    <2>3. /\ at' = at + 1 /\ mode' = IF at = 10 THEN "serving" ELSE "starting"
          /\ ready' = ready \cup Gives(Main[at])
          /\ grpc' = IF Main[at] = "grpc" THEN "starting" ELSE grpc
        BY <1>1, <2>1, <2>2, MainSteps DEF Boot
    <2>4. ready' = ReadyBefore(at')
        BY <2>1, <2>3, ReadyGrows
    <2>5. grpc' # "none" => at' >= 9
        BY <2>1, <2>3, MainSteps DEF StartInv
    <2> QED
        BY <2>1, <2>3, <2>4, <2>5, MainSteps DEF StartInv
<1>2. ASSUME BootFails PROVE StartInv'
    <2>1. at \in 1..10 /\ at < 9 /\ grpc = "none"
        BY <1>2, MainSteps DEF BootFails, StartInv, Fallible
    <2> QED
        BY <1>2, <2>1, MainSteps DEF BootFails, StartInv
<1>3. ASSUME Listen PROVE StartInv'
    BY <1>3 DEF Listen, StartInv
<1>4. CASE Restart
    <2>1. at' = 1 /\ mode' = "starting" /\ grpc' = "none" /\ ready' = {}
        BY <1>4 DEF Restart
    <2>2. ready' = ReadyBefore(at')
        BY <2>1, NothingBefore
    <2> QED
        BY <2>1, <2>2, MainSteps DEF StartInv
<1>5. CASE UNCHANGED startVars
    BY <1>5 DEF StartInv
<1>6. Start \/ Restart \/ UNCHANGED startVars
    BY DEF Next, RequestStep, Console, Time, Arrive, CheckToken, Lookup, Admit, Reject, Bind, TicketStep, Serve, vars
<1> QED
    BY <1>1, <1>2, <1>3, <1>4, <1>5, <1>6 DEF Start

\* main and the gRPC goroutine: no getter is called before its global is set.
THEOREM InitialisedCorrect == Spec => []InitialisedBeforeUse
<1>1. Init => StartInv
    <2> SUFFICES ASSUME Init PROVE StartInv
        OBVIOUS
    <2>1. at = 1 /\ mode = "starting" /\ grpc = "none" /\ ready = {}
        BY DEF Init, StartInit
    <2>2. ready = ReadyBefore(at)
        BY <2>1, NothingBefore
    <2> QED
        BY <2>1, <2>2, MainSteps DEF StartInv
<1>2. StartInv => InitialisedBeforeUse
    <2> SUFFICES ASSUME StartInv PROVE InitialisedBeforeUse
        OBVIOUS
    <2>1. grpc = "listening" \/ mode = "serving" => at \in 9..11 /\ ready = ReadyBefore(at)
        BY MainSteps DEF StartInv
    <2> QED
        BY <2>1, AllReady DEF StartInv, InitialisedBeforeUse
<1> QED
    BY <1>1, <1>2, StartStep, PTL DEF Spec

-----------------------------------------------------------------------------
(* The session store *)

\* The store, its sweeper and the clock.
LEMMA StoreStep == Types /\ StoreInv /\ [Next]_vars => StoreInv'
<1> SUFFICES ASSUME Types, StoreInv, [Next]_vars PROVE StoreInv'
    OBVIOUS
<1> USE DEF Types, StateTypes, Times, StoreInv, LiveKept
<1>1. CASE Restart
    BY <1>1 DEF Restart, Vanish
<1>2. CASE Console
    <2>1. ASSUME NEW s \in Sessions, Create(s) PROVE StoreInv'
        BY <1>2, <2>1 DEF Console, Create
    <2>2. ASSUME NEW s \in Sessions, Delete(s) PROVE StoreInv'
        BY <1>2, <2>2 DEF Console, Delete
    <2>3. CASE SweepStart
        BY <1>2, <2>3 DEF Console, SweepStart
    <2>4. CASE Sweep
        BY <1>2, <2>4 DEF Console, Sweep, Expired
    <2> QED
        BY <1>2, <2>1, <2>2, <2>3, <2>4 DEF Console
<1>3. CASE Time
    BY <1>3 DEF Time, Tick
<1>4. CASE UNCHANGED <<now, storeVars>>
    BY <1>4
<1>5. Restart \/ Console \/ Time \/ UNCHANGED <<now, storeVars>>
    BY DEF Next, RequestStep, Start, Arrive, CheckToken, Lookup, GetRead, GetCheck, Admit, Reject, Bind, TicketStep,
           ApplyTicket, StoreTicket, StoreFails, VerifyTicket, VerifyFails, Serve, vars
<1> QED
    BY <1>1, <1>2, <1>3, <1>4, <1>5

LEMMA EntryStep == Types /\ StoreInv /\ EntryInv /\ [Next]_vars => EntryInv'
<1> SUFFICES ASSUME Types, StoreInv, EntryInv, [Next]_vars PROVE EntryInv'
    OBVIOUS
<1> USE DEF Types, StateTypes, RequestTypes, Times, StoreInv, EntryInv
<1>1. CASE Start
    BY <1>1 DEF Start
<1>2. CASE Restart
    BY <1>2 DEF Restart
<1>3. CASE Console
    BY <1>3 DEF Console, Create, Delete, SweepStart, Sweep
<1>4. CASE Time
    BY <1>4 DEF Time, Tick
<1>5. ASSUME NEW q \in Requests, CheckToken(q) \/ Admit(q) \/ Reject(q) \/ Bind(q) \/ Serve(q)
      PROVE  EntryInv'
    BY <1>5 DEF CheckToken, Admit, Reject, Bind, Serve, Respond
<1>6. ASSUME NEW q \in Requests, GetRead(q) PROVE EntryInv'
    BY <1>6 DEF GetRead
<1>7. ASSUME NEW q \in Requests, GetCheck(q) PROVE EntryInv'
    BY <1>7 DEF GetCheck
<1>8. ASSUME NEW q \in Requests, TicketStep(q) PROVE EntryInv'
    BY <1>8 DEF TicketStep, ApplyTicket, StoreTicket, StoreFails, VerifyTicket, VerifyFails
<1>9. ASSUME NEW q \in Requests, NEW a \in AsksOf[q], Arrive(q, a) PROVE EntryInv'
    BY <1>9 DEF Arrive
<1>10. CASE UNCHANGED vars
    BY <1>10 DEF vars
<1> QED
    BY <1>1, <1>2, <1>3, <1>4, <1>5, <1>6, <1>7, <1>8, <1>9, <1>10 DEF Next, RequestStep, Lookup

SessionInv == Types /\ StoreInv /\ EntryInv

LEMMA SessionInvariant == Spec => []SessionInv
<1>1. Init => SessionInv
    BY TypesInit DEF Init, SessionInit, SessionInv, StoreInv, LiveKept, EntryInv
<1>2. SessionInv /\ [Next]_vars => SessionInv'
    BY TypesStep, StoreStep, EntryStep DEF SessionInv
<1> QED
    BY <1>1, <1>2, PTL DEF Spec

\* Store.Delete and Get: a request that begins after the Logout of its session,
\* or after a restart, never gets in by that session.
THEOREM LogoutCorrect == Spec => []NoUseAfterLogout
<1>1. SessionInv => NoUseAfterLogout
    BY DEF SessionInv, Types, RequestTypes, EntryInv, NoUseAfterLogout
<1> QED
    BY <1>1, SessionInvariant, PTL

\* sweep: with a time read before the lock, it removes no session in its TTL.
THEOREM SweepCorrect == Spec => []LiveKept
<1>1. SessionInv => LiveKept
    BY DEF SessionInv, StoreInv
<1> QED
    BY <1>1, SessionInvariant, PTL

\* Get: though the clock is read after the unlock, no request is accepted once
\* its session has reached its TTL.
THEOREM TTLCorrect == Spec => NeverPastTTL
<1> DEFINE InTTL == \A q \in Requests :
               pc[q] # "accepted" /\ pc'[q] = "accepted" => now < born[sid[q]] + TTL
<1>1. SessionInv /\ [Next]_vars => [InTTL]_sessionVars
    <2> SUFFICES ASSUME SessionInv, [Next]_vars, NEW q \in Requests, pc[q] # "accepted", pc'[q] = "accepted"
                 PROVE  now < born[sid[q]] + TTL
        OBVIOUS
    <2> USE DEF SessionInv, Types, RequestTypes
    <2>1. ASSUME NEW r \in Requests, GetCheck(r) PROVE now < born[sid[q]] + TTL
        BY <2>1 DEF GetCheck, Expired, EntryInv, StateTypes
    <2>2. \E r \in Requests : GetCheck(r)
        <3>2. ASSUME NEW r \in Requests, CheckToken(r) \/ Admit(r) \/ Reject(r) \/ Bind(r) \/ Serve(r) PROVE FALSE
            BY <3>2 DEF CheckToken, Admit, Reject, Bind, Serve, Respond
        <3>3. ASSUME NEW r \in Requests, TicketStep(r) \/ GetRead(r) PROVE FALSE
            BY <3>3 DEF TicketStep, ApplyTicket, StoreTicket, StoreFails, VerifyTicket, VerifyFails, GetRead
        <3>4. ASSUME NEW r \in Requests, NEW a \in AsksOf[r], Arrive(r, a) PROVE FALSE
            BY <3>4 DEF Arrive
        <3>5. ~(Start \/ Restart \/ Console \/ Time \/ UNCHANGED vars)
            BY DEF Start, Restart, Console, Time, Tick, vars
        <3> QED
            BY <3>2, <3>3, <3>4, <3>5 DEF Next, RequestStep, Lookup
    <2> QED
        BY <2>1, <2>2
<1> QED
    BY <1>1, SessionInvariant, PTL DEF Spec, NeverPastTTL

-----------------------------------------------------------------------------
(* Tickets *)

\* Which request holds which ticket.
LEMMA HolderStep == Types /\ HolderInv /\ [Next]_vars => HolderInv'
<1> SUFFICES ASSUME Types, HolderInv, [Next]_vars PROVE HolderInv'
    OBVIOUS
<1> USE DEF Types, StateTypes, RequestTypes, AskInv, HolderInv, SingleUse
<1>1. CASE Start
    BY <1>1 DEF Start
<1>2. CASE Restart
    BY <1>2 DEF Restart
<1>3. CASE Console
    BY <1>3 DEF Console
<1>4. CASE Time
    BY <1>4 DEF Time, Tick
<1>5. ASSUME NEW q \in Requests, CheckToken(q) \/ Admit(q) \/ Reject(q) \/ Bind(q) \/ Serve(q)
      PROVE  HolderInv'
    BY <1>5 DEF CheckToken, Admit, Reject, Bind, Serve, Respond
<1>6. ASSUME NEW q \in Requests, Lookup(q) PROVE HolderInv'
    BY <1>6 DEF Lookup, GetRead, GetCheck
<1>7. ASSUME NEW q \in Requests, NEW t \in Tickets, ApplyTicket(q, t) PROVE HolderInv'
    BY <1>7 DEF ApplyTicket
<1>8. ASSUME NEW q \in Requests, StoreTicket(q) \/ StoreFails(q) PROVE HolderInv'
    BY <1>8 DEF StoreTicket, StoreFails, SetKey
<1>9. ASSUME NEW q \in Requests, VerifyTicket(q) PROVE HolderInv'
    BY <1>9 DEF VerifyTicket
<1>10. ASSUME NEW q \in Requests, VerifyFails(q) PROVE HolderInv'
    BY <1>10 DEF VerifyFails
<1>11. ASSUME NEW q \in Requests, NEW a \in AsksOf[q], Arrive(q, a) PROVE HolderInv'
    BY <1>11 DEF Arrive
<1>12. CASE UNCHANGED vars
    BY <1>12 DEF vars
<1> QED
    BY <1>1, <1>2, <1>3, <1>4, <1>5, <1>6, <1>7, <1>8, <1>9, <1>10, <1>11, <1>12 DEF Next, RequestStep, TicketStep

\* How long the keys live.
LEMMA KeyStep == Types /\ HolderInv /\ KeyInv /\ [Next]_vars => KeyInv'
<1> SUFFICES ASSUME Types, HolderInv, KeyInv, [Next]_vars PROVE KeyInv'
    OBVIOUS
<1>0. \/ Time \/ UNCHANGED <<now, applied, key, stored, told, taken>>
      \/ \E q \in Requests : TicketStep(q)
    <2>1. ASSUME Start \/ Restart \/ Console \/ UNCHANGED vars
          PROVE  UNCHANGED <<now, applied, key, stored, told, taken>>
        BY <2>1 DEF Start, Restart, Console, vars
    <2>2. ASSUME NEW q \in Requests, CheckToken(q) \/ Lookup(q) \/ Admit(q) \/ Reject(q) \/ Bind(q) \/ Serve(q)
          PROVE  UNCHANGED <<now, applied, key, stored, told, taken>>
        BY <2>2 DEF CheckToken, Lookup, GetRead, GetCheck, Admit, Reject, Bind, Serve
    <2>3. ASSUME NEW q \in Requests, NEW a \in AsksOf[q], Arrive(q, a)
          PROVE  UNCHANGED <<now, applied, key, stored, told, taken>>
        BY <2>3 DEF Arrive
    <2> QED
        BY <2>1, <2>2, <2>3 DEF Next, RequestStep
<1> USE DEF Types, StateTypes, RequestTypes, AskInv, Times, HolderInv, KeyInv
<1>1. CASE Time
    BY <1>1 DEF Time, Tick
<1>2. ASSUME NEW q \in Requests, NEW t \in Tickets, ApplyTicket(q, t) PROVE KeyInv'
    BY <1>2 DEF ApplyTicket
<1>3. ASSUME NEW q \in Requests, StoreTicket(q) PROVE KeyInv'
    BY <1>3 DEF StoreTicket, SetKey
<1>4. ASSUME NEW q \in Requests, StoreFails(q) PROVE KeyInv'
    BY <1>4 DEF StoreFails, SetKey
<1>5. ASSUME NEW q \in Requests, VerifyTicket(q) \/ VerifyFails(q) PROVE KeyInv'
    BY <1>5 DEF VerifyTicket, VerifyFails
<1>6. CASE UNCHANGED <<now, applied, key, stored, told, taken>>
    BY <1>6
<1> QED
    BY <1>0, <1>1, <1>2, <1>3, <1>4, <1>5, <1>6 DEF TicketStep

TicketInv == Types /\ HolderInv /\ KeyInv

LEMMA TicketInvariant == Spec => []TicketInv
<1>1. Init => TicketInv
    BY TypesInit DEF Init, SessionInit, TicketInit, TicketInv, HolderInv, SingleUse, KeyInv
<1>2. TicketInv /\ [Next]_vars => TicketInv'
    BY TypesStep, HolderStep, KeyStep DEF TicketInv
<1> QED
    BY <1>1, <1>2, PTL DEF Spec

\* VerifyTicket: of all attempts with one ticket at most one opens a stream.
THEOREM SingleUseCorrect == Spec => []SingleUse
<1>1. TicketInv => SingleUse
    BY DEF TicketInv, HolderInv
<1> QED
    BY <1>1, TicketInvariant, PTL

\* ApplyTicket: a ticket that was handed out and not taken is good until the
\* time that its response names.
THEOREM UsableCorrect == Spec => []UsableUntilTold
<1>1. TicketInv => UsableUntilTold
    BY DEF TicketInv, KeyInv, UsableUntilTold
<1> QED
    BY <1>1, TicketInvariant, PTL

\* VerifyTicket: a stream is opened only while the ticket's time to live runs.
THEOREM OpenedInTimeCorrect == Spec => OpenedInTime
<1> DEFINE InTime1 == \A q \in Requests :
               pc[q] # "subscribed" /\ pc'[q] = "subscribed" =>
                   stored[uses[q]] # None /\ now < stored[uses[q]] + ExpireSeconds
<1>1. TicketInv /\ [Next]_vars => [InTime1]_<<sessionVars, ticketVars>>
    <2> SUFFICES ASSUME TicketInv, [Next]_vars, NEW q \in Requests, pc[q] # "subscribed", pc'[q] = "subscribed"
                 PROVE  stored[uses[q]] # None /\ now < stored[uses[q]] + ExpireSeconds
        OBVIOUS
    <2> USE DEF TicketInv, Types, RequestTypes
    <2>1. ASSUME NEW r \in Requests, VerifyTicket(r)
          PROVE  stored[uses[q]] # None /\ now < stored[uses[q]] + ExpireSeconds
        BY <2>1 DEF VerifyTicket, AskInv, KeyInv
    <2>2. \E r \in Requests : VerifyTicket(r)
        <3>1. ASSUME NEW r \in Requests, CheckToken(r) \/ Admit(r) \/ Reject(r) \/ Bind(r) \/ Serve(r) PROVE FALSE
            BY <3>1 DEF CheckToken, Admit, Reject, Bind, Serve, Respond
        <3>2. ASSUME NEW r \in Requests, NEW t \in Tickets, ApplyTicket(r, t) PROVE FALSE
            BY <3>2 DEF ApplyTicket
        <3>3. ASSUME NEW r \in Requests, Lookup(r) \/ StoreTicket(r) \/ StoreFails(r) \/ VerifyFails(r) PROVE FALSE
            BY <3>3 DEF Lookup, GetRead, GetCheck, StoreTicket, StoreFails, VerifyFails
        <3>4. ASSUME NEW r \in Requests, NEW a \in AsksOf[r], Arrive(r, a) PROVE FALSE
            BY <3>4 DEF Arrive
        <3>5. ~(Start \/ Restart \/ Console \/ Time \/ UNCHANGED vars)
            BY DEF Start, Restart, Console, Time, Tick, vars
        <3> QED
            BY <3>1, <3>2, <3>3, <3>4, <3>5 DEF Next, RequestStep, TicketStep
    <2> QED
        BY <2>1, <2>2
<1> QED
    BY <1>1, TicketInvariant, PTL DEF Spec, OpenedInTime

-----------------------------------------------------------------------------
(* The adapters: facts about the calls they make *)

\* The conversion of toSenderTypeCode keeps what fits in eight bits.
LEMMA Int8Keeps ==
    ASSUME NEW v \in -128..127
    PROVE  Int8(v) = v
BY DEF Int8

\* The tenant of an HTTP call.
LEMMA HTTPTenant ==
    ASSUME NEW a, NEW credential
    PROVE  HTTPCall(a, credential).tenant = ResolveTenantID(credential, a.tenant)
BY DEF HTTPCall, HTTPSend, HTTPQuery, HTTPStatus, Call

\* Only a page is asked for with a page's arguments, which are corrected.
LEMMA PageCorrected ==
    ASSUME NEW a, a.index \in Int, a.size \in Int, NEW credential
    PROVE  /\ HTTPCall(a, credential).svc \in Pages =>
                  HTTPCall(a, credential).args[1] >= 1 /\ HTTPCall(a, credential).args[2] >= 1
           /\ GRPCCall(a).svc \in Pages => GRPCCall(a).args[1] >= 1 /\ GRPCCall(a).args[2] >= 1
<1>1. CASE a.op \in Pages
    <2>1. HTTPCall(a, credential).args = PageArgs(a.index, a.size) /\ GRPCCall(a).args = PageArgs(a.index, a.size)
        BY <1>1 DEF HTTPCall, HTTPQuery, GRPCCall, GRPCQuery, Call, Pages, Sends
    <2> QED
        BY <2>1 DEF PageArgs
<1>2. CASE a.op \notin Pages
    <2>1. HTTPCall(a, credential).svc \notin Pages
        BY <1>2 DEF HTTPCall, HTTPSend, HTTPStatus, BatchMethod, Call, Pages
    <2>2. GRPCCall(a).svc \notin Pages
        BY <1>2 DEF GRPCCall, GRPCSend, GRPCQuery, GRPCStatus, BatchMethod, Call, Pages, RPCOnly
    <2> QED
        BY <2>1, <2>2
<1> QED
    BY <1>1, <1>2

\* One operation, translated twice.
LEMMA SameTranslation ==
    ASSUME NEW a, NEW b, SameParameters(a, b), BindOK(a), NEW credential
    PROVE  /\ HTTPCall(a, credential).svc = GRPCCall(b).svc
           /\ HTTPCall(a, credential).args = GRPCCall(b).args
           /\ ResolveTenantID(credential, a.tenant) = b.tenant => HTTPCall(a, credential).tenant = GRPCCall(b).tenant
<1> DEFINE T == ResolveTenantID(credential, a.tenant)
<1>0. /\ a.op = b.op /\ a.num = b.num /\ a.targets = b.targets /\ a.ttl = b.ttl
      /\ a.index = b.index /\ a.size = b.size
    BY DEF SameParameters
<1>1. ResolveTenantID(credential, a.tenant) = T
    OBVIOUS
<1> HIDE DEF T
<1>2. ASSUME NEW svc, NEW args, HTTPCall(a, credential) = Call(svc, T, args), GRPCCall(b) = Call(svc, b.tenant, args)
      PROVE  /\ HTTPCall(a, credential).svc = GRPCCall(b).svc
             /\ HTTPCall(a, credential).args = GRPCCall(b).args
             /\ ResolveTenantID(credential, a.tenant) = b.tenant => HTTPCall(a, credential).tenant = GRPCCall(b).tenant
    <2>1. ASSUME NEW tenant
          PROVE  /\ Call(svc, tenant, args).svc = svc /\ Call(svc, tenant, args).args = args
                 /\ Call(svc, tenant, args).tenant = tenant
        BY DEF Call
    <2> QED
        BY <1>1, <1>2, <2>1, Zenon
<1>3. CASE a.op \in Sends
    <2>1. Int8(b.num) = a.num
        BY <1>0, <1>3, Int8Keeps DEF BindOK
    <2>2. TargetCount(a) = TargetCount(b)
        BY <1>0 DEF TargetCount
    <2>3. HTTPCall(a, credential) = HTTPSend(a, T) /\ GRPCCall(b) = GRPCSend(b)
        BY <1>0, <1>3 DEF HTTPCall, GRPCCall, Sends, Pages, RPCOnly, T
    <2>4. HTTPSend(a, T) = Call(a.op, T, <<a.num, TargetCount(a), a.ttl>>)
        BY DEF HTTPSend
    <2>5. GRPCSend(b) = Call(a.op, b.tenant, <<a.num, TargetCount(a), a.ttl>>)
        BY <1>0, <2>1, <2>2 DEF GRPCSend
    <2> QED
        BY <1>2, <2>3, <2>4, <2>5
<1>4. CASE a.op \in Pages
    <2>1. HTTPCall(a, credential) = HTTPQuery(a, T) /\ GRPCCall(b) = GRPCQuery(b)
        BY <1>0, <1>4 DEF HTTPCall, GRPCCall, Sends, Pages, T
    <2>2. HTTPQuery(a, T) = Call(a.op, T, PageArgs(a.index, a.size))
        BY DEF HTTPQuery
    <2>3. GRPCQuery(b) = Call(a.op, b.tenant, PageArgs(a.index, a.size))
        BY <1>0, <1>4 DEF GRPCQuery
    <2> QED
        BY <1>2, <2>1, <2>2, <2>3
<1>5. CASE a.op \notin Sends \cup Pages
    <2>1. HTTPCall(a, credential) = HTTPStatus(a, T)
        BY <1>5 DEF HTTPCall, T
    <2>2. CASE a.op \in RPCOnly
        <3>1. GRPCCall(b) = GRPCQuery(b) /\ a.op \notin Batches
            BY <1>0, <1>5, <2>2 DEF GRPCCall, RPCOnly, Batches
        <3>2. HTTPStatus(a, T) = Call(a.op, T, << >>)
            BY <3>1 DEF HTTPStatus
        <3>3. GRPCQuery(b) = Call(a.op, b.tenant, << >>)
            BY <1>0, <1>5 DEF GRPCQuery
        <3> QED
            BY <1>2, <2>1, <3>1, <3>2, <3>3
    <2>3. CASE a.op \notin RPCOnly
        <3> DEFINE Svc == IF a.op \in Batches THEN BatchMethod(a.op, a.num = 1) ELSE a.op
        <3>1. GRPCCall(b) = GRPCStatus(b)
            BY <1>0, <1>5, <2>3 DEF GRPCCall
        <3>2. HTTPStatus(a, T) = Call(Svc, T, << >>)
            BY DEF HTTPStatus
        <3>3. GRPCStatus(b) = Call(Svc, b.tenant, << >>)
            BY <1>0 DEF GRPCStatus
        <3> HIDE DEF Svc
        <3> QED
            BY <1>2, <2>1, <3>1, <3>2, <3>3
    <2> QED
        BY <2>2, <2>3
<1> QED
    BY <1>3, <1>4, <1>5

-----------------------------------------------------------------------------
(* Requests *)

\* The credential of a request after a step that leaves it alone.
LEMMA CredentialFrame ==
    ASSUME Types, NEW q \in Requests, CallOf(q),
           sid'[q] = sid[q], ask'[q] = ask[q], began'[q] = began[q], tenantID'[q] = tenantID[q],
           \A s \in Sessions : born[s] # None => born'[s] = born[s]
    PROVE  /\ sid[q] # None => born'[sid[q]] = born[sid[q]]
           /\ InTime(q) => InTime(q)'
           /\ TenantKnown(q) => TenantKnown(q)'
<1>1. sid[q] # None => sid[q] \in Sessions /\ born'[sid[q]] = born[sid[q]]
    BY DEF Types, RequestTypes, CallOf
<1> QED
    BY <1>1 DEF InTime, TenantKnown

\* What a request carries after a step that leaves it alone, or moves it within
\* the places from which it makes no call.
LEMMA CallFrame ==
    ASSUME Types, NEW q \in Requests, CallOf(q),
           sid'[q] = sid[q], ask'[q] = ask[q], began'[q] = began[q], tenantID'[q] = tenantID[q], call'[q] = call[q],
           \A s \in Sessions : born[s] # None => born'[s] = born[s],
           \/ pc'[q] = pc[q]
           \/ Taken(q) /\ Taken(q)' /\ pc'[q] \notin {"token", "read", "check", "accepted", "bind"}
    PROVE  CallOf(q)'
BY CredentialFrame DEF CallOf, Taken

\* No action takes the time of a Login away.
LEMMA BornKept == Types /\ [Next]_vars => \A s \in Sessions : born[s] # None => born'[s] = born[s]
<1>0. SUFFICES ASSUME Types, [Next]_vars, NEW s \in Sessions, born[s] # None PROVE born'[s] = born[s]
    OBVIOUS
<1>1. CASE Console
    BY <1>0, <1>1 DEF Console, Create, Delete, SweepStart, Sweep, Types, StateTypes
<1>2. CASE UNCHANGED born
    BY <1>2
<1>3. Console \/ UNCHANGED born
    BY <1>0 DEF Next, RequestStep, Start, Restart, Vanish, Time, Tick, Arrive, CheckToken, Lookup, GetRead, GetCheck,
           Admit, Reject, Bind, TicketStep, ApplyTicket, StoreTicket, StoreFails, VerifyTicket, VerifyFails, Serve, vars
<1> QED
    BY <1>1, <1>2, <1>3

\* What a request carries, action by action.
LEMMA CallStep == SessionInv /\ CallInv /\ [Next]_vars => CallInv'
<1> SUFFICES ASSUME SessionInv, CallInv, [Next]_vars, NEW q \in Requests PROVE CallOf(q)'
    BY DEF CallInv
<1>0. Types /\ CallOf(q) /\ \A s \in Sessions : born[s] # None => born'[s] = born[s]
    BY BornKept DEF SessionInv, CallInv
<1>1. CASE UNCHANGED <<pc, sid, ask, began, tenantID, call>>
    BY <1>0, <1>1, CallFrame
<1>2. CASE Restart
    BY <1>2 DEF Restart, CallOf
<1>3. ASSUME NEW r \in Requests, RequestStep(r) \/ \E a \in AsksOf[r] : Arrive(r, a), r # q
      PROVE  CallOf(q)'
    <2>1. pc'[q] = pc[q] /\ sid'[q] = sid[q] /\ ask'[q] = ask[q] /\ began'[q] = began[q] /\ tenantID'[q] = tenantID[q]
             /\ call'[q] = call[q]
        BY <1>0, <1>3 DEF Types, RequestTypes, RequestStep, Arrive, CheckToken, Lookup, GetRead, GetCheck, Admit, Reject,
               Bind, TicketStep, ApplyTicket, StoreTicket, StoreFails, VerifyTicket, VerifyFails, Serve, Respond
    <2> QED
        BY <1>0, <2>1, CallFrame
<1> USE <1>0 DEF Types, RequestTypes
<1>4. ASSUME NEW a \in AsksOf[q], Arrive(q, a) PROVE CallOf(q)'
    BY <1>4 DEF Arrive, CallOf, StateTypes
<1>5. CASE CheckToken(q)
    <2>1. /\ sid'[q] = sid[q] /\ ask'[q] = ask[q] /\ began'[q] = began[q] /\ call'[q] = call[q] /\ call[q] = None
          /\ tenantID[q] = "" /\ UNCHANGED born /\ Taken(q)
        BY <1>5 DEF CheckToken, CallOf, Taken
    <2>2. CASE ValidTokenOf(q)
        <3>1. pc'[q] = "bind" /\ tenantID'[q] = ask[q].token.tenant /\ ask[q].token # None
            BY <1>5, <2>2 DEF CheckToken, ValidTokenOf
        <3>2. ask[q] \in AsksOf[q] /\ began[q] \in Nat /\ began[q] <= now /\ now \in Nat
            BY <2>1 DEF AskInv, StateTypes
        <3>3. ask[q].token.exp \in Nat \cup {None}
            BY <3>1, <3>2, AsksAssumption
        <3>4. ask[q].token.exp # None => now < ask[q].token.exp
            BY <2>2 DEF ValidTokenOf, ValidateToken
        <3>5. ask[q].token.exp = None \/ began[q] < ask[q].token.exp
            BY <3>2, <3>3, <3>4
        <3>6. InTime(q)' /\ TenantKnown(q)'
            BY <2>1, <3>1, <3>5 DEF InTime, TenantKnown
        <3> QED
            BY <2>1, <3>1, <3>6 DEF CallOf
    <2>3. CASE ~ValidTokenOf(q)
        <3>1. tenantID'[q] = tenantID[q] /\ pc'[q] \in {"read", "done"}
            BY <1>5, <2>3 DEF CheckToken
        <3> QED
            BY <2>1, <3>1 DEF CallOf
    <2> QED
        BY <2>2, <2>3
<1>6. CASE GetRead(q) /\ UNCHANGED askVars
    BY <1>6 DEF GetRead, CallOf
<1>7. CASE GetCheck(q) /\ UNCHANGED askVars
    <2>1. /\ sid'[q] = sid[q] /\ began'[q] = began[q] /\ UNCHANGED born /\ call'[q] = None /\ tenantID'[q] = ""
          /\ pc[q] = "check" /\ pc'[q] = IF now >= entry[q] + TTL THEN "refused" ELSE "accepted"
        BY <1>7 DEF GetCheck, Expired, CallOf
    <2>2. sid[q] # None /\ entry[q] = born[sid[q]] /\ began[q] \in Nat /\ began[q] <= now /\ entry[q] \in Nat
        BY <2>1 DEF SessionInv, EntryInv, AskInv, Taken
    <2>3. now \in Nat /\ (pc'[q] = "accepted" => ~(now >= entry[q] + TTL))
        BY <2>1 DEF StateTypes
    <2>4. pc'[q] = "accepted" => began[q] < entry[q] + TTL
        BY <2>2, <2>3
    <2> QED
        BY <2>1, <2>2, <2>4 DEF CallOf
<1>8. CASE Admit(q)
    <2>1. /\ sid'[q] = sid[q] /\ ask'[q] = ask[q] /\ began'[q] = began[q] /\ tenantID'[q] = "" /\ tenantID[q] = ""
          /\ call'[q] = None /\ UNCHANGED born /\ sid[q] # None /\ began[q] < born[sid[q]] + TTL
          /\ pc'[q] \in {"bind", "done"}
        BY <1>8 DEF Admit, CallOf
    <2>2. InTime(q)' /\ TenantKnown(q)'
        BY <2>1 DEF InTime, TenantKnown
    <2> QED
        BY <2>1, <2>2 DEF CallOf
<1>9. CASE Reject(q) \/ Serve(q)
    <2>1. /\ sid'[q] = sid[q] /\ ask'[q] = ask[q] /\ began'[q] = began[q] /\ tenantID'[q] = tenantID[q]
          /\ call'[q] = call[q] /\ Taken(q) /\ pc'[q] = "done"
        BY <1>9 DEF Reject, Serve, Respond, Taken
    <2> QED
        BY <2>1, CallFrame DEF Taken
<1>10. CASE Bind(q)
    <2>1. /\ sid'[q] = sid[q] /\ ask'[q] = ask[q] /\ began'[q] = began[q] /\ tenantID'[q] = tenantID[q]
          /\ UNCHANGED born /\ pc[q] = "bind" /\ pc'[q] \in {"done", "apply", "call"}
        BY <1>10 DEF Bind
    <2>2. InTime(q)' /\ TenantKnown(q)' /\ Taken(q)'
        BY <2>1, CredentialFrame DEF CallOf, Taken
    <2>3. CASE ask[q].form = "http" /\ ~BindOK(ask[q])
        BY <1>10, <2>1, <2>3, CallFrame DEF Bind, Taken
    <2>4. CASE ~(ask[q].form = "http" /\ ~BindOK(ask[q]))
        <3>1. call'[q] = IF ask[q].form = "http" THEN HTTPCall(ask[q], tenantID[q]) ELSE GRPCCall(ask[q])
            BY <1>10, <2>4 DEF Bind
        <3> QED
            BY <2>1, <2>2, <2>4, <3>1 DEF CallOf
    <2> QED
        BY <2>3, <2>4
<1>11. CASE TicketStep(q)
    <2>1. /\ sid'[q] = sid[q] /\ ask'[q] = ask[q] /\ began'[q] = began[q] /\ tenantID'[q] = tenantID[q]
          /\ call'[q] = call[q] /\ Taken(q) /\ pc'[q] \in {"store", "stored", "notStored", "refused", "subscribed"}
        BY <1>11 DEF TicketStep, ApplyTicket, StoreTicket, StoreFails, VerifyTicket, VerifyFails, Taken
    <2> QED
        BY <2>1, CallFrame DEF Taken
<1>12. Start \/ Console \/ Time \/ UNCHANGED vars => UNCHANGED <<pc, sid, ask, began, tenantID, call>>
    BY DEF Start, Console, Time, Tick, vars
<1>13. ASSUME NEW r \in Requests, RequestStep(r) \/ \E a \in AsksOf[r] : Arrive(r, a)
       PROVE  CallOf(q)'
    BY <1>3, <1>4, <1>5, <1>6, <1>7, <1>8, <1>9, <1>10, <1>11, <1>13 DEF RequestStep, Lookup
<1> QED
    BY <1>1, <1>2, <1>12, <1>13 DEF Next

RequestInv == SessionInv /\ CallInv

LEMMA RequestInvariant == Spec => []RequestInv
<1>1. Init => CallInv
    BY DEF Init, SessionInit, CallInv, CallOf
<1>2. CallInv /\ SessionInv /\ [Next]_vars => CallInv'
    BY CallStep
<1> QED
    BY <1>1, <1>2, SessionInvariant, PTL DEF Spec, RequestInv

\* The HTTP handlers and service/grpc.go: both make the same call of the same
\* parameters.
THEOREM SameCallCorrect == Spec => []SameCall
<1>1. RequestInv => SameCall
    <2> SUFFICES ASSUME RequestInv, NEW q \in Requests, NEW r \in Requests,
                        Called(q, "http"), Called(r, "grpc"), SameParameters(ask[q], ask[r])
                 PROVE  /\ call[q].svc = call[r].svc /\ call[q].args = call[r].args
                        /\ tenantID[q] = "" /\ ask[q].tenant = ask[r].tenant => call[q].tenant = call[r].tenant
        BY DEF SameCall
    <2>1. BindOK(ask[q]) /\ call[q] = HTTPCall(ask[q], tenantID[q]) /\ call[r] = GRPCCall(ask[r])
        BY DEF RequestInv, CallInv, CallOf, Called
    <2> DEFINE h == HTTPCall(ask[q], tenantID[q])
               g == GRPCCall(ask[r])
    <2>2. /\ h.svc = g.svc /\ h.args = g.args
          /\ ResolveTenantID(tenantID[q], ask[q].tenant) = ask[r].tenant => h.tenant = g.tenant
        BY <2>1, SameTranslation
    <2>3. tenantID[q] = "" => ResolveTenantID(tenantID[q], ask[q].tenant) = ask[q].tenant
        BY DEF ResolveTenantID
    <2> QED
        BY <2>1, <2>2, <2>3, Zenon
<1> QED
    BY <1>1, RequestInvariant, PTL

\* PageArgs: on either side a query runs with a page index and size of at
\* least one.
THEOREM PageInRangeCorrect == Spec => []PageInRange
<1>1. RequestInv => PageInRange
    <2> SUFFICES ASSUME RequestInv, NEW q \in Requests, call[q] # None, call[q].svc \in Pages
                 PROVE  call[q].args[1] >= 1 /\ call[q].args[2] >= 1
        BY DEF PageInRange
    <2>1. ask[q] \in AsksOf[q] /\ (call[q] = HTTPCall(ask[q], tenantID[q]) \/ call[q] = GRPCCall(ask[q]))
        BY DEF RequestInv, CallInv, CallOf, SessionInv, Types, AskInv
    <2>2. ask[q].index \in Int /\ ask[q].size \in Int
        BY <2>1, AsksAssumption
    <2> QED
        BY <2>1, <2>2, PageCorrected
<1> QED
    BY <1>1, RequestInvariant, PTL

\* ResolveTenantID: a request acts on the tenant of its token, or on that of its
\* body when its credential has none.
THEOREM TenantCorrect == Spec => []TenantOfCredential
<1>1. RequestInv => TenantOfCredential
    <2> SUFFICES ASSUME RequestInv, NEW q \in Requests, Called(q, "http")
                 PROVE  \/ /\ call[q].tenant = ask[q].tenant
                           /\ ask[q].token = None \/ ask[q].token.tenant = "" \/ sid[q] # None
                        \/ /\ ask[q].token # None /\ ask[q].token.tenant # ""
                           /\ call[q].tenant = ask[q].token.tenant
        BY DEF TenantOfCredential
    <2>1. call[q] = HTTPCall(ask[q], tenantID[q]) /\ TenantKnown(q)
        BY DEF RequestInv, CallInv, CallOf, Called
    <2>2. call[q].tenant = IF tenantID[q] # "" THEN tenantID[q] ELSE ask[q].tenant
        <3>1. HTTPCall(ask[q], tenantID[q]).tenant = ResolveTenantID(tenantID[q], ask[q].tenant)
            BY HTTPTenant, Zenon
        <3> QED
            BY <2>1, <3>1 DEF ResolveTenantID
    <2> QED
        BY <2>1, <2>2 DEF TenantKnown
<1> QED
    BY <1>1, RequestInvariant, PTL

\* AuthMiddleware, TokenInterceptor: whoever makes a call had, on arrival, a
\* token in its time or a session in its TTL.
THEOREM CalledInTimeCorrect == Spec => []CalledInTime
<1>1. RequestInv => CalledInTime
    BY DEF RequestInv, CallInv, CallOf, InTime, CalledInTime
<1> QED
    BY <1>1, RequestInvariant, PTL
=============================================================================
