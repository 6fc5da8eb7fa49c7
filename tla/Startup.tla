------------------------------- MODULE Startup -------------------------------
(***************************************************************************)
(* The start of a process: main initialises its globals in a fixed order,  *)
(* builds the services, which take those globals, starts the gRPC server   *)
(* in a goroutine and at last serves HTTP.  A getter (GetConfig, GetDB,    *)
(* GetClient, GetGlobal) whose global is not set ends the process.         *)
(***************************************************************************)
EXTENDS Naturals, Sequences

\* The globals: the configuration, the clients, the dispatcher, and the
\* session time to live that was configured.
Globals == {"config", "ttl", "redis", "db", "dispatcher"}

\* Mutant: the servers are built before InitApp.
MainServersFirst ==
    <<"config", "ttl", "logger", "grpc", "routes", "redis", "db", "dispatcher", "cleanup", "console">>

\* main: LoadConfig, InitTTL, logger.Init, InitApp (three steps), StartDaily,
\* GetGRPCNotifyService and its goroutine, registerRoutes,
\* registerDashboardRoutes; h.Spin follows the last one.
Main == <<"config", "ttl", "logger", "redis", "db", "dispatcher", "cleanup", "grpc", "routes", "console">>

\* The steps whose error main reports before it waits for a key and returns.
Fallible == {"config", "logger", "redis", "db"}

\* What a step sets, and what the getters it calls need.
Gives(step) == {step} \cap Globals

Needs(step) ==
    CASE step \in {"grpc", "routes"} -> {"db", "redis", "dispatcher"}   \* NotifyStatusService has all three
      [] step = "cleanup" -> {"db"}
      [] step = "console" -> {"dispatcher"}                             \* InternalService
      [] step = "dispatcher" -> {"redis"}                               \* RedisBroker, in cluster mode
      [] OTHER -> {}

VARIABLES
    at,        \* the step of Main that is next
    mode,      \* "starting", "serving" (in h.Spin), "halted" or "crashed"
    grpc,      \* the goroutine: "none", "starting", "listening" or "waiting" (for a key)
    ready      \* the globals that are set

startVars == <<at, mode, grpc, ready>>

StartInit ==
    /\ at = 1
    /\ mode = "starting"
    /\ grpc = "none"
    /\ ready = {}

\* One step of main.
Boot ==
    /\ mode = "starting" /\ at <= Len(Main)
    /\ LET step == Main[at] IN
       IF Needs(step) \subseteq ready
       THEN /\ ready' = ready \cup Gives(step)
            /\ grpc' = IF step = "grpc" THEN "starting" ELSE grpc
            /\ at' = at + 1
            /\ mode' = IF at = Len(Main) THEN "serving" ELSE mode
       ELSE /\ mode' = "crashed"
            /\ UNCHANGED <<at, grpc, ready>>

\* A step fails; its global may be set all the same (InitRedis, InitDB).
BootFails ==
    /\ mode = "starting" /\ Main[at] \in Fallible
    /\ mode' = "halted"
    /\ ready' \in {ready, ready \cup Gives(Main[at])}
    /\ UNCHANGED <<at, grpc>>

\* The gRPC goroutine: net.Listen and Serve.  When the port is taken the
\* goroutine alone stops, whatever main does.
Listen ==
    /\ grpc = "starting" /\ mode \in {"starting", "serving"}
    /\ grpc' \in {"listening", "waiting"}
    /\ UNCHANGED <<at, mode, ready>>

\* A server takes requests.
Up(form) == IF form = "grpc" THEN grpc = "listening" /\ mode \in {"starting", "serving"} ELSE mode = "serving"

-----------------------------------------------------------------------------
(* Properties *)

\* No getter is called before its global is set: neither by main, in the order
\* of its steps, nor by a request that the gRPC goroutine takes while main still
\* registers the HTTP routes.  Each of them would end the process.
InitialisedBeforeUse ==
    /\ mode # "crashed"
    /\ grpc = "listening" \/ mode = "serving" => ready = Globals
=============================================================================
