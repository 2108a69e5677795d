------------------------------- MODULE Server -------------------------------
(***************************************************************************)
(* The life of the process around the middleware: main opens the database  *)
(* and, if it answers, Redis, Server.Run listens and waits for a signal or *)
(* an error, Shutdown drains the connections for ten seconds, and main     *)
(* closes what it opened.  logger.Fatal exits without closing anything.    *)
(***************************************************************************)
EXTENDS Middleware

CONSTANT MaxRequests  \* bound on the connections that a process accepts

ASSUME ServerAssumption == MaxRequests \in Nat

VARIABLES
    phase,      \* where main is
    listener,   \* "closed", "open", or "failed" with its error in errCh
    signalled,  \* whether ctx is done
    handles,    \* what main has opened and not closed
    exit,       \* how the last process ended
    accepted    \* connections accepted by this process

svars == <<mvars, phase, listener, signalled, handles, exit, accepted>>

lifecycle == <<phase, listener, signalled, handles, exit, accepted>>

Up == phase # "down"

\* The process ends, and with it every goroutine and all its memory.
Ends(how) ==
    /\ phase' = "down"
    /\ listener' = "closed"
    /\ signalled' = FALSE
    /\ handles' = {}
    /\ exit' = how
    /\ accepted' = 0
    /\ redis' = FALSE
    /\ job' = [w \in Workers |-> Idle]
    /\ lines' = <<>> /\ finished' = <<>>
    /\ Restart
    /\ UNCHANGED expired

\* The requests and the memory stay as they are.
KeepRequests ==
    /\ KeepLimiter /\ KeepLog
    /\ UNCHANGED <<expired, job, accepted, exit>>

-----------------------------------------------------------------------------
(* main *)

\* config.Load and logging.New, which may fail and exit with log.Fatalf.
Start ==
    /\ phase = "down"
    /\ phase' = "starting"
    /\ exit' = "none"
    /\ KeepLimiter /\ KeepLog
    /\ UNCHANGED <<redis, expired, job, listener, signalled, handles, accepted>>

StartFails == phase = "starting" /\ Ends("failure")

\* dbinfra.Connect pings with ctx: it fails once the signal is there.
ConnectDatabase ==
    /\ phase = "starting"
    /\ ~signalled
    /\ phase' = "connected"
    /\ handles' = {"database"}
    /\ KeepRequests
    /\ UNCHANGED <<redis, listener, signalled>>

\* Redis answers within five seconds, or the process does without it.
ConnectRedis ==
    /\ phase = "connected"
    /\ phase' = "serving"
    /\ \E found \in BOOLEAN :
        /\ redis' = found
        /\ handles' = IF found THEN handles \cup {"redis"} ELSE handles
    /\ KeepRequests
    /\ UNCHANGED <<listener, signalled>>

-----------------------------------------------------------------------------
(* Server.Run *)

\* The goroutine of ListenAndServe binds the port, or its error goes to errCh.
Listen ==
    /\ phase = "serving"
    /\ \/ listener = "closed" /\ listener' \in {"open", "failed"}
       \/ listener = "open" /\ listener' = "failed"  \* Accept fails for good
    /\ KeepRequests
    /\ UNCHANGED <<redis, phase, signalled, handles>>

\* SIGINT or SIGTERM; a second one changes nothing.
Signal ==
    /\ Up
    /\ ~signalled
    /\ signalled' = TRUE
    /\ KeepRequests
    /\ UNCHANGED <<redis, phase, listener, handles>>

\* case <-ctx.Done(): Shutdown closes the listener first.
BeginShutdown ==
    /\ phase = "serving"
    /\ signalled
    /\ phase' = "draining"
    /\ listener' = "closed"
    /\ KeepRequests
    /\ UNCHANGED <<redis, signalled, handles>>

\* Mutant of RunFails: main returns as if nothing had happened.
RunFailsQuietly == phase = "serving" /\ listener = "failed" /\ Ends("success")

\* case err := <-errCh: Run returns the error, and main calls logger.Fatal.
RunFails == phase = "serving" /\ listener = "failed" /\ Ends("failure")

\* Mutant of ShutdownDone: Close instead of Shutdown.
ShutdownAtOnce ==
    /\ phase = "draining"
    /\ phase' = "closing"
    /\ KeepRequests
    /\ UNCHANGED <<redis, listener, signalled, handles>>

\* Shutdown returns nil once it finds every connection idle.
ShutdownDone ==
    /\ phase = "draining"
    /\ \A w \in Workers : job[w] = Idle
    /\ phase' = "closing"
    /\ KeepRequests
    /\ UNCHANGED <<redis, listener, signalled, handles>>

\* Mutant of ShutdownTimeout: Shutdown gets a context without a deadline.
NoTimeout == FALSE

\* Ten seconds are over: Run returns the error, and main calls logger.Fatal.
ShutdownTimeout == phase = "draining" /\ Ends("failure")

\* The deferred calls, last one first: Redis, the database, and the exit.
CloseRedis ==
    /\ phase = "closing"
    /\ "redis" \in handles
    /\ handles' = handles \ {"redis"}
    /\ KeepRequests
    /\ UNCHANGED <<redis, phase, listener, signalled>>

CloseDatabase ==
    /\ phase = "closing"
    /\ handles = {"database"}
    /\ handles' = {}
    /\ KeepRequests
    /\ UNCHANGED <<redis, phase, listener, signalled>>

Return == phase = "closing" /\ handles = {} /\ Ends("success")

\* SIGKILL, or a panic outside of a handler.
Kill == Up /\ Ends("killed")

-----------------------------------------------------------------------------
(* Connections *)

Accept(w) ==
    /\ listener = "open"
    /\ job[w] = Idle
    /\ accepted < MaxRequests
    /\ accepted' = accepted + 1
    /\ job' = [job EXCEPT ![w] = NewConn]
    /\ KeepLimiter /\ KeepLog
    /\ UNCHANGED <<redis, expired, phase, listener, signalled, handles, exit>>

\* The client goes away, or Shutdown has waited five seconds for its request.
DropConnection(w) ==
    /\ job[w] = NewConn
    /\ Answered(w)
    /\ KeepLimiter /\ KeepLog
    /\ UNCHANGED <<redis, expired, lifecycle>>

\* A request that comes on an accepted connection is served, even in draining.
Serve(w) ==
    /\ \/ Preflight(w)
       \/ \E a \in Addresses, t \in Tokens \cup {None}, route \in Routes :
             RateLimitAddress(w, a, t, route)
       \/ Proceed(w)
    /\ UNCHANGED lifecycle

SInit ==
    /\ MInit
    /\ phase = "down"
    /\ listener = "closed"
    /\ signalled = FALSE
    /\ handles = {}
    /\ exit = "none"
    /\ accepted = 0

\* What main does by itself.
Main ==
    \/ StartFails \/ ConnectDatabase \/ ConnectRedis
    \/ BeginShutdown \/ RunFails \/ ShutdownDone \/ ShutdownTimeout
    \/ CloseRedis \/ CloseDatabase \/ Return

Connection(w) == Accept(w) \/ DropConnection(w) \/ Serve(w)

Time == (ClockTick \/ \E t \in Tokens : Expire(t)) /\ UNCHANGED lifecycle

SNext ==
    \/ Start \/ Main \/ Listen \/ Signal \/ Kill
    \/ \E w \in Workers : Connection(w)
    \/ Time

SSpec == SInit /\ [][SNext]_svars

\* main runs, and its timeouts expire; no handler and no client has to move.
RunningSpec == SSpec /\ WF_svars(Main)

-----------------------------------------------------------------------------
RequestsAt(step, users, statuses) ==
    [step : {step}, addr : Addresses, token : Tokens \cup {None}, route : Routes,
     user : users, passed : SUBSET Keys, status : statuses]

JobType ==
    {Idle, NewConn} \cup RequestsAt("user", Users, {0})
                    \cup RequestsAt("route", Users \cup {None}, {0})
                    \cup RequestsAt("log", Users \cup {None}, {200, 401, 403})

\* Every variable has its type, and the log buffer never outgrows its limit.
ServerTypeOK ==
    /\ TypeOK
    /\ redis \in BOOLEAN
    /\ expired \subseteq Tokens
    /\ job \in [Workers -> JobType]
    /\ lines \in Seq({200, 401, 403}) /\ Len(lines) <= Cap
    /\ finished \in Seq({200, 401, 403})
    /\ phase \in {"down", "starting", "connected", "serving", "draining", "closing"}
    /\ listener \in {"closed", "open", "failed"}
    /\ signalled \in BOOLEAN
    /\ handles \subseteq {"database", "redis"}
    /\ exit \in {"none", "success", "failure", "killed"}
    /\ accepted \in 0..MaxRequests

(***************************************************************************)
(* A request never meets a closed database, nor, if the limiters use it, a *)
(* closed Redis: main closes them (main.go:50, 57) only after Shutdown has *)
(* seen the last request off, and exits at once if it has not.             *)
(***************************************************************************)
HandlesOpen ==
    \A w \in Workers : InProgress(w) =>
        "database" \in handles /\ (redis => "redis" \in handles)

(***************************************************************************)
(* The exit status tells the truth: the process reports success only after *)
(* a signal, with no request cut off and nothing left open, whichever of   *)
(* the two ready cases select takes (server.go:36).                        *)
(***************************************************************************)
CleanExit ==
    [][Up /\ ~Up' /\ exit' = "success" =>
         /\ signalled
         /\ handles = {}
         /\ \A w \in Workers : ~InProgress(w)]_svars

(***************************************************************************)
(* A signal ends the process, whatever main is doing when it arrives and   *)
(* even if a request never finishes.                                       *)
(***************************************************************************)
SignalStops == signalled ~> ~Up
=============================================================================
