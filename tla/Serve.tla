------------------------------- MODULE Serve -------------------------------
(***************************************************************************)
(* gotty serve, from the listener to the end of the process: waitSignals   *)
(* of cmd/serve.go, and the three goroutines of Server.Run: Run's own      *)
(* select, the one that serves, and the one that shuts down.  The three    *)
(* share the variable err of Run, which two of them assign.                *)
(* net/http (Serve, Shutdown, Close) is external.                          *)
(***************************************************************************)
EXTENDS Naturals, FiniteSets

CONSTANTS
  SvRequests,  \* REST requests that may come
  SvConns      \* WebSocket connections that may come

VARIABLES
  svSignals,   \* signals the process was sent, in order: "" | "int" | "term" | "int int"
  svMain,      \* waitSignals: "select" | "graceful" | "await" (<-errs) | "exited"
  svCtx,       \* the contexts that are cancelled, of {"ctx", "graceful"}
  svRun,       \* Server.Run: "listen" | "select" | "return" | "returned"
  svErr,       \* the variable err of Run: "nil" | "closed" | "canceled" | "failed"
  svServe,     \* the goroutine that serves: "idle" | "serving" | "send" | "sent" | "taken"
  svShutdown,  \* the one that shuts down: "idle" | "wait" | "drain" | "close" | "join" | "ended"
  svListening, \* the listener is open
  svHandlers,  \* requests being handled
  svSockets,   \* activeConns, counted by wsWG too
  svTold       \* connections that were closed with GoingAway

serveVars == <<svSignals, svMain, svCtx, svRun, svErr, svServe, svShutdown, svListening,
               svHandlers, svSockets, svTold>>

ServeInit ==
  /\ svSignals = "" /\ svMain = "select" /\ svCtx = {}
  /\ svRun = "listen" /\ svErr = "nil" /\ svServe = "idle" /\ svShutdown = "idle"
  /\ svListening = FALSE
  /\ svHandlers = {} /\ svSockets = {} /\ svTold = {}

\* Nothing of the program goes on once main returned.
Up == svMain # "exited"

-----------------------------------------------------------------------------
(* Server.Run.                                                               *)

RunListens ==
  /\ Up /\ svRun = "listen"
  /\ \/ /\ svListening' = TRUE /\ svServe' = "serving" /\ svShutdown' = "wait"
        /\ svRun' = "select" /\ svErr' = "nil"
     \/ svRun' = "return" /\ svErr' = "failed" /\ UNCHANGED <<svListening, svServe, svShutdown>>
  /\ UNCHANGED <<svSignals, svMain, svCtx, svHandlers, svSockets, svTold>>

\* Serve returns as soon as the listener is closed, or because it fails; it assigns err, the
\* variable of Run, and sends its value in a step of its own.
ServeReturns ==
  /\ Up /\ svServe = "serving"
  /\ svErr' = IF svListening THEN "failed" ELSE "closed"
  /\ svServe' = "send" /\ svListening' = FALSE
  /\ UNCHANGED <<svSignals, svMain, svCtx, svRun, svShutdown, svHandlers, svSockets, svTold>>

ServeSends ==
  /\ Up /\ svServe = "send" /\ svServe' = "sent"
  /\ UNCHANGED <<svSignals, svMain, svCtx, svRun, svErr, svShutdown, svListening, svHandlers, svSockets, svTold>>

\* The select of Run: ErrServerClosed becomes nil.
RunTakesError ==
  /\ Up /\ svRun = "select" /\ svServe = "sent"
  /\ svServe' = "taken" /\ svRun' = "return"
  /\ svErr' = IF svErr = "closed" THEN "nil" ELSE svErr
  /\ UNCHANGED <<svSignals, svMain, svCtx, svShutdown, svListening, svHandlers, svSockets, svTold>>

\* srv.Close and ctx.Err.
RunCanceled ==
  /\ Up /\ svRun = "select" /\ "ctx" \in svCtx
  /\ svListening' = FALSE /\ svHandlers' = {}
  /\ svErr' = "canceled" /\ svRun' = "return"
  /\ UNCHANGED <<svSignals, svMain, svCtx, svServe, svShutdown, svSockets, svTold>>

RunReturns ==
  /\ Up /\ svRun = "return" /\ svRun' = "returned"
  /\ UNCHANGED <<svSignals, svMain, svCtx, svErr, svServe, svShutdown, svListening, svHandlers, svSockets, svTold>>

-----------------------------------------------------------------------------
(* The goroutine that shuts down.                                            *)

\* srv.Shutdown closes the listener first.
ShutdownBegins ==
  /\ Up /\ svShutdown = "wait" /\ "graceful" \in svCtx
  /\ svListening' = FALSE /\ svShutdown' = "drain"
  /\ UNCHANGED <<svSignals, svMain, svCtx, svRun, svErr, svServe, svHandlers, svSockets, svTold>>

\* It then waits for the handlers to end (a hijacked connection is none), or for three
\* seconds to pass, whichever comes first: nothing of the state tells the two apart.
ShutdownDrained ==
  /\ Up /\ svShutdown = "drain"
  /\ svShutdown' = "close"
  /\ UNCHANGED <<svSignals, svMain, svCtx, svRun, svErr, svServe, svListening, svHandlers, svSockets, svTold>>

ShutdownCloses ==
  /\ Up /\ svShutdown = "close"
  /\ svTold' = svTold \cup svSockets /\ svShutdown' = "join"
  /\ UNCHANGED <<svSignals, svMain, svCtx, svRun, svErr, svServe, svListening, svHandlers, svSockets>>

\* wsWG.Wait
ShutdownJoins ==
  /\ Up /\ svShutdown = "join" /\ svSockets = {}
  /\ svShutdown' = "ended"
  /\ UNCHANGED <<svSignals, svMain, svCtx, svRun, svErr, svServe, svListening, svHandlers, svSockets, svTold>>

ShutdownForced ==
  /\ Up /\ svShutdown = "wait" /\ "ctx" \in svCtx
  /\ svListening' = FALSE /\ svHandlers' = {} /\ svShutdown' = "ended"
  /\ UNCHANGED <<svSignals, svMain, svCtx, svRun, svErr, svServe, svSockets, svTold>>

-----------------------------------------------------------------------------
(* Requests and connections.                                                 *)

RequestComes(r) ==
  /\ Up /\ svServe = "serving" /\ svListening
  /\ svHandlers' = svHandlers \cup {r}
  /\ UNCHANGED <<svSignals, svMain, svCtx, svRun, svErr, svServe, svShutdown, svListening, svSockets, svTold>>

RequestEnds(r) ==
  /\ Up /\ r \in svHandlers /\ svHandlers' = svHandlers \ {r}
  /\ UNCHANGED <<svSignals, svMain, svCtx, svRun, svErr, svServe, svShutdown, svListening, svSockets, svTold>>

\* handleWS: activeConns and wsWG, until its read loop ends.
ConnectionComes(c) ==
  /\ Up /\ svServe = "serving" /\ svListening /\ c \notin svSockets \cup svTold
  /\ svSockets' = svSockets \cup {c}
  /\ UNCHANGED <<svSignals, svMain, svCtx, svRun, svErr, svServe, svShutdown, svListening, svHandlers, svTold>>

ConnectionEnds(c) ==
  /\ Up /\ c \in svSockets /\ svSockets' = svSockets \ {c}
  /\ UNCHANGED <<svSignals, svMain, svCtx, svRun, svErr, svServe, svShutdown, svListening, svHandlers, svTold>>

-----------------------------------------------------------------------------
(* waitSignals.  main returns with it, which ends the process.               *)

MainTakesSignal ==
  /\ svMain = "select"
  /\ \/ svSignals' = "int" /\ svCtx' = svCtx \cup {"graceful"} /\ svMain' = "graceful"
     \/ svSignals' = "term" /\ svCtx' = svCtx \cup {"ctx"} /\ svMain' = "await"
  /\ UNCHANGED <<svRun, svErr, svServe, svShutdown, svListening, svHandlers, svSockets, svTold>>

MainForces ==
  /\ svMain = "graceful"
  /\ svSignals' = "int int" /\ svCtx' = svCtx \cup {"ctx"} /\ svMain' = "await"
  /\ UNCHANGED <<svRun, svErr, svServe, svShutdown, svListening, svHandlers, svSockets, svTold>>

MainReturns ==
  /\ Up /\ svRun = "returned" /\ svMain' = "exited"
  /\ UNCHANGED <<svSignals, svCtx, svRun, svErr, svServe, svShutdown, svListening, svHandlers, svSockets, svTold>>

ServeNext ==
  \/ RunListens \/ ServeReturns \/ ServeSends \/ RunTakesError \/ RunCanceled \/ RunReturns
  \/ ShutdownBegins \/ ShutdownDrained \/ ShutdownCloses \/ ShutdownJoins \/ ShutdownForced
  \/ \E r \in SvRequests : RequestComes(r) \/ RequestEnds(r)
  \/ \E c \in SvConns : ConnectionComes(c) \/ ConnectionEnds(c)
  \/ MainTakesSignal \/ MainForces \/ MainReturns

ServeSpec == ServeInit /\ [][ServeNext]_serveVars

-----------------------------------------------------------------------------
\* What Run promises: asked once to stop (SIGINT), the process ends after the goroutine that
\* drains has done its work: it gave the requests their time, closed every connection and
\* waited for their handlers.  The comment on Run says that it blocks until the graceful
\* context is done, "drain active connections first".
DrainedBeforeExit ==
  svMain = "exited" /\ svSignals = "int" /\ svErr = "nil" => svShutdown = "ended"

=============================================================================
