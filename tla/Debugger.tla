------------------------------ MODULE Debugger ------------------------------
(***************************************************************************)
(* The debug server (server/debugger/debugger.go) and its sessions         *)
(* (debugsession.go).  Start listens and waits for the accept loop and for *)
(* every connection; Stop, called by the server's group in another         *)
(* goroutine, ends them.  A connection reads requests and hands each to a  *)
(* goroutine of its own; these send their messages into one unbuffered     *)
(* queue, which one more goroutine writes to the client until the queue is *)
(* closed.                                                                 *)
(*                                                                         *)
(* Blockchain.debugger, the interpreter's debugger that StartDebugger      *)
(* returns, is nil: emulator.New sets it so and nothing assigns it later.  *)
(* A session therefore never stops at a statement (session.stop is nil),   *)
(* and every method called on the debugger dereferences nil, which ends    *)
(* the process, as does a send into a closed queue.                        *)
(*                                                                         *)
(* Abstracted: the contents of messages.  What a goroutine does between    *)
(* two accesses to shared state is one step; the fields of a session, which *)
(* no lock protects, are read and written one after the other.  The kind of *)
(* a request is chosen when its goroutine runs, the first time anything    *)
(* depends on it.                                                          *)
(***************************************************************************)
EXTENDS Naturals, FiniteSets

CONSTANTS
    Clients,        \* connections that clients may open
    Requests,       \* numbers of the requests of one connection, from 1
    MaxWork         \* bound: connections and requests, together

ASSUME DebuggerAssumption ==
    /\ IsFiniteSet(Clients) /\ IsFiniteSet(Requests) /\ Requests \subseteq Nat \ {0}
    /\ MaxWork \in Nat

VARIABLES
    process,        \* "up", or what ended the process
    start,          \* where Debugger.Start is
    stop,           \* where Debugger.Stop is
    quit,           \* the quit channel is closed
    listener,       \* Debugger.listener as seen by others: not set, open or closed
    stopped,        \* Debugger.stopped
    serve,          \* where the accept loop is
    connections,    \* Debugger.connections
    loaded,         \* connection -> the slice it read to append itself to
    hangup,         \* connections that Stop has closed
    conn,           \* where handleConnection of each connection is
    handler,        \* connection, request -> where the goroutine of the request is
    session,        \* connection -> the session's fields
    watching,       \* connection -> run started a goroutine on the stops
    script,         \* connection, request -> where the script that run started is
    queue,          \* connection -> its send queue is open or closed
    active          \* Blockchain.activeDebuggingSession

serverVars == <<start, stop, quit, listener, stopped, serve>>
connVars == <<connections, loaded, hangup, conn, queue>>
requestVars == <<handler, session, watching, script, active>>
vars == <<process, serverVars, connVars, requestVars>>

Up == process = "up"

Each(value) == [c \in Clients |-> value]
NoRequests == Each([i \in Requests |-> "none"])
NewSession == [configurationDone |-> FALSE, launchRequested |-> FALSE, launched |-> FALSE]

Init ==
    /\ process = "up"
    /\ start = "listen" /\ stop = "idle" /\ quit = FALSE
    /\ listener = "none" /\ stopped = FALSE /\ serve = "off"
    /\ connections = {} /\ loaded = Each({}) /\ hangup = {}
    /\ conn = Each("none") /\ queue = Each("open")
    /\ handler = NoRequests /\ session = Each(NewSession)
    /\ watching = Each(FALSE) /\ script = NoRequests
    /\ active = FALSE

\* The process ends; what it held in memory is forgotten.
Ends(cause) ==
    /\ process' = cause
    /\ start' = "listen" /\ stop' = "idle" /\ quit' = FALSE
    /\ listener' = "none" /\ stopped' = FALSE /\ serve' = "off"
    /\ connections' = {} /\ loaded' = Each({}) /\ hangup' = {}
    /\ conn' = Each("none") /\ queue' = Each("open")
    /\ handler' = NoRequests /\ session' = Each(NewSession)
    /\ watching' = Each(FALSE) /\ script' = NoRequests
    /\ active' = FALSE

-----------------------------------------------------------------------------
(* Starting, accepting and stopping                                        *)

\* net.Listen; the port may be taken.
Listen ==
    /\ Up /\ start = "listen"
    /\ start' \in {"register", "returned"}
    /\ UNCHANGED <<process, stop, quit, listener, stopped, serve, connVars, requestVars>>

\* Mutant: a server that was stopped already serves.
RegisterAndServe ==
    /\ Up /\ start = "register"
    /\ listener' = "open"
    /\ start' = "wait" /\ serve' = "accept"
    /\ UNCHANGED <<process, stop, quit, stopped, connVars, requestVars>>

\* The section under Debugger.mu; a server that was stopped already returns, any
\* other starts the accept loop.
Register ==
    /\ Up /\ start = "register"
    /\ listener' = IF stopped THEN "closed" ELSE "open"
    /\ start' = IF stopped THEN "returned" ELSE "wait"
    /\ serve' = IF stopped THEN serve ELSE "accept"
    /\ UNCHANGED <<process, stop, quit, stopped, connVars, requestVars>>

\* wg.Wait: the accept loop and every connection are over.
WaitReturns ==
    /\ Up /\ start = "wait"
    /\ serve = "returned" /\ \A c \in Clients : conn[c] \in {"none", "returned", "aborted"}
    /\ start' = "returned"
    /\ listener' = "closed"
    /\ UNCHANGED <<process, stop, quit, stopped, serve, connVars, requestVars>>

Work == Cardinality({c \in Clients : conn[c] # "none"})
        + Cardinality({w \in Clients \X Requests : handler[w[1]][w[2]] # "none"})

\* A client connects.
Accept(c) ==
    /\ Up /\ serve = "accept" /\ listener = "open"
    /\ conn[c] = "none" /\ Work < MaxWork
    /\ conn' = [conn EXCEPT ![c] = "accepted"]
    /\ UNCHANGED <<process, serverVars, connections, loaded, hangup, queue, requestVars>>

\* An error of Accept: orderly after quit, fatal before.
AcceptReturnsError(cause) ==
    /\ Up /\ serve = "accept"
    /\ IF quit
       THEN /\ serve' = "returned"
            /\ UNCHANGED <<process, start, stop, quit, listener, stopped, connVars, requestVars>>
       ELSE Ends(cause)

\* Accept fails once the listener is closed, and may fail for a reason of its own
\* before (no file descriptor is left).
AcceptFails == listener = "closed" /\ AcceptReturnsError("fatal accept")
AcceptBreaks == listener = "open" /\ AcceptReturnsError("fatal network")

\* Mutant: the listener is closed first.
StopListenerFirst ==
    /\ Up /\ stop = "idle"
    /\ listener' = IF listener = "open" THEN "closed" ELSE listener
    /\ stop' = "flag"
    /\ UNCHANGED <<process, start, quit, stopped, serve, connVars, requestVars>>

\* Stop, once: each statement that others can see is a step.
CloseQuit ==
    /\ Up /\ stop = "idle"
    /\ quit' = TRUE
    /\ stop' = "flag"
    /\ UNCHANGED <<process, start, listener, stopped, serve, connVars, requestVars>>

\* The section under Debugger.mu.
SetStopped ==
    /\ Up /\ stop = "flag"
    /\ stopped' = TRUE
    /\ stop' = IF listener = "none" THEN "connections" ELSE "listener"
    /\ UNCHANGED <<process, start, quit, listener, serve, connVars, requestVars>>

CloseListener ==
    /\ Up /\ stop = "listener"
    /\ listener' = "closed"
    /\ stop' = "connections"
    /\ UNCHANGED <<process, start, quit, stopped, serve, connVars, requestVars>>

\* The connections that are in the slice at this moment.
CloseConnections ==
    /\ Up /\ stop = "connections"
    /\ hangup' = connections
    /\ stop' = "returned"
    /\ UNCHANGED <<process, start, quit, listener, stopped, serve, connections, loaded,
                   conn, queue, requestVars>>

-----------------------------------------------------------------------------
(* A connection                                                            *)

\* The append to Debugger.connections is not under a lock: two connections may
\* both read the slice before either writes it back.
LoadConnections(c) ==
    /\ Up /\ conn[c] = "accepted"
    /\ loaded' = [loaded EXCEPT ![c] = connections]
    /\ conn' = [conn EXCEPT ![c] = "append"]
    /\ UNCHANGED <<process, serverVars, connections, hangup, queue, requestVars>>

AppendConnection(c) ==
    /\ Up /\ conn[c] = "append"
    /\ connections' = loaded[c] \cup {c}
    /\ loaded' = [loaded EXCEPT ![c] = {}]
    /\ conn' = [conn EXCEPT ![c] = "read"]
    /\ UNCHANGED <<process, serverVars, hangup, queue, requestVars>>

Reading(c) == Up /\ conn[c] = "read"

\* handleRequest: a message was read, a goroutine is started for it.
ReadRequest(c, i) ==
    /\ Reading(c) /\ c \notin hangup /\ Work < MaxWork
    /\ handler[c][i] = "none" /\ \A j \in Requests : j < i => handler[c][j] # "none"
    /\ handler' = [handler EXCEPT ![c][i] = "read"]
    /\ UNCHANGED <<process, serverVars, connVars, session, watching, script, active>>

\* io.EOF: the client has closed the connection.
ReadEOF(c) ==
    /\ Reading(c) /\ c \notin hangup
    /\ conn' = [conn EXCEPT ![c] = "drain"]
    /\ UNCHANGED <<process, serverVars, connections, loaded, hangup, queue, requestVars>>

\* *net.OpError: Stop has closed the connection, or the network has.
ReadOpError(c) ==
    /\ Reading(c)
    /\ queue' = [queue EXCEPT ![c] = "closed"]
    /\ conn' = [conn EXCEPT ![c] = "aborted"]
    /\ UNCHANGED <<process, serverVars, connections, loaded, hangup, requestVars>>

\* Any other error, a message cut short or malformed, is fatal.
ReadFails(c) ==
    /\ Reading(c) /\ c \notin hangup
    /\ Ends("fatal read")

\* Mutant: the wait group is not waited for.
NotDrained(c) == TRUE

\* sendWg.Wait: the goroutines of the requests have returned.
Drained(c) == \A i \in Requests : handler[c][i] \in {"none", "done", "ignored"}

CloseQueue(c) ==
    /\ Up /\ conn[c] = "drain" /\ Drained(c)
    /\ queue' = [queue EXCEPT ![c] = "closed"]
    /\ conn' = [conn EXCEPT ![c] = "returned"]
    /\ UNCHANGED <<process, serverVars, connections, loaded, hangup, requestVars>>

-----------------------------------------------------------------------------
(* The requests.  A handler that returns leads to one of these outcomes.   *)

\* The nil debugger is dereferenced: the process ends.
Dereferences == Ends("nil debugger")

\* The goroutine goes on to send; what else it changed is given by the caller.
GoesOnTo(c, i, next) ==
    handler' = [handler EXCEPT ![c][i] = next] /\ UNCHANGED <<process, serverVars, connVars>>

\* Only the response is left to send.
Replies(c, i) ==
    GoesOnTo(c, i, "reply") /\ UNCHANGED <<session, watching, script, active>>

\* run up to its end, the assignment to launched: the goroutine it starts calls
\* Stops at once; the script runs when there is code, which a launch may have left.
Run(c, i, next) ==
    /\ GoesOnTo(c, i, next)
    /\ watching' = [watching EXCEPT ![c] = TRUE]
    /\ \E code \in {FALSE, session[c].launchRequested} :
         script' = [script EXCEPT ![c][i] = IF code THEN "run" ELSE "none"]
    /\ active' = TRUE
    /\ UNCHANGED session

\* A program that was not launched before is run; with stopOnEntry that begins with
\* RequestPause.  Two requests that both come here before launched is set run it twice.
RunOnce(c, i, requested, next, otherwise) ==
    IF requested /\ ~session[c].launched
    THEN Dereferences \/ Run(c, i, next)
    ELSE GoesOnTo(c, i, otherwise) /\ UNCHANGED <<session, watching, script, active>>

\* handleInitialize: a response and an event.
HandleInitialize(c, i) ==
    /\ active' = TRUE
    /\ GoesOnTo(c, i, "event")
    /\ UNCHANGED <<session, watching, script>>

\* handleSetBreakpoints: a path that is no location is refused.
HandleSetBreakpoints(c, i) == Dereferences \/ Replies(c, i)

\* handleLaunch: a request without a program is refused, one with a program that is
\* no string panics.
HandleLaunch(c, i) ==
    \/ Ends("bad argument")
    \/ /\ active' = TRUE
       /\ \/ GoesOnTo(c, i, "reply") /\ UNCHANGED session
          \/ /\ GoesOnTo(c, i, "launched")
             /\ session' = [session EXCEPT ![c].launchRequested = TRUE]
       /\ UNCHANGED <<watching, script>>

HandleConfigurationDone(c, i) ==
    /\ session' = [session EXCEPT ![c].configurationDone = TRUE]
    /\ GoesOnTo(c, i, "configured")
    /\ UNCHANGED <<watching, script, active>>

\* The request that comes second runs the program: configurationDone before it is
\* answered, launch after its response was sent.
HandlerRuns(c, i) ==
    /\ Up
    /\ \/ /\ handler[c][i] = "configured"
          /\ RunOnce(c, i, session[c].launchRequested, "ran", "reply")
       \/ /\ handler[c][i] = "launch"
          /\ RunOnce(c, i, session[c].configurationDone, "last", "done")

HandleAttach(c, i) == Run(c, i, "ran")

AfterRun == [ran |-> "reply", last |-> "done"]

\* The end of run.
HandlerSetsLaunched(c, i) ==
    /\ Up /\ handler[c][i] \in DOMAIN AfterRun
    /\ session' = [session EXCEPT ![c].launched = TRUE]
    /\ GoesOnTo(c, i, AfterRun[handler[c][i]])
    /\ UNCHANGED <<watching, script, active>>

\* A request of another kind: the switch has no default, nobody answers.
HandleOther(c, i) == GoesOnTo(c, i, "ignored") /\ UNCHANGED <<session, watching, script, active>>

\* Nothing is stopped: the answer is the error "invalid request".
HandleVariables(c, i) == Replies(c, i)
HandleEvaluate(c, i) == Replies(c, i)
HandleStackTrace(c, i) == Replies(c, i)

\* Answered from constants, and from the code of the running script or of a contract.
HandleScopes(c, i) == Replies(c, i)
HandleThreads(c, i) == Replies(c, i)
HandleSource(c, i) == Replies(c, i)

\* Continue, RequestPause, or a field of the stop that is not there.
HandleContinue(c, i) == Dereferences
HandleStepOut(c, i) == Dereferences
HandleStepIn(c, i) == Dereferences
HandleNext(c, i) == Dereferences
HandlePause(c, i) == Dereferences
HandleDisconnect(c, i) == Dereferences

DispatchRequest(c, i) ==
    /\ Up /\ handler[c][i] = "read"
    /\ \/ HandleInitialize(c, i) \/ HandleSetBreakpoints(c, i) \/ HandleDisconnect(c, i)
       \/ HandleAttach(c, i) \/ HandleLaunch(c, i) \/ HandleConfigurationDone(c, i)
       \/ HandleThreads(c, i) \/ HandlePause(c, i) \/ HandleNext(c, i) \/ HandleStepIn(c, i)
       \/ HandleStepOut(c, i) \/ HandleStackTrace(c, i) \/ HandleSource(c, i)
       \/ HandleContinue(c, i) \/ HandleEvaluate(c, i) \/ HandleScopes(c, i)
       \/ HandleVariables(c, i) \/ HandleOther(c, i)

-----------------------------------------------------------------------------
(* The send queue and the goroutines of a run                              *)

\* Mutant: the writing goroutine leaves when the client does.
TakesWhileReading(c) == queue[c] = "open" /\ conn[c] = "read"

\* sendFromQueue takes messages until the queue is closed.
Takes(c) == queue[c] = "open"

AfterSend == [event |-> "reply", reply |-> "done", launched |-> "launch"]

\* A send completes when the message is taken, and panics on a closed queue.
HandlerSends(c, i) ==
    /\ Up /\ handler[c][i] \in DOMAIN AfterSend
    /\ \/ queue[c] = "closed" /\ Ends("closed queue")
       \/ /\ Takes(c)
          /\ GoesOnTo(c, i, AfterSend[handler[c][i]])
          /\ UNCHANGED <<session, watching, script, active>>

\* The select of the goroutine that run starts evaluates debugger.Stops().
WatchStops(c) ==
    /\ Up /\ watching[c]
    /\ Dereferences

\* ExecuteScript; with the debug pragma it calls RequestPause.
ExecuteScript(c, i) ==
    /\ Up /\ script[c][i] = "run"
    /\ \/ Dereferences
       \/ /\ script' = [script EXCEPT ![c][i] = "events"]
          /\ UNCHANGED <<process, serverVars, connVars, handler, session, watching, active>>

\* The events after the script: output, exited and terminated, as one send.
ScriptSends(c, i) ==
    /\ Up /\ script[c][i] = "events"
    /\ \/ queue[c] = "closed" /\ Ends("closed queue")
       \/ /\ Takes(c)
          /\ script' = [script EXCEPT ![c][i] = "end"]
          /\ UNCHANGED <<process, serverVars, connVars, handler, session, watching, active>>

EndDebugging(c, i) ==
    /\ Up /\ script[c][i] = "end"
    /\ active' = FALSE
    /\ script' = [script EXCEPT ![c][i] = "none"]
    /\ UNCHANGED <<process, serverVars, connVars, handler, session, watching>>

\* A transaction or a script of another client carries the debug pragma.
ExecuteWithPragma ==
    /\ Up /\ active
    /\ Dereferences

-----------------------------------------------------------------------------

Serving == Listen \/ Register \/ WaitReturns \/ AcceptFails
Stopping == SetStopped \/ CloseListener \/ CloseConnections
Connection(c) == \/ LoadConnections(c) \/ AppendConnection(c) \/ CloseQueue(c)
                 \/ c \in hangup /\ ReadOpError(c)
Client(c) == Accept(c) \/ ReadEOF(c) \/ ReadOpError(c) \/ ReadFails(c)
Request(c, i) == \/ DispatchRequest(c, i) \/ HandlerSends(c, i)
                 \/ HandlerRuns(c, i) \/ HandlerSetsLaunched(c, i)
Script(c, i) == ExecuteScript(c, i) \/ ScriptSends(c, i) \/ EndDebugging(c, i)

Next ==
    \/ Serving \/ AcceptBreaks \/ CloseQuit \/ Stopping \/ ExecuteWithPragma
    \/ \E c \in Clients :
         \/ Client(c) \/ Connection(c) \/ WatchStops(c)
         \/ \E i \in Requests : ReadRequest(c, i) \/ Request(c, i) \/ Script(c, i)

\* The accept loop, Stop, the connections and the requests go on when they can, the
\* writing goroutine too: a client reads what it is sent.  Clients need not connect,
\* ask or leave, the server need not be stopped, and nothing is assumed of scripts and
\* of the goroutines on the stops.
Fairness ==
    /\ WF_vars(Serving) /\ WF_vars(Stopping)
    /\ \A c \in Clients :
         /\ WF_vars(Connection(c))
         /\ \A i \in Requests : WF_vars(Request(c, i))

Spec == Init /\ [][Next]_vars /\ Fairness

-----------------------------------------------------------------------------
(* Properties                                                              *)

\* Stopping the server never ends the process by itself: whenever its listener is
\* closed, the accept loop finds quit closed too.  (An error of Accept for another
\* reason before Stop is fatal, as is a message that cannot be read.)
StopIsNotFatal == process # "fatal accept"

\* A request finds the queue of its connection closed, so that its send ends the
\* process, only after that connection broke (Stop, or a reset): a client that closes
\* its connection while its requests are being answered does no harm.  (The events of
\* a script are not waited for.)
OrderlyEndIsHarmless ==
    \A c \in Clients, i \in Requests :
        queue[c] = "closed" /\ handler[c][i] \in DOMAIN AfterSend => conn[c] = "aborted"

\* Each request of a kind that dispatchRequest knows is answered, or the process has
\* ended: the reader that waits for the handlers, the handlers that wait for the queue
\* and the writer that waits for its end never wait for each other.  (A request of
\* another kind is ignored.)  A session that was launched and configured runs its
\* program, in whichever order the two requests are handled.
RequestsAreAnswered ==
    \A c \in Clients :
        /\ \A i \in Requests :
              handler[c][i] = "read" ~> (handler[c][i] \in {"done", "ignored"} \/ ~Up)
        /\ (session[c].launchRequested /\ session[c].configurationDone)
              ~> (session[c].launched \/ ~Up)

\* A connection that Stop did not see and whose client stays.
Missed(c) == conn[c] = "read" /\ c \notin hangup

\* Whenever Stop comes, before, during or after the start, Start returns, unless
\* some connection was not in the slice when Stop closed what was there.
StopEndsServer ==
    stop = "returned" ~> (start = "returned" \/ ~Up \/ \E c \in Clients : Missed(c))

=============================================================================
