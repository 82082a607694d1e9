--------------------------- MODULE DebuggerProofs ---------------------------
(***************************************************************************)
(* Proofs about Debugger for every set of clients and requests.            *)
(***************************************************************************)
EXTENDS Debugger, TLAPS

\* Where the goroutines of a request and of a script can be.
HandlerStates == {"none", "read", "event", "reply", "launched", "launch", "configured", "ran", "last",
                  "done", "ignored"}
ScriptStates == {"none", "run", "events", "end"}

\* A step of the request i of connection c that goes on: no end of the process, and
\* nothing of the server or of a connection is touched.
Proceeds(c, i) ==
    /\ UNCHANGED <<process, serverVars, connVars>>
    /\ handler[c][i] \notin {"none", "done", "ignored"}
    /\ \E next \in HandlerStates : handler' = [handler EXCEPT ![c][i] = next]
    /\ UNCHANGED script \/ \E s \in ScriptStates : script' = [script EXCEPT ![c][i] = s]

\* Where a send or a run leads.
LEMMA AfterStates ==
  /\ DOMAIN AfterSend = {"event", "reply", "launched"} /\ DOMAIN AfterRun = {"ran", "last"}
  /\ \A s \in DOMAIN AfterSend : AfterSend[s] \in HandlerStates
  /\ \A s \in DOMAIN AfterRun : AfterRun[s] \in HandlerStates
  BY DEF AfterSend, AfterRun, HandlerStates

\* A request ends the process, or it goes on.
LEMMA RequestProceeds ==
  ASSUME NEW c \in Clients, NEW i \in Requests, Request(c, i)
  PROVE  Ends("nil debugger") \/ Ends("bad argument") \/ Ends("closed queue") \/ Proceeds(c, i)
  <1>1. ASSUME NEW next, Run(c, i, next)
        PROVE  /\ GoesOnTo(c, i, next)
               /\ \E s \in ScriptStates : script' = [script EXCEPT ![c][i] = s]
    BY <1>1 DEF Run, ScriptStates
  <1>2. ASSUME NEW next \in HandlerStates, GoesOnTo(c, i, next),
               handler[c][i] \notin {"none", "done", "ignored"},
               UNCHANGED script \/ Run(c, i, next)
        PROVE  Proceeds(c, i)
    BY <1>1, <1>2 DEF GoesOnTo, Proceeds
  <1>3. ASSUME NEW next \in HandlerStates, Run(c, i, next),
               handler[c][i] \notin {"none", "done", "ignored"}
        PROVE  Proceeds(c, i)
    BY <1>1, <1>2, <1>3
  <1>4. CASE DispatchRequest(c, i)
    <2>1. handler[c][i] = "read"
      BY <1>4 DEF DispatchRequest
    <2>2. CASE Replies(c, i) \/ HandleInitialize(c, i) \/ HandleConfigurationDone(c, i)
               \/ HandleOther(c, i)
      BY <1>2, <2>1, <2>2
         DEF Replies, HandleInitialize, HandleConfigurationDone, HandleOther, HandlerStates
    <2>3. CASE HandleAttach(c, i)
      BY <1>3, <2>1, <2>3 DEF HandleAttach, HandlerStates
    <2>4. CASE HandleLaunch(c, i)
      BY <1>2, <2>1, <2>4 DEF HandleLaunch, HandlerStates
    <2> QED BY <1>4, <2>2, <2>3, <2>4
            DEF DispatchRequest, Dereferences, HandleSetBreakpoints, HandleDisconnect, HandleThreads,
                HandlePause, HandleNext, HandleStepIn, HandleStepOut, HandleStackTrace, HandleSource,
                HandleContinue, HandleEvaluate, HandleScopes, HandleVariables
  <1>5. CASE HandlerSends(c, i)
    <2>1. CASE Ends("closed queue")
      BY <2>1
    <2>2. CASE /\ handler[c][i] \in DOMAIN AfterSend /\ UNCHANGED script
               /\ GoesOnTo(c, i, AfterSend[handler[c][i]])
      BY <1>2, <2>2, AfterStates
    <2> QED BY <1>5, <2>1, <2>2 DEF HandlerSends
  <1>6. CASE HandlerRuns(c, i)
    <2>1. handler[c][i] \in {"configured", "launch"}
      BY <1>6 DEF HandlerRuns
    <2>2. ASSUME NEW requested, NEW next \in HandlerStates, NEW otherwise \in HandlerStates,
                 RunOnce(c, i, requested, next, otherwise)
          PROVE  Ends("nil debugger") \/ Proceeds(c, i)
      BY <1>2, <1>3, <2>1, <2>2 DEF RunOnce, Dereferences
    <2>3. {"ran", "reply", "last", "done"} \subseteq HandlerStates
      BY DEF HandlerStates
    <2> QED BY <1>6, <2>2, <2>3 DEF HandlerRuns
  <1>7. CASE HandlerSetsLaunched(c, i)
    BY <1>2, <1>7, AfterStates DEF HandlerSetsLaunched
  <1> QED BY <1>4, <1>5, <1>6, <1>7 DEF Request

-----------------------------------------------------------------------------
(* Stopping the server                                                     *)

\* The listener is closed under an accept loop only by Stop, which closed quit
\* first.
StopInv ==
    /\ stop # "idle" \/ stopped => quit
    /\ start \in {"listen", "register"} => serve = "off"
    /\ listener = "closed" => quit \/ serve # "accept"
    /\ StopIsNotFatal

LEMMA StopInvStep ==
  ASSUME StopInv, [Next]_vars
  PROVE  StopInv'
  <1> USE DEF StopInv, StopIsNotFatal
  <1>1. ASSUME NEW cause, Ends(cause), cause # "fatal accept"
        PROVE  StopInv'
    BY <1>1 DEF Ends
  <1>2. CASE UNCHANGED <<process, serverVars>>
    BY <1>2 DEF serverVars
  <1>3. CASE Serving
    <2>1. CASE Listen
      BY <2>1 DEF Listen
    <2>2. CASE Register
      BY <2>2 DEF Register
    <2>3. CASE WaitReturns
      BY <2>3 DEF WaitReturns
    <2>4. CASE AcceptFails
      BY <2>4 DEF AcceptFails, AcceptReturnsError
    <2> QED BY <1>3, <2>1, <2>2, <2>3, <2>4 DEF Serving
  <1>4. CASE CloseQuit \/ Stopping
    BY <1>4 DEF CloseQuit, Stopping, SetStopped, CloseListener, CloseConnections
  <1>9. CASE AcceptBreaks
    <2>1. CASE Ends("fatal network")
      BY <1>1, <2>1
    <2> QED BY <1>9, <2>1 DEF AcceptBreaks, AcceptReturnsError
  <1>5. CASE ExecuteWithPragma
    BY <1>1, <1>5 DEF ExecuteWithPragma, Dereferences
  <1>6. ASSUME NEW c \in Clients, Client(c) \/ Connection(c) \/ WatchStops(c)
        PROVE  StopInv'
    <2>1. CASE Accept(c) \/ ReadEOF(c) \/ ReadOpError(c) \/ LoadConnections(c)
               \/ AppendConnection(c) \/ CloseQueue(c)
      BY <1>2, <2>1 DEF Accept, ReadEOF, ReadOpError, LoadConnections, AppendConnection, CloseQueue
    <2>2. CASE ReadFails(c) \/ WatchStops(c)
      BY <1>1, <2>2 DEF ReadFails, WatchStops, Dereferences
    <2> QED BY <1>6, <2>1, <2>2 DEF Client, Connection
  <1>7. ASSUME NEW c \in Clients, NEW i \in Requests,
               ReadRequest(c, i) \/ Request(c, i) \/ Script(c, i)
        PROVE  StopInv'
    <2>1. CASE Request(c, i)
      BY <1>1, <1>2, <2>1, RequestProceeds DEF Proceeds
    <2>2. CASE ScriptSends(c, i)
      BY <1>1, <1>2, <2>2 DEF ScriptSends
    <2>3. CASE ReadRequest(c, i) \/ EndDebugging(c, i)
      BY <1>2, <2>3 DEF ReadRequest, EndDebugging
    <2>4. CASE ExecuteScript(c, i)
      BY <1>1, <1>2, <2>4 DEF ExecuteScript, Dereferences
    <2> QED BY <1>7, <2>1, <2>2, <2>3, <2>4 DEF Script
  <1>8. CASE UNCHANGED vars
    BY <1>8 DEF vars, serverVars
  <1> QED BY <1>3, <1>4, <1>5, <1>6, <1>7, <1>8, <1>9 DEF Next

\* Whenever Stop is called, before, while or after the server starts, the accept
\* loop does not take the closed listener for a fatal error.
THEOREM StopNeverFatal == Spec => []StopIsNotFatal
  <1>1. Init => StopInv
    BY DEF Init, StopInv, StopIsNotFatal
  <1>2. StopInv /\ [Next]_vars => StopInv'
    BY StopInvStep
  <1>3. StopInv => StopIsNotFatal
    BY DEF StopInv
  <1> QED BY <1>1, <1>2, <1>3, PTL DEF Spec

-----------------------------------------------------------------------------
(* The send queue                                                          *)

\* A closed queue belongs to a connection that broke or to one whose requests are
\* all over.
QueueIsDone(c) ==
    queue[c] = "closed" => conn[c] = "aborted" \/ (conn[c] = "returned" /\ Drained(c))

QueueInv ==
    /\ handler \in [Clients -> [Requests -> HandlerStates]]
    /\ conn \in [Clients -> {"none", "accepted", "append", "read", "drain", "returned", "aborted"}]
    /\ queue \in [Clients -> {"open", "closed"}]
    /\ \A c \in Clients : QueueIsDone(c)

LEMMA QueueInvStep ==
  ASSUME QueueInv, [Next]_vars
  PROVE  QueueInv'
  <1> USE DEF QueueInv, QueueIsDone, Drained
  <1>1. ASSUME NEW cause, Ends(cause)
        PROVE  QueueInv'
    BY <1>1 DEF Ends, Each, NoRequests, HandlerStates
  <1>2. CASE UNCHANGED <<conn, queue, handler>>
    BY <1>2
  <1>3. CASE Serving \/ AcceptBreaks
    <2>1. CASE Listen \/ Register \/ WaitReturns
      BY <1>2, <2>1 DEF Listen, Register, WaitReturns, connVars, requestVars
    <2>2. ASSUME NEW cause, AcceptReturnsError(cause) PROVE QueueInv'
      BY <1>1, <1>2, <2>2 DEF AcceptReturnsError, connVars, requestVars
    <2> QED BY <1>3, <2>1, <2>2 DEF Serving, AcceptFails, AcceptBreaks
  <1>4. CASE CloseQuit \/ Stopping
    BY <1>2, <1>4 DEF CloseQuit, Stopping, SetStopped, CloseListener, CloseConnections,
                      connVars, requestVars
  <1>5. CASE ExecuteWithPragma
    BY <1>1, <1>5 DEF ExecuteWithPragma, Dereferences
  <1>6. ASSUME NEW c \in Clients, Client(c) \/ Connection(c) \/ WatchStops(c)
        PROVE  QueueInv'
    <2>1. CASE Accept(c) \/ ReadEOF(c) \/ LoadConnections(c) \/ AppendConnection(c)
      <3>1. /\ UNCHANGED <<queue, handler>> /\ conn[c] \in {"none", "accepted", "append", "read"}
            /\ \E where \in {"accepted", "append", "read", "drain"} :
                  conn' = [conn EXCEPT ![c] = where]
        BY <2>1 DEF Accept, ReadEOF, Reading, LoadConnections, AppendConnection, requestVars
      <3> QED BY <3>1
    <2>2. CASE ReadOpError(c)
      BY <2>2 DEF ReadOpError, Reading, requestVars
    <2>3. CASE CloseQueue(c)
      BY <2>3 DEF CloseQueue, requestVars
    <2>4. CASE ReadFails(c) \/ WatchStops(c)
      BY <1>1, <2>4 DEF ReadFails, WatchStops, Dereferences
    <2> QED BY <1>6, <2>1, <2>2, <2>3, <2>4 DEF Client, Connection
  <1>7. ASSUME NEW c \in Clients, NEW i \in Requests,
               ReadRequest(c, i) \/ Request(c, i) \/ Script(c, i)
        PROVE  QueueInv'
    <2>1. CASE Proceeds(c, i)
      <3>1. UNCHANGED <<conn, queue>> /\ handler[c][i] \notin {"none", "done", "ignored"}
        BY <2>1 DEF Proceeds, connVars
      <3>2. PICK next \in HandlerStates : handler' = [handler EXCEPT ![c][i] = next]
        BY <2>1 DEF Proceeds
      <3>3. handler' \in [Clients -> [Requests -> HandlerStates]]
        BY <3>2
      <3>4. ~Drained(c) /\ \A d \in Clients \ {c} : handler'[d] = handler[d]
        BY <3>1, <3>2
      <3>5. queue[c] = "closed" => conn[c] = "aborted"
        BY <3>4
      <3>6. ASSUME NEW d \in Clients PROVE QueueIsDone(d)'
        BY <3>1, <3>4, <3>5
      <3> QED BY <3>1, <3>3, <3>6
    <2>2. CASE Request(c, i)
      BY <1>1, <2>1, <2>2, RequestProceeds
    <2>3. CASE ReadRequest(c, i)
      BY <2>3 DEF ReadRequest, Reading, connVars, HandlerStates
    <2>4. CASE Script(c, i)
      <3>1. \/ \E cause : Ends(cause)
            \/ UNCHANGED <<connVars, handler>>
        BY <2>4 DEF Script, ExecuteScript, ScriptSends, EndDebugging, Dereferences
      <3>2. CASE UNCHANGED <<connVars, handler>>
        BY <1>2, <3>2 DEF connVars
      <3> QED BY <1>1, <3>1, <3>2
    <2> QED BY <1>7, <2>2, <2>3, <2>4
  <1>8. CASE UNCHANGED vars
    BY <1>2, <1>8 DEF vars, connVars, requestVars
  <1> QED BY <1>3, <1>4, <1>5, <1>6, <1>7, <1>8 DEF Next

\* A request that is about to send finds its queue closed only after its connection
\* broke: sendWg keeps the queue open for the requests of a client that closes its
\* connection.
THEOREM ClientLeavingIsHarmless == Spec => []OrderlyEndIsHarmless
  <1>1. Init => QueueInv
    BY DEF Init, QueueInv, QueueIsDone, Each, NoRequests, HandlerStates
  <1>2. QueueInv /\ [Next]_vars => QueueInv'
    BY QueueInvStep
  <1>3. QueueInv => OrderlyEndIsHarmless
    BY AfterStates DEF QueueInv, QueueIsDone, Drained, OrderlyEndIsHarmless
  <1> QED BY <1>1, <1>2, <1>3, PTL DEF Spec

=============================================================================
