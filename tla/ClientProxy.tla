---------------------------- MODULE ClientProxy ----------------------------
(***************************************************************************)
(* How the client library reaches signond: AsyncDBusProxy with its pending *)
(* calls, and ConnectionManager.  (lib/SignOn/async-dbus-proxy.cpp,        *)
(* connection-manager.cpp, and the requests by which authsessionimpl.cpp,  *)
(* identityimpl.cpp have an object made for them.)                         *)
(*                                                                         *)
(* Qt runs the slots of a signal inside the function that emits it, so a   *)
(* single call may go through the proxy, the connection manager, every     *)
(* other proxy and the owner.  The library's state is therefore one record *)
(* and each function an operator on it.  Its fields:                       *)
(*   kind     the owner of the main proxy: "session" (AuthSessionImpl),    *)
(*            "identity" (IdentityImpl) or "service" (AuthServiceImpl)     *)
(*   up       signond listens on its socket                                *)
(*   online   m_connection.isConnected()                                   *)
(*   service  m_serviceStatus, and "bus": the session bus was resorted to  *)
(*   starting the bus has been asked to start signond                      *)
(*   proxy    the proxies made: Main, then one for each registration       *)
(*   call     the calls made, in the order they were made                  *)
(*   out      the calls on their way to signond                            *)
(*   in       what Qt has yet to deliver to the library                    *)
(* and what the owner keeps:                                               *)
(*   registering  AuthSessionImpl::m_isAuthInProcessing                    *)
(*   process      AuthSessionImpl::m_processCall, 0 if none                *)
(*   state, id    IdentityImpl's m_state and the identity's id             *)
(*   methods      m_methodsForWhichMechsWereQueried, as the calls queried  *)
(*   asserted     an assertion of the library has failed (history)         *)
(***************************************************************************)
EXTENDS Naturals, Sequences, SequencesExt

\* Faulty variants of a definition, named after it, come right before it.

Main       == 1
NoPath     == 0
DaemonPath == 1     \* SIGNOND_DAEMON_OBJECTPATH; other objects are above it
NoCall     == 0

\* A call of the library: answers counts what the owner was told of it, and
\* served how often the signond now running has executed it (both history).
PendingCall(p, op) ==
    [on |-> p, op |-> op, state |-> "queued", path |-> NoPath,
     watched |-> FALSE, lost |-> FALSE, answers |-> 0, served |-> 0]

Reply(k, result, path) ==
    [type |-> "reply", call |-> k, result |-> result, path |-> path]

\* The errors after which a call whose interface went is tried again
RetryErrors == {"Disconnected", "UnknownObject"}

-----------------------------------------------------------------------------
(* Pending calls *)

\* A call on a connection that is gone fails, but not before the event loop.
doCall(s, k) ==
    LET t == [s EXCEPT !.call[k] =
                [@ EXCEPT !.state = "sent", !.watched = TRUE, !.lost = FALSE,
                          !.path = s.proxy[s.call[k].on].path]]
    IN  IF s.online THEN [t EXCEPT !.out = Append(@, k)]
                    ELSE [t EXCEPT !.in = Append(@, Reply(k, "Disconnected", NoPath))]

\* Not removed from the queue
onCallFinishedQueued(s, k) == [s EXCEPT !.call[k].state = "done"]

\* The proxy of a registration goes with its call: deleteServiceProxy().
onCallFinished(s, k) ==
    LET p == s.call[k].on
        Done(call) == [call EXCEPT !.state = "done", !.lost = FALSE]
    IN  [s EXCEPT !.call[k] = Done(@),
                  !.proxy[p].queue = RemoveFirst(@, k),
                  !.proxy[p].exists = (p = Main)]

answered(s, k) == [s EXCEPT !.call[k].answers = @ + 1]

\* AuthSessionImpl::errorSlot(), no registration being under way
sessionError(s) == [s EXCEPT !.process = NoCall]

\* An error that is not signond's own ends the wait for a registration.
identityError(s, result) ==
    IF s.state = "PendingRegistration" /\ result # "refused"
    THEN [s EXCEPT !.state = "NeedsRegistration"] ELSE s

dequeueMethod(s) == IF s.methods = <<>> THEN s ELSE [s EXCEPT !.methods = Tail(@)]

queryMechanismsErrorMisaligned(s) == s

queryMechanismsError(s) == dequeueMethod(s)

\* The owner hears of a call that failed.
errorReply(s, k, result) ==
    answered(CASE s.kind = "session"  -> sessionError(s)
               [] s.kind = "identity" -> identityError(s, result)
               [] s.kind = "service"  ->
                    IF s.call[k].op = "queryMechanisms" THEN queryMechanismsError(s) ELSE s,
             k)

fail(s, k) == onCallFinished(errorReply(s, k, "Disconnected"), k)

-----------------------------------------------------------------------------
(* The status of a proxy *)

Incomplete(s, p) == [s EXCEPT !.proxy[p].status = "Incomplete"]

\* Q_FOREACH: one call after the other, of the queue as it was
doCalls(s, queue) ==
    LET did[n \in 0..Len(queue)] == IF n = 0 THEN s ELSE doCall(did[n - 1], queue[n])
    IN  did[Len(queue)]

failCalls(s, queue) ==
    LET did[n \in 0..Len(queue)] == IF n = 0 THEN s ELSE fail(did[n - 1], queue[n])
    IN  did[Len(queue)]

\* The queue is kept.
ReadyKept(s, p) == [doCalls(s, s.proxy[p].queue) EXCEPT !.proxy[p].status = "Ready"]

Ready(s, p) ==
    [doCalls(s, s.proxy[p].queue) EXCEPT
       !.proxy[p] = [@ EXCEPT !.status = "Ready", !.queue = <<>>]]

Invalid(s, p) ==
    [failCalls(s, s.proxy[p].queue) EXCEPT
       !.proxy[p] = [@ EXCEPT !.status = "Invalid", !.queue = <<>>]]

answeredAgain(s, queue) ==
    LET Again(call) == [call EXCEPT !.answers = @ + 1]
    IN  [s EXCEPT !.call =
           [k \in DOMAIN @ |-> IF k \in Range(queue) THEN Again(@[k]) ELSE @[k]]]

\* AuthSessionImpl::errorSlot() takes any error for that of a registration
\* under way, and sets the error itself: the calls are then failed from within
\* the failing of the first, and all but the first once more.
setError(s, p) ==
    LET queue == s.proxy[p].queue
    IN  IF s.kind = "session" /\ s.registering /\ queue # <<>>
        THEN answeredAgain(Invalid([s EXCEPT !.registering = FALSE], p), Tail(queue))
        ELSE Invalid(s, p)

onInterfaceDestroyed(s, p) ==
    [s EXCEPT !.call = [k \in DOMAIN @ |->
        IF @[k].on = p /\ @[k].state = "sent" THEN [@[k] EXCEPT !.lost = TRUE] ELSE @[k]]]

\* A proxy has an interface exactly while it is ready.
update(s, p) ==
    LET t == IF s.proxy[p].status = "Ready" THEN onInterfaceDestroyed(s, p) ELSE s
    IN  IF ~s.proxy[p].conn \/ s.proxy[p].path = NoPath THEN Incomplete(t, p)
        ELSE IF ~s.online THEN setError(t, p)
        ELSE Ready(t, p)

setObjectPath(s, path) ==
    update([s EXCEPT !.proxy[Main].path = path,
                     !.asserted = @ \/ (s.proxy[Main].path # NoPath /\ path # NoPath)],
           Main)

setConnection(s, p) ==
    IF s.proxy[p].exists THEN update([s EXCEPT !.proxy[p].conn = TRUE], p) ELSE s

setDisconnected(s, p) ==
    IF s.proxy[p].exists
    THEN update([s EXCEPT !.proxy[p] = [@ EXCEPT !.conn = FALSE, !.path = NoPath]], p)
    ELSE s

-----------------------------------------------------------------------------
(* ConnectionManager *)

\* A signal of the connection manager runs the slot of one proxy after the other.
connected(s) ==
    LET did[p \in 0..Len(s.proxy)] == IF p = 0 THEN s ELSE setConnection(did[p - 1], p)
    IN  did[Len(s.proxy)]

disconnected(s) ==
    LET did[p \in 0..Len(s.proxy)] == IF p = 0 THEN s ELSE setDisconnected(did[p - 1], p)
    IN  did[Len(s.proxy)]

\* A signond that is not there has left no socket behind.
setupSocketConnection(s) ==
    IF s.up THEN "Ok" ELSE IF s.service = "activated" THEN "Unavailable" ELSE "NoService"

init(s) ==
    LET status == setupSocketConnection(s)
    IN  CASE s.service = "activating" -> s
          [] s.service # "activating" /\ status = "NoService" ->
                [s EXCEPT !.service = "activating", !.starting = TRUE]
          [] s.service # "activating" /\ status = "Unavailable" ->
                [s EXCEPT !.service = "bus"]
          [] s.service # "activating" /\ status = "Ok" ->
                connected([s EXCEPT !.online = TRUE])

connect(s) == IF s.online THEN connected(s) ELSE init(s)

onActivationDone(s, ok) ==
    IF ok THEN init([s EXCEPT !.service = "activated"]) ELSE s

onDisconnected(s) ==
    disconnected([s EXCEPT !.service = IF @ = "bus" THEN @ ELSE "unknown"])

-----------------------------------------------------------------------------
(* Queueing a call *)

enqueue(s, k) ==
    LET p == s.call[k].on
        t == [s EXCEPT !.proxy[p].queue = Append(@, k), !.call[k].state = "queued"]
    IN  IF s.proxy[p].conn THEN t ELSE connect(t)

\* setupConnection(), then setObjectPath() if the path is known
newProxy(s, path) ==
    [s EXCEPT !.proxy = Append(@,
        [exists |-> TRUE, conn |-> s.online, path |-> path, queue |-> <<>>,
         status |-> IF s.online /\ path # NoPath THEN "Ready" ELSE "Incomplete"])]

RegistrationCall(s) == IF s.kind = "session" THEN "getAuthSessionObjectPath"
                       ELSE IF s.id # 0 THEN "getIdentity" ELSE "registerNewIdentity"

\* A request of the daemon for an object, through a proxy of its own
sendRegistration(s) ==
    LET p == Len(s.proxy) + 1
        k == Len(s.call) + 1
        t == [newProxy(s, DaemonPath) EXCEPT
                !.call = Append(@, PendingCall(p, RegistrationCall(s)))]
    IN  IF s.online THEN doCall(t, k) ELSE enqueue(t, k)

initInterface(s) ==
    IF s.registering THEN s ELSE sendRegistration([s EXCEPT !.registering = TRUE])

sendRegisterRequest(s) ==
    IF s.state = "PendingRegistration" THEN s
    ELSE [sendRegistration(s) EXCEPT !.state = "PendingRegistration"]

\* Nobody listens to the signal.
objectPathNeededUnheard(s) == s

objectPathNeeded(s) == CASE s.kind = "session"  -> initInterface(s)
                         [] s.kind = "identity" -> sendRegisterRequest(s)
                         [] s.kind = "service"  -> s

enqueueCall(s, k) ==
    LET t == enqueue(s, k)
    IN  IF s.call[k].on = Main /\ t.proxy[Main].path = NoPath
        THEN objectPathNeeded(t) ELSE t

\* The error of a proxy that is invalid is left to the event loop.
queueCall(s, op) ==
    LET k == Len(s.call) + 1
        t == [s EXCEPT !.call = Append(@, PendingCall(Main, op))]
    IN  CASE s.proxy[Main].status = "Ready"      -> doCall(t, k)
          [] s.proxy[Main].status = "Incomplete" -> enqueueCall(t, k)
          [] s.proxy[Main].status = "Invalid"    -> [t EXCEPT !.call[k].state = "failing"]

=============================================================================
