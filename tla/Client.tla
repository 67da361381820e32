------------------------------- MODULE Client -------------------------------
(***************************************************************************)
(* A client process that uses one AuthSession, Identity or AuthService of  *)
(* the library, and as much of signond as it meets.  (lib/SignOn/          *)
(* authsessionimpl.cpp, identityimpl.cpp, authserviceimpl.cpp.)            *)
(*                                                                         *)
(* Each action of the library is a call of the application or one turn of  *)
(* Qt's event loop.  signond answers on the connection it was asked on, in *)
(* the order asked unless a user or a plugin has to be waited for; it      *)
(* disposes of unused objects, and it may end and be activated again.      *)
(***************************************************************************)
EXTENDS ClientProxy, FiniteSets

CONSTANTS Kinds,      \* what the application may use, one of these
          MaxCalls,   \* bound: calls of the application
          MaxEvents,  \* bound: events of Env
          Env         \* what may also happen, see EnvKinds

EnvKinds == {"unregister",  \* signond disposes of an object
             "refuse",      \* signond refuses a registration
             "others",      \* other clients change or remove the identity
             "die",         \* signond ends; it is started again
             "noservice",   \* the activation of signond fails
             "early"}       \* an identity is queried before it is registered

ASSUME ClientAssumption == /\ Kinds \subseteq {"session", "identity", "service"}
                           /\ MaxCalls \in Nat /\ MaxEvents \in Nat
                           /\ Env \subseteq EnvKinds

VARIABLES c,         \* the library: a record, see ClientProxy
          d,         \* signond: its objects, the one of the stored identity,
                     \* whether that identity is stored, the next path, and
                     \* the calls it works on
          calls,     \* calls the application has made
          events     \* events of Env so far

\* What happened before; never read by the code.
VARIABLES canceled,  \* process() calls cancel() withdrew
          mixed      \* mechanisms were announced for another method

vars == <<c, d, calls, events, canceled, mixed>>

-----------------------------------------------------------------------------
(* Construction *)

\* ConnectionManager() runs init() before anyone listens to it.
NewClient(kind, id, up) ==
    [kind |-> kind, up |-> up, online |-> up,
     service |-> IF up THEN "unknown" ELSE "activating", starting |-> ~up,
     proxy |-> <<>>, call |-> <<>>, out |-> <<>>, in |-> <<>>,
     registering |-> FALSE, process |-> NoCall, state |-> "NeedsRegistration",
     id |-> id, methods |-> <<>>, asserted |-> FALSE]

AuthSessionImpl(up) == initInterface(newProxy(NewClient("session", 0, up), NoPath))

IdentityImpl(id, up) == sendRegisterRequest(newProxy(NewClient("identity", id, up), NoPath))

AuthServiceImpl(up) == newProxy(NewClient("service", 0, up), DaemonPath)

Init ==
    /\ \E kind \in Kinds, up \in BOOLEAN :
         CASE kind = "session"  -> c = AuthSessionImpl(up)
           [] kind = "identity" -> \E id \in 0..1 : c = IdentityImpl(id, up)
           [] kind = "service"  -> c = AuthServiceImpl(up)
    /\ d = [objects |-> {}, registered |-> NoPath, row |-> c.id = 1, next |-> 2,
            working |-> {}]
    /\ calls = 0 /\ events = 0
    /\ canceled = {} /\ mixed = FALSE

-----------------------------------------------------------------------------
(* Calls of the application *)

Application(kind) == /\ c.kind = kind /\ calls < MaxCalls
                     /\ calls' = calls + 1
                     /\ UNCHANGED <<d, events, mixed>>

queryAvailableMechanisms ==
    /\ Application("session")
    /\ c' = queueCall(c, "queryAvailableMechanisms")
    /\ UNCHANGED canceled

setId == /\ Application("session")
         /\ c' = queueCall(c, "setId")
         /\ UNCHANGED canceled

\* A second process() is an error at once.
process ==
    /\ Application("session")
    /\ c' = IF c.process # NoCall THEN c
            ELSE LET t == queueCall(c, "process")
                 IN  [t EXCEPT !.process = Len(c.call) + 1]
    /\ UNCHANGED canceled

\* PendingCall::cancel().  What the event loop has been left with comes all
\* the same.
withdraw(s, k) ==
    LET t == onCallFinished(s, k)
    IN  IF s.call[k].state = "failing" THEN [t EXCEPT !.call[k].state = "failing"] ELSE t

cancel ==
    /\ Application("session")
    /\ IF c.process # NoCall /\ ~c.call[c.process].watched
       THEN /\ c' = [answered(withdraw(c, c.process), c.process) EXCEPT !.process = NoCall]
            /\ canceled' = canceled \cup {c.process}
       ELSE /\ c' = [queueCall(c, "cancel") EXCEPT !.process = NoCall]
            /\ UNCHANGED canceled

\* An error at once when it is not so.
checkRemoved == c.state # "Removed"

\* Stands for verifySecret(), addReference() and removeReference() too:
\* checkRemoved(), then the call.
verifyUser ==
    /\ Application("identity")
    /\ c' = IF checkRemoved THEN queueCall(c, "verifyUser") ELSE c
    /\ UNCHANGED canceled

storeCredentials ==
    /\ Application("identity")
    /\ c' = queueCall([c EXCEPT !.state = IF @ = "Removed" THEN "NeedsRegistration" ELSE @],
                      "store")
    /\ UNCHANGED canceled

remove == /\ Application("identity")
          /\ c' = IF c.id = 0 THEN c ELSE queueCall(c, "remove")
          /\ UNCHANGED canceled

signOut == /\ Application("identity")
           /\ c' = IF checkRemoved /\ c.id # 0 THEN queueCall(c, "signOut") ELSE c
           /\ UNCHANGED canceled

updateContents(s) == [queueCall(s, "getInfo") EXCEPT !.state = "PendingUpdate"]

\* queryAvailableMethods() is the same.  When ready it answers from the cache.
queryInfo ==
    /\ Application("identity")
    /\ "early" \in Env \/ c.proxy[Main].path # NoPath
    /\ c' = IF checkRemoved /\ c.state # "Ready" THEN updateContents(c) ELSE c
    /\ UNCHANGED canceled

\* queryMethods(), queryIdentities() and clear()
sendRequest == /\ Application("service")
               /\ c' = queueCall(c, "request")
               /\ UNCHANGED canceled

queryMechanisms ==
    /\ Application("service")
    /\ c' = [queueCall(c, "queryMechanisms") EXCEPT
               !.methods = Append(@, Len(c.call) + 1)]
    /\ UNCHANGED canceled

-----------------------------------------------------------------------------
(* The event loop: what was posted, and what arrived *)

IsRegistration(k) == c.call[k].on # Main

\* The owner's slots for the success of a call
authenticationSlot(s, path) == [setObjectPath(s, path) EXCEPT !.registering = FALSE]
registerReply(s, path)      == [setObjectPath(s, path) EXCEPT !.state = "Ready"]
responseSlot(s)             == [s EXCEPT !.process = NoCall]
storeCredentialsReply(s, n) == [s EXCEPT !.id = n]
removeReply(s)              == [s EXCEPT !.id = 0, !.state = "Removed"]
getInfoReply(s)             == [s EXCEPT !.state = "Ready"]
queryMechanismsReply(s)     == dequeueMethod(s)

success(s, k, value) ==
    LET op == s.call[k].op
    IN  CASE op = "getAuthSessionObjectPath"                -> authenticationSlot(s, value)
          [] op \in {"getIdentity", "registerNewIdentity"} -> registerReply(s, value)
          [] op = "process"         -> responseSlot(s)
          [] op = "store"           -> storeCredentialsReply(s, value)
          [] op = "remove"          -> removeReply(s)
          [] op = "getInfo"         -> getInfoReply(s)
          [] op = "queryMechanisms" -> queryMechanismsReply(s)
          [] OTHER                  -> s

\* A session takes any error for that of its registration under way, and then
\* does not tell the application of it.
errorSlot(s, k, result) ==
    IF s.kind = "session" /\ s.registering
    THEN setError([s EXCEPT !.registering = FALSE, !.process = NoCall], Main)
    ELSE errorReply(s, k, result)

\* A call that is tried again is reported as failed too.
onFinishedTwice(s, k, result, value) ==
    LET t == IF result = "ok" THEN answered(success(s, k, value), k)
                              ELSE errorSlot(s, k, result)
    IN  IF s.call[k].lost /\ result \in RetryErrors THEN enqueueCall(t, k)
                                                   ELSE onCallFinished(t, k)

onFinished(s, k, result, value) ==
    IF s.call[k].lost /\ result \in RetryErrors THEN enqueueCall(s, k)
    ELSE onCallFinished(IF result = "ok" THEN answered(success(s, k, value), k)
                                         ELSE errorSlot(s, k, result), k)

\* Signals of an object are heard through the interface to it.
Heard(s, e) == s.proxy[Main].status = "Ready" /\ s.proxy[Main].path = e.path

unregistered(s) == LET t == setObjectPath(s, NoPath)
                   IN  IF s.kind = "identity" THEN [t EXCEPT !.state = "NeedsRegistration"]
                                              ELSE t

infoUpdated(s, what) == CASE what = "updated" -> updateContents(s)
                          [] what = "removed" -> [s EXCEPT !.state = "Removed"]
                          [] what = "signedOut" -> s

Delivered(s, e) ==
    CASE e.type = "reply"        -> onFinished(s, e.call, e.result, e.path)
      [] e.type = "unregistered" -> IF Heard(s, e) THEN unregistered(s) ELSE s
      [] e.type = "infoUpdated"  -> IF Heard(s, e) THEN infoUpdated(s, e.what) ELSE s
      [] e.type = "disconnected" -> onDisconnected(s)
      [] e.type = "activated"    -> onActivationDone(s, e.ok)

AnswersMechanisms(e) == /\ e.type = "reply" /\ e.result = "ok"
                        /\ c.call[e.call].op = "queryMechanisms"

eventLoop ==
    /\ c.in # <<>>
    /\ LET e == Head(c.in)
       IN  /\ c' = Delivered([c EXCEPT !.in = Tail(@)], e)
           /\ mixed' = (mixed \/ (AnswersMechanisms(e)
                                  /\ (c.methods = <<>> \/ Head(c.methods) # e.call)))
    /\ UNCHANGED <<d, calls, events, canceled>>

\* PendingCall::fail() of a call made on an invalid proxy
postedFail ==
    /\ \E k \in DOMAIN c.call :
         /\ c.call[k].state = "failing"
         /\ \A j \in 1..k-1 : c.call[j].state # "failing"
         /\ c' = onCallFinished(errorSlot(c, k, "refused"), k)
    /\ UNCHANGED <<d, calls, events, canceled, mixed>>

-----------------------------------------------------------------------------
(* signond *)

Happens(kind) == /\ kind \in Env /\ events < MaxEvents
                 /\ events' = events + 1
                 /\ UNCHANGED <<calls, canceled, mixed>>

\* What signond sends is lost on a connection that is gone.
Sent(s, es) == IF s.online THEN [s EXCEPT !.in = @ \o es] ELSE s

Signal(what, path) == [type |-> "infoUpdated", path |-> path, what |-> what]

Answer(s, k, es) == Sent([s EXCEPT !.call[k].served = @ + 1], es)

Request == Head(c.out)
Target  == c.call[Request].path
Taken   == [c EXCEPT !.out = Tail(@)]

\* What waits for the user or for a plugin
Long == {"process", "verifyUser", "remove", "signOut"}

\* getIdentity() hands out the object there is of a stored identity.
Registered(op) ==
    IF op = "getIdentity" /\ d.registered \in d.objects THEN d.registered ELSE d.next

registerObject ==
    /\ c.out # <<>> /\ IsRegistration(Request)
    /\ LET op   == c.call[Request].op
           path == Registered(op)
       IN  IF op = "getIdentity" /\ ~d.row
           THEN /\ c' = Answer(Taken, Request, <<Reply(Request, "refused", NoPath)>>)
                /\ UNCHANGED d
           ELSE /\ c' = Answer(Taken, Request, <<Reply(Request, "ok", path)>>)
                /\ d' = [d EXCEPT !.objects = @ \cup {path},
                                  !.next = IF path = @ THEN @ + 1 ELSE @,
                                  !.registered = IF op = "getIdentity" THEN path ELSE @]
    /\ UNCHANGED <<calls, events, canceled, mixed>>

refuse == /\ c.out # <<>> /\ IsRegistration(Request)
          /\ c' = Answer(Taken, Request, <<Reply(Request, "refused", NoPath)>>)
          /\ Happens("refuse")
          /\ UNCHANGED d

\* store() announces a change of what was stored, and answers with the id.
storeReply(k, path) ==
    (IF d.row /\ d.registered = path THEN <<Signal("updated", path)>> ELSE <<>>)
    \o <<Reply(k, "ok", 1)>>

Known == Target = DaemonPath \/ Target \in d.objects

Serving(P) == /\ c.out # <<>> /\ ~IsRegistration(Request)
              /\ P
              /\ UNCHANGED <<calls, events, canceled, mixed>>

unknownObject ==
    /\ Serving(~Known)
    /\ c' = Sent(Taken, <<Reply(Request, "UnknownObject", NoPath)>>)
    /\ UNCHANGED d

begin == /\ Serving(Known /\ c.call[Request].op \in Long)
         /\ c' = [Taken EXCEPT !.call[Request].served = @ + 1]
         /\ d' = [d EXCEPT !.working = @ \cup {Request}]

serveStore ==
    /\ Serving(Known /\ c.call[Request].op = "store")
    /\ c' = Answer(Taken, Request, storeReply(Request, Target))
    /\ d' = [d EXCEPT !.row = TRUE, !.registered = Target]

serve == /\ Serving(Known /\ c.call[Request].op \notin Long \cup {"store"})
         /\ \E result \in {"ok", "refused"} :
              c' = Answer(Taken, Request, <<Reply(Request, result, NoPath)>>)
         /\ UNCHANGED d

\* remove() and signOut() are announced before they are answered.
complete ==
    /\ \E k \in d.working :
         LET op   == c.call[k].op
             path == c.call[k].path
             es   == CASE op = "remove"  -> <<Signal("removed", path)>>
                       [] op = "signOut" -> <<Signal("signedOut", path)>>
                       [] OTHER          -> <<>>
         IN  /\ \/ c' = Sent(c, Append(es, Reply(k, "ok", NoPath)))
                \/ /\ es = <<>>
                   /\ c' = Sent(c, <<Reply(k, "refused", NoPath)>>)
             /\ d' = [d EXCEPT !.working = @ \ {k},
                               !.row = @ /\ op # "remove"]
    /\ UNCHANGED <<calls, events, canceled, mixed>>

InUse(path) == \E k \in d.working : c.call[k].path = path

unregister ==
    /\ \E path \in d.objects :
         /\ ~InUse(path)
         /\ c' = Sent(c, <<[type |-> "unregistered", path |-> path]>>)
         /\ d' = [d EXCEPT !.objects = @ \ {path}]
    /\ Happens("unregister")

others ==
    /\ d.registered \in d.objects /\ d.row
    /\ \E what \in {"updated", "removed", "signedOut"} :
         /\ c' = Sent(c, <<Signal(what, d.registered)>>)
         /\ d' = [d EXCEPT !.row = what # "removed"]
    /\ Happens("others")

Unanswered == {k \in DOMAIN c.call :
                 /\ c.call[k].state = "sent"
                 /\ \A i \in DOMAIN c.in : c.in[i].type = "reply" => c.in[i].call # k}

InOrder(S) == {ks \in SetToSeqs(S) : \A i, j \in DOMAIN ks : i < j => ks[i] < ks[j]}

\* Qt and libdbus differ in what becomes of the calls not answered, and in
\* whether the library hears of it before it hears of the disconnection.
die ==
    /\ c.up
    /\ \E result \in {"Disconnected", "NoReply"}, before \in BOOLEAN,
          ks \in InOrder(Unanswered) :
         LET failed == [i \in DOMAIN ks |-> Reply(ks[i], result, NoPath)]
             gone   == <<[type |-> "disconnected"]>>
         IN  c' = [Sent(c, IF before THEN failed \o gone ELSE gone \o failed) EXCEPT
                     !.up = FALSE, !.online = FALSE, !.out = <<>>,
                     !.call = [k \in DOMAIN @ |-> [@[k] EXCEPT !.served = 0]]]
    /\ d' = [d EXCEPT !.objects = {}, !.registered = NoPath, !.working = {}]
    /\ Happens("die")

activate == /\ c.starting
            /\ c' = [c EXCEPT !.up = TRUE, !.starting = FALSE,
                              !.in = Append(@, [type |-> "activated", ok |-> TRUE])]
            /\ UNCHANGED <<d, calls, events, canceled, mixed>>

\* Another client has it activated.
start == /\ ~c.up
         /\ c' = [c EXCEPT !.up = TRUE]
         /\ UNCHANGED <<d, calls, events, canceled, mixed>>

noservice == /\ c.starting
             /\ c' = [c EXCEPT !.starting = FALSE,
                               !.in = Append(@, [type |-> "activated", ok |-> FALSE])]
             /\ Happens("noservice")
             /\ UNCHANGED d

-----------------------------------------------------------------------------
Next ==
    \/ queryAvailableMechanisms \/ setId \/ process \/ cancel
    \/ verifyUser \/ storeCredentials \/ remove \/ signOut \/ queryInfo
    \/ sendRequest \/ queryMechanisms
    \/ eventLoop \/ postedFail
    \/ registerObject \/ unknownObject \/ begin \/ serveStore \/ serve \/ complete
    \/ refuse \/ unregister \/ others
    \/ die \/ activate \/ start \/ noservice

Spec == Init /\ [][Next]_vars

FairSpec == /\ Spec
            /\ WF_vars(eventLoop) /\ WF_vars(postedFail)
            /\ WF_vars(registerObject \/ unknownObject \/ begin \/ serveStore \/ serve)
            /\ WF_vars(complete) /\ WF_vars(activate)

-----------------------------------------------------------------------------
(* Properties *)

\* The object path is set once between two losses of it: the assertion of
\* AsyncDBusProxy::setObjectPath().
NoSecondPath == ~c.asserted

\* However often objects go, connections drop and calls are queued again, no
\* call is executed twice by the same signond.
ExecutedOnce == \A k \in DOMAIN c.call : c.call[k].served <= 1

\* A process() whose cancellation was reported at once, without asking signond,
\* never reaches signond, whatever queue it was withdrawn from.
CanceledNeverExecuted == \A k \in canceled : c.call[k].served = 0

\* mechanismsAvailable() names the method that was asked about, although replies
\* carry no method and calls may fail or be tried again in between.
MechanismsMatch == ~mixed

\* An identity or a service is told of the end of each of its calls exactly
\* once.  (A session may be told twice or, its one error slot serving the
\* registration as well, not at all: see setError and errorSlot.)
ToldOnce ==
    c.kind # "session" =>
        \A k \in DOMAIN c.call : c.call[k].state = "done" => c.call[k].answers = 1

Asked(k)   == k \in DOMAIN c.call /\ ~IsRegistration(k)
Settled(k) == Asked(k) => c.call[k].state = "done"

\* Where the library leaves the calls it has queued:
\*  - on the session bus, which is not modelled;
\*  - when the activation of signond has failed (onActivationDone);
\*  - when the path arrived after the connection was given up (enqueue alone
\*    asks for another);
\*  - when a proxy has forgotten the path that never changes (setDisconnected);
\*  - when the registration of an identity has failed (errorReply), which an
\*    identity tells its proxy nothing of.
Forgotten(p) == c.proxy[p].exists /\ c.proxy[p].path = NoPath

Bereft ==
    \/ c.service = "bus"
    \/ /\ c.service = "activating" /\ ~c.starting
       /\ \A i \in DOMAIN c.in : c.in[i].type # "activated"
    \/ c.proxy[Main].path # NoPath /\ ~c.proxy[Main].conn
    \/ c.kind = "service" /\ Forgotten(Main)
    \/ \E p \in DOMAIN c.proxy \ {Main} : Forgotten(p)
    \/ /\ c.kind = "identity" /\ c.proxy[Main].path = NoPath
       /\ \A p \in DOMAIN c.proxy \ {Main} : ~c.proxy[p].exists

\* Every call ends, over every loss of the object, of the connection and of
\* signond itself, but in those situations.
EveryCallSettled == \A k \in 1..MaxCalls + 3 : <>[](Settled(k) \/ Bereft)

=============================================================================
