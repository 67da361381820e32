---------------------------- MODULE SessionCore ----------------------------
(***************************************************************************)
(* One SignonSessionCore (src/signond/signonsessioncore.cpp): the queue of *)
(* authentication requests of one identity and method, the plugin that     *)
(* serves them one at a time, the signon-ui dialog a request may open, and *)
(* the credentials a successful request writes back.                       *)
(*                                                                         *)
(* All handlers run in signond's one thread, so each is one action.  What  *)
(* interleaves is the order in which the main loop runs them.  Two kinds   *)
(* of call are posted to the loop, in order: startNewRequest               *)
(* (Qt::QueuedConnection) and queryUiSlot, which QDBusPendingCallWatcher   *)
(* posts to itself when the answer of signon-ui arrives.  The posted queue *)
(* is kept as the number of startNewRequest calls ahead of that slot and   *)
(* behind it; the slot is posted exactly while the watcher is "finished".  *)
(***************************************************************************)
EXTENDS PluginProxy, FiniteSets, SequencesExt

CONSTANTS Sessions,      \* the AuthSession objects: the values of m_cancelKey
          CancelKey,     \* the one each request comes from
          Stored,        \* m_id # SIGNOND_NEW_IDENTITY
          SecretsDBOpen, \* CredentialsDB::isSecretsDBOpen()
          MaxCancels     \* bound: cancel() calls of the clients

ASSUME SessionAssumption ==
    /\ CancelKey \in [Requests -> Sessions]
    /\ Stored \in BOOLEAN
    /\ SecretsDBOpen \in BOOLEAN
    /\ MaxCancels \in Nat

VARIABLES listOfRequests,    \* m_listOfRequests: each request with the owner
                             \* of the credentials its m_params now hold
          requestIsActive,   \* m_requestIsActive
          canceled,          \* m_canceled
          autoDestruct,      \* SignonDisposable::autoDestruct
          watcher,           \* m_watcher: its status, the request it is for
          tmpCreds,          \* m_tmpUsername, m_tmpPassword: whose they are
          uiDisplayed,       \* m_queryCredsUiDisplayed
          ready,             \* isCredentialsSystemReady()
          startsAhead,       \* posted startNewRequest calls ahead of the
          startsBehind,      \* posted queryUiSlot, and behind it
          validated,         \* the identity's validated flag in the database
          cancels,           \* cancel() calls made, for the bound
          aborted            \* signond has stopped at a failed Q_ASSERT_X

\* What the clients and the database have seen; never read by the code.
VARIABLES submitted,         \* the requests made so far
          answer,            \* the first reply to each request
          repliedAgain,      \* the requests replied to more than once
          results,           \* <<r, s>>: r was given the plugin's answer to s
          writes,            \* <<r, s>>: r's result stored the credentials of s
          dialogs,           \* the requests whose dialog was answered
          alerts,            \* the requests that had the key authorizer pop up
          cancelForgotten    \* m_canceled was cleared before the plugin answered

posted   == <<startsAhead, startsBehind>>
outcome  == <<answer, repliedAgain, results, writes, dialogs, alerts,
              cancelForgotten>>
history  == <<submitted, outcome>>
coreVars == <<listOfRequests, requestIsActive, canceled, autoDestruct, watcher,
              tmpCreds, uiDisplayed, ready, posted, validated, cancels, aborted>>
vars     == <<proxyVars, coreVars, history>>

Answers == {"none", "result", "error", "canceled", "notStarted"}
NoWatcher == [status |-> "none", req |-> NoRequest]

CoreTypeOK ==
    /\ listOfRequests \in Seq([req : Requests, creds : MaybeRequest])
    /\ requestIsActive \in BOOLEAN
    /\ canceled \in BOOLEAN
    /\ autoDestruct \in BOOLEAN
    /\ watcher \in [status : {"pending", "finished"}, req : Requests] \cup {NoWatcher}
    /\ tmpCreds \in MaybeRequest
    /\ uiDisplayed \in BOOLEAN
    /\ ready \in BOOLEAN
    /\ startsAhead \in Nat
    /\ startsBehind \in Nat
    /\ validated \in BOOLEAN
    /\ cancels \in 0..MaxCancels
    /\ aborted \in BOOLEAN

HistoryTypeOK ==
    /\ submitted \subseteq Requests
    /\ answer \in [Requests -> Answers]
    /\ repliedAgain \subseteq Requests
    /\ results \subseteq Requests \X MaybeRequest
    /\ writes \subseteq Requests \X MaybeRequest
    /\ dialogs \subseteq Requests
    /\ alerts \subseteq Requests
    /\ cancelForgotten \in BOOLEAN

\* The variables hold the values their declarations name.
TypeOK == ProxyTypeOK /\ CoreTypeOK /\ HistoryTypeOK

Init ==
    /\ ProxyInit
    /\ listOfRequests = <<>>
    /\ requestIsActive = FALSE
    /\ canceled = FALSE
    /\ autoDestruct = TRUE
    /\ watcher = NoWatcher
    /\ tmpCreds = NoRequest
    /\ uiDisplayed = FALSE
    /\ ready \in BOOLEAN
    /\ startsAhead = 0
    /\ startsBehind = 0
    /\ validated \in IF Stored THEN BOOLEAN ELSE {FALSE}
    /\ cancels = 0
    /\ aborted = FALSE
    /\ submitted = {}
    /\ answer = [r \in Requests |-> "none"]
    /\ repliedAgain = {}
    /\ results = {}
    /\ writes = {}
    /\ dialogs = {}
    /\ alerts = {}
    /\ cancelForgotten = FALSE

head == Head(listOfRequests).req

-----------------------------------------------------------------------------
(* Parts of the handlers. *)

\* invokeMethod(this, "startNewRequest", Qt::QueuedConnection), after the
\* watcher, and with it its posted slot, has been left as it is or deleted.
PostStart ==
    IF watcher'.status = "finished"
    THEN startsBehind' = startsBehind + 1 /\ UNCHANGED startsAhead
    ELSE startsAhead' = startsAhead + startsBehind + 1 /\ startsBehind' = 0

\* Deleting the watcher, when nothing is posted in the same handler.
PostNothing ==
    IF watcher'.status = "finished"
    THEN UNCHANGED posted
    ELSE startsAhead' = startsAhead + startsBehind /\ startsBehind' = 0

\* Faulty variants of a definition, named after it, come right before it: each
\* has one plausible slip, and a property of some run must notice it.

\* m_watcher is deleted and not reset; the dialog is left open.
CloseDialogDangling ==
    watcher' = IF watcher.status = "pending"
               THEN [watcher EXCEPT !.status = "deleted"] ELSE watcher
CloseDialogForgotten == UNCHANGED watcher

\* cancelUiRequest() and delete, only while the dialog is open.
CloseDialog ==
    watcher' = IF watcher.status = "pending" THEN NoWatcher ELSE watcher

Reply(r, kind) ==
    /\ answer' = IF answer[r] = "none" THEN [answer EXCEPT ![r] = kind]
                                       ELSE answer
    /\ repliedAgain' = IF answer[r] = "none" THEN repliedAgain
                                             ELSE repliedAgain \cup {r}

NoReply == UNCHANGED <<answer, repliedAgain>>

\* removeFirst() is missing, removes the last request, or nothing is posted.
requestDoneKeeps ==
    /\ UNCHANGED listOfRequests
    /\ requestIsActive' = FALSE
    /\ PostStart
requestDoneDropsLast ==
    /\ listOfRequests' = Front(listOfRequests)
    /\ requestIsActive' = FALSE
    /\ PostStart
requestDoneSilent ==
    /\ listOfRequests' = Tail(listOfRequests)
    /\ requestIsActive' = FALSE
    /\ PostNothing

requestDone ==
    /\ listOfRequests' = Tail(listOfRequests)
    /\ requestIsActive' = FALSE
    /\ PostStart

\* The memory cache alone took the update: SIGNON_SECURE_STORAGE_NOT_AVAILABLE
\* is posted to the CredentialsAccessManager.
StorageUnavailable == validated /\ ~SecretsDBOpen /\ uiDisplayed

-----------------------------------------------------------------------------
(* Calls of the clients. *)

\* SignonSessionCore::process
processRequest(r) ==
    /\ r \notin submitted
    /\ submitted' = submitted \cup {r}
    /\ listOfRequests' = Append(listOfRequests, [req |-> r, creds |-> r])
    /\ UNCHANGED watcher
    /\ IF ready THEN PostStart ELSE UNCHANGED posted
    /\ UNCHANGED <<proxyVars, outcome, requestIsActive, canceled, autoDestruct,
                   tmpCreds, uiDisplayed, ready, validated, cancels, aborted>>

\* SignonSessionCore::cancel, for the first request of the session.
cancel(session) ==
    /\ cancels < MaxCancels
    /\ cancels' = cancels + 1
    /\ \E i \in DOMAIN listOfRequests :
          LET r == listOfRequests[i].req
              isActive == i = 1 /\ requestIsActive IN
          /\ CancelKey[r] = session
          /\ \A j \in 1..(i - 1) : CancelKey[listOfRequests[j].req] # session
          /\ Reply(r, "canceled")
          /\ \/ /\ isActive
                /\ canceled' = TRUE
                /\ writeBuffer' = WrittenIfRunning("cancel", r)
                /\ CloseDialog
                /\ PostNothing
                /\ UNCHANGED listOfRequests
             \/ /\ ~isActive
                /\ listOfRequests' = RemoveAt(listOfRequests, i)
                /\ UNCHANGED <<canceled, writeBuffer, watcher, posted>>
    /\ UNCHANGED <<proxyFlags, procState, toPlugin, fromPlugin, process, requestIsActive,
                   autoDestruct, tmpCreds, uiDisplayed, ready, validated, aborted,
                   submitted, results, writes, dialogs, alerts, cancelForgotten>>

\* SignonSessionCore::credentialsSystemReady
credentialsSystemReady ==
    /\ ~ready
    /\ ready' = TRUE
    /\ UNCHANGED watcher
    /\ PostStart
    /\ UNCHANGED <<proxyVars, history, listOfRequests, requestIsActive, canceled,
                   autoDestruct, tmpCreds, uiDisplayed, validated, cancels, aborted>>

-----------------------------------------------------------------------------
(* The posted call startNewRequest, first in the queue. *)

\* The call leaves the queue; the handler posts more of them.
StartLeaves(more) ==
    IF watcher.status = "finished"
    THEN startsAhead' = startsAhead - 1 /\ startsBehind' = startsBehind + more
    ELSE startsAhead' = startsAhead - 1 + more /\ UNCHANGED startsBehind

\* The parameters handed to the plugin: the caller's, completed from the
\* database; the policy RequestPassword drops the stored password.
CredsToTry(e) == IF Policy[e.req] = "RequestPassword" THEN NoRequest ELSE e.creds

startProcess ==
    \E ok \in BOOLEAN :
       /\ proxyProcess(head, ok)
       /\ tmpCreds' = CredsToTry(Head(listOfRequests))
       /\ \/ /\ ok
             /\ requestIsActive' = TRUE
             /\ StartLeaves(0)
             /\ NoReply
             /\ UNCHANGED listOfRequests
          \/ /\ ~ok
             /\ Reply(head, "notStarted")
             /\ listOfRequests' = Tail(listOfRequests)
             /\ requestIsActive' = FALSE
             /\ StartLeaves(1)

\* The check for an active request is missing.
startNewRequestTwice ==
    /\ startsAhead > 0
    /\ canceled' = FALSE
    /\ UNCHANGED cancelForgotten
    /\ IF listOfRequests # <<>> /\ watcher.status # "pending"
       THEN /\ autoDestruct' = FALSE
            /\ startProcess
       ELSE /\ autoDestruct' = (autoDestruct \/ listOfRequests = <<>>)
            /\ StartLeaves(0)
            /\ NoReply
            /\ UNCHANGED <<proxyVars, listOfRequests, requestIsActive, tmpCreds>>
    /\ UNCHANGED <<watcher, uiDisplayed, ready, validated, cancels, aborted,
                   submitted, results, writes, dialogs, alerts>>

startNewRequest ==
    /\ startsAhead > 0
    /\ canceled' = FALSE
    /\ cancelForgotten' = (cancelForgotten \/ (canceled /\ requestIsActive))
    /\ IF listOfRequests # <<>> /\ ~requestIsActive /\ watcher.status # "pending"
       THEN /\ autoDestruct' = FALSE
            /\ startProcess
       ELSE /\ autoDestruct' = (autoDestruct \/ listOfRequests = <<>>)
            /\ StartLeaves(0)
            /\ NoReply
            /\ UNCHANGED <<proxyVars, listOfRequests, requestIsActive, tmpCreds>>
    /\ UNCHANGED <<watcher, uiDisplayed, ready, validated, cancels, aborted,
                   submitted, results, writes, dialogs, alerts>>

-----------------------------------------------------------------------------
(* What the plugin says: the slots connected to the proxy's signals. *)

\* The result of a canceled request is stored like any other.
processResultReplyStores(of) ==
    IF listOfRequests = <<>>
    THEN UNCHANGED <<coreVars, history>>
    ELSE /\ validated' = (validated \/ Stored)
         /\ writes' = IF Stored /\ tmpCreds # NoRequest
                      THEN writes \cup {<<head, tmpCreds>>} ELSE writes
         /\ tmpCreds' = NoRequest
         /\ IF canceled THEN NoReply ELSE Reply(head, "result")
         /\ CloseDialog
         /\ uiDisplayed' = FALSE
         /\ requestDone
         /\ UNCHANGED <<canceled, autoDestruct, ready, cancels, aborted, submitted,
                        results, alerts, dialogs, cancelForgotten>>

processResultReply(of) ==
    IF listOfRequests = <<>>
    THEN UNCHANGED <<coreVars, history>>
    ELSE /\ IF canceled
            THEN UNCHANGED <<history, watcher, tmpCreds, uiDisplayed, validated>>
            ELSE /\ validated' = (validated \/ Stored)
                 /\ writes' = IF Stored /\ tmpCreds # NoRequest
                              THEN writes \cup {<<head, tmpCreds>>} ELSE writes
                 /\ alerts' = IF Stored /\ StorageUnavailable
                              THEN alerts \cup {head} ELSE alerts
                 /\ tmpCreds' = NoRequest
                 /\ Reply(head, "result")
                 /\ results' = results \cup {<<head, of>>}
                 /\ CloseDialog
                 /\ uiDisplayed' = FALSE
                 /\ UNCHANGED <<submitted, dialogs, cancelForgotten>>
         /\ requestDone
         /\ UNCHANGED <<canceled, autoDestruct, ready, cancels, aborted>>

\* The error is not passed on to the client.
processErrorUntold(of) ==
    /\ tmpCreds' = NoRequest
    /\ IF listOfRequests = <<>>
       THEN UNCHANGED <<listOfRequests, requestIsActive, watcher, posted>>
       ELSE /\ CloseDialog
            /\ requestDone
    /\ UNCHANGED <<canceled, autoDestruct, uiDisplayed, ready, validated, cancels,
                   aborted, history>>

\* of is NoRequest when the error is the proxy's own.
processError(of) ==
    /\ tmpCreds' = NoRequest
    /\ IF listOfRequests = <<>>
       THEN UNCHANGED <<listOfRequests, requestIsActive, watcher, posted, history>>
       ELSE /\ IF canceled
               THEN UNCHANGED <<history, watcher>>
               ELSE /\ Reply(head, "error")
                    /\ CloseDialog
                    /\ results' = IF of = NoRequest THEN results
                                                    ELSE results \cup {<<head, of>>}
                    /\ UNCHANGED <<submitted, writes, dialogs, alerts,
                                   cancelForgotten>>
            /\ requestDone
    /\ UNCHANGED <<canceled, autoDestruct, uiDisplayed, ready, validated, cancels, aborted>>

\* The blob itself goes to the database, not modelled here.
processStore ==
    /\ alerts' = IF Stored /\ StorageUnavailable /\ listOfRequests # <<>>
                 THEN alerts \cup {head} ELSE alerts
    /\ uiDisplayed' = (uiDisplayed /\ ~Stored)
    /\ UNCHANGED <<listOfRequests, requestIsActive, canceled, autoDestruct, watcher,
                   tmpCreds, ready, posted, validated, cancels, aborted,
                   submitted, answer, repliedAgain, results, writes, dialogs,
                   cancelForgotten>>

\* processUiRequest and processRefreshRequest: a dialog for the first request
\* replaces the one open; its m_params now hold what the plugin sent.
openDialog(of) ==
    IF canceled \/ listOfRequests = <<>>
    THEN UNCHANGED <<coreVars, history>>
    ELSE /\ watcher' = [status |-> "pending", req |-> head]
         /\ listOfRequests' = [listOfRequests EXCEPT ![1].creds = of]
         /\ PostNothing
         /\ UNCHANGED <<requestIsActive, canceled, autoDestruct, tmpCreds, uiDisplayed,
                        ready, validated, cancels, aborted, history>>

-----------------------------------------------------------------------------
(* PluginProxy reading the plugin's output. *)

SilentCore == UNCHANGED <<coreVars, history>>

Received == Head(fromPlugin)
Receives(kinds) == /\ fromPlugin # <<>>
                   /\ Received.resp \in kinds
                   /\ fromPlugin' = Tail(fromPlugin)

\* handlePluginResponse, for a message that ends the request.
handleAnswer ==
    /\ Receives({"result", "error"})
    /\ isProcessing' = FALSE
    /\ isResultObtained' = TRUE
    /\ CASE isResultObtained -> SilentCore
         [] ~isResultObtained /\ Received.resp = "result" ->
               processResultReply(Received.req)
         [] ~isResultObtained /\ Received.resp = "error" ->
               processError(Received.req)
    /\ UNCHANGED <<uiPolicy, procState, writeBuffer, toPlugin, process>>

handleStore ==
    /\ Receives({"store"})
    /\ IF isResultObtained THEN SilentCore ELSE processStore
    /\ UNCHANGED <<proxyFlags, procState, writeBuffer, toPlugin, process>>

\* A dialog the UI policy forbids is answered at once with
\* QUERY_ERROR_FORBIDDEN.  NoUserInteraction forbids all, Validation those
\* that ask for credentials and show no captcha.
DialogForbidden(queriesCredentials) ==
    \/ uiPolicy = "NoUserInteraction"
    \/ uiPolicy = "Validation" /\ queriesCredentials

handleUi ==
    /\ Receives({"ui"})
    /\ \E queriesCredentials \in BOOLEAN :
          IF ~isResultObtained /\ DialogForbidden(queriesCredentials)
          THEN proxyContinue("processUi", Received.req) /\ SilentCore
          ELSE /\ IF isResultObtained THEN SilentCore ELSE openDialog(Received.req)
               /\ UNCHANGED <<proxyFlags, procState, writeBuffer, toPlugin, process>>

handleRefreshed ==
    /\ Receives({"refreshed"})
    /\ IF isResultObtained THEN SilentCore ELSE openDialog(Received.req)
    /\ UNCHANGED <<proxyFlags, procState, writeBuffer, toPlugin, process>>

\* blobIOError: what follows the torn blob is read as usual, or, when it does
\* not start with an operation code, thrown away up to the process' exit.
blobIOError ==
    /\ "torn" \in Env
    /\ canceled => "late" \in Env
    /\ fromPlugin # <<>>
    /\ Received.resp \in BlobResponses
    /\ fromPlugin' \in {Tail(fromPlugin), Farewell}
    /\ writeBuffer' = WrittenIfRunning("stop", NoRequest)
    /\ processError(NoRequest)
    /\ UNCHANGED <<proxyFlags, procState, toPlugin, process>>

\* The proxy does not report that its process is gone.
onExitUnnoticed ==
    /\ Receives({"exit", "crash"})
    /\ canceled /\ ~requestIsActive => "late" \in Env
    /\ procState' = "NotRunning"
    /\ writeBuffer' = <<>>
    /\ toPlugin' = <<>>
    /\ isProcessing' = FALSE
    /\ SilentCore
    /\ UNCHANGED <<isResultObtained, uiPolicy, process>>

\* QProcess::finished; the output the process left has been read by then.
onExit ==
    /\ Receives({"exit", "crash"})
    /\ canceled /\ ~requestIsActive => "late" \in Env
    /\ procState' = "NotRunning"
    /\ writeBuffer' = <<>>
    /\ toPlugin' = <<>>
    /\ isProcessing' = FALSE
    /\ IF isProcessing \/ Received.resp = "crash" THEN processError(NoRequest) ELSE SilentCore
    /\ UNCHANGED <<isResultObtained, uiPolicy, process>>

-----------------------------------------------------------------------------
(* The dialog of signon-ui. *)

\* Its answer reaches the process: the watcher is finished, its slot posted.
uiReplies ==
    /\ watcher.status = "pending"
    /\ watcher' = [watcher EXCEPT !.status = "finished"]
    /\ UNCHANGED <<proxyVars, history, listOfRequests, requestIsActive, canceled,
                   autoDestruct, tmpCreds, uiDisplayed, ready, posted, validated,
                   cancels, aborted>>

\* What signon-ui answers: the user's credentials, a request to refresh, a
\* cancelation or an error of its own, or no answer at all.
UiAnswers == {"ok", "refresh", "canceled", "noUi"}

\* Whose credentials m_params hold after the answer.
CredsAfter(uiAnswer) ==
    CASE uiAnswer = "noUi"             -> Head(listOfRequests).creds
      [] uiAnswer = "canceled"         -> NoRequest
      [] uiAnswer \in {"ok", "refresh"} -> watcher.req

\* The answer becomes m_params and, unless canceled, goes to the plugin.
useUiAnswer ==
    \E uiAnswer \in UiAnswers :
       /\ listOfRequests' = [listOfRequests EXCEPT ![1].creds = CredsAfter(uiAnswer)]
       /\ uiDisplayed' = CASE uiAnswer = "canceled" -> FALSE
                           [] uiAnswer = "noUi"     -> uiDisplayed
                           [] OTHER                 -> TRUE
       /\ dialogs' = IF uiAnswer \in {"ok", "refresh"}
                     THEN dialogs \cup {watcher.req} ELSE dialogs
       /\ IF canceled
          THEN UNCHANGED <<proxyVars, tmpCreds>>
          ELSE /\ tmpCreds' = CredsAfter(uiAnswer)
               /\ proxyContinue(IF uiAnswer = "refresh" THEN "refresh" ELSE "processUi",
                                watcher.req)
               /\ UNCHANGED fromPlugin

\* With an empty queue the slot asserts, and a build without assertions reads
\* the head of an empty list: either way signond ends here.
queryUiSlot ==
    /\ watcher.status = "finished"
    /\ startsAhead = 0
    /\ IF listOfRequests = <<>>
       THEN aborted' = TRUE /\ UNCHANGED <<proxyVars, listOfRequests, tmpCreds,
                                           uiDisplayed, dialogs>>
       ELSE UNCHANGED aborted /\ useUiAnswer
    /\ watcher' = NoWatcher
    /\ PostNothing
    /\ UNCHANGED <<requestIsActive, canceled, autoDestruct, ready, validated, cancels,
                   submitted, answer, repliedAgain, results, writes, alerts,
                   cancelForgotten>>

-----------------------------------------------------------------------------
ClientStep ==
    \/ \E r \in Requests : processRequest(r)
    \/ \E session \in Sessions : cancel(session)

LoopStep ==
    \/ startNewRequest
    \/ queryUiSlot
    \/ handleAnswer
    \/ handleStore
    \/ handleUi
    \/ handleRefreshed
    \/ onExit

\* The loop polls, and so writes, when nothing is left in its posted queue.
pollAndFlush ==
    /\ startsAhead = 0
    /\ watcher.status # "finished"
    /\ flushWrites
    /\ SilentCore

PluginProcessStep == PluginStep /\ SilentCore

Next ==
    /\ ~aborted
    /\ \/ ClientStep
       \/ LoopStep
       \/ blobIOError
       \/ pollAndFlush
       \/ PluginProcessStep
       \/ credentialsSystemReady
       \/ uiReplies

Spec == Init /\ [][Next]_vars

-----------------------------------------------------------------------------
(* Fairness.  The main loop delivers its posted calls and reads the plugin's *)
(* output; it polls.  The plugin reads its input and ends what it works on.  *)
(* A dialog ends when the user closes it, the D-Bus call at its timeout; the *)
(* key managers report their keys once started.  Nothing is assumed of the   *)
(* clients, and no fault is ever required to happen.                         *)

Fairness ==
    /\ WF_vars(~aborted /\ (startNewRequest \/ queryUiSlot))
    /\ WF_vars(~aborted /\ (handleAnswer \/ handleStore \/ handleUi
                             \/ handleRefreshed \/ onExit))
    /\ WF_vars(~aborted /\ pollAndFlush)
    /\ WF_vars(~aborted /\ startTask /\ SilentCore)
    /\ WF_vars(~aborted /\ SilentCore
               /\ \E response \in {"result", "error"} : pluginAnswers(response))
    /\ WF_vars(~aborted /\ credentialsSystemReady)
    /\ WF_vars(~aborted /\ uiReplies)

FairSpec == Spec /\ Fairness

-----------------------------------------------------------------------------
(* Properties. *)

InQueue(r) == \E i \in DOMAIN listOfRequests : listOfRequests[i].req = r

\* No lost wakeup: while requests wait and none is active, a posted
\* startNewRequest is on its way.  process(), requestDone() and
\* credentialsSystemReady() post it; startNewRequest() itself gives up early
\* when a dialog is open, which must then belong to an active request.
NoStalledQueue ==
    ready /\ listOfRequests # <<>> /\ ~requestIsActive
        => startsAhead + startsBehind > 0

\* A dialog is open only for the request being processed: every path that
\* ends a request closes its dialog before the next one is looked at.
DialogBelongsToActive ==
    watcher.status = "pending" => requestIsActive /\ watcher.req = head

\* A client that did not cancel gets exactly one reply, whatever the plugin
\* does: the second reply to one D-Bus call is always to a canceled one.
OnlyCanceledRepliedAgain == \A r \in repliedAgain : answer[r] = "canceled"

\* A client receives the plugin's answer to its own request, and
\* the plugin is never left working on a request that is over.  The proxy
\* tells responses apart by time alone.  The exception is a cancelation that
\* startNewRequest() forgot by clearing m_canceled while the canceled request
\* was still active.
ResultsReachTheirRequest ==
    ~cancelForgotten =>
        /\ \A p \in results : p[1] = p[2]
        /\ task # NoRequest => requestIsActive /\ task = head

\* Only the request's own credentials, or those its own dialog returned, are
\* stored as validated, and none at all once its client has canceled it.
WritesBelongToTheirRequest ==
    ~cancelForgotten =>
        \A p \in writes : p[1] = p[2] /\ answer[p[1]] # "canceled"

\* signond never ends in queryUiSlot(), the answer of a dialog finding the
\* queue empty, as long as no cancelation is forgotten.
NoAbortUnlessForgotten == ~cancelForgotten => ~aborted

\* A request leaves the queue only with an answer: requestDone() and
\* takeAt() have each been preceded by a reply.
NoSilentDrop ==
    [][\A r \in Requests : InQueue(r) /\ ~InQueue(r)' => answer'[r] # "none"]_vars

\* Every process() call is answered in the end.
EveryRequestAnswered == \A r \in Requests : r \in submitted ~> answer[r] # "none"

\* The queue of requests, the active flag and the replies implement the
\* promise of RequestQueue.
Queue == INSTANCE RequestQueue WITH
            waiting  <- [i \in DOMAIN listOfRequests |-> listOfRequests[i].req],
            serving  <- requestIsActive,
            accepted <- submitted,
            answered <- {r \in Requests : answer[r] # "none"}
ServesTheQueue == Queue!Spec

-----------------------------------------------------------------------------
(* What comments, an assertion and the client documentation say of the code; *)
(* the README gives the runs that refute them.                               *)

\* Q_ASSERT_X in queryUiSlot(): the queue of requests is not empty.
UiAnswerFindsRequest == ~aborted

\* The comment on m_queryCredsUiDisplayed: the storage event, which makes the
\* key authorizer pop up, is posted only for a request that showed a dialog.
AlertsFollowDialog == alerts \subseteq dialogs
=============================================================================
