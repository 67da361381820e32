---------------------------- MODULE PluginProxy ----------------------------
(***************************************************************************)
(* The proxy signond keeps for one authentication plugin                   *)
(* (src/signond/pluginproxy.cpp), the two pipes to the plugin process and, *)
(* as its environment, the plugin process itself                           *)
(* (src/remotepluginprocess, src/plugins).  The proxy's Qt signals are     *)
(* direct connections: the handlers they run are in SessionCore, which     *)
(* extends this module.                                                    *)
(*                                                                         *)
(* A message carries, next to its operation code, the request it is about. *)
(* The code does not: the real daemon matches a response to a request only *)
(* by its place in time, which is what the properties examine.             *)
(***************************************************************************)
EXTENDS Naturals, Sequences

CONSTANTS Requests,      \* the process() calls made by the clients
          NoRequest,     \* stands for the absence of one
          Policy,        \* the UiPolicy parameter of each request
          Env,           \* what the environment may do, see EnvKinds
          MaxChatter     \* bound: store and dialog messages of one request

EnvKinds == {"crash",       \* the plugin process dies by itself
             "late",        \* a blob may be torn while a canceled request
                           \* ends, a process' end noticed after it
             "restart",     \* starting it again may fail
             "torn",        \* a data blob arrives incomplete
             "unasked",     \* a plugin answers while its dialog is open
             "idle"}        \* a plugin answers a cancel, or what a dialog
                           \* returned, with no request to work on

Policies == {"Default", "NoUserInteraction", "Validation", "RequestPassword"}

ASSUME ProxyAssumption ==
    /\ NoRequest \notin Requests
    /\ Policy \in [Requests -> Policies]
    /\ Env \subseteq EnvKinds
    /\ MaxChatter \in Nat

VARIABLES isProcessing,      \* m_isProcessing
          isResultObtained,  \* m_isResultObtained
          uiPolicy,          \* m_uiPolicy
          procState,         \* m_process->state()
          writeBuffer,       \* written to m_process, not yet to its pipe
          toPlugin,          \* the pipe to the process' standard input
          fromPlugin,        \* the pipe from its standard output
          task,              \* the request the plugin works on
          awaitingUi,        \* it has asked for a dialog or a refresh
          chatter            \* messages it may still send before the answer

proxyFlags == <<isProcessing, isResultObtained, uiPolicy>>
process    == <<task, awaitingUi, chatter>>
proxyVars  == <<proxyFlags, procState, writeBuffer, toPlugin,
                fromPlugin, process>>

Operations == {"process", "processUi", "refresh", "cancel", "stop"}
BlobResponses == {"result", "store", "ui", "refreshed"}
Responses == BlobResponses \cup {"error", "exit", "crash"}
MaybeRequest == Requests \cup {NoRequest}

ProxyTypeOK ==
    /\ isProcessing \in BOOLEAN
    /\ isResultObtained \in BOOLEAN
    /\ uiPolicy \in Policies
    /\ procState \in {"Running", "NotRunning"}
    /\ writeBuffer \in Seq([op : Operations, req : MaybeRequest])
    /\ toPlugin \in Seq([op : Operations, req : MaybeRequest])
    /\ fromPlugin \in Seq([resp : Responses, req : MaybeRequest])
    /\ task \in MaybeRequest
    /\ awaitingUi \in BOOLEAN
    /\ chatter \in 0..MaxChatter

\* createNewPluginProxy: the process is started and has named its mechanisms.
ProxyInit ==
    /\ isProcessing = FALSE
    /\ isResultObtained = FALSE
    /\ uiPolicy = "Default"
    /\ procState = "Running"
    /\ writeBuffer = <<>>
    /\ toPlugin = <<>>
    /\ fromPlugin = <<>>
    /\ task = NoRequest
    /\ awaitingUi = FALSE
    /\ chatter = 0

-----------------------------------------------------------------------------
(* Calls made by the session core. *)

Written(operation, r) == Append(writeBuffer, [op |-> operation, req |-> r])

\* A restart fails when the process does not start, or starts and its greeting
\* has been consumed before readOnReady() looks for it.
restartIfRequired(ok) ==
    \/ procState = "Running" /\ ok /\ UNCHANGED procState
    \/ procState = "NotRunning" /\ ok /\ procState' = "Running"
    \/ /\ procState = "NotRunning" /\ ~ok /\ "restart" \in Env
       /\ procState' \in {"Running", "NotRunning"}

proxyProcess(r, ok) ==
    /\ restartIfRequired(ok)
    /\ IF ok THEN /\ isResultObtained' = FALSE
                  /\ uiPolicy' = Policy[r]
                  /\ writeBuffer' = Written("process", r)
                  /\ isProcessing' = TRUE
             ELSE UNCHANGED <<proxyFlags, writeBuffer>>
    /\ UNCHANGED <<toPlugin, fromPlugin, process>>

\* processUi() and processRefresh(); their callers ignore the result.
proxyContinue(operation, r) ==
    /\ \E ok \in BOOLEAN :
          /\ restartIfRequired(ok)
          /\ IF ok THEN /\ writeBuffer' = Written(operation, r)
                        /\ isProcessing' = TRUE
                   ELSE UNCHANGED <<writeBuffer, isProcessing>>
    /\ UNCHANGED <<isResultObtained, uiPolicy, toPlugin, process>>

\* What cancel() and stop() write is lost when there is no process.
WrittenIfRunning(operation, r) ==
    IF procState = "Running" THEN Written(operation, r) ELSE writeBuffer

\* QProcess moves what was written into the pipe when the main loop polls.
flushWrites ==
    /\ writeBuffer # <<>>
    /\ procState = "Running"
    /\ toPlugin' = toPlugin \o writeBuffer
    /\ writeBuffer' = <<>>
    /\ UNCHANGED <<proxyFlags, procState, fromPlugin, process>>

-----------------------------------------------------------------------------
(* The plugin process. *)

ProcessAlive ==
    /\ procState = "Running"
    /\ \A i \in 1..Len(fromPlugin) : fromPlugin[i].resp \notin {"exit", "crash"}

\* The news of the process' end, after which it sends nothing.
Farewell == IF ProcessAlive \/ fromPlugin = <<>> THEN <<>>
            ELSE <<fromPlugin[Len(fromPlugin)]>>

Emits(response, r) ==
    fromPlugin' = Append(fromPlugin, [resp |-> response, req |-> r])

Rests == /\ task' = NoRequest
         /\ awaitingUi' = FALSE
         /\ chatter' = 0

\* startTask(): the process reads one operation from its standard input.
startTask ==
    /\ ProcessAlive
    /\ toPlugin # <<>>
    /\ toPlugin' = Tail(toPlugin)
    /\ LET m == Head(toPlugin) IN
       \/ /\ m.op = "process"
          /\ task' = m.req
          /\ awaitingUi' = FALSE
          /\ chatter' = MaxChatter
          /\ UNCHANGED fromPlugin
       \/ /\ m.op \in {"processUi", "refresh"}
          /\ IF task # NoRequest \/ "idle" \in Env
             THEN /\ task' = m.req
                  /\ awaitingUi' = FALSE
                  /\ chatter' = IF task = NoRequest THEN MaxChatter ELSE chatter
             ELSE UNCHANGED process
          /\ UNCHANGED fromPlugin
       \/ /\ m.op = "cancel"
          /\ IF task # NoRequest \/ "idle" \in Env
             THEN Emits("error", m.req)
             ELSE UNCHANGED fromPlugin
          /\ Rests
       \/ /\ m.op = "stop"
          /\ Emits("exit", NoRequest)
          /\ Rests
    /\ UNCHANGED <<proxyFlags, procState, writeBuffer>>

\* The plugin finishes the request: result() or error().
pluginAnswers(response) ==
    /\ ProcessAlive
    /\ task # NoRequest
    /\ awaitingUi => "unasked" \in Env
    /\ Emits(response, task)
    /\ Rests
    /\ UNCHANGED <<proxyFlags, procState, writeBuffer, toPlugin>>

\* store(), userActionRequired() and refreshed().
pluginAsks(response) ==
    /\ ProcessAlive
    /\ task # NoRequest
    /\ ~awaitingUi
    /\ chatter > 0
    /\ chatter' = chatter - 1
    /\ Emits(response, task)
    /\ awaitingUi' = (response # "store")
    /\ UNCHANGED <<proxyFlags, procState, writeBuffer, toPlugin, task>>

processDies ==
    /\ "crash" \in Env
    /\ ProcessAlive
    /\ Emits("crash", NoRequest)
    /\ Rests
    /\ UNCHANGED <<proxyFlags, procState, writeBuffer, toPlugin>>

PluginStep ==
    \/ startTask
    \/ \E response \in {"result", "error"} : pluginAnswers(response)
    \/ \E response \in {"store", "ui", "refreshed"} : pluginAsks(response)
    \/ processDies
=============================================================================
