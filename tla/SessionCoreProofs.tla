------------------------- MODULE SessionCoreProofs -------------------------
(***************************************************************************)
(* Theorems about SessionCore, for every set of requests and sessions and  *)
(* every environment.                                                      *)
(***************************************************************************)
EXTENDS SessionCore, SequenceTheorems, TLAPS

Entries == [req : Requests, creds : MaybeRequest]
Ops == [op : Operations, req : MaybeRequest]
Msgs == [resp : Responses, req : MaybeRequest]
Watchers == [status : {"pending", "finished"}, req : Requests] \cup {NoWatcher}

-----------------------------------------------------------------------------
(* Type correctness of the proxy. *)

LEMMA InitProxyTypeOK == ProxyInit => ProxyTypeOK
<1> SUFFICES ASSUME ProxyInit PROVE ProxyTypeOK
  OBVIOUS
<1>1. MaxChatter \in Nat
  BY ProxyAssumption
<1>2. /\ writeBuffer \in Seq(Ops)
      /\ toPlugin \in Seq(Ops)
      /\ fromPlugin \in Seq(Msgs)
  BY DEF ProxyInit
<1>3. /\ uiPolicy \in Policies
      /\ chatter \in 0..MaxChatter
  BY <1>1 DEF ProxyInit, Policies
<1>4. /\ task \in MaybeRequest
      /\ isProcessing \in BOOLEAN
      /\ isResultObtained \in BOOLEAN
      /\ procState \in {"Running", "NotRunning"}
      /\ awaitingUi \in BOOLEAN
  BY DEF ProxyInit, MaybeRequest
<1> QED
  BY <1>2, <1>3, <1>4 DEF ProxyTypeOK, Ops, Msgs

\* Appending an operation to what is written keeps its type.
LEMMA WrittenTyped ==
  ASSUME ProxyTypeOK, NEW operation \in Operations, NEW r \in MaybeRequest
  PROVE  /\ Written(operation, r) \in Seq(Ops)
         /\ WrittenIfRunning(operation, r) \in Seq(Ops)
<1>1. writeBuffer \in Seq(Ops)
  BY DEF ProxyTypeOK, Ops
<1>2. [op |-> operation, req |-> r] \in Ops
  BY DEF Ops
<1>3. Written(operation, r) \in Seq(Ops)
  BY <1>1, <1>2, AppendProperties DEF Written
<1> QED
  BY <1>1, <1>3 DEF WrittenIfRunning

LEMMA EmitsTyped ==
  ASSUME ProxyTypeOK, NEW response \in Responses, NEW r \in MaybeRequest,
         Emits(response, r)
  PROVE  fromPlugin' \in Seq(Msgs)
<1>1. fromPlugin \in Seq(Msgs)
  BY DEF ProxyTypeOK, Msgs
<1>2. [resp |-> response, req |-> r] \in Msgs
  BY DEF Msgs
<1> QED
  BY <1>1, <1>2, AppendProperties DEF Emits

LEMMA MaybeRequestFacts == NoRequest \in MaybeRequest /\ Requests \subseteq MaybeRequest
BY DEF MaybeRequest

LEMMA ChatterFacts == 0 \in 0..MaxChatter /\ MaxChatter \in 0..MaxChatter
<1>1. MaxChatter \in Nat
  BY ProxyAssumption
<1> QED
  BY <1>1

ProcessTyped == /\ task \in MaybeRequest
                /\ awaitingUi \in BOOLEAN
                /\ chatter \in 0..MaxChatter

LEMMA RestsTyped == Rests => ProcessTyped'
BY MaybeRequestFacts, ChatterFacts DEF Rests, ProcessTyped

LEMMA StartTaskTyped == ProxyTypeOK /\ startTask => ProxyTypeOK'
<1> SUFFICES ASSUME ProxyTypeOK, startTask PROVE ProxyTypeOK'
  OBVIOUS
<1> DEFINE m == Head(toPlugin)
<1>2. toPlugin \in Seq(Ops) /\ toPlugin # <<>>
  BY DEF ProxyTypeOK, Ops, startTask
<1>3. m \in Ops /\ Tail(toPlugin) \in Seq(Ops)
  BY <1>2, HeadTailProperties
<1>4. m.req \in MaybeRequest
  BY <1>3 DEF Ops
<1>5. ProcessTyped'
  <2>2. ProcessTyped
    BY DEF ProxyTypeOK, ProcessTyped
  <2>3. CASE task' = m.req /\ awaitingUi' = FALSE /\ chatter' = MaxChatter
    BY <2>3, <1>4, ChatterFacts DEF ProcessTyped
  <2>4. CASE task' = m.req /\ awaitingUi' = FALSE /\ chatter' = chatter
    BY <2>2, <2>4, <1>4 DEF ProcessTyped
  <2>5. CASE UNCHANGED process
    BY <2>2, <2>5 DEF ProcessTyped, process
  <2>6. CASE Rests
    BY <2>6, RestsTyped
  <2> QED
    BY <2>3, <2>4, <2>5, <2>6 DEF startTask
<1>6. fromPlugin' \in Seq(Msgs)
  <2>1. CASE UNCHANGED fromPlugin
    BY <2>1 DEF ProxyTypeOK, Msgs
  <2>2. CASE Emits("error", m.req)
    BY <2>2, <1>4, EmitsTyped DEF Responses
  <2>3. CASE Emits("exit", NoRequest)
    BY <2>3, EmitsTyped, MaybeRequestFacts DEF Responses
  <2> QED
    BY <2>1, <2>2, <2>3 DEF startTask
<1>7. /\ toPlugin' \in Seq(Ops)
      /\ UNCHANGED <<proxyFlags, procState, writeBuffer>>
  BY <1>3 DEF startTask
<1> QED
  BY <1>5, <1>6, <1>7 DEF ProxyTypeOK, ProcessTyped, Ops, Msgs, proxyFlags

LEMMA PluginStepTyped == ProxyTypeOK /\ PluginStep => ProxyTypeOK'
<1> SUFFICES ASSUME ProxyTypeOK, PluginStep PROVE ProxyTypeOK'
  OBVIOUS
<1>1. CASE startTask
  BY <1>1, StartTaskTyped
<1>2. ASSUME NEW response \in {"result", "error"}, pluginAnswers(response)
      PROVE  ProxyTypeOK'
  <2>1. fromPlugin' \in Seq(Msgs)
    <3>1. response \in Responses
      BY DEF Responses, BlobResponses
    <3>2. task \in MaybeRequest
      BY DEF ProxyTypeOK
    <3> QED
      BY <1>2, <3>1, <3>2, EmitsTyped DEF pluginAnswers
  <2>2. ProcessTyped' /\ UNCHANGED <<proxyFlags, procState, writeBuffer, toPlugin>>
    BY <1>2, RestsTyped DEF pluginAnswers
  <2> QED
    BY <2>1, <2>2 DEF ProxyTypeOK, ProcessTyped, proxyFlags, Msgs
<1>3. ASSUME NEW response \in {"store", "ui", "refreshed"}, pluginAsks(response)
      PROVE  ProxyTypeOK'
  <2>1. fromPlugin' \in Seq(Msgs)
    <3>1. response \in Responses
      BY DEF Responses, BlobResponses
    <3>2. task \in MaybeRequest
      BY DEF ProxyTypeOK
    <3> QED
      BY <1>3, <3>1, <3>2, EmitsTyped DEF pluginAsks
  <2>2. chatter' \in 0..MaxChatter
    <3>1. MaxChatter \in Nat /\ chatter \in 0..MaxChatter
      BY ProxyAssumption DEF ProxyTypeOK
    <3> QED
      BY <1>3, <3>1 DEF pluginAsks
  <2>3. /\ awaitingUi' \in BOOLEAN
        /\ UNCHANGED <<proxyFlags, procState, writeBuffer, toPlugin, task>>
    BY <1>3 DEF pluginAsks
  <2> QED
    BY <2>1, <2>2, <2>3 DEF ProxyTypeOK, proxyFlags, Msgs
<1>4. CASE processDies
  <2>1. fromPlugin' \in Seq(Msgs)
    BY <1>4, EmitsTyped, MaybeRequestFacts DEF processDies, Responses
  <2>2. ProcessTyped' /\ UNCHANGED <<proxyFlags, procState, writeBuffer, toPlugin>>
    BY <1>4, RestsTyped DEF processDies
  <2> QED
    BY <2>1, <2>2 DEF ProxyTypeOK, ProcessTyped, proxyFlags, Msgs
<1> QED
  BY <1>1, <1>2, <1>3, <1>4 DEF PluginStep

LEMMA RestartTyped ==
  ASSUME ProxyTypeOK, NEW ok, restartIfRequired(ok)
  PROVE  procState' \in {"Running", "NotRunning"}
BY DEF ProxyTypeOK, restartIfRequired

LEMMA ProxyProcessTyped ==
  ASSUME ProxyTypeOK, NEW r \in Requests, NEW ok \in BOOLEAN, proxyProcess(r, ok)
  PROVE  ProxyTypeOK'
<1>1. procState' \in {"Running", "NotRunning"}
  BY RestartTyped DEF proxyProcess
<1>2. Written("process", r) \in Seq(Ops)
  BY WrittenTyped, MaybeRequestFacts DEF Operations
<1>3. Policy[r] \in Policies
  BY ProxyAssumption
<1>4. CASE ok
  BY <1>1, <1>2, <1>3, <1>4 DEF proxyProcess, ProxyTypeOK, process, Ops
<1>5. CASE ~ok
  BY <1>1, <1>5 DEF proxyProcess, ProxyTypeOK, process, proxyFlags
<1> QED
  BY <1>4, <1>5

\* The caller says what becomes of fromPlugin.
LEMMA ProxyContinueTyped ==
  ASSUME ProxyTypeOK, NEW operation \in Operations, NEW r \in MaybeRequest,
         proxyContinue(operation, r), fromPlugin' \in Seq(Msgs)
  PROVE  ProxyTypeOK'
<1>1. PICK ok \in BOOLEAN :
         /\ restartIfRequired(ok)
         /\ IF ok THEN /\ writeBuffer' = Written(operation, r)
                       /\ isProcessing' = TRUE
                  ELSE UNCHANGED <<writeBuffer, isProcessing>>
  BY DEF proxyContinue
<1>2. procState' \in {"Running", "NotRunning"}
  BY <1>1, RestartTyped
<1>3. writeBuffer' \in Seq(Ops) /\ isProcessing' \in BOOLEAN
  <2>1. Written(operation, r) \in Seq(Ops)
    BY WrittenTyped
  <2>2. CASE ok
    BY <1>1, <2>1, <2>2
  <2>3. CASE ~ok
    BY <1>1, <2>3 DEF ProxyTypeOK, Ops
  <2> QED
    BY <2>2, <2>3
<1>4. UNCHANGED <<isResultObtained, uiPolicy, toPlugin, process>>
  BY DEF proxyContinue
<1> QED
  BY <1>2, <1>3, <1>4 DEF ProxyTypeOK, process, Ops, Msgs

LEMMA FlushTyped == ProxyTypeOK /\ flushWrites => ProxyTypeOK'
<1> SUFFICES ASSUME ProxyTypeOK, flushWrites PROVE ProxyTypeOK'
  OBVIOUS
<1>1. toPlugin' \in Seq(Ops) /\ writeBuffer' \in Seq(Ops)
  <2>1. toPlugin \in Seq(Ops) /\ writeBuffer \in Seq(Ops)
    BY DEF ProxyTypeOK, Ops
  <2>2. toPlugin \o writeBuffer \in Seq(Ops)
    BY <2>1, ConcatProperties
  <2>3. toPlugin' = toPlugin \o writeBuffer /\ writeBuffer' = <<>>
    BY DEF flushWrites
  <2> QED
    BY <2>2, <2>3
<1> QED
  BY <1>1 DEF flushWrites, ProxyTypeOK, process, proxyFlags, Ops

-----------------------------------------------------------------------------
(* Type correctness of the core: the parts its handlers are made of. *)

PostedTyped == startsAhead \in Nat /\ startsBehind \in Nat
QueueTyped == listOfRequests \in Seq(Entries)
RepliesTyped == answer \in [Requests -> Answers] /\ repliedAgain \subseteq Requests

LEMMA PartsTyped == CoreTypeOK /\ HistoryTypeOK =>
                       PostedTyped /\ QueueTyped /\ RepliesTyped /\ watcher \in Watchers
BY DEF CoreTypeOK, HistoryTypeOK, PostedTyped, QueueTyped, RepliesTyped, Watchers, Entries

LEMMA HeadTyped ==
  ASSUME QueueTyped, listOfRequests # <<>>
  PROVE  /\ Head(listOfRequests) \in Entries
         /\ head \in Requests
         /\ Tail(listOfRequests) \in Seq(Entries)
<1>1. Head(listOfRequests) \in Entries /\ Tail(listOfRequests) \in Seq(Entries)
  BY HeadTailProperties DEF QueueTyped
<1> QED
  BY <1>1 DEF Entries, head

LEMMA EntryTyped ==
  ASSUME QueueTyped, NEW i \in DOMAIN listOfRequests
  PROVE  /\ i \in 1..Len(listOfRequests)
         /\ listOfRequests[i] \in Entries
         /\ listOfRequests[i].req \in Requests
<1>1. DOMAIN listOfRequests = 1..Len(listOfRequests)
  BY LenProperties DEF QueueTyped
<1>2. listOfRequests[i] \in Entries
  BY <1>1, ElementOfSeq DEF QueueTyped
<1> QED
  BY <1>1, <1>2 DEF Entries

LEMMA CloseDialogTyped == watcher \in Watchers /\ CloseDialog => watcher' \in Watchers
BY DEF CloseDialog, Watchers

LEMMA PostTyped == PostedTyped /\ (PostStart \/ PostNothing) => PostedTyped'
<1> SUFFICES ASSUME PostedTyped, PostStart \/ PostNothing PROVE PostedTyped'
  OBVIOUS
<1>1. CASE PostStart
  BY <1>1 DEF PostedTyped, PostStart
<1>2. CASE PostNothing
  BY <1>2 DEF PostedTyped, PostNothing, posted
<1> QED
  BY <1>1, <1>2

LEMMA ReplyTyped ==
  ASSUME RepliesTyped, NEW r \in Requests, NEW kind \in Answers, Reply(r, kind)
  PROVE  RepliesTyped'
BY DEF RepliesTyped, Reply

LEMMA NoReplyTyped == RepliesTyped /\ NoReply => RepliesTyped'
BY DEF RepliesTyped, NoReply

LEMMA RequestDoneTyped ==
  ASSUME QueueTyped, PostedTyped, listOfRequests # <<>>, requestDone
  PROVE  QueueTyped' /\ PostedTyped' /\ requestIsActive' \in BOOLEAN
<1>1. QueueTyped'
  BY HeadTyped DEF requestDone, QueueTyped
<1> QED
  BY <1>1, PostTyped DEF requestDone

LEMMA StartLeavesTyped ==
  ASSUME PostedTyped, startsAhead > 0, NEW more \in Nat, StartLeaves(more)
  PROVE  PostedTyped'
BY DEF PostedTyped, StartLeaves

-----------------------------------------------------------------------------
(* Type correctness of the core: its handlers. *)

CoreAndHistoryTyped == CoreTypeOK /\ HistoryTypeOK

LEMMA SilentTyped == CoreAndHistoryTyped /\ SilentCore => CoreAndHistoryTyped'
BY DEF CoreAndHistoryTyped, CoreTypeOK, HistoryTypeOK, SilentCore, coreVars, history,
       outcome, posted

LEMMA ProcessRequestTyped ==
  ASSUME CoreAndHistoryTyped, NEW r \in Requests, processRequest(r)
  PROVE  CoreAndHistoryTyped'
<1>1. QueueTyped'
  <2>1. [req |-> r, creds |-> r] \in Entries
    BY MaybeRequestFacts DEF Entries
  <2> QED
    BY <2>1, PartsTyped, AppendProperties DEF CoreAndHistoryTyped, QueueTyped, processRequest
<1>2. PostedTyped'
  BY PartsTyped, PostTyped DEF CoreAndHistoryTyped, PostedTyped, posted, processRequest
<1>3. submitted' \subseteq Requests
  BY DEF CoreAndHistoryTyped, HistoryTypeOK, processRequest
<1>4. UNCHANGED <<outcome, watcher, requestIsActive, canceled, autoDestruct,
                  tmpCreds, uiDisplayed, ready, validated, cancels, aborted>>
  BY DEF processRequest
<1> QED
  BY <1>1, <1>2, <1>3, <1>4
  DEF CoreAndHistoryTyped, CoreTypeOK, HistoryTypeOK, QueueTyped, PostedTyped, Entries, outcome

LEMMA CredentialsSystemReadyTyped ==
  ASSUME CoreAndHistoryTyped, credentialsSystemReady
  PROVE  CoreAndHistoryTyped'
<1>1. PostedTyped'
  BY PartsTyped, PostTyped DEF CoreAndHistoryTyped, credentialsSystemReady
<1> QED
  BY <1>1 DEF CoreAndHistoryTyped, CoreTypeOK, HistoryTypeOK, PostedTyped, outcome,
              history, credentialsSystemReady

\* RemoveAt, the model of takeAt(): the entries before i stay, the others move up.
LEMMA RemoveAtFacts ==
  ASSUME NEW S, NEW s \in Seq(S), NEW i \in 1..Len(s)
  PROVE  /\ RemoveAt(s, i) \in Seq(S)
         /\ Len(RemoveAt(s, i)) = Len(s) - 1
         /\ \A k \in 1..(Len(s) - 1) :
               RemoveAt(s, i)[k] = IF k < i THEN s[k] ELSE s[k + 1]
<1> DEFINE front == SubSeq(s, 1, i - 1)
           back  == SubSeq(s, i + 1, Len(s))
<1>1. Len(s) \in Nat /\ \A k \in 1..Len(s) : s[k] \in S
  BY ElementOfSeq, LenProperties
<1>2. /\ front \in Seq(S)
      /\ Len(front) = i - 1
      /\ \A k \in 1..(i - 1) : front[k] = s[k]
  <2>1. \A k \in 1..(i - 1) : s[k] \in S
    BY <1>1
  <2>2. /\ front \in Seq(S)
        /\ Len(front) = IF 1 <= i - 1 THEN (i - 1) - 1 + 1 ELSE 0
        /\ \A k \in 1..((i - 1) - 1 + 1) : front[k] = s[1 + k - 1]
    BY <2>1, SubSeqProperties
  <2> QED
    BY <2>2
<1>3. /\ back \in Seq(S)
      /\ Len(back) = Len(s) - i
      /\ \A k \in 1..(Len(s) - i) : back[k] = s[i + k]
  <2>1. \A k \in (i + 1)..Len(s) : s[k] \in S
    BY <1>1
  <2>2. /\ back \in Seq(S)
        /\ Len(back) = IF i + 1 <= Len(s) THEN Len(s) - (i + 1) + 1 ELSE 0
        /\ \A k \in 1..(Len(s) - (i + 1) + 1) : back[k] = s[(i + 1) + k - 1]
    BY <1>1, <2>1, SubSeqProperties
  <2> QED
    BY <1>1, <2>2
<1> HIDE DEF front, back
<1>4. /\ front \o back \in Seq(S)
      /\ Len(front \o back) = Len(s) - 1
      /\ \A k \in 1..(Len(s) - 1) :
            (front \o back)[k] = IF k <= i - 1 THEN front[k] ELSE back[k - (i - 1)]
  <2>1. /\ front \o back \in Seq(S)
        /\ Len(front \o back) = Len(front) + Len(back)
        /\ \A k \in 1..(Len(front) + Len(back)) :
              (front \o back)[k] = IF k <= Len(front) THEN front[k] ELSE back[k - Len(front)]
    BY <1>2, <1>3, ConcatProperties
  <2>2. Len(front) = i - 1 /\ Len(front) + Len(back) = Len(s) - 1
    BY <1>1, <1>2, <1>3
  <2> QED
    BY <2>1, <2>2
<1>5. ASSUME NEW k \in 1..(Len(s) - 1)
      PROVE  (front \o back)[k] = IF k < i THEN s[k] ELSE s[k + 1]
  <2>1. CASE k < i
    BY <1>1, <1>2, <1>4, <2>1
  <2>2. CASE ~(k < i)
    <3>1. k - (i - 1) \in 1..(Len(s) - i) /\ i + (k - (i - 1)) = k + 1 /\ ~(k <= i - 1)
      BY <1>1, <2>2
    <3> QED
      BY <1>1, <1>3, <1>4, <2>2, <3>1
  <2> QED
    BY <2>1, <2>2
<1> QED
  BY <1>4, <1>5 DEF RemoveAt, front, back

LEMMA CancelTyped ==
  ASSUME CoreAndHistoryTyped, ProxyTypeOK, NEW session \in Sessions, cancel(session)
  PROVE  CoreAndHistoryTyped' /\ ProxyTypeOK'
<1>1. PICK i \in DOMAIN listOfRequests :
        LET r == listOfRequests[i].req IN
        /\ Reply(r, "canceled")
        /\ \/ /\ canceled' = TRUE
              /\ writeBuffer' = WrittenIfRunning("cancel", r)
              /\ CloseDialog
              /\ PostNothing
              /\ UNCHANGED listOfRequests
           \/ /\ listOfRequests' = RemoveAt(listOfRequests, i)
              /\ UNCHANGED <<canceled, writeBuffer, watcher, posted>>
  BY DEF cancel
<1> DEFINE r == listOfRequests[i].req
<1>2. QueueTyped /\ PostedTyped /\ RepliesTyped /\ watcher \in Watchers
  BY PartsTyped DEF CoreAndHistoryTyped
<1>3. i \in 1..Len(listOfRequests) /\ r \in Requests
  BY <1>2, EntryTyped
<1> HIDE DEF r
<1>4. RepliesTyped'
  BY <1>1, <1>2, <1>3, ReplyTyped DEF Answers, r
<1>5. QueueTyped'
  BY <1>1, <1>2, <1>3, RemoveAtFacts DEF QueueTyped
<1>6. PostedTyped' /\ watcher' \in Watchers
  BY <1>1, <1>2, PostTyped, CloseDialogTyped DEF PostedTyped, posted
<1>7. writeBuffer' \in Seq(Ops)
  <2>1. writeBuffer \in Seq(Ops)
    BY DEF ProxyTypeOK, Ops
  <2>2. WrittenIfRunning("cancel", r) \in Seq(Ops)
    BY <1>3, WrittenTyped, MaybeRequestFacts DEF Operations
  <2> QED
    BY <1>1, <2>1, <2>2 DEF r
<1>8. canceled' \in BOOLEAN
  BY <1>1 DEF CoreAndHistoryTyped, CoreTypeOK
<1>9. cancels' \in 0..MaxCancels
  <2>1. MaxCancels \in Nat /\ cancels \in 0..MaxCancels
    BY SessionAssumption DEF CoreAndHistoryTyped, CoreTypeOK
  <2> QED
    BY <2>1 DEF cancel
<1>10. UNCHANGED <<proxyFlags, procState, toPlugin, fromPlugin, process, requestIsActive,
                   autoDestruct, tmpCreds, uiDisplayed, ready, validated, aborted,
                   submitted, results, writes, dialogs, alerts, cancelForgotten>>
  BY DEF cancel
<1>11. CoreTypeOK'
  BY <1>5, <1>6, <1>8, <1>9, <1>10 DEF CoreAndHistoryTyped, CoreTypeOK, QueueTyped,
     PostedTyped, Watchers, Entries
<1>12. HistoryTypeOK'
  BY <1>4, <1>10 DEF CoreAndHistoryTyped, HistoryTypeOK, RepliesTyped
<1>13. ProxyTypeOK'
  BY <1>7, <1>10 DEF ProxyTypeOK, proxyFlags, process, Ops
<1> QED
  BY <1>11, <1>12, <1>13 DEF CoreAndHistoryTyped

LEMMA StartNewRequestTyped ==
  ASSUME CoreAndHistoryTyped, ProxyTypeOK, startNewRequest
  PROVE  CoreAndHistoryTyped' /\ ProxyTypeOK'
<1>1. QueueTyped /\ PostedTyped /\ RepliesTyped
  BY PartsTyped DEF CoreAndHistoryTyped
<1>2. /\ canceled' \in BOOLEAN
      /\ cancelForgotten' \in BOOLEAN
      /\ autoDestruct' \in BOOLEAN
  BY DEF startNewRequest, CoreAndHistoryTyped, CoreTypeOK, HistoryTypeOK
<1>3. UNCHANGED <<watcher, uiDisplayed, ready, validated, cancels, aborted,
                  submitted, results, writes, dialogs, alerts>>
  BY DEF startNewRequest
<1>4. /\ QueueTyped' /\ PostedTyped' /\ RepliesTyped' /\ ProxyTypeOK'
      /\ requestIsActive' \in BOOLEAN
      /\ tmpCreds' \in MaybeRequest
  <2>1. CASE listOfRequests # <<>> /\ startProcess
    <3>1. PICK ok \in BOOLEAN :
            /\ proxyProcess(head, ok)
            /\ tmpCreds' = CredsToTry(Head(listOfRequests))
            /\ \/ /\ ok
                  /\ requestIsActive' = TRUE
                  /\ StartLeaves(0)
                  /\ NoReply
                  /\ UNCHANGED listOfRequests
               \/ /\ ~ok
                  /\ Reply(head, "notStarted")
                  /\ listOfRequests' = Tail(listOfRequests)
                  /\ requestIsActive' = FALSE
                  /\ StartLeaves(1)
      BY <2>1 DEF startProcess
    <3>2. /\ Head(listOfRequests) \in Entries
          /\ head \in Requests
          /\ Tail(listOfRequests) \in Seq(Entries)
      BY <1>1, <2>1, HeadTyped
    <3>3. ProxyTypeOK'
      BY <3>1, <3>2, ProxyProcessTyped
    <3>4. tmpCreds' \in MaybeRequest
      BY <3>1, <3>2, MaybeRequestFacts DEF CredsToTry, Entries
    <3>5. QueueTyped' /\ requestIsActive' \in BOOLEAN
      BY <1>1, <3>1, <3>2 DEF QueueTyped
    <3>6. PostedTyped'
      BY <1>1, <3>1, StartLeavesTyped DEF startNewRequest
    <3>7. RepliesTyped'
      BY <1>1, <3>1, <3>2, ReplyTyped, NoReplyTyped DEF Answers
    <3> QED
      BY <3>3, <3>4, <3>5, <3>6, <3>7
  <2>2. CASE /\ StartLeaves(0)
             /\ NoReply
             /\ UNCHANGED <<proxyVars, listOfRequests, requestIsActive, tmpCreds>>
    <3>1. PostedTyped'
      BY <1>1, <2>2, StartLeavesTyped DEF startNewRequest
    <3>2. ProxyTypeOK'
      BY <2>2 DEF ProxyTypeOK, proxyVars, proxyFlags, process
    <3>3. RepliesTyped'
      BY <1>1, <2>2, NoReplyTyped
    <3> QED
      BY <1>1, <2>2, <3>1, <3>2, <3>3 DEF QueueTyped, CoreAndHistoryTyped, CoreTypeOK
  <2> QED
    BY <2>1, <2>2 DEF startNewRequest
<1> QED
  BY <1>2, <1>3, <1>4 DEF CoreAndHistoryTyped, CoreTypeOK, HistoryTypeOK, QueueTyped,
     PostedTyped, RepliesTyped, Entries

LEMMA ProcessResultReplyTyped ==
  ASSUME CoreAndHistoryTyped, NEW of \in MaybeRequest, processResultReply(of)
  PROVE  CoreAndHistoryTyped'
<1>1. CASE listOfRequests = <<>>
  BY <1>1, SilentTyped DEF processResultReply, SilentCore
<1>2. CASE listOfRequests # <<>>
  <2>1. QueueTyped /\ PostedTyped /\ RepliesTyped /\ watcher \in Watchers
    BY PartsTyped DEF CoreAndHistoryTyped
  <2>2. head \in Requests
    BY <1>2, <2>1, HeadTyped
  <2>3. QueueTyped' /\ PostedTyped' /\ requestIsActive' \in BOOLEAN
    BY <1>2, <2>1, RequestDoneTyped DEF processResultReply
  <2>4. /\ RepliesTyped' /\ watcher' \in Watchers /\ tmpCreds' \in MaybeRequest
        /\ uiDisplayed' \in BOOLEAN /\ validated' \in BOOLEAN
        /\ results' \subseteq Requests \X MaybeRequest
        /\ writes' \subseteq Requests \X MaybeRequest
        /\ alerts' \subseteq Requests
        /\ UNCHANGED <<submitted, dialogs, cancelForgotten>>
    <3>1. CASE canceled
      BY <1>2, <2>1, <3>1 DEF processResultReply, history, outcome, CoreAndHistoryTyped,
         CoreTypeOK, HistoryTypeOK, RepliesTyped
    <3>2. CASE ~canceled
      <4>1. RepliesTyped' /\ watcher' \in Watchers
        BY <1>2, <2>1, <2>2, <3>2, ReplyTyped, CloseDialogTyped DEF processResultReply, Answers
      <4>2. /\ tmpCreds' \in MaybeRequest /\ uiDisplayed' \in BOOLEAN
            /\ UNCHANGED <<submitted, dialogs, cancelForgotten>>
        BY <1>2, <3>2, MaybeRequestFacts DEF processResultReply
      <4>3. validated' \in BOOLEAN
        BY <1>2, <3>2 DEF processResultReply
      <4>4. results' \subseteq Requests \X MaybeRequest
        BY <1>2, <2>2, <3>2 DEF processResultReply, CoreAndHistoryTyped, HistoryTypeOK
      <4>5. writes' \subseteq Requests \X MaybeRequest
        BY <1>2, <2>2, <3>2 DEF processResultReply, CoreAndHistoryTyped, CoreTypeOK,
           HistoryTypeOK
      <4>6. alerts' \subseteq Requests
        BY <1>2, <2>2, <3>2 DEF processResultReply, CoreAndHistoryTyped, HistoryTypeOK
      <4> QED
        BY <4>1, <4>2, <4>3, <4>4, <4>5, <4>6
    <3> QED
      BY <3>1, <3>2
  <2>5. UNCHANGED <<canceled, autoDestruct, ready, cancels, aborted>>
    BY <1>2 DEF processResultReply
  <2> QED
    BY <2>3, <2>4, <2>5 DEF CoreAndHistoryTyped, CoreTypeOK, HistoryTypeOK, QueueTyped,
       PostedTyped, RepliesTyped, Entries, Watchers
<1> QED
  BY <1>1, <1>2

LEMMA ProcessErrorTyped ==
  ASSUME CoreAndHistoryTyped, NEW of \in MaybeRequest, processError(of)
  PROVE  CoreAndHistoryTyped'
<1>1. /\ tmpCreds' \in MaybeRequest
      /\ UNCHANGED <<canceled, autoDestruct, uiDisplayed, ready, validated, cancels, aborted>>
  BY MaybeRequestFacts DEF processError
<1>2. CASE listOfRequests = <<>>
  BY <1>1, <1>2 DEF processError, CoreAndHistoryTyped, CoreTypeOK, HistoryTypeOK, posted,
     history, outcome
<1>3. CASE listOfRequests # <<>>
  <2>1. QueueTyped /\ PostedTyped /\ RepliesTyped /\ watcher \in Watchers
    BY PartsTyped DEF CoreAndHistoryTyped
  <2>2. head \in Requests
    BY <1>3, <2>1, HeadTyped
  <2>3. QueueTyped' /\ PostedTyped' /\ requestIsActive' \in BOOLEAN
    BY <1>3, <2>1, RequestDoneTyped DEF processError
  <2>4. /\ RepliesTyped' /\ watcher' \in Watchers
        /\ results' \subseteq Requests \X MaybeRequest
        /\ UNCHANGED <<submitted, writes, dialogs, alerts, cancelForgotten>>
    <3>1. CASE canceled
      BY <1>3, <2>1, <3>1 DEF processError, history, outcome, CoreAndHistoryTyped,
         HistoryTypeOK, RepliesTyped
    <3>2. CASE ~canceled
      <4>1. RepliesTyped' /\ watcher' \in Watchers
        BY <1>3, <2>1, <2>2, <3>2, ReplyTyped, CloseDialogTyped DEF processError, Answers
      <4>2. results' \subseteq Requests \X MaybeRequest
        BY <1>3, <2>2, <3>2 DEF processError, CoreAndHistoryTyped, HistoryTypeOK
      <4> QED
        BY <1>3, <3>2, <4>1, <4>2 DEF processError
    <3> QED
      BY <3>1, <3>2
  <2> QED
    BY <1>1, <2>3, <2>4 DEF CoreAndHistoryTyped, CoreTypeOK, HistoryTypeOK, QueueTyped,
       PostedTyped, RepliesTyped, Entries, Watchers
<1> QED
  BY <1>2, <1>3

LEMMA ProcessStoreTyped ==
  ASSUME CoreAndHistoryTyped, processStore
  PROVE  CoreAndHistoryTyped'
<1>1. alerts' \subseteq Requests
  BY PartsTyped, HeadTyped DEF processStore, CoreAndHistoryTyped, HistoryTypeOK
<1>2. uiDisplayed' \in BOOLEAN
  BY DEF processStore
<1>3. UNCHANGED <<listOfRequests, requestIsActive, canceled, autoDestruct, watcher,
                   tmpCreds, ready, posted, validated, cancels, aborted,
                   submitted, answer, repliedAgain, results, writes, dialogs,
                   cancelForgotten>>
  BY DEF processStore
<1> QED
  BY <1>1, <1>2, <1>3 DEF CoreAndHistoryTyped, CoreTypeOK, HistoryTypeOK, posted

\* The first entry of the queue gets new credentials.
LEMMA HeadCredsTyped ==
  ASSUME QueueTyped, listOfRequests # <<>>, NEW c \in MaybeRequest
  PROVE  [listOfRequests EXCEPT ![1].creds = c] \in Seq(Entries)
<1> DEFINE e == [listOfRequests[1] EXCEPT !.creds = c]
<1>1. 1 \in 1..Len(listOfRequests)
  BY EmptySeq, LenProperties DEF QueueTyped
<1>2. listOfRequests[1] \in Entries
  BY <1>1, ElementOfSeq DEF QueueTyped
<1>3. e \in Entries
  BY <1>2 DEF Entries
<1>4. [listOfRequests EXCEPT ![1] = e] \in Seq(Entries)
  BY <1>1, <1>3, ExceptSeq DEF QueueTyped
<1>5. [listOfRequests EXCEPT ![1].creds = c] = [listOfRequests EXCEPT ![1] = e]
  OBVIOUS
<1> QED
  BY <1>4, <1>5

LEMMA OpenDialogTyped ==
  ASSUME CoreAndHistoryTyped, NEW of \in MaybeRequest, openDialog(of)
  PROVE  CoreAndHistoryTyped'
<1>1. CASE canceled \/ listOfRequests = <<>>
  BY <1>1, SilentTyped DEF openDialog, SilentCore
<1>2. CASE ~(canceled \/ listOfRequests = <<>>)
  <2>1. QueueTyped /\ PostedTyped
    BY PartsTyped DEF CoreAndHistoryTyped
  <2>2. watcher' \in Watchers
    BY <1>2, <2>1, HeadTyped DEF openDialog, Watchers
  <2>3. QueueTyped'
    BY <1>2, <2>1, HeadCredsTyped DEF openDialog, QueueTyped
  <2>4. PostedTyped'
    BY <1>2, <2>1, PostTyped DEF openDialog
  <2>5. UNCHANGED <<requestIsActive, canceled, autoDestruct, tmpCreds, uiDisplayed,
                    ready, validated, cancels, aborted, history>>
    BY <1>2 DEF openDialog
  <2> QED
    BY <2>2, <2>3, <2>4, <2>5 DEF CoreAndHistoryTyped, CoreTypeOK, HistoryTypeOK,
       QueueTyped, PostedTyped, Entries, Watchers, history, outcome
<1> QED
  BY <1>1, <1>2

LEMMA UiRepliesTyped ==
  ASSUME CoreAndHistoryTyped, ProxyTypeOK, uiReplies
  PROVE  CoreAndHistoryTyped' /\ ProxyTypeOK'
<1>1. watcher' \in Watchers
  <2>1. watcher \in [status : {"pending", "finished"}, req : Requests]
    <3>1. watcher \in Watchers /\ watcher.status = "pending"
      BY PartsTyped DEF uiReplies, CoreAndHistoryTyped
    <3> QED
      BY <3>1 DEF Watchers, NoWatcher
  <2>2. watcher' = [watcher EXCEPT !.status = "finished"]
    BY DEF uiReplies
  <2> QED
    BY <2>1, <2>2 DEF Watchers
<1>2. UNCHANGED <<proxyVars, history, listOfRequests, requestIsActive, canceled,
                  autoDestruct, tmpCreds, uiDisplayed, ready, posted, validated,
                  cancels, aborted>>
  BY DEF uiReplies
<1>3. CoreAndHistoryTyped'
  BY <1>1, <1>2 DEF CoreAndHistoryTyped, CoreTypeOK, HistoryTypeOK, posted, Watchers,
     history, outcome
<1> QED
  BY <1>2, <1>3 DEF ProxyTypeOK, proxyVars, proxyFlags, process

LEMMA QueryUiSlotTyped ==
  ASSUME CoreAndHistoryTyped, ProxyTypeOK, queryUiSlot
  PROVE  CoreAndHistoryTyped' /\ ProxyTypeOK'
<1>1. QueueTyped /\ PostedTyped /\ watcher \in Watchers
  BY PartsTyped DEF CoreAndHistoryTyped
<1>2. watcher' \in Watchers /\ PostedTyped'
  BY <1>1, PostTyped DEF queryUiSlot, Watchers
<1>3. UNCHANGED <<requestIsActive, canceled, autoDestruct, ready, validated, cancels,
                  submitted, answer, repliedAgain, results, writes, alerts,
                  cancelForgotten>>
  BY DEF queryUiSlot
<1>4. /\ ProxyTypeOK' /\ QueueTyped'
      /\ tmpCreds' \in MaybeRequest
      /\ uiDisplayed' \in BOOLEAN
      /\ dialogs' \subseteq Requests
      /\ aborted' \in BOOLEAN
  <2>1. CASE listOfRequests = <<>>
    <3>1. aborted' = TRUE /\ UNCHANGED <<proxyVars, listOfRequests, tmpCreds,
                                           uiDisplayed, dialogs>>
      BY <2>1 DEF queryUiSlot
    <3>2. ProxyTypeOK'
      BY <3>1 DEF ProxyTypeOK, proxyVars, proxyFlags, process
    <3> QED
      BY <3>1, <3>2, <1>1 DEF QueueTyped, CoreAndHistoryTyped, CoreTypeOK, HistoryTypeOK
  <2>2. CASE listOfRequests # <<>>
    <3>1. PICK uiAnswer \in UiAnswers :
       /\ listOfRequests' = [listOfRequests EXCEPT ![1].creds = CredsAfter(uiAnswer)]
       /\ uiDisplayed' = CASE uiAnswer = "canceled" -> FALSE
                           [] uiAnswer = "noUi"     -> uiDisplayed
                           [] OTHER                 -> TRUE
       /\ dialogs' = IF uiAnswer \in {"ok", "refresh"}
                     THEN dialogs \cup {watcher.req} ELSE dialogs
       /\ IF canceled
          THEN UNCHANGED <<proxyVars, tmpCreds>>
          ELSE /\ tmpCreds' = CredsAfter(uiAnswer)
               /\ proxyContinue(IF uiAnswer = "refresh" THEN "refresh" ELSE "processUi",
                                watcher.req)
               /\ UNCHANGED fromPlugin
      BY <2>2 DEF queryUiSlot, useUiAnswer
    <3>2. watcher.req \in Requests
      <4>1. watcher.status = "finished"
        BY DEF queryUiSlot
      <4> QED
        BY <1>1, <4>1 DEF Watchers, NoWatcher
    <3>3. Head(listOfRequests).creds \in MaybeRequest
      BY <1>1, <2>2, HeadTyped DEF Entries
    <3>4. CredsAfter(uiAnswer) \in MaybeRequest
      BY <3>2, <3>3, MaybeRequestFacts DEF CredsAfter, UiAnswers
    <3>5. QueueTyped'
      BY <1>1, <2>2, <3>1, <3>4, HeadCredsTyped DEF QueueTyped
    <3>6. dialogs' \subseteq Requests /\ aborted' \in BOOLEAN
      <4>1. dialogs \subseteq Requests /\ aborted \in BOOLEAN
        BY DEF CoreAndHistoryTyped, CoreTypeOK, HistoryTypeOK
      <4>2. aborted' = aborted
        BY <2>2 DEF queryUiSlot
      <4> QED
        BY <3>1, <3>2, <4>1, <4>2
    <3>7. uiDisplayed' \in BOOLEAN
      <4>1. uiDisplayed \in BOOLEAN
        BY DEF CoreAndHistoryTyped, CoreTypeOK
      <4> QED
        BY <3>1, <4>1 DEF UiAnswers
    <3>8. tmpCreds' \in MaybeRequest /\ ProxyTypeOK'
      <4>1. CASE canceled
        BY <3>1, <4>1 DEF CoreAndHistoryTyped, CoreTypeOK, ProxyTypeOK, proxyVars,
           proxyFlags, process
      <4>2. CASE ~canceled
        <5>1. (IF uiAnswer = "refresh" THEN "refresh" ELSE "processUi") \in Operations
          BY DEF Operations
        <5>2. fromPlugin' \in Seq(Msgs)
          BY <3>1, <4>2 DEF ProxyTypeOK, Msgs
        <5>3. ProxyTypeOK'
          BY <3>1, <3>2, <4>2, <5>1, <5>2, ProxyContinueTyped, MaybeRequestFacts
        <5> QED
          BY <3>1, <3>4, <4>2, <5>3
      <4> QED
        BY <4>1, <4>2
    <3> QED
      BY <3>5, <3>6, <3>7, <3>8
  <2> QED
    BY <2>1, <2>2
<1> QED
  BY <1>2, <1>3, <1>4 DEF CoreAndHistoryTyped, CoreTypeOK, HistoryTypeOK, QueueTyped,
     PostedTyped, Entries, Watchers

LEMMA ReceivedTyped ==
  ASSUME ProxyTypeOK, NEW kinds, Receives(kinds)
  PROVE  /\ Received.req \in MaybeRequest
         /\ fromPlugin' \in Seq(Msgs)
<1>1. fromPlugin \in Seq(Msgs) /\ fromPlugin # <<>>
  BY DEF ProxyTypeOK, Msgs, Receives
<1>2. Received \in Msgs /\ Tail(fromPlugin) \in Seq(Msgs)
  BY <1>1, HeadTailProperties DEF Received
<1> QED
  BY <1>2 DEF Receives, Msgs

\* The handlers of PluginProxy that read one message and call one slot.
LEMMA HandlersTyped ==
  ASSUME CoreAndHistoryTyped, ProxyTypeOK,
         handleAnswer \/ handleStore \/ handleUi \/ handleRefreshed
  PROVE  CoreAndHistoryTyped' /\ ProxyTypeOK'
<1>1. CASE handleAnswer
  <2>1. Received.req \in MaybeRequest /\ fromPlugin' \in Seq(Msgs)
    BY <1>1, ReceivedTyped DEF handleAnswer
  <2>2. SilentCore \/ processResultReply(Received.req) \/ processError(Received.req)
    BY <1>1 DEF handleAnswer, Receives, ProxyTypeOK
  <2>3. CoreAndHistoryTyped'
    BY <2>1, <2>2, SilentTyped, ProcessResultReplyTyped, ProcessErrorTyped
  <2>4. isProcessing' \in BOOLEAN /\ isResultObtained' \in BOOLEAN
        /\ UNCHANGED <<uiPolicy, procState, writeBuffer, toPlugin, process>>
    BY <1>1 DEF handleAnswer
  <2> QED
    BY <2>1, <2>3, <2>4 DEF ProxyTypeOK, process, Msgs
<1>2. CASE handleStore
  <2>1. fromPlugin' \in Seq(Msgs)
    BY <1>2, ReceivedTyped DEF handleStore
  <2>2. CoreAndHistoryTyped'
    BY <1>2, SilentTyped, ProcessStoreTyped DEF handleStore
  <2>3. UNCHANGED <<proxyFlags, procState, writeBuffer, toPlugin, process>>
    BY <1>2 DEF handleStore
  <2> QED
    BY <2>1, <2>2, <2>3 DEF ProxyTypeOK, process, proxyFlags, Msgs
<1>3. CASE handleUi
  <2>1. Received.req \in MaybeRequest /\ fromPlugin' \in Seq(Msgs)
    BY <1>3, ReceivedTyped DEF handleUi
  <2>2. CASE proxyContinue("processUi", Received.req) /\ SilentCore
    BY <2>1, <2>2, SilentTyped, ProxyContinueTyped DEF Operations
  <2>3. CASE /\ SilentCore \/ openDialog(Received.req)
             /\ UNCHANGED <<proxyFlags, procState, writeBuffer, toPlugin, process>>
    <3>1. CoreAndHistoryTyped'
      BY <2>1, <2>3, SilentTyped, OpenDialogTyped
    <3> QED
      BY <2>1, <2>3, <3>1 DEF ProxyTypeOK, process, proxyFlags, Msgs
  <2> QED
    BY <1>3, <2>2, <2>3 DEF handleUi
<1>4. CASE handleRefreshed
  <2>1. Received.req \in MaybeRequest /\ fromPlugin' \in Seq(Msgs)
    BY <1>4, ReceivedTyped DEF handleRefreshed
  <2>2. CoreAndHistoryTyped'
    BY <1>4, <2>1, SilentTyped, OpenDialogTyped DEF handleRefreshed
  <2>3. UNCHANGED <<proxyFlags, procState, writeBuffer, toPlugin, process>>
    BY <1>4 DEF handleRefreshed
  <2> QED
    BY <2>1, <2>2, <2>3 DEF ProxyTypeOK, process, proxyFlags, Msgs
<1> QED
  BY <1>1, <1>2, <1>3, <1>4

LEMMA FarewellTyped == ProxyTypeOK => Farewell \in Seq(Msgs)
<1> SUFFICES ASSUME ProxyTypeOK PROVE Farewell \in Seq(Msgs)
  OBVIOUS
<1>1. fromPlugin \in Seq(Msgs)
  BY DEF ProxyTypeOK, Msgs
<1>2. CASE fromPlugin = <<>>
  BY <1>2 DEF Farewell
<1>3. CASE fromPlugin # <<>>
  <2>1. Len(fromPlugin) \in 1..Len(fromPlugin)
    BY <1>1, <1>3, EmptySeq
  <2>2. fromPlugin[Len(fromPlugin)] \in Msgs
    BY <1>1, <2>1, ElementOfSeq
  <2> QED
    BY <2>2 DEF Farewell
<1> QED
  BY <1>2, <1>3

\* The handlers of the proxy's own failures: a torn blob, the process' end.
LEMMA FailuresTyped ==
  ASSUME CoreAndHistoryTyped, ProxyTypeOK, blobIOError \/ onExit
  PROVE  CoreAndHistoryTyped' /\ ProxyTypeOK'
<1>1. CASE blobIOError
  <2>1. fromPlugin' \in Seq(Msgs)
    <3>1. fromPlugin \in Seq(Msgs) /\ fromPlugin # <<>>
      BY <1>1 DEF ProxyTypeOK, Msgs, blobIOError
    <3>2. Tail(fromPlugin) \in Seq(Msgs)
      BY <3>1, HeadTailProperties
    <3> QED
      BY <1>1, <3>2, FarewellTyped DEF blobIOError
  <2>2. CoreAndHistoryTyped'
    BY <1>1, ProcessErrorTyped, MaybeRequestFacts DEF blobIOError
  <2>3. writeBuffer' \in Seq(Ops)
    BY <1>1, WrittenTyped, MaybeRequestFacts DEF blobIOError, Operations
  <2> QED
    BY <1>1, <2>1, <2>2, <2>3 DEF blobIOError, ProxyTypeOK, process, proxyFlags, Msgs, Ops
<1>2. CASE onExit
  <2>1. fromPlugin' \in Seq(Msgs)
    BY <1>2, ReceivedTyped DEF onExit
  <2>2. CoreAndHistoryTyped'
    BY <1>2, SilentTyped, ProcessErrorTyped, MaybeRequestFacts DEF onExit
  <2>3. writeBuffer' \in Seq(Ops) /\ toPlugin' \in Seq(Ops)
    BY <1>2, EmptySeq DEF onExit
  <2>4. isProcessing' \in BOOLEAN /\ procState' \in {"Running", "NotRunning"}
        /\ UNCHANGED <<isResultObtained, uiPolicy, process>>
    BY <1>2 DEF onExit
  <2> QED
    BY <2>1, <2>2, <2>3, <2>4 DEF ProxyTypeOK, process, Msgs, Ops
<1> QED
  BY <1>1, <1>2

-----------------------------------------------------------------------------
(* Type correctness. *)

LEMMA InitTyped == Init => TypeOK
<1> SUFFICES ASSUME Init PROVE TypeOK
  OBVIOUS
<1>1. ProxyTypeOK
  BY InitProxyTypeOK DEF Init
<1>2. cancels \in 0..MaxCancels
  BY SessionAssumption DEF Init
<1>3. watcher \in Watchers /\ tmpCreds \in MaybeRequest
  BY MaybeRequestFacts DEF Init, Watchers
<1>4. listOfRequests \in Seq(Entries) /\ answer \in [Requests -> Answers]
  BY EmptySeq DEF Init, Answers
<1>5. validated \in BOOLEAN
  <2>1. (IF Stored THEN BOOLEAN ELSE {FALSE}) \subseteq BOOLEAN
    OBVIOUS
  <2> QED
    BY <2>1 DEF Init
<1>6. CoreTypeOK
  BY <1>2, <1>3, <1>4, <1>5 DEF Init, CoreTypeOK, Entries, Watchers
<1>7. HistoryTypeOK
  BY <1>4 DEF Init, HistoryTypeOK
<1> QED
  BY <1>1, <1>6, <1>7 DEF TypeOK

LEMMA StepTyped == TypeOK /\ [Next]_vars => TypeOK'
<1> SUFFICES ASSUME CoreAndHistoryTyped, ProxyTypeOK, [Next]_vars
             PROVE  CoreAndHistoryTyped' /\ ProxyTypeOK'
  BY DEF TypeOK, CoreAndHistoryTyped
<1>1. CASE UNCHANGED vars
  <2>1. SilentCore /\ UNCHANGED proxyVars
    BY <1>1 DEF vars, SilentCore
  <2> QED
    BY <2>1, SilentTyped DEF ProxyTypeOK, proxyVars, proxyFlags, process
<1>2. ASSUME NEW r \in Requests, processRequest(r)
      PROVE  CoreAndHistoryTyped' /\ ProxyTypeOK'
  BY <1>2, ProcessRequestTyped DEF processRequest, ProxyTypeOK, proxyVars, proxyFlags, process
<1>3. ASSUME NEW session \in Sessions, cancel(session)
      PROVE  CoreAndHistoryTyped' /\ ProxyTypeOK'
  BY <1>3, CancelTyped
<1>4. CASE startNewRequest \/ queryUiSlot
  BY <1>4, StartNewRequestTyped, QueryUiSlotTyped
<1>5. CASE handleAnswer \/ handleStore \/ handleUi \/ handleRefreshed
  BY <1>5, HandlersTyped
<1>6. CASE onExit \/ blobIOError
  BY <1>6, FailuresTyped
<1>7. CASE pollAndFlush
  BY <1>7, FlushTyped, SilentTyped DEF pollAndFlush
<1>8. CASE PluginProcessStep
  BY <1>8, PluginStepTyped, SilentTyped DEF PluginProcessStep
<1>9. CASE credentialsSystemReady
  BY <1>9, CredentialsSystemReadyTyped
  DEF credentialsSystemReady, ProxyTypeOK, proxyVars, proxyFlags, process
<1>10. CASE uiReplies
  BY <1>10, UiRepliesTyped
<1> QED
  BY <1>1, <1>2, <1>3, <1>4, <1>5, <1>6, <1>7, <1>8, <1>9, <1>10
  DEF Next, ClientStep, LoopStep

\* In every reachable state the variables hold the values their declarations
\* name: the queue holds requests, the posted calls are never counted below
\* zero, an open dialog is always for some request.
THEOREM TypeCorrect == Spec => []TypeOK
<1>1. Init => TypeOK
  BY InitTyped
<1>2. TypeOK /\ [Next]_vars => TypeOK'
  BY StepTyped
<1> QED
  BY <1>1, <1>2, PTL DEF Spec

-----------------------------------------------------------------------------
(* One reply to each request.  The invariant: no request is in the queue    *)
(* twice, and one in the queue is unanswered or canceled, so every reply is *)
(* its first or goes to a canceled request.                                 *)

QueueReqs == {listOfRequests[i].req : i \in DOMAIN listOfRequests}

Distinct == \A i, j \in DOMAIN listOfRequests :
               listOfRequests[i].req = listOfRequests[j].req => i = j

AnswersInv ==
    /\ Distinct
    /\ QueueReqs \subseteq submitted
    /\ \A r \in QueueReqs : answer[r] \in {"none", "canceled"}
    /\ \A r \in Requests \ submitted : answer[r] = "none"
    /\ OnlyCanceledRepliedAgain

\* A queue that lost entry i has lost its request and kept the others apart.
LEMMA RemovalFacts ==
  ASSUME QueueTyped, QueueTyped', Distinct, NEW i \in 1..Len(listOfRequests),
         Len(listOfRequests') = Len(listOfRequests) - 1,
         \A k \in 1..(Len(listOfRequests) - 1) :
            listOfRequests'[k] = IF k < i THEN listOfRequests[k] ELSE listOfRequests[k + 1]
  PROVE  Distinct' /\ QueueReqs' \subseteq QueueReqs \ {listOfRequests[i].req}
<1> DEFINE n == Len(listOfRequests)
           Old(k) == IF k < i THEN k ELSE k + 1
<1>1. /\ n \in Nat
      /\ DOMAIN listOfRequests = 1..n
      /\ DOMAIN listOfRequests' = 1..(n - 1)
  BY LenProperties DEF QueueTyped
<1>2. ASSUME NEW k \in 1..(n - 1)
      PROVE  /\ Old(k) \in DOMAIN listOfRequests
             /\ Old(k) # i
             /\ listOfRequests'[k] = listOfRequests[Old(k)]
  BY <1>1
<1>3. \A j, k \in 1..(n - 1) : Old(j) = Old(k) => j = k
  BY <1>1
<1> HIDE DEF Old, n
<1>4. Distinct'
  <2> SUFFICES ASSUME NEW j \in 1..(n - 1), NEW k \in 1..(n - 1),
                      listOfRequests'[j].req = listOfRequests'[k].req
               PROVE  j = k
    BY <1>1 DEF Distinct
  <2>1. Old(j) = Old(k)
    BY <1>2 DEF Distinct
  <2> QED
    BY <2>1, <1>3
<1>5. QueueReqs' \subseteq QueueReqs \ {listOfRequests[i].req}
  <2> SUFFICES ASSUME NEW k \in 1..(n - 1)
               PROVE  listOfRequests'[k].req \in QueueReqs \ {listOfRequests[i].req}
    BY <1>1 DEF QueueReqs
  <2>1. listOfRequests'[k].req \in QueueReqs
    BY <1>2 DEF QueueReqs
  <2>2. i \in DOMAIN listOfRequests
    BY <1>1 DEF n
  <2>3. listOfRequests'[k].req # listOfRequests[i].req
    BY <1>2, <2>2 DEF Distinct
  <2> QED
    BY <2>1, <2>3
<1> QED
  BY <1>4, <1>5

LEMMA TailRemoves ==
  ASSUME QueueTyped, Distinct, listOfRequests # <<>>,
         listOfRequests' = Tail(listOfRequests)
  PROVE  Distinct' /\ head \in QueueReqs /\ QueueReqs' \subseteq QueueReqs \ {head}
<1>1. /\ Len(listOfRequests) \in Nat \ {0}
      /\ DOMAIN listOfRequests = 1..Len(listOfRequests)
  BY EmptySeq, LenProperties DEF QueueTyped
<1>2. /\ Tail(listOfRequests) \in Seq(Entries)
      /\ Len(Tail(listOfRequests)) = Len(listOfRequests) - 1
      /\ \A k \in 1..Len(Tail(listOfRequests)) :
            Tail(listOfRequests)[k] = listOfRequests[k + 1]
  BY HeadTailProperties DEF QueueTyped
<1>3. head = listOfRequests[1].req
  BY DEF head
<1>4. QueueTyped'
  BY <1>2 DEF QueueTyped
<1>5. 1 \in 1..Len(listOfRequests)
  BY <1>1
<1>6. \A k \in 1..(Len(listOfRequests) - 1) :
         listOfRequests'[k] = IF k < 1 THEN listOfRequests[k] ELSE listOfRequests[k + 1]
  BY <1>2
<1>7. Distinct' /\ QueueReqs' \subseteq QueueReqs \ {listOfRequests[1].req}
  BY <1>2, <1>4, <1>5, <1>6, RemovalFacts
<1>8. listOfRequests[1].req \in QueueReqs
  BY <1>1, <1>5 DEF QueueReqs
<1> QED
  BY <1>3, <1>7, <1>8

\* New credentials for the first entry do not change whose requests they are.
LEMMA HeadCredsKeeps ==
  ASSUME QueueTyped, Distinct, listOfRequests # <<>>, NEW c,
         listOfRequests' = [listOfRequests EXCEPT ![1].creds = c]
  PROVE  Distinct' /\ QueueReqs' = QueueReqs
<1>1. DOMAIN listOfRequests' = DOMAIN listOfRequests
  OBVIOUS
<1>2. \A k \in DOMAIN listOfRequests : listOfRequests'[k].req = listOfRequests[k].req
  <2> SUFFICES ASSUME NEW k \in DOMAIN listOfRequests
               PROVE  listOfRequests'[k].req = listOfRequests[k].req
    OBVIOUS
  <2>1. listOfRequests[k] \in Entries
    BY EntryTyped
  <2> QED
    BY <2>1 DEF Entries
<1> QED
  BY <1>1, <1>2 DEF Distinct, QueueReqs

(* The kinds of step there are, as far as the answers are concerned. *)

LEMMA KeepAnswers ==
  ASSUME AnswersInv, Distinct', QueueReqs' \subseteq QueueReqs, NoReply, UNCHANGED submitted
  PROVE  AnswersInv'
BY DEF AnswersInv, NoReply, OnlyCanceledRepliedAgain

\* A request is answered and leaves the queue, or is canceled and stays.
LEMMA ReplyAnswers ==
  ASSUME AnswersInv, HistoryTypeOK, UNCHANGED submitted, Distinct',
         NEW r \in QueueReqs, r \in Requests, NEW kind, Reply(r, kind),
         QueueReqs' \subseteq QueueReqs,
         kind = "canceled" \/ r \notin QueueReqs'
  PROVE  AnswersInv'
<1>1. answer \in [Requests -> Answers]
  BY DEF HistoryTypeOK
<1>2. answer[r] \in {"none", "canceled"} /\ r \in submitted
  BY DEF AnswersInv
<1>3. CASE answer[r] = "none"
  <2>1. answer' = [answer EXCEPT ![r] = kind] /\ repliedAgain' = repliedAgain
    BY <1>3 DEF Reply
  <2>2. r \notin repliedAgain
    BY <1>3 DEF AnswersInv, OnlyCanceledRepliedAgain
  <2>3. \A q \in Requests : answer'[q] = IF q = r THEN kind ELSE answer[q]
    BY <1>1, <2>1
  <2>4. repliedAgain \subseteq Requests /\ QueueReqs \subseteq Requests
    BY DEF HistoryTypeOK, AnswersInv
  <2>5. \A q \in QueueReqs' : answer'[q] \in {"none", "canceled"}
    BY <2>3, <2>4 DEF AnswersInv
  <2>6. \A q \in Requests \ submitted' : answer'[q] = "none"
    BY <1>2, <2>3 DEF AnswersInv
  <2>7. OnlyCanceledRepliedAgain'
    BY <2>1, <2>2, <2>3, <2>4 DEF AnswersInv, OnlyCanceledRepliedAgain
  <2> QED
    BY <2>5, <2>6, <2>7 DEF AnswersInv
<1>4. CASE answer[r] = "canceled"
  BY <1>4 DEF Reply, AnswersInv, OnlyCanceledRepliedAgain
<1> QED
  BY <1>2, <1>3, <1>4

LEMMA SilentAnswers ==
  ASSUME AnswersInv, UNCHANGED <<listOfRequests, submitted, answer, repliedAgain>>
  PROVE  AnswersInv'
BY DEF AnswersInv, Distinct, QueueReqs, OnlyCanceledRepliedAgain

LEMMA ProcessRequestAnswers ==
  ASSUME TypeOK, AnswersInv, NEW r \in Requests, processRequest(r)
  PROVE  AnswersInv'
<1> DEFINE e == [req |-> r, creds |-> r]
           n == Len(listOfRequests)
<1>1. QueueTyped /\ e \in Entries
  BY PartsTyped, MaybeRequestFacts DEF TypeOK, Entries
<1>2. /\ listOfRequests' = Append(listOfRequests, e)
      /\ r \notin submitted
      /\ submitted' = submitted \cup {r}
      /\ UNCHANGED <<answer, repliedAgain>>
  BY DEF processRequest, outcome
<1>3. n \in Nat /\ DOMAIN listOfRequests = 1..n
  BY <1>1, LenProperties DEF QueueTyped
<1>4. /\ listOfRequests' \in Seq(Entries)
      /\ Len(listOfRequests') = n + 1
      /\ \A k \in 1..n : listOfRequests'[k] = listOfRequests[k]
      /\ listOfRequests'[n + 1] = e
  BY <1>1, <1>2, AppendProperties DEF QueueTyped
<1>5. DOMAIN listOfRequests' = 1..(n + 1)
  BY <1>4, LenProperties
<1> HIDE DEF n
<1>6. \A k \in 1..(n + 1) : k \in 1..n \/ k = n + 1
  BY <1>3
<1>7. \A k \in 1..n : listOfRequests'[k].req \in QueueReqs
  BY <1>3, <1>4 DEF QueueReqs
<1>8. r \notin QueueReqs
  BY <1>2 DEF AnswersInv
<1>9. Distinct'
  <2> SUFFICES ASSUME NEW j \in 1..(n + 1), NEW k \in 1..(n + 1),
                      listOfRequests'[j].req = listOfRequests'[k].req
               PROVE  j = k
    BY <1>5 DEF Distinct
  <2>1. CASE j \in 1..n /\ k \in 1..n
    BY <1>3, <1>4, <2>1 DEF AnswersInv, Distinct
  <2>2. CASE j = n + 1 \/ k = n + 1
    BY <1>4, <1>6, <1>7, <1>8, <2>2
  <2> QED
    BY <1>6, <2>1, <2>2
<1>10. QueueReqs' \subseteq QueueReqs \cup {r}
  BY <1>4, <1>5, <1>6, <1>7 DEF QueueReqs
<1>11. answer[r] = "none"
  BY <1>2 DEF AnswersInv
<1> QED
  BY <1>2, <1>9, <1>10, <1>11 DEF AnswersInv, OnlyCanceledRepliedAgain

LEMMA CancelAnswers ==
  ASSUME TypeOK, AnswersInv, NEW session \in Sessions, cancel(session)
  PROVE  AnswersInv'
<1>1. PICK i \in DOMAIN listOfRequests :
        LET r == listOfRequests[i].req IN
        /\ Reply(r, "canceled")
        /\ \/ UNCHANGED listOfRequests
           \/ listOfRequests' = RemoveAt(listOfRequests, i)
  BY DEF cancel
<1> DEFINE r == listOfRequests[i].req
<1>2. QueueTyped /\ Distinct /\ HistoryTypeOK
  BY PartsTyped DEF TypeOK, AnswersInv
<1>3. i \in 1..Len(listOfRequests) /\ r \in Requests /\ r \in QueueReqs
  BY <1>2, EntryTyped DEF QueueReqs
<1>4. Distinct' /\ QueueReqs' \subseteq QueueReqs
  <2>1. CASE UNCHANGED listOfRequests
    BY <1>2, <2>1 DEF Distinct, QueueReqs
  <2>2. CASE listOfRequests' = RemoveAt(listOfRequests, i)
    <3>1. /\ listOfRequests' \in Seq(Entries)
          /\ Len(listOfRequests') = Len(listOfRequests) - 1
          /\ \A k \in 1..(Len(listOfRequests) - 1) : listOfRequests'[k] =
                IF k < i THEN listOfRequests[k] ELSE listOfRequests[k + 1]
      BY <1>2, <1>3, <2>2, RemoveAtFacts DEF QueueTyped
    <3> QED
      BY <1>2, <1>3, <3>1, RemovalFacts DEF QueueTyped
  <2> QED
    BY <1>1, <2>1, <2>2
<1>5. UNCHANGED submitted /\ Reply(r, "canceled")
  BY <1>1 DEF cancel
<1> HIDE DEF r
<1> QED
  BY <1>2, <1>3, <1>4, <1>5, ReplyAnswers

LEMMA StartNewRequestAnswers ==
  ASSUME TypeOK, AnswersInv, startNewRequest
  PROVE  AnswersInv'
<1>1. UNCHANGED submitted
  BY DEF startNewRequest
<1>2. CASE NoReply /\ UNCHANGED listOfRequests
  BY <1>1, <1>2, SilentAnswers DEF NoReply
<1>3. CASE /\ listOfRequests # <<>>
           /\ Reply(head, "notStarted")
           /\ listOfRequests' = Tail(listOfRequests)
  <2>1. QueueTyped /\ Distinct /\ HistoryTypeOK
    BY PartsTyped DEF TypeOK, AnswersInv
  <2>2. Distinct' /\ head \in QueueReqs /\ QueueReqs' \subseteq QueueReqs \ {head}
    BY <1>3, <2>1, TailRemoves
  <2>3. head \in Requests
    BY <1>3, <2>1, HeadTyped
  <2> QED
    BY <1>1, <1>3, <2>1, <2>2, <2>3, ReplyAnswers
<1> QED
  BY <1>2, <1>3 DEF startNewRequest, startProcess

\* The end of a request, answered or dropped because it was canceled.
LEMMA RequestDoneAnswers ==
  ASSUME TypeOK, AnswersInv, listOfRequests # <<>>, requestDone, UNCHANGED submitted,
         NEW kind, NoReply \/ Reply(head, kind)
  PROVE  AnswersInv'
<1>1. QueueTyped /\ Distinct /\ HistoryTypeOK
  BY PartsTyped DEF TypeOK, AnswersInv
<1>2. Distinct' /\ head \in QueueReqs /\ QueueReqs' \subseteq QueueReqs \ {head}
  BY <1>1, TailRemoves DEF requestDone
<1>3. head \in Requests
  BY <1>1, HeadTyped
<1>4. CASE NoReply
  BY <1>2, <1>4, KeepAnswers
<1>5. CASE Reply(head, kind)
  BY <1>1, <1>2, <1>3, <1>5, ReplyAnswers
<1> QED
  BY <1>4, <1>5

LEMMA ProcessResultReplyAnswers ==
  ASSUME TypeOK, AnswersInv, NEW of, processResultReply(of)
  PROVE  AnswersInv'
<1>1. CASE listOfRequests = <<>>
  BY <1>1, SilentAnswers DEF processResultReply, coreVars, history, outcome
<1>2. CASE listOfRequests # <<>>
  <2>1. requestDone /\ UNCHANGED submitted /\ (NoReply \/ Reply(head, "result"))
    BY <1>2 DEF processResultReply, history, outcome, NoReply
  <2> QED
    BY <1>2, <2>1, RequestDoneAnswers
<1> QED
  BY <1>1, <1>2

LEMMA ProcessErrorAnswers ==
  ASSUME TypeOK, AnswersInv, NEW of, processError(of)
  PROVE  AnswersInv'
<1>1. CASE listOfRequests = <<>>
  BY <1>1, SilentAnswers DEF processError, history, outcome
<1>2. CASE listOfRequests # <<>>
  <2>1. requestDone /\ UNCHANGED submitted /\ (NoReply \/ Reply(head, "error"))
    BY <1>2 DEF processError, history, outcome, NoReply
  <2> QED
    BY <1>2, <2>1, RequestDoneAnswers
<1> QED
  BY <1>1, <1>2

\* The first entry's credentials change, or nothing of the queue does.
LEMMA HeadCredsAnswers ==
  ASSUME TypeOK, AnswersInv, listOfRequests # <<>>, NEW c,
         listOfRequests' = [listOfRequests EXCEPT ![1].creds = c],
         UNCHANGED <<submitted, answer, repliedAgain>>
  PROVE  AnswersInv'
<1>1. QueueTyped /\ Distinct
  BY PartsTyped DEF TypeOK, AnswersInv
<1> QED
  BY <1>1, HeadCredsKeeps, KeepAnswers DEF NoReply

LEMMA OpenDialogAnswers ==
  ASSUME TypeOK, AnswersInv, NEW of, openDialog(of)
  PROVE  AnswersInv'
<1>1. CASE canceled \/ listOfRequests = <<>>
  BY <1>1, SilentAnswers DEF openDialog, coreVars, history, outcome
<1>2. CASE ~(canceled \/ listOfRequests = <<>>)
  BY <1>2, HeadCredsAnswers DEF openDialog, history, outcome
<1> QED
  BY <1>1, <1>2

LEMMA QueryUiSlotAnswers ==
  ASSUME TypeOK, AnswersInv, queryUiSlot
  PROVE  AnswersInv'
<1>1. UNCHANGED <<submitted, answer, repliedAgain>>
  BY DEF queryUiSlot
<1>2. CASE listOfRequests = <<>>
  BY <1>1, <1>2, SilentAnswers DEF queryUiSlot
<1>3. CASE listOfRequests # <<>>
  BY <1>1, <1>3, HeadCredsAnswers DEF queryUiSlot, useUiAnswer
<1> QED
  BY <1>2, <1>3

LEMMA StepAnswers == TypeOK /\ AnswersInv /\ [Next]_vars => AnswersInv'
<1> SUFFICES ASSUME TypeOK, AnswersInv, [Next]_vars PROVE AnswersInv'
  OBVIOUS
<1>1. CASE UNCHANGED vars
  BY <1>1, SilentAnswers DEF vars, coreVars, history, outcome
<1>2. ASSUME NEW r \in Requests, processRequest(r) PROVE AnswersInv'
  BY <1>2, ProcessRequestAnswers
<1>3. ASSUME NEW session \in Sessions, cancel(session) PROVE AnswersInv'
  BY <1>3, CancelAnswers
<1>4. CASE startNewRequest \/ queryUiSlot
  BY <1>4, StartNewRequestAnswers, QueryUiSlotAnswers
<1>5. CASE SilentCore \/ credentialsSystemReady \/ uiReplies
  BY <1>5, SilentAnswers DEF SilentCore, credentialsSystemReady, uiReplies, coreVars,
     history, outcome
<1>6. CASE handleAnswer
  BY <1>6, SilentAnswers, ProcessResultReplyAnswers, ProcessErrorAnswers
  DEF handleAnswer, Receives, SilentCore, coreVars, history, outcome
<1>7. CASE handleStore
  BY <1>7, SilentAnswers DEF handleStore, processStore, SilentCore, coreVars, history, outcome
<1>8. CASE handleUi
  BY <1>5, <1>8, OpenDialogAnswers DEF handleUi
<1>9. CASE handleRefreshed
  BY <1>5, <1>9, OpenDialogAnswers DEF handleRefreshed
<1>10. CASE onExit \/ blobIOError
  BY <1>5, <1>10, ProcessErrorAnswers DEF onExit, blobIOError
<1>11. CASE pollAndFlush \/ PluginProcessStep
  BY <1>5, <1>11 DEF pollAndFlush, PluginProcessStep
<1> QED
  BY <1>1, <1>2, <1>3, <1>4, <1>5, <1>6, <1>7, <1>8, <1>9, <1>10, <1>11
  DEF Next, ClientStep, LoopStep

\* A D-Bus call gets a second reply only when its client canceled it, whatever
\* the plugin, its process and signon-ui do: replyError(), the result and the
\* refusal to start are each sent for a request that has had no reply, and the
\* request leaves the queue in the same handler.
THEOREM OneReply == Spec => []OnlyCanceledRepliedAgain
<1>1. Init => AnswersInv
  BY DEF Init, AnswersInv, Distinct, QueueReqs, OnlyCanceledRepliedAgain
<1>2. TypeOK /\ AnswersInv /\ [Next]_vars => AnswersInv'
  BY StepAnswers
<1>3. AnswersInv => OnlyCanceledRepliedAgain
  BY DEF AnswersInv
<1> QED
  BY <1>1, <1>2, <1>3, TypeCorrect, PTL DEF Spec
=============================================================================
