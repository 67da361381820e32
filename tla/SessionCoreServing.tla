------------------------- MODULE SessionCoreServing -------------------------
(***************************************************************************)
(* Theorems about the service SessionCore gives to the queue of requests,  *)
(* and about whose answers a request gets, for every set of requests and   *)
(* sessions and every UI policy.                                           *)
(*                                                                         *)
(* That requests are served in order and leave with an answer: whatever    *)
(* the plugin does, but for a blob torn, or a process' end noticed, when   *)
(* the canceled request it would belong to is over already.                *)
(*                                                                         *)
(* That the next request is started: the plugin's process may die, fail to *)
(* start again and end a request while its dialog is open; what is assumed *)
(* is that the blobs it sends arrive complete and that it answers only     *)
(* when it works on a request.                                             *)
(*                                                                         *)
(* That a request gets its own answers, stores its own credentials and is  *)
(* answered by its own dialog: the proxy tells responses apart by time     *)
(* alone, so these need a plugin that keeps to the protocol: its process   *)
(* does not die, its blobs arrive complete, and it answers only when it    *)
(* works on a request and waits for no dialog.  And they hold as long as   *)
(* no cancelation has been forgotten.                                      *)
(***************************************************************************)
EXTENDS SessionCoreProofs

WholeAnswers == Env \cap {"torn", "idle"} = {}

-----------------------------------------------------------------------------
(* What is under way between the proxy and its process. *)

Ends == {"exit", "crash"}

OpsIn(s) == {s[i].op : i \in DOMAIN s}
RespsIn(s) == {s[i].resp : i \in DOMAIN s}

\* The plugin works on a request, is about to, or has something to say of one.
Busy == \/ task # NoRequest
        \/ "process" \in OpsIn(writeBuffer)
        \/ "process" \in OpsIn(toPlugin)
        \/ \E k \in RespsIn(fromPlugin) : k \notin Ends

\* The news of its end is the last thing a process sends, and it rests then.
EndIsLast == \A i \in DOMAIN fromPlugin :
                fromPlugin[i].resp \in Ends => i = Len(fromPlugin) /\ task = NoRequest

\* Until the answer has been read, all this is about the active request.
BusyServes == ~isResultObtained /\ Busy => requestIsActive

ProcInv == EndIsLast /\ BusyServes

\* One element more, one less, and two sequences joined.
LEMMA OpsFacts ==
  ASSUME NEW s \in Seq(Ops)
  PROVE  /\ \A m \in Ops : "process" \in OpsIn(Append(s, m)) =>
                              "process" \in OpsIn(s) \/ m.op = "process"
         /\ \A t \in Seq(Ops) : "process" \in OpsIn(s \o t) =>
                              "process" \in OpsIn(s) \/ "process" \in OpsIn(t)
         /\ s # <<>> => /\ "process" \in OpsIn(Tail(s)) => "process" \in OpsIn(s)
                        /\ Head(s).op \in OpsIn(s)
<1>1. Len(s) \in Nat /\ DOMAIN s = 1..Len(s)
  BY LenProperties
<1>2. ASSUME NEW m \in Ops, "process" \in OpsIn(Append(s, m))
      PROVE  "process" \in OpsIn(s) \/ m.op = "process"
  <2>1. /\ Append(s, m) \in Seq(Ops)
        /\ Len(Append(s, m)) = Len(s) + 1
        /\ \A i \in 1..Len(s) : Append(s, m)[i] = s[i]
        /\ Append(s, m)[Len(s) + 1] = m
    BY AppendProperties
  <2>2. DOMAIN Append(s, m) = 1..(Len(s) + 1)
    BY <2>1, LenProperties
  <2>3. PICK i \in 1..(Len(s) + 1) : Append(s, m)[i].op = "process"
    BY <1>2, <2>2 DEF OpsIn
  <2>4. i \in 1..Len(s) \/ i = Len(s) + 1
    BY <1>1
  <2> QED
    BY <1>1, <2>1, <2>3, <2>4 DEF OpsIn
<1>3. ASSUME NEW t \in Seq(Ops), "process" \in OpsIn(s \o t)
      PROVE  "process" \in OpsIn(s) \/ "process" \in OpsIn(t)
  <2>1. Len(t) \in Nat /\ DOMAIN t = 1..Len(t)
    BY LenProperties
  <2>2. /\ s \o t \in Seq(Ops)
        /\ Len(s \o t) = Len(s) + Len(t)
        /\ \A i \in 1..(Len(s) + Len(t)) : (s \o t)[i] =
              IF i <= Len(s) THEN s[i] ELSE t[i - Len(s)]
    BY ConcatProperties
  <2>3. DOMAIN (s \o t) = 1..(Len(s) + Len(t))
    BY <2>2, LenProperties
  <2>4. PICK i \in 1..(Len(s) + Len(t)) : (s \o t)[i].op = "process"
    BY <1>3, <2>3 DEF OpsIn
  <2>5. CASE i <= Len(s)
    <3>1. i \in 1..Len(s) /\ (s \o t)[i] = s[i]
      BY <1>1, <2>1, <2>2, <2>5
    <3> QED
      BY <1>1, <2>4, <3>1 DEF OpsIn
  <2>6. CASE ~(i <= Len(s))
    <3>1. i - Len(s) \in 1..Len(t) /\ (s \o t)[i] = t[i - Len(s)]
      BY <1>1, <2>1, <2>2, <2>6
    <3> QED
      BY <2>1, <2>4, <3>1 DEF OpsIn
  <2> QED
    BY <2>5, <2>6
<1>4. ASSUME s # <<>>
      PROVE  /\ "process" \in OpsIn(Tail(s)) => "process" \in OpsIn(s)
             /\ Head(s).op \in OpsIn(s)
  <2>1. /\ Tail(s) \in Seq(Ops)
        /\ Len(Tail(s)) = Len(s) - 1
        /\ \A i \in 1..Len(Tail(s)) : Tail(s)[i] = s[i + 1]
    BY <1>4, HeadTailProperties
  <2>2. DOMAIN Tail(s) = 1..(Len(s) - 1) /\ 1 \in DOMAIN s
    BY <1>1, <1>4, <2>1, LenProperties, EmptySeq
  <2>3. \A i \in 1..(Len(s) - 1) : i + 1 \in DOMAIN s /\ Tail(s)[i] = s[i + 1]
    BY <1>1, <2>1
  <2> QED
    BY <2>2, <2>3 DEF OpsIn
<1> QED
  BY <1>2, <1>3, <1>4

\* The same of what the process has sent.
LEMMA TailOfMessages ==
  ASSUME ProxyTypeOK, fromPlugin # <<>>, fromPlugin' = Tail(fromPlugin)
  PROVE  /\ DOMAIN fromPlugin' = 1..(Len(fromPlugin) - 1)
         /\ Len(fromPlugin') = Len(fromPlugin) - 1
         /\ \A i \in 1..(Len(fromPlugin) - 1) :
               i + 1 \in DOMAIN fromPlugin /\ fromPlugin'[i] = fromPlugin[i + 1]
         /\ 1 \in DOMAIN fromPlugin
         /\ Len(fromPlugin) \in Nat
<1>1. fromPlugin \in Seq(Msgs)
  BY DEF ProxyTypeOK, Msgs
<1>2. Len(fromPlugin) \in Nat \ {0} /\ DOMAIN fromPlugin = 1..Len(fromPlugin)
  BY <1>1, LenProperties, EmptySeq
<1>3. /\ Tail(fromPlugin) \in Seq(Msgs)
      /\ Len(Tail(fromPlugin)) = Len(fromPlugin) - 1
      /\ \A i \in 1..Len(Tail(fromPlugin)) : Tail(fromPlugin)[i] = fromPlugin[i + 1]
  BY <1>1, HeadTailProperties
<1>4. DOMAIN Tail(fromPlugin) = 1..(Len(fromPlugin) - 1)
  BY <1>3, LenProperties
<1> QED
  BY <1>2, <1>3, <1>4

LEMMA MessageRead ==
  ASSUME ProxyTypeOK, EndIsLast, NEW kinds, Receives(kinds), UNCHANGED task
  PROVE  /\ EndIsLast'
         /\ (\E k \in RespsIn(fromPlugin)' : k \notin Ends) =>
               \E k \in RespsIn(fromPlugin) : k \notin Ends
         /\ Received.resp \in RespsIn(fromPlugin)
<1>1. fromPlugin # <<>> /\ fromPlugin' = Tail(fromPlugin)
  BY DEF Receives
<1>2. /\ DOMAIN fromPlugin' = 1..(Len(fromPlugin) - 1)
      /\ Len(fromPlugin') = Len(fromPlugin) - 1
      /\ \A i \in 1..(Len(fromPlugin) - 1) :
            i + 1 \in DOMAIN fromPlugin /\ fromPlugin'[i] = fromPlugin[i + 1]
      /\ 1 \in DOMAIN fromPlugin
      /\ Len(fromPlugin) \in Nat
  BY <1>1, TailOfMessages
<1>3. EndIsLast'
  <2> SUFFICES ASSUME NEW i \in 1..(Len(fromPlugin) - 1), fromPlugin'[i].resp \in Ends
               PROVE  i = Len(fromPlugin') /\ task' = NoRequest
    BY <1>2 DEF EndIsLast
  <2>1. i + 1 = Len(fromPlugin) /\ task = NoRequest
    BY <1>2 DEF EndIsLast
  <2> QED
    BY <1>2, <2>1
<1>4. Received = fromPlugin[1]
  BY DEF Received
<1> QED
  BY <1>2, <1>3, <1>4 DEF RespsIn

\* A process that is alive sends one message more; its last one ends its work.
LEMMA MessageSent ==
  ASSUME ProxyTypeOK, EndIsLast, ProcessAlive, NEW response \in Responses,
         NEW r \in MaybeRequest, Emits(response, r),
         response \in Ends => task' = NoRequest
  PROVE  /\ EndIsLast'
         /\ (\E k \in RespsIn(fromPlugin)' : k \notin Ends) =>
               response \notin Ends \/ \E k \in RespsIn(fromPlugin) : k \notin Ends
<1> DEFINE e == [resp |-> response, req |-> r]
           n == Len(fromPlugin)
<1>1. fromPlugin \in Seq(Msgs) /\ e \in Msgs
  BY DEF ProxyTypeOK, Msgs
<1>2. n \in Nat /\ DOMAIN fromPlugin = 1..n
  BY <1>1, LenProperties
<1>3. /\ fromPlugin' \in Seq(Msgs)
      /\ Len(fromPlugin') = n + 1
      /\ \A i \in 1..n : fromPlugin'[i] = fromPlugin[i]
      /\ fromPlugin'[n + 1] = e
  BY <1>1, AppendProperties DEF Emits
<1>4. DOMAIN fromPlugin' = 1..(n + 1)
  BY <1>3, LenProperties
<1>5. \A i \in 1..n : fromPlugin[i].resp \notin Ends
  BY DEF ProcessAlive, Ends
<1> HIDE DEF n
<1>6. \A i \in 1..(n + 1) : i \in 1..n \/ i = n + 1
  BY <1>2
<1>7. EndIsLast'
  BY <1>3, <1>4, <1>5, <1>6 DEF EndIsLast
<1>8. ASSUME NEW k \in RespsIn(fromPlugin)', k \notin Ends
      PROVE  response \notin Ends \/ \E l \in RespsIn(fromPlugin) : l \notin Ends
  <2>1. PICK i \in 1..(n + 1) : k = fromPlugin'[i].resp
    BY <1>4, <1>8 DEF RespsIn
  <2> QED
    BY <1>2, <1>3, <1>6, <1>8, <2>1 DEF RespsIn
<1> QED
  BY <1>7, <1>8

\* Nothing is sent by a process that is alive.
LEMMA NothingSent ==
  ASSUME ProxyTypeOK, ProcessAlive, UNCHANGED fromPlugin
  PROVE  EndIsLast'
<1>1. fromPlugin \in Seq(Msgs)
  BY DEF ProxyTypeOK, Msgs
<1>2. DOMAIN fromPlugin = 1..Len(fromPlugin)
  BY <1>1, LenProperties
<1> QED
  BY <1>2 DEF ProcessAlive, EndIsLast, Ends

LEMMA BusyKept ==
  ASSUME ProcInv, EndIsLast', Busy' => Busy, ~isResultObtained' => ~isResultObtained,
         requestIsActive => requestIsActive'
  PROVE  ProcInv'
BY DEF ProcInv, BusyServes

LEMMA ProxyStill ==
  ASSUME ProcInv, UNCHANGED proxyVars, requestIsActive => requestIsActive'
  PROVE  ProcInv'
BY DEF ProcInv, BusyServes, EndIsLast, Busy, proxyVars, proxyFlags, process

(* What each step does to it. *)

LEMMA ContinueBusy ==
  ASSUME ProxyTypeOK, NEW operation \in {"processUi", "refresh"}, NEW r \in MaybeRequest,
         proxyContinue(operation, r),
         (\E k \in RespsIn(fromPlugin)' : k \notin Ends) =>
            \E k \in RespsIn(fromPlugin) : k \notin Ends
  PROVE  Busy' => Busy
<1>1. writeBuffer' = Written(operation, r) \/ UNCHANGED writeBuffer
  BY DEF proxyContinue
<1>2. writeBuffer \in Seq(Ops) /\ [op |-> operation, req |-> r] \in Ops
  BY DEF ProxyTypeOK, Ops, Operations
<1>3. "process" \in OpsIn(writeBuffer)' => "process" \in OpsIn(writeBuffer)
  BY <1>1, <1>2, OpsFacts DEF Written
<1>4. UNCHANGED <<toPlugin, task>>
  BY DEF proxyContinue, process
<1>5. "process" \in OpsIn(toPlugin)' => "process" \in OpsIn(toPlugin)
  BY <1>4
<1> QED
  BY <1>3, <1>4, <1>5 DEF Busy

LEMMA PluginStepServes ==
  ASSUME WholeAnswers, ProxyTypeOK, ProcInv, PluginStep, UNCHANGED requestIsActive
  PROVE  ProcInv'
<1>1. NoRequest \in MaybeRequest /\ task \in MaybeRequest
  BY MaybeRequestFacts DEF ProxyTypeOK
<1>2. EndIsLast
  BY DEF ProcInv
<1>3. CASE startTask
  <2> DEFINE m == Head(toPlugin)
  <2>1. toPlugin \in Seq(Ops) /\ toPlugin # <<>> /\ toPlugin' = Tail(toPlugin)
    BY <1>3 DEF startTask, ProxyTypeOK, Ops
  <2>2. /\ m \in Ops
        /\ m.op \in OpsIn(toPlugin)
        /\ "process" \in OpsIn(toPlugin)' => "process" \in OpsIn(toPlugin)
    BY <2>1, OpsFacts, HeadTailProperties
  <2>3. ProcessAlive /\ UNCHANGED <<proxyFlags, procState, writeBuffer>>
    BY <1>3 DEF startTask
  <2>4. m.req \in MaybeRequest
    BY <2>2 DEF Ops
  <2>5. /\ UNCHANGED isResultObtained
        /\ "process" \in OpsIn(writeBuffer)' => "process" \in OpsIn(writeBuffer)
    BY <2>3 DEF proxyFlags
  <2> HIDE DEF m
  <2>6. CASE m.op = "process" /\ UNCHANGED fromPlugin
    <3>1. Busy
      BY <2>2, <2>6 DEF Busy
    <3> QED
      BY <1>2, <2>3, <2>5, <2>6, <3>1, NothingSent, BusyKept
  <2>7. CASE UNCHANGED fromPlugin /\ (task # NoRequest \/ task' = task)
    <3>1. Busy' => Busy
      BY <2>2, <2>5, <2>7 DEF Busy
    <3> QED
      BY <1>2, <2>3, <2>5, <2>7, <3>1, NothingSent, BusyKept
  <2>8. CASE task' = NoRequest /\ UNCHANGED fromPlugin
    <3>1. Busy' => Busy
      BY <2>2, <2>5, <2>8 DEF Busy
    <3> QED
      BY <1>2, <2>3, <2>5, <2>8, <3>1, NothingSent, BusyKept
  <2>9. CASE task' = NoRequest /\ task # NoRequest /\ Emits("error", m.req)
    <3>1. Busy
      BY <2>9 DEF Busy
    <3>2. EndIsLast'
      BY <1>2, <2>3, <2>4, <2>9, MessageSent DEF Responses, Ends
    <3> QED
      BY <2>5, <3>1, <3>2, BusyKept
  <2>10. CASE task' = NoRequest /\ Emits("exit", NoRequest)
    <3>1. EndIsLast' /\ ((\E k \in RespsIn(fromPlugin)' : k \notin Ends) =>
                           \E k \in RespsIn(fromPlugin) : k \notin Ends)
      BY <1>1, <1>2, <2>3, <2>10, MessageSent DEF Responses, Ends
    <3>2. Busy' => Busy
      BY <2>2, <2>5, <2>10, <3>1 DEF Busy
    <3> QED
      BY <2>5, <3>1, <3>2, BusyKept
  <2>11. "idle" \notin Env
    BY DEF WholeAnswers
  <2> QED
    BY <1>3, <2>6, <2>7, <2>8, <2>9, <2>10, <2>11 DEF startTask, Rests, process, m
<1>4. CASE ~startTask /\ ~processDies
  <2>1. PICK response \in Responses \ Ends : Emits(response, task)
    BY <1>4 DEF PluginStep, pluginAnswers, pluginAsks, Responses, BlobResponses, Ends
  <2>2. ProcessAlive /\ task # NoRequest /\ UNCHANGED proxyFlags
    BY <1>4 DEF PluginStep, pluginAnswers, pluginAsks
  <2>3. Busy
    BY <2>2 DEF Busy
  <2>4. EndIsLast'
    BY <1>1, <1>2, <2>1, <2>2, MessageSent
  <2> QED
    BY <2>2, <2>3, <2>4, BusyKept DEF proxyFlags
<1>5. CASE processDies
  <2>1. /\ ProcessAlive
        /\ Emits("crash", NoRequest)
        /\ task' = NoRequest
        /\ UNCHANGED <<proxyFlags, procState, writeBuffer, toPlugin>>
    BY <1>5 DEF processDies, Rests
  <2>2. EndIsLast' /\ ((\E k \in RespsIn(fromPlugin)' : k \notin Ends) =>
                         \E k \in RespsIn(fromPlugin) : k \notin Ends)
    BY <1>1, <1>2, <2>1, MessageSent DEF Responses, Ends
  <2>3. OpsIn(writeBuffer)' = OpsIn(writeBuffer) /\ OpsIn(toPlugin)' = OpsIn(toPlugin)
    BY <2>1
  <2>4. Busy' => Busy
    BY <2>1, <2>2, <2>3 DEF Busy
  <2> QED
    BY <2>1, <2>2, <2>4, BusyKept DEF proxyFlags
<1> QED
  BY <1>3, <1>4, <1>5 DEF PluginStep

LEMMA CancelServes ==
  ASSUME ProxyTypeOK, QueueTyped, ProcInv, NEW session \in Sessions, cancel(session)
  PROVE  ProcInv'
<1>1. PICK r \in Requests :
         writeBuffer' = WrittenIfRunning("cancel", r) \/ UNCHANGED writeBuffer
  BY EntryTyped DEF cancel
<1>2. writeBuffer \in Seq(Ops) /\ [op |-> "cancel", req |-> r] \in Ops
  BY MaybeRequestFacts DEF ProxyTypeOK, Ops, Operations
<1>3. "process" \in OpsIn(writeBuffer)' => "process" \in OpsIn(writeBuffer)
  BY <1>1, <1>2, OpsFacts DEF WrittenIfRunning, Written
<1>4. UNCHANGED <<isResultObtained, toPlugin, fromPlugin, task, requestIsActive>>
  BY DEF cancel, proxyFlags, process
<1>5. EndIsLast'
  BY <1>4 DEF ProcInv, EndIsLast
<1>6. RespsIn(fromPlugin)' = RespsIn(fromPlugin) /\ OpsIn(toPlugin)' = OpsIn(toPlugin)
  BY <1>4
<1>7. Busy' => Busy
  BY <1>3, <1>4, <1>6 DEF Busy
<1> QED
  BY <1>4, <1>5, <1>7, BusyKept

LEMMA StartServes ==
  ASSUME ProxyTypeOK, ProcInv, startNewRequest
  PROVE  ProcInv'
<1>1. CASE UNCHANGED <<proxyVars, requestIsActive>>
  BY <1>1, ProxyStill
<1>2. CASE /\ ~requestIsActive
           /\ startProcess
  <2>1. PICK ok \in BOOLEAN :
          /\ proxyProcess(head, ok)
          /\ ok => requestIsActive' = TRUE
          /\ ~ok => requestIsActive' = FALSE
    BY <1>2 DEF startProcess
  <2>2. EndIsLast'
    BY <2>1 DEF proxyProcess, process, ProcInv, EndIsLast
  <2>3. CASE ok
    BY <2>1, <2>2, <2>3 DEF ProcInv, BusyServes
  <2>4. CASE ~ok
    <3>1. UNCHANGED <<isResultObtained, writeBuffer, toPlugin, fromPlugin, task>>
      BY <2>1, <2>4 DEF proxyProcess, proxyFlags, process
    <3>2. Busy' = Busy
      BY <3>1 DEF Busy
    <3> QED
      BY <1>2, <2>2, <3>1, <3>2, BusyKept
  <2> QED
    BY <2>3, <2>4
<1> QED
  BY <1>1, <1>2 DEF startNewRequest

LEMMA QueryUiServes ==
  ASSUME TypeOK, ProcInv, queryUiSlot
  PROVE  ProcInv'
<1>1. UNCHANGED requestIsActive
  BY DEF queryUiSlot
<1>2. CASE UNCHANGED proxyVars
  BY <1>1, <1>2, ProxyStill
<1>3. CASE \E operation \in {"processUi", "refresh"} :
              proxyContinue(operation, watcher.req) /\ UNCHANGED fromPlugin
  <2>1. watcher \in Watchers /\ watcher.status = "finished"
    BY PartsTyped DEF TypeOK, queryUiSlot
  <2>2. watcher.req \in MaybeRequest
    BY <2>1, MaybeRequestFacts DEF Watchers, NoWatcher
  <2>3. ProxyTypeOK /\ RespsIn(fromPlugin)' = RespsIn(fromPlugin)
    BY <1>3 DEF TypeOK
  <2>4. Busy' => Busy
    BY <1>3, <2>2, <2>3, ContinueBusy
  <2>5. EndIsLast' /\ UNCHANGED isResultObtained
    BY <1>3 DEF proxyContinue, process, ProcInv, EndIsLast
  <2> QED
    BY <1>1, <2>4, <2>5, BusyKept
<1> QED
  BY <1>2, <1>3 DEF queryUiSlot, useUiAnswer

\* The handlers that read a message; its arrival means a request is active.
LEMMA HandlersServe ==
  ASSUME ProxyTypeOK, ProcInv,
         \/ handleAnswer
         \/ (handleStore \/ handleUi \/ handleRefreshed) /\ UNCHANGED requestIsActive
  PROVE  ProcInv' /\ (~isResultObtained => requestIsActive)
<1>1. PICK kinds \in SUBSET (Responses \ Ends) : Receives(kinds) /\ UNCHANGED process
  BY DEF handleAnswer, handleStore, handleUi, handleRefreshed, Responses, BlobResponses,
     Ends, proxyContinue
<1>2. /\ EndIsLast'
      /\ (\E k \in RespsIn(fromPlugin)' : k \notin Ends) =>
            \E k \in RespsIn(fromPlugin) : k \notin Ends
      /\ Received.resp \in RespsIn(fromPlugin)
  BY <1>1, MessageRead DEF ProcInv, process
<1>3. Received.resp \in kinds /\ Received.req \in MaybeRequest
  BY <1>1, ReceivedTyped DEF Receives
<1>4. Busy
  BY <1>1, <1>2, <1>3 DEF Busy
<1>5. ~isResultObtained => requestIsActive
  BY <1>4 DEF ProcInv, BusyServes
<1>6. CASE handleAnswer
  BY <1>2, <1>5, <1>6 DEF handleAnswer, ProcInv, BusyServes
<1>7. CASE UNCHANGED <<isResultObtained, requestIsActive>>
  BY <1>2, <1>4, <1>5, <1>7, BusyKept
<1> QED
  BY <1>5, <1>6, <1>7 DEF handleStore, handleUi, handleRefreshed, proxyFlags, proxyContinue

LEMMA OnExitServes ==
  ASSUME ProxyTypeOK, ProcInv, onExit
  PROVE  ProcInv'
<1>1. Receives(Ends) /\ UNCHANGED process
  BY DEF onExit, Ends
<1>2. fromPlugin # <<>> /\ fromPlugin' = Tail(fromPlugin)
  BY <1>1 DEF Receives
<1>3. /\ DOMAIN fromPlugin' = 1..(Len(fromPlugin) - 1)
      /\ 1 \in DOMAIN fromPlugin
  BY <1>2, TailOfMessages
<1>4. fromPlugin[1].resp \in Ends
  BY <1>1 DEF Receives, Received
<1>5. Len(fromPlugin) = 1 /\ task = NoRequest
  BY <1>3, <1>4 DEF ProcInv, EndIsLast
<1>6. DOMAIN fromPlugin' = {}
  BY <1>3, <1>5
<1>7. RespsIn(fromPlugin)' = {} /\ EndIsLast'
  BY <1>6 DEF RespsIn, EndIsLast
<1>8. writeBuffer' = <<>> /\ toPlugin' = <<>> /\ task' = NoRequest
  BY <1>1, <1>5 DEF onExit, process
<1>9. OpsIn(writeBuffer)' = {} /\ OpsIn(toPlugin)' = {}
  BY <1>8 DEF OpsIn
<1>10. ~Busy'
  BY <1>7, <1>8, <1>9 DEF Busy
<1> QED
  BY <1>7, <1>10 DEF ProcInv, BusyServes

LEMMA FlushServes ==
  ASSUME ProxyTypeOK, ProcInv, flushWrites, UNCHANGED requestIsActive
  PROVE  ProcInv'
<1>1. writeBuffer \in Seq(Ops) /\ toPlugin \in Seq(Ops)
  BY DEF ProxyTypeOK, Ops
<1>2. "process" \in OpsIn(toPlugin)' =>
         "process" \in OpsIn(toPlugin) \/ "process" \in OpsIn(writeBuffer)
  BY <1>1, OpsFacts DEF flushWrites
<1>3. OpsIn(writeBuffer)' = {}
  BY DEF flushWrites, OpsIn
<1>4. UNCHANGED <<isResultObtained, fromPlugin, task>>
  BY DEF flushWrites, proxyFlags, process
<1>5. EndIsLast' /\ RespsIn(fromPlugin)' = RespsIn(fromPlugin)
  BY <1>4 DEF ProcInv, EndIsLast
<1>6. Busy' => Busy
  BY <1>2, <1>3, <1>4, <1>5 DEF Busy
<1> QED
  BY <1>4, <1>5, <1>6, BusyKept

LEMMA ProcStep ==
  ASSUME WholeAnswers, TypeOK, ProcInv, [Next]_vars
  PROVE  ProcInv'
<1>1. ProxyTypeOK /\ QueueTyped
  BY PartsTyped DEF TypeOK
<1>2. CASE UNCHANGED <<proxyVars, requestIsActive>>
  BY <1>2, ProxyStill
<1>3. ASSUME NEW session \in Sessions, cancel(session) PROVE ProcInv'
  BY <1>1, <1>3, CancelServes
<1>4. CASE startNewRequest
  BY <1>1, <1>4, StartServes
<1>5. CASE queryUiSlot
  BY <1>5, QueryUiServes
<1>6. CASE handleAnswer
  BY <1>1, <1>6, HandlersServe
<1>7. CASE handleStore \/ handleUi \/ handleRefreshed
  <2>1. UNCHANGED requestIsActive
    BY <1>7 DEF handleStore, handleUi, handleRefreshed, SilentCore, coreVars, processStore,
       openDialog
  <2> QED
    BY <1>1, <1>7, <2>1, HandlersServe
<1>8. CASE onExit
  BY <1>1, <1>8, OnExitServes
<1>9. CASE pollAndFlush
  BY <1>1, <1>9, FlushServes DEF pollAndFlush, SilentCore, coreVars
<1>10. CASE PluginProcessStep
  BY <1>1, <1>10, PluginStepServes DEF PluginProcessStep, SilentCore, coreVars
<1>11. CASE blobIOError
  BY <1>11 DEF blobIOError, WholeAnswers
<1>12. CASE UNCHANGED vars
  BY <1>2, <1>12 DEF vars, coreVars
<1>13. ASSUME NEW r \in Requests, processRequest(r) PROVE ProcInv'
  BY <1>2, <1>13 DEF processRequest
<1>14. CASE credentialsSystemReady \/ uiReplies
  BY <1>2, <1>14 DEF credentialsSystemReady, uiReplies
<1> QED
  BY <1>3, <1>4, <1>5, <1>6, <1>7, <1>8, <1>9, <1>10, <1>11, <1>12, <1>13, <1>14
  DEF Next, ClientStep, LoopStep

-----------------------------------------------------------------------------
(* The queue as the clients see it: requests only. *)

ReqsOf(q) == [i \in DOMAIN q |-> q[i].req]

LEMMA ReqsFacts ==
  ASSUME NEW q \in Seq(Entries)
  PROVE  /\ Len(q) \in Nat /\ DOMAIN q = 1..Len(q)
         /\ ReqsOf(q) \in Seq(Requests)
         /\ Len(ReqsOf(q)) = Len(q)
         /\ \A i \in 1..Len(q) : ReqsOf(q)[i] = q[i].req
         /\ q = <<>> <=> ReqsOf(q) = <<>>
         /\ q # <<>> => Head(ReqsOf(q)) = Head(q).req /\ Len(q) \in Nat \ {0}
<1>1. Len(q) \in Nat /\ DOMAIN q = 1..Len(q) /\ (q # <<>> => Len(q) \in Nat \ {0})
  BY LenProperties, EmptySeq
<1>2. ASSUME NEW i \in 1..Len(q) PROVE q[i].req \in Requests
  <2>1. q[i] \in Entries
    BY ElementOfSeq
  <2> QED
    BY <2>1 DEF Entries
<1>3. ReqsOf(q) \in [1..Len(q) -> Requests]
  BY <1>1, <1>2 DEF ReqsOf
<1>4. ReqsOf(q) \in Seq(Requests)
  BY <1>1, <1>3
<1>5. Len(ReqsOf(q)) = Len(q)
  <2>1. DOMAIN ReqsOf(q) = 1..Len(q) /\ DOMAIN ReqsOf(q) = 1..Len(ReqsOf(q))
    BY <1>3, <1>4, LenProperties
  <2> QED
    BY <1>1, <1>4, <2>1, LenProperties
<1>6. \A i \in 1..Len(q) : ReqsOf(q)[i] = q[i].req
  BY <1>1 DEF ReqsOf
<1>7. q = <<>> <=> ReqsOf(q) = <<>>
  BY <1>1, <1>4, <1>5, EmptySeq
<1>8. ASSUME q # <<>> PROVE Head(ReqsOf(q)) = Head(q).req
  <2>1. 1 \in 1..Len(q)
    BY <1>1, <1>8
  <2> QED
    BY <1>6, <2>1
<1> QED
  BY <1>1, <1>4, <1>5, <1>6, <1>7, <1>8

LEMMA ReqsOfTail ==
  ASSUME NEW q \in Seq(Entries), q # <<>>
  PROVE  ReqsOf(Tail(q)) = Tail(ReqsOf(q))
<1>1. /\ Tail(q) \in Seq(Entries)
      /\ Len(Tail(q)) = Len(q) - 1
      /\ \A i \in 1..Len(Tail(q)) : Tail(q)[i] = q[i + 1]
  BY HeadTailProperties
<1>2. /\ ReqsOf(q) \in Seq(Requests) /\ ReqsOf(q) # <<>>
      /\ Len(ReqsOf(q)) = Len(q) /\ Len(q) \in Nat \ {0}
      /\ \A i \in 1..Len(q) : ReqsOf(q)[i] = q[i].req
  BY ReqsFacts
<1>3. /\ Tail(ReqsOf(q)) \in Seq(Requests)
      /\ Len(Tail(ReqsOf(q))) = Len(q) - 1
      /\ \A i \in 1..(Len(q) - 1) : Tail(ReqsOf(q))[i] = ReqsOf(q)[i + 1]
  BY <1>2, HeadTailProperties
<1>4. /\ ReqsOf(Tail(q)) \in Seq(Requests)
      /\ Len(ReqsOf(Tail(q))) = Len(q) - 1
      /\ \A i \in 1..(Len(q) - 1) : ReqsOf(Tail(q))[i] = Tail(q)[i].req
  BY <1>1, ReqsFacts
<1>5. \A i \in 1..(Len(q) - 1) : i + 1 \in 1..Len(q)
  BY <1>2
<1>6. \A i \in 1..(Len(q) - 1) : ReqsOf(Tail(q))[i] = Tail(ReqsOf(q))[i]
  BY <1>1, <1>2, <1>3, <1>4, <1>5
<1> QED
  BY <1>3, <1>4, <1>6, SeqEqual

LEMMA ReqsOfAppend ==
  ASSUME NEW q \in Seq(Entries), NEW e \in Entries
  PROVE  ReqsOf(Append(q, e)) = Append(ReqsOf(q), e.req)
<1>1. /\ Append(q, e) \in Seq(Entries)
      /\ Len(Append(q, e)) = Len(q) + 1
      /\ \A i \in 1..Len(q) : Append(q, e)[i] = q[i]
      /\ Append(q, e)[Len(q) + 1] = e
  BY AppendProperties
<1>2. /\ ReqsOf(q) \in Seq(Requests) /\ e.req \in Requests
      /\ Len(ReqsOf(q)) = Len(q) /\ Len(q) \in Nat
      /\ \A i \in 1..Len(q) : ReqsOf(q)[i] = q[i].req
  BY ReqsFacts DEF Entries
<1>3. /\ Append(ReqsOf(q), e.req) \in Seq(Requests)
      /\ Len(Append(ReqsOf(q), e.req)) = Len(q) + 1
      /\ \A i \in 1..Len(q) : Append(ReqsOf(q), e.req)[i] = ReqsOf(q)[i]
      /\ Append(ReqsOf(q), e.req)[Len(q) + 1] = e.req
  BY <1>2, AppendProperties
<1>4. /\ ReqsOf(Append(q, e)) \in Seq(Requests)
      /\ Len(ReqsOf(Append(q, e))) = Len(q) + 1
      /\ \A i \in 1..(Len(q) + 1) : ReqsOf(Append(q, e))[i] = Append(q, e)[i].req
  BY <1>1, ReqsFacts
<1>5. \A i \in 1..(Len(q) + 1) : i \in 1..Len(q) \/ i = Len(q) + 1
  BY <1>2
<1>6. \A i \in 1..(Len(q) + 1) : ReqsOf(Append(q, e))[i] = Append(ReqsOf(q), e.req)[i]
  BY <1>1, <1>2, <1>3, <1>4, <1>5
<1> QED
  BY <1>3, <1>4, <1>6, SeqEqual

LEMMA ReqsOfRemoveAt ==
  ASSUME NEW q \in Seq(Entries), NEW i \in 1..Len(q)
  PROVE  ReqsOf(RemoveAt(q, i)) = RemoveAt(ReqsOf(q), i)
<1> DEFINE n == Len(q) - 1
<1>1. /\ RemoveAt(q, i) \in Seq(Entries)
      /\ Len(RemoveAt(q, i)) = n
      /\ \A k \in 1..n : RemoveAt(q, i)[k] = IF k < i THEN q[k] ELSE q[k + 1]
  BY RemoveAtFacts
<1>2. /\ ReqsOf(q) \in Seq(Requests)
      /\ Len(ReqsOf(q)) = Len(q) /\ Len(q) \in Nat
      /\ \A k \in 1..Len(q) : ReqsOf(q)[k] = q[k].req
  BY ReqsFacts
<1>3. /\ RemoveAt(ReqsOf(q), i) \in Seq(Requests)
      /\ Len(RemoveAt(ReqsOf(q), i)) = n
      /\ \A k \in 1..n : RemoveAt(ReqsOf(q), i)[k] =
            IF k < i THEN ReqsOf(q)[k] ELSE ReqsOf(q)[k + 1]
  BY <1>2, RemoveAtFacts
<1>4. /\ ReqsOf(RemoveAt(q, i)) \in Seq(Requests)
      /\ Len(ReqsOf(RemoveAt(q, i))) = n
      /\ \A k \in 1..n : ReqsOf(RemoveAt(q, i))[k] = RemoveAt(q, i)[k].req
  BY <1>1, ReqsFacts
<1>5. \A k \in 1..n : k \in 1..Len(q) /\ k + 1 \in 1..Len(q)
  BY <1>2
<1> HIDE DEF n
<1>6. ASSUME NEW k \in 1..n
      PROVE  ReqsOf(RemoveAt(q, i))[k] = RemoveAt(ReqsOf(q), i)[k]
  <2>1. CASE k < i
    BY <1>1, <1>2, <1>3, <1>4, <1>5, <2>1
  <2>2. CASE ~(k < i)
    BY <1>1, <1>2, <1>3, <1>4, <1>5, <2>2
  <2> QED
    BY <2>1, <2>2
<1> QED
  BY <1>3, <1>4, <1>6, SeqEqual

LEMMA ReqsOfCreds ==
  ASSUME NEW q \in Seq(Entries), q # <<>>, NEW c
  PROVE  ReqsOf([q EXCEPT ![1].creds = c]) = ReqsOf(q)
<1>1. DOMAIN [q EXCEPT ![1].creds = c] = DOMAIN q
  OBVIOUS
<1>2. ASSUME NEW k \in DOMAIN q PROVE [q EXCEPT ![1].creds = c][k].req = q[k].req
  <2>1. q[k] \in Entries
    BY ReqsFacts, ElementOfSeq
  <2> QED
    BY <2>1 DEF Entries
<1> QED
  BY <1>1, <1>2 DEF ReqsOf

-----------------------------------------------------------------------------
(* The queue and its answers: the steps of RequestQueue.  The active request *)
(* is the first, and has its answer once it is canceled.  Once a canceled    *)
(* request is over the plugin's answer to it has been read, or its process   *)
(* has gone; only then may the next request not be taken for the canceled    *)
(* one, m_canceled being cleared no sooner than startNewRequest() runs.      *)

waitingReqs  == ReqsOf(listOfRequests)
answeredReqs == {r \in Requests : answer[r] # "none"}

ActiveIsFirst      == requestIsActive => listOfRequests # <<>>
CanceledIsAnswered == canceled /\ requestIsActive => answer[head] # "none"
HeadInv            == ActiveIsFirst /\ CanceledIsAnswered

Gone == procState = "NotRunning" /\ fromPlugin = <<>>
CanceledIsOver == canceled /\ ~requestIsActive => isResultObtained \/ Gone

\* The active request stays the first.
KeepsHead == requestIsActive /\ requestIsActive' => head' = head

LEMMA ReplyFacts ==
  ASSUME HistoryTypeOK, NEW r \in Requests, NEW kind, kind # "none", Reply(r, kind)
  PROVE  /\ answeredReqs' = answeredReqs \cup {r}
         /\ \A q \in Requests : answer[q] # "none" \/ q = r => answer'[q] # "none"
<1>1. answer \in [Requests -> Answers]
  BY DEF HistoryTypeOK
<1>2. \A q \in Requests : answer'[q] = IF q = r /\ answer[r] = "none" THEN kind ELSE answer[q]
  BY <1>1 DEF Reply
<1> QED
  BY <1>2 DEF answeredReqs

LEMMA WaitingFacts ==
  ASSUME QueueTyped
  PROVE  /\ listOfRequests = <<>> <=> waitingReqs = <<>>
         /\ listOfRequests # <<>> => Head(waitingReqs) = head /\ head \in Requests
BY ReqsFacts, HeadTyped DEF QueueTyped, waitingReqs, head

\* Nothing happens that the clients see.
LEMMA QuietQueue ==
  ASSUME QueueTyped, QueueTyped', HeadInv, waitingReqs' = waitingReqs,
         UNCHANGED <<requestIsActive, answer, submitted>>, canceled' => canceled
  PROVE  HeadInv' /\ KeepsHead /\ UNCHANGED Queue!vars
<1>1. /\ listOfRequests = <<>> <=> waitingReqs = <<>>
      /\ listOfRequests # <<>> => Head(waitingReqs) = head
  BY WaitingFacts
<1>2. /\ listOfRequests' = <<>> <=> waitingReqs' = <<>>
      /\ listOfRequests' # <<>> => Head(waitingReqs') = head'
  BY ReqsFacts DEF QueueTyped, waitingReqs, head
<1>3. listOfRequests # <<>> => listOfRequests' # <<>> /\ head' = head
  BY <1>1, <1>2
<1>4. HeadInv' /\ KeepsHead
  BY <1>3 DEF HeadInv, ActiveIsFirst, CanceledIsAnswered, KeepsHead
<1>5. UNCHANGED Queue!vars
  BY DEF Queue!vars, waitingReqs, ReqsOf
<1> QED
  BY <1>4, <1>5

\* The first request ends; a canceled one has had its answer.
LEMMA DoneQueue ==
  ASSUME TypeOK, listOfRequests # <<>>, requestDone, UNCHANGED submitted,
         \/ canceled /\ NoReply
         \/ ~canceled /\ (Reply(head, "result") \/ Reply(head, "error"))
  PROVE  /\ HeadInv' /\ KeepsHead
         /\ (canceled => answer[head] # "none") => Queue!Finish
<1>1. QueueTyped /\ HistoryTypeOK
  BY PartsTyped DEF TypeOK
<1>2. requestIsActive' = FALSE /\ listOfRequests' = Tail(listOfRequests)
  BY DEF requestDone
<1>3. HeadInv' /\ KeepsHead
  BY <1>2 DEF HeadInv, ActiveIsFirst, CanceledIsAnswered, KeepsHead
<1>4. ASSUME canceled => answer[head] # "none" PROVE Queue!Finish
  <2>1. waitingReqs # <<>> /\ Head(waitingReqs) = head /\ head \in Requests
    BY <1>1, WaitingFacts
  <2>2. waitingReqs' = Tail(waitingReqs)
    BY <1>1, <1>2, ReqsOfTail DEF QueueTyped, waitingReqs
  <2>3. answeredReqs' = answeredReqs \cup {head}
    <3>1. CASE canceled
      BY <1>4, <2>1, <3>1 DEF NoReply, answeredReqs
    <3>2. CASE ~canceled
      BY <1>1, <2>1, <3>2, ReplyFacts
    <3> QED
      BY <3>1, <3>2
  <2> QED
    BY <1>2, <2>1, <2>2, <2>3 DEF Queue!Finish, waitingReqs, ReqsOf, answeredReqs
<1> QED
  BY <1>3, <1>4

LEMMA SubmitQueue ==
  ASSUME TypeOK, HeadInv, NEW r \in Requests, processRequest(r)
  PROVE  HeadInv' /\ KeepsHead /\ Queue!Submit(r)
<1> DEFINE e == [req |-> r, creds |-> r]
<1>1. QueueTyped /\ e \in Entries
  BY PartsTyped, MaybeRequestFacts DEF TypeOK, Entries
<1>2. /\ listOfRequests' = Append(listOfRequests, e)
      /\ r \notin submitted
      /\ submitted' = submitted \cup {r}
      /\ UNCHANGED <<answer, requestIsActive, canceled>>
  BY DEF processRequest, outcome
<1>3. /\ listOfRequests' \in Seq(Entries)
      /\ Len(listOfRequests') = Len(listOfRequests) + 1
      /\ \A k \in 1..Len(listOfRequests) : listOfRequests'[k] = listOfRequests[k]
      /\ Len(listOfRequests) \in Nat
      /\ listOfRequests # <<>> => Len(listOfRequests) \in Nat \ {0}
  BY <1>1, <1>2, AppendProperties, LenProperties, EmptySeq DEF QueueTyped
<1>4. listOfRequests' # <<>>
  BY <1>3, EmptySeq
<1>5. ASSUME listOfRequests # <<>> PROVE head' = head
  <2>1. 1 \in 1..Len(listOfRequests)
    BY <1>3, <1>5
  <2> QED
    BY <1>3, <2>1 DEF head
<1>6. waitingReqs' = Append(waitingReqs, r)
  BY <1>1, <1>2, ReqsOfAppend DEF QueueTyped, waitingReqs
<1>7. HeadInv' /\ KeepsHead
  BY <1>2, <1>4, <1>5 DEF HeadInv, ActiveIsFirst, CanceledIsAnswered, KeepsHead
<1>8. answeredReqs' = answeredReqs
  BY <1>2 DEF answeredReqs
<1>9. Queue!Submit(r)
  BY <1>2, <1>6, <1>8 DEF Queue!Submit, waitingReqs, ReqsOf, answeredReqs
<1> QED
  BY <1>7, <1>9

LEMMA CancelQueue ==
  ASSUME TypeOK, HeadInv, NEW session \in Sessions, cancel(session)
  PROVE  HeadInv' /\ KeepsHead /\ Queue!Next
<1>1. PICK i \in DOMAIN listOfRequests :
        LET r == listOfRequests[i].req
            isActive == i = 1 /\ requestIsActive IN
        /\ Reply(r, "canceled")
        /\ \/ isActive /\ UNCHANGED listOfRequests
           \/ /\ ~isActive
              /\ listOfRequests' = RemoveAt(listOfRequests, i)
              /\ UNCHANGED canceled
  BY DEF cancel
<1> DEFINE r == listOfRequests[i].req
<1>2. QueueTyped /\ HistoryTypeOK
  BY PartsTyped DEF TypeOK
<1>3. i \in 1..Len(listOfRequests) /\ r \in Requests
  BY <1>2, EntryTyped
<1>4. Reply(r, "canceled")
  BY <1>1
<1>5. /\ answeredReqs' = answeredReqs \cup {r}
      /\ \A q \in Requests : answer[q] # "none" \/ q = r => answer'[q] # "none"
  BY <1>2, <1>3, <1>4, ReplyFacts DEF r
<1>6. UNCHANGED <<requestIsActive, submitted>>
  BY DEF cancel
<1>7. Len(listOfRequests) \in Nat /\ listOfRequests # <<>>
  BY <1>2, <1>3, LenProperties, EmptySeq DEF QueueTyped
<1>8. Head(waitingReqs) = head /\ head \in Requests
  BY <1>2, <1>7, WaitingFacts
<1>9. CASE i = 1 /\ requestIsActive /\ UNCHANGED listOfRequests
  <2>1. r = head
    BY <1>9 DEF head
  <2>2. head' = head /\ listOfRequests' # <<>>
    BY <1>7, <1>9 DEF head
  <2>3. HeadInv' /\ KeepsHead
    BY <1>5, <1>8, <2>1, <2>2 DEF HeadInv, ActiveIsFirst, CanceledIsAnswered, KeepsHead
  <2>4. Queue!GiveUp
    BY <1>5, <1>6, <1>8, <1>9, <2>1 DEF Queue!GiveUp, waitingReqs, ReqsOf, answeredReqs
  <2> QED
    BY <2>3, <2>4 DEF Queue!Next
<1>10. CASE /\ ~(i = 1 /\ requestIsActive)
            /\ listOfRequests' = RemoveAt(listOfRequests, i)
            /\ UNCHANGED canceled
  <2>1. /\ listOfRequests' \in Seq(Entries)
        /\ Len(listOfRequests') = Len(listOfRequests) - 1
        /\ \A k \in 1..(Len(listOfRequests) - 1) : listOfRequests'[k] =
              IF k < i THEN listOfRequests[k] ELSE listOfRequests[k + 1]
    BY <1>2, <1>3, <1>10, RemoveAtFacts DEF QueueTyped
  <2>2. ASSUME requestIsActive PROVE listOfRequests' # <<>> /\ head' = head
    <3>1. i > 1 /\ Len(listOfRequests) > 1
      BY <1>3, <1>7, <1>10, <2>2
    <3>2. listOfRequests' # <<>>
      BY <1>7, <2>1, <3>1, EmptySeq
    <3>3. 1 \in 1..(Len(listOfRequests) - 1)
      BY <1>7, <3>1
    <3>4. listOfRequests'[1] = listOfRequests[1]
      BY <2>1, <3>1, <3>3
    <3> QED
      BY <3>2, <3>4 DEF head
  <2>3. HeadInv' /\ KeepsHead
    BY <1>5, <1>6, <1>8, <1>10, <2>2 DEF HeadInv, ActiveIsFirst, CanceledIsAnswered, KeepsHead
  <2>4. waitingReqs' = RemoveAt(waitingReqs, i)
    BY <1>2, <1>3, <1>10, ReqsOfRemoveAt DEF QueueTyped, waitingReqs
  <2>5. waitingReqs[i] = r /\ i \in DOMAIN waitingReqs
    BY DEF waitingReqs, ReqsOf
  <2>6. Queue!Withdraw(i)
    BY <1>5, <1>6, <1>10, <2>4, <2>5
    DEF Queue!Withdraw, waitingReqs, ReqsOf, answeredReqs, RemoveAt
  <2>7. \E k \in DOMAIN waitingReqs : Queue!Withdraw(k)
    BY <2>5, <2>6
  <2> QED
    BY <2>3, <2>7 DEF Queue!Next, waitingReqs, ReqsOf
<1> QED
  BY <1>1, <1>9, <1>10

LEMMA StartQueue ==
  ASSUME TypeOK, QueueTyped', HeadInv, startNewRequest
  PROVE  HeadInv' /\ KeepsHead /\ [Queue!Next]_(Queue!vars)
<1>1. QueueTyped /\ HistoryTypeOK
  BY PartsTyped DEF TypeOK
<1>2. canceled' = FALSE /\ UNCHANGED submitted
  BY DEF startNewRequest
<1>3. CASE NoReply /\ UNCHANGED <<listOfRequests, requestIsActive>>
  <2>1. waitingReqs' = waitingReqs /\ UNCHANGED <<requestIsActive, answer, submitted>>
    BY <1>2, <1>3 DEF waitingReqs, NoReply
  <2> QED
    BY <1>1, <1>2, <2>1, QuietQueue
<1>4. CASE /\ listOfRequests # <<>> /\ ~requestIsActive
           /\ requestIsActive' = TRUE
           /\ NoReply
           /\ UNCHANGED listOfRequests
  <2>1. waitingReqs # <<>>
    BY <1>1, <1>4, WaitingFacts
  <2>2. HeadInv' /\ KeepsHead
    BY <1>2, <1>4 DEF HeadInv, ActiveIsFirst, CanceledIsAnswered, KeepsHead
  <2>3. Queue!Serve
    BY <1>2, <1>4, <2>1 DEF Queue!Serve, waitingReqs, ReqsOf, NoReply
  <2> QED
    BY <2>2, <2>3 DEF Queue!Next
<1>5. CASE /\ listOfRequests # <<>>
           /\ Reply(head, "notStarted")
           /\ listOfRequests' = Tail(listOfRequests)
           /\ requestIsActive' = FALSE
  <2>1. waitingReqs # <<>> /\ Head(waitingReqs) = head /\ head \in Requests
    BY <1>1, <1>5, WaitingFacts
  <2>2. waitingReqs' = Tail(waitingReqs)
    BY <1>1, <1>5, ReqsOfTail DEF QueueTyped, waitingReqs
  <2>3. answeredReqs' = answeredReqs \cup {head}
    BY <1>1, <1>5, <2>1, ReplyFacts
  <2>4. HeadInv' /\ KeepsHead
    BY <1>2, <1>5 DEF HeadInv, ActiveIsFirst, CanceledIsAnswered, KeepsHead
  <2>5. Queue!Finish
    BY <1>2, <1>5, <2>1, <2>2, <2>3 DEF Queue!Finish, waitingReqs, ReqsOf, answeredReqs
  <2> QED
    BY <2>4, <2>5 DEF Queue!Next
<1> QED
  BY <1>3, <1>4, <1>5 DEF startNewRequest, startProcess

LEMMA SilentQueue ==
  ASSUME TypeOK, HeadInv, SilentCore
  PROVE  HeadInv' /\ KeepsHead /\ UNCHANGED Queue!vars
<1>1. UNCHANGED <<listOfRequests, requestIsActive, canceled, answer, submitted>>
  BY DEF SilentCore, coreVars, history, outcome
<1>2. QueueTyped /\ QueueTyped' /\ waitingReqs' = waitingReqs
  BY <1>1, PartsTyped DEF TypeOK, QueueTyped, waitingReqs
<1> QED
  BY <1>1, <1>2, QuietQueue

\* What the first request's m_params hold, the clients do not see.
LEMMA CredsQueue ==
  ASSUME TypeOK, QueueTyped', HeadInv,
         UNCHANGED <<requestIsActive, canceled, answer, submitted>>,
         \/ UNCHANGED listOfRequests
         \/ /\ listOfRequests # <<>>
            /\ \E c : listOfRequests' = [listOfRequests EXCEPT ![1].creds = c]
  PROVE  HeadInv' /\ KeepsHead /\ UNCHANGED Queue!vars
<1>1. QueueTyped
  BY PartsTyped DEF TypeOK
<1>2. waitingReqs' = waitingReqs
  BY <1>1, ReqsOfCreds DEF waitingReqs, QueueTyped
<1> QED
  BY <1>1, <1>2, QuietQueue

\* The slots that end a request, which the proxy calls when it is served.
LEMMA EndingQueue ==
  ASSUME TypeOK, QueueTyped', HeadInv, NEW of, processResultReply(of) \/ processError(of)
  PROVE  /\ HeadInv' /\ KeepsHead
         /\ (canceled => requestIsActive) => [Queue!Next]_(Queue!vars)
<1>1. CASE listOfRequests = <<>>
  <2>1. UNCHANGED <<listOfRequests, requestIsActive, canceled, answer, submitted>>
    BY <1>1 DEF processResultReply, processError, coreVars, history, outcome
  <2> QED
    BY <2>1, CredsQueue
<1>2. CASE listOfRequests # <<>>
  <2>1. /\ requestDone
        /\ UNCHANGED submitted
        /\ \/ canceled /\ NoReply
           \/ ~canceled /\ (Reply(head, "result") \/ Reply(head, "error"))
    BY <1>2 DEF processResultReply, processError, history, outcome, NoReply
  <2>2. /\ HeadInv' /\ KeepsHead
        /\ (canceled => answer[head] # "none") => Queue!Finish
    BY <1>2, <2>1, DoneQueue
  <2> QED
    BY <2>2 DEF HeadInv, CanceledIsAnswered, Queue!Next
<1> QED
  BY <1>1, <1>2

LEMMA HandlerQueue ==
  ASSUME TypeOK, QueueTyped', HeadInv,
         handleAnswer \/ handleStore \/ handleUi \/ handleRefreshed
  PROVE  /\ HeadInv' /\ KeepsHead
         /\ CanceledIsOver => [Queue!Next]_(Queue!vars)
<1>1. CASE SilentCore
  BY <1>1, SilentQueue
<1>2. CASE handleAnswer
  <2>1. \/ SilentCore
        \/ ~isResultObtained /\ (\/ processResultReply(Received.req)
                                 \/ processError(Received.req))
    BY <1>2 DEF handleAnswer, Receives, TypeOK, ProxyTypeOK
  <2>2. CanceledIsOver /\ ~isResultObtained => (canceled => requestIsActive)
    BY <1>2 DEF handleAnswer, Receives, CanceledIsOver, Gone
  <2> QED
    BY <1>1, <2>1, <2>2, EndingQueue
<1>3. CASE ~handleAnswer /\ ~SilentCore
  <2>1. processStore \/ openDialog(Received.req)
    BY <1>3 DEF handleStore, handleUi, handleRefreshed
  <2>2. /\ UNCHANGED <<requestIsActive, canceled, answer, submitted>>
        /\ \/ UNCHANGED listOfRequests
           \/ /\ listOfRequests # <<>>
              /\ \E c : listOfRequests' = [listOfRequests EXCEPT ![1].creds = c]
    BY <2>1 DEF processStore, openDialog, coreVars, history, outcome
  <2> QED
    BY <2>2, CredsQueue
<1> QED
  BY <1>1, <1>2, <1>3

\* The process has ended, or its output is torn.
LEMMA FailureQueue ==
  ASSUME TypeOK, QueueTyped', HeadInv, onExit \/ blobIOError
  PROVE  /\ HeadInv' /\ KeepsHead
         /\ "late" \notin Env => [Queue!Next]_(Queue!vars)
<1>1. SilentCore \/ processError(NoRequest)
  BY DEF onExit, blobIOError
<1>2. "late" \notin Env => (canceled => requestIsActive)
  BY DEF onExit, blobIOError
<1> QED
  BY <1>1, <1>2, SilentQueue, EndingQueue

LEMMA HeadStep ==
  ASSUME TypeOK, TypeOK', HeadInv, [Next]_vars
  PROVE  /\ HeadInv' /\ KeepsHead
         /\ "late" \notin Env /\ CanceledIsOver => [Queue!Next]_(Queue!vars)
<1>1. QueueTyped'
  BY PartsTyped DEF TypeOK, QueueTyped, CoreTypeOK, Entries
<1>2. CASE SilentCore
  BY <1>2, SilentQueue
<1>3. ASSUME NEW r \in Requests, processRequest(r)
      PROVE  HeadInv' /\ KeepsHead /\ Queue!Next
  BY <1>3, SubmitQueue DEF Queue!Next
<1>4. ASSUME NEW session \in Sessions, cancel(session)
      PROVE  HeadInv' /\ KeepsHead /\ Queue!Next
  BY <1>4, CancelQueue
<1>5. CASE startNewRequest
  BY <1>1, <1>5, StartQueue
<1>6. CASE handleAnswer \/ handleStore \/ handleUi \/ handleRefreshed
  BY <1>1, <1>6, HandlerQueue
<1>7. CASE onExit \/ blobIOError
  BY <1>1, <1>7, FailureQueue
<1>8. CASE queryUiSlot
  <2>1. /\ UNCHANGED <<requestIsActive, canceled, answer, submitted>>
        /\ \/ UNCHANGED listOfRequests
           \/ /\ listOfRequests # <<>>
              /\ \E c : listOfRequests' = [listOfRequests EXCEPT ![1].creds = c]
    BY <1>8 DEF queryUiSlot, useUiAnswer
  <2> QED
    BY <1>1, <2>1, CredsQueue
<1>9. CASE uiReplies \/ credentialsSystemReady
  <2>1. UNCHANGED <<listOfRequests, requestIsActive, canceled, answer, submitted>>
    BY <1>9 DEF uiReplies, credentialsSystemReady, history, outcome
  <2> QED
    BY <1>1, <2>1, CredsQueue
<1>10. CASE pollAndFlush \/ PluginProcessStep \/ UNCHANGED vars
  BY <1>2, <1>10 DEF pollAndFlush, PluginProcessStep, vars, SilentCore
<1> QED
  BY <1>3, <1>4, <1>5, <1>6, <1>7, <1>8, <1>9, <1>10 DEF Next, ClientStep, LoopStep

\* Whatever the plugin sends, and torn blobs, the news of the end stay the last.
LEMMA EndStep ==
  ASSUME TypeOK, EndIsLast, [Next]_vars
  PROVE  EndIsLast'
<1>1. ProxyTypeOK /\ NoRequest \in MaybeRequest /\ task \in MaybeRequest
  BY MaybeRequestFacts DEF TypeOK, ProxyTypeOK
<1>2. CASE UNCHANGED <<fromPlugin, task>>
  BY <1>2 DEF EndIsLast
<1>3. CASE handleAnswer \/ handleStore \/ handleUi \/ handleRefreshed \/ onExit
  <2>1. \E kinds : Receives(kinds) /\ UNCHANGED task
    BY <1>3 DEF handleAnswer, handleStore, handleUi, handleRefreshed, onExit, proxyContinue,
       process
  <2> QED
    BY <1>1, <2>1, MessageRead
<1>4. CASE blobIOError
  <2>1. fromPlugin # <<>> /\ UNCHANGED task
    BY <1>4 DEF blobIOError, process
  <2>2. CASE fromPlugin' = Tail(fromPlugin)
    <3>1. Receives({Received.resp})
      BY <2>1, <2>2 DEF Receives
    <3> QED
      BY <1>1, <2>1, <3>1, MessageRead
  <2>3. CASE fromPlugin' = <<>>
    BY <2>3 DEF EndIsLast
  <2>4. CASE fromPlugin' = <<fromPlugin[Len(fromPlugin)]>>
    <3>1. fromPlugin \in Seq(Msgs)
      BY <1>1 DEF ProxyTypeOK, Msgs
    <3>2. Len(fromPlugin) \in DOMAIN fromPlugin
      BY <2>1, <3>1, LenProperties, EmptySeq
    <3> QED
      BY <2>1, <2>4, <3>2 DEF EndIsLast
  <2> QED
    BY <1>4, <2>2, <2>3, <2>4 DEF blobIOError, Farewell
<1>5. CASE PluginStep
  <2>1. ProcessAlive
    BY <1>5 DEF PluginStep, startTask, pluginAnswers, pluginAsks, processDies
  <2>2. CASE UNCHANGED fromPlugin
    BY <1>1, <2>1, <2>2, NothingSent
  <2>3. CASE startTask /\ ~UNCHANGED fromPlugin
    <3>1. toPlugin \in Seq(Ops) /\ toPlugin # <<>>
      BY <1>1, <2>3 DEF startTask, ProxyTypeOK, Ops
    <3>2. Head(toPlugin) \in Ops
      BY <3>1, HeadTailProperties
    <3> Head(toPlugin).req \in MaybeRequest
      BY <3>2 DEF Ops
    <3>3. \/ Emits("error", Head(toPlugin).req)
          \/ Emits("exit", NoRequest) /\ task' = NoRequest
      BY <2>3 DEF startTask, Rests
    <3> QED
      BY <1>1, <2>1, <3>2, <3>3, MessageSent DEF Responses, Ends
  <2>4. CASE ~startTask
    <3>1. \/ \E response \in {"result", "error", "store", "ui", "refreshed"} :
                 Emits(response, task)
          \/ Emits("crash", NoRequest) /\ task' = NoRequest
      BY <1>5, <2>4 DEF PluginStep, pluginAnswers, pluginAsks, processDies, Rests
    <3> QED
      BY <1>1, <2>1, <3>1, MessageSent DEF Responses, BlobResponses, Ends
  <2> QED
    BY <2>2, <2>3, <2>4
<1>6. CASE startNewRequest \/ queryUiSlot
  <2>1. UNCHANGED <<fromPlugin, task>>
    BY <1>6 DEF startNewRequest, startProcess, proxyProcess, queryUiSlot, useUiAnswer,
       proxyContinue, proxyVars, process
  <2> QED
    BY <1>2, <2>1
<1>7. CASE \/ \E r \in Requests : processRequest(r)
           \/ \E session \in Sessions : cancel(session)
           \/ credentialsSystemReady
           \/ uiReplies
           \/ pollAndFlush
           \/ UNCHANGED vars
  <2>1. UNCHANGED <<fromPlugin, task>>
    BY <1>7 DEF processRequest, cancel, credentialsSystemReady, uiReplies, pollAndFlush,
       flushWrites, vars, proxyVars, process
  <2> QED
    BY <1>2, <2>1
<1> QED
  BY <1>3, <1>4, <1>5, <1>6, <1>7
  DEF Next, ClientStep, LoopStep, PluginProcessStep

\* Once a canceled request is over, nothing more is read as an answer before
\* startNewRequest() has cleared m_canceled.
LEMMA OverStep ==
  ASSUME TypeOK, EndIsLast, ActiveIsFirst, CanceledIsOver, "late" \notin Env, [Next]_vars
  PROVE  CanceledIsOver'
<1>1. ProxyTypeOK
  BY DEF TypeOK
<1>2. CASE startNewRequest
  BY <1>2 DEF startNewRequest, CanceledIsOver
<1>3. CASE handleAnswer
  BY <1>3 DEF handleAnswer, CanceledIsOver
<1>4. CASE onExit
  <2>1. fromPlugin # <<>> /\ fromPlugin' = Tail(fromPlugin) /\ Received.resp \in Ends
    BY <1>4 DEF onExit, Receives, Ends
  <2>2. fromPlugin \in Seq(Msgs)
    BY <1>1 DEF ProxyTypeOK, Msgs
  <2>3. Len(fromPlugin) = 1
    <3>1. 1 \in DOMAIN fromPlugin
      BY <2>1, <2>2, LenProperties, EmptySeq
    <3>2. Received = fromPlugin[1]
      BY DEF Received
    <3> QED
      BY <2>1, <3>1, <3>2 DEF EndIsLast
  <2>4. fromPlugin' \in Seq(Msgs) /\ Len(fromPlugin') = 0
    BY <2>1, <2>2, <2>3, HeadTailProperties
  <2>5. fromPlugin' = <<>>
    BY <2>4, EmptySeq
  <2> QED
    BY <1>4, <2>5 DEF onExit, CanceledIsOver, Gone
<1>5. CASE blobIOError
  <2>1. ~canceled /\ UNCHANGED canceled
    BY <1>5 DEF blobIOError, processError
  <2> QED
    BY <2>1 DEF CanceledIsOver
<1>6. CASE handleStore \/ handleUi \/ handleRefreshed
  <2>1. fromPlugin # <<>> /\ UNCHANGED <<isResultObtained, canceled, requestIsActive>>
    BY <1>6 DEF handleStore, handleUi, handleRefreshed, Receives, proxyContinue, proxyFlags,
       SilentCore, coreVars, processStore, openDialog
  <2> QED
    BY <2>1 DEF CanceledIsOver, Gone
<1>7. CASE pollAndFlush \/ PluginProcessStep
  <2>1. /\ UNCHANGED <<isResultObtained, procState, canceled, requestIsActive>>
        /\ procState = "NotRunning" => UNCHANGED fromPlugin
    BY <1>7 DEF pollAndFlush, flushWrites, PluginProcessStep, PluginStep, startTask,
       pluginAnswers, pluginAsks, processDies, ProcessAlive, proxyFlags, SilentCore, coreVars
  <2> QED
    BY <2>1 DEF CanceledIsOver, Gone
<1>8. CASE queryUiSlot
  <2>1. UNCHANGED <<canceled, requestIsActive>> /\ (canceled => UNCHANGED proxyVars)
    BY <1>8 DEF queryUiSlot, useUiAnswer
  <2> QED
    BY <2>1 DEF CanceledIsOver, Gone, proxyVars, proxyFlags
<1>9. ASSUME NEW session \in Sessions, cancel(session) PROVE CanceledIsOver'
  <2>1. /\ requestIsActive \/ UNCHANGED canceled
        /\ UNCHANGED <<isResultObtained, procState, fromPlugin, requestIsActive>>
    BY <1>9 DEF cancel, proxyFlags
  <2> QED
    BY <2>1 DEF CanceledIsOver, Gone
<1>10. CASE \/ \E r \in Requests : processRequest(r)
            \/ credentialsSystemReady
            \/ uiReplies
            \/ UNCHANGED vars
  <2>1. UNCHANGED <<isResultObtained, procState, fromPlugin, canceled, requestIsActive>>
    BY <1>10 DEF processRequest, credentialsSystemReady, uiReplies, vars, coreVars,
       proxyVars, proxyFlags
  <2> QED
    BY <2>1 DEF CanceledIsOver, Gone
<1> QED
  BY <1>2, <1>3, <1>4, <1>5, <1>6, <1>7, <1>8, <1>9, <1>10 DEF Next, ClientStep, LoopStep

OverInv == TypeOK /\ EndIsLast /\ HeadInv /\ CanceledIsOver

LEMMA InitOver == Init => OverInv /\ Queue!Init
<1> SUFFICES ASSUME Init PROVE OverInv /\ Queue!Init
  OBVIOUS
<1>1. TypeOK
  BY InitTyped
<1>2. /\ task = NoRequest /\ fromPlugin = <<>>
      /\ listOfRequests = <<>> /\ requestIsActive = FALSE /\ canceled = FALSE
      /\ submitted = {} /\ answer = [r \in Requests |-> "none"]
  BY DEF Init, ProxyInit
<1>3. EndIsLast /\ HeadInv /\ CanceledIsOver
  BY <1>2 DEF EndIsLast, HeadInv, ActiveIsFirst, CanceledIsAnswered, CanceledIsOver
<1>4. waitingReqs = <<>>
  <2>1. QueueTyped
    BY <1>1, PartsTyped DEF TypeOK
  <2> QED
    BY <1>2, <2>1, WaitingFacts
<1>5. Queue!Init
  BY <1>2, <1>4 DEF Queue!Init, waitingReqs, ReqsOf
<1> QED
  BY <1>1, <1>3, <1>5 DEF OverInv

LEMMA StepOver ==
  ASSUME "late" \notin Env, OverInv, [Next]_vars
  PROVE  OverInv' /\ [Queue!Next]_(Queue!vars)
<1>1. TypeOK /\ TypeOK' /\ EndIsLast'
  BY StepTyped, EndStep DEF OverInv
<1>2. HeadInv' /\ [Queue!Next]_(Queue!vars)
  BY <1>1, HeadStep DEF OverInv
<1>3. CanceledIsOver'
  BY OverStep DEF OverInv, HeadInv
<1> QED
  BY <1>1, <1>2, <1>3 DEF OverInv

\* A request leaves the queue of RequestQueue only with an answer.
LEMMA LeavesAnswered ==
  ASSUME QueueTyped, QueueTyped', [Queue!Next]_(Queue!vars)
  PROVE  \A r \in Requests : InQueue(r) /\ ~InQueue(r)' => r \in answeredReqs'
<1>1. /\ waitingReqs \in Seq(Requests) /\ DOMAIN waitingReqs = 1..Len(waitingReqs)
      /\ Len(waitingReqs) \in Nat
      /\ \A r \in Requests : InQueue(r) <=> \E i \in DOMAIN waitingReqs : waitingReqs[i] = r
      /\ \A r \in Requests : InQueue(r)' <=> \E i \in DOMAIN waitingReqs' : waitingReqs'[i] = r
  <2>1. waitingReqs \in Seq(Requests)
    BY ReqsFacts DEF QueueTyped, waitingReqs
  <2>2. DOMAIN waitingReqs = 1..Len(waitingReqs) /\ Len(waitingReqs) \in Nat
    BY <2>1, LenProperties
  <2> QED
    BY <2>1, <2>2 DEF InQueue, waitingReqs, ReqsOf
<1> SUFFICES ASSUME NEW i \in 1..Len(waitingReqs),
                    \A k \in DOMAIN waitingReqs' : waitingReqs'[k] # waitingReqs[i]
             PROVE  waitingReqs[i] \in answeredReqs'
  BY <1>1
<1>2. CASE \E r \in Requests : Queue!Submit(r)
  <2>1. PICK r \in Requests : waitingReqs' = Append(waitingReqs, r)
    BY <1>2 DEF Queue!Submit, waitingReqs, ReqsOf
  <2>2. i \in DOMAIN waitingReqs' /\ waitingReqs'[i] = waitingReqs[i]
    BY <1>1, <2>1, AppendProperties
  <2> QED
    BY <2>2
<1>3. CASE UNCHANGED waitingReqs
  BY <1>1, <1>3
<1>4. CASE Queue!Finish
  <2>1. /\ waitingReqs # <<>> /\ waitingReqs' = Tail(waitingReqs)
        /\ answeredReqs' = answeredReqs \cup {Head(waitingReqs)}
    BY <1>4 DEF Queue!Finish, waitingReqs, ReqsOf, answeredReqs
  <2>2. CASE i = 1
    BY <2>1, <2>2
  <2>3. CASE i # 1
    <3>1. i - 1 \in 1..Len(Tail(waitingReqs)) /\ Tail(waitingReqs)[i - 1] = waitingReqs[i]
      BY <1>1, <2>1, <2>3, HeadTailProperties
    <3>2. i - 1 \in DOMAIN waitingReqs'
      BY <1>1, <2>1, <3>1, HeadTailProperties, LenProperties
    <3> QED
      BY <2>1, <3>1, <3>2
  <2> QED
    BY <2>2, <2>3
<1>5. CASE \E k \in DOMAIN waitingReqs : Queue!Withdraw(k)
  <2>1. PICK k \in 1..Len(waitingReqs) :
          /\ waitingReqs' = RemoveAt(waitingReqs, k)
          /\ answeredReqs' = answeredReqs \cup {waitingReqs[k]}
    BY <1>1, <1>5 DEF Queue!Withdraw, waitingReqs, ReqsOf, answeredReqs, RemoveAt
  <2>2. /\ waitingReqs' \in Seq(Requests)
        /\ Len(waitingReqs') = Len(waitingReqs) - 1
        /\ \A j \in 1..(Len(waitingReqs) - 1) : waitingReqs'[j] =
              IF j < k THEN waitingReqs[j] ELSE waitingReqs[j + 1]
    <3> DEFINE rest == RemoveAt(waitingReqs, k)
    <3>1. /\ rest \in Seq(Requests)
          /\ Len(rest) = Len(waitingReqs) - 1
          /\ \A j \in 1..(Len(waitingReqs) - 1) : rest[j] =
                IF j < k THEN waitingReqs[j] ELSE waitingReqs[j + 1]
      BY <1>1, RemoveAtFacts
    <3> HIDE DEF rest
    <3> QED
      BY <2>1, <3>1 DEF rest
  <2>3. DOMAIN waitingReqs' = 1..(Len(waitingReqs) - 1)
    BY <2>2, LenProperties
  <2>4. CASE i < k
    BY <1>1, <2>2, <2>3, <2>4
  <2>5. CASE i > k
    <3>1. i - 1 \in 1..(Len(waitingReqs) - 1) /\ ~(i - 1 < k) /\ (i - 1) + 1 = i
      BY <1>1, <2>5
    <3> QED
      BY <2>2, <2>3, <3>1
  <2>6. CASE i = k
    BY <2>1, <2>6
  <2> QED
    BY <1>1, <2>4, <2>5, <2>6
<1>6. Queue!Serve \/ Queue!GiveUp \/ UNCHANGED Queue!vars => UNCHANGED waitingReqs
  BY DEF Queue!Serve, Queue!GiveUp, Queue!vars, waitingReqs, ReqsOf
<1> QED
  BY <1>2, <1>3, <1>4, <1>5, <1>6 DEF Queue!Next, waitingReqs, ReqsOf

\* The session core keeps the promise of RequestQueue: requests are served one at
\* a time and in order, and each leaves with its answer, whether the plugin dies,
\* sends a torn blob, answers when nothing was asked or while its dialog is open.
THEOREM CoreServesTheQueue ==
    ASSUME "late" \notin Env
    PROVE  Spec => ServesTheQueue
<1>1. Init => OverInv /\ Queue!Init
  BY InitOver
<1>2. OverInv /\ [Next]_vars => OverInv' /\ [Queue!Next]_(Queue!vars)
  BY StepOver
<1> QED
  BY <1>1, <1>2, PTL DEF Spec, ServesTheQueue, Queue!Spec

\* requestDone() and takeAt() remove no request that has had no reply: the answer
\* to a canceled request is never taken for one to the request after it.
THEOREM NothingDroppedUnanswered ==
    ASSUME "late" \notin Env
    PROVE  Spec => NoSilentDrop
<1>1. Init => OverInv
  BY InitOver
<1>2. OverInv /\ [Next]_vars => OverInv'
  BY StepOver
<1>3. OverInv /\ OverInv' /\ [Next]_vars =>
         [\A r \in Requests : InQueue(r) /\ ~InQueue(r)' => answer'[r] # "none"]_vars
  <2> SUFFICES ASSUME OverInv, OverInv', [Next]_vars, NEW r \in Requests,
                      InQueue(r) /\ ~InQueue(r)'
               PROVE  answer'[r] # "none"
    OBVIOUS
  <2>1. QueueTyped /\ QueueTyped'
    BY PartsTyped DEF OverInv, TypeOK, QueueTyped, CoreTypeOK, Entries
  <2>2. [Queue!Next]_(Queue!vars)
    BY StepOver
  <2>3. r \in answeredReqs'
    BY <2>1, <2>2, LeavesAnswered
  <2> QED
    BY <2>3 DEF answeredReqs
<1> QED
  BY <1>1, <1>2, <1>3, PTL DEF Spec, NoSilentDrop

-----------------------------------------------------------------------------
(* The next request is started, and only the active one has a dialog.        *)

Posts            == startsAhead + startsBehind
CanceledIsClosed == canceled => watcher.status # "pending"

TurnInv == /\ CanceledIsClosed
           /\ DialogBelongsToActive
           /\ NoStalledQueue

QueueInv == HeadInv /\ TurnInv

LEMMA PostFacts ==
  ASSUME PostedTyped
  PROVE  /\ Posts \in Nat
         /\ PostStart => Posts' = Posts + 1
         /\ PostNothing => Posts' = Posts
         /\ UNCHANGED posted => Posts' = Posts
BY DEF PostedTyped, Posts, PostStart, PostNothing, posted

\* The active request goes on, and no dialog is opened but its own.
LEMMA QuietTurn ==
  ASSUME TurnInv, KeepsHead, UNCHANGED requestIsActive,
         canceled' => canceled \/ watcher'.status # "pending",
         watcher'.status = "pending" =>
            watcher' = watcher \/ (requestIsActive /\ ~canceled /\ watcher'.req = head),
         NoStalledQueue'
  PROVE  TurnInv'
BY DEF TurnInv, KeepsHead, CanceledIsClosed, DialogBelongsToActive

LEMMA SubmitTurn ==
  ASSUME TypeOK, TurnInv, KeepsHead, NEW r \in Requests, processRequest(r)
  PROVE  TurnInv'
<1>1. /\ UNCHANGED <<watcher, requestIsActive, canceled, ready>>
      /\ IF ready THEN PostStart ELSE UNCHANGED posted
  BY DEF processRequest
<1>2. ready => Posts' = Posts + 1 /\ Posts \in Nat
  BY <1>1, PartsTyped, PostFacts DEF TypeOK
<1>3. NoStalledQueue'
  BY <1>1, <1>2 DEF NoStalledQueue, Posts
<1> QED
  BY <1>1, <1>3, QuietTurn

LEMMA CancelTurn ==
  ASSUME TypeOK, HeadInv, TurnInv, KeepsHead, NEW session \in Sessions, cancel(session)
  PROVE  TurnInv'
<1>1. UNCHANGED <<requestIsActive, ready>> /\ PostedTyped
  BY PartsTyped DEF cancel, TypeOK
<1>2. CASE requestIsActive /\ CloseDialog
  BY <1>1, <1>2, QuietTurn DEF CloseDialog, NoWatcher, NoStalledQueue
<1>3. CASE UNCHANGED <<canceled, watcher, posted>>
  <2>1. Posts' = Posts
    BY <1>1, <1>3, PostFacts
  <2>2. listOfRequests # <<>>
    <3>1. PICK i \in DOMAIN listOfRequests : TRUE
      BY DEF cancel
    <3> QED
      BY <3>1
  <2>3. NoStalledQueue'
    BY <1>1, <2>1, <2>2 DEF TurnInv, NoStalledQueue, Posts
  <2> QED
    BY <1>1, <1>3, <2>3, QuietTurn
<1> QED
  BY <1>2, <1>3 DEF cancel

LEMMA StartTurn ==
  ASSUME TypeOK, TurnInv, KeepsHead, startNewRequest
  PROVE  TurnInv'
<1>1. PostedTyped /\ startsAhead > 0
  BY PartsTyped DEF TypeOK, startNewRequest
<1>2. canceled' = FALSE /\ UNCHANGED <<watcher, ready>>
  BY DEF startNewRequest
<1>3. /\ StartLeaves(0) => Posts' = Posts - 1
      /\ StartLeaves(1) => Posts' = Posts
      /\ Posts \in Nat /\ Posts > 0
  BY <1>1 DEF StartLeaves, Posts, PostedTyped
<1>4. CASE /\ ~(listOfRequests # <<>> /\ ~requestIsActive /\ watcher.status # "pending")
           /\ UNCHANGED <<listOfRequests, requestIsActive>>
  <2>1. NoStalledQueue'
    BY <1>2, <1>4 DEF TurnInv, NoStalledQueue, DialogBelongsToActive
  <2> QED
    BY <1>2, <1>4, <2>1, QuietTurn
<1>5. CASE watcher.status # "pending" /\ requestIsActive' = TRUE
  BY <1>2, <1>5 DEF TurnInv, CanceledIsClosed, DialogBelongsToActive, NoStalledQueue
<1>6. CASE watcher.status # "pending" /\ StartLeaves(1)
  <2>1. NoStalledQueue'
    BY <1>3, <1>6 DEF NoStalledQueue, Posts
  <2> QED
    BY <1>2, <1>6, <2>1 DEF TurnInv, CanceledIsClosed, DialogBelongsToActive
<1> QED
  BY <1>4, <1>5, <1>6 DEF startNewRequest, startProcess

LEMMA SilentTurn ==
  ASSUME TurnInv, KeepsHead, SilentCore
  PROVE  TurnInv'
<1>1. UNCHANGED <<listOfRequests, requestIsActive, canceled, watcher, ready, startsAhead,
                  startsBehind>>
  BY DEF SilentCore, coreVars, posted
<1>2. NoStalledQueue'
  BY <1>1 DEF TurnInv, NoStalledQueue
<1> QED
  BY <1>1, <1>2, QuietTurn

\* The slots that end a request post startNewRequest(), and close its dialog.
LEMMA EndingTurn ==
  ASSUME TypeOK, TurnInv, KeepsHead, NEW of, processResultReply(of) \/ processError(of)
  PROVE  TurnInv'
<1>1. CASE listOfRequests = <<>>
  <2>1. UNCHANGED <<listOfRequests, requestIsActive, canceled, watcher, ready, startsAhead,
                    startsBehind>>
    BY <1>1 DEF processResultReply, processError, coreVars, posted
  <2>2. NoStalledQueue'
    BY <2>1 DEF TurnInv, NoStalledQueue
  <2> QED
    BY <2>1, <2>2, QuietTurn
<1>2. CASE listOfRequests # <<>>
  <2>1. /\ requestDone
        /\ UNCHANGED <<canceled, ready>>
        /\ (canceled /\ UNCHANGED watcher) \/ CloseDialog
    BY <1>2 DEF processResultReply, processError
  <2>2. watcher'.status # "pending"
    BY <2>1 DEF TurnInv, CanceledIsClosed, CloseDialog, NoWatcher
  <2>3. Posts \in Nat /\ Posts' = Posts + 1
    BY <2>1, PartsTyped, PostFacts DEF requestDone, TypeOK
  <2>4. startsAhead' + startsBehind' > 0
    BY <2>3 DEF Posts
  <2> QED
    BY <2>2, <2>4 DEF TurnInv, CanceledIsClosed, DialogBelongsToActive, NoStalledQueue
<1> QED
  BY <1>1, <1>2

\* A dialog is opened only for an active request.
LEMMA HandlerTurn ==
  ASSUME TypeOK, ProcInv, TurnInv, KeepsHead,
         handleAnswer \/ handleStore \/ handleUi \/ handleRefreshed
  PROVE  TurnInv'
<1>1. CASE SilentCore
  BY <1>1, SilentTurn
<1>2. CASE handleAnswer
  <2>1. \/ SilentCore
        \/ processResultReply(Received.req)
        \/ processError(Received.req)
    BY <1>2 DEF handleAnswer, Receives, TypeOK, ProxyTypeOK
  <2> QED
    BY <1>1, <2>1, EndingTurn
<1>3. CASE handleStore /\ ~SilentCore
  <2>1. UNCHANGED <<listOfRequests, requestIsActive, canceled, watcher, ready, startsAhead,
                    startsBehind>>
    BY <1>3 DEF handleStore, processStore, posted
  <2>2. NoStalledQueue'
    BY <2>1 DEF TurnInv, NoStalledQueue
  <2> QED
    BY <2>1, <2>2, QuietTurn
<1>4. CASE (handleUi \/ handleRefreshed) /\ ~SilentCore
  <2>1. ~isResultObtained /\ openDialog(Received.req)
    BY <1>4 DEF handleUi, handleRefreshed
  <2>2. /\ ~canceled /\ watcher' = [status |-> "pending", req |-> head]
        /\ UNCHANGED <<requestIsActive, canceled>>
    BY <1>4, <2>1 DEF openDialog, SilentCore
  <2>3. requestIsActive
    BY <1>4, <2>1, <2>2, HandlersServe DEF TypeOK
  <2>4. NoStalledQueue'
    BY <2>2, <2>3 DEF NoStalledQueue
  <2>5. watcher'.req = head
    BY <2>2
  <2> QED
    BY <2>2, <2>3, <2>4, <2>5, QuietTurn
<1> QED
  BY <1>1, <1>2, <1>3, <1>4

LEMMA QueryUiSlotTurn ==
  ASSUME TypeOK, TurnInv, KeepsHead, queryUiSlot
  PROVE  TurnInv'
<1>1. /\ watcher' = NoWatcher /\ PostNothing
      /\ UNCHANGED <<requestIsActive, canceled, ready>>
  BY DEF queryUiSlot
<1>2. Posts' = Posts
  BY <1>1, PartsTyped, PostFacts DEF TypeOK
<1>3. listOfRequests' # <<>> => listOfRequests # <<>>
  BY DEF queryUiSlot
<1>4. NoStalledQueue'
  BY <1>1, <1>2, <1>3 DEF TurnInv, NoStalledQueue, Posts
<1>5. watcher'.status # "pending"
  BY <1>1 DEF NoWatcher
<1> QED
  BY <1>1, <1>4, <1>5, QuietTurn

\* The dialog is answered, the key managers have reported.
LEMMA NewsTurn ==
  ASSUME TypeOK, TurnInv, KeepsHead, uiReplies \/ credentialsSystemReady
  PROVE  TurnInv'
<1>1. UNCHANGED <<listOfRequests, requestIsActive, canceled>>
  BY DEF uiReplies, credentialsSystemReady
<1>2. PostedTyped /\ watcher \in Watchers
  BY PartsTyped DEF TypeOK
<1>3. NoStalledQueue'
  <2>1. CASE uiReplies
    BY <1>1, <2>1 DEF uiReplies, posted, TurnInv, NoStalledQueue
  <2>2. CASE credentialsSystemReady
    <3>1. Posts' = Posts + 1 /\ Posts \in Nat
      BY <1>2, <2>2, PostFacts DEF credentialsSystemReady
    <3> QED
      BY <3>1 DEF NoStalledQueue, Posts
  <2> QED
    BY <2>1, <2>2
<1>4. watcher' = watcher \/ watcher'.status # "pending"
  <2>1. CASE uiReplies
    <3>1. watcher \in [status : {"pending", "finished"}, req : Requests]
      BY <1>2, <2>1 DEF uiReplies, Watchers, NoWatcher
    <3> QED
      BY <2>1, <3>1 DEF uiReplies
  <2>2. CASE credentialsSystemReady
    BY <2>2 DEF credentialsSystemReady
  <2> QED
    BY <2>1, <2>2
<1> QED
  BY <1>1, <1>3, <1>4, QuietTurn

-----------------------------------------------------------------------------
(* The theorems of a plugin whose answers are whole and asked for. *)

ServingInv == TypeOK /\ ProcInv /\ QueueInv

LEMMA InitServing == Init => ServingInv
<1> SUFFICES ASSUME Init PROVE ServingInv
  OBVIOUS
<1>1. TypeOK /\ HeadInv
  BY InitOver DEF OverInv
<1>2. /\ task = NoRequest /\ writeBuffer = <<>> /\ toPlugin = <<>> /\ fromPlugin = <<>>
      /\ listOfRequests = <<>> /\ requestIsActive = FALSE /\ canceled = FALSE
      /\ watcher = NoWatcher
  BY DEF Init, ProxyInit
<1>3. ProcInv
  BY <1>2 DEF ProcInv, EndIsLast, BusyServes, Busy, OpsIn, RespsIn
<1>4. TurnInv
  BY <1>2 DEF TurnInv, CanceledIsClosed, DialogBelongsToActive, NoStalledQueue, NoWatcher
<1> QED
  BY <1>1, <1>3, <1>4 DEF ServingInv, QueueInv

LEMMA StepServing ==
  ASSUME WholeAnswers, ServingInv, [Next]_vars
  PROVE  ServingInv'
<1>1. TypeOK /\ TypeOK' /\ ProcInv /\ ProcInv' /\ HeadInv /\ TurnInv
  BY StepTyped, ProcStep DEF ServingInv, QueueInv
<1>2. HeadInv' /\ KeepsHead
  BY <1>1, HeadStep
<1> SUFFICES TurnInv'
  BY <1>1, <1>2 DEF ServingInv, QueueInv
<1>3. CASE SilentCore
  BY <1>1, <1>2, <1>3, SilentTurn
<1>4. ASSUME NEW r \in Requests, processRequest(r) PROVE TurnInv'
  BY <1>1, <1>2, <1>4, SubmitTurn
<1>5. ASSUME NEW session \in Sessions, cancel(session) PROVE TurnInv'
  BY <1>1, <1>2, <1>5, CancelTurn
<1>6. CASE startNewRequest
  BY <1>1, <1>2, <1>6, StartTurn
<1>7. CASE queryUiSlot
  BY <1>1, <1>2, <1>7, QueryUiSlotTurn
<1>8. CASE handleAnswer \/ handleStore \/ handleUi \/ handleRefreshed
  BY <1>1, <1>2, <1>8, HandlerTurn
<1>9. CASE onExit
  BY <1>1, <1>2, <1>3, <1>9, EndingTurn DEF onExit
<1>10. CASE blobIOError
  BY <1>10 DEF blobIOError, WholeAnswers
<1>11. CASE uiReplies \/ credentialsSystemReady
  BY <1>1, <1>2, <1>11, NewsTurn
<1>12. CASE pollAndFlush \/ PluginProcessStep \/ UNCHANGED vars
  BY <1>3, <1>12 DEF pollAndFlush, PluginProcessStep, vars, SilentCore
<1> QED
  BY <1>4, <1>5, <1>6, <1>7, <1>8, <1>9, <1>10, <1>11, <1>12 DEF Next, ClientStep, LoopStep

\* No lost wakeup: while requests wait and none is active, startNewRequest() is
\* on its way, whatever dies, fails or is canceled meanwhile.
THEOREM QueueNeverStalls ==
    ASSUME WholeAnswers
    PROVE  Spec => []NoStalledQueue
<1>1. Init => ServingInv
  BY InitServing
<1>2. ServingInv /\ [Next]_vars => ServingInv'
  BY StepServing
<1>3. ServingInv => NoStalledQueue
  BY DEF ServingInv, QueueInv, TurnInv
<1> QED
  BY <1>1, <1>2, <1>3, PTL DEF Spec

\* The dialog that is open is the active request's: the slots that end a request
\* close it, and what opens one finds its request still active.
THEOREM DialogIsActive ==
    ASSUME WholeAnswers
    PROVE  Spec => []DialogBelongsToActive
<1>1. Init => ServingInv
  BY InitServing
<1>2. ServingInv /\ [Next]_vars => ServingInv'
  BY StepServing
<1>3. ServingInv => DialogBelongsToActive
  BY DEF ServingInv, QueueInv, TurnInv
<1> QED
  BY <1>1, <1>2, <1>3, PTL DEF Spec

-----------------------------------------------------------------------------
(* Whose answers a request gets *)

Steady == Env \cap {"crash", "torn", "unasked", "idle"} = {}

-----------------------------------------------------------------------------
(* The stages of a request. *)

\* All that was written to the plugin and not read by it, in order.
Down == toPlugin \o writeBuffer

Finals  == {"result", "error"}
Dialogs == {"ui", "refreshed"}
Continuations == {"processUi", "refresh"}

NoStart(s) == \A i \in 1..Len(s) : s[i].op # "process"
AllOf(s, r) == \A i \in 1..Len(s) : s[i].req = r

\* The plugin rests, has said nothing, and no dialog is open or answered.
AtRest == task = NoRequest /\ Len(fromPlugin) = 0 /\ watcher = NoWatcher

\* What is written ahead of the request is stale, and the plugin ignores it.
Waits ==
    /\ AtRest
    /\ \E i \in 1..Len(Down) :
          /\ Down[i].op = "process" /\ Down[i].req = head
          /\ canceled \/ i = Len(Down)
          /\ \A j \in 1..Len(Down) : Down[j].op = "process" => j = i
          /\ \A j \in i+1..Len(Down) : Down[j].req = head

\* Its dialog has been asked for, is open or answered, or the plugin has yet to
\* read what it returned: no two of these, unless the request is canceled.
DialogInv ==
    /\ watcher # NoWatcher => /\ watcher.req = head
                              /\ awaitingUi
                              /\ Len(fromPlugin) = 0
                              /\ Len(toPlugin) = 0
    /\ canceled \/
       /\ \A i \in 1..Len(fromPlugin) : fromPlugin[i].resp \in Dialogs =>
             i = Len(fromPlugin) /\ awaitingUi /\ Len(Down) = 0
       /\ Len(Down) > 0 => /\ Len(Down) = 1
                           /\ Down[1].op \in Continuations
                           /\ awaitingUi
                           /\ Len(fromPlugin) = 0
                           /\ watcher = NoWatcher

Works ==
    /\ task = head
    /\ NoStart(Down) /\ AllOf(Down, head) /\ AllOf(fromPlugin, head)
    /\ \A i \in 1..Len(fromPlugin) : fromPlugin[i].resp \notin Finals
    /\ DialogInv

Answered ==
    /\ task = NoRequest /\ watcher = NoWatcher
    /\ NoStart(Down) /\ AllOf(fromPlugin, head)
    /\ Len(fromPlugin) > 0
    /\ \A i \in 1..Len(fromPlugin) : fromPlugin[i].resp \in Finals <=> i = Len(fromPlugin)
    /\ canceled \/ \A i \in 1..Len(fromPlugin) : fromPlugin[i].resp \notin Dialogs

StageInv ==
    IF requestIsActive THEN ~isResultObtained /\ (Waits \/ Works \/ Answered)
                       ELSE AtRest /\ NoStart(Down)

RunningInv ==
    /\ procState = "Running"
    /\ \A i \in 1..Len(Down) : Down[i].op # "stop"
    /\ \A i \in 1..Len(fromPlugin) : fromPlugin[i].resp \notin Ends

PipesInv == StageInv /\ RunningInv

\* Whose credentials m_params and m_tmpUsername hold, and what was told.
CredsInv ==
    /\ \A i \in 1..Len(listOfRequests) :
          /\ listOfRequests[i].creds \in {NoRequest, listOfRequests[i].req}
          /\ \/ answer[listOfRequests[i].req] = "none"
             \/ i = 1 /\ requestIsActive /\ canceled
    /\ requestIsActive => tmpCreds \in {NoRequest, head}
    /\ \A p \in writes : p[1] = p[2] /\ answer[p[1]] \notin {"none", "canceled"}
    /\ \A p \in results : p[1] = p[2]

Clean == PipesInv /\ CredsInv /\ ~aborted

ReachInv == ServingInv /\ AnswersInv /\ (cancelForgotten \/ Clean)

-----------------------------------------------------------------------------
(* What is written, and what is said. *)

LEMMA DownFacts ==
  ASSUME ProxyTypeOK
  PROVE  /\ writeBuffer \in Seq(Ops) /\ toPlugin \in Seq(Ops) /\ Down \in Seq(Ops)
         /\ Len(Down) \in Nat /\ Len(toPlugin) \in Nat /\ Len(writeBuffer) \in Nat
         /\ Len(Down) = Len(toPlugin) + Len(writeBuffer)
         /\ \A i \in 1..Len(Down) : Down[i] =
               IF i <= Len(toPlugin) THEN toPlugin[i] ELSE writeBuffer[i - Len(toPlugin)]
<1>1. writeBuffer \in Seq(Ops) /\ toPlugin \in Seq(Ops)
  BY DEF ProxyTypeOK, Ops
<1> HIDE DEF Ops
<1>2. Len(toPlugin) \in Nat /\ Len(writeBuffer) \in Nat
  BY <1>1
<1>3. /\ toPlugin \o writeBuffer \in Seq(Ops)
      /\ Len(toPlugin \o writeBuffer) = Len(toPlugin) + Len(writeBuffer)
      /\ \A i \in 1..(Len(toPlugin) + Len(writeBuffer)) : (toPlugin \o writeBuffer)[i] =
            IF i <= Len(toPlugin) THEN toPlugin[i] ELSE writeBuffer[i - Len(toPlugin)]
  BY <1>1, ConcatProperties
<1> QED
  BY <1>1, <1>2, <1>3 DEF Down

\* One operation more.
LEMMA DownWritten ==
  ASSUME ProxyTypeOK, NEW m \in Ops, writeBuffer' = Append(writeBuffer, m),
         UNCHANGED toPlugin
  PROVE  /\ Len(Down) \in Nat /\ Len(Down') = Len(Down) + 1
         /\ Down'[Len(Down) + 1] = m
         /\ \A i \in 1..Len(Down) : Down'[i] = Down[i]
         /\ \A i \in 1..Len(Down') : i \in 1..Len(Down) \/ i = Len(Down) + 1
<1>1. writeBuffer \in Seq(Ops) /\ toPlugin \in Seq(Ops) /\ Down \in Seq(Ops)
      /\ Len(Down) \in Nat
  BY DownFacts
<1> HIDE DEF Ops
<1>2. Down' = toPlugin \o Append(writeBuffer, m)
  BY DEF Down
<1>3. toPlugin \o Append(writeBuffer, m) = Append(toPlugin \o writeBuffer, m)
  BY <1>1
<1>4. Down' = Append(Down, m)
  BY <1>2, <1>3 DEF Down
<1> QED
  BY <1>1, <1>4, AppendProperties

\* The plugin has read one.
LEMMA DownRead ==
  ASSUME ProxyTypeOK, toPlugin # <<>>, toPlugin' = Tail(toPlugin), UNCHANGED writeBuffer
  PROVE  /\ Len(Down) \in Nat /\ Len(Down) > 0 /\ Len(toPlugin) > 0
         /\ Down[1] = Head(toPlugin) /\ Head(toPlugin) \in Ops
         /\ Len(Down') = Len(Down) - 1
         /\ \A i \in 1..Len(Down') : i + 1 \in 1..Len(Down) /\ Down'[i] = Down[i + 1]
<1>1. writeBuffer \in Seq(Ops) /\ toPlugin \in Seq(Ops) /\ Down \in Seq(Ops)
      /\ Len(Down) \in Nat /\ Len(Down) = Len(toPlugin) + Len(writeBuffer)
      /\ Len(toPlugin) \in Nat /\ Len(writeBuffer) \in Nat
      /\ \A i \in 1..Len(Down) : Down[i] =
            IF i <= Len(toPlugin) THEN toPlugin[i] ELSE writeBuffer[i - Len(toPlugin)]
  BY DownFacts
<1> HIDE DEF Ops
<1>2. /\ Len(toPlugin) > 0 /\ Head(toPlugin) = toPlugin[1] /\ Head(toPlugin) \in Ops
      /\ toPlugin' \in Seq(Ops) /\ Len(toPlugin') = Len(toPlugin) - 1
      /\ \A i \in 1..Len(toPlugin') : toPlugin'[i] = toPlugin[i + 1]
  BY <1>1, EmptySeq, HeadTailProperties
<1>3. /\ Len(toPlugin' \o writeBuffer) = Len(toPlugin') + Len(writeBuffer)
      /\ \A i \in 1..(Len(toPlugin') + Len(writeBuffer)) : (toPlugin' \o writeBuffer)[i] =
            IF i <= Len(toPlugin') THEN toPlugin'[i] ELSE writeBuffer[i - Len(toPlugin')]
  BY <1>1, <1>2, ConcatProperties
<1>4. Down' = toPlugin' \o writeBuffer
  BY DEF Down
<1>5. Len(Down') = Len(Down) - 1
  BY <1>1, <1>2, <1>3, <1>4
<1>6. ASSUME NEW i \in 1..Len(Down')
      PROVE  i + 1 \in 1..Len(Down) /\ Down'[i] = Down[i + 1]
  <2>1. i + 1 \in 1..Len(Down) /\ i \in 1..(Len(toPlugin') + Len(writeBuffer))
    BY <1>1, <1>2, <1>5
  <2>2. CASE i <= Len(toPlugin')
    <3>1. Down'[i] = toPlugin'[i] /\ i \in 1..Len(toPlugin')
      BY <1>3, <1>4, <2>1, <2>2
    <3>2. i + 1 <= Len(toPlugin)
      BY <1>1, <1>2, <2>2
    <3> QED
      BY <1>1, <1>2, <2>1, <3>1, <3>2
  <2>3. CASE ~(i <= Len(toPlugin'))
    <3>1. Down'[i] = writeBuffer[i - Len(toPlugin')]
      BY <1>3, <1>4, <2>1, <2>3
    <3>2. ~(i + 1 <= Len(toPlugin)) /\ i - Len(toPlugin') = (i + 1) - Len(toPlugin)
      BY <1>1, <1>2, <2>3
    <3> QED
      BY <1>1, <2>1, <3>1, <3>2
  <2> QED
    BY <2>2, <2>3
<1>7. Down[1] = toPlugin[1]
  BY <1>1, <1>2
<1> QED
  BY <1>1, <1>2, <1>5, <1>6, <1>7

LEMMA DownFlushed ==
  ASSUME ProxyTypeOK, flushWrites
  PROVE  Down' = Down /\ Len(writeBuffer) > 0
<1>1. writeBuffer \in Seq(Ops) /\ toPlugin \in Seq(Ops)
  BY DownFacts
<1> HIDE DEF Ops
<1>2. toPlugin' = toPlugin \o writeBuffer /\ writeBuffer' = <<>> /\ writeBuffer # <<>>
  BY DEF flushWrites
<1>3. toPlugin \o writeBuffer \in Seq(Ops)
  BY <1>1, ConcatProperties
<1>4. (toPlugin \o writeBuffer) \o <<>> = toPlugin \o writeBuffer
  BY <1>3, ConcatEmptySeq
<1> QED
  BY <1>1, <1>2, <1>4, EmptySeq DEF Down

\* The plugin has said one thing more, or the proxy has read one.
LEMMA SaidMore ==
  ASSUME ProxyTypeOK, NEW response \in Responses, NEW r \in MaybeRequest,
         Emits(response, r)
  PROVE  LET n == Len(fromPlugin) IN
         /\ n \in Nat /\ Len(fromPlugin') = n + 1
         /\ fromPlugin'[n + 1].resp = response /\ fromPlugin'[n + 1].req = r
         /\ \A i \in 1..n : fromPlugin'[i] = fromPlugin[i]
         /\ \A i \in 1..Len(fromPlugin') : i \in 1..n \/ i = n + 1
<1>1. fromPlugin \in Seq(Msgs) /\ [resp |-> response, req |-> r] \in Msgs
  BY DEF ProxyTypeOK, Msgs
<1> HIDE DEF Msgs
<1>2. fromPlugin' = Append(fromPlugin, [resp |-> response, req |-> r])
  BY DEF Emits
<1>3. /\ Len(fromPlugin) \in Nat /\ Len(fromPlugin') = Len(fromPlugin) + 1
      /\ fromPlugin'[Len(fromPlugin) + 1] = [resp |-> response, req |-> r]
      /\ \A i \in 1..Len(fromPlugin) : fromPlugin'[i] = fromPlugin[i]
  BY <1>1, <1>2, AppendProperties, LenProperties
<1> QED
  BY <1>3

LEMMA SaidRead ==
  ASSUME ProxyTypeOK, NEW kinds, Receives(kinds)
  PROVE  /\ Len(fromPlugin) \in Nat /\ Len(fromPlugin) > 0
         /\ Received = fromPlugin[1] /\ fromPlugin[1].resp \in kinds
         /\ Len(fromPlugin') = Len(fromPlugin) - 1
         /\ \A i \in 1..Len(fromPlugin') :
               i + 1 \in 1..Len(fromPlugin) /\ fromPlugin'[i] = fromPlugin[i + 1]
<1>1. fromPlugin # <<>> /\ fromPlugin' = Tail(fromPlugin)
  BY DEF Receives
<1>2. fromPlugin \in Seq(Msgs)
  BY DEF ProxyTypeOK, Msgs
<1> HIDE DEF Msgs
<1>3. /\ Len(fromPlugin) \in Nat /\ Len(fromPlugin) > 0
      /\ Len(fromPlugin') = Len(fromPlugin) - 1
      /\ \A i \in 1..Len(fromPlugin') : fromPlugin'[i] = fromPlugin[i + 1]
  BY <1>1, <1>2, EmptySeq, HeadTailProperties
<1>4. Received = fromPlugin[1]
  BY DEF Received
<1> QED
  BY <1>3, <1>4 DEF Receives

LEMMA ActiveHead ==
  ASSUME TypeOK, QueueInv, requestIsActive
  PROVE  listOfRequests # <<>> /\ head \in Requests /\ head # NoRequest
         /\ head \in MaybeRequest
<1>1. listOfRequests # <<>> /\ QueueTyped
  BY PartsTyped DEF QueueInv, HeadInv, ActiveIsFirst, TypeOK
<1> QED
  BY <1>1, HeadTyped, ProxyAssumption, MaybeRequestFacts

LEMMA SteadyFacts ==
  ASSUME Steady
  PROVE  /\ "crash" \notin Env /\ "torn" \notin Env
         /\ "unasked" \notin Env /\ "idle" \notin Env
BY DEF Steady

\* The entries of the queue when the first gets new credentials or leaves.
LEMMA HeadCredsSet ==
  ASSUME QueueTyped, listOfRequests # <<>>, NEW c,
         listOfRequests' = [listOfRequests EXCEPT ![1].creds = c]
  PROVE  /\ Len(listOfRequests) \in Nat /\ Len(listOfRequests') = Len(listOfRequests)
         /\ head' = head /\ 1 \in 1..Len(listOfRequests)
         /\ \A i \in 1..Len(listOfRequests) :
               /\ listOfRequests'[i].req = listOfRequests[i].req
               /\ listOfRequests'[i].creds = IF i = 1 THEN c ELSE listOfRequests[i].creds
<1>1. /\ Len(listOfRequests) \in Nat \ {0}
      /\ DOMAIN listOfRequests = 1..Len(listOfRequests)
  BY EmptySeq, LenProperties DEF QueueTyped
<1>2. DOMAIN listOfRequests' = 1..Len(listOfRequests)
  BY <1>1
<1>3. ASSUME NEW i \in 1..Len(listOfRequests)
      PROVE  /\ listOfRequests'[i].req = listOfRequests[i].req
             /\ listOfRequests'[i].creds = IF i = 1 THEN c ELSE listOfRequests[i].creds
  <2>1. listOfRequests[i] \in Entries
    BY <1>1, EntryTyped
  <2> QED
    BY <1>1, <2>1 DEF Entries
<1>4. Len(listOfRequests') = Len(listOfRequests)
  BY <1>1, <1>2
<1>5. 1 \in 1..Len(listOfRequests)
  BY <1>1
<1>6. head' = head
  <2>1. listOfRequests'[1].req = listOfRequests[1].req
    BY <1>3, <1>5
  <2>2. \A q : Head(q) = q[1]
    OBVIOUS
  <2> QED
    BY <2>1, <2>2 DEF head
<1> QED
  BY <1>1, <1>3, <1>4, <1>5, <1>6

LEMMA QueueTail ==
  ASSUME QueueTyped, Distinct, listOfRequests # <<>>,
         listOfRequests' = Tail(listOfRequests)
  PROVE  /\ Len(listOfRequests) \in Nat /\ 1 \in 1..Len(listOfRequests)
         /\ \A i \in 1..Len(listOfRequests') :
               /\ i + 1 \in 1..Len(listOfRequests) /\ i + 1 # 1
               /\ listOfRequests'[i] = listOfRequests[i + 1]
               /\ listOfRequests'[i].req # head /\ listOfRequests'[i].req \in Requests
<1>1. /\ Len(listOfRequests) \in Nat \ {0}
      /\ DOMAIN listOfRequests = 1..Len(listOfRequests)
  BY EmptySeq, LenProperties DEF QueueTyped
<1>2. /\ Len(listOfRequests') = Len(listOfRequests) - 1
      /\ \A i \in 1..Len(listOfRequests') : listOfRequests'[i] = listOfRequests[i + 1]
  BY HeadTailProperties DEF QueueTyped
<1>3. 1 \in 1..Len(listOfRequests) /\ head = listOfRequests[1].req
  BY <1>1 DEF head
<1>4. ASSUME NEW i \in 1..Len(listOfRequests')
      PROVE  /\ i + 1 \in 1..Len(listOfRequests) /\ i + 1 # 1
             /\ listOfRequests'[i] = listOfRequests[i + 1]
             /\ listOfRequests'[i].req # head /\ listOfRequests'[i].req \in Requests
  <2>1. i + 1 \in 1..Len(listOfRequests) /\ i + 1 # 1
    BY <1>1, <1>2
  <2>2. listOfRequests[i + 1].req \in Requests
    BY <1>1, <2>1, EntryTyped
  <2>3. listOfRequests[i + 1].req # listOfRequests[1].req
    BY <1>1, <1>3, <2>1 DEF Distinct
  <2> QED
    BY <1>2, <1>3, <2>1, <2>2, <2>3
<1> QED
  BY <1>1, <1>3, <1>4

-----------------------------------------------------------------------------
(* The stages are kept: clients, the queue and the dialog. *)

\* Nothing the stages are about moves.
LEMMA StillPipes ==
  ASSUME PipesInv, UNCHANGED <<proxyVars, requestIsActive, watcher>>,
         requestIsActive => head' = head /\ UNCHANGED canceled
  PROVE  PipesInv'
<1>1. Down' = Down /\ UNCHANGED <<fromPlugin, toPlugin, task, awaitingUi,
                                 isResultObtained, procState>>
  BY DEF Down, proxyVars, proxyFlags, process
<1>2. RunningInv'
  BY <1>1 DEF PipesInv, RunningInv
<1>3. AtRest' <=> AtRest
  BY <1>1 DEF AtRest
<1>4. CASE ~requestIsActive
  BY <1>1, <1>2, <1>3, <1>4 DEF PipesInv, StageInv, NoStart
<1>5. CASE requestIsActive
  <2>1. head' = head /\ canceled' = canceled
    BY <1>5
  <2>2. Waits => Waits'
    BY <1>1, <1>3, <2>1 DEF Waits
  <2>3. Works => Works'
    BY <1>1, <2>1 DEF Works, NoStart, AllOf, DialogInv
  <2>4. Answered => Answered'
    BY <1>1, <2>1 DEF Answered, NoStart, AllOf
  <2> QED
    BY <1>1, <1>2, <1>5, <2>2, <2>3, <2>4 DEF PipesInv, StageInv
<1> QED
  BY <1>4, <1>5

\* The active request is canceled: the plugin is told, its dialog is closed.
LEMMA CancelPipes ==
  ASSUME TypeOK, QueueInv, PipesInv, requestIsActive, canceled' = TRUE,
         writeBuffer' = WrittenIfRunning("cancel", head), CloseDialog,
         UNCHANGED <<toPlugin, fromPlugin, task, awaitingUi, isResultObtained,
                     procState, requestIsActive, listOfRequests>>
  PROVE  PipesInv'
<1> DEFINE m == [op |-> "cancel", req |-> head]
<1>1. m \in Ops /\ m.op = "cancel" /\ m.req = head
  BY ActiveHead DEF Ops, Operations
<1>2. writeBuffer' = Append(writeBuffer, m)
  BY DEF PipesInv, RunningInv, WrittenIfRunning, Written
<1>3. ProxyTypeOK /\ head' = head
  BY DEF TypeOK, head
<1> HIDE DEF m
<1>4. /\ Len(Down) \in Nat /\ Len(Down') = Len(Down) + 1
      /\ Down'[Len(Down) + 1] = m
      /\ \A i \in 1..Len(Down) : Down'[i] = Down[i]
      /\ \A i \in 1..Len(Down') : i \in 1..Len(Down) \/ i = Len(Down) + 1
  BY <1>1, <1>2, <1>3, DownWritten
<1>5. RunningInv'
  BY <1>1, <1>4 DEF PipesInv, RunningInv
<1>6. NoStart(Down) => NoStart(Down')
  BY <1>1, <1>4 DEF NoStart
<1>7. watcher = NoWatcher => watcher' = NoWatcher
  BY DEF CloseDialog
<1>8. CASE Waits
  <2>1. PICK i \in 1..Len(Down) :
          /\ Down[i].op = "process" /\ Down[i].req = head
          /\ \A j \in 1..Len(Down) : Down[j].op = "process" => j = i
          /\ \A j \in i+1..Len(Down) : Down[j].req = head
    BY <1>8 DEF Waits
  <2>2. i \in 1..Len(Down') /\ Down'[i].op = "process" /\ Down'[i].req = head'
    BY <1>3, <1>4, <2>1
  <2>3. \A j \in 1..Len(Down') : Down'[j].op = "process" => j = i
    BY <1>1, <1>4, <2>1
  <2>4. \A j \in i+1..Len(Down') : Down'[j].req = head'
    <3>1. \A j \in i+1..Len(Down') : j \in i+1..Len(Down) \/ j = Len(Down) + 1
      BY <1>4, <2>1
    <3> QED
      BY <1>1, <1>3, <1>4, <2>1, <3>1
  <2>5. AtRest'
    BY <1>7, <1>8 DEF Waits, AtRest
  <2>6. Waits'
    BY <2>2, <2>3, <2>4, <2>5 DEF Waits
  <2> QED
    BY <1>5, <2>6 DEF PipesInv, StageInv
<1>9. CASE Works
  <2>1. AllOf(Down', head')
    BY <1>1, <1>3, <1>4, <1>9 DEF Works, AllOf
  <2>2. watcher' # NoWatcher => watcher' = watcher
    BY DEF CloseDialog
  <2>3. DialogInv'
    BY <1>3, <1>9, <2>2 DEF Works, DialogInv
  <2>4. Works'
    BY <1>3, <1>6, <1>9, <2>1, <2>3 DEF Works, AllOf
  <2> QED
    BY <1>5, <2>4 DEF PipesInv, StageInv
<1>10. CASE Answered
  <2>1. Answered'
    BY <1>3, <1>6, <1>7, <1>10 DEF Answered, AllOf
  <2> QED
    BY <1>5, <2>1 DEF PipesInv, StageInv
<1> QED
  BY <1>8, <1>9, <1>10 DEF PipesInv, StageInv

\* The first request is sent to the plugin, which rests.
LEMMA StartPipes ==
  ASSUME TypeOK, PipesInv, ~requestIsActive, listOfRequests # <<>>, startProcess,
         canceled' = FALSE, UNCHANGED watcher
  PROVE  PipesInv'
<1>1. ProxyTypeOK /\ QueueTyped
  BY PartsTyped DEF TypeOK
<1>2. head \in Requests
  BY <1>1, HeadTyped
<1>3. PICK ok \in BOOLEAN :
        /\ proxyProcess(head, ok)
        /\ \/ ok /\ requestIsActive' = TRUE /\ UNCHANGED listOfRequests
           \/ ~ok
  BY DEF startProcess
<1>4. ok /\ procState' = "Running"
  BY <1>3 DEF proxyProcess, restartIfRequired, PipesInv, RunningInv
<1> DEFINE m == [op |-> "process", req |-> head]
<1>5. m \in Ops /\ m.op = "process" /\ m.req = head
  BY <1>2, MaybeRequestFacts DEF Ops, Operations
<1>6. /\ writeBuffer' = Append(writeBuffer, m)
      /\ isResultObtained' = FALSE
      /\ UNCHANGED <<toPlugin, fromPlugin, task>>
  BY <1>3, <1>4 DEF proxyProcess, Written, process
<1>7. requestIsActive' = TRUE /\ head' = head
  BY <1>3, <1>4 DEF head
<1> HIDE DEF m
<1>8. /\ Len(Down) \in Nat /\ Len(Down') = Len(Down) + 1
      /\ Down'[Len(Down) + 1] = m
      /\ \A i \in 1..Len(Down) : Down'[i] = Down[i]
      /\ \A i \in 1..Len(Down') : i \in 1..Len(Down) \/ i = Len(Down) + 1
  BY <1>1, <1>5, <1>6, DownWritten
<1>9. RunningInv'
  BY <1>4, <1>5, <1>6, <1>8 DEF PipesInv, RunningInv
<1>10. AtRest' /\ NoStart(Down)
  BY <1>6 DEF PipesInv, StageInv, AtRest
<1>11. Len(Down') \in 1..Len(Down') /\ Down'[Len(Down')] = m
  BY <1>8
<1>12. \A j \in 1..Len(Down') : Down'[j].op = "process" => j = Len(Down')
  BY <1>8, <1>10 DEF NoStart
<1>13. \A j \in (Len(Down') + 1)..Len(Down') : Down'[j].req = head'
  BY <1>8
<1>14. Waits'
  BY <1>5, <1>7, <1>10, <1>11, <1>12, <1>13 DEF Waits
<1> QED
  BY <1>6, <1>7, <1>9, <1>14 DEF PipesInv, StageInv

\* A dialog is open, or answered, only in the middle of a request.
LEMMA WatcherWorks ==
  ASSUME TypeOK, QueueInv, PipesInv, watcher # NoWatcher
  PROVE  requestIsActive /\ Works /\ listOfRequests # <<>> /\ head \in MaybeRequest
<1>1. requestIsActive /\ Works
  BY DEF PipesInv, StageInv, Waits, AtRest, Answered
<1> QED
  BY <1>1, ActiveHead

LEMMA UiRepliesPipes ==
  ASSUME TypeOK, QueueInv, PipesInv, uiReplies
  PROVE  PipesInv'
<1>1. watcher # NoWatcher /\ watcher \in Watchers
  BY PartsTyped DEF TypeOK, uiReplies, NoWatcher
<1>2. watcher' # NoWatcher /\ watcher'.req = watcher.req
  <2>1. watcher \in [status : {"pending", "finished"}, req : Requests]
    BY <1>1 DEF Watchers
  <2>2. watcher' = [watcher EXCEPT !.status = "finished"]
    BY DEF uiReplies
  <2>3. watcher'.status = "finished" /\ watcher'.req = watcher.req
    BY <2>1, <2>2
  <2> QED
    BY <2>3 DEF NoWatcher
<1>3. requestIsActive /\ Works
  BY <1>1, WatcherWorks
<1>4. Down' = Down /\ head' = head
      /\ UNCHANGED <<fromPlugin, toPlugin, task, awaitingUi, isResultObtained,
                     procState, requestIsActive, canceled>>
  BY DEF uiReplies, Down, head, proxyVars, proxyFlags, process
<1>5. RunningInv'
  BY <1>4 DEF PipesInv, RunningInv
<1>6. DialogInv'
  BY <1>1, <1>2, <1>3, <1>4 DEF Works, DialogInv
<1>7. Works'
  BY <1>3, <1>4, <1>6 DEF Works, NoStart, AllOf
<1> QED
  BY <1>3, <1>4, <1>5, <1>7 DEF PipesInv, StageInv

LEMMA FlushPipes ==
  ASSUME TypeOK, QueueInv, PipesInv, pollAndFlush
  PROVE  PipesInv'
<1>1. flushWrites /\ SilentCore /\ watcher.status # "finished" /\ ProxyTypeOK
      /\ watcher \in Watchers
  BY PartsTyped DEF pollAndFlush, TypeOK
<1>2. Down' = Down /\ Len(writeBuffer) > 0
  BY <1>1, DownFlushed
<1>3. UNCHANGED <<fromPlugin, task, awaitingUi, isResultObtained, procState,
                  requestIsActive, canceled, watcher>> /\ head' = head
  BY <1>1 DEF flushWrites, SilentCore, coreVars, proxyFlags, process, head
<1>4. watcher = NoWatcher
  <2>1. SUFFICES ASSUME watcher # NoWatcher PROVE FALSE
    OBVIOUS
  <2>2. Works /\ watcher.status = "pending"
    BY <1>1, <2>1, WatcherWorks DEF Watchers
  <2>3. ~canceled
    BY <2>2 DEF QueueInv, TurnInv, CanceledIsClosed
  <2>4. Len(Down) > 0
    BY <1>1, <1>2, DownFacts
  <2> QED
    BY <2>1, <2>2, <2>3, <2>4 DEF Works, DialogInv
<1>5. RunningInv'
  BY <1>2, <1>3 DEF PipesInv, RunningInv
<1>6. AtRest <=> AtRest'
  BY <1>3 DEF AtRest
<1>7. Waits => Waits'
  BY <1>2, <1>3, <1>6 DEF Waits
<1>8. Works => Works'
  BY <1>2, <1>3, <1>4 DEF Works, NoStart, AllOf, DialogInv
<1>9. Answered => Answered'
  BY <1>2, <1>3 DEF Answered, NoStart, AllOf
<1> QED
  BY <1>2, <1>3, <1>5, <1>6, <1>7, <1>8, <1>9 DEF PipesInv, StageInv, NoStart

-----------------------------------------------------------------------------
(* The stages are kept: the plugin's process. *)

LEMMA StartTaskPipes ==
  ASSUME Steady, TypeOK, QueueInv, PipesInv, startTask, SilentCore
  PROVE  PipesInv'
<1> DEFINE m == Head(toPlugin)
<1>1. ProxyTypeOK /\ "idle" \notin Env
  BY SteadyFacts DEF TypeOK
<1>2. toPlugin # <<>> /\ toPlugin' = Tail(toPlugin)
      /\ UNCHANGED <<writeBuffer, procState, isResultObtained>>
  BY DEF startTask, proxyFlags
<1>3. /\ Len(Down) \in Nat /\ Len(Down) > 0 /\ Len(toPlugin) > 0
      /\ Down[1] = m /\ m \in Ops
      /\ Len(Down') = Len(Down) - 1
      /\ \A i \in 1..Len(Down') : i + 1 \in 1..Len(Down) /\ Down'[i] = Down[i + 1]
  BY <1>1, <1>2, DownRead
<1>4. head' = head /\ UNCHANGED <<requestIsActive, canceled, watcher>>
  BY DEF SilentCore, coreVars, head
<1>5. 1 \in 1..Len(Down) /\ m.op # "stop" /\ m.req \in MaybeRequest
  BY <1>3 DEF PipesInv, RunningInv, Ops
<1>6. \/ /\ m.op = "process"
         /\ task' = m.req /\ awaitingUi' = FALSE /\ UNCHANGED fromPlugin
      \/ /\ m.op \in {"processUi", "refresh"}
         /\ UNCHANGED fromPlugin
         /\ IF task # NoRequest THEN task' = m.req /\ awaitingUi' = FALSE
                                ELSE UNCHANGED task
      \/ /\ m.op = "cancel" /\ task' = NoRequest
         /\ IF task # NoRequest THEN Emits("error", m.req) ELSE UNCHANGED fromPlugin
  BY <1>1, <1>5 DEF startTask, process, Rests
<1> HIDE DEF m
<1>7. /\ \A i \in 1..Len(Down') : Down'[i].op # "stop"
      /\ NoStart(Down) => NoStart(Down')
      /\ \A r : AllOf(Down, r) => AllOf(Down', r)
  BY <1>3 DEF PipesInv, RunningInv, NoStart, AllOf
<1>8. UNCHANGED fromPlugin => RunningInv'
  BY <1>2, <1>7 DEF PipesInv, RunningInv
<1>9. CASE ~requestIsActive
  <2>1. m.op # "process" /\ task = NoRequest
    BY <1>3, <1>5, <1>9 DEF PipesInv, StageInv, NoStart, AtRest
  <2>2. task' = NoRequest /\ UNCHANGED fromPlugin
    BY <1>6, <2>1
  <2> QED
    BY <1>4, <1>7, <1>8, <1>9, <2>2 DEF PipesInv, StageInv, AtRest
<1>10. CASE requestIsActive /\ Waits
  <2>1. PICK i \in 1..Len(Down) :
          /\ Down[i].op = "process" /\ Down[i].req = head
          /\ canceled \/ i = Len(Down)
          /\ \A j \in 1..Len(Down) : Down[j].op = "process" => j = i
          /\ \A j \in i+1..Len(Down) : Down[j].req = head
    BY <1>10 DEF Waits
  <2>2. task = NoRequest /\ Len(fromPlugin) = 0 /\ watcher = NoWatcher
    BY <1>10 DEF Waits, AtRest
  <2>3. CASE i = 1
    <3>1. task' = head /\ UNCHANGED fromPlugin
      BY <1>3, <1>6, <2>1, <2>3
    <3>2. NoStart(Down')
      BY <1>3, <2>1, <2>3 DEF NoStart
    <3>3. AllOf(Down', head')
      <4>1. \A k \in 1..Len(Down') : k + 1 \in i+1..Len(Down)
        BY <1>3, <2>3
      <4> QED
        BY <1>3, <1>4, <2>1, <4>1 DEF AllOf
    <3>4. canceled \/ Len(Down') = 0
      BY <1>3, <2>1, <2>3
    <3>5. Works'
      BY <1>4, <2>2, <3>1, <3>2, <3>3, <3>4 DEF Works, DialogInv, AllOf
    <3> QED
      BY <1>2, <1>4, <1>8, <1>10, <3>1, <3>5 DEF PipesInv, StageInv
  <2>4. CASE i # 1
    <3>1. m.op # "process"
      BY <1>3, <1>5, <2>1, <2>4
    <3>2. task' = NoRequest /\ UNCHANGED fromPlugin
      BY <1>6, <2>2, <3>1
    <3>3. /\ i - 1 \in 1..Len(Down') /\ Down'[i - 1] = Down[i]
          /\ i = Len(Down) => i - 1 = Len(Down')
      BY <1>3, <2>1, <2>4
    <3>4. \A j \in 1..Len(Down') : Down'[j].op = "process" => j = i - 1
      BY <1>3, <2>1
    <3>5. \A j \in (i - 1)+1..Len(Down') : Down'[j].req = head'
      <4>1. \A j \in (i - 1)+1..Len(Down') : j \in 1..Len(Down') /\ j + 1 \in i+1..Len(Down)
        BY <1>3, <2>1
      <4> QED
        BY <1>3, <1>4, <2>1, <4>1
    <3>6. Waits'
      BY <1>4, <2>1, <2>2, <3>2, <3>3, <3>4, <3>5 DEF Waits, AtRest
    <3> QED
      BY <1>2, <1>4, <1>8, <1>10, <3>2, <3>6 DEF PipesInv, StageInv
  <2> QED
    BY <2>3, <2>4
<1>11. CASE requestIsActive /\ Works
  <2>1. m.op # "process" /\ m.req = head /\ task = head /\ head # NoRequest
        /\ head \in MaybeRequest
    BY <1>3, <1>5, <1>11, ActiveHead DEF Works, NoStart, AllOf
  <2>2. watcher = NoWatcher
    BY <1>3, <1>11 DEF Works, DialogInv
  <2>3. NoStart(Down') /\ AllOf(Down', head')
    BY <1>4, <1>7, <1>11 DEF Works
  <2>4. CASE m.op \in {"processUi", "refresh"}
    <3>1. task' = head /\ UNCHANGED fromPlugin
      BY <1>6, <2>1, <2>4
    <3>2. canceled \/ (Len(Down') = 0 /\ Len(fromPlugin) = 0)
      BY <1>3, <1>11 DEF Works, DialogInv
    <3>3. DialogInv'
      BY <1>4, <2>2, <3>1, <3>2 DEF DialogInv
    <3>4. Works'
      BY <1>4, <1>11, <2>3, <3>1, <3>3 DEF Works, AllOf
    <3> QED
      BY <1>2, <1>4, <1>8, <1>11, <3>1, <3>4 DEF PipesInv, StageInv
  <2>5. CASE m.op = "cancel"
    <3>1. canceled
      BY <1>3, <1>11, <2>5 DEF Works, DialogInv, Continuations
    <3>2. task' = NoRequest /\ Emits("error", head)
      BY <1>6, <2>1, <2>5
    <3>3. /\ Len(fromPlugin) \in Nat /\ Len(fromPlugin') = Len(fromPlugin) + 1
          /\ fromPlugin'[Len(fromPlugin) + 1].resp = "error"
          /\ fromPlugin'[Len(fromPlugin) + 1].req = head
          /\ \A i \in 1..Len(fromPlugin) : fromPlugin'[i] = fromPlugin[i]
          /\ \A i \in 1..Len(fromPlugin') :
                i \in 1..Len(fromPlugin) \/ i = Len(fromPlugin) + 1
      BY <1>1, <2>1, <3>2, SaidMore DEF Responses
    <3>4. AllOf(fromPlugin', head')
      BY <1>4, <1>11, <3>3 DEF Works, AllOf
    <3>5. \A i \in 1..Len(fromPlugin') :
             fromPlugin'[i].resp \in Finals <=> i = Len(fromPlugin')
      BY <1>11, <3>3 DEF Works, Finals
    <3>6. Answered'
      BY <1>4, <2>2, <2>3, <3>1, <3>2, <3>3, <3>4, <3>5 DEF Answered
    <3>7. RunningInv'
      BY <1>2, <1>7, <3>3 DEF PipesInv, RunningInv, Ends
    <3> QED
      BY <1>2, <1>4, <1>11, <3>6, <3>7 DEF PipesInv, StageInv
  <2> QED
    BY <1>6, <2>1, <2>4, <2>5
<1>12. CASE requestIsActive /\ Answered
  <2>1. m.op # "process" /\ task = NoRequest
    BY <1>3, <1>5, <1>12 DEF Answered, NoStart
  <2>2. task' = NoRequest /\ UNCHANGED fromPlugin
    BY <1>6, <2>1
  <2>3. Answered'
    BY <1>4, <1>7, <1>12, <2>2 DEF Answered, AllOf
  <2> QED
    BY <1>2, <1>4, <1>8, <1>12, <2>2, <2>3 DEF PipesInv, StageInv
<1> QED
  BY <1>9, <1>10, <1>11, <1>12 DEF PipesInv, StageInv

\* The plugin answers, or sends something on the way to its answer.
LEMMA PluginSaysPipes ==
  ASSUME Steady, TypeOK, QueueInv, PipesInv, SilentCore,
         NEW response \in {"result", "error", "store", "ui", "refreshed"},
         \/ response \in {"result", "error"} /\ pluginAnswers(response)
         \/ response \notin {"result", "error"} /\ pluginAsks(response)
  PROVE  PipesInv'
<1>1. ProxyTypeOK /\ "unasked" \notin Env
  BY SteadyFacts DEF TypeOK
<1>2. task # NoRequest /\ ~awaitingUi /\ Emits(response, task)
      /\ UNCHANGED <<isResultObtained, procState, writeBuffer, toPlugin>>
  BY <1>1 DEF pluginAnswers, pluginAsks, proxyFlags
<1>3. Down' = Down /\ head' = head /\ UNCHANGED <<requestIsActive, canceled, watcher>>
  BY <1>2 DEF SilentCore, coreVars, head, Down
<1>4. requestIsActive /\ Works
  BY <1>2 DEF PipesInv, StageInv, Waits, AtRest, Answered
<1>5. task = head /\ head \in MaybeRequest /\ watcher = NoWatcher
  BY <1>2, <1>4, ActiveHead DEF Works, DialogInv
<1>6. /\ Len(fromPlugin) \in Nat /\ Len(fromPlugin') = Len(fromPlugin) + 1
      /\ fromPlugin'[Len(fromPlugin) + 1].resp = response
      /\ fromPlugin'[Len(fromPlugin) + 1].req = head
      /\ \A i \in 1..Len(fromPlugin) : fromPlugin'[i] = fromPlugin[i]
      /\ \A i \in 1..Len(fromPlugin') :
            i \in 1..Len(fromPlugin) \/ i = Len(fromPlugin) + 1
  BY <1>1, <1>2, <1>5, SaidMore DEF Responses, BlobResponses
<1>7. RunningInv'
  BY <1>2, <1>3, <1>6 DEF PipesInv, RunningInv, Ends
<1>8. AllOf(fromPlugin', head') /\ NoStart(Down') /\ AllOf(Down', head')
  BY <1>3, <1>4, <1>6 DEF Works, AllOf
<1>9. canceled \/ (/\ Len(Down) = 0
                  /\ \A i \in 1..Len(fromPlugin) : fromPlugin[i].resp \notin Dialogs)
  <2>1. Len(Down) \in Nat
    BY <1>1, DownFacts
  <2> QED
    BY <1>2, <1>4, <2>1 DEF Works, DialogInv
<1>10. CASE response \in {"result", "error"} /\ pluginAnswers(response)
  <2>1. task' = NoRequest
    BY <1>10 DEF pluginAnswers, Rests
  <2>2. \A i \in 1..Len(fromPlugin') :
           fromPlugin'[i].resp \in Finals <=> i = Len(fromPlugin')
    BY <1>4, <1>6, <1>10 DEF Works, Finals
  <2>3. canceled \/ \A i \in 1..Len(fromPlugin') : fromPlugin'[i].resp \notin Dialogs
    BY <1>6, <1>9, <1>10 DEF Dialogs
  <2>4. Answered'
    BY <1>3, <1>5, <1>6, <1>8, <2>1, <2>2, <2>3 DEF Answered
  <2> QED
    BY <1>2, <1>3, <1>4, <1>7, <2>4 DEF PipesInv, StageInv
<1>11. CASE response \notin {"result", "error"} /\ pluginAsks(response)
  <2>1. task' = task /\ awaitingUi' = (response # "store")
    BY <1>11 DEF pluginAsks
  <2>2. \A i \in 1..Len(fromPlugin') : fromPlugin'[i].resp \notin Finals
    BY <1>4, <1>6, <1>11 DEF Works, Finals
  <2>3. canceled \/ \A i \in 1..Len(fromPlugin') : fromPlugin'[i].resp \in Dialogs =>
           i = Len(fromPlugin') /\ awaitingUi'
    BY <1>6, <1>9, <2>1 DEF Dialogs
  <2>4. DialogInv'
    BY <1>3, <1>5, <1>9, <2>3 DEF DialogInv
  <2>5. Works'
    BY <1>3, <1>5, <1>8, <2>1, <2>2, <2>4 DEF Works
  <2> QED
    BY <1>2, <1>3, <1>4, <1>7, <2>5 DEF PipesInv, StageInv
<1> QED
  BY <1>10, <1>11

LEMMA PluginStepPipes ==
  ASSUME Steady, TypeOK, QueueInv, PipesInv, PluginStep, SilentCore
  PROVE  PipesInv'
<1>1. ~processDies
  BY SteadyFacts DEF processDies
<1> QED
  BY <1>1, StartTaskPipes, PluginSaysPipes DEF PluginStep

-----------------------------------------------------------------------------
(* The stages are kept: what the plugin says is read. *)

LEMMA HandleAnswerPipes ==
  ASSUME TypeOK, QueueInv, PipesInv, handleAnswer
  PROVE  PipesInv' /\ requestIsActive /\ Received.req = head
         /\ (processResultReply(Received.req) \/ processError(Received.req))
<1>1. ProxyTypeOK /\ Receives({"result", "error"})
  BY DEF TypeOK, handleAnswer
<1>2. /\ Len(fromPlugin) \in Nat /\ Len(fromPlugin) > 0
      /\ Received = fromPlugin[1] /\ fromPlugin[1].resp \in {"result", "error"}
      /\ Len(fromPlugin') = Len(fromPlugin) - 1
  BY <1>1, SaidRead
<1>3. requestIsActive /\ Answered /\ ~isResultObtained
  BY <1>2 DEF PipesInv, StageInv, Waits, AtRest, Works, Finals
<1>4. Len(fromPlugin) = 1 /\ Received.req = head
  BY <1>2, <1>3 DEF Answered, Finals, AllOf
<1>5. \/ processResultReply(Received.req)
      \/ processError(Received.req)
  BY <1>1, <1>3 DEF handleAnswer, Receives
<1>6. listOfRequests # <<>>
  BY <1>3, ActiveHead
<1>7. requestIsActive' = FALSE /\ watcher' = NoWatcher
  BY <1>3, <1>5, <1>6 DEF processResultReply, processError, requestDone, CloseDialog,
     Answered, NoWatcher
<1>8. Down' = Down /\ UNCHANGED <<task, procState>>
  BY DEF handleAnswer, process, Down
<1>9. Len(fromPlugin') = 0
  BY <1>2, <1>4
<1>10. AtRest' /\ NoStart(Down')
  BY <1>3, <1>7, <1>8, <1>9 DEF Answered, AtRest, NoStart
<1>11. RunningInv'
  BY <1>8, <1>9 DEF PipesInv, RunningInv
<1> QED
  BY <1>3, <1>4, <1>5, <1>7, <1>10, <1>11 DEF PipesInv, StageInv

\* Reading what is not the answer, with nothing else to change the stage.
LEMMA ReadOnPipes ==
  ASSUME TypeOK, PipesInv, NEW kinds, Receives(kinds), kinds \cap Finals = {},
         requestIsActive, head' = head,
         UNCHANGED <<requestIsActive, canceled, watcher, isResultObtained, procState,
                     writeBuffer, toPlugin, task, awaitingUi>>
  PROVE  PipesInv'
<1>1. ProxyTypeOK
  BY DEF TypeOK
<1>2. /\ Len(fromPlugin) \in Nat /\ Len(fromPlugin) > 0
      /\ Received = fromPlugin[1] /\ fromPlugin[1].resp \in kinds
      /\ Len(fromPlugin') = Len(fromPlugin) - 1
      /\ \A i \in 1..Len(fromPlugin') :
            i + 1 \in 1..Len(fromPlugin) /\ fromPlugin'[i] = fromPlugin[i + 1]
  BY <1>1, SaidRead
<1>3. Down' = Down
  BY DEF Down
<1>4. RunningInv'
  BY <1>2, <1>3 DEF PipesInv, RunningInv
<1>5. AllOf(fromPlugin, head) => AllOf(fromPlugin', head')
  BY <1>2 DEF AllOf
<1>6. CASE Works
  <2>1. DialogInv'
    BY <1>2, <1>3, <1>6 DEF Works, DialogInv
  <2>2. \A i \in 1..Len(fromPlugin') : fromPlugin'[i].resp \notin Finals
    BY <1>2, <1>6 DEF Works
  <2>3. Works'
    BY <1>3, <1>5, <1>6, <2>1, <2>2 DEF Works, AllOf, NoStart
  <2> QED
    BY <1>4, <2>3 DEF PipesInv, StageInv
<1>7. CASE Answered
  <2>1. \A i \in 1..Len(fromPlugin') :
           fromPlugin'[i].resp \in Finals <=> i = Len(fromPlugin')
    BY <1>2, <1>7 DEF Answered
  <2>2. Len(fromPlugin') > 0
    BY <1>2, <1>7 DEF Answered
  <2>3. canceled \/ \A i \in 1..Len(fromPlugin') : fromPlugin'[i].resp \notin Dialogs
    BY <1>2, <1>7 DEF Answered
  <2>4. Answered'
    BY <1>3, <1>5, <1>7, <2>1, <2>2, <2>3 DEF Answered, NoStart
  <2> QED
    BY <1>4, <2>4 DEF PipesInv, StageInv
<1>8. ~Waits
  BY <1>2 DEF Waits, AtRest
<1> QED
  BY <1>6, <1>7, <1>8 DEF PipesInv, StageInv

\* What is read is of the active request, which has no dialog yet.
LEMMA ReadServes ==
  ASSUME TypeOK, QueueInv, PipesInv, NEW kinds, Receives(kinds)
  PROVE  /\ requestIsActive /\ ~isResultObtained /\ listOfRequests # <<>>
         /\ Received.req = head /\ head \in MaybeRequest /\ watcher = NoWatcher
<1>1. /\ Len(fromPlugin) \in Nat /\ Len(fromPlugin) > 0
      /\ Received = fromPlugin[1] /\ 1 \in 1..Len(fromPlugin)
  BY SaidRead DEF TypeOK
<1>2. requestIsActive /\ ~isResultObtained /\ (Works \/ Answered)
  BY <1>1 DEF PipesInv, StageInv, Waits, AtRest
<1>3. Received.req = head /\ watcher = NoWatcher
  BY <1>1, <1>2 DEF Works, DialogInv, Answered, AllOf
<1> QED
  BY <1>2, <1>3, ActiveHead

LEMMA HandleStorePipes ==
  ASSUME TypeOK, QueueInv, PipesInv, handleStore
  PROVE  PipesInv'
<1>1. Receives({"store"}) /\ UNCHANGED <<proxyFlags, procState, writeBuffer, toPlugin, process>>
  BY DEF handleStore
<1>2. requestIsActive /\ ~isResultObtained
  BY <1>1, ReadServes
<1>3. head' = head /\ UNCHANGED <<requestIsActive, canceled, watcher>>
  BY <1>2 DEF handleStore, processStore, head
<1>4. {"store"} \cap Finals = {}
  BY DEF Finals
<1> QED
  BY <1>1, <1>2, <1>3, <1>4, ReadOnPipes DEF proxyFlags, process

\* An operation more, from a running process' proxy.
LEMMA ContinuesRunning ==
  ASSUME TypeOK, PipesInv, NEW operation \in Continuations, NEW r \in MaybeRequest,
         proxyContinue(operation, r)
  PROVE  /\ UNCHANGED <<isResultObtained, procState, toPlugin, task, awaitingUi>>
         /\ LET n == Len(Down) IN
            /\ n \in Nat /\ Len(Down') = n + 1
            /\ Down'[n + 1].op = operation /\ Down'[n + 1].req = r
            /\ \A i \in 1..n : Down'[i] = Down[i]
            /\ \A i \in 1..Len(Down') : i \in 1..n \/ i = n + 1
<1> DEFINE m == [op |-> operation, req |-> r]
<1>1. m \in Ops /\ m.op = operation /\ m.req = r
  BY DEF Ops, Operations, Continuations
<1>2. writeBuffer' = Append(writeBuffer, m) /\ UNCHANGED procState
  BY DEF proxyContinue, restartIfRequired, PipesInv, RunningInv, Written
<1>3. UNCHANGED <<isResultObtained, toPlugin, task, awaitingUi>> /\ ProxyTypeOK
  BY DEF proxyContinue, process, TypeOK
<1> HIDE DEF m
<1>4. /\ Len(Down) \in Nat /\ Len(Down') = Len(Down) + 1
      /\ Down'[Len(Down) + 1] = m
      /\ \A i \in 1..Len(Down) : Down'[i] = Down[i]
      /\ \A i \in 1..Len(Down') : i \in 1..Len(Down) \/ i = Len(Down) + 1
  BY <1>1, <1>2, <1>3, DownWritten
<1> QED
  BY <1>1, <1>2, <1>3, <1>4

\* The dialog is forbidden, and the plugin told so at once.
LEMMA ForbiddenPipes ==
  ASSUME TypeOK, QueueInv, PipesInv, Receives({"ui"}),
         proxyContinue("processUi", Received.req), SilentCore
  PROVE  PipesInv'
<1>1. /\ requestIsActive /\ ~isResultObtained
      /\ Received.req = head /\ head \in MaybeRequest /\ watcher = NoWatcher
  BY ReadServes
<1>2. /\ UNCHANGED <<isResultObtained, procState, toPlugin, task, awaitingUi>>
      /\ Len(Down) \in Nat /\ Len(Down') = Len(Down) + 1
      /\ Down'[Len(Down) + 1].op = "processUi" /\ Down'[Len(Down) + 1].req = head
      /\ \A i \in 1..Len(Down) : Down'[i] = Down[i]
      /\ \A i \in 1..Len(Down') : i \in 1..Len(Down) \/ i = Len(Down) + 1
  BY <1>1, ContinuesRunning DEF Continuations
<1>3. /\ Len(fromPlugin) \in Nat /\ Len(fromPlugin) > 0 /\ fromPlugin[1].resp = "ui"
      /\ Len(fromPlugin') = Len(fromPlugin) - 1
      /\ \A i \in 1..Len(fromPlugin') :
            i + 1 \in 1..Len(fromPlugin) /\ fromPlugin'[i] = fromPlugin[i + 1]
  BY SaidRead DEF TypeOK
<1>4. head' = head /\ UNCHANGED <<requestIsActive, canceled, watcher>>
  BY DEF SilentCore, coreVars, head
<1>5. RunningInv'
  BY <1>2, <1>3 DEF PipesInv, RunningInv
<1>6. /\ NoStart(Down) => NoStart(Down')
      /\ AllOf(Down, head) => AllOf(Down', head')
      /\ AllOf(fromPlugin, head) => AllOf(fromPlugin', head')
  BY <1>2, <1>3, <1>4 DEF NoStart, AllOf
<1>7. ~Waits
  BY <1>3 DEF Waits, AtRest
<1>8. CASE Works
  <2>1. canceled \/ (Len(fromPlugin) = 1 /\ awaitingUi /\ Len(Down) = 0)
    BY <1>3, <1>8 DEF Works, DialogInv, Dialogs
  <2>2. canceled \/ (/\ Len(Down') = 1 /\ Down'[1].op \in Continuations
                    /\ awaitingUi' /\ Len(fromPlugin') = 0)
    BY <1>2, <1>3, <2>1 DEF Continuations
  <2>3. DialogInv'
    BY <1>1, <1>4, <2>2 DEF DialogInv
  <2>4. \A i \in 1..Len(fromPlugin') : fromPlugin'[i].resp \notin Finals
    BY <1>3, <1>8 DEF Works
  <2>5. Works'
    BY <1>2, <1>4, <1>6, <1>8, <2>3, <2>4 DEF Works
  <2> QED
    BY <1>1, <1>2, <1>4, <1>5, <2>5 DEF PipesInv, StageInv
<1>9. CASE Answered
  <2>1. /\ Len(fromPlugin') > 0
        /\ \A i \in 1..Len(fromPlugin') :
              fromPlugin'[i].resp \in Finals <=> i = Len(fromPlugin')
    BY <1>3, <1>9 DEF Answered, Finals
  <2>2. canceled
    BY <1>3, <1>9 DEF Answered, Dialogs
  <2>3. Answered'
    BY <1>2, <1>4, <1>6, <1>9, <2>1, <2>2 DEF Answered
  <2> QED
    BY <1>1, <1>2, <1>4, <1>5, <2>3 DEF PipesInv, StageInv
<1> QED
  BY <1>1, <1>7, <1>8, <1>9 DEF PipesInv, StageInv

\* The dialog is opened, unless the request has been canceled.
LEMMA OpenDialogPipes ==
  ASSUME TypeOK, QueueInv, PipesInv, NEW kinds \in SUBSET Dialogs, Receives(kinds),
         openDialog(Received.req),
         UNCHANGED <<proxyFlags, procState, writeBuffer, toPlugin, process>>
  PROVE  PipesInv'
<1>1. /\ requestIsActive /\ ~isResultObtained /\ listOfRequests # <<>>
      /\ Received.req = head /\ head \in MaybeRequest /\ watcher = NoWatcher
  BY ReadServes
<1>2. UNCHANGED <<isResultObtained, task, awaitingUi, requestIsActive, canceled>>
  BY DEF proxyFlags, process, openDialog, coreVars
<1>3. CASE canceled
  <2>1. UNCHANGED <<watcher, listOfRequests>> /\ head' = head
    BY <1>3 DEF openDialog, coreVars, head
  <2>2. kinds \cap Finals = {}
    BY DEF Dialogs, Finals
  <2> QED
    BY <1>1, <1>2, <2>1, <2>2, ReadOnPipes
<1>4. CASE ~canceled
  <2>1. /\ watcher' = [status |-> "pending", req |-> head]
        /\ listOfRequests' = [listOfRequests EXCEPT ![1].creds = Received.req]
    BY <1>1, <1>4 DEF openDialog
  <2>2. head' = head
    BY <1>1, <2>1, PartsTyped, HeadCredsSet DEF TypeOK
  <2>3. /\ Len(fromPlugin) \in Nat /\ Len(fromPlugin) > 0 /\ fromPlugin[1].resp \in Dialogs
        /\ Len(fromPlugin') = Len(fromPlugin) - 1
    BY SaidRead DEF TypeOK
  <2>4. Works
    BY <1>1, <1>4, <2>3 DEF PipesInv, StageInv, Waits, AtRest, Answered
  <2>5. Len(fromPlugin') = 0 /\ awaitingUi /\ Len(Down) = 0
    BY <1>4, <2>3, <2>4 DEF Works, DialogInv
  <2>6. Down' = Down /\ Len(toPlugin) = 0
    BY <2>5, DownFacts DEF Down, TypeOK
  <2>7. watcher'.req = head'
    BY <2>1, <2>2
  <2>8. DialogInv'
    BY <1>2, <2>5, <2>6, <2>7 DEF DialogInv
  <2>9. Works'
    BY <1>2, <2>2, <2>4, <2>5, <2>6, <2>8 DEF Works, NoStart, AllOf
  <2>10. RunningInv'
    BY <2>5, <2>6 DEF PipesInv, RunningInv
  <2> QED
    BY <1>1, <1>2, <2>9, <2>10 DEF PipesInv, StageInv
<1> QED
  BY <1>3, <1>4

LEMMA HandleDialogPipes ==
  ASSUME TypeOK, QueueInv, PipesInv, handleUi \/ handleRefreshed
  PROVE  PipesInv'
<1>1. CASE handleRefreshed
  <2>1. {"refreshed"} \in SUBSET Dialogs /\ Receives({"refreshed"})
    BY <1>1 DEF Dialogs, handleRefreshed
  <2> QED
    BY <1>1, <2>1, ReadServes, OpenDialogPipes DEF handleRefreshed
<1>2. CASE handleUi
  <2>1. {"ui"} \in SUBSET Dialogs /\ Receives({"ui"})
    BY <1>2 DEF Dialogs, handleUi
  <2>2. ~isResultObtained
    BY <2>1, ReadServes
  <2>3. \/ proxyContinue("processUi", Received.req) /\ SilentCore
        \/ /\ openDialog(Received.req)
           /\ UNCHANGED <<proxyFlags, procState, writeBuffer, toPlugin, process>>
    BY <1>2, <2>2 DEF handleUi
  <2> QED
    BY <2>1, <2>3, ForbiddenPipes, OpenDialogPipes
<1> QED
  BY <1>1, <1>2

\* The answer of a dialog finds its own request first in the queue.
LEMMA QueryUiSlotPipes ==
  ASSUME TypeOK, QueueInv, PipesInv, queryUiSlot
  PROVE  PipesInv' /\ requestIsActive /\ watcher.req = head /\ UNCHANGED aborted
<1>1. watcher # NoWatcher
  BY DEF queryUiSlot, NoWatcher
<1>2. /\ requestIsActive /\ Works /\ listOfRequests # <<>> /\ head \in MaybeRequest
      /\ ~isResultObtained
  BY <1>1, WatcherWorks DEF PipesInv, StageInv
<1>3. watcher.req = head /\ awaitingUi /\ Len(fromPlugin) = 0 /\ Len(toPlugin) = 0
  BY <1>1, <1>2 DEF Works, DialogInv
<1>4. watcher' = NoWatcher /\ UNCHANGED <<aborted, requestIsActive, canceled>>
  BY <1>2 DEF queryUiSlot
<1>5. PICK uiAnswer \in UiAnswers :
        /\ listOfRequests' = [listOfRequests EXCEPT ![1].creds = CredsAfter(uiAnswer)]
        /\ IF canceled
           THEN UNCHANGED <<proxyVars, tmpCreds>>
           ELSE /\ proxyContinue(IF uiAnswer = "refresh" THEN "refresh" ELSE "processUi",
                                 watcher.req)
                /\ UNCHANGED fromPlugin
  BY <1>2 DEF queryUiSlot, useUiAnswer
<1>6. head' = head
  BY <1>2, <1>5, PartsTyped, HeadCredsSet DEF TypeOK
<1>7. CASE canceled
  <2>1. Down' = Down /\ UNCHANGED <<fromPlugin, task, isResultObtained, procState>>
    BY <1>5, <1>7 DEF proxyVars, proxyFlags, process, Down
  <2>2. RunningInv'
    BY <2>1 DEF PipesInv, RunningInv
  <2>3. Works'
    BY <1>2, <1>4, <1>6, <1>7, <2>1 DEF Works, DialogInv, NoStart, AllOf
  <2> QED
    BY <1>2, <1>3, <1>4, <2>1, <2>2, <2>3 DEF PipesInv, StageInv
<1>8. CASE ~canceled
  <2>1. PICK operation \in Continuations :
           proxyContinue(operation, watcher.req) /\ UNCHANGED fromPlugin
    BY <1>5, <1>8 DEF Continuations
  <2>2. /\ UNCHANGED <<isResultObtained, procState, toPlugin, task, awaitingUi>>
        /\ Len(Down) \in Nat /\ Len(Down') = Len(Down) + 1
        /\ Down'[Len(Down) + 1].op = operation /\ Down'[Len(Down) + 1].req = head
    BY <1>2, <1>3, <2>1, ContinuesRunning
  <2>3. Len(Down) = 0
    BY <1>1, <1>2, <1>8, <2>2 DEF Works, DialogInv
  <2>4. Len(Down') = 1 /\ Down'[1].op \in Continuations /\ Down'[1].req = head
    BY <2>2, <2>3
  <2>5. /\ NoStart(Down') /\ AllOf(Down', head')
        /\ \A i \in 1..Len(Down') : Down'[i].op # "stop"
    BY <1>6, <2>4 DEF NoStart, AllOf, Continuations
  <2>6. RunningInv'
    BY <2>1, <2>2, <2>5 DEF PipesInv, RunningInv
  <2>7. DialogInv'
    <3>1. Len(fromPlugin') = 0 /\ awaitingUi' /\ watcher' = NoWatcher
      BY <1>3, <1>4, <2>1, <2>2
    <3>2. \A i \in 1..Len(fromPlugin') : FALSE
      BY <3>1
    <3> QED
      BY <2>4, <3>1, <3>2 DEF DialogInv
  <2>8. Works'
    BY <1>2, <1>3, <1>6, <2>1, <2>2, <2>5, <2>7 DEF Works, AllOf
  <2> QED
    BY <1>2, <1>3, <1>4, <2>2, <2>6, <2>8 DEF PipesInv, StageInv
<1> QED
  BY <1>3, <1>4, <1>2, <1>7, <1>8

-----------------------------------------------------------------------------
(* The stages are kept: the calls of the clients, and startNewRequest. *)

LEMMA ProcessRequestPipes ==
  ASSUME TypeOK, QueueInv, PipesInv, NEW r \in Requests, processRequest(r)
  PROVE  PipesInv'
<1> DEFINE e == [req |-> r, creds |-> r]
<1>1. QueueTyped /\ e \in Entries /\ listOfRequests' = Append(listOfRequests, e)
  BY PartsTyped, MaybeRequestFacts DEF TypeOK, Entries, processRequest
<1> HIDE DEF e
<1>2. ASSUME requestIsActive PROVE head' = head
  <2>1. listOfRequests # <<>>
    BY <1>2, ActiveHead
  <2>2. 1 \in 1..Len(listOfRequests)
    BY <1>1, <2>1, EmptySeq, LenProperties DEF QueueTyped
  <2>3. listOfRequests'[1] = listOfRequests[1]
    BY <1>1, <2>2, AppendProperties DEF QueueTyped
  <2> QED
    BY <2>3 DEF head
<1> QED
  BY <1>2, StillPipes DEF processRequest

\* What becomes of the queue and of the answers when a client gives up.
LEMMA CancelParts ==
  ASSUME TypeOK, QueueInv, AnswersInv, NEW session \in Sessions, cancel(session)
  PROVE  \E i \in 1..Len(listOfRequests) :
            LET r == listOfRequests[i].req IN
            /\ r \in Requests /\ Reply(r, "canceled")
            /\ UNCHANGED <<requestIsActive, tmpCreds, writes, results, aborted,
                           cancelForgotten>>
            /\ \A k \in 1..Len(listOfRequests) : k # i => listOfRequests[k].req # r
            /\ \/ /\ i = 1 /\ requestIsActive /\ UNCHANGED listOfRequests
                  /\ r = head /\ head' = head /\ canceled' = TRUE
               \/ /\ ~(i = 1 /\ requestIsActive)
                  /\ UNCHANGED <<canceled, proxyVars, watcher>>
                  /\ requestIsActive => head' = head
                  /\ \A k \in 1..Len(listOfRequests') :
                        \E j \in 1..Len(listOfRequests) :
                           /\ j # i /\ listOfRequests'[k] = listOfRequests[j]
                           /\ j = 1 => k = 1
<1>1. PICK i \in DOMAIN listOfRequests :
        LET r == listOfRequests[i].req
            isActive == i = 1 /\ requestIsActive IN
        /\ Reply(r, "canceled")
        /\ \/ /\ isActive
              /\ canceled' = TRUE
              /\ UNCHANGED listOfRequests
           \/ /\ ~isActive
              /\ listOfRequests' = RemoveAt(listOfRequests, i)
              /\ UNCHANGED <<canceled, writeBuffer, watcher>>
  BY DEF cancel
<1> DEFINE r == listOfRequests[i].req
<1>2. QueueTyped /\ Distinct /\ i \in 1..Len(listOfRequests) /\ r \in Requests
      /\ DOMAIN listOfRequests = 1..Len(listOfRequests) /\ Len(listOfRequests) \in Nat
  <2>1. QueueTyped
    BY PartsTyped DEF TypeOK
  <2> QED
    BY <2>1, EntryTyped, LenProperties DEF AnswersInv, QueueTyped
<1>3. /\ UNCHANGED <<requestIsActive, tmpCreds, writes, results, aborted, cancelForgotten>>
      /\ UNCHANGED <<proxyFlags, procState, toPlugin, fromPlugin, process>>
  BY DEF cancel
<1>4. \A k \in 1..Len(listOfRequests) : k # i => listOfRequests[k].req # r
  BY <1>2 DEF Distinct
<1>5. CASE i = 1 /\ requestIsActive /\ UNCHANGED listOfRequests /\ canceled' = TRUE
  <2>1. r = head /\ head' = head
    BY <1>5 DEF head
  <2> QED
    BY <1>1, <1>2, <1>3, <1>4, <1>5, <2>1
<1>6. CASE /\ ~(i = 1 /\ requestIsActive)
           /\ listOfRequests' = RemoveAt(listOfRequests, i)
           /\ UNCHANGED <<canceled, writeBuffer, watcher>>
  <2>1. /\ Len(listOfRequests') = Len(listOfRequests) - 1
        /\ \A k \in 1..(Len(listOfRequests) - 1) : listOfRequests'[k] =
              IF k < i THEN listOfRequests[k] ELSE listOfRequests[k + 1]
    BY <1>2, <1>6, RemoveAtFacts DEF QueueTyped
  <2>2. ASSUME NEW k \in 1..Len(listOfRequests')
        PROVE  \E j \in 1..Len(listOfRequests) :
                  /\ j # i /\ listOfRequests'[k] = listOfRequests[j]
                  /\ j = 1 => k = 1
    <3>1. CASE k < i
      BY <1>2, <2>1, <3>1
    <3>2. CASE ~(k < i)
      <4>1. k + 1 \in 1..Len(listOfRequests) /\ k + 1 # i /\ k + 1 # 1
        BY <1>2, <2>1, <3>2
      <4>2. listOfRequests'[k] = listOfRequests[k + 1]
        BY <1>2, <2>1, <3>2
      <4> QED
        BY <4>1, <4>2
    <3> QED
      BY <3>1, <3>2
  <2>3. ASSUME requestIsActive PROVE head' = head
    <3>1. i > 1
      BY <1>2, <1>6, <2>3
    <3>2. listOfRequests'[1] = listOfRequests[1]
      BY <1>2, <2>1, <3>1
    <3> QED
      BY <3>2 DEF head
  <2>4. UNCHANGED proxyVars
    BY <1>3, <1>6 DEF proxyVars
  <2> QED
    BY <1>1, <1>2, <1>3, <1>4, <1>6, <2>2, <2>3, <2>4
<1> QED
  BY <1>1, <1>5, <1>6

LEMMA CancelRequestPipes ==
  ASSUME TypeOK, QueueInv, AnswersInv, PipesInv, NEW session \in Sessions, cancel(session)
  PROVE  PipesInv'
<1>1. UNCHANGED <<proxyFlags, procState, toPlugin, fromPlugin, process, requestIsActive>>
  BY DEF cancel
<1>2. PICK i \in DOMAIN listOfRequests :
        LET r == listOfRequests[i].req IN
        \/ /\ i = 1 /\ requestIsActive
           /\ canceled' = TRUE
           /\ writeBuffer' = WrittenIfRunning("cancel", r)
           /\ CloseDialog
           /\ UNCHANGED listOfRequests
        \/ UNCHANGED <<canceled, writeBuffer, watcher>>
  BY DEF cancel
<1>3. CASE /\ i = 1 /\ requestIsActive
           /\ canceled' = TRUE
           /\ writeBuffer' = WrittenIfRunning("cancel", listOfRequests[i].req)
           /\ CloseDialog
           /\ UNCHANGED listOfRequests
  <2>1. listOfRequests[i].req = head
    BY <1>3 DEF head
  <2> QED
    BY <1>1, <1>3, <2>1, CancelPipes DEF proxyFlags, process
<1>4. CASE UNCHANGED <<canceled, writeBuffer, watcher>>
  <2>1. requestIsActive => head' = head
    BY CancelParts
  <2> QED
    BY <1>1, <1>4, <2>1, StillPipes DEF proxyVars
<1> QED
  BY <1>2, <1>3, <1>4

LEMMA StartNewRequestPipes ==
  ASSUME TypeOK, QueueInv, PipesInv, startNewRequest, ~cancelForgotten'
  PROVE  PipesInv'
<1>1. canceled' = FALSE /\ UNCHANGED watcher /\ (requestIsActive => ~canceled)
  BY DEF startNewRequest
<1>2. CASE listOfRequests # <<>> /\ ~requestIsActive /\ startProcess
  BY <1>1, <1>2, StartPipes
<1>3. CASE UNCHANGED <<proxyVars, listOfRequests, requestIsActive>>
  <2>1. canceled \in BOOLEAN /\ head' = head
    BY <1>3 DEF TypeOK, CoreTypeOK, head
  <2> QED
    BY <1>1, <1>3, <2>1, StillPipes
<1> QED
  BY <1>2, <1>3 DEF startNewRequest

-----------------------------------------------------------------------------
(* Whose credentials are used: CredsInv is kept. *)

QueueCreds == \A i \in 1..Len(listOfRequests) :
                 /\ listOfRequests[i].creds \in {NoRequest, listOfRequests[i].req}
                 /\ \/ answer[listOfRequests[i].req] = "none"
                    \/ i = 1 /\ requestIsActive /\ canceled
ActiveCreds == requestIsActive => tmpCreds \in {NoRequest, head}
Written1    == \A p \in writes : p[1] = p[2] /\ answer[p[1]] \notin {"none", "canceled"}
Told1       == \A p \in results : p[1] = p[2]

LEMMA CredsParts == CredsInv <=> QueueCreds /\ ActiveCreds /\ Written1 /\ Told1
BY DEF CredsInv, QueueCreds, ActiveCreds, Written1, Told1

LEMMA CredsStill ==
  ASSUME CredsInv, UNCHANGED <<listOfRequests, requestIsActive, canceled, tmpCreds,
                               answer, writes, results>>
  PROVE  CredsInv'
BY DEF CredsInv, head

LEMMA ProcessRequestCreds ==
  ASSUME TypeOK, QueueInv, AnswersInv, CredsInv, NEW r \in Requests, processRequest(r)
  PROVE  CredsInv'
<1> DEFINE e == [req |-> r, creds |-> r]
           n == Len(listOfRequests)
<1>1. QueueTyped /\ e \in Entries /\ e.req = r /\ e.creds = r
      /\ listOfRequests' = Append(listOfRequests, e)
  BY PartsTyped, MaybeRequestFacts DEF TypeOK, Entries, processRequest
<1> HIDE DEF e
<1>2. /\ n \in Nat /\ Len(listOfRequests') = n + 1
      /\ \A k \in 1..n : listOfRequests'[k] = listOfRequests[k]
      /\ listOfRequests'[n + 1] = e
  BY <1>1, AppendProperties, LenProperties DEF QueueTyped
<1> HIDE DEF n
<1>3. UNCHANGED <<requestIsActive, canceled, tmpCreds, answer, writes, results>>
  BY DEF processRequest, outcome
<1>4. answer[r] = "none"
  BY DEF AnswersInv, processRequest
<1>5. \A k \in 1..Len(listOfRequests') : k \in 1..n \/ k = n + 1
  BY <1>2
<1>6. QueueCreds'
  BY <1>1, <1>2, <1>3, <1>4, <1>5 DEF QueueCreds, CredsInv, n
<1>7. ActiveCreds'
  <2>1. ASSUME requestIsActive PROVE head' = head
    <3>1. listOfRequests # <<>>
      BY <2>1, ActiveHead
    <3>2. 1 \in 1..n
      BY <1>1, <3>1, EmptySeq, LenProperties DEF QueueTyped, n
    <3>3. listOfRequests'[1] = listOfRequests[1]
      BY <1>2, <3>2
    <3> QED
      BY <3>3 DEF head
  <2> QED
    BY <1>3, <2>1 DEF ActiveCreds, CredsInv
<1>8. Written1' /\ Told1'
  BY <1>3 DEF Written1, Told1, CredsInv
<1> QED
  BY <1>6, <1>7, <1>8, CredsParts DEF CredsInv, QueueCreds, ActiveCreds, Written1, Told1

\* A reply to r changes no other answer, and no answer but the first.
LEMMA ReplyAnswer ==
  ASSUME HistoryTypeOK, NEW r \in Requests, NEW kind, Reply(r, kind)
  PROVE  \A q \in Requests : answer'[q] = IF q = r /\ answer[r] = "none" THEN kind
                                                                       ELSE answer[q]
<1>1. answer \in [Requests -> Answers]
  BY DEF HistoryTypeOK
<1> QED
  BY <1>1 DEF Reply

LEMMA WritesFacts == HistoryTypeOK => \A p \in writes : p[1] \in Requests
BY DEF HistoryTypeOK

LEMMA CancelCreds ==
  ASSUME TypeOK, QueueInv, AnswersInv, CredsInv, NEW session \in Sessions, cancel(session)
  PROVE  CredsInv'
<1>1. PICK i \in 1..Len(listOfRequests) :
        LET r == listOfRequests[i].req IN
        /\ r \in Requests /\ Reply(r, "canceled")
        /\ UNCHANGED <<requestIsActive, tmpCreds, writes, results, aborted, cancelForgotten>>
        /\ \A k \in 1..Len(listOfRequests) : k # i => listOfRequests[k].req # r
        /\ \/ /\ i = 1 /\ requestIsActive /\ UNCHANGED listOfRequests
              /\ r = head /\ head' = head /\ canceled' = TRUE
           \/ /\ ~(i = 1 /\ requestIsActive)
              /\ UNCHANGED <<canceled, proxyVars, watcher>>
              /\ requestIsActive => head' = head
              /\ \A k \in 1..Len(listOfRequests') :
                    \E j \in 1..Len(listOfRequests) :
                       /\ j # i /\ listOfRequests'[k] = listOfRequests[j]
                       /\ j = 1 => k = 1
  BY CancelParts
<1> DEFINE r == listOfRequests[i].req
<1>2. HistoryTypeOK /\ QueueTyped
  BY PartsTyped DEF TypeOK
<1>3. \A q \in Requests : answer'[q] = IF q = r /\ answer[r] = "none" THEN "canceled"
                                                                     ELSE answer[q]
  BY <1>1, <1>2, ReplyAnswer
<1>4. \A k \in 1..Len(listOfRequests) : listOfRequests[k].req \in Requests
  <2>1. DOMAIN listOfRequests = 1..Len(listOfRequests)
    BY <1>2, LenProperties DEF QueueTyped
  <2> QED
    BY <1>2, <2>1, EntryTyped
<1> HIDE DEF r
<1>5. \A k \in 1..Len(listOfRequests) :
         k # i => answer'[listOfRequests[k].req] = answer[listOfRequests[k].req]
  BY <1>1, <1>3, <1>4 DEF r
<1>6. QueueCreds'
  <2>1. CASE /\ i = 1 /\ requestIsActive /\ UNCHANGED listOfRequests /\ canceled' = TRUE
    BY <1>1, <1>5, <2>1 DEF QueueCreds, CredsInv
  <2>2. CASE /\ UNCHANGED canceled
             /\ \A k \in 1..Len(listOfRequests') :
                   \E j \in 1..Len(listOfRequests) :
                      /\ j # i /\ listOfRequests'[k] = listOfRequests[j]
                      /\ j = 1 => k = 1
    <3>1. ASSUME NEW k \in 1..Len(listOfRequests')
          PROVE  /\ listOfRequests'[k].creds \in {NoRequest, listOfRequests'[k].req}
                 /\ \/ answer'[listOfRequests'[k].req] = "none"
                    \/ k = 1 /\ requestIsActive' /\ canceled'
      <4>1. PICK j \in 1..Len(listOfRequests) :
               /\ j # i /\ listOfRequests'[k] = listOfRequests[j]
               /\ j = 1 => k = 1
        BY <2>2
      <4>2. answer'[listOfRequests'[k].req] = answer[listOfRequests[j].req]
        BY <1>5, <4>1
      <4>3. /\ listOfRequests[j].creds \in {NoRequest, listOfRequests[j].req}
            /\ \/ answer[listOfRequests[j].req] = "none"
               \/ j = 1 /\ requestIsActive /\ canceled
        BY DEF CredsInv
      <4> QED
        BY <1>1, <2>2, <4>1, <4>2, <4>3
    <3> QED
      BY <3>1 DEF QueueCreds
  <2> QED
    BY <1>1, <2>1, <2>2
<1>7. ActiveCreds'
  BY <1>1 DEF ActiveCreds, CredsInv
<1>8. Written1' /\ Told1'
  BY <1>1, <1>2, <1>3, WritesFacts DEF Written1, Told1, CredsInv
<1> QED
  BY <1>6, <1>7, <1>8 DEF CredsInv, QueueCreds, ActiveCreds, Written1, Told1

LEMMA StartNewRequestCreds ==
  ASSUME TypeOK, QueueInv, AnswersInv, PipesInv, CredsInv, startNewRequest, ~cancelForgotten'
  PROVE  CredsInv'
<1>1. canceled' = FALSE /\ UNCHANGED <<writes, results>>
      /\ canceled \in BOOLEAN /\ (requestIsActive => ~canceled)
  BY DEF startNewRequest, TypeOK, CoreTypeOK
<1>2. CASE listOfRequests # <<>> /\ ~requestIsActive /\ startProcess
  <2>1. PICK ok \in BOOLEAN :
          /\ proxyProcess(head, ok)
          /\ tmpCreds' = CredsToTry(Head(listOfRequests))
          /\ ok => requestIsActive' = TRUE /\ NoReply /\ UNCHANGED listOfRequests
    BY <1>2 DEF startProcess
  <2>2. ok
    BY <2>1 DEF proxyProcess, restartIfRequired, PipesInv, RunningInv
  <2>3. UNCHANGED <<answer, listOfRequests>> /\ head' = head
    BY <2>1, <2>2 DEF NoReply, head
  <2>4. QueueCreds'
    BY <1>2, <2>3 DEF QueueCreds, CredsInv
  <2>5. Head(listOfRequests).creds \in {NoRequest, head}
    <3>1. 1 \in 1..Len(listOfRequests) /\ Head(listOfRequests) = listOfRequests[1]
      <4>1. QueueTyped
        BY PartsTyped DEF TypeOK
      <4> QED
        BY <1>2, <4>1, EmptySeq, LenProperties DEF QueueTyped
    <3> QED
      BY <3>1 DEF CredsInv, head
  <2>6. ActiveCreds'
    BY <2>1, <2>3, <2>5 DEF ActiveCreds, CredsToTry
  <2> QED
    BY <1>1, <2>3, <2>4, <2>6 DEF CredsInv, QueueCreds, ActiveCreds
<1>3. CASE NoReply /\ UNCHANGED <<listOfRequests, requestIsActive, tmpCreds>>
  <2>1. UNCHANGED answer /\ head' = head
    BY <1>3 DEF NoReply, head
  <2>2. QueueCreds'
    BY <1>1, <1>3, <2>1 DEF QueueCreds, CredsInv
  <2>3. ActiveCreds'
    BY <1>3, <2>1 DEF ActiveCreds, CredsInv
  <2> QED
    BY <1>1, <2>1, <2>2, <2>3 DEF CredsInv, QueueCreds, ActiveCreds
<1> QED
  BY <1>2, <1>3 DEF startNewRequest

\* The active request ends, with a reply unless it was canceled.
LEMMA DoneCreds ==
  ASSUME TypeOK, AnswersInv, CredsInv, requestIsActive, listOfRequests # <<>>, requestDone,
         \/ canceled /\ NoReply /\ UNCHANGED <<writes, results>>
         \/ /\ ~canceled
            /\ \/ Reply(head, "result")
               \/ Reply(head, "error") /\ UNCHANGED writes
            /\ writes' \subseteq writes \cup {<<head, head>>}
            /\ results' \subseteq results \cup {<<head, head>>}
  PROVE  CredsInv'
<1>1. HistoryTypeOK /\ QueueTyped /\ Distinct
  BY PartsTyped DEF TypeOK, AnswersInv
<1>2. requestIsActive' = FALSE /\ listOfRequests' = Tail(listOfRequests)
  BY DEF requestDone
<1>3. /\ Len(listOfRequests) \in Nat /\ 1 \in 1..Len(listOfRequests)
      /\ \A i \in 1..Len(listOfRequests') :
            /\ i + 1 \in 1..Len(listOfRequests) /\ i + 1 # 1
            /\ listOfRequests'[i] = listOfRequests[i + 1]
            /\ listOfRequests'[i].req # head /\ listOfRequests'[i].req \in Requests
  BY <1>1, <1>2, QueueTail
<1>4. head \in Requests
  BY <1>1, HeadTyped
<1>5. \A q \in Requests \ {head} : answer'[q] = answer[q]
  BY <1>1, <1>4, ReplyAnswer DEF NoReply
<1>6. QueueCreds'
  BY <1>3, <1>5 DEF QueueCreds, CredsInv
<1>7. ActiveCreds'
  BY <1>2 DEF ActiveCreds
<1>8. Told1'
  BY DEF Told1, CredsInv
<1>9. CASE canceled /\ NoReply /\ UNCHANGED <<writes, results>>
  <2>1. Written1'
    BY <1>9 DEF Written1, CredsInv, NoReply
  <2> QED
    BY <1>6, <1>7, <1>8, <2>1 DEF CredsInv, QueueCreds, ActiveCreds, Written1, Told1
<1>10. CASE /\ ~canceled
            /\ \/ Reply(head, "result")
               \/ Reply(head, "error") /\ UNCHANGED writes
            /\ writes' \subseteq writes \cup {<<head, head>>}
  <2>1. answer[head] = "none"
    <3>1. head = listOfRequests[1].req
      BY DEF head
    <3> QED
      BY <1>3, <1>10, <3>1 DEF CredsInv
  <2>2. \A q \in Requests : answer'[q] \in {answer[q], "result", "error"}
    BY <1>1, <1>4, <1>10, ReplyAnswer
  <2>3. \A p \in writes : p[1] # head
    BY <2>1 DEF CredsInv
  <2>4. ASSUME Reply(head, "error"), UNCHANGED writes PROVE Written1'
    BY <1>1, <1>5, <2>3, <2>4, WritesFacts DEF Written1, CredsInv
  <2>5. ASSUME Reply(head, "result") PROVE Written1'
    <3>1. answer'[head] = "result"
      BY <1>1, <1>4, <2>1, <2>5, ReplyAnswer
    <3>2. ASSUME NEW p \in writes'
          PROVE  p[1] = p[2] /\ answer'[p[1]] \notin {"none", "canceled"}
      <4>1. CASE p \in writes
        BY <1>1, <1>5, <2>3, <4>1, WritesFacts DEF CredsInv
      <4>2. CASE p = <<head, head>>
        BY <3>1, <4>2
      <4> QED
        BY <1>10, <4>1, <4>2
    <3> QED
      BY <3>2 DEF Written1
  <2> QED
    BY <1>6, <1>7, <1>8, <1>10, <2>4, <2>5 DEF CredsInv, QueueCreds, ActiveCreds, Written1, Told1
<1> QED
  BY <1>9, <1>10

LEMMA HandleAnswerCreds ==
  ASSUME TypeOK, QueueInv, AnswersInv, PipesInv, CredsInv, handleAnswer
  PROVE  CredsInv'
<1>1. requestIsActive /\ Received.req = head
      /\ (processResultReply(head) \/ processError(head))
  BY HandleAnswerPipes
<1>2. listOfRequests # <<>> /\ tmpCreds \in {NoRequest, head}
  BY <1>1, ActiveHead DEF CredsInv
<1>3. CASE processResultReply(head)
  <2>1. requestDone
    BY <1>2, <1>3 DEF processResultReply
  <2>2. \/ canceled /\ NoReply /\ UNCHANGED <<writes, results>>
        \/ /\ ~canceled /\ Reply(head, "result")
           /\ writes' \subseteq writes \cup {<<head, head>>}
           /\ results' \subseteq results \cup {<<head, head>>}
    BY <1>2, <1>3 DEF processResultReply, history, outcome, NoReply
  <2> QED
    BY <1>1, <1>2, <2>1, <2>2, DoneCreds
<1>4. CASE processError(head)
  <2>1. requestDone
    BY <1>2, <1>4 DEF processError
  <2>2. \/ canceled /\ NoReply /\ UNCHANGED <<writes, results>>
        \/ /\ ~canceled /\ Reply(head, "error") /\ UNCHANGED writes
           /\ results' \subseteq results \cup {<<head, head>>}
    BY <1>2, <1>4 DEF processError, history, outcome, NoReply
  <2> QED
    BY <1>1, <1>2, <2>1, <2>2, DoneCreds
<1> QED
  BY <1>1, <1>3, <1>4

\* The first request gets what its plugin or its own dialog sent.
LEMMA HeadCreds ==
  ASSUME TypeOK, CredsInv, listOfRequests # <<>>, NEW c \in {NoRequest, head},
         listOfRequests' = [listOfRequests EXCEPT ![1].creds = c],
         tmpCreds' \in {tmpCreds, c},
         UNCHANGED <<requestIsActive, canceled, answer, writes, results>>
  PROVE  CredsInv'
<1>1. /\ Len(listOfRequests) \in Nat /\ Len(listOfRequests') = Len(listOfRequests)
      /\ head' = head /\ 1 \in 1..Len(listOfRequests)
      /\ \A i \in 1..Len(listOfRequests) :
            /\ listOfRequests'[i].req = listOfRequests[i].req
            /\ listOfRequests'[i].creds = IF i = 1 THEN c ELSE listOfRequests[i].creds
  BY PartsTyped, HeadCredsSet DEF TypeOK
<1>2. head = listOfRequests[1].req
  BY DEF head
<1>3. QueueCreds'
  BY <1>1, <1>2 DEF QueueCreds, CredsInv
<1>4. ActiveCreds'
  BY <1>1 DEF ActiveCreds, CredsInv
<1>5. Written1' /\ Told1'
  BY DEF Written1, Told1, CredsInv
<1> QED
  BY <1>3, <1>4, <1>5 DEF CredsInv, QueueCreds, ActiveCreds, Written1, Told1

LEMMA QueryUiSlotCreds ==
  ASSUME TypeOK, QueueInv, PipesInv, CredsInv, queryUiSlot
  PROVE  CredsInv'
<1>1. watcher # NoWatcher
  BY DEF queryUiSlot, NoWatcher
<1>2. listOfRequests # <<>> /\ watcher.req = head
  BY <1>1, WatcherWorks DEF Works, DialogInv
<1>3. PICK uiAnswer \in UiAnswers :
        /\ listOfRequests' = [listOfRequests EXCEPT ![1].creds = CredsAfter(uiAnswer)]
        /\ tmpCreds' \in {tmpCreds, CredsAfter(uiAnswer)}
  BY <1>2 DEF queryUiSlot, useUiAnswer
<1>4. CredsAfter(uiAnswer) \in {NoRequest, head}
  <2>1. 1 \in 1..Len(listOfRequests) /\ Head(listOfRequests) = listOfRequests[1]
    BY <1>2, PartsTyped, EmptySeq, LenProperties DEF TypeOK, QueueTyped
  <2>2. Head(listOfRequests).creds \in {NoRequest, head}
    BY <2>1 DEF CredsInv, head
  <2> QED
    BY <1>2, <2>2 DEF CredsAfter, UiAnswers
<1>5. UNCHANGED <<requestIsActive, canceled, answer, writes, results>>
  BY DEF queryUiSlot
<1> QED
  BY <1>2, <1>3, <1>4, <1>5, HeadCreds

LEMMA HandleDialogCreds ==
  ASSUME TypeOK, QueueInv, PipesInv, CredsInv, handleUi \/ handleRefreshed
  PROVE  CredsInv'
<1>1. CASE SilentCore
  BY <1>1, CredsStill DEF SilentCore, coreVars, history, outcome
<1>2. CASE openDialog(Received.req)
  <2>1. Received.req = head
    BY ReadServes DEF handleUi, handleRefreshed
  <2>2. CASE canceled \/ listOfRequests = <<>>
    BY <1>2, <2>2, CredsStill DEF openDialog, coreVars, history, outcome
  <2>3. CASE ~(canceled \/ listOfRequests = <<>>)
    BY <1>2, <2>1, <2>3, HeadCreds DEF openDialog, history, outcome
  <2> QED
    BY <2>2, <2>3
<1> QED
  BY <1>1, <1>2 DEF handleUi, handleRefreshed

-----------------------------------------------------------------------------
(* The invariant and its theorems. *)

LEMMA InitReach == Init => ReachInv
<1> SUFFICES ASSUME Init PROVE ReachInv
  OBVIOUS
<1>1. ServingInv
  BY InitServing
<1>2. AnswersInv
  BY DEF Init, AnswersInv, Distinct, QueueReqs, OnlyCanceledRepliedAgain
<1>3. /\ task = NoRequest /\ writeBuffer = <<>> /\ toPlugin = <<>> /\ fromPlugin = <<>>
      /\ listOfRequests = <<>> /\ requestIsActive = FALSE /\ watcher = NoWatcher
      /\ procState = "Running" /\ aborted = FALSE /\ writes = {} /\ results = {}
  BY DEF Init, ProxyInit
<1>4. Len(toPlugin) = 0 /\ Len(writeBuffer) = 0 /\ Len(fromPlugin) = 0
  BY <1>3
<1>5. Len(Down) = 0
  BY <1>1, <1>4, DownFacts DEF ServingInv, TypeOK
<1>6. PipesInv
  BY <1>3, <1>4, <1>5 DEF PipesInv, StageInv, RunningInv, AtRest, NoStart
<1>7. CredsInv
  BY <1>3 DEF CredsInv
<1> QED
  BY <1>1, <1>2, <1>3, <1>6, <1>7 DEF ReachInv, Clean

LEMMA StepPipes ==
  ASSUME Steady, TypeOK, QueueInv, AnswersInv, PipesInv, [Next]_vars, ~cancelForgotten'
  PROVE  PipesInv'
<1>1. CASE UNCHANGED vars
  BY <1>1, StillPipes DEF vars, coreVars, head
<1>2. ASSUME NEW r \in Requests, processRequest(r) PROVE PipesInv'
  BY <1>2, ProcessRequestPipes
<1>3. ASSUME NEW session \in Sessions, cancel(session) PROVE PipesInv'
  BY <1>3, CancelRequestPipes
<1>4. CASE startNewRequest
  BY <1>4, StartNewRequestPipes
<1>5. CASE queryUiSlot
  BY <1>5, QueryUiSlotPipes
<1>6. CASE handleAnswer
  BY <1>6, HandleAnswerPipes
<1>7. CASE handleStore
  BY <1>7, HandleStorePipes
<1>8. CASE handleUi \/ handleRefreshed
  BY <1>8, HandleDialogPipes
<1>9. CASE onExit
  <2>1. Len(fromPlugin) \in Nat /\ Len(fromPlugin) > 0 /\ fromPlugin[1].resp \in Ends
    BY <1>9, SaidRead DEF onExit, TypeOK, Ends
  <2> QED
    BY <2>1 DEF PipesInv, RunningInv
<1>10. CASE blobIOError
  BY <1>10, SteadyFacts DEF blobIOError
<1>11. CASE pollAndFlush
  BY <1>11, FlushPipes
<1>12. CASE PluginProcessStep
  BY <1>12, PluginStepPipes DEF PluginProcessStep
<1>13. CASE credentialsSystemReady
  BY <1>13, StillPipes DEF credentialsSystemReady, head
<1>14. CASE uiReplies
  BY <1>14, UiRepliesPipes
<1> QED
  BY <1>1, <1>2, <1>3, <1>4, <1>5, <1>6, <1>7, <1>8, <1>9, <1>10, <1>11, <1>12, <1>13, <1>14
  DEF Next, ClientStep, LoopStep

LEMMA StepCreds ==
  ASSUME Steady, TypeOK, QueueInv, AnswersInv, PipesInv, CredsInv, [Next]_vars,
         ~cancelForgotten'
  PROVE  CredsInv'
<1>1. CASE UNCHANGED vars \/ SilentCore
  BY <1>1, CredsStill DEF vars, SilentCore, coreVars, history, outcome
<1>2. ASSUME NEW r \in Requests, processRequest(r) PROVE CredsInv'
  BY <1>2, ProcessRequestCreds
<1>3. ASSUME NEW session \in Sessions, cancel(session) PROVE CredsInv'
  BY <1>3, CancelCreds
<1>4. CASE startNewRequest
  BY <1>4, StartNewRequestCreds
<1>5. CASE queryUiSlot
  BY <1>5, QueryUiSlotCreds
<1>6. CASE handleAnswer
  BY <1>6, HandleAnswerCreds
<1>7. CASE handleStore
  BY <1>7, CredsStill DEF handleStore, processStore, SilentCore, coreVars, history, outcome
<1>8. CASE handleUi \/ handleRefreshed
  BY <1>8, HandleDialogCreds
<1>9. CASE onExit
  <2>1. Len(fromPlugin) \in Nat /\ Len(fromPlugin) > 0 /\ fromPlugin[1].resp \in Ends
    BY <1>9, SaidRead DEF onExit, TypeOK, Ends
  <2> QED
    BY <2>1 DEF PipesInv, RunningInv
<1>10. CASE blobIOError
  BY <1>10, SteadyFacts DEF blobIOError
<1>11. CASE pollAndFlush \/ PluginProcessStep
  BY <1>1, <1>11 DEF pollAndFlush, PluginProcessStep
<1>12. CASE credentialsSystemReady \/ uiReplies
  BY <1>12, CredsStill DEF credentialsSystemReady, uiReplies, history, outcome
<1> QED
  BY <1>1, <1>2, <1>3, <1>4, <1>5, <1>6, <1>7, <1>8, <1>9, <1>10, <1>11, <1>12
  DEF Next, ClientStep, LoopStep

LEMMA StepAborts ==
  ASSUME TypeOK, QueueInv, PipesInv, ~aborted, [Next]_vars
  PROVE  ~aborted'
<1>1. CASE queryUiSlot
  BY <1>1, QueryUiSlotPipes
<1>2. CASE processResultReply(Received.req) \/ processError(Received.req)
           \/ openDialog(Received.req) \/ processError(NoRequest)
  BY <1>2 DEF processResultReply, processError, openDialog, coreVars
<1>3. CASE SilentCore \/ UNCHANGED vars
  BY <1>3 DEF SilentCore, vars, coreVars
<1>4. ASSUME NEW r \in Requests, processRequest(r) PROVE ~aborted'
  BY <1>4 DEF processRequest
<1>5. ASSUME NEW session \in Sessions, cancel(session) PROVE ~aborted'
  BY <1>5 DEF cancel
<1>6. CASE startNewRequest \/ credentialsSystemReady \/ uiReplies \/ processStore
  BY <1>6 DEF startNewRequest, credentialsSystemReady, uiReplies, processStore
<1>7. CASE handleAnswer
  BY <1>2, <1>3, <1>7 DEF handleAnswer, Receives, TypeOK, ProxyTypeOK
<1>8. CASE handleStore \/ handleUi \/ handleRefreshed
  BY <1>2, <1>3, <1>6, <1>8 DEF handleStore, handleUi, handleRefreshed
<1>9. CASE onExit \/ blobIOError
  BY <1>2, <1>3, <1>9 DEF onExit, blobIOError
<1>10. CASE pollAndFlush \/ PluginProcessStep
  BY <1>3, <1>10 DEF pollAndFlush, PluginProcessStep
<1> QED
  BY <1>1, <1>3, <1>4, <1>5, <1>6, <1>7, <1>8, <1>9, <1>10 DEF Next, ClientStep, LoopStep

\* A cancelation that has been forgotten stays so.
LEMMA ForgottenStays ==
  ASSUME [Next]_vars, TypeOK
  PROVE  cancelForgotten => cancelForgotten'
<1> SUFFICES ASSUME cancelForgotten PROVE cancelForgotten'
  OBVIOUS
<1>1. CASE UNCHANGED cancelForgotten
  BY <1>1
<1>2. CASE processResultReply(Received.req) \/ processError(Received.req)
           \/ openDialog(Received.req) \/ processError(NoRequest)
  BY <1>2 DEF processResultReply, processError, openDialog, coreVars, history, outcome
<1>3. CASE SilentCore \/ UNCHANGED vars
  BY <1>3 DEF SilentCore, vars, history, outcome
<1>4. ASSUME NEW r \in Requests, processRequest(r) PROVE cancelForgotten'
  BY <1>4 DEF processRequest, outcome
<1>5. ASSUME NEW session \in Sessions, cancel(session) PROVE cancelForgotten'
  BY <1>5 DEF cancel
<1>6. CASE startNewRequest
  BY <1>6 DEF startNewRequest
<1>7. CASE credentialsSystemReady \/ uiReplies \/ queryUiSlot
  BY <1>7 DEF credentialsSystemReady, uiReplies, queryUiSlot, history, outcome
<1>8. CASE handleAnswer
  BY <1>2, <1>3, <1>8 DEF handleAnswer, Receives, TypeOK, ProxyTypeOK
<1>9. CASE handleStore \/ handleUi \/ handleRefreshed
  BY <1>2, <1>3, <1>9 DEF handleStore, handleUi, handleRefreshed, processStore
<1>10. CASE onExit \/ blobIOError
  BY <1>2, <1>3, <1>10 DEF onExit, blobIOError
<1>11. CASE pollAndFlush \/ PluginProcessStep
  BY <1>3, <1>11 DEF pollAndFlush, PluginProcessStep
<1> QED
  BY <1>3, <1>4, <1>5, <1>6, <1>7, <1>8, <1>9, <1>10, <1>11 DEF Next, ClientStep, LoopStep

LEMMA StepReach ==
  ASSUME Steady, ReachInv, [Next]_vars
  PROVE  ReachInv'
<1>1. WholeAnswers
  BY DEF Steady, WholeAnswers
<1>2. ServingInv' /\ AnswersInv'
  BY <1>1, StepServing, StepAnswers DEF ReachInv, ServingInv
<1>3. TypeOK /\ QueueInv /\ AnswersInv
  BY DEF ReachInv, ServingInv
<1>4. ASSUME ~cancelForgotten' PROVE Clean'
  <2>1. Clean
    BY <1>3, <1>4, ForgottenStays DEF ReachInv
  <2> QED
    BY <1>3, <1>4, <2>1, StepPipes, StepCreds, StepAborts DEF Clean
<1> QED
  BY <1>2, <1>4 DEF ReachInv

LEMMA ReachedInvariant ==
  ASSUME Steady
  PROVE  Spec => []ReachInv
<1>1. Init => ReachInv
  BY InitReach
<1>2. ReachInv /\ [Next]_vars => ReachInv'
  BY StepReach
<1> QED
  BY <1>1, <1>2, PTL DEF Spec

\* A client gets the plugin's answer to its own request, and the plugin never
\* works on one that is over, although the proxy tells its responses apart by
\* time alone: a request's answer is the last thing said of it, and nothing of
\* the next one is read before.
THEOREM AnswersReachTheirRequest ==
    ASSUME Steady
    PROVE  Spec => []ResultsReachTheirRequest
<1>1. ReachInv => ResultsReachTheirRequest
  BY DEF ReachInv, Clean, PipesInv, StageInv, Waits, Works, Answered, AtRest, CredsInv,
     ResultsReachTheirRequest
<1> QED
  BY <1>1, ReachedInvariant, PTL

\* The credentials stored as validated are the request's own or those its own
\* dialog returned, and none are stored once its client has canceled it.
THEOREM OwnCredentialsStored ==
    ASSUME Steady
    PROVE  Spec => []WritesBelongToTheirRequest
<1>1. ReachInv => WritesBelongToTheirRequest
  BY DEF ReachInv, Clean, CredsInv, WritesBelongToTheirRequest
<1> QED
  BY <1>1, ReachedInvariant, PTL

\* The answer of a dialog finds its own request first in the queue, so that
\* queryUiSlot() never ends signond.
THEOREM DialogAnswerFindsRequest ==
    ASSUME Steady
    PROVE  Spec => []NoAbortUnlessForgotten
<1>1. ReachInv => NoAbortUnlessForgotten
  BY DEF ReachInv, Clean, NoAbortUnlessForgotten
<1> QED
  BY <1>1, ReachedInvariant, PTL
=============================================================================
