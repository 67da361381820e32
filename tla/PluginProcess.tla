--------------------------- MODULE PluginProcess ---------------------------
(***************************************************************************)
(* The inside of an authentication plugin's process                        *)
(* (src/remotepluginprocess, lib/plugins/signon-plugins-common): two       *)
(* threads read its standard input, the main one while no operation is     *)
(* under way, the cancel thread while the plugin works, and a blob comes   *)
(* in pages.  PluginProxy and SessionCore take this process as one step per *)
(* operation; here the daemon is reduced to what it may write and when.    *)
(***************************************************************************)
EXTENDS Naturals, Sequences

CONSTANTS Env,            \* what the environment may do, see EnvKinds
          Pages,          \* the numbers of pages a blob may have
          MaxOperations,  \* bound: process() calls
          MaxDialogs      \* bound: dialogs and refreshes of one of them

EnvKinds == {"torn",     \* what is written arrives in several parts
             "ahead",    \* QFile reads more than it is asked for
             "early",    \* a cancel is read before the plugin is at work
             "idle",     \* a plugin answers a cancel, or what a dialog
                         \* returned, with no work under way
             "destroy"}  \* the proxy is destroyed

ASSUME ProcessAssumption ==
    /\ Env \subseteq EnvKinds
    /\ Pages \subseteq Nat \ {0}
    /\ MaxOperations \in Nat
    /\ MaxDialogs \in Nat

VARIABLES phase,        \* daemon: what the proxy and its session core wait for
          canceled,     \* daemon: m_canceled of the session core
          answering,    \* daemon: waits for the rest of a response's pages
          writeBuffer,  \* written to m_process, not yet in the pipe
          pipe,         \* the kernel's pipe to the standard input
          inFile,       \* what m_inFile has read ahead
          output,       \* the pipe from the standard output
          notifier,     \* m_readnotifier is enabled
          slot,         \* what m_readnotifier is connected to
          main,         \* where the main thread is
          blob,         \* m_currentOperation, m_blobSize, m_blobBuffer
          cancelThread, \* cancelThread->isRunning()
          plugin,       \* m_plugin: idle, at work or waiting for a dialog
          posted,       \* errors emitted in the cancel thread, not delivered
          ended,        \* the process has stopped
          bounds,       \* operations and dialogs so far
          history       \* a misread opcode, a failed blob, a cancel for nobody

daemonVars == <<phase, canceled, answering, writeBuffer, bounds>>
inputVars  == <<pipe, inFile>>
mainVars   == <<notifier, slot, main, blob>>
vars == <<daemonVars, inputVars, output, mainVars, cancelThread, plugin,
          posted, ended, history>>

Blobs == {"process", "processUi", "refresh"}
Opcodes == Blobs \cup {"mechanisms", "cancel", "stop"}
Tokens == [op : Opcodes \cup {"page"}, pages : Nat]
Finals == {"result", "error"}

NoBlob == [operation |-> "stop", size |-> 0, got |-> 0]

Token(op) == [op |-> op, pages |-> 0]

\* The bytes of an operation: its opcode with the size of its blob, the pages.
Message(op, n) == <<[op |-> op, pages |-> n]>> \o [i \in 1..n |-> Token("page")]

\* The process has started; the proxy has asked for its mechanisms.
Init ==
    /\ phase = "starting"
    /\ canceled = FALSE
    /\ answering = FALSE
    /\ writeBuffer = <<Token("mechanisms")>>
    /\ pipe = <<>>
    /\ inFile = <<>>
    /\ output = <<>>
    /\ notifier = TRUE
    /\ slot = "startTask"
    /\ main = "loop"
    /\ blob = NoBlob
    /\ cancelThread = FALSE
    /\ plugin = "idle"
    /\ posted = 0
    /\ ended = FALSE
    /\ bounds = [operations |-> 0, dialogs |-> 0]
    /\ history = [misread |-> FALSE, blobFailed |-> FALSE, canceledEarly |-> FALSE]

-----------------------------------------------------------------------------
(* The daemon: PluginProxy, and SessionCore which calls it. *)

processSilent == UNCHANGED <<inputVars, mainVars, cancelThread, plugin, posted,
                             ended, history>>

Writes(tokens) == writeBuffer' = writeBuffer \o tokens

process(n) ==
    /\ phase = "idle"
    /\ bounds.operations < MaxOperations
    /\ Writes(Message("process", n))
    /\ phase' = "busy"
    /\ bounds' = [operations |-> bounds.operations + 1, dialogs |-> 0]
    /\ UNCHANGED <<canceled, answering, output>>
    /\ processSilent

\* The request at work is canceled, once; its dialog is closed.
cancel ==
    /\ phase \in {"busy", "dialog"}
    /\ ~canceled
    /\ Writes(<<Token("cancel")>>)
    /\ canceled' = TRUE
    /\ UNCHANGED <<phase, answering, bounds, output>>
    /\ processSilent

\* What the dialog returned goes to the plugin, unless it was canceled.
continue(op, n) ==
    /\ phase = "dialog"
    /\ ~canceled
    /\ Writes(Message(op, n))
    /\ phase' = "busy"
    /\ UNCHANGED <<canceled, answering, bounds, output>>
    /\ processSilent

\* queryMechanisms' reply, and handlePluginResponse(): a final response ends
\* the request, canceled or not; a dialog is opened unless it is canceled.
handlePluginResponse(response) ==
    /\ phase' = CASE phase = "closed" -> phase
                  [] phase # "closed" /\ response \in Finals \cup {"mechanisms"} -> "idle"
                  [] OTHER -> IF canceled \/ phase # "busy" THEN phase ELSE "dialog"
    /\ canceled' = (canceled /\ response \notin Finals)
    /\ UNCHANGED answering

\* onReadStandardOutput().  What follows the first page of a response is read
\* when the daemon's own standard input can be, which is where waitForStarted()
\* has put the notifier; until then nothing of the process is read.
receive ==
    /\ output # <<>>
    /\ ~answering
    /\ output' = Tail(output)
    /\ \/ handlePluginResponse(Head(output).op)
       \/ /\ Head(output).pages > 1
          /\ answering' = TRUE
          /\ UNCHANGED <<phase, canceled>>
    /\ UNCHANGED <<writeBuffer, bounds>>
    /\ processSilent

\* ~PluginProxy: a cancel if a request is processed, a stop; the write channel
\* is closed, and the process killed when it has not ended after a second.
destroy ==
    /\ "destroy" \in Env
    /\ phase \in {"idle", "busy", "dialog"}
    /\ Writes(IF phase = "idle" THEN <<Token("stop")>>
                                ELSE <<Token("cancel"), Token("stop")>>)
    /\ phase' = "closed"
    /\ UNCHANGED <<canceled, answering, bounds, output>>
    /\ processSilent

kill ==
    /\ phase = "closed"
    /\ ended' = TRUE
    /\ UNCHANGED <<daemonVars, inputVars, output, mainVars, cancelThread, plugin,
                   posted, history>>

\* A blob of one page is written with its size, one of several after it.
Together(tokens, n) ==
    n < Len(tokens) => /\ "torn" \in Env
                       /\ tokens[n].op \in Blobs => tokens[n].pages > 1

\* QProcess writes to the pipe, a block at a time.
flush(n) ==
    /\ n \in 1..Len(writeBuffer)
    /\ Together(writeBuffer, n)
    /\ pipe' = pipe \o SubSeq(writeBuffer, 1, n)
    /\ writeBuffer' = SubSeq(writeBuffer, n + 1, Len(writeBuffer))
    /\ UNCHANGED <<phase, canceled, answering, bounds, inFile, output, mainVars,
                   cancelThread, plugin, posted, ended, history>>

-----------------------------------------------------------------------------
(* The process: reading and answering. *)

\* What m_inFile gives next; it asks the pipe only when it has nothing left.
Input == inFile \o pipe

\* Reading one token through m_inFile.  Qt's buffered file may take more.
takesNext ==
    IF inFile # <<>>
    THEN inFile' = Tail(inFile) /\ UNCHANGED pipe
    ELSE \E n \in IF "ahead" \in Env THEN 1..Len(pipe) ELSE {1} :
            /\ inFile' = SubSeq(pipe, 2, n)
            /\ pipe' = SubSeq(pipe, n + 1, Len(pipe))

Misreads(wrong) == history' = [history EXCEPT !.misread = @ \/ wrong]

\* Errors and the mechanisms are no blobs.
Emits(response) ==
    \E n \in IF response \in {"error", "mechanisms"} THEN {0} ELSE Pages :
        output' = Append(output, [op |-> response, pages |-> n])

leaveCancelThread(refreshed) == \* mutant: the thread is left to read
    UNCHANGED <<notifier, cancelThread>>

\* The thread is made to leave its loop, and the input is the main thread's
\* again; refreshed() enables the notifier whoever was reading.
disableCancelThread(refreshed) ==
    /\ notifier' = (notifier \/ cancelThread \/ refreshed)
    /\ cancelThread' = FALSE

\* A signal of m_plugin: the main thread sends the response.
sends(response) == Emits(response) /\ disableCancelThread(response = "refreshed")

\* m_plugin->cancel() in the main thread.
canceledHere ==
    IF plugin # "idle" \/ "idle" \in Env
    THEN plugin' = "idle" /\ sends("error")
    ELSE UNCHANGED <<plugin, output, notifier, cancelThread>>

\* startTask(): an operation with a blob disconnects the slot, and enables
\* reading by pages when there are several; readBlob() follows at once.
startTask ==
    /\ ~ended
    /\ main = "loop"
    /\ notifier
    /\ slot = "startTask"
    /\ pipe # <<>>
    /\ takesNext
    /\ LET token == Head(Input) IN
       /\ Misreads(token.op = "page")
       /\ \/ /\ token.op \in Blobs
             /\ blob' = [operation |-> token.op, size |-> token.pages, got |-> 0]
             /\ slot' = IF token.pages > 1 THEN "readBlob" ELSE "none"
             /\ main' = "receiving"
             /\ UNCHANGED <<notifier, cancelThread, plugin, output, ended>>
          \/ /\ token.op = "cancel"
             /\ canceledHere
             /\ UNCHANGED <<blob, slot, main, ended>>
          \/ /\ token.op = "mechanisms"
             /\ Emits("mechanisms")
             /\ UNCHANGED <<notifier, blob, slot, main, cancelThread, plugin, ended>>
          \/ /\ token.op \in {"stop", "page"}
             /\ ended' = TRUE
             /\ UNCHANGED <<notifier, blob, slot, main, cancelThread, plugin, output>>
    /\ UNCHANGED <<daemonVars, posted>>

\* readBlob() is called by receiveData() and by the notifier.
ReadsBlob == /\ ~ended
             /\ \/ main = "receiving"
                \/ main = "loop" /\ notifier /\ slot = "readBlob" /\ pipe # <<>>

\* The standard input does not block: a page that is not there yet is read as
\* an empty one, and the blob has failed.
blobFails ==
    /\ ReadsBlob
    /\ Input = <<>>
    /\ slot' = "startTask"
    /\ notifier' = cancelThread
    /\ cancelThread' = FALSE
    /\ Emits("error")
    /\ main' = "loop"
    /\ history' = [history EXCEPT !.blobFailed = TRUE]
    /\ UNCHANGED <<daemonVars, inputVars, blob, plugin, posted, ended>>

\* After the last page sessionDataReceived() starts the cancel thread, and an
\* event loop waits for it.
enableCancelThread ==
    /\ slot' = "none"
    /\ notifier' = FALSE
    /\ cancelThread' = TRUE
    /\ main' = "enabling"

readBlob ==
    /\ ReadsBlob
    /\ Input # <<>>
    /\ takesNext
    /\ blob' = [blob EXCEPT !.got = @ + 1]
    /\ Misreads(Head(Input).op # "page")
    /\ IF blob.got + 1 = blob.size
       THEN enableCancelThread
       ELSE main' = "loop" /\ UNCHANGED <<slot, notifier, cancelThread>>
    /\ UNCHANGED <<daemonVars, output, plugin, posted, ended>>

sessionDataReceivedUnconnected == \* mutant: the notifier is not connected again
    /\ ~ended
    /\ main = "enabling"
    /\ plugin' = "working"
    /\ blob' = NoBlob
    /\ main' = "loop"
    /\ UNCHANGED <<daemonVars, inputVars, output, notifier, slot, cancelThread,
                   posted, ended, history>>

\* The rest of sessionDataReceived().  What comes after a cancel, from a dialog,
\* a plugin ignores or works on.
sessionDataReceived ==
    /\ ~ended
    /\ main = "enabling"
    /\ plugin' = IF plugin = "waiting" \/ blob.operation = "process" \/ "idle" \in Env
                 THEN "working" ELSE plugin
    /\ blob' = NoBlob
    /\ slot' = "startTask"
    /\ main' = "loop"
    /\ UNCHANGED <<daemonVars, inputVars, output, notifier, cancelThread, posted,
                   ended, history>>

-----------------------------------------------------------------------------
(* The plugin and the cancel thread. *)

\* result() and error() end the work.
pluginAnswers(response) ==
    /\ ~ended
    /\ main = "loop"
    /\ plugin = "working"
    /\ plugin' = "idle"
    /\ sends(response)
    /\ UNCHANGED <<daemonVars, inputVars, slot, main, blob, posted, ended, history>>

\* userActionRequired() and refreshed().
pluginAsks(response) ==
    /\ ~ended
    /\ main = "loop"
    /\ plugin = "working"
    /\ bounds.dialogs < MaxDialogs
    /\ bounds' = [bounds EXCEPT !.dialogs = @ + 1]
    /\ plugin' = "waiting"
    /\ sends(response)
    /\ UNCHANGED <<phase, canceled, answering, writeBuffer, inputVars, slot, main, blob,
                   posted, ended, history>>

\* CancelEventThread::cancel() takes four bytes, past m_inFile, and cancels
\* whatever they are; the error is posted to the main thread.  The stop that
\* the destructor writes may be among them: the process is killed then.
cancelThreadReads ==
    /\ ~ended
    /\ cancelThread
    /\ main = "enabling" => "early" \in Env
    /\ pipe # <<>>
    /\ pipe' = Tail(pipe)
    /\ history' = [history EXCEPT
           !.misread = @ \/ Head(pipe).op \notin {"cancel", "stop"},
           !.canceledEarly = @ \/ (main = "enabling" /\ plugin = "idle")]
    /\ IF plugin # "idle" \/ "idle" \in Env
       THEN plugin' = "idle" /\ posted' = posted + 1
       ELSE UNCHANGED <<plugin, posted>>
    /\ UNCHANGED <<daemonVars, inFile, output, mainVars, cancelThread, ended>>

\* Delivered by the main loop, or by the loop that waits for the thread.
errorDelivered ==
    /\ ~ended
    /\ main \in {"loop", "enabling"}
    /\ posted > 0
    /\ posted' = posted - 1
    /\ sends("error")
    /\ UNCHANGED <<daemonVars, inputVars, slot, main, blob, plugin, ended, history>>

-----------------------------------------------------------------------------
DaemonStep ==
    \/ \E n \in Pages : process(n)
    \/ cancel
    \/ \E n \in Pages, op \in {"processUi", "refresh"} : continue(op, n)
    \/ receive
    \/ destroy
    \/ kill
    \/ \E n \in 1..Len(writeBuffer) : flush(n)

MainStep ==
    \/ startTask
    \/ readBlob
    \/ blobFails
    \/ sessionDataReceived
    \/ errorDelivered

PluginStep ==
    \/ \E response \in Finals : pluginAnswers(response)
    \/ \E response \in {"ui", "refreshed"} : pluginAsks(response)

Next == DaemonStep \/ MainStep \/ PluginStep \/ cancelThreadReads

Spec == Init /\ [][Next]_vars

\* The daemon's loop writes and reads, the process' threads run, the plugin
\* ends its work; a dialog is closed by the user or its time out.
Fairness ==
    /\ WF_vars(\E n \in 1..Len(writeBuffer) : flush(n))
    /\ WF_vars(receive)
    /\ WF_vars(\E n \in Pages, op \in {"processUi", "refresh"} : continue(op, n))
    /\ WF_vars(MainStep)
    /\ WF_vars(\E response \in Finals : pluginAnswers(response))
    /\ WF_vars(cancelThreadReads)

FairSpec == Spec /\ Fairness

-----------------------------------------------------------------------------
(* Properties. *)

\* The two threads never take each other's input: the cancel thread reads
\* nothing but the opcode of a cancel, the main thread no page for an opcode
\* and no opcode for a page.  CancelEventThread::cancel() calls anything else
\* a breakage of the synchronization of the threads.
NothingMisread == ~history.misread

\* A request that nobody will answer: a page that was late has failed its
\* blob, after which the notifier stays disabled, for disableCancelThread()
\* returns early; a cancel that came before the plugin was called was lost, and
\* its dialog is one that nobody opens; what was read ahead is in m_inFile, where
\* neither the notifier nor the cancel thread looks for it; or its response has
\* more pages, for which the daemon waits at its own standard input.
Abandoned ==
    \/ history.blobFailed
    \/ history.canceledEarly /\ plugin = "waiting"
    \/ inFile # <<>>
    \/ answering

\* In all other cases no request is left at work: it ends with a final response
\* whatever the plugin asks for and whenever it is canceled, the thread that
\* is to read the next operation reads it, and no page of it is lost.
EveryOperationAnswered ==
    <>[](phase \in {"starting", "idle", "closed"} \/ Abandoned)
=============================================================================
