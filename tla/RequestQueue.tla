---------------------------- MODULE RequestQueue ----------------------------
(***************************************************************************)
(* What a session core promises to its clients, with nothing of how it is  *)
(* done: the requests are served one at a time in the order in which they  *)
(* were submitted, a request the client gives up leaves its place, and no  *)
(* request leaves without an answer.                                       *)
(***************************************************************************)
EXTENDS Naturals, Sequences

CONSTANT Requests

VARIABLES waiting,   \* the requests in the queue, the one being served first
          serving,   \* TRUE while the first of them is being served
          accepted,  \* the requests ever submitted
          answered   \* the requests with an answer

vars == <<waiting, serving, accepted, answered>>

Init ==
    /\ waiting = <<>>
    /\ serving = FALSE
    /\ accepted = {}
    /\ answered = {}

Submit(r) ==
    /\ r \notin accepted
    /\ accepted' = accepted \cup {r}
    /\ waiting' = Append(waiting, r)
    /\ UNCHANGED <<serving, answered>>

Serve ==
    /\ ~serving
    /\ waiting # <<>>
    /\ serving' = TRUE
    /\ UNCHANGED <<waiting, accepted, answered>>

\* A request given up while it is served is answered at once; the next one
\* waits until the work on it has ended.
GiveUp ==
    /\ serving
    /\ answered' = answered \cup {Head(waiting)}
    /\ UNCHANGED <<waiting, serving, accepted>>

\* The first request is finished, or refused before it was served.
Finish ==
    /\ waiting # <<>>
    /\ answered' = answered \cup {Head(waiting)}
    /\ waiting' = Tail(waiting)
    /\ serving' = FALSE
    /\ UNCHANGED accepted

\* A request given up before it was served leaves the queue.
Withdraw(i) ==
    /\ ~(serving /\ i = 1)
    /\ answered' = answered \cup {waiting[i]}
    /\ waiting' = SubSeq(waiting, 1, i - 1) \o SubSeq(waiting, i + 1, Len(waiting))
    /\ UNCHANGED <<serving, accepted>>

Next ==
    \/ \E r \in Requests : Submit(r)
    \/ Serve
    \/ GiveUp
    \/ Finish
    \/ \E i \in DOMAIN waiting : Withdraw(i)

Spec == Init /\ [][Next]_vars
=============================================================================
