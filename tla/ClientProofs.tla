---------------------------- MODULE ClientProofs ----------------------------
(***************************************************************************)
(* Theorems about the calls of the client library, for every bound on      *)
(* calls and events and whatever of Env may happen, identities queried     *)
(* before they are registered included: none is executed twice by one      *)
(* signond, none that was withdrawn is executed at all, an identity or a   *)
(* service is told of the end of each exactly once, and a service names    *)
(* the mechanisms of the method that was asked about.                      *)
(*                                                                         *)
(* They rest on ClientInv, which says where a call is.  It is in the queue *)
(* of its own proxy, on its way to signond, in the hands of signond, or    *)
(* its answer is on its way back, never in two of these places; and it has *)
(* not been executed while it may yet be sent.  Since the slots of a       *)
(* signal run inside each other, the invariant is followed through every   *)
(* operator of ClientProxy: each takes a library in which calls have their *)
(* place to another.  The last theorem needs ServiceInv besides, which     *)
(* says in what order the calls of a service are answered.                 *)
(***************************************************************************)
EXTENDS Client, FiniteSetTheorems, SequenceTheorems, WellFoundedInduction, TLAPS

-----------------------------------------------------------------------------
(* The type of the library's record *)

Ops == {"queryAvailableMechanisms", "setId", "process", "cancel", "verifyUser",
        "store", "remove", "signOut", "getInfo", "request", "queryMechanisms",
        "getAuthSessionObjectPath", "getIdentity", "registerNewIdentity"}

Results == {"ok", "refused", "Disconnected", "UnknownObject", "NoReply"}

ProxyRecord == [exists : BOOLEAN, conn : BOOLEAN, path : Nat, queue : Seq(Nat),
                status : {"Incomplete", "Ready", "Invalid"}]

CallRecord == [on : Nat, op : Ops, state : {"queued", "sent", "failing", "done"},
               path : Nat, watched : BOOLEAN, lost : BOOLEAN,
               answers : Nat, served : Nat]

Event == [type : {"reply"}, call : Nat, result : Results, path : Nat]
         \cup [type : {"infoUpdated"}, path : Nat,
               what : {"updated", "removed", "signedOut"}]
         \cup [type : {"unregistered"}, path : Nat]
         \cup [type : {"disconnected"}]
         \cup [type : {"activated"}, ok : BOOLEAN]

Library ==
    [kind : {"session", "identity", "service"}, up : BOOLEAN, online : BOOLEAN,
     service : {"unknown", "activating", "activated", "bus"}, starting : BOOLEAN,
     proxy : Seq(ProxyRecord), call : Seq(CallRecord), out : Seq(Nat), in : Seq(Event),
     registering : BOOLEAN, process : Nat,
     state : {"NeedsRegistration", "PendingRegistration", "PendingUpdate", "Ready", "Removed"},
     id : Nat, methods : Seq(Nat), asserted : BOOLEAN]

-----------------------------------------------------------------------------
(* Where a call is.  W are the calls others work on, x the proxy whose queue *)
(* is being gone through, or 0.                                              *)

In(k, seq) == \E i \in DOMAIN seq : seq[i] = k

Distinct(seq) == \A i, j \in DOMAIN seq : seq[i] = seq[j] => i = j

IsReply(e) == e.type = "reply"

Queues(s, x) ==
    \A p \in DOMAIN s.proxy \ {x} :
        /\ Distinct(s.proxy[p].queue)
        /\ \A i \in DOMAIN s.proxy[p].queue :
             LET k == s.proxy[p].queue[i]
             IN  k \in DOMAIN s.call /\ s.call[k].on = p /\ s.call[k].state = "queued"

Outgoing(s, W) ==
    /\ Distinct(s.out)
    /\ \A i \in DOMAIN s.out :
         LET k == s.out[i]
         IN  /\ k \in DOMAIN s.call \ W
             /\ s.call[k].state = "sent" /\ s.call[k].served = 0

Incoming(s, W) ==
    /\ \A i \in DOMAIN s.in :
         LET k == s.in[i].call
         IN  IsReply(s.in[i]) =>
                 /\ k \in DOMAIN s.call \ W /\ ~In(k, s.out)
                 /\ s.call[k].state = "sent"
                 /\ s.in[i].result \in RetryErrors => s.call[k].served = 0
    /\ \A i, j \in DOMAIN s.in :
         IsReply(s.in[i]) /\ IsReply(s.in[j]) /\ s.in[i].call = s.in[j].call => i = j

Working(s, W) == \A k \in W : k \in DOMAIN s.call /\ s.call[k].state = "sent"

CallOK(s, k) ==
    /\ s.call[k].on \in DOMAIN s.proxy
    /\ s.call[k].served <= 1
    /\ s.call[k].state \in {"queued", "failing"} => s.call[k].served = 0
    /\ ~s.call[k].watched => s.call[k].served = 0 /\ s.call[k].state # "sent"
    /\ s.call[k].op = "queryMechanisms" => s.kind = "service"
    /\ s.kind # "session" => s.call[k].answers = IF s.call[k].state = "done" THEN 1 ELSE 0

Withdrawn(s, C) ==
    \A k \in C : /\ k \in DOMAIN s.call
                 /\ s.call[k].served = 0 /\ s.call[k].state \in {"failing", "done"}

Placed(s, x, W, C) ==
    /\ s \in Library
    /\ Queues(s, x) /\ Outgoing(s, W) /\ Incoming(s, W) /\ Working(s, W)
    /\ \A k \in DOMAIN s.call : CallOK(s, k)
    /\ Withdrawn(s, C)

Sound(s, W, C, K) ==
    /\ Placed(s, 0, W, C)
    /\ Main \in DOMAIN s.proxy
    /\ s.process # NoCall => s.process \in DOMAIN s.call
    /\ s.kind = K

Daemon == [objects : SUBSET Nat, registered : Nat, row : BOOLEAN, next : Nat,
           working : SUBSET Nat]

ClientInv == Sound(c, d.working, canceled, c.kind) /\ d \in Daemon

-----------------------------------------------------------------------------
(* Induction over a loop, and the loops of ClientProxy *)

LEMMA Upward ==
    ASSUME NEW N \in Nat, NEW S, 0 \in S, \A n \in 0..N : n \in S /\ n < N => n + 1 \in S
    PROVE  0..N \subseteq S
<1> DEFINE B == (0..N) \ S
<1> SUFFICES ASSUME B # {} PROVE FALSE
  OBVIOUS
<1>1. B \subseteq Nat
  OBVIOUS
<1>2. PICK n \in B : \A i \in B : <<i, n>> \notin OpToRel(<, Nat)
  <2> HIDE DEF B
  <2> QED BY <1>1, WFMin, NatLessThanWellFounded
<1>3. ASSUME NEW i \in B PROVE ~(i < n)
  <2>1. i \in Nat /\ n \in Nat
    BY <1>1
  <2> HIDE DEF B
  <2> QED BY <1>2, <1>3, <2>1, Zenon DEF OpToRel
<1>4. n # 0 /\ n \in 0..N /\ n \notin S
  OBVIOUS
<1>5. n - 1 \in 0..N /\ n - 1 < n /\ n - 1 < N /\ (n - 1) + 1 = n
  BY <1>4
<1>6. n - 1 \in S
  BY <1>3, <1>5
<1> QED
  BY <1>4, <1>5, <1>6

LEMMA DoCallsLoop ==
    ASSUME NEW s, NEW queue \in Seq(Nat)
    PROVE  \E did : /\ did[0] = s
                    /\ \A n \in 1..Len(queue) : did[n] = doCall(did[n - 1], queue[n])
                    /\ doCalls(s, queue) = did[Len(queue)]
<1> DEFINE N == Len(queue)
           Loop(f) == f = [n \in 0..N |-> IF n = 0 THEN s ELSE doCall(f[n - 1], queue[n])]
           Upto(m, f) == f[0] = s /\ \A n \in 1..m : f[n] = doCall(f[n - 1], queue[n])
           S == {m \in 0..N : \E f : Upto(m, f)}
<1>0. N \in Nat
  OBVIOUS
<1>1. 0 \in S
  <2>1. Upto(0, [n \in {0} |-> s])
    OBVIOUS
  <2>2. \E f : Upto(0, f)
    BY <2>1
  <2> QED BY <2>2
<1>2. ASSUME NEW m \in 0..N, m \in S, m < N PROVE m + 1 \in S
  <2>1. PICK f : Upto(m, f)
    BY <1>2
  <2> DEFINE g == [n \in 0..N |-> IF n <= m THEN f[n] ELSE doCall(f[m], queue[m + 1])]
  <2>2. g[0] = s
    BY <2>1
  <2>3. ASSUME NEW n \in 1..m+1 PROVE g[n] = doCall(g[n - 1], queue[n])
    <3>1. CASE n <= m
      BY <3>1, <2>1, <1>2
    <3>2. CASE n = m + 1
      <4>1. g[n] = doCall(f[m], queue[m + 1]) /\ g[n - 1] = f[m]
        BY <3>2, <1>2
      <4> QED BY <4>1, <3>2
    <3> QED BY <3>1, <3>2
  <2> HIDE DEF g
  <2> QED BY <2>2, <2>3, <1>2
<1>3. N \in S
  <2> HIDE DEF S, N
  <2>1. 0..N \subseteq S
    BY <1>0, <1>1, <1>2, Upward
  <2> QED BY <1>0, <2>1
<1>4. PICK f : Upto(N, f)
  BY <1>3
<1>5. Loop([n \in 0..N |-> f[n]])
  BY <1>4
<1> DEFINE did == CHOOSE g : Loop(g)
<1>6. Loop(did)
  BY <1>5
<1>7. doCalls(s, queue) = did[N]
  BY DEF doCalls
<1>8. did[0] = s /\ \A n \in 1..N : did[n] = doCall(did[n - 1], queue[n])
  <2>1. did = [n \in 0..N |-> IF n = 0 THEN s ELSE doCall(did[n - 1], queue[n])]
    BY <1>6
  <2> HIDE DEF did, N
  <2> QED BY <1>0, <2>1
<1> QED
  BY <1>7, <1>8

LEMMA FailCallsLoop ==
    ASSUME NEW s, NEW queue \in Seq(Nat)
    PROVE  \E did : /\ did[0] = s
                    /\ \A n \in 1..Len(queue) : did[n] = fail(did[n - 1], queue[n])
                    /\ failCalls(s, queue) = did[Len(queue)]
<1> DEFINE N == Len(queue)
           Loop(f) == f = [n \in 0..N |-> IF n = 0 THEN s ELSE fail(f[n - 1], queue[n])]
           Upto(m, f) == f[0] = s /\ \A n \in 1..m : f[n] = fail(f[n - 1], queue[n])
           S == {m \in 0..N : \E f : Upto(m, f)}
<1>0. N \in Nat
  OBVIOUS
<1>1. 0 \in S
  <2>1. Upto(0, [n \in {0} |-> s])
    OBVIOUS
  <2>2. \E f : Upto(0, f)
    BY <2>1
  <2> QED BY <2>2
<1>2. ASSUME NEW m \in 0..N, m \in S, m < N PROVE m + 1 \in S
  <2>1. PICK f : Upto(m, f)
    BY <1>2
  <2> DEFINE g == [n \in 0..N |-> IF n <= m THEN f[n] ELSE fail(f[m], queue[m + 1])]
  <2>2. g[0] = s
    BY <2>1
  <2>3. ASSUME NEW n \in 1..m+1 PROVE g[n] = fail(g[n - 1], queue[n])
    <3>1. CASE n <= m
      BY <3>1, <2>1, <1>2
    <3>2. CASE n = m + 1
      <4>1. g[n] = fail(f[m], queue[m + 1]) /\ g[n - 1] = f[m]
        BY <3>2, <1>2
      <4> QED BY <4>1, <3>2
    <3> QED BY <3>1, <3>2
  <2> HIDE DEF g
  <2> QED BY <2>2, <2>3, <1>2
<1>3. N \in S
  <2> HIDE DEF S, N
  <2>1. 0..N \subseteq S
    BY <1>0, <1>1, <1>2, Upward
  <2> QED BY <1>0, <2>1
<1>4. PICK f : Upto(N, f)
  BY <1>3
<1>5. Loop([n \in 0..N |-> f[n]])
  BY <1>4
<1> DEFINE did == CHOOSE g : Loop(g)
<1>6. Loop(did)
  BY <1>5
<1>7. failCalls(s, queue) = did[N]
  BY DEF failCalls
<1>8. did[0] = s /\ \A n \in 1..N : did[n] = fail(did[n - 1], queue[n])
  <2>1. did = [n \in 0..N |-> IF n = 0 THEN s ELSE fail(did[n - 1], queue[n])]
    BY <1>6
  <2> HIDE DEF did, N
  <2> QED BY <1>0, <2>1
<1> QED
  BY <1>7, <1>8

LEMMA ConnectedLoop ==
    ASSUME NEW s, Len(s.proxy) \in Nat
    PROVE  \E did : /\ did[0] = s
                    /\ \A n \in 1..Len(s.proxy) : did[n] = setConnection(did[n - 1], n)
                    /\ connected(s) = did[Len(s.proxy)]
<1> DEFINE N == Len(s.proxy)
           Loop(f) == f = [n \in 0..N |-> IF n = 0 THEN s ELSE setConnection(f[n - 1], n)]
           Upto(m, f) == f[0] = s /\ \A n \in 1..m : f[n] = setConnection(f[n - 1], n)
           S == {m \in 0..N : \E f : Upto(m, f)}
<1>0. N \in Nat
  OBVIOUS
<1>1. 0 \in S
  <2>1. Upto(0, [n \in {0} |-> s])
    OBVIOUS
  <2>2. \E f : Upto(0, f)
    BY <2>1
  <2> QED BY <2>2
<1>2. ASSUME NEW m \in 0..N, m \in S, m < N PROVE m + 1 \in S
  <2>1. PICK f : Upto(m, f)
    BY <1>2
  <2> DEFINE g == [n \in 0..N |-> IF n <= m THEN f[n] ELSE setConnection(f[m], m + 1)]
  <2>2. g[0] = s
    BY <2>1
  <2>3. ASSUME NEW n \in 1..m+1 PROVE g[n] = setConnection(g[n - 1], n)
    <3>1. CASE n <= m
      BY <3>1, <2>1, <1>2
    <3>2. CASE n = m + 1
      <4>1. g[n] = setConnection(f[m], m + 1) /\ g[n - 1] = f[m]
        BY <3>2, <1>2
      <4> QED BY <4>1, <3>2
    <3> QED BY <3>1, <3>2
  <2> HIDE DEF g
  <2> QED BY <2>2, <2>3, <1>2
<1>3. N \in S
  <2> HIDE DEF S, N
  <2>1. 0..N \subseteq S
    BY <1>0, <1>1, <1>2, Upward
  <2> QED BY <1>0, <2>1
<1>4. PICK f : Upto(N, f)
  BY <1>3
<1>5. Loop([n \in 0..N |-> f[n]])
  BY <1>4
<1> DEFINE did == CHOOSE g : Loop(g)
<1>6. Loop(did)
  BY <1>5
<1>7. connected(s) = did[N]
  BY DEF connected
<1>8. did[0] = s /\ \A n \in 1..N : did[n] = setConnection(did[n - 1], n)
  <2>1. did = [n \in 0..N |-> IF n = 0 THEN s ELSE setConnection(did[n - 1], n)]
    BY <1>6
  <2> HIDE DEF did, N
  <2> QED BY <1>0, <2>1
<1> QED
  BY <1>7, <1>8

LEMMA DisconnectedLoop ==
    ASSUME NEW s, Len(s.proxy) \in Nat
    PROVE  \E did : /\ did[0] = s
                    /\ \A n \in 1..Len(s.proxy) : did[n] = setDisconnected(did[n - 1], n)
                    /\ disconnected(s) = did[Len(s.proxy)]
<1> DEFINE N == Len(s.proxy)
           Loop(f) == f = [n \in 0..N |-> IF n = 0 THEN s ELSE setDisconnected(f[n - 1], n)]
           Upto(m, f) == f[0] = s /\ \A n \in 1..m : f[n] = setDisconnected(f[n - 1], n)
           S == {m \in 0..N : \E f : Upto(m, f)}
<1>0. N \in Nat
  OBVIOUS
<1>1. 0 \in S
  <2>1. Upto(0, [n \in {0} |-> s])
    OBVIOUS
  <2>2. \E f : Upto(0, f)
    BY <2>1
  <2> QED BY <2>2
<1>2. ASSUME NEW m \in 0..N, m \in S, m < N PROVE m + 1 \in S
  <2>1. PICK f : Upto(m, f)
    BY <1>2
  <2> DEFINE g == [n \in 0..N |-> IF n <= m THEN f[n] ELSE setDisconnected(f[m], m + 1)]
  <2>2. g[0] = s
    BY <2>1
  <2>3. ASSUME NEW n \in 1..m+1 PROVE g[n] = setDisconnected(g[n - 1], n)
    <3>1. CASE n <= m
      BY <3>1, <2>1, <1>2
    <3>2. CASE n = m + 1
      <4>1. g[n] = setDisconnected(f[m], m + 1) /\ g[n - 1] = f[m]
        BY <3>2, <1>2
      <4> QED BY <4>1, <3>2
    <3> QED BY <3>1, <3>2
  <2> HIDE DEF g
  <2> QED BY <2>2, <2>3, <1>2
<1>3. N \in S
  <2> HIDE DEF S, N
  <2>1. 0..N \subseteq S
    BY <1>0, <1>1, <1>2, Upward
  <2> QED BY <1>0, <2>1
<1>4. PICK f : Upto(N, f)
  BY <1>3
<1>5. Loop([n \in 0..N |-> f[n]])
  BY <1>4
<1> DEFINE did == CHOOSE g : Loop(g)
<1>6. Loop(did)
  BY <1>5
<1>7. disconnected(s) = did[N]
  BY DEF disconnected
<1>8. did[0] = s /\ \A n \in 1..N : did[n] = setDisconnected(did[n - 1], n)
  <2>1. did = [n \in 0..N |-> IF n = 0 THEN s ELSE setDisconnected(did[n - 1], n)]
    BY <1>6
  <2> HIDE DEF did, N
  <2> QED BY <1>0, <2>1
<1> QED
  BY <1>7, <1>8

-----------------------------------------------------------------------------
(* The record of the library *)

LEMMA LibraryFields ==
    ASSUME NEW s \in Library
    PROVE  /\ s.kind \in {"session", "identity", "service"}
           /\ s.online \in BOOLEAN
           /\ s.proxy \in Seq(ProxyRecord) /\ s.call \in Seq(CallRecord)
           /\ s.out \in Seq(Nat) /\ s.in \in Seq(Event)
           /\ s.process \in Nat /\ s.id \in Nat /\ s.methods \in Seq(Nat)
BY DEF Library

LEMMA CallFields ==
    ASSUME NEW s \in Library, NEW k \in DOMAIN s.call
    PROVE  /\ s.call[k] \in CallRecord /\ k \in Nat \ {0}
           /\ s.call[k].on \in Nat /\ s.call[k].path \in Nat
           /\ s.call[k].op \in Ops
           /\ s.call[k].state \in {"queued", "sent", "failing", "done"}
           /\ s.call[k].watched \in BOOLEAN /\ s.call[k].lost \in BOOLEAN
           /\ s.call[k].answers \in Nat /\ s.call[k].served \in Nat
<1>1. s.call[k] \in CallRecord /\ k \in Nat \ {0}
  BY LibraryFields
<1> QED
  BY <1>1 DEF CallRecord

LEMMA ProxyFields ==
    ASSUME NEW s \in Library, NEW p \in DOMAIN s.proxy
    PROVE  /\ s.proxy[p] \in ProxyRecord /\ p \in Nat \ {0}
           /\ s.proxy[p].path \in Nat /\ s.proxy[p].queue \in Seq(Nat)
           /\ s.proxy[p].exists \in BOOLEAN /\ s.proxy[p].conn \in BOOLEAN
<1>1. s.proxy[p] \in ProxyRecord /\ p \in Nat \ {0}
  BY LibraryFields
<1> QED
  BY <1>1 DEF ProxyRecord

LEMMA ReplyIsEvent ==
    ASSUME NEW k \in Nat, NEW result \in Results, NEW path \in Nat
    PROVE  /\ Reply(k, result, path) \in Event
           /\ IsReply(Reply(k, result, path))
           /\ Reply(k, result, path).call = k /\ Reply(k, result, path).result = result
BY DEF Reply, Event, IsReply

LEMMA CallsAltered ==
    ASSUME NEW s \in Library, NEW v \in Seq(CallRecord)
    PROVE  /\ [s EXCEPT !.call = v] \in Library
           /\ [s EXCEPT !.call = v].call = v
           /\ [s EXCEPT !.call = v].proxy = s.proxy
           /\ [s EXCEPT !.call = v].out = s.out
           /\ [s EXCEPT !.call = v].in = s.in
           /\ [s EXCEPT !.call = v].kind = s.kind
BY DEF Library

MadeCall(s, k) == [s.call[k] EXCEPT !.state = "sent", !.watched = TRUE, !.lost = FALSE,
                                    !.path = s.proxy[s.call[k].on].path]

LEMMA DoCallEffect ==
    ASSUME NEW s \in Library, NEW k \in DOMAIN s.call, s.call[k].on \in DOMAIN s.proxy
    PROVE  LET t == doCall(s, k) IN
           /\ t \in Library
           /\ t.call = [s.call EXCEPT ![k] = MadeCall(s, k)]
           /\ t.proxy = s.proxy /\ t.kind = s.kind /\ t.process = s.process
           /\ t.online = s.online /\ t.up = s.up /\ t.service = s.service
           /\ \/ /\ t.out = Append(s.out, k) /\ t.in = s.in
              \/ /\ t.out = s.out
                 /\ t.in = Append(s.in, Reply(k, "Disconnected", NoPath))
<1>1. k \in Nat /\ s.call[k] \in CallRecord /\ s.proxy[s.call[k].on].path \in Nat
  BY CallFields, ProxyFields
<1>2. MadeCall(s, k) \in CallRecord
  BY <1>1 DEF MadeCall, CallRecord
<1>3. [s.call EXCEPT ![k] = MadeCall(s, k)] \in Seq(CallRecord)
  BY <1>2, LibraryFields
<1> DEFINE u == [s EXCEPT !.call[k] =
                [@ EXCEPT !.state = "sent", !.watched = TRUE, !.lost = FALSE,
                          !.path = s.proxy[s.call[k].on].path]]
<1>4. u = [s EXCEPT !.call = [s.call EXCEPT ![k] = MadeCall(s, k)]]
  BY DEF MadeCall, Library
<1>5. u \in Library /\ u.call = [s.call EXCEPT ![k] = MadeCall(s, k)]
      /\ u.proxy = s.proxy /\ u.kind = s.kind /\ u.process = s.process
      /\ u.online = s.online /\ u.up = s.up /\ u.service = s.service /\ u.out = s.out /\ u.in = s.in
  <2> HIDE DEF u
  <2> QED BY <1>3, <1>4 DEF Library
<1>6. Reply(k, "Disconnected", NoPath) \in Event
  BY <1>1, ReplyIsEvent DEF Results, NoPath
<1>7. doCall(s, k) = IF s.online THEN [u EXCEPT !.out = Append(@, k)]
                                 ELSE [u EXCEPT !.in = Append(@, Reply(k, "Disconnected", NoPath))]
  BY DEF doCall
<1>8. Append(s.out, k) \in Seq(Nat) /\ Append(s.in, Reply(k, "Disconnected", NoPath)) \in Seq(Event)
  BY <1>1, <1>6, LibraryFields
<1> HIDE DEF u
<1>9. CASE s.online
  <2>1. doCall(s, k) = [u EXCEPT !.out = Append(s.out, k)]
    BY <1>7, <1>9, <1>5
  <2> DEFINE o == Append(s.out, k)
  <2>2. o \in Seq(Nat)
    BY <1>8
  <2> HIDE DEF o
  <2>3. [u EXCEPT !.out = o] \in Library
    BY <2>2, <1>5 DEF Library
  <2>4. LET t == [u EXCEPT !.out = o] IN
        /\ t.out = o /\ t.in = u.in /\ t.call = u.call /\ t.proxy = u.proxy
        /\ t.kind = u.kind /\ t.process = u.process /\ t.online = u.online
        /\ t.up = u.up /\ t.service = u.service
    BY <1>5 DEF Library
  <2> QED BY <2>1, <2>3, <2>4, <1>5 DEF o
<1>10. CASE ~s.online
  <2>1. doCall(s, k) = [u EXCEPT !.in = Append(s.in, Reply(k, "Disconnected", NoPath))]
    BY <1>7, <1>10, <1>5
  <2> DEFINE i == Append(s.in, Reply(k, "Disconnected", NoPath))
  <2>2. i \in Seq(Event)
    BY <1>8
  <2> HIDE DEF i
  <2>3. [u EXCEPT !.in = i] \in Library
    BY <2>2, <1>5 DEF Library
  <2>4. LET t == [u EXCEPT !.in = i] IN
        /\ t.in = i /\ t.out = u.out /\ t.call = u.call /\ t.proxy = u.proxy
        /\ t.kind = u.kind /\ t.process = u.process /\ t.online = u.online
        /\ t.up = u.up /\ t.service = u.service
    BY <1>5 DEF Library
  <2> QED BY <2>1, <2>3, <2>4, <1>5 DEF i
<1> QED
  BY <1>9, <1>10

LEMMA PlacedFacts ==
    ASSUME NEW s, NEW x, NEW W, NEW C, Placed(s, x, W, C), NEW k \in DOMAIN s.call
    PROVE  /\ s \in Library /\ s.call[k].on \in DOMAIN s.proxy
           /\ s.call[k].state \notin {"failing", "done"} => k \notin C
           /\ s.call[k].state # "sent" => k \notin W /\ ~In(k, s.out)
           /\ s.call[k].state # "sent" =>
                \A i \in DOMAIN s.in : IsReply(s.in[i]) => s.in[i].call # k
           /\ s.call[k].state # "queued" =>
                \A p \in DOMAIN s.proxy \ {x} : ~In(k, s.proxy[p].queue)
<1>1. s \in Library /\ s.call[k].on \in DOMAIN s.proxy
  BY DEF Placed, CallOK
<1>2. s.call[k].state \notin {"failing", "done"} => k \notin C
  BY DEF Placed, Withdrawn
<1>3. s.call[k].state # "sent" => k \notin W
  BY DEF Placed, Working
<1>4. s.call[k].state # "sent" => ~In(k, s.out)
  BY DEF Placed, Outgoing, In
<1>5. s.call[k].state # "sent" =>
                \A i \in DOMAIN s.in : IsReply(s.in[i]) => s.in[i].call # k
  BY DEF Placed, Incoming
<1>6. s.call[k].state # "queued" =>
                \A p \in DOMAIN s.proxy \ {x} : ~In(k, s.proxy[p].queue)
  BY DEF Placed, Queues, In
<1> QED
  BY <1>1, <1>2, <1>3, <1>4, <1>5, <1>6

\* A queued call that is made, and is no more in a queue but that gone through
LEMMA DoCallPlaced ==
    ASSUME NEW s, NEW x, NEW W, NEW C, Placed(s, x, W, C), NEW k \in DOMAIN s.call,
           s.call[k].state = "queued",
           \A p \in DOMAIN s.proxy \ {x} : ~In(k, s.proxy[p].queue)
    PROVE  Placed(doCall(s, k), x, W, C)
<1> DEFINE t == doCall(s, k)
<1>1. s \in Library /\ s.call[k].on \in DOMAIN s.proxy
  BY PlacedFacts
<1>2. /\ t \in Library
      /\ t.call = [s.call EXCEPT ![k] = MadeCall(s, k)]
      /\ t.proxy = s.proxy /\ t.kind = s.kind
      /\ \/ /\ t.out = Append(s.out, k) /\ t.in = s.in
         \/ /\ t.out = s.out
            /\ t.in = Append(s.in, Reply(k, "Disconnected", NoPath))
  BY <1>1, DoCallEffect
<1> HIDE DEF t
<1>3. /\ DOMAIN t.call = DOMAIN s.call
      /\ \A j \in DOMAIN s.call : j # k => t.call[j] = s.call[j]
      /\ t.call[k].state = "sent" /\ t.call[k].watched = TRUE
      /\ t.call[k].on = s.call[k].on /\ t.call[k].served = s.call[k].served
      /\ t.call[k].answers = s.call[k].answers /\ t.call[k].op = s.call[k].op
  <2>1. s.call[k] \in CallRecord
    BY <1>1, CallFields
  <2> QED BY <1>2, <2>1 DEF MadeCall, CallRecord
<1>4. s.call[k].served = 0 /\ CallOK(s, k)
  BY DEF Placed, CallOK
<1>5. k \notin W /\ ~In(k, s.out) /\ k \notin C
      /\ \A i \in DOMAIN s.in : IsReply(s.in[i]) => s.in[i].call # k
  BY PlacedFacts
<1>6. s.out \in Seq(Nat) /\ s.in \in Seq(Event) /\ k \in Nat
  BY <1>1, LibraryFields, CallFields
<1> DEFINE e == Reply(k, "Disconnected", NoPath)
<1>7. IsReply(e) /\ e.call = k /\ e.result \in RetryErrors
  BY SMTT(20) DEF Reply, IsReply, RetryErrors
<1> HIDE DEF e
<1>8. Queues(t, x)
  <2>1. ASSUME NEW p \in DOMAIN s.proxy \ {x}, NEW i \in DOMAIN s.proxy[p].queue
        PROVE  LET j == s.proxy[p].queue[i] IN
               j \in DOMAIN s.call /\ j # k /\ s.call[j].on = p /\ s.call[j].state = "queued"
    BY <2>1 DEF Placed, Queues, In
  <2>2. \A p \in DOMAIN s.proxy \ {x} : Distinct(s.proxy[p].queue)
    BY DEF Placed, Queues
  <2> QED BY <1>2, <1>3, <2>1, <2>2 DEF Queues
<1>9. Outgoing(t, W)
  <2>1. CASE t.out = s.out
    BY <2>1, <1>3, <1>5 DEF Placed, Outgoing, In
  <2>2. CASE t.out = Append(s.out, k)
    <3>1. Distinct(t.out)
      BY <2>2, <1>5, <1>6 DEF Placed, Outgoing, In, Distinct
    <3>2. ASSUME NEW i \in DOMAIN t.out
          PROVE  /\ t.out[i] \in DOMAIN t.call \ W
                 /\ t.call[t.out[i]].state = "sent" /\ t.call[t.out[i]].served = 0
      <4>1. CASE i \in DOMAIN s.out
        <5>1. t.out[i] = s.out[i] /\ s.out[i] # k
          BY <4>1, <2>2, <1>5, <1>6 DEF In
        <5> QED BY <4>1, <5>1, <1>3 DEF Placed, Outgoing
      <4>2. CASE i \notin DOMAIN s.out
        <5>1. t.out[i] = k
          BY <4>2, <2>2, <1>6
        <5> QED BY <5>1, <1>3, <1>4, <1>5
      <4> QED BY <4>1, <4>2
    <3> QED BY <3>1, <3>2 DEF Outgoing
  <2> QED BY <1>2, <2>1, <2>2
<1>10. Incoming(t, W)
  <2>1. CASE t.out = Append(s.out, k) /\ t.in = s.in
    <3>1. \A j : j # k /\ ~In(j, s.out) => ~In(j, t.out)
      BY <2>1, <1>6 DEF In
    <3> QED BY <2>1, <3>1, <1>3, <1>5 DEF Placed, Incoming
  <2>2. CASE t.out = s.out /\ t.in = Append(s.in, e)
    <3>1. ASSUME NEW i \in DOMAIN t.in, IsReply(t.in[i])
          PROVE  /\ t.in[i].call \in DOMAIN t.call \ W /\ ~In(t.in[i].call, t.out)
                 /\ t.call[t.in[i].call].state = "sent"
                 /\ t.in[i].result \in RetryErrors => t.call[t.in[i].call].served = 0
      <4>1. CASE i \in DOMAIN s.in
        <5>1. t.in[i] = s.in[i] /\ s.in[i].call # k
          BY <4>1, <3>1, <2>2, <1>5, <1>6
        <5> QED BY <4>1, <5>1, <3>1, <2>2, <1>3 DEF Placed, Incoming
      <4>2. CASE i \notin DOMAIN s.in
        <5>1. t.in[i] = e
          BY <4>2, <2>2, <1>6
        <5> QED BY <5>1, <1>3, <1>4, <1>5, <1>7, <2>2
      <4> QED BY <4>1, <4>2
    <3>2. ASSUME NEW i \in DOMAIN t.in, NEW j \in DOMAIN t.in, IsReply(t.in[i]),
                 IsReply(t.in[j]), t.in[i].call = t.in[j].call
          PROVE  i = j
      <4>1. DOMAIN t.in = 1..Len(s.in) + 1 /\ DOMAIN s.in = 1..Len(s.in) /\ Len(s.in) \in Nat
            /\ t.in[Len(s.in) + 1] = e /\ \A n \in 1..Len(s.in) : t.in[n] = s.in[n]
        BY <2>2, <1>6
      <4>2. CASE i \in DOMAIN s.in /\ j \in DOMAIN s.in
        BY <4>1, <4>2, <3>2 DEF Placed, Incoming
      <4>3. CASE i \notin DOMAIN s.in /\ j \notin DOMAIN s.in
        BY <4>1, <4>3
      <4>4. CASE i \in DOMAIN s.in /\ j \notin DOMAIN s.in
        <5>1. t.in[i] = s.in[i] /\ t.in[j] = e
          BY <4>1, <4>4
        <5> QED BY <5>1, <4>4, <3>2, <1>5, <1>7
      <4>5. CASE i \notin DOMAIN s.in /\ j \in DOMAIN s.in
        <5>1. t.in[j] = s.in[j] /\ t.in[i] = e
          BY <4>1, <4>5
        <5> QED BY <5>1, <4>5, <3>2, <1>5, <1>7
      <4> QED BY <4>2, <4>3, <4>4, <4>5
    <3> QED BY <3>1, <3>2 DEF Incoming
  <2> QED BY <1>2, <2>1, <2>2 DEF e
<1>11. Working(t, W)
  BY <1>3, <1>5 DEF Placed, Working
<1>12. \A j \in DOMAIN t.call : CallOK(t, j)
  BY <1>2, <1>3, <1>4 DEF Placed, CallOK
<1>13. Withdrawn(t, C)
  BY <1>3, <1>5 DEF Placed, Withdrawn
<1> QED
  BY <1>2, <1>8, <1>9, <1>10, <1>11, <1>12, <1>13 DEF Placed, t

\* What the functions of a proxy leave alone
Stays(s, t) ==
    /\ t \in Library
    /\ t.kind = s.kind /\ t.process \in {s.process, NoCall}
    /\ DOMAIN t.call = DOMAIN s.call /\ DOMAIN t.proxy = DOMAIN s.proxy

LEMMA StaysOn ==
    ASSUME NEW r, NEW s, NEW t, Stays(r, s), Stays(s, t)
    PROVE  Stays(r, t)
BY DEF Stays

\* What the owner keeps does not say where a call is.
LEMMA SamePlaced ==
    ASSUME NEW s, NEW t \in Library, NEW x, NEW W, NEW C, Placed(s, x, W, C),
           t.kind = s.kind, t.call = s.call, t.proxy = s.proxy, t.out = s.out, t.in = s.in
    PROVE  Placed(t, x, W, C)
BY DEF Placed, Queues, Outgoing, Incoming, Working, CallOK, Withdrawn

LEMMA ProxyAltered ==
    ASSUME NEW s \in Library, NEW p \in DOMAIN s.proxy, NEW r \in ProxyRecord
    PROVE  LET t == [s EXCEPT !.proxy[p] = r] IN
           /\ Stays(s, t)
           /\ t.proxy = [s.proxy EXCEPT ![p] = r]
           /\ t.call = s.call /\ t.out = s.out /\ t.in = s.in /\ t.process = s.process
           /\ t.online = s.online /\ t.service = s.service /\ t.registering = s.registering
<1>1. [s.proxy EXCEPT ![p] = r] \in Seq(ProxyRecord)
  BY LibraryFields
<1>2. [s EXCEPT !.proxy[p] = r] = [s EXCEPT !.proxy = [s.proxy EXCEPT ![p] = r]]
  BY DEF Library
<1>3. [s EXCEPT !.proxy = [s.proxy EXCEPT ![p] = r]] \in Library
  BY <1>1 DEF Library
<1> QED
  BY <1>2, <1>3 DEF Library, Stays

\* A proxy that keeps its queue, or that has none when it has been gone through
LEMMA ProxyPlaced ==
    ASSUME NEW s, NEW x, NEW W, NEW C, Placed(s, x, W, C), NEW p \in DOMAIN s.proxy,
           NEW r \in ProxyRecord, NEW y,
           \/ r.queue = s.proxy[p].queue /\ y = x
           \/ r.queue = <<>> /\ y = 0 /\ x \in {0, p}
    PROVE  /\ Placed([s EXCEPT !.proxy[p] = r], y, W, C)
           /\ Stays(s, [s EXCEPT !.proxy[p] = r])
<1> DEFINE t == [s EXCEPT !.proxy[p] = r]
<1>1. s \in Library
  BY DEF Placed
<1>2. /\ Stays(s, t)
      /\ t.proxy = [s.proxy EXCEPT ![p] = r]
      /\ t.call = s.call /\ t.out = s.out /\ t.in = s.in
  BY <1>1, ProxyAltered
<1> HIDE DEF t
<1>3. t \in Library /\ t.kind = s.kind /\ DOMAIN t.proxy = DOMAIN s.proxy
  BY <1>2 DEF Stays
<1>4. Queues(t, y)
  <2>1. ASSUME NEW j \in DOMAIN t.proxy \ {y}
        PROVE  \/ t.proxy[j].queue = <<>>
               \/ j \in DOMAIN s.proxy \ {x} /\ t.proxy[j].queue = s.proxy[j].queue
    BY <1>2, <1>3
  <2>2. ASSUME NEW j \in DOMAIN t.proxy \ {y}
        PROVE  /\ Distinct(t.proxy[j].queue)
               /\ \A i \in DOMAIN t.proxy[j].queue :
                    LET k == t.proxy[j].queue[i]
                    IN  k \in DOMAIN t.call /\ t.call[k].on = j /\ t.call[k].state = "queued"
    <3>1. CASE t.proxy[j].queue = <<>>
      BY <3>1 DEF Distinct
    <3>2. CASE j \in DOMAIN s.proxy \ {x} /\ t.proxy[j].queue = s.proxy[j].queue
      BY <3>2, <1>2 DEF Placed, Queues
    <3> QED BY <2>1, <3>1, <3>2
  <2> QED BY <2>2 DEF Queues
<1>5. Outgoing(t, W) /\ Incoming(t, W) /\ Working(t, W) /\ Withdrawn(t, C)
  BY <1>2 DEF Placed, Outgoing, Incoming, Working, Withdrawn
<1>6. \A k \in DOMAIN t.call : CallOK(t, k)
  BY <1>2, <1>3 DEF Placed, CallOK
<1> QED
  BY <1>2, <1>3, <1>4, <1>5, <1>6 DEF Placed, t

LEMMA DoCallStays ==
    ASSUME NEW s \in Library, NEW k \in DOMAIN s.call, s.call[k].on \in DOMAIN s.proxy
    PROVE  Stays(s, doCall(s, k)) /\ doCall(s, k).proxy = s.proxy
<1> DEFINE t == doCall(s, k)
<1>1. /\ t \in Library
      /\ t.call = [s.call EXCEPT ![k] = MadeCall(s, k)]
      /\ t.proxy = s.proxy /\ t.kind = s.kind /\ t.process = s.process
  BY DoCallEffect
<1> QED
  BY <1>1 DEF Stays

LEMMA DoCallsPlaced ==
    ASSUME NEW s, NEW W, NEW C, Placed(s, 0, W, C), NEW p \in DOMAIN s.proxy
    PROVE  LET t == doCalls(s, s.proxy[p].queue)
           IN  Placed(t, p, W, C) /\ Stays(s, t) /\ t.proxy = s.proxy
<1> DEFINE q == s.proxy[p].queue
           N == Len(q)
<1>1. s \in Library
  BY DEF Placed
<1>2. q \in Seq(Nat) /\ p # 0
  BY <1>1, ProxyFields
<1>3. PICK did : /\ did[0] = s
                 /\ \A n \in 1..N : did[n] = doCall(did[n - 1], q[n])
                 /\ doCalls(s, q) = did[N]
  BY <1>2, DoCallsLoop
<1>4. /\ Distinct(q)
      /\ \A i \in 1..N : q[i] \in DOMAIN s.call /\ s.call[q[i]].on = p
                         /\ s.call[q[i]].state = "queued"
  BY <1>2 DEF Placed, Queues
<1> DEFINE Did(n) == /\ Placed(did[n], p, W, C) /\ Stays(s, did[n])
                     /\ did[n].proxy = s.proxy
                     /\ \A i \in n+1..N : did[n].call[q[i]] = s.call[q[i]]
           S == {n \in 0..N : Did(n)}
<1>5. 0 \in S
  <2>1. \A j \in DOMAIN s.proxy : j # 0
    BY <1>1, ProxyFields
  <2>2. Queues(s, p)
    BY <2>1 DEF Placed, Queues
  <2>3. Placed(s, p, W, C)
    BY <2>2 DEF Placed
  <2>4. Stays(s, s)
    BY <1>1 DEF Stays
  <2>5. Did(0)
    BY <1>3, <2>3, <2>4
  <2> HIDE DEF Did
  <2> QED BY <1>2, <2>5
<1>6. ASSUME NEW n \in 0..N, n \in S, n < N PROVE n + 1 \in S
  <2> DEFINE u == did[n]
             k == q[n + 1]
  <2>1. Placed(u, p, W, C) /\ Stays(s, u) /\ u.proxy = s.proxy
        /\ \A i \in n+1..N : u.call[q[i]] = s.call[q[i]]
    BY <1>6
  <2>2. n + 1 \in 1..N /\ n + 1 \in n+1..N /\ (n + 1) - 1 = n
    BY <1>2, <1>6
  <2>3. did[n + 1] = doCall(u, k)
    BY <1>3, <2>2
  <2>4. k \in DOMAIN u.call /\ u.call[k].state = "queued" /\ u.call[k].on = p
    BY <2>1, <2>2, <1>4 DEF Stays
  <2>5. u \in Library
    BY <2>1 DEF Stays
  <2> HIDE DEF u, k
  <2>6. \A j \in DOMAIN u.proxy \ {p} : ~In(k, u.proxy[j].queue)
    BY <2>1, <2>4 DEF Placed, Queues, In
  <2>7. Placed(doCall(u, k), p, W, C)
    BY <2>1, <2>4, <2>6, DoCallPlaced
  <2>8. Stays(u, doCall(u, k)) /\ doCall(u, k).proxy = u.proxy
        /\ doCall(u, k).call = [u.call EXCEPT ![k] = MadeCall(u, k)]
    BY <2>1, <2>4, <2>5, DoCallStays, DoCallEffect
  <2>9. ASSUME NEW i \in (n+1)+1..N PROVE doCall(u, k).call[q[i]] = s.call[q[i]]
    <3>1. i \in 1..N /\ i \in n+1..N /\ i # n + 1
      BY <1>2, <1>6
    <3>2. q[i] # k /\ q[i] \in DOMAIN u.call
      BY <3>1, <2>2, <1>4, <2>1, <1>2 DEF Distinct, k, Stays
    <3> QED BY <3>1, <3>2, <2>1, <2>8
  <2>10. Stays(s, doCall(u, k))
    BY <2>1, <2>8, StaysOn
  <2>11. Did(n + 1)
    BY <2>1, <2>3, <2>7, <2>8, <2>9, <2>10
  <2> HIDE DEF Did
  <2> QED BY <2>2, <2>11
<1>7. N \in S
  <2>1. N \in Nat
    BY <1>2
  <2> HIDE DEF S, N
  <2>2. 0..N \subseteq S
    BY <2>1, <1>5, <1>6, Upward
  <2> QED BY <2>1, <2>2
<1> QED
  BY <1>3, <1>7

LEMMA ProxyEmptied ==
    ASSUME NEW r \in ProxyRecord, NEW status \in {"Incomplete", "Ready", "Invalid"}
    PROVE  LET e == [r EXCEPT !.status = status, !.queue = <<>>]
           IN  e \in ProxyRecord /\ e.queue = <<>>
<1>1. <<>> \in Seq(Nat)
  OBVIOUS
<1> DEFINE none == <<>>
<1>2. none \in Seq(Nat)
  BY <1>1
<1> HIDE DEF none
<1>3. LET e == [r EXCEPT !.status = status, !.queue = none]
      IN  e \in ProxyRecord /\ e.queue = none
  BY <1>2 DEF ProxyRecord
<1> QED
  BY <1>3 DEF none

LEMMA ReadyPlaced ==
    ASSUME NEW s, NEW W, NEW C, Placed(s, 0, W, C), NEW p \in DOMAIN s.proxy
    PROVE  Placed(Ready(s, p), 0, W, C) /\ Stays(s, Ready(s, p))
<1> DEFINE t == doCalls(s, s.proxy[p].queue)
           r == [t.proxy[p] EXCEPT !.status = "Ready", !.queue = <<>>]
<1>1. Placed(t, p, W, C) /\ Stays(s, t)
  BY DoCallsPlaced
<1>2. t \in Library /\ p \in DOMAIN t.proxy
  BY <1>1 DEF Stays
<1> HIDE DEF t
<1>3. t.proxy[p] \in ProxyRecord
  BY <1>2, ProxyFields
<1>4. r \in ProxyRecord /\ r.queue = <<>>
  BY <1>3, ProxyEmptied
<1>5. Ready(s, p) = [t EXCEPT !.proxy[p] = r]
  BY <1>2 DEF Ready, Library, t
<1> HIDE DEF r
<1>6. Placed([t EXCEPT !.proxy[p] = r], 0, W, C) /\ Stays(t, [t EXCEPT !.proxy[p] = r])
  BY <1>1, <1>2, <1>4, ProxyPlaced
<1> QED
  BY <1>1, <1>5, <1>6, StaysOn

LEMMA MinIn == ASSUME NEW S, S \subseteq Nat, S # {} PROVE Min(S) \in S
<1>1. PICK n \in S : \A i \in S : <<i, n>> \notin OpToRel(<, Nat)
  BY WFMin, NatLessThanWellFounded
<1>2. ASSUME NEW i \in S PROVE ~(i < n)
  BY <1>1, <1>2, Zenon DEF OpToRel
<1>3. \A i \in S : n <= i
  BY <1>2
<1> QED
  BY <1>3, Zenon DEF Min

LEMMA Removed ==
    ASSUME NEW q \in Seq(Nat), NEW k
    PROVE  LET r == RemoveFirst(q, k) IN
           /\ r \in Seq(Nat)
           /\ \A i \in DOMAIN r : \E j \in DOMAIN q : r[i] = q[j]
           /\ Distinct(q) => Distinct(r) /\ ~In(k, r)
<1> DEFINE r == RemoveFirst(q, k)
           I == {i \in 1..Len(q) : q[i] = k}
           m == Min(I)
<1>1. CASE ~ \E i \in 1..Len(q) : q[i] = k
  <2>1. r = q
    BY <1>1 DEF RemoveFirst
  <2> QED BY <1>1, <2>1 DEF In
<1>2. CASE \E i \in 1..Len(q) : q[i] = k
  <2>1. I # {} /\ I \subseteq Nat
    BY <1>2
  <2>2. m \in I
    <3> HIDE DEF I
    <3> QED BY <2>1, MinIn
  <2>3. SelectInSeq(q, LAMBDA v : v = k) = m
    BY <2>1 DEF SelectInSeq
  <2>4. r = RemoveAt(q, m)
    BY <1>2, <2>3 DEF RemoveFirst
  <2>5. m \in 1..Len(q) /\ q[m] = k
    BY <2>2
  <2> HIDE DEF m, r
  <2>6. /\ r \in Seq(Nat) /\ Len(r) = Len(q) - 1
        /\ \A i \in 1..Len(r) : r[i] = IF i < m THEN q[i] ELSE q[i + 1]
    <3> DEFINE front == SubSeq(q, 1, m - 1)
               back  == SubSeq(q, m + 1, Len(q))
    <3>1. r = front \o back
      BY <2>4 DEF RemoveAt
    <3>2. /\ front \in Seq(Nat) /\ Len(front) = m - 1
          /\ \A i \in 1..m-1 : front[i] = q[i]
      BY <2>5
    <3>3. /\ back \in Seq(Nat) /\ Len(back) = Len(q) - m
          /\ \A i \in 1..Len(q)-m : back[i] = q[m + i]
      BY <2>5
    <3>4. m \in Nat /\ Len(q) \in Nat /\ m >= 1 /\ m <= Len(q)
      BY <2>5
    <3> HIDE DEF front, back
    <3>5. /\ front \o back \in Seq(Nat) /\ Len(front \o back) = Len(q) - 1
          /\ \A i \in 1..Len(q)-1 :
                (front \o back)[i] = IF i <= m - 1 THEN front[i] ELSE back[i - (m - 1)]
      <4>1. /\ front \o back \in Seq(Nat)
            /\ Len(front \o back) = Len(front) + Len(back)
            /\ \A i \in 1..Len(front)+Len(back) :
                  (front \o back)[i] = IF i <= Len(front) THEN front[i] ELSE back[i - Len(front)]
        BY <3>2, <3>3, ConcatProperties
      <4>2. Len(front) = m - 1 /\ Len(front) + Len(back) = Len(q) - 1
        BY <3>2, <3>3, <3>4
      <4> QED BY <4>1, <4>2
    <3>6. ASSUME NEW i \in 1..Len(q)-1
          PROVE  (front \o back)[i] = IF i < m THEN q[i] ELSE q[i + 1]
      <4>1. CASE i < m
        BY <3>2, <3>4, <3>5, <4>1
      <4>2. CASE ~(i < m)
        <5>1. i - (m - 1) \in 1..Len(q)-m /\ m + (i - (m - 1)) = i + 1 /\ ~(i <= m - 1)
          BY <3>4, <4>2
        <5> QED BY <3>3, <3>5, <4>2, <5>1
      <4> QED BY <4>1, <4>2
    <3> QED BY <3>1, <3>5, <3>6
  <2>7. ASSUME NEW i \in DOMAIN r
        PROVE  \E j \in DOMAIN q : r[i] = q[j] /\ j = (IF i < m THEN i ELSE i + 1)
    <3>1. /\ Len(q) \in Nat /\ DOMAIN q = 1..Len(q) /\ DOMAIN r = 1..Len(r)
          /\ m \in 1..Len(q)
      BY <2>5, <2>6
    <3>2. i \in 1..Len(q)-1 /\ r[i] = IF i < m THEN q[i] ELSE q[i + 1]
      BY <2>6, <3>1
    <3>3. CASE i < m
      BY <3>1, <3>2, <3>3
    <3>4. CASE ~(i < m)
      <4>1. i + 1 \in DOMAIN q /\ r[i] = q[i + 1]
        BY <3>1, <3>2, <3>4
      <4> QED BY <3>4, <4>1
    <3> QED BY <3>3, <3>4
  <2>8. ASSUME Distinct(q) PROVE Distinct(r) /\ ~In(k, r)
    <3>1. ASSUME NEW i \in DOMAIN r, NEW j \in DOMAIN r, r[i] = r[j] PROVE i = j
      <4>1. i \in Nat /\ j \in Nat /\ m \in Nat
        BY <2>5, <2>6
      <4>2. PICK i1 \in DOMAIN q : r[i] = q[i1] /\ i1 = (IF i < m THEN i ELSE i + 1)
        BY <2>7
      <4>3. PICK j1 \in DOMAIN q : r[j] = q[j1] /\ j1 = (IF j < m THEN j ELSE j + 1)
        BY <2>7
      <4>4. i1 = j1
        BY <2>8, <3>1, <4>2, <4>3 DEF Distinct
      <4> QED BY <4>1, <4>2, <4>3, <4>4
    <3>2. ASSUME NEW i \in DOMAIN r PROVE r[i] # k
      <4>1. i \in Nat /\ m \in Nat
        BY <2>5, <2>6
      <4>2. PICK i1 \in DOMAIN q : r[i] = q[i1] /\ i1 = (IF i < m THEN i ELSE i + 1)
        BY <2>7
      <4>3. i1 # m
        BY <4>1, <4>2
      <4> QED BY <2>5, <2>8, <4>2, <4>3 DEF Distinct
    <3> QED BY <3>1, <3>2 DEF Distinct, In
  <2> QED BY <2>6, <2>7, <2>8 DEF r
<1> QED
  BY <1>1, <1>2

-----------------------------------------------------------------------------
(* The end of a call *)

LEMMA AnsweredEffect ==
    ASSUME NEW s \in Library, NEW k \in DOMAIN s.call
    PROVE  LET t == answered(s, k) IN
           /\ Stays(s, t)
           /\ t.call = [s.call EXCEPT ![k].answers = @ + 1]
           /\ t.proxy = s.proxy /\ t.out = s.out /\ t.in = s.in
           /\ t.process = s.process
<1>1. k \in Nat /\ s.call[k] \in CallRecord
  BY CallFields
<1>2. [s.call[k] EXCEPT !.answers = @ + 1] \in CallRecord
  BY <1>1 DEF CallRecord
<1> DEFINE v == [s.call EXCEPT ![k].answers = @ + 1]
<1>3. v \in Seq(CallRecord) /\ DOMAIN v = DOMAIN s.call
  BY <1>2, LibraryFields
<1>4. answered(s, k) = [s EXCEPT !.call = v]
  BY DEF answered, Library
<1> HIDE DEF v
<1>5. Stays(s, answered(s, k)) /\ answered(s, k).call = v
      /\ answered(s, k).proxy = s.proxy /\ answered(s, k).out = s.out
      /\ answered(s, k).in = s.in /\ answered(s, k).process = s.process
  BY <1>3, <1>4 DEF Library, Stays
<1> QED
  BY <1>5 DEF v

FinishedProxy(s, p, k) == [s.proxy[p] EXCEPT !.queue = RemoveFirst(@, k), !.exists = (p = Main)]

LEMMA FinishEffect ==
    ASSUME NEW s \in Library, NEW k \in DOMAIN s.call, s.call[k].on \in DOMAIN s.proxy
    PROVE  LET t == onCallFinished(s, k)
               p == s.call[k].on
           IN  /\ Stays(s, t)
               /\ t.call = [s.call EXCEPT ![k] = [s.call[k] EXCEPT !.state = "done", !.lost = FALSE]]
               /\ t.proxy = [s.proxy EXCEPT ![p] = FinishedProxy(s, p, k)]
               /\ t.proxy[p].queue = RemoveFirst(s.proxy[p].queue, k)
               /\ t.out = s.out /\ t.in = s.in /\ t.process = s.process
<1> DEFINE p == s.call[k].on
           call == [s.call[k] EXCEPT !.state = "done", !.lost = FALSE]
           proxy == FinishedProxy(s, p, k)
<1>1. k \in Nat /\ s.call[k] \in CallRecord /\ s.proxy[p] \in ProxyRecord
      /\ s.proxy[p].queue \in Seq(Nat)
  BY CallFields, ProxyFields
<1>2. call \in CallRecord
  BY <1>1 DEF CallRecord
<1>3. RemoveFirst(s.proxy[p].queue, k) \in Seq(Nat)
  BY <1>1, Removed
<1>4. proxy \in ProxyRecord /\ proxy.queue = RemoveFirst(s.proxy[p].queue, k)
  BY <1>1, <1>3 DEF ProxyRecord, FinishedProxy
<1> DEFINE v == [s.call EXCEPT ![k] = call]
           w == [s.proxy EXCEPT ![p] = proxy]
<1>5. v \in Seq(CallRecord) /\ DOMAIN v = DOMAIN s.call
  BY <1>2, LibraryFields
<1>6. w \in Seq(ProxyRecord) /\ DOMAIN w = DOMAIN s.proxy /\ w[p] = proxy
  BY <1>4, LibraryFields
<1>7. onCallFinished(s, k) = [s EXCEPT !.call = v, !.proxy = w]
  <2>1. w = [s.proxy EXCEPT ![p].queue = RemoveFirst(@, k), ![p].exists = (p = Main)]
    BY <1>1 DEF FinishedProxy, ProxyRecord
  <2> HIDE DEF w
  <2> QED BY <1>1, <2>1 DEF onCallFinished, Library
<1>8. LET t == onCallFinished(s, k)
      IN  /\ Stays(s, t) /\ t.call = v /\ t.proxy = w
          /\ t.out = s.out /\ t.in = s.in /\ t.process = s.process
  <2> HIDE DEF v, w
  <2> QED BY <1>5, <1>6, <1>7 DEF Library, Stays
<1> QED
  BY <1>4, <1>6, <1>8

\* The owner has been told, unless it is a session.
LEMMA FinishPlaced ==
    ASSUME NEW s, NEW x, NEW W, NEW C, Placed(s, x, W, C), NEW k \in DOMAIN s.call,
           s.call[k].state = "sent" => k \in W,
           NEW u,
           \/ u = answered(s, k) /\ s.call[k].state # "done"
           \/ u \in {s, answered(s, k)} /\ s.kind = "session"
    PROVE  LET t == onCallFinished(u, k) IN
           /\ Placed(t, x, W \ {k}, C) /\ Stays(s, t)
           /\ t.call[k].state = "done" /\ t.call[k].served = s.call[k].served
           /\ \A j \in DOMAIN s.call : j # k => t.call[j] = s.call[j]
<1> DEFINE t == onCallFinished(u, k)
           p == s.call[k].on
<1>1. s \in Library /\ p \in DOMAIN s.proxy
  BY PlacedFacts
<1>2. /\ Stays(s, u) /\ u.proxy = s.proxy /\ u.out = s.out /\ u.in = s.in
      /\ u.call = s.call \/ u.call = [s.call EXCEPT ![k].answers = @ + 1]
      /\ s.kind # "session" => u.call = [s.call EXCEPT ![k].answers = @ + 1]
                               /\ s.call[k].state # "done"
  <2>1. Stays(s, s)
    BY <1>1 DEF Stays
  <2> QED BY <1>1, <2>1, AnsweredEffect
<1>3. s.call[k] \in CallRecord
  BY <1>1, CallFields
<1>4. /\ u \in Library /\ k \in DOMAIN u.call /\ u.call[k] \in CallRecord
      /\ \A j \in DOMAIN s.call : j # k => u.call[j] = s.call[j]
      /\ u.call[k].on = p /\ u.call[k].served = s.call[k].served
      /\ u.call[k].watched = s.call[k].watched /\ u.call[k].op = s.call[k].op
      /\ s.kind # "session" => u.call[k].answers = s.call[k].answers + 1
  <2>1. u \in Library /\ k \in DOMAIN u.call
    BY <1>2 DEF Stays
  <2>2. u.call[k] \in CallRecord
    BY <2>1, CallFields
  <2> QED BY <1>1, <1>2, <1>3, <2>1, <2>2 DEF CallRecord
<1>5. /\ Stays(u, t)
      /\ t.call = [u.call EXCEPT ![k] = [u.call[k] EXCEPT !.state = "done", !.lost = FALSE]]
      /\ t.proxy = [u.proxy EXCEPT ![p] = FinishedProxy(u, p, k)]
      /\ t.proxy[p].queue = RemoveFirst(u.proxy[p].queue, k)
      /\ t.out = u.out /\ t.in = u.in
  <2>1. /\ Stays(u, t)
        /\ t.call = [u.call EXCEPT ![k] = [u.call[k] EXCEPT !.state = "done", !.lost = FALSE]]
        /\ t.proxy = [u.proxy EXCEPT ![u.call[k].on] = FinishedProxy(u, u.call[k].on, k)]
        /\ t.proxy[u.call[k].on].queue = RemoveFirst(u.proxy[u.call[k].on].queue, k)
        /\ t.out = u.out /\ t.in = u.in
    <3> HIDE DEF p
    <3> QED BY Zenon, <1>1, <1>2, <1>4, FinishEffect
  <2> QED BY SMTT(20), <1>4, <2>1
<1> HIDE DEF t, p
<1>6. Stays(s, t)
  BY <1>2, <1>5, StaysOn
<1>7. /\ t \in Library /\ t.kind = s.kind
      /\ DOMAIN t.call = DOMAIN s.call /\ DOMAIN t.proxy = DOMAIN s.proxy
  BY <1>6 DEF Stays
<1>8. /\ \A j \in DOMAIN s.call : j # k => t.call[j] = s.call[j]
      /\ t.call[k].state = "done" /\ t.call[k].on = p /\ t.call[k].op = s.call[k].op
      /\ t.call[k].served = s.call[k].served /\ t.call[k].watched = s.call[k].watched
      /\ s.kind # "session" => t.call[k].answers = s.call[k].answers + 1
  BY <1>4, <1>5, <1>7 DEF CallRecord
<1>9. /\ ~In(k, s.out)
      /\ \A i \in DOMAIN s.in : IsReply(s.in[i]) => s.in[i].call # k
  BY DEF Placed, Outgoing, Incoming, In
<1>10. Queues(t, x)
  <2> SUFFICES ASSUME NEW j \in DOMAIN t.proxy \ {x}
               PROVE  /\ Distinct(t.proxy[j].queue)
                      /\ \A i \in DOMAIN t.proxy[j].queue :
                           LET n == t.proxy[j].queue[i]
                           IN  n \in DOMAIN t.call /\ t.call[n].on = j
                               /\ t.call[n].state = "queued"
    BY DEF Queues
  <2>1. /\ j \in DOMAIN s.proxy /\ Distinct(s.proxy[j].queue)
        /\ \A i \in DOMAIN s.proxy[j].queue :
             LET n == s.proxy[j].queue[i]
             IN  n \in DOMAIN s.call /\ s.call[n].on = j /\ s.call[n].state = "queued"
    BY <1>7 DEF Placed, Queues
  <2>2. CASE j = p
    <3>1. s.proxy[j].queue \in Seq(Nat)
      BY <1>1, <2>1, ProxyFields
    <3>2. t.proxy[j].queue = RemoveFirst(s.proxy[j].queue, k)
      BY <1>2, <1>5, <2>2
    <3>3. /\ Distinct(t.proxy[j].queue) /\ ~In(k, t.proxy[j].queue)
          /\ \A i \in DOMAIN t.proxy[j].queue :
               \E i1 \in DOMAIN s.proxy[j].queue : t.proxy[j].queue[i] = s.proxy[j].queue[i1]
      BY <2>1, <3>1, <3>2, Removed
    <3>4. ASSUME NEW i \in DOMAIN t.proxy[j].queue
          PROVE  LET n == t.proxy[j].queue[i]
                 IN  n \in DOMAIN t.call /\ t.call[n].on = j /\ t.call[n].state = "queued"
      <4>1. PICK i1 \in DOMAIN s.proxy[j].queue : t.proxy[j].queue[i] = s.proxy[j].queue[i1]
        BY <3>3
      <4>2. t.proxy[j].queue[i] # k
        BY <3>3 DEF In
      <4> QED BY <1>7, <1>8, <2>1, <4>1, <4>2
    <3> QED BY <3>3, <3>4
  <2>3. CASE j # p
    <3>1. t.proxy[j] = s.proxy[j]
      BY <1>1, <1>2, <1>5, <2>1, <2>3
    <3> QED BY <1>7, <1>8, <2>1, <2>3, <3>1 DEF p
  <2> QED BY <2>2, <2>3
<1>11. Outgoing(t, W \ {k})
  BY <1>2, <1>5, <1>7, <1>8, <1>9 DEF Placed, Outgoing, In
<1>12. Incoming(t, W \ {k})
  BY <1>2, <1>5, <1>7, <1>8, <1>9 DEF Placed, Incoming
<1>13. Working(t, W \ {k})
  BY <1>7, <1>8 DEF Placed, Working
<1>14. \A j \in DOMAIN t.call : CallOK(t, j)
  <2>1. CallOK(s, k) /\ s.call[k].answers \in Nat
    BY <1>3 DEF Placed, CallRecord
  <2>2. CallOK(t, k)
    BY <1>1, <1>2, <1>7, <1>8, <2>1 DEF CallOK, p
  <2>3. \A j \in DOMAIN s.call : j # k => CallOK(t, j)
    BY <1>7, <1>8 DEF Placed, CallOK
  <2> QED BY <1>7, <2>2, <2>3
<1>15. Withdrawn(t, C)
  BY <1>7, <1>8 DEF Placed, Withdrawn
<1> QED
  BY <1>6, <1>7, <1>8, <1>10, <1>11, <1>12, <1>13, <1>14, <1>15 DEF Placed, t

\* What the owner does with an error, but for telling the application
OwnerError(s, k, result) ==
    CASE s.kind = "session"  -> sessionError(s)
      [] s.kind = "identity" -> identityError(s, result)
      [] s.kind = "service"  ->
           IF s.call[k].op = "queryMechanisms" THEN queryMechanismsError(s) ELSE s

LEMMA OwnerErrorFacts ==
    ASSUME NEW s \in Library, NEW k, NEW result
    PROVE  LET t == OwnerError(s, k, result) IN
           /\ Stays(s, t)
           /\ t.call = s.call /\ t.proxy = s.proxy /\ t.out = s.out /\ t.in = s.in
           /\ errorReply(s, k, result) = answered(t, k)
<1>1. errorReply(s, k, result) = answered(OwnerError(s, k, result), k)
  BY DEF errorReply, OwnerError
<1> DEFINE Same(t) == /\ t \in Library /\ t.kind = s.kind /\ t.process \in {s.process, NoCall}
                      /\ t.call = s.call /\ t.proxy = s.proxy
                      /\ t.out = s.out /\ t.in = s.in
<1>2. Same(s)
  OBVIOUS
<1>3. Same(sessionError(s))
  BY DEF sessionError, Library, NoCall
<1>4. Same(identityError(s, result))
  <2>1. [s EXCEPT !.state = "NeedsRegistration"] \in Library
    BY DEF Library
  <2>2. Same([s EXCEPT !.state = "NeedsRegistration"])
    BY <2>1 DEF Library
  <2> QED BY <1>2, <2>2 DEF identityError
<1>5. Same(queryMechanismsError(s))
  <2>1. s.methods # <<>> => Tail(s.methods) \in Seq(Nat)
    BY LibraryFields
  <2>2. CASE s.methods # <<>>
    <3>1. queryMechanismsError(s) = [s EXCEPT !.methods = Tail(s.methods)]
      BY <2>2 DEF queryMechanismsError, dequeueMethod
    <3> QED BY <2>1, <2>2, <3>1 DEF Library
  <2>3. CASE s.methods = <<>>
    BY <2>3, <1>2 DEF queryMechanismsError, dequeueMethod
  <2> QED BY <2>2, <2>3
<1>6. s.kind \in {"session", "identity", "service"}
  BY LibraryFields
<1>7. Same(OwnerError(s, k, result))
  <2> HIDE DEF Same
  <2> QED BY <1>2, <1>3, <1>4, <1>5, <1>6 DEF OwnerError
<1> QED
  BY <1>1, <1>7 DEF Stays

\* A call that fails is told of, and ends.
LEMMA ErrorFinishPlaced ==
    ASSUME NEW s, NEW x, NEW W, NEW C, Placed(s, x, W, C), NEW k \in DOMAIN s.call,
           s.call[k].state = "sent" => k \in W,
           s.call[k].state # "done", NEW result
    PROVE  LET t == onCallFinished(errorReply(s, k, result), k) IN
           /\ Placed(t, x, W \ {k}, C) /\ Stays(s, t)
           /\ t.call[k].state = "done" /\ t.call[k].served = s.call[k].served
           /\ \A j \in DOMAIN s.call : j # k => t.call[j] = s.call[j]
<1> DEFINE o == OwnerError(s, k, result)
           t == onCallFinished(errorReply(s, k, result), k)
<1>1. s \in Library
  BY DEF Placed
<1>2. /\ Stays(s, o)
      /\ o.call = s.call /\ o.proxy = s.proxy /\ o.out = s.out /\ o.in = s.in
      /\ errorReply(s, k, result) = answered(o, k)
  BY <1>1, OwnerErrorFacts
<1> HIDE DEF o
<1>3. Placed(o, x, W, C)
  BY <1>2, SamePlaced DEF Stays
<1>4. /\ Placed(onCallFinished(answered(o, k), k), x, W \ {k}, C)
      /\ Stays(o, onCallFinished(answered(o, k), k))
      /\ onCallFinished(answered(o, k), k).call[k].state = "done"
      /\ onCallFinished(answered(o, k), k).call[k].served = o.call[k].served
      /\ \A j \in DOMAIN o.call : j # k =>
            onCallFinished(answered(o, k), k).call[j] = o.call[j]
  BY <1>2, <1>3, FinishPlaced
<1>5. Stays(s, onCallFinished(answered(o, k), k))
  BY <1>2, <1>4, StaysOn
<1> QED
  BY <1>2, <1>4, <1>5

LEMMA FailPlaced ==
    ASSUME NEW s, NEW x, NEW W, NEW C, Placed(s, x, W, C), NEW k \in DOMAIN s.call,
           s.call[k].state = "queued"
    PROVE  LET t == fail(s, k) IN
           /\ Placed(t, x, W, C) /\ Stays(s, t)
           /\ \A j \in DOMAIN s.call : j # k => t.call[j] = s.call[j]
<1>1. k \notin W
  BY PlacedFacts
<1>2. W \ {k} = W
  BY <1>1
<1> QED
  BY <1>2, ErrorFinishPlaced DEF fail

LEMMA FailCallsPlaced ==
    ASSUME NEW s, NEW W, NEW C, Placed(s, 0, W, C), NEW p \in DOMAIN s.proxy
    PROVE  LET t == failCalls(s, s.proxy[p].queue)
           IN  /\ Placed(t, p, W, C) /\ Stays(s, t)
               /\ \A k \in DOMAIN s.call : s.call[k].state # "queued" => t.call[k] = s.call[k]
<1> DEFINE q == s.proxy[p].queue
           N == Len(q)
<1>1. s \in Library
  BY DEF Placed
<1>2. q \in Seq(Nat) /\ p # 0
  BY <1>1, ProxyFields
<1>3. PICK did : /\ did[0] = s
                 /\ \A n \in 1..N : did[n] = fail(did[n - 1], q[n])
                 /\ failCalls(s, q) = did[N]
  BY <1>2, FailCallsLoop
<1>4. /\ Distinct(q)
      /\ \A i \in 1..N : q[i] \in DOMAIN s.call /\ s.call[q[i]].state = "queued"
  BY <1>2 DEF Placed, Queues
<1> DEFINE Did(n) == /\ Placed(did[n], p, W, C) /\ Stays(s, did[n])
                     /\ \A i \in n+1..N : did[n].call[q[i]] = s.call[q[i]]
                     /\ \A k \in DOMAIN s.call :
                          s.call[k].state # "queued" => did[n].call[k] = s.call[k]
           S == {n \in 0..N : Did(n)}
<1>5. 0 \in S
  <2>1. \A j \in DOMAIN s.proxy : j # 0
    BY <1>1, ProxyFields
  <2>2. Queues(s, p)
    BY <2>1 DEF Placed, Queues
  <2>3. Placed(s, p, W, C)
    BY <2>2 DEF Placed
  <2>4. Stays(s, s)
    BY <1>1 DEF Stays
  <2>5. Did(0)
    BY <1>3, <2>3, <2>4
  <2> HIDE DEF Did
  <2> QED BY <1>2, <2>5
<1>6. ASSUME NEW n \in 0..N, n \in S, n < N PROVE n + 1 \in S
  <2> DEFINE u == did[n]
             k == q[n + 1]
  <2>1. /\ Placed(u, p, W, C) /\ Stays(s, u)
        /\ \A i \in n+1..N : u.call[q[i]] = s.call[q[i]]
        /\ \A j \in DOMAIN s.call : s.call[j].state # "queued" => u.call[j] = s.call[j]
    BY <1>6
  <2>2. n + 1 \in 1..N /\ n + 1 \in n+1..N /\ (n + 1) - 1 = n
    BY <1>2, <1>6
  <2>3. did[n + 1] = fail(u, k)
    BY <1>3, <2>2
  <2>4. k \in DOMAIN u.call /\ u.call[k].state = "queued" /\ s.call[k].state = "queued"
    BY <2>1, <2>2, <1>4 DEF Stays
  <2>5. DOMAIN u.call = DOMAIN s.call
    BY <2>1 DEF Stays
  <2> HIDE DEF u, k
  <2>6. /\ Placed(fail(u, k), p, W, C) /\ Stays(u, fail(u, k))
        /\ \A j \in DOMAIN u.call : j # k => fail(u, k).call[j] = u.call[j]
    BY <2>1, <2>4, FailPlaced
  <2>7. ASSUME NEW i \in (n+1)+1..N PROVE fail(u, k).call[q[i]] = s.call[q[i]]
    <3>1. i \in 1..N /\ i \in n+1..N /\ i # n + 1
      BY <1>2, <1>6
    <3>2. q[i] # k /\ q[i] \in DOMAIN u.call
      BY <3>1, <2>2, <1>4, <2>5, <1>2 DEF Distinct, k
    <3> QED BY <3>1, <3>2, <2>1, <2>6
  <2>8. Stays(s, fail(u, k))
    BY <2>1, <2>6, StaysOn
  <2>9. ASSUME NEW j \in DOMAIN s.call, s.call[j].state # "queued"
        PROVE  fail(u, k).call[j] = s.call[j]
    <3>1. j # k
      BY <2>4, <2>9
    <3>2. u.call[j] = s.call[j]
      BY <2>1, <2>9
    <3> QED BY <2>5, <2>6, <3>1, <3>2
  <2>10. Did(n + 1)
    BY <2>3, <2>6, <2>7, <2>8, <2>9
  <2> HIDE DEF Did
  <2> QED BY <2>2, <2>10
<1>7. N \in S
  <2>1. N \in Nat
    BY <1>2
  <2> HIDE DEF S, N
  <2>2. 0..N \subseteq S
    BY <2>1, <1>5, <1>6, Upward
  <2> QED BY <2>1, <2>2
<1> QED
  BY <1>3, <1>7

\* The calls that were in no queue are left as they were, but for the counting of
\* what a session is told.
Undisturbed(s, t) ==
    \A k \in DOMAIN s.call :
        s.call[k].state # "queued" => /\ t.call[k].state = s.call[k].state
                                      /\ t.call[k].served = s.call[k].served

LEMMA InvalidPlaced ==
    ASSUME NEW s, NEW W, NEW C, Placed(s, 0, W, C), NEW p \in DOMAIN s.proxy
    PROVE  /\ Placed(Invalid(s, p), 0, W, C) /\ Stays(s, Invalid(s, p))
           /\ Undisturbed(s, Invalid(s, p))
<1> DEFINE t == failCalls(s, s.proxy[p].queue)
           r == [t.proxy[p] EXCEPT !.status = "Invalid", !.queue = <<>>]
<1>1. Placed(t, p, W, C) /\ Stays(s, t)
      /\ \A k \in DOMAIN s.call : s.call[k].state # "queued" => t.call[k] = s.call[k]
  BY FailCallsPlaced
<1>2. t \in Library /\ p \in DOMAIN t.proxy
  BY SMTT(20), <1>1 DEF Stays
<1> HIDE DEF t
<1>3. t.proxy[p] \in ProxyRecord
  BY <1>2, ProxyFields
<1>4. r \in ProxyRecord /\ r.queue = <<>>
  BY <1>3, ProxyEmptied
<1>5. Invalid(s, p) = [t EXCEPT !.proxy[p] = r]
  BY <1>2 DEF Invalid, Library, t
<1> HIDE DEF r
<1>6. Placed([t EXCEPT !.proxy[p] = r], 0, W, C) /\ Stays(t, [t EXCEPT !.proxy[p] = r])
  BY <1>1, <1>2, <1>4, ProxyPlaced
<1>7. [t EXCEPT !.proxy[p] = r].call = t.call
  BY <1>2 DEF Library
<1> QED
  BY <1>1, <1>5, <1>6, <1>7, StaysOn DEF Undisturbed

LEMMA AnsweredAgainPlaced ==
    ASSUME NEW s, NEW x, NEW W, NEW C, Placed(s, x, W, C), s.kind = "session", NEW queue
    PROVE  LET t == answeredAgain(s, queue) IN
           Placed(t, x, W, C) /\ Stays(s, t) /\ Undisturbed(s, t)
<1> DEFINE t == answeredAgain(s, queue)
           v == [k \in DOMAIN s.call |->
                   IF k \in Range(queue) THEN [s.call[k] EXCEPT !.answers = @ + 1]
                                         ELSE s.call[k]]
<1>1. s \in Library
  BY DEF Placed
<1>2. ASSUME NEW k \in DOMAIN s.call
      PROVE  /\ v[k] \in CallRecord
             /\ v[k].on = s.call[k].on /\ v[k].state = s.call[k].state
             /\ v[k].op = s.call[k].op
             /\ v[k].served = s.call[k].served /\ v[k].watched = s.call[k].watched
  <2>1. s.call[k] \in CallRecord
    BY <1>1, CallFields
  <2> QED BY <2>1 DEF CallRecord
<1>3. DOMAIN v = DOMAIN s.call
  OBVIOUS
<1>4. v \in Seq(CallRecord)
  <2>1. DOMAIN s.call = 1..Len(s.call) /\ Len(s.call) \in Nat
    BY <1>1, LibraryFields
  <2>2. v \in [1..Len(s.call) -> CallRecord]
    BY <1>2, <2>1
  <2> HIDE DEF v
  <2> QED BY <2>1, <2>2, SeqDef
<1>5. t = [s EXCEPT !.call = v]
  BY <1>1 DEF answeredAgain, Library
<1> HIDE DEF v, t
<1>6. /\ t \in Library /\ t.kind = s.kind /\ t.call = v /\ t.proxy = s.proxy
      /\ t.out = s.out /\ t.in = s.in /\ t.process = s.process
  BY <1>1, <1>4, <1>5 DEF Library
<1>7. Stays(s, t) /\ Undisturbed(s, t)
  BY <1>2, <1>3, <1>6 DEF Stays, Undisturbed
<1>8. Queues(t, x) /\ Outgoing(t, W) /\ Working(t, W) /\ Withdrawn(t, C)
  BY <1>2, <1>3, <1>6 DEF Placed, Queues, Outgoing, Working, Withdrawn
<1>9. Incoming(t, W)
  BY <1>2, <1>3, <1>6 DEF Placed, Incoming
<1>10. \A k \in DOMAIN t.call : CallOK(t, k)
  BY <1>2, <1>3, <1>6 DEF Placed, CallOK
<1> QED
  BY <1>6, <1>7, <1>8, <1>9, <1>10 DEF Placed, t

LEMMA SetErrorPlaced ==
    ASSUME NEW s, NEW W, NEW C, Placed(s, 0, W, C), NEW p \in DOMAIN s.proxy
    PROVE  /\ Placed(setError(s, p), 0, W, C) /\ Stays(s, setError(s, p))
           /\ Undisturbed(s, setError(s, p))
<1>1. s \in Library
  BY DEF Placed
<1>2. CASE ~(s.kind = "session" /\ s.registering /\ s.proxy[p].queue # <<>>)
  <2>1. setError(s, p) = Invalid(s, p)
    BY <1>2 DEF setError
  <2> QED BY <2>1, InvalidPlaced
<1>3. CASE s.kind = "session" /\ s.registering /\ s.proxy[p].queue # <<>>
  <2> DEFINE u == [s EXCEPT !.registering = FALSE]
             queue == Tail(s.proxy[p].queue)
  <2>1. setError(s, p) = answeredAgain(Invalid(u, p), queue)
    BY <1>3 DEF setError
  <2>2. /\ Stays(s, u) /\ u.kind = s.kind
        /\ u.call = s.call /\ u.proxy = s.proxy /\ u.out = s.out /\ u.in = s.in
    BY <1>1 DEF Library, Stays
  <2> HIDE DEF u, queue
  <2>3. Placed(u, 0, W, C) /\ p \in DOMAIN u.proxy
    BY <2>2, SamePlaced DEF Stays
  <2> DEFINE i == Invalid(u, p)
  <2>4. Placed(i, 0, W, C) /\ Stays(u, i) /\ Undisturbed(u, i)
    BY <2>3, InvalidPlaced
  <2>5. i.kind = "session"
    BY <1>3, <2>2, <2>4 DEF Stays
  <2> HIDE DEF i
  <2>6. /\ Placed(answeredAgain(i, queue), 0, W, C)
        /\ Stays(i, answeredAgain(i, queue)) /\ Undisturbed(i, answeredAgain(i, queue))
    BY <2>4, <2>5, AnsweredAgainPlaced
  <2>7. Stays(s, answeredAgain(i, queue))
    BY <2>2, <2>4, <2>6, StaysOn
  <2>8. Undisturbed(s, answeredAgain(i, queue))
    BY <2>2, <2>4, <2>6 DEF Undisturbed, Stays
  <2> QED BY <2>1, <2>6, <2>7, <2>8 DEF i
<1> QED
  BY <1>2, <1>3

-----------------------------------------------------------------------------
(* The functions of a proxy and of the connection manager *)

LEMMA InterfaceDestroyedPlaced ==
    ASSUME NEW s, NEW x, NEW W, NEW C, Placed(s, x, W, C), NEW p
    PROVE  LET t == onInterfaceDestroyed(s, p) IN Placed(t, x, W, C) /\ Stays(s, t)
<1> DEFINE t == onInterfaceDestroyed(s, p)
           v == [k \in DOMAIN s.call |->
                   IF s.call[k].on = p /\ s.call[k].state = "sent"
                   THEN [s.call[k] EXCEPT !.lost = TRUE] ELSE s.call[k]]
<1>1. s \in Library
  BY DEF Placed
<1>2. ASSUME NEW k \in DOMAIN s.call
      PROVE  /\ v[k] \in CallRecord
             /\ v[k].on = s.call[k].on /\ v[k].state = s.call[k].state
             /\ v[k].op = s.call[k].op
             /\ v[k].served = s.call[k].served /\ v[k].watched = s.call[k].watched
             /\ v[k].answers = s.call[k].answers
  <2>1. s.call[k] \in CallRecord
    BY <1>1, CallFields
  <2> QED BY <2>1 DEF CallRecord
<1>3. DOMAIN v = DOMAIN s.call
  OBVIOUS
<1>4. v \in Seq(CallRecord)
  <2>1. DOMAIN s.call = 1..Len(s.call) /\ Len(s.call) \in Nat
    BY <1>1, LibraryFields
  <2>2. v \in [1..Len(s.call) -> CallRecord]
    BY <1>2, <2>1
  <2> HIDE DEF v
  <2> QED BY <2>1, <2>2, SeqDef
<1>5. t = [s EXCEPT !.call = v]
  BY <1>1 DEF onInterfaceDestroyed, Library
<1> HIDE DEF v, t
<1>6. /\ t \in Library /\ t.kind = s.kind /\ t.call = v /\ t.proxy = s.proxy
      /\ t.out = s.out /\ t.in = s.in /\ t.process = s.process
  BY <1>1, <1>4, <1>5 DEF Library
<1>7. Stays(s, t)
  BY <1>3, <1>6 DEF Stays
<1>8. Queues(t, x) /\ Outgoing(t, W) /\ Working(t, W) /\ Withdrawn(t, C)
  BY <1>2, <1>3, <1>6 DEF Placed, Queues, Outgoing, Working, Withdrawn
<1>9. Incoming(t, W)
  BY <1>2, <1>3, <1>6 DEF Placed, Incoming
<1>10. \A k \in DOMAIN t.call : CallOK(t, k)
  BY <1>2, <1>3, <1>6 DEF Placed, CallOK
<1> QED
  BY <1>6, <1>7, <1>8, <1>9, <1>10 DEF Placed, t

LEMMA IncompletePlaced ==
    ASSUME NEW s, NEW W, NEW C, Placed(s, 0, W, C), NEW p \in DOMAIN s.proxy
    PROVE  Placed(Incomplete(s, p), 0, W, C) /\ Stays(s, Incomplete(s, p))
<1> DEFINE r == [s.proxy[p] EXCEPT !.status = "Incomplete"]
<1>1. s \in Library /\ s.proxy[p] \in ProxyRecord
  BY ProxyFields DEF Placed
<1>2. r \in ProxyRecord /\ r.queue = s.proxy[p].queue
  BY <1>1 DEF ProxyRecord
<1>3. Incomplete(s, p) = [s EXCEPT !.proxy[p] = r]
  BY <1>1 DEF Incomplete, Library
<1> HIDE DEF r
<1>4. Placed([s EXCEPT !.proxy[p] = r], 0, W, C) /\ Stays(s, [s EXCEPT !.proxy[p] = r])
  BY <1>2, ProxyPlaced
<1> QED
  BY <1>3, <1>4

LEMMA UpdatePlaced ==
    ASSUME NEW s, NEW W, NEW C, Placed(s, 0, W, C), NEW p \in DOMAIN s.proxy
    PROVE  Placed(update(s, p), 0, W, C) /\ Stays(s, update(s, p))
<1> DEFINE t == IF s.proxy[p].status = "Ready" THEN onInterfaceDestroyed(s, p) ELSE s
<1>1. Placed(t, 0, W, C) /\ Stays(s, t)
  <2>1. Stays(s, s)
    BY DEF Placed, Stays
  <2> QED BY <2>1, InterfaceDestroyedPlaced
<1>2. update(s, p) \in {Incomplete(t, p), setError(t, p), Ready(t, p)}
  BY DEF update
<1> HIDE DEF t
<1>3. p \in DOMAIN t.proxy
  BY <1>1 DEF Stays
<1>4. Placed(update(s, p), 0, W, C) /\ Stays(t, update(s, p))
  BY <1>1, <1>2, <1>3, IncompletePlaced, SetErrorPlaced, ReadyPlaced
<1> QED
  BY <1>1, <1>4, StaysOn

LEMMA SetObjectPathPlaced ==
    ASSUME NEW s, NEW W, NEW C, Placed(s, 0, W, C), Main \in DOMAIN s.proxy,
           NEW path \in Nat
    PROVE  Placed(setObjectPath(s, path), 0, W, C) /\ Stays(s, setObjectPath(s, path))
<1> DEFINE r == [s.proxy[Main] EXCEPT !.path = path]
           u == [s EXCEPT !.proxy[Main] = r]
           v == s.asserted \/ (s.proxy[Main].path # NoPath /\ path # NoPath)
           t == [u EXCEPT !.asserted = v]
<1>1. s \in Library /\ s.proxy[Main] \in ProxyRecord
  BY ProxyFields DEF Placed
<1>2. r \in ProxyRecord /\ r.queue = s.proxy[Main].queue
  BY <1>1 DEF ProxyRecord
<1>3. setObjectPath(s, path) = update(t, Main)
  <2>1. [s EXCEPT !.proxy[Main].path = path,
                  !.asserted = @ \/ (s.proxy[Main].path # NoPath /\ path # NoPath)] = t
    BY <1>1 DEF Library
  <2> QED BY <2>1 DEF setObjectPath
<1> HIDE DEF r
<1>4. Placed(u, 0, W, C) /\ Stays(s, u)
  BY <1>2, ProxyPlaced
<1> HIDE DEF u
<1>5. v \in BOOLEAN
  BY <1>1 DEF Library
<1> HIDE DEF v
<1>6. /\ t \in Library /\ t.kind = u.kind /\ t.process = u.process
      /\ t.call = u.call /\ t.proxy = u.proxy /\ t.out = u.out /\ t.in = u.in
  BY <1>4, <1>5 DEF Stays, Library
<1> HIDE DEF t
<1>7. Placed(t, 0, W, C) /\ Stays(u, t)
  BY <1>4, <1>6, SamePlaced DEF Stays
<1>8. Main \in DOMAIN t.proxy
  BY <1>4, <1>7 DEF Stays
<1>9. Placed(update(t, Main), 0, W, C) /\ Stays(t, update(t, Main))
  BY <1>7, <1>8, UpdatePlaced
<1>10. Stays(s, update(t, Main))
  BY <1>4, <1>7, <1>9, StaysOn
<1> QED
  BY <1>3, <1>9, <1>10

LEMMA SetConnectionPlaced ==
    ASSUME NEW s, NEW W, NEW C, Placed(s, 0, W, C), NEW p \in DOMAIN s.proxy
    PROVE  Placed(setConnection(s, p), 0, W, C) /\ Stays(s, setConnection(s, p))
<1> DEFINE r == [s.proxy[p] EXCEPT !.conn = TRUE]
           t == [s EXCEPT !.proxy[p] = r]
<1>1. s \in Library /\ s.proxy[p] \in ProxyRecord
  BY ProxyFields DEF Placed
<1>2. r \in ProxyRecord /\ r.queue = s.proxy[p].queue
  BY <1>1 DEF ProxyRecord
<1>3. setConnection(s, p) \in {s, update(t, p)}
  <2>1. [s EXCEPT !.proxy[p].conn = TRUE] = t
    BY <1>1 DEF Library
  <2> QED BY <2>1 DEF setConnection
<1> HIDE DEF r
<1>4. Placed(t, 0, W, C) /\ Stays(s, t)
  BY <1>2, ProxyPlaced
<1> HIDE DEF t
<1>5. p \in DOMAIN t.proxy
  BY <1>4 DEF Stays
<1>6. Placed(update(t, p), 0, W, C) /\ Stays(t, update(t, p))
  BY <1>4, <1>5, UpdatePlaced
<1>7. Stays(s, update(t, p)) /\ Stays(s, s)
  BY <1>1, <1>4, <1>6, StaysOn DEF Stays
<1> QED
  BY <1>3, <1>6, <1>7

LEMMA SetDisconnectedPlaced ==
    ASSUME NEW s, NEW W, NEW C, Placed(s, 0, W, C), NEW p \in DOMAIN s.proxy
    PROVE  Placed(setDisconnected(s, p), 0, W, C) /\ Stays(s, setDisconnected(s, p))
<1> DEFINE r == [s.proxy[p] EXCEPT !.conn = FALSE, !.path = NoPath]
           t == [s EXCEPT !.proxy[p] = r]
<1>1. s \in Library /\ s.proxy[p] \in ProxyRecord
  BY ProxyFields DEF Placed
<1>2. r \in ProxyRecord /\ r.queue = s.proxy[p].queue
  BY <1>1 DEF ProxyRecord, NoPath
<1>3. setDisconnected(s, p) \in {s, update(t, p)}
  <2>1. [s EXCEPT !.proxy[p] = [@ EXCEPT !.conn = FALSE, !.path = NoPath]] = t
    BY <1>1 DEF Library
  <2> QED BY <2>1 DEF setDisconnected
<1> HIDE DEF r
<1>4. Placed(t, 0, W, C) /\ Stays(s, t)
  BY <1>2, ProxyPlaced
<1> HIDE DEF t
<1>5. p \in DOMAIN t.proxy
  BY <1>4 DEF Stays
<1>6. Placed(update(t, p), 0, W, C) /\ Stays(t, update(t, p))
  BY <1>4, <1>5, UpdatePlaced
<1>7. Stays(s, update(t, p)) /\ Stays(s, s)
  BY <1>1, <1>4, <1>6, StaysOn DEF Stays
<1> QED
  BY <1>3, <1>6, <1>7

LEMMA ConnectedPlaced ==
    ASSUME NEW s, NEW W, NEW C, Placed(s, 0, W, C)
    PROVE  Placed(connected(s), 0, W, C) /\ Stays(s, connected(s))
<1> DEFINE N == Len(s.proxy)
<1>1. s \in Library /\ N \in Nat /\ DOMAIN s.proxy = 1..N
  BY LibraryFields DEF Placed
<1>2. PICK did : /\ did[0] = s
                 /\ \A p \in 1..N : did[p] = setConnection(did[p - 1], p)
                 /\ connected(s) = did[N]
  BY <1>1, ConnectedLoop
<1> DEFINE S == {n \in 0..N : Placed(did[n], 0, W, C) /\ Stays(s, did[n])}
<1>3. 0 \in S
  BY <1>1, <1>2 DEF Stays
<1>4. ASSUME NEW n \in 0..N, n \in S, n < N PROVE n + 1 \in S
  <2>1. n + 1 \in 1..N /\ (n + 1) - 1 = n
    BY <1>1, <1>4
  <2>2. did[n + 1] = setConnection(did[n], n + 1)
    BY <1>2, <2>1
  <2>3. Placed(did[n], 0, W, C) /\ Stays(s, did[n])
    BY <1>4
  <2>4. n + 1 \in DOMAIN did[n].proxy
    BY <1>1, <2>1, <2>3 DEF Stays
  <2>5. Placed(did[n + 1], 0, W, C) /\ Stays(did[n], did[n + 1])
    BY <2>2, <2>3, <2>4, SetConnectionPlaced
  <2>6. Stays(s, did[n + 1])
    BY <2>3, <2>5, StaysOn
  <2> QED BY <1>1, <2>1, <2>5, <2>6
<1> HIDE DEF S, N
<1>5. N \in S
  <2>1. 0..N \subseteq S
    BY <1>1, <1>3, <1>4, Upward
  <2> QED BY <1>1, <2>1
<1> QED
  BY <1>2, <1>5 DEF S

LEMMA DisconnectedPlaced ==
    ASSUME NEW s, NEW W, NEW C, Placed(s, 0, W, C)
    PROVE  Placed(disconnected(s), 0, W, C) /\ Stays(s, disconnected(s))
<1> DEFINE N == Len(s.proxy)
<1>1. s \in Library /\ N \in Nat /\ DOMAIN s.proxy = 1..N
  BY LibraryFields DEF Placed
<1>2. PICK did : /\ did[0] = s
                 /\ \A p \in 1..N : did[p] = setDisconnected(did[p - 1], p)
                 /\ disconnected(s) = did[N]
  BY <1>1, DisconnectedLoop
<1> DEFINE S == {n \in 0..N : Placed(did[n], 0, W, C) /\ Stays(s, did[n])}
<1>3. 0 \in S
  BY <1>1, <1>2 DEF Stays
<1>4. ASSUME NEW n \in 0..N, n \in S, n < N PROVE n + 1 \in S
  <2>1. n + 1 \in 1..N /\ (n + 1) - 1 = n
    BY <1>1, <1>4
  <2>2. did[n + 1] = setDisconnected(did[n], n + 1)
    BY <1>2, <2>1
  <2>3. Placed(did[n], 0, W, C) /\ Stays(s, did[n])
    BY <1>4
  <2>4. n + 1 \in DOMAIN did[n].proxy
    BY <1>1, <2>1, <2>3 DEF Stays
  <2>5. Placed(did[n + 1], 0, W, C) /\ Stays(did[n], did[n + 1])
    BY <2>2, <2>3, <2>4, SetDisconnectedPlaced
  <2>6. Stays(s, did[n + 1])
    BY <2>3, <2>5, StaysOn
  <2> QED BY <1>1, <2>1, <2>5, <2>6
<1> HIDE DEF S, N
<1>5. N \in S
  <2>1. 0..N \subseteq S
    BY <1>1, <1>3, <1>4, Upward
  <2> QED BY <1>1, <2>1
<1> QED
  BY <1>2, <1>5 DEF S

LEMMA InitPlaced ==
    ASSUME NEW s, NEW W, NEW C, Placed(s, 0, W, C)
    PROVE  Placed(init(s), 0, W, C) /\ Stays(s, init(s))
<1> DEFINE a == [s EXCEPT !.service = "activating", !.starting = TRUE]
           b == [s EXCEPT !.service = "bus"]
           o == [s EXCEPT !.online = TRUE]
           Same(t) == /\ t \in Library /\ t.kind = s.kind /\ t.process = s.process
                      /\ t.call = s.call /\ t.proxy = s.proxy
                      /\ t.out = s.out /\ t.in = s.in
<1>1. s \in Library
  BY DEF Placed
<1>2. Same(s) /\ Same(a) /\ Same(b) /\ Same(o)
  BY <1>1 DEF Library
<1>3. init(s) \in {s, a, b, connected(o)}
  <2>1. setupSocketConnection(s) \in {"Ok", "Unavailable", "NoService"}
    BY DEF setupSocketConnection
  <2> HIDE DEF a, b, o
  <2>2. CASE s.service = "activating"
    BY <2>2 DEF init
  <2>3. CASE s.service # "activating" /\ setupSocketConnection(s) = "NoService"
    BY <2>3 DEF init, a
  <2>4. CASE s.service # "activating" /\ setupSocketConnection(s) = "Unavailable"
    BY <2>4 DEF init, b
  <2>5. CASE s.service # "activating" /\ setupSocketConnection(s) = "Ok"
    BY <2>5 DEF init, o
  <2> QED BY <2>1, <2>2, <2>3, <2>4, <2>5
<1> HIDE DEF a, b, o
<1>4. ASSUME NEW t, Same(t) PROVE Placed(t, 0, W, C) /\ Stays(s, t)
  BY <1>4, SamePlaced DEF Stays
<1> HIDE DEF Same
<1>5. Placed(connected(o), 0, W, C) /\ Stays(s, connected(o))
  BY <1>2, <1>4, ConnectedPlaced, StaysOn
<1> QED
  BY <1>2, <1>3, <1>4, <1>5

LEMMA ConnectPlaced ==
    ASSUME NEW s, NEW W, NEW C, Placed(s, 0, W, C)
    PROVE  Placed(connect(s), 0, W, C) /\ Stays(s, connect(s))
BY InitPlaced, ConnectedPlaced DEF connect

-----------------------------------------------------------------------------
(* Queueing a call *)

LEMMA AppendFacts ==
    ASSUME NEW S, NEW q \in Seq(S), NEW e \in S
    PROVE  /\ Append(q, e) \in Seq(S)
           /\ Len(Append(q, e)) = Len(q) + 1 /\ Len(q) \in Nat
           /\ DOMAIN q = 1..Len(q) /\ DOMAIN Append(q, e) = 1..Len(q) + 1
           /\ \A i \in 1..Len(q) : Append(q, e)[i] = q[i]
           /\ Append(q, e)[Len(q) + 1] = e
OBVIOUS

\* A call nobody works on, in no queue, and not executed by this signond
Loose(s, W, k) ==
    /\ k \in DOMAIN s.call \ W
    /\ s.call[k].state \in {"queued", "sent"} /\ s.call[k].served = 0
    /\ ~In(k, s.out)
    /\ \A i \in DOMAIN s.in : IsReply(s.in[i]) => s.in[i].call # k
    /\ \A p \in DOMAIN s.proxy : ~In(k, s.proxy[p].queue)

Enqueued(s, k) ==
    [s EXCEPT !.proxy[s.call[k].on].queue = Append(@, k), !.call[k].state = "queued"]

LEMMA EnqueuedPlaced ==
    ASSUME NEW s, NEW W, NEW C, Placed(s, 0, W, C), NEW k, Loose(s, W, k)
    PROVE  Placed(Enqueued(s, k), 0, W, C) /\ Stays(s, Enqueued(s, k))
<1> DEFINE t == Enqueued(s, k)
           p == s.call[k].on
           q == s.proxy[p].queue
           call == [s.call[k] EXCEPT !.state = "queued"]
           proxy == [s.proxy[p] EXCEPT !.queue = Append(q, k)]
           v == [s.call EXCEPT ![k] = call]
           w == [s.proxy EXCEPT ![p] = proxy]
<1>1. s \in Library /\ k \in DOMAIN s.call /\ p \in DOMAIN s.proxy
  BY PlacedFacts DEF Placed, Loose
<1>2. k \in Nat /\ s.call[k] \in CallRecord /\ s.proxy[p] \in ProxyRecord /\ q \in Seq(Nat)
      /\ p # 0
  BY <1>1, CallFields, ProxyFields
<1>3. Append(q, k) \in Seq(Nat)
  BY SMTT(20), <1>2, AppendFacts
<1>4. proxy \in ProxyRecord /\ proxy.queue = Append(q, k)
  BY <1>2, <1>3 DEF ProxyRecord
<1>5. call \in CallRecord /\ call.on = p /\ call.state = "queued"
      /\ call.served = s.call[k].served /\ call.watched = s.call[k].watched
      /\ call.answers = s.call[k].answers /\ call.op = s.call[k].op
  BY <1>2 DEF CallRecord
<1>6. v \in Seq(CallRecord) /\ DOMAIN v = DOMAIN s.call
      /\ v[k] = call /\ \A j \in DOMAIN s.call : j # k => v[j] = s.call[j]
  BY <1>1, <1>5, LibraryFields
<1>7. w \in Seq(ProxyRecord) /\ DOMAIN w = DOMAIN s.proxy
      /\ w[p] = proxy /\ \A j \in DOMAIN s.proxy : j # p => w[j] = s.proxy[j]
  <2>1. s.proxy \in Seq(ProxyRecord) /\ proxy \in ProxyRecord
    BY <1>1, <1>4, LibraryFields
  <2> HIDE DEF proxy, p
  <2> QED BY SMTT(20), <1>1, <2>1
<1>8. t = [s EXCEPT !.proxy = w, !.call = v]
  BY <1>1, <1>2 DEF Enqueued, Library, CallRecord, ProxyRecord
<1> HIDE DEF t, v, w, call, proxy
<1>9. /\ t \in Library /\ t.kind = s.kind /\ t.call = v /\ t.proxy = w
      /\ t.out = s.out /\ t.in = s.in /\ t.process = s.process
  BY <1>1, <1>6, <1>7, <1>8 DEF Library
<1>10. Stays(s, t)
  BY <1>6, <1>7, <1>9 DEF Stays
<1>11. /\ s.call[k].state # "done" /\ s.call[k].served = 0 /\ k \notin W
       /\ ~In(k, s.out)
       /\ \A i \in DOMAIN s.in : IsReply(s.in[i]) => s.in[i].call # k
       /\ \A j \in DOMAIN s.proxy : ~In(k, s.proxy[j].queue)
       /\ k \notin C
  BY PlacedFacts DEF Loose
<1>12. Queues(t, 0)
  <2> SUFFICES ASSUME NEW j \in DOMAIN s.proxy, j # 0
               PROVE  /\ Distinct(t.proxy[j].queue)
                      /\ \A i \in DOMAIN t.proxy[j].queue :
                           LET n == t.proxy[j].queue[i]
                           IN  n \in DOMAIN t.call /\ t.call[n].on = j
                               /\ t.call[n].state = "queued"
    BY <1>7, <1>9 DEF Queues
  <2>1. /\ Distinct(s.proxy[j].queue)
        /\ \A i \in DOMAIN s.proxy[j].queue :
             LET n == s.proxy[j].queue[i]
             IN  n \in DOMAIN s.call /\ s.call[n].on = j /\ s.call[n].state = "queued"
    BY DEF Placed, Queues
  <2>2. \A i \in DOMAIN s.proxy[j].queue : s.proxy[j].queue[i] # k
    BY <1>11 DEF In
  <2>3. CASE j # p
    BY <2>1, <2>2, <2>3, <1>6, <1>7, <1>9
  <2>4. CASE j = p
    <3>1. t.proxy[j].queue = Append(q, k)
      BY SMTT(20), <2>4, <1>4, <1>7, <1>9
    <3>2. /\ Len(q) \in Nat /\ DOMAIN q = 1..Len(q) /\ DOMAIN Append(q, k) = 1..Len(q) + 1
          /\ \A i \in 1..Len(q) : Append(q, k)[i] = q[i]
          /\ Append(q, k)[Len(q) + 1] = k
      <4> HIDE DEF q
      <4> QED BY <1>2, AppendFacts
    <3> HIDE DEF q
    <3>3. /\ Distinct(q)
          /\ \A i \in 1..Len(q) : /\ q[i] # k /\ q[i] \in DOMAIN s.call
                                  /\ s.call[q[i]].on = j /\ s.call[q[i]].state = "queued"
      BY Zenon, <2>1, <2>2, <2>4, <3>2 DEF q
    <3>4. Distinct(Append(q, k))
      BY <3>2, <3>3 DEF Distinct
    <3>5. ASSUME NEW i \in 1..Len(q) + 1
          PROVE  LET n == Append(q, k)[i]
                 IN  n \in DOMAIN t.call /\ t.call[n].on = j /\ t.call[n].state = "queued"
      <4>1. CASE i \in 1..Len(q)
        BY <4>1, <3>2, <3>3, <1>6, <1>9
      <4>2. CASE i = Len(q) + 1
        BY <4>2, <3>2, <1>1, <1>5, <1>6, <1>9, <2>4
      <4> QED BY <3>2, <4>1, <4>2
    <3> QED BY SMTT(20), <3>1, <3>2, <3>4, <3>5
  <2> QED BY <2>3, <2>4
<1>13. Outgoing(t, W)
  BY <1>6, <1>9, <1>11 DEF Placed, Outgoing, In
<1>14. Incoming(t, W)
  BY <1>6, <1>9, <1>11 DEF Placed, Incoming
<1>15. Working(t, W) /\ Withdrawn(t, C)
  BY <1>6, <1>9, <1>11 DEF Placed, Working, Withdrawn
<1>16. \A j \in DOMAIN t.call : CallOK(t, j)
  <2>1. \A j \in DOMAIN s.call : CallOK(s, j)
    BY DEF Placed
  <2>2. CallOK(t, k)
    BY <2>1, <1>1, <1>5, <1>6, <1>7, <1>9, <1>11 DEF CallOK
  <2>3. ASSUME NEW j \in DOMAIN s.call, j # k PROVE CallOK(t, j)
    BY <2>1, <2>3, <1>6, <1>7, <1>9 DEF CallOK
  <2> QED BY <1>6, <1>9, <2>2, <2>3
<1> QED
  BY <1>9, <1>10, <1>12, <1>13, <1>14, <1>15, <1>16 DEF Placed, t

LEMMA EnqueuePlaced ==
    ASSUME NEW s, NEW W, NEW C, Placed(s, 0, W, C), NEW k, Loose(s, W, k)
    PROVE  Placed(enqueue(s, k), 0, W, C) /\ Stays(s, enqueue(s, k))
<1> DEFINE t == Enqueued(s, k)
<1>1. enqueue(s, k) \in {t, connect(t)}
  BY DEF enqueue, Enqueued
<1>2. Placed(t, 0, W, C) /\ Stays(s, t)
  BY EnqueuedPlaced
<1> HIDE DEF t
<1>3. Placed(connect(t), 0, W, C) /\ Stays(s, connect(t))
  BY <1>2, ConnectPlaced, StaysOn
<1> QED
  BY <1>1, <1>2, <1>3

\* What a call of the library leaves alone
Grows(s, t) ==
    /\ t \in Library
    /\ t.kind = s.kind /\ t.process \in {s.process, NoCall}
    /\ DOMAIN s.call \subseteq DOMAIN t.call /\ DOMAIN s.proxy \subseteq DOMAIN t.proxy

LEMMA GrowsOn ==
    ASSUME NEW r, NEW s, NEW t, Grows(r, s), Grows(s, t) PROVE Grows(r, t)
BY DEF Grows

LEMMA StaysGrows == ASSUME NEW s, NEW t, Stays(s, t) PROVE Grows(s, t)
BY DEF Stays, Grows

WithCall(s, p, op) == [s EXCEPT !.call = Append(@, PendingCall(p, op))]

LEMMA WithCallPlaced ==
    ASSUME NEW s, NEW W, NEW C, Placed(s, 0, W, C), NEW p \in DOMAIN s.proxy, NEW op \in Ops,
           op = "queryMechanisms" => s.kind = "service"
    PROVE  LET t == WithCall(s, p, op)
               k == Len(s.call) + 1
           IN  /\ Placed(t, 0, W, C) /\ Grows(s, t)
               /\ k \in DOMAIN t.call /\ t.call[k] = PendingCall(p, op)
               /\ t.proxy = s.proxy /\ t.process = s.process
               /\ Loose(t, W, k)
<1> DEFINE t == WithCall(s, p, op)
           k == Len(s.call) + 1
           v == Append(s.call, PendingCall(p, op))
<1>1. s \in Library /\ s.call \in Seq(CallRecord) /\ p \in Nat
  BY LibraryFields, ProxyFields DEF Placed
<1>2. PendingCall(p, op) \in CallRecord
  BY <1>1 DEF PendingCall, CallRecord, NoPath
<1>3. /\ v \in Seq(CallRecord) /\ Len(s.call) \in Nat
      /\ DOMAIN s.call = 1..Len(s.call) /\ DOMAIN v = 1..k
      /\ \A j \in DOMAIN s.call : v[j] = s.call[j]
      /\ v[k] = PendingCall(p, op)
  BY <1>1, <1>2, AppendFacts
<1>4. k \in DOMAIN v /\ k \notin DOMAIN s.call /\ DOMAIN v = DOMAIN s.call \cup {k}
  BY <1>3
<1>5. t = [s EXCEPT !.call = v]
  BY <1>1 DEF WithCall, Library
<1> HIDE DEF t, v, k
<1>6. /\ t \in Library /\ t.kind = s.kind /\ t.call = v /\ t.proxy = s.proxy
      /\ t.out = s.out /\ t.in = s.in /\ t.process = s.process
  BY <1>1, <1>3, <1>5 DEF Library
<1>7. Grows(s, t)
  BY <1>4, <1>6 DEF Grows
<1>8. Queues(t, 0)
  BY <1>3, <1>4, <1>6 DEF Placed, Queues
<1>9. Outgoing(t, W) /\ Working(t, W) /\ Withdrawn(t, C)
  BY <1>3, <1>4, <1>6 DEF Placed, Outgoing, Working, Withdrawn
<1>10. Incoming(t, W)
  BY <1>3, <1>4, <1>6 DEF Placed, Incoming
<1>11. \A j \in DOMAIN t.call : CallOK(t, j)
  <2>1. CallOK(t, k)
    BY <1>3, <1>4, <1>6 DEF CallOK, PendingCall
  <2>2. \A j \in DOMAIN s.call : CallOK(t, j)
    BY <1>3, <1>4, <1>6 DEF Placed, CallOK
  <2> QED BY <1>4, <1>6, <2>1, <2>2
<1>12. Placed(t, 0, W, C)
  BY <1>6, <1>8, <1>9, <1>10, <1>11 DEF Placed
<1>13. Loose(t, W, k)
  <2>1. k \notin W
    BY <1>4 DEF Placed, Working
  <2>2. ~In(k, t.out)
    BY <1>4, <1>6 DEF Placed, Outgoing, In
  <2>3. \A i \in DOMAIN t.in : IsReply(t.in[i]) => t.in[i].call # k
    BY <1>4, <1>6 DEF Placed, Incoming
  <2>4. \A j \in DOMAIN t.proxy : ~In(k, t.proxy[j].queue)
    <3>1. \A j \in DOMAIN s.proxy : j # 0
      BY <1>1, ProxyFields
    <3> QED BY <1>4, <1>6, <3>1 DEF Placed, Queues, In
  <2>5. t.call[k].state = "queued" /\ t.call[k].served = 0
    BY <1>3, <1>6 DEF PendingCall
  <2> QED BY <1>4, <1>6, <2>1, <2>2, <2>3, <2>4, <2>5 DEF Loose
<1> QED
  BY <1>3, <1>4, <1>6, <1>7, <1>12, <1>13 DEF t, k

LEMMA NewProxyPlaced ==
    ASSUME NEW s, NEW W, NEW C, Placed(s, 0, W, C), NEW path \in Nat
    PROVE  LET t == newProxy(s, path) IN
           /\ Placed(t, 0, W, C) /\ Grows(s, t)
           /\ Len(s.proxy) + 1 \in DOMAIN t.proxy
           /\ t.call = s.call /\ t.process = s.process
<1> DEFINE t == newProxy(s, path)
           p == Len(s.proxy) + 1
           r == [exists |-> TRUE, conn |-> s.online, path |-> path, queue |-> <<>>,
                 status |-> IF s.online /\ path # NoPath THEN "Ready" ELSE "Incomplete"]
           w == Append(s.proxy, r)
<1>1. s \in Library /\ s.proxy \in Seq(ProxyRecord) /\ s.online \in BOOLEAN
  BY LibraryFields DEF Placed
<1>2. r \in ProxyRecord /\ r.queue = <<>>
  <2>1. <<>> \in Seq(Nat)
    OBVIOUS
  <2> DEFINE none == <<>>
             u == [exists |-> TRUE, conn |-> s.online, path |-> path, queue |-> none,
                   status |-> IF s.online /\ path # NoPath THEN "Ready" ELSE "Incomplete"]
  <2>2. none \in Seq(Nat)
    BY <2>1
  <2> HIDE DEF none
  <2>3. u \in ProxyRecord /\ u.queue = none
    BY <1>1, <2>2 DEF ProxyRecord
  <2> QED BY <2>3 DEF none
<1> HIDE DEF r
<1>3. /\ w \in Seq(ProxyRecord) /\ Len(s.proxy) \in Nat
      /\ DOMAIN s.proxy = 1..Len(s.proxy) /\ DOMAIN w = 1..p
      /\ \A j \in DOMAIN s.proxy : w[j] = s.proxy[j]
      /\ w[p] = r
  BY <1>1, <1>2, AppendFacts
<1>4. p \in DOMAIN w /\ DOMAIN w = DOMAIN s.proxy \cup {p}
  BY <1>3
<1>5. t = [s EXCEPT !.proxy = w]
  BY <1>1 DEF newProxy, Library, r
<1> HIDE DEF t, w, p
<1>6. /\ t \in Library /\ t.kind = s.kind /\ t.call = s.call /\ t.proxy = w
      /\ t.out = s.out /\ t.in = s.in /\ t.process = s.process
  BY <1>1, <1>3, <1>5 DEF Library
<1>7. Grows(s, t)
  BY <1>4, <1>6 DEF Grows
<1>8. Queues(t, 0)
  <2> SUFFICES ASSUME NEW j \in DOMAIN w \ {0}
               PROVE  /\ Distinct(w[j].queue)
                      /\ \A i \in DOMAIN w[j].queue :
                           LET n == w[j].queue[i]
                           IN  n \in DOMAIN s.call /\ s.call[n].on = j
                               /\ s.call[n].state = "queued"
    BY <1>6 DEF Queues
  <2>1. CASE j = p
    BY <1>2, <1>3, <2>1 DEF Distinct
  <2>2. CASE j \in DOMAIN s.proxy
    BY <1>3, <2>2 DEF Placed, Queues
  <2> QED BY <1>4, <2>1, <2>2
<1>9. Outgoing(t, W) /\ Working(t, W) /\ Withdrawn(t, C) /\ Incoming(t, W)
  BY <1>6 DEF Placed, Outgoing, Working, Withdrawn, Incoming
<1>10. \A j \in DOMAIN t.call : CallOK(t, j)
  BY <1>4, <1>6 DEF Placed, CallOK
<1> QED
  BY <1>4, <1>6, <1>7, <1>8, <1>9, <1>10 DEF Placed, t, p

LEMMA SendRegistrationPlaced ==
    ASSUME NEW s, NEW W, NEW C, Placed(s, 0, W, C)
    PROVE  Placed(sendRegistration(s), 0, W, C) /\ Grows(s, sendRegistration(s))
<1> DEFINE n == newProxy(s, DaemonPath)
           p == Len(s.proxy) + 1
           k == Len(s.call) + 1
           op == RegistrationCall(s)
           t == WithCall(n, p, op)
<1>1. sendRegistration(s) \in {doCall(t, k), enqueue(t, k)}
  BY DEF sendRegistration, WithCall
<1>2. op \in Ops /\ op # "queryMechanisms"
  BY DEF RegistrationCall, Ops
<1>3. Placed(n, 0, W, C) /\ Grows(s, n) /\ p \in DOMAIN n.proxy /\ n.call = s.call
  BY NewProxyPlaced DEF DaemonPath
<1> HIDE DEF op, n, p
<1>4. /\ Placed(t, 0, W, C) /\ Grows(n, t)
      /\ k \in DOMAIN t.call /\ t.call[k] = PendingCall(p, op)
      /\ t.proxy = n.proxy
      /\ Loose(t, W, k)
  BY <1>2, <1>3, WithCallPlaced
<1> HIDE DEF t, k
<1>5. t.call[k].on \in DOMAIN t.proxy /\ t.call[k].state = "queued" /\ t \in Library
  BY <1>3, <1>4 DEF PendingCall, Grows
<1>6. Placed(doCall(t, k), 0, W, C) /\ Stays(t, doCall(t, k))
  BY <1>4, <1>5, DoCallPlaced, DoCallStays DEF Loose
<1>7. Placed(enqueue(t, k), 0, W, C) /\ Stays(t, enqueue(t, k))
  BY <1>4, EnqueuePlaced
<1> QED
  BY <1>1, <1>3, <1>4, <1>6, <1>7, StaysGrows, GrowsOn

LEMMA ObjectPathNeededPlaced ==
    ASSUME NEW s, NEW W, NEW C, Placed(s, 0, W, C)
    PROVE  /\ Placed(initInterface(s), 0, W, C) /\ Grows(s, initInterface(s))
           /\ Placed(sendRegisterRequest(s), 0, W, C) /\ Grows(s, sendRegisterRequest(s))
           /\ Placed(objectPathNeeded(s), 0, W, C) /\ Grows(s, objectPathNeeded(s))
<1>1. s \in Library /\ Grows(s, s)
  BY DEF Placed, Grows
<1>2. Placed(initInterface(s), 0, W, C) /\ Grows(s, initInterface(s))
  <2> DEFINE r == [s EXCEPT !.registering = TRUE]
  <2>1. initInterface(s) \in {s, sendRegistration(r)}
    BY DEF initInterface
  <2>2. /\ Grows(s, r) /\ r.kind = s.kind
        /\ r.call = s.call /\ r.proxy = s.proxy /\ r.out = s.out /\ r.in = s.in
    BY <1>1 DEF Library, Grows
  <2> HIDE DEF r
  <2>3. Placed(r, 0, W, C)
    BY <2>2, SamePlaced DEF Grows
  <2>4. Placed(sendRegistration(r), 0, W, C) /\ Grows(s, sendRegistration(r))
    BY <2>2, <2>3, SendRegistrationPlaced, GrowsOn
  <2> QED BY <1>1, <2>1, <2>4
<1>3. Placed(sendRegisterRequest(s), 0, W, C) /\ Grows(s, sendRegisterRequest(s))
  <2> DEFINE u == sendRegistration(s)
             t == [u EXCEPT !.state = "PendingRegistration"]
  <2>1. sendRegisterRequest(s) \in {s, t}
    BY DEF sendRegisterRequest
  <2>2. Placed(u, 0, W, C) /\ Grows(s, u)
    BY SendRegistrationPlaced
  <2> HIDE DEF u
  <2>3. /\ Grows(u, t) /\ t.kind = u.kind
        /\ t.call = u.call /\ t.proxy = u.proxy /\ t.out = u.out /\ t.in = u.in
    BY <2>2 DEF Library, Grows
  <2> HIDE DEF t
  <2>4. Placed(t, 0, W, C) /\ Grows(s, t)
    BY <2>2, <2>3, SamePlaced, GrowsOn DEF Grows
  <2> QED BY <1>1, <2>1, <2>4
<1>4. s.kind \in {"session", "identity", "service"}
  BY <1>1, LibraryFields
<1>5. objectPathNeeded(s) \in {initInterface(s), sendRegisterRequest(s), s}
  BY <1>4 DEF objectPathNeeded
<1> QED
  BY <1>1, <1>2, <1>3, <1>5

LEMMA EnqueueCallPlaced ==
    ASSUME NEW s, NEW W, NEW C, Placed(s, 0, W, C), NEW k, Loose(s, W, k)
    PROVE  Placed(enqueueCall(s, k), 0, W, C) /\ Grows(s, enqueueCall(s, k))
<1> DEFINE t == enqueue(s, k)
<1>1. enqueueCall(s, k) \in {t, objectPathNeeded(t)}
  BY DEF enqueueCall
<1>2. Placed(t, 0, W, C) /\ Grows(s, t)
  BY EnqueuePlaced, StaysGrows
<1> HIDE DEF t
<1>3. Placed(objectPathNeeded(t), 0, W, C) /\ Grows(s, objectPathNeeded(t))
  BY <1>2, ObjectPathNeededPlaced, GrowsOn
<1> QED
  BY <1>1, <1>2, <1>3

LEMMA QueueCallPlaced ==
    ASSUME NEW s, NEW W, NEW C, Placed(s, 0, W, C), Main \in DOMAIN s.proxy, NEW op \in Ops,
           op = "queryMechanisms" => s.kind = "service"
    PROVE  /\ Placed(queueCall(s, op), 0, W, C) /\ Grows(s, queueCall(s, op))
           /\ Len(s.call) + 1 \in DOMAIN queueCall(s, op).call
<1> DEFINE t == WithCall(s, Main, op)
           k == Len(s.call) + 1
           f == [t EXCEPT !.call[k].state = "failing"]
<1>1. s.proxy[Main].status \in {"Incomplete", "Ready", "Invalid"}
  <2>1. s.proxy[Main] \in ProxyRecord
    BY ProxyFields DEF Placed
  <2> QED BY <2>1 DEF ProxyRecord
<1>2. queueCall(s, op) \in {doCall(t, k), enqueueCall(t, k), f}
  BY <1>1 DEF queueCall, WithCall
<1>3. /\ Placed(t, 0, W, C) /\ Grows(s, t)
      /\ k \in DOMAIN t.call /\ t.call[k] = PendingCall(Main, op)
      /\ t.proxy = s.proxy /\ t.process = s.process
      /\ Loose(t, W, k)
  BY WithCallPlaced
<1> HIDE DEF t, k
<1>4. t.call[k].on \in DOMAIN t.proxy /\ t.call[k].state = "queued" /\ t \in Library
      /\ t.call[k] \in CallRecord
  BY <1>3, CallFields DEF PendingCall, Grows
<1>5. Placed(doCall(t, k), 0, W, C) /\ Grows(t, doCall(t, k))
  BY <1>3, <1>4, DoCallPlaced, DoCallStays, StaysGrows DEF Loose
<1>6. Placed(enqueueCall(t, k), 0, W, C) /\ Grows(t, enqueueCall(t, k))
  BY <1>3, EnqueueCallPlaced
<1>7. Placed(f, 0, W, C) /\ Grows(t, f)
  <2> DEFINE call == [t.call[k] EXCEPT !.state = "failing"]
             v == [t.call EXCEPT ![k] = call]
  <2>1. call \in CallRecord
    BY <1>4 DEF CallRecord
  <2>2. v \in Seq(CallRecord) /\ DOMAIN v = DOMAIN t.call
    <3>1. t.call \in Seq(CallRecord)
      BY <1>4, LibraryFields
    <3> HIDE DEF call
    <3> QED BY <2>1, <3>1, <1>3
  <2>3. f = [t EXCEPT !.call = v]
    BY <1>3, <1>4 DEF Library
  <2>4. /\ \A j \in DOMAIN t.call : j # k => v[j] = t.call[j]
        /\ v[k].state = "failing" /\ v[k].on = t.call[k].on
        /\ v[k].served = t.call[k].served /\ v[k].watched = t.call[k].watched
        /\ v[k].answers = t.call[k].answers /\ v[k].op = t.call[k].op
    BY <1>3, <1>4 DEF CallRecord
  <2> HIDE DEF v, f
  <2>5. /\ f \in Library /\ f.kind = t.kind /\ f.call = v /\ f.proxy = t.proxy
        /\ f.out = t.out /\ f.in = t.in /\ f.process = t.process
    BY <1>4, <2>2, <2>3 DEF Library
  <2>6. Grows(t, f)
    BY <2>2, <2>5 DEF Grows
  <2>7. /\ k \notin W /\ ~In(k, t.out)
        /\ \A i \in DOMAIN t.in : IsReply(t.in[i]) => t.in[i].call # k
        /\ \A p \in DOMAIN t.proxy : ~In(k, t.proxy[p].queue)
        /\ t.call[k].served = 0
    BY <1>3 DEF Loose
  <2>8. Queues(f, 0)
    BY <1>3, <2>2, <2>4, <2>5, <2>7 DEF Placed, Queues, In
  <2>9. Outgoing(f, W) /\ Working(f, W)
    BY <1>3, <2>2, <2>4, <2>5, <2>7 DEF Placed, Outgoing, Working, In
  <2>10. Incoming(f, W)
    BY <1>3, <2>2, <2>4, <2>5, <2>7 DEF Placed, Incoming
  <2>11. Withdrawn(f, C)
    BY <1>3, <2>2, <2>4, <2>5, <2>7 DEF Placed, Withdrawn
  <2>12. \A j \in DOMAIN f.call : CallOK(f, j)
    <3>1. \A j \in DOMAIN t.call : CallOK(t, j)
      BY <1>3 DEF Placed
    <3>2. CallOK(f, k)
      BY <1>3, <1>4, <2>2, <2>4, <2>5, <2>7, <3>1 DEF CallOK
    <3>3. ASSUME NEW j \in DOMAIN t.call, j # k PROVE CallOK(f, j)
      BY <2>2, <2>4, <2>5, <3>1, <3>3 DEF CallOK
    <3> QED BY <2>2, <2>5, <3>2, <3>3
  <2> QED BY <2>5, <2>6, <2>8, <2>9, <2>10, <2>11, <2>12 DEF Placed
<1>8. \A r : Grows(t, r) => Grows(s, r) /\ k \in DOMAIN r.call
  BY <1>3, GrowsOn DEF Grows
<1> QED
  BY <1>2, <1>5, <1>6, <1>7, <1>8 DEF k

-----------------------------------------------------------------------------
(* The calls of the application *)

LEMMA GrowsSound ==
    ASSUME NEW s, NEW t, NEW W, NEW C, NEW V, NEW D, NEW K, Sound(s, W, C, K), Grows(s, t),
           Placed(t, 0, V, D)
    PROVE  Sound(t, V, D, K)
BY DEF Sound, Grows

\* What the owner keeps for itself may be set at will.
LEMMA OwnerSound ==
    ASSUME NEW s, NEW W, NEW C, NEW K, Sound(s, W, C, K)
    PROVE  /\ \A x \in {"NeedsRegistration", "PendingRegistration", "PendingUpdate", "Ready", "Removed"} :
                Sound([s EXCEPT !.state = x], W, C, K)
           /\ \A x \in Nat : Sound([s EXCEPT !.id = x], W, C, K)
           /\ \A x \in Seq(Nat) : Sound([s EXCEPT !.methods = x], W, C, K)
           /\ \A x \in BOOLEAN : Sound([s EXCEPT !.registering = x], W, C, K)
           /\ \A x \in DOMAIN s.call \cup {NoCall} : Sound([s EXCEPT !.process = x], W, C, K)
<1>1. s \in Library /\ Placed(s, 0, W, C)
  BY DEF Sound, Placed
<1> DEFINE Same(t) == /\ t \in Library /\ t.kind = s.kind
                      /\ t.call = s.call /\ t.proxy = s.proxy
                      /\ t.out = s.out /\ t.in = s.in
<1>2. ASSUME NEW t, Same(t), t.process \in DOMAIN s.call \cup {NoCall} \/ t.process = s.process
      PROVE  Sound(t, W, C, K)
  <2>1. Placed(t, 0, W, C)
    BY <1>1, <1>2, SamePlaced
  <2> QED BY <1>2, <2>1 DEF Sound
<1>3. ASSUME NEW x \in {"NeedsRegistration", "PendingRegistration", "PendingUpdate", "Ready", "Removed"}
      PROVE  Same([s EXCEPT !.state = x]) /\ [s EXCEPT !.state = x].process = s.process
  BY <1>1 DEF Library
<1>4. ASSUME NEW x \in Nat
      PROVE  Same([s EXCEPT !.id = x]) /\ [s EXCEPT !.id = x].process = s.process
  BY <1>1 DEF Library
<1>5. ASSUME NEW x \in Seq(Nat)
      PROVE  Same([s EXCEPT !.methods = x]) /\ [s EXCEPT !.methods = x].process = s.process
  BY <1>1 DEF Library
<1>6. ASSUME NEW x \in BOOLEAN
      PROVE  Same([s EXCEPT !.registering = x]) /\ [s EXCEPT !.registering = x].process = s.process
  BY <1>1 DEF Library
<1>7. ASSUME NEW x \in DOMAIN s.call \cup {NoCall}
      PROVE  Same([s EXCEPT !.process = x]) /\ [s EXCEPT !.process = x].process = x
  <2>1. x \in Nat
    BY <1>1, CallFields DEF NoCall
  <2> QED BY <1>1, <2>1 DEF Library
<1> HIDE DEF Same
<1> QED
  BY <1>2, <1>3, <1>4, <1>5, <1>6, <1>7

LEMMA QueueCallSound ==
    ASSUME NEW s, NEW W, NEW C, NEW K, Sound(s, W, C, K), NEW op \in Ops,
           op = "queryMechanisms" => K = "service"
    PROVE  Sound(queueCall(s, op), W, C, K) /\ Len(s.call) + 1 \in DOMAIN queueCall(s, op).call
BY QueueCallPlaced, GrowsSound DEF Sound

LEMMA UpdateContentsSound ==
    ASSUME NEW s, NEW W, NEW C, NEW K, Sound(s, W, C, K)
    PROVE  Sound(updateContents(s), W, C, K)
<1>1. Sound(queueCall(s, "getInfo"), W, C, K)
  BY QueueCallSound DEF Ops
<1> DEFINE q == queueCall(s, "getInfo")
<1>2. updateContents(s) = [q EXCEPT !.state = "PendingUpdate"]
  BY DEF updateContents
<1>3. Sound(q, W, C, K)
  BY <1>1
<1> HIDE DEF q
<1>4. Sound([q EXCEPT !.state = "PendingUpdate"], W, C, K)
  BY <1>3, OwnerSound
<1> QED
  BY <1>2, <1>4

LEMMA KindKept ==
    ASSUME Sound(c', d'.working, canceled', c.kind), d' \in Daemon
    PROVE  ClientInv' /\ c'.kind = c.kind
BY DEF ClientInv, Sound

LEMMA CallsOfApplication ==
    ASSUME ClientInv,
           \/ queryAvailableMechanisms \/ setId \/ process
           \/ verifyUser \/ storeCredentials \/ remove \/ signOut \/ queryInfo
           \/ sendRequest \/ queryMechanisms
    PROVE  ClientInv' /\ c'.kind = c.kind
<1> DEFINE W == d.working
           C == canceled
<1>1. Sound(c, W, C, c.kind) /\ d \in Daemon
  BY DEF ClientInv
<1>2. d' = d /\ canceled' = canceled
  BY DEF queryAvailableMechanisms, setId, process, verifyUser, storeCredentials,
         remove, signOut, queryInfo, sendRequest, queryMechanisms, Application
<1>3. SUFFICES Sound(c', W, C, c.kind)
  BY <1>1, <1>2, KindKept DEF ClientInv
<1>4. \A op \in Ops : (op = "queryMechanisms" => c.kind = "service") =>
           /\ Sound(queueCall(c, op), W, C, c.kind)
           /\ Len(c.call) + 1 \in DOMAIN queueCall(c, op).call
  BY <1>1, QueueCallSound
<1>5. CASE queryAvailableMechanisms \/ setId \/ sendRequest \/ verifyUser \/ remove \/ signOut
  <2>1. c' = c \/ \E op \in Ops \ {"queryMechanisms"} : c' = queueCall(c, op)
    BY <1>5 DEF queryAvailableMechanisms, setId, sendRequest, verifyUser, remove, signOut, Ops
  <2> QED BY <1>1, <1>4, <2>1
<1>6. CASE process
  <2> DEFINE q == queueCall(c, "process")
  <2>1. c' = c \/ c' = [q EXCEPT !.process = Len(c.call) + 1]
    BY <1>6 DEF process
  <2>2. Sound(q, W, C, c.kind) /\ Len(c.call) + 1 \in DOMAIN q.call
    BY <1>4 DEF Ops
  <2>3. Len(c.call) + 1 \in DOMAIN q.call \cup {NoCall}
    BY <2>2
  <2> HIDE DEF q
  <2>4. Sound([q EXCEPT !.process = Len(c.call) + 1], W, C, c.kind)
    BY <2>2, <2>3, OwnerSound
  <2> QED BY <1>1, <2>1, <2>4
<1>7. CASE storeCredentials
  <2> DEFINE x == IF c.state = "Removed" THEN "NeedsRegistration" ELSE c.state
             s == [c EXCEPT !.state = x]
  <2>1. c' = queueCall(s, "store")
    BY <1>7 DEF storeCredentials
  <2>2. x \in {"NeedsRegistration", "PendingRegistration", "PendingUpdate", "Ready", "Removed"}
    BY <1>1 DEF Sound, Placed, Library
  <2> HIDE DEF x
  <2>3. Sound(s, W, C, c.kind)
    BY <1>1, <2>2, OwnerSound
  <2> HIDE DEF s
  <2> QED BY <2>1, <2>3, QueueCallSound DEF Ops
<1>8. CASE queryInfo
  <2>1. c' \in {c, updateContents(c)}
    BY <1>8 DEF queryInfo
  <2> QED BY <1>1, <2>1, UpdateContentsSound
<1>9. CASE queryMechanisms
  <2> DEFINE q == queueCall(c, "queryMechanisms")
  <2>1. c' = [q EXCEPT !.methods = Append(q.methods, Len(c.call) + 1)]
    BY <1>9 DEF queryMechanisms
  <2>2. Sound(q, W, C, c.kind)
    BY <1>4, <1>9 DEF Ops, queryMechanisms, Application
  <2> HIDE DEF q
  <2>3. q.methods \in Seq(Nat) /\ Len(c.call) + 1 \in Nat
    BY <1>1, <2>2, LibraryFields DEF Sound, Placed
  <2>4. Append(q.methods, Len(c.call) + 1) \in Seq(Nat)
    BY <2>3, AppendFacts
  <2> QED BY <2>1, <2>2, <2>4, OwnerSound
<1> QED
  BY <1>5, <1>6, <1>7, <1>8, <1>9

LEMMA SilentFinishPlaced ==
    ASSUME NEW s, NEW x, NEW W, NEW C, Placed(s, x, W, C), NEW k \in DOMAIN s.call,
           s.call[k].state = "sent" => k \in W, s.kind = "session"
    PROVE  LET t == onCallFinished(s, k) IN
           /\ Placed(t, x, W \ {k}, C) /\ Stays(s, t)
           /\ t.call[k].state = "done" /\ t.call[k].served = s.call[k].served
           /\ \A j \in DOMAIN s.call : j # k => t.call[j] = s.call[j]
<1>1. s \in {s, answered(s, k)} /\ s.kind = "session"
  OBVIOUS
<1> QED
  BY <1>1, FinishPlaced

\* The call that is withdrawn was never made.
LEMMA WithdrawSound ==
    ASSUME NEW s, NEW W, NEW C, NEW K, Sound(s, W, C, K), s.kind = "session",
           s.process # NoCall, ~s.call[s.process].watched
    PROVE  Sound([answered(withdraw(s, s.process), s.process) EXCEPT !.process = NoCall],
                 W, C \cup {s.process}, K)
<1> DEFINE k == s.process
           t == onCallFinished(s, k)
           f == [t EXCEPT !.call[k].state = "failing"]
           w == withdraw(s, k)
           a == answered(w, k)
<1>1. Placed(s, 0, W, C) /\ k \in DOMAIN s.call /\ s \in Library
  BY DEF Sound, Placed
<1>2. s.call[k].state # "sent" /\ s.call[k].served = 0
  BY <1>1 DEF Placed, CallOK
<1>3. k \notin W /\ ~In(k, s.out)
      /\ \A i \in DOMAIN s.in : IsReply(s.in[i]) => s.in[i].call # k
  BY <1>1, <1>2, PlacedFacts
<1>4. /\ Placed(t, 0, W \ {k}, C) /\ Stays(s, t)
      /\ t.call[k].state = "done" /\ t.call[k].served = s.call[k].served
      /\ \A j \in DOMAIN s.call : j # k => t.call[j] = s.call[j]
  <2>1. s.call[k].state = "sent" => k \in W
    BY <1>2
  <2> HIDE DEF k
  <2> QED BY <1>1, <2>1, SilentFinishPlaced
<1>5. W \ {k} = W
  BY <1>3
<1> HIDE DEF t, k
<1>6. Sound(t, W, C, K) /\ t.kind = "session" /\ k \in DOMAIN t.call
  BY <1>1, <1>4, <1>5, StaysGrows, GrowsSound DEF Stays
<1>7. /\ Sound(w, W, C, K) /\ w.kind = "session" /\ k \in DOMAIN w.call
      /\ w.call[k].state \in {"done", "failing"} /\ w.call[k].served = 0
  <2>1. CASE s.call[k].state # "failing"
    <3>1. w = t
      BY <2>1 DEF withdraw, t
    <3> QED BY <1>2, <1>4, <1>6, <3>1
  <2>2. CASE s.call[k].state = "failing"
    <3>1. w = f
      BY <2>2 DEF withdraw, t
    <3> DEFINE call == [t.call[k] EXCEPT !.state = "failing"]
               v == [t.call EXCEPT ![k] = call]
    <3>2. t \in Library /\ t.call \in Seq(CallRecord) /\ t.call[k] \in CallRecord
      BY <1>6, LibraryFields, CallFields DEF Sound, Placed
    <3>3. call \in CallRecord
      BY <3>2 DEF CallRecord
    <3>4. v \in Seq(CallRecord) /\ DOMAIN v = DOMAIN t.call
      <4> HIDE DEF call
      <4> QED BY <1>6, <3>2, <3>3
    <3>5. f = [t EXCEPT !.call = v]
      BY <1>6, <3>2 DEF Library
    <3>6. /\ \A j \in DOMAIN t.call : j # k => v[j] = t.call[j]
          /\ v[k].state = "failing" /\ v[k].on = t.call[k].on
          /\ v[k].served = t.call[k].served /\ v[k].watched = t.call[k].watched
          /\ v[k].op = t.call[k].op
      BY <1>6, <3>2 DEF CallRecord
    <3> HIDE DEF v, f
    <3>7. /\ f \in Library /\ f.kind = t.kind /\ f.call = v /\ f.proxy = t.proxy
          /\ f.out = t.out /\ f.in = t.in /\ f.process = t.process
      BY <3>2, <3>4, <3>5 DEF Library
    <3>8. Placed(t, 0, W, C) /\ t.call[k].state = "done" /\ t.call[k].served = 0
      BY <1>2, <1>4, <1>6 DEF Sound
    <3>9. Queues(f, 0)
      BY <3>4, <3>6, <3>7, <3>8 DEF Placed, Queues
    <3>10. Outgoing(f, W) /\ Working(f, W) /\ Withdrawn(f, C)
      BY <3>4, <3>6, <3>7, <3>8 DEF Placed, Outgoing, Working, Withdrawn
    <3>11. Incoming(f, W)
      BY <3>4, <3>6, <3>7, <3>8 DEF Placed, Incoming
    <3>12. \A j \in DOMAIN f.call : CallOK(f, j)
      <4>1. \A j \in DOMAIN t.call : CallOK(t, j)
        BY <3>8 DEF Placed
      <4>2. CallOK(f, k)
        BY <1>6, <3>4, <3>6, <3>7, <3>8, <4>1 DEF CallOK
      <4>3. ASSUME NEW j \in DOMAIN t.call, j # k PROVE CallOK(f, j)
        BY <3>4, <3>6, <3>7, <4>1, <4>3 DEF CallOK
      <4> QED BY <3>4, <3>7, <4>2, <4>3
    <3>13. Sound(f, W, C, K)
      BY <1>6, <3>4, <3>7, <3>9, <3>10, <3>11, <3>12 DEF Placed, Sound
    <3> QED BY <1>6, <3>1, <3>4, <3>6, <3>7, <3>8, <3>13
  <2> QED BY <2>1, <2>2
<1> HIDE DEF w
<1>8. /\ Stays(w, a)
      /\ a.call = [w.call EXCEPT ![k].answers = @ + 1]
      /\ a.proxy = w.proxy /\ a.out = w.out /\ a.in = w.in /\ a.process = w.process
  BY <1>7, AnsweredEffect DEF Sound, Placed
<1>9. \A j \in DOMAIN w.call :
         /\ a.call[j].state = w.call[j].state /\ a.call[j].served = w.call[j].served
         /\ a.call[j].on = w.call[j].on /\ a.call[j].watched = w.call[j].watched
  <2>1. \A j \in DOMAIN w.call : w.call[j] \in CallRecord
    BY <1>7, CallFields DEF Sound, Placed
  <2> QED BY <1>7, <1>8, <2>1 DEF CallRecord
<1> HIDE DEF a
<1>10. /\ a \in Library /\ a.kind = "session" /\ w.kind = "session"
       /\ DOMAIN a.call = DOMAIN w.call /\ DOMAIN a.proxy = DOMAIN w.proxy
  BY <1>7, <1>8 DEF Stays
<1>11. Placed(w, 0, W, C)
  BY <1>7 DEF Sound
<1>12. Queues(a, 0)
  BY <1>8, <1>9, <1>10, <1>11 DEF Placed, Queues
<1>13. Outgoing(a, W) /\ Working(a, W)
  BY <1>8, <1>9, <1>10, <1>11 DEF Placed, Outgoing, Working
<1>14. Incoming(a, W)
  BY <1>8, <1>9, <1>10, <1>11 DEF Placed, Incoming
<1>15. \A j \in DOMAIN a.call : CallOK(a, j)
  BY <1>8, <1>9, <1>10, <1>11 DEF Placed, CallOK
<1>16. Withdrawn(a, C \cup {k})
  BY <1>7, <1>9, <1>10, <1>11 DEF Placed, Withdrawn
<1>17. Sound(a, W, C \cup {k}, K)
  BY <1>7, <1>8, <1>10, <1>12, <1>13, <1>14, <1>15, <1>16 DEF Placed, Sound
<1>18. Sound([a EXCEPT !.process = NoCall], W, C \cup {k}, K)
  BY <1>17, OwnerSound
<1> QED
  BY <1>18 DEF a, w, k

LEMMA CancelInv == ASSUME ClientInv, cancel PROVE ClientInv' /\ c'.kind = c.kind
<1>1. Sound(c, d.working, canceled, c.kind) /\ d \in Daemon
  BY DEF ClientInv
<1>2. d' = d /\ c.kind = "session"
  BY DEF cancel, Application
<1>3. CASE c.process # NoCall /\ ~c.call[c.process].watched
  <2>1. /\ c' = [answered(withdraw(c, c.process), c.process) EXCEPT !.process = NoCall]
        /\ canceled' = canceled \cup {c.process}
    BY <1>3 DEF cancel
  <2>2. Sound(c', d.working, canceled', c.kind)
    BY <1>1, <1>2, <1>3, <2>1, WithdrawSound
  <2> QED BY <1>1, <1>2, <2>2, KindKept DEF ClientInv
<1>4. CASE ~(c.process # NoCall /\ ~c.call[c.process].watched)
  <2> DEFINE q == queueCall(c, "cancel")
  <2>1. c' = [q EXCEPT !.process = NoCall] /\ canceled' = canceled
    BY <1>4 DEF cancel
  <2>2. Sound(q, d.working, canceled, c.kind)
    BY <1>1, QueueCallSound DEF Ops
  <2> HIDE DEF q
  <2>3. Sound(c', d.working, canceled', c.kind)
    BY <2>1, <2>2, OwnerSound
  <2> QED BY <1>1, <1>2, <2>3, KindKept DEF ClientInv
<1> QED
  BY <1>3, <1>4

-----------------------------------------------------------------------------
(* The event loop *)

\* A call that others have worked on comes to its end.
LEMMA EndedSound ==
    ASSUME NEW s, NEW V, NEW C, NEW K, Sound(s, V, C, K), NEW k \in V
    PROVE  Sound(onCallFinished(answered(s, k), k), V \ {k}, C, K)
<1>1. k \in DOMAIN s.call /\ s.call[k].state = "sent" /\ Placed(s, 0, V, C)
  BY DEF Sound, Placed, Working
<1> DEFINE t == onCallFinished(answered(s, k), k)
<1>2. Placed(t, 0, V \ {k}, C) /\ Stays(s, t)
  BY <1>1, FinishPlaced
<1> HIDE DEF t
<1>3. Sound(t, V \ {k}, C, K)
  BY <1>2, StaysGrows, GrowsSound
<1> QED
  BY <1>3 DEF t

LEMMA SetObjectPathSound ==
    ASSUME NEW s, NEW W, NEW C, NEW K, Sound(s, W, C, K), NEW path \in Nat
    PROVE  Sound(setObjectPath(s, path), W, C, K)
BY SetObjectPathPlaced, StaysGrows, GrowsSound DEF Sound

LEMMA DequeueMethodSound ==
    ASSUME NEW s, NEW W, NEW C, NEW K, Sound(s, W, C, K)
    PROVE  Sound(dequeueMethod(s), W, C, K)
<1>1. CASE s.methods = <<>>
  BY <1>1 DEF dequeueMethod
<1>2. CASE s.methods # <<>>
  <2>1. s.methods \in Seq(Nat)
    BY LibraryFields DEF Sound, Placed
  <2>2. Tail(s.methods) \in Seq(Nat)
    BY <1>2, <2>1
  <2>3. dequeueMethod(s) = [s EXCEPT !.methods = Tail(s.methods)]
    BY <1>2 DEF dequeueMethod
  <2>4. Sound([s EXCEPT !.methods = Tail(s.methods)], W, C, K)
    BY <2>2, OwnerSound
  <2> QED BY <2>3, <2>4
<1> QED
  BY <1>1, <1>2

LEMMA SuccessSound ==
    ASSUME NEW s, NEW W, NEW C, NEW K, Sound(s, W, C, K), NEW k \in DOMAIN s.call, NEW value \in Nat
    PROVE  Sound(success(s, k, value), W, C, K)
<1>1. Sound(authenticationSlot(s, value), W, C, K)
  <2> DEFINE t == setObjectPath(s, value)
  <2>1. Sound(t, W, C, K)
    BY SetObjectPathSound
  <2>2. authenticationSlot(s, value) = [t EXCEPT !.registering = FALSE]
    BY DEF authenticationSlot
  <2> HIDE DEF t
  <2>3. Sound([t EXCEPT !.registering = FALSE], W, C, K)
    BY <2>1, OwnerSound
  <2> QED BY <2>2, <2>3
<1>2. Sound(registerReply(s, value), W, C, K)
  <2> DEFINE t == setObjectPath(s, value)
  <2>1. Sound(t, W, C, K)
    BY SetObjectPathSound
  <2>2. registerReply(s, value) = [t EXCEPT !.state = "Ready"]
    BY DEF registerReply
  <2> HIDE DEF t
  <2>3. Sound([t EXCEPT !.state = "Ready"], W, C, K)
    BY <2>1, OwnerSound
  <2> QED BY <2>2, <2>3
<1>3. Sound(responseSlot(s), W, C, K)
  <2>1. Sound([s EXCEPT !.process = NoCall], W, C, K)
    BY OwnerSound
  <2> QED BY <2>1 DEF responseSlot
<1>4. Sound(storeCredentialsReply(s, value), W, C, K)
  <2>1. Sound([s EXCEPT !.id = value], W, C, K)
    BY OwnerSound
  <2> QED BY <2>1 DEF storeCredentialsReply
<1>5. Sound(removeReply(s), W, C, K)
  <2> DEFINE t == [s EXCEPT !.id = 0]
  <2>1. Sound(t, W, C, K)
    BY OwnerSound
  <2>2. removeReply(s) = [t EXCEPT !.state = "Removed"]
    BY DEF removeReply
  <2> HIDE DEF t
  <2>3. Sound([t EXCEPT !.state = "Removed"], W, C, K)
    BY <2>1, OwnerSound
  <2> QED BY <2>2, <2>3
<1>6. Sound(getInfoReply(s), W, C, K)
  <2>1. Sound([s EXCEPT !.state = "Ready"], W, C, K)
    BY OwnerSound
  <2> QED BY <2>1 DEF getInfoReply
<1>7. Sound(queryMechanismsReply(s), W, C, K)
  BY DequeueMethodSound DEF queryMechanismsReply
<1>8. s.call[k].op \in Ops
  BY CallFields DEF Sound, Placed
<1> QED
  BY <1>1, <1>2, <1>3, <1>4, <1>5, <1>6, <1>7, <1>8 DEF success, Ops

\* A call that fails ends, be it that others have worked on it or that the event
\* loop has been left with it.
LEMMA ErrorSlotSound ==
    ASSUME NEW s, NEW V, NEW C, NEW K, Sound(s, V, C, K), NEW k \in DOMAIN s.call,
           k \in V \/ s.call[k].state = "failing", NEW result
    PROVE  Sound(onCallFinished(errorSlot(s, k, result), k), V \ {k}, C, K)
<1>1. Placed(s, 0, V, C) /\ s \in Library
  BY DEF Sound, Placed
<1>2. /\ s.call[k].state \in {"sent", "failing"}
      /\ s.call[k].state = "sent" => k \in V
  BY <1>1 DEF Placed, Working
<1>3. CASE s.kind = "session" /\ s.registering
  <2> DEFINE r == [s EXCEPT !.registering = FALSE]
             q == [r EXCEPT !.process = NoCall]
             e == setError(q, Main)
             t == onCallFinished(e, k)
  <2>1. Sound(r, V, C, K) /\ r.kind = "session" /\ r.call = s.call /\ r \in Library
    <3>1. Sound(r, V, C, K)
      BY OwnerSound
    <3> QED BY <1>3, <3>1 DEF Sound, Placed, Library
  <2> HIDE DEF r
  <2>2. Sound(q, V, C, K) /\ q.kind = "session" /\ q.call = s.call
    <3>1. Sound(q, V, C, K)
      BY <2>1, OwnerSound
    <3> QED BY <2>1, <3>1 DEF Library
  <2>3. errorSlot(s, k, result) = e
    BY <1>3, <1>1 DEF errorSlot, r, Library
  <2> HIDE DEF q
  <2>4. Placed(e, 0, V, C) /\ Stays(q, e) /\ Undisturbed(q, e)
    BY <2>2, SetErrorPlaced DEF Sound
  <2> HIDE DEF e
  <2>5. k \in DOMAIN e.call /\ e.kind = "session"
        /\ (e.call[k].state = "sent" => k \in V)
    BY <1>2, <2>2, <2>4 DEF Stays, Undisturbed
  <2>6. Placed(t, 0, V \ {k}, C) /\ Stays(e, t)
    BY <2>4, <2>5, SilentFinishPlaced
  <2> HIDE DEF t
  <2>7. Stays(q, t)
    BY <2>4, <2>6, StaysOn
  <2>8. Sound(t, V \ {k}, C, K)
    BY <2>2, <2>6, <2>7, StaysGrows, GrowsSound
  <2> QED BY <2>3, <2>8 DEF t
<1>4. CASE ~(s.kind = "session" /\ s.registering)
  <2> DEFINE t == onCallFinished(errorReply(s, k, result), k)
  <2>1. errorSlot(s, k, result) = errorReply(s, k, result)
    BY <1>4 DEF errorSlot
  <2>2. Placed(t, 0, V \ {k}, C) /\ Stays(s, t)
    BY <1>1, <1>2, ErrorFinishPlaced
  <2> HIDE DEF t
  <2>3. Sound(t, V \ {k}, C, K)
    BY <2>2, StaysGrows, GrowsSound
  <2> QED BY <2>1, <2>3 DEF t
<1> QED
  BY <1>3, <1>4

\* What an event is
LEMMA EventFields ==
    ASSUME NEW e \in Event
    PROVE  /\ e.type \in {"reply", "infoUpdated", "unregistered", "disconnected", "activated"}
           /\ e.type = "reply" => e.call \in Nat /\ e.result \in Results /\ e.path \in Nat
           /\ e.type = "infoUpdated" => e.what \in {"updated", "removed", "signedOut"}
BY DEF Event

\* The event loop takes an event, with it the answer to a call.
LEMMA TakenIn ==
    ASSUME NEW s, NEW W, NEW C, NEW K, Sound(s, W, C, K), s.in # <<>>
    PROVE  LET e == Head(s.in)
               t == [s EXCEPT !.in = Tail(@)]
           IN  /\ e \in Event /\ Sound(t, W, C, K)
               /\ IsReply(e) => /\ e.call \in DOMAIN t.call \ W
                                /\ t.call[e.call].state = "sent"
                                /\ Sound(t, W \cup {e.call}, C, K)
                                /\ e.result \in RetryErrors => Loose(t, W, e.call)
<1> DEFINE e == Head(s.in)
           k == e.call
           t == [s EXCEPT !.in = Tail(@)]
<1>1. s \in Library /\ s.in \in Seq(Event) /\ Placed(s, 0, W, C)
  BY LibraryFields DEF Sound, Placed
<1>2. /\ e \in Event /\ e = s.in[1] /\ 1 \in DOMAIN s.in
      /\ Tail(s.in) \in Seq(Event)
      /\ \A i \in DOMAIN Tail(s.in) : i + 1 \in DOMAIN s.in /\ Tail(s.in)[i] = s.in[i + 1]
                                      /\ i \in Nat \ {0}
  BY <1>1
<1>3. /\ t \in Library /\ t.kind = s.kind /\ t.call = s.call /\ t.proxy = s.proxy
      /\ t.out = s.out /\ t.in = Tail(s.in) /\ t.process = s.process
  BY <1>1, <1>2 DEF Library
<1> HIDE DEF t
<1>4. Incoming(t, W)
  <2>1. Incoming(s, W)
    BY <1>1 DEF Placed
  <2>2. ASSUME NEW i \in DOMAIN t.in, IsReply(t.in[i])
        PROVE  /\ t.in[i].call \in DOMAIN t.call \ W /\ ~In(t.in[i].call, t.out)
               /\ t.call[t.in[i].call].state = "sent"
               /\ t.in[i].result \in RetryErrors => t.call[t.in[i].call].served = 0
    BY <1>2, <1>3, <2>1, <2>2 DEF Incoming
  <2>3. ASSUME NEW i \in DOMAIN t.in, NEW j \in DOMAIN t.in,
               IsReply(t.in[i]), IsReply(t.in[j]), t.in[i].call = t.in[j].call
        PROVE  i = j
    <3>1. i + 1 = j + 1
      BY <1>2, <1>3, <2>1, <2>3 DEF Incoming
    <3> QED BY <1>2, <1>3, <3>1
  <2> QED BY <2>2, <2>3 DEF Incoming
<1>5. Sound(t, W, C, K)
  <2>1. Queues(t, 0) /\ Outgoing(t, W) /\ Working(t, W) /\ Withdrawn(t, C)
    BY <1>1, <1>3 DEF Placed, Queues, Outgoing, Working, Withdrawn
  <2>2. \A j \in DOMAIN t.call : CallOK(t, j)
    BY <1>1, <1>3 DEF Placed, CallOK
  <2> QED BY <1>3, <1>4, <2>1, <2>2 DEF Placed, Sound
<1>6. ASSUME IsReply(e)
      PROVE  /\ k \in DOMAIN t.call \ W /\ t.call[k].state = "sent"
             /\ Sound(t, W \cup {k}, C, K)
             /\ e.result \in RetryErrors => Loose(t, W, k)
  <2>1. /\ k \in DOMAIN s.call \ W /\ ~In(k, s.out) /\ s.call[k].state = "sent"
        /\ e.result \in RetryErrors => s.call[k].served = 0
    BY <1>1, <1>2, <1>6 DEF Placed, Incoming
  <2>2. \A i \in DOMAIN t.in : IsReply(t.in[i]) => t.in[i].call # k
    <3> SUFFICES ASSUME NEW i \in DOMAIN t.in, IsReply(t.in[i]), t.in[i].call = k
                 PROVE  FALSE
      OBVIOUS
    <3>1. i + 1 = 1
      BY <1>1, <1>2, <1>3, <1>6 DEF Placed, Incoming
    <3> QED BY <1>2, <1>3, <3>1
  <2> HIDE DEF k, e
  <2>3. Outgoing(t, W \cup {k})
    BY <1>1, <1>3, <2>1 DEF Placed, Outgoing, In
  <2>4. Incoming(t, W \cup {k})
    BY <1>4, <2>2 DEF Incoming
  <2>5. Working(t, W \cup {k})
    BY <1>1, <1>3, <2>1 DEF Placed, Working
  <2>6. Sound(t, W \cup {k}, C, K)
    BY <1>5, <2>3, <2>4, <2>5 DEF Placed, Sound
  <2>7. \A p \in DOMAIN t.proxy : ~In(k, t.proxy[p].queue)
    <3>1. \A p \in DOMAIN t.proxy : p # 0
      BY <1>3, ProxyFields
    <3> QED BY <1>3, <1>5, <2>1, <3>1, PlacedFacts DEF Sound
  <2>8. e.result \in RetryErrors => Loose(t, W, k)
    BY <1>3, <2>1, <2>2, <2>7 DEF Loose
  <2> QED BY <1>3, <2>1, <2>6, <2>8
<1> QED
  BY <1>2, <1>5, <1>6 DEF t

LEMMA FinishedSound ==
    ASSUME NEW s, NEW W, NEW C, NEW K, NEW k \in DOMAIN s.call \ W, Sound(s, W, C, K),
           Sound(s, W \cup {k}, C, K), NEW result \in Results, NEW value \in Nat,
           result \in RetryErrors => Loose(s, W, k)
    PROVE  Sound(onFinished(s, k, result, value), W, C, K)
<1>1. (W \cup {k}) \ {k} = W
  OBVIOUS
<1>2. CASE s.call[k].lost /\ result \in RetryErrors
  <2>1. Placed(enqueueCall(s, k), 0, W, C) /\ Grows(s, enqueueCall(s, k))
    BY <1>2, EnqueueCallPlaced DEF Sound
  <2>2. Sound(enqueueCall(s, k), W, C, K)
    BY <2>1, GrowsSound
  <2> QED BY <1>2, <2>2 DEF onFinished
<1>3. CASE ~(s.call[k].lost /\ result \in RetryErrors) /\ result = "ok"
  <2> DEFINE t == success(s, k, value)
  <2>1. Sound(t, W \cup {k}, C, K)
    BY SuccessSound
  <2> HIDE DEF t
  <2>2. Sound(onCallFinished(answered(t, k), k), (W \cup {k}) \ {k}, C, K)
    BY <2>1, EndedSound
  <2> QED BY <1>1, <1>3, <2>2 DEF onFinished, t
<1>4. CASE ~(s.call[k].lost /\ result \in RetryErrors) /\ result # "ok"
  <2>1. Sound(onCallFinished(errorSlot(s, k, result), k), (W \cup {k}) \ {k}, C, K)
    BY ErrorSlotSound
  <2> QED BY <1>1, <1>4, <2>1 DEF onFinished
<1> QED
  BY <1>2, <1>3, <1>4

\* How signond is reached does not say where a call is.
LEMMA ServiceSound ==
    ASSUME NEW s, NEW W, NEW C, NEW K, Sound(s, W, C, K),
           NEW x \in {"unknown", "activating", "activated", "bus"}
    PROVE  Sound([s EXCEPT !.service = x], W, C, K)
<1> DEFINE t == [s EXCEPT !.service = x]
<1>1. s \in Library /\ Placed(s, 0, W, C)
  BY DEF Sound, Placed
<1>2. /\ t \in Library /\ t.kind = s.kind /\ t.call = s.call /\ t.proxy = s.proxy
      /\ t.out = s.out /\ t.in = s.in /\ t.process = s.process
  BY <1>1 DEF Library
<1> HIDE DEF t
<1>3. Placed(t, 0, W, C)
  BY <1>1, <1>2, SamePlaced
<1>4. Sound(t, W, C, K)
  BY <1>2, <1>3 DEF Sound
<1> QED
  BY <1>4 DEF t

LEMMA SignalSound ==
    ASSUME NEW s, NEW W, NEW C, NEW K, Sound(s, W, C, K), NEW e \in Event, ~IsReply(e)
    PROVE  Sound(Delivered(s, e), W, C, K)
<1>1. Sound(unregistered(s), W, C, K)
  <2> DEFINE t == setObjectPath(s, NoPath)
  <2>1. Sound(t, W, C, K)
    BY SetObjectPathSound DEF NoPath
  <2>2. unregistered(s) \in {t, [t EXCEPT !.state = "NeedsRegistration"]}
    BY DEF unregistered
  <2> HIDE DEF t
  <2>3. Sound([t EXCEPT !.state = "NeedsRegistration"], W, C, K)
    BY <2>1, OwnerSound
  <2> QED BY <2>1, <2>2, <2>3
<1>2. \A what \in {"updated", "removed", "signedOut"} : Sound(infoUpdated(s, what), W, C, K)
  <2>1. Sound([s EXCEPT !.state = "Removed"], W, C, K)
    BY OwnerSound
  <2>2. Sound(updateContents(s), W, C, K)
    BY UpdateContentsSound
  <2> QED BY <2>1, <2>2 DEF infoUpdated
<1>3. Sound(onDisconnected(s), W, C, K)
  <2> DEFINE x == IF s.service = "bus" THEN s.service ELSE "unknown"
             t == [s EXCEPT !.service = x]
  <2>1. onDisconnected(s) = disconnected(t)
    BY DEF onDisconnected
  <2>2. x \in {"unknown", "activating", "activated", "bus"}
    OBVIOUS
  <2> HIDE DEF x
  <2>3. Sound(t, W, C, K)
    BY <2>2, ServiceSound
  <2> HIDE DEF t
  <2>4. Placed(disconnected(t), 0, W, C) /\ Stays(t, disconnected(t))
    BY <2>3, DisconnectedPlaced DEF Sound
  <2>5. Sound(disconnected(t), W, C, K)
    BY <2>3, <2>4, StaysGrows, GrowsSound
  <2> QED BY <2>1, <2>5
<1>4. Sound(onActivationDone(s, e.ok), W, C, K)
  <2> DEFINE t == [s EXCEPT !.service = "activated"]
  <2>1. onActivationDone(s, e.ok) \in {s, init(t)}
    BY DEF onActivationDone
  <2>2. Sound(t, W, C, K)
    BY ServiceSound
  <2> HIDE DEF t
  <2>3. Placed(init(t), 0, W, C) /\ Stays(t, init(t))
    BY <2>2, InitPlaced DEF Sound
  <2>4. Sound(init(t), W, C, K)
    BY <2>2, <2>3, StaysGrows, GrowsSound
  <2> QED BY <2>1, <2>4
<1>5. /\ e.type \in {"infoUpdated", "unregistered", "disconnected", "activated"}
      /\ e.type = "infoUpdated" => e.what \in {"updated", "removed", "signedOut"}
  BY EventFields DEF IsReply
<1> QED
  BY <1>1, <1>2, <1>3, <1>4, <1>5 DEF Delivered

LEMMA EventLoopInv == ASSUME ClientInv, eventLoop PROVE ClientInv' /\ c'.kind = c.kind
<1> DEFINE e == Head(c.in)
           t == [c EXCEPT !.in = Tail(@)]
           W == d.working
           C == canceled
<1>1. Sound(c, W, C, c.kind) /\ d \in Daemon /\ c.in # <<>>
  BY DEF ClientInv, eventLoop
<1>2. c' = Delivered(t, e) /\ d' = d /\ canceled' = canceled
  BY DEF eventLoop
<1>3. /\ e \in Event /\ Sound(t, W, C, c.kind)
      /\ IsReply(e) => /\ e.call \in DOMAIN t.call \ W
                       /\ Sound(t, W \cup {e.call}, C, c.kind)
                       /\ e.result \in RetryErrors => Loose(t, W, e.call)
  BY <1>1, TakenIn
<1> HIDE DEF e, t
<1>4. CASE IsReply(e)
  <2>1. e.call \in Nat /\ e.result \in Results /\ e.path \in Nat
    BY <1>3, <1>4, EventFields DEF IsReply
  <2>2. Sound(onFinished(t, e.call, e.result, e.path), W, C, c.kind)
    BY <1>3, <1>4, <2>1, FinishedSound
  <2>3. Delivered(t, e) = onFinished(t, e.call, e.result, e.path)
    BY <1>4 DEF Delivered, IsReply
  <2> QED BY <1>1, <1>2, <2>2, <2>3, KindKept DEF ClientInv
<1>5. CASE ~IsReply(e)
  <2>1. Sound(Delivered(t, e), W, C, c.kind)
    BY <1>3, <1>5, SignalSound
  <2> QED BY <1>1, <1>2, <2>1, KindKept DEF ClientInv
<1> QED
  BY <1>4, <1>5

LEMMA PostedFailInv == ASSUME ClientInv, postedFail PROVE ClientInv' /\ c'.kind = c.kind
<1>1. PICK k \in DOMAIN c.call :
         /\ c.call[k].state = "failing"
         /\ c' = onCallFinished(errorSlot(c, k, "refused"), k)
  BY DEF postedFail
<1>2. Sound(c, d.working, canceled, c.kind) /\ d \in Daemon /\ d' = d /\ canceled' = canceled
  BY DEF ClientInv, postedFail
<1>3. k \notin d.working
  BY <1>1, <1>2 DEF Sound, Placed, Working
<1>4. d.working \ {k} = d.working
  BY <1>3
<1>5. Sound(c', d.working \ {k}, canceled, c.kind)
  BY <1>1, <1>2, ErrorSlotSound
<1> QED
  BY <1>2, <1>4, <1>5, KindKept DEF ClientInv

-----------------------------------------------------------------------------
(* signond *)

\* Whether signond runs, and what starts it, does not say where a call is.
LEMMA UpSound ==
    ASSUME NEW s, NEW W, NEW C, NEW K, Sound(s, W, C, K)
    PROVE  /\ \A x \in BOOLEAN : Sound([s EXCEPT !.up = x], W, C, K)
           /\ \A x \in BOOLEAN : Sound([s EXCEPT !.online = x], W, C, K)
           /\ \A x \in BOOLEAN : Sound([s EXCEPT !.starting = x], W, C, K)
<1>1. s \in Library /\ Placed(s, 0, W, C)
  BY DEF Sound, Placed
<1> DEFINE Same(t) == /\ t \in Library /\ t.kind = s.kind
                      /\ t.call = s.call /\ t.proxy = s.proxy
                      /\ t.out = s.out /\ t.in = s.in /\ t.process = s.process
<1>2. ASSUME NEW t, Same(t) PROVE Sound(t, W, C, K)
  <2>1. Placed(t, 0, W, C)
    BY <1>1, <1>2, SamePlaced
  <2> QED BY <1>2, <2>1 DEF Sound
<1>3. ASSUME NEW x \in BOOLEAN
      PROVE  /\ Same([s EXCEPT !.up = x]) /\ Same([s EXCEPT !.online = x])
             /\ Same([s EXCEPT !.starting = x])
  BY <1>1 DEF Library
<1> HIDE DEF Same
<1> QED
  BY <1>2, <1>3

\* signond takes a call.
LEMMA TakenSound ==
    ASSUME NEW s, NEW W, NEW C, NEW K, Sound(s, W, C, K), s.out # <<>>
    PROVE  LET k == Head(s.out)
               t == [s EXCEPT !.out = Tail(@)]
           IN  /\ k \in DOMAIN s.call \ W /\ s.call[k].served = 0
               /\ t.call = s.call
               /\ Sound(t, W \cup {k}, C, K)
<1> DEFINE k == Head(s.out)
           t == [s EXCEPT !.out = Tail(@)]
<1>1. s \in Library /\ s.out \in Seq(Nat) /\ Placed(s, 0, W, C)
  BY LibraryFields DEF Sound, Placed
<1>2. /\ k = s.out[1] /\ 1 \in DOMAIN s.out /\ Tail(s.out) \in Seq(Nat)
      /\ \A i \in DOMAIN Tail(s.out) : i + 1 \in DOMAIN s.out /\ Tail(s.out)[i] = s.out[i + 1]
                                       /\ i \in Nat \ {0}
  BY <1>1
<1>3. /\ t \in Library /\ t.kind = s.kind /\ t.call = s.call /\ t.proxy = s.proxy
      /\ t.out = Tail(s.out) /\ t.in = s.in /\ t.process = s.process
  BY <1>1, <1>2 DEF Library
<1> HIDE DEF t
<1>4. k \in DOMAIN s.call \ W /\ s.call[k].state = "sent" /\ s.call[k].served = 0
  BY <1>1, <1>2 DEF Placed, Outgoing
<1>5. Outgoing(t, W \cup {k})
  <2>1. Outgoing(s, W)
    BY <1>1 DEF Placed
  <2>2. ASSUME NEW i \in DOMAIN t.out
        PROVE  /\ t.out[i] \in DOMAIN t.call \ (W \cup {k})
               /\ t.call[t.out[i]].state = "sent" /\ t.call[t.out[i]].served = 0
    <3>1. i + 1 # 1
      BY <1>2, <1>3
    <3>2. t.out[i] # k
      BY <1>2, <1>3, <2>1, <3>1 DEF Outgoing, Distinct
    <3> QED BY <1>2, <1>3, <2>1, <3>2 DEF Outgoing
  <2>3. ASSUME NEW i \in DOMAIN t.out, NEW j \in DOMAIN t.out, t.out[i] = t.out[j]
        PROVE  i = j
    <3>1. i + 1 = j + 1
      BY <1>2, <1>3, <2>1, <2>3 DEF Outgoing, Distinct
    <3> QED BY <1>2, <1>3, <3>1
  <2> QED BY <2>2, <2>3 DEF Outgoing, Distinct
<1>6. Incoming(t, W \cup {k})
  <2>1. \A i \in DOMAIN s.in : IsReply(s.in[i]) => s.in[i].call # k
    BY <1>1, <1>2 DEF Placed, Incoming, In
  <2>2. \A i \in DOMAIN t.in : IsReply(t.in[i]) => ~In(t.in[i].call, t.out)
    <3>1. ASSUME NEW n, In(n, t.out) PROVE In(n, s.out)
      BY <1>2, <1>3, <3>1 DEF In
    <3> QED BY <1>1, <1>3, <3>1 DEF Placed, Incoming
  <2> HIDE DEF k
  <2> QED BY <1>1, <1>3, <2>1, <2>2 DEF Placed, Incoming
<1> HIDE DEF k
<1>7. Working(t, W \cup {k})
  BY <1>1, <1>3, <1>4 DEF Placed, Working
<1>8. Queues(t, 0) /\ Withdrawn(t, C)
  BY <1>1, <1>3 DEF Placed, Queues, Withdrawn
<1>9. \A j \in DOMAIN t.call : CallOK(t, j)
  BY <1>1, <1>3 DEF Placed, CallOK
<1>10. Sound(t, W \cup {k}, C, K)
  BY <1>3, <1>5, <1>6, <1>7, <1>8, <1>9 DEF Placed, Sound
<1> QED
  BY <1>3, <1>4, <1>10 DEF k, t

\* signond executes a call that it has taken.
LEMMA ServedSound ==
    ASSUME NEW s, NEW W, NEW C, NEW K, Sound(s, W, C, K), NEW k \in W, s.call[k].served = 0
    PROVE  Sound([s EXCEPT !.call[k].served = @ + 1], W, C, K)
<1> DEFINE t == [s EXCEPT !.call[k].served = @ + 1]
           call == [s.call[k] EXCEPT !.served = 1]
           v == [s.call EXCEPT ![k] = call]
<1>1. s \in Library /\ Placed(s, 0, W, C) /\ k \in DOMAIN s.call /\ s.call[k].state = "sent"
  BY DEF Sound, Placed, Working
<1>2. s.call[k] \in CallRecord /\ s.call \in Seq(CallRecord)
  BY <1>1, CallFields, LibraryFields
<1>3. /\ call \in CallRecord /\ call.served = 1
      /\ call.on = s.call[k].on /\ call.state = s.call[k].state
      /\ call.watched = s.call[k].watched /\ call.answers = s.call[k].answers
      /\ call.op = s.call[k].op
  BY <1>2 DEF CallRecord
<1>4. t = [s EXCEPT !.call = v]
  BY <1>1, <1>2 DEF Library, CallRecord
<1> HIDE DEF call, t
<1>5. v \in Seq(CallRecord) /\ DOMAIN v = DOMAIN s.call
      /\ v[k] = call /\ \A j \in DOMAIN s.call : j # k => v[j] = s.call[j]
  BY <1>1, <1>2, <1>3
<1> HIDE DEF v
<1>6. /\ t \in Library /\ t.kind = s.kind /\ t.call = v /\ t.proxy = s.proxy
      /\ t.out = s.out /\ t.in = s.in /\ t.process = s.process
  BY <1>1, <1>4, <1>5 DEF Library
<1>7. Queues(t, 0) /\ Working(t, W)
  BY <1>1, <1>3, <1>5, <1>6 DEF Placed, Queues, Working
<1>8. Outgoing(t, W)
  BY <1>1, <1>3, <1>5, <1>6 DEF Placed, Outgoing
<1>9. Incoming(t, W)
  BY <1>1, <1>3, <1>5, <1>6 DEF Placed, Incoming
<1>10. Withdrawn(t, C)
  <2>1. k \notin C
    BY <1>1 DEF Placed, Withdrawn
  <2> QED BY <1>1, <1>5, <1>6, <2>1 DEF Placed, Withdrawn
<1>11. \A j \in DOMAIN t.call : CallOK(t, j)
  <2>1. \A j \in DOMAIN s.call : CallOK(s, j)
    BY <1>1 DEF Placed
  <2>2. CallOK(t, k)
    BY <2>1, <1>1, <1>3, <1>5, <1>6 DEF CallOK
  <2>3. ASSUME NEW j \in DOMAIN s.call, j # k PROVE CallOK(t, j)
    BY <2>1, <2>3, <1>5, <1>6 DEF CallOK
  <2> QED BY <1>5, <1>6, <2>2, <2>3
<1>12. Sound(t, W, C, K)
  BY <1>5, <1>6, <1>7, <1>8, <1>9, <1>10, <1>11 DEF Placed, Sound
<1> QED
  BY <1>12 DEF t

\* Nobody works on a call any more.
LEMMA LeftSound ==
    ASSUME NEW s, NEW V, NEW C, NEW K, Sound(s, V, C, K), NEW W, W \subseteq V
    PROVE  Sound(s, W, C, K)
<1>1. Outgoing(s, W) /\ Incoming(s, W) /\ Working(s, W)
  BY DEF Sound, Placed, Outgoing, Incoming, Working
<1> QED
  BY <1>1 DEF Sound, Placed

ConcatFacts(p, q) ==
    /\ Len(p) \in Nat /\ Len(q) \in Nat /\ DOMAIN p = 1..Len(p) /\ DOMAIN q = 1..Len(q)
    /\ DOMAIN (p \o q) = 1..Len(p) + Len(q)
    /\ \A i \in 1..Len(p) : (p \o q)[i] = p[i]
    /\ \A i \in Len(p)+1..Len(p) + Len(q) :
          i - Len(p) \in 1..Len(q) /\ (p \o q)[i] = q[i - Len(p)]

LEMMA Concatenated ==
    ASSUME NEW S, NEW p \in Seq(S), NEW q \in Seq(S)
    PROVE  p \o q \in Seq(S) /\ ConcatFacts(p, q)
BY DEF ConcatFacts

\* What is sent answers some of the calls others work on, each of them once.
Answering(s, V, W, es) ==
    /\ \A i \in DOMAIN es : IsReply(es[i]) =>
          /\ es[i].call \in V \ W
          /\ es[i].result \in RetryErrors => s.call[es[i].call].served = 0
    /\ \A i, j \in DOMAIN es :
          IsReply(es[i]) /\ IsReply(es[j]) /\ es[i].call = es[j].call => i = j

LEMMA ReceivedSound ==
    ASSUME NEW s, NEW V, NEW C, NEW K, Sound(s, V, C, K), NEW W, W \subseteq V,
           NEW es \in Seq(Event), Answering(s, V, W, es)
    PROVE  Sound([s EXCEPT !.in = @ \o es], W, C, K)
<1> DEFINE t == [s EXCEPT !.in = @ \o es]
           n == s.in \o es
<1>1. s \in Library /\ s.in \in Seq(Event) /\ Placed(s, 0, V, C) /\ Sound(s, W, C, K)
  BY LibraryFields, LeftSound DEF Sound, Placed
<1>2. n \in Seq(Event) /\ ConcatFacts(s.in, es)
  BY <1>1, Concatenated
<1>3. /\ t \in Library /\ t.kind = s.kind /\ t.call = s.call /\ t.proxy = s.proxy
      /\ t.out = s.out /\ t.in = n /\ t.process = s.process
  BY <1>1, <1>2 DEF Library
<1> HIDE DEF t
<1>4. Incoming(t, W)
  <2> DEFINE m == Len(s.in)
             l == Len(es)
  <2>1. Incoming(s, V) /\ Outgoing(s, V) /\ Working(s, V)
    BY <1>1 DEF Placed
  <2>2. /\ m \in Nat /\ l \in Nat /\ DOMAIN n = 1..m + l
        /\ DOMAIN s.in = 1..m /\ DOMAIN es = 1..l
        /\ \A i \in 1..m : n[i] = s.in[i]
        /\ \A i \in m+1..m + l : i - m \in 1..l /\ n[i] = es[i - m]
    BY <1>2 DEF ConcatFacts
  <2> HIDE DEF n, m, l
  <2>3. ASSUME NEW i \in 1..m, IsReply(n[i])
        PROVE  /\ n[i].call \in DOMAIN s.call \ V /\ ~In(n[i].call, s.out)
               /\ s.call[n[i].call].state = "sent"
               /\ n[i].result \in RetryErrors => s.call[n[i].call].served = 0
    BY <2>1, <2>2, <2>3 DEF Incoming
  <2>4. ASSUME NEW i \in m+1..m + l, IsReply(n[i])
        PROVE  /\ n[i].call \in DOMAIN s.call /\ n[i].call \in V \ W
               /\ ~In(n[i].call, s.out)
               /\ s.call[n[i].call].state = "sent"
               /\ n[i].result \in RetryErrors => s.call[n[i].call].served = 0
    <3>1. n[i].call \in V \ W
          /\ (n[i].result \in RetryErrors => s.call[n[i].call].served = 0)
      BY <2>2, <2>4 DEF Answering
    <3>2. ~In(n[i].call, s.out)
      BY <2>1, <3>1 DEF Outgoing, In
    <3> QED BY <2>1, <3>1, <3>2 DEF Working
  <2>5. \A i \in DOMAIN n : i \in 1..m \/ i \in m+1..m + l
    BY <2>2
  <2>6. ASSUME NEW i \in DOMAIN n, NEW j \in DOMAIN n,
               IsReply(n[i]), IsReply(n[j]), n[i].call = n[j].call
        PROVE  i = j
    <3>1. CASE i \in 1..m /\ j \in 1..m
      BY <2>1, <2>2, <2>6, <3>1 DEF Incoming
    <3>2. CASE i \in 1..m /\ j \in m+1..m + l
      BY <2>3, <2>4, <2>6, <3>2
    <3>3. CASE i \in m+1..m + l /\ j \in 1..m
      BY <2>3, <2>4, <2>6, <3>3
    <3>4. CASE i \in m+1..m + l /\ j \in m+1..m + l
      <4>1. i - m = j - m
        BY <2>2, <2>6, <3>4 DEF Answering
      <4> QED BY <2>2, <3>4, <4>1
    <3> QED BY <2>5, <3>1, <3>2, <3>3, <3>4
  <2>7. \A i \in DOMAIN n : IsReply(n[i]) =>
           /\ n[i].call \in DOMAIN s.call \ W /\ ~In(n[i].call, s.out)
           /\ s.call[n[i].call].state = "sent"
           /\ n[i].result \in RetryErrors => s.call[n[i].call].served = 0
    BY <2>3, <2>4, <2>5
  <2> QED BY <1>3, <2>6, <2>7 DEF Incoming
<1>5. Queues(t, 0) /\ Outgoing(t, W) /\ Working(t, W) /\ Withdrawn(t, C)
  <2>1. Queues(s, 0) /\ Outgoing(s, W) /\ Working(s, W) /\ Withdrawn(s, C)
    BY <1>1 DEF Sound, Placed
  <2>2. Queues(t, 0)
    BY <1>3, <2>1 DEF Queues
  <2>3. Outgoing(t, W)
    BY <1>3, <2>1 DEF Outgoing
  <2>4. Working(t, W)
    BY <1>3, <2>1 DEF Working
  <2>5. Withdrawn(t, C)
    BY <1>3, <2>1 DEF Withdrawn
  <2> QED BY <2>2, <2>3, <2>4, <2>5
<1>6. \A j \in DOMAIN t.call : CallOK(t, j)
  BY <1>1, <1>3 DEF Placed, CallOK
<1>7. Sound(t, W, C, K)
  BY <1>3, <1>4, <1>5, <1>6 DEF Placed, Sound
<1> QED
  BY <1>7 DEF t

LEMMA SentSound ==
    ASSUME NEW s, NEW V, NEW C, NEW K, Sound(s, V, C, K), NEW W, W \subseteq V,
           NEW es \in Seq(Event), Answering(s, V, W, es)
    PROVE  Sound(Sent(s, es), W, C, K)
BY ReceivedSound, LeftSound DEF Sent

LEMMA NoEvents ==
    \E q \in Seq(Event) : q = <<>> /\ \A i \in DOMAIN q : ~IsReply(q[i])
<1>1. <<>> \in Seq(Event) /\ \A i \in DOMAIN <<>> : ~IsReply(<<>>[i])
  OBVIOUS
<1> QED
  BY <1>1, Zenon

\* A signal, if any, and the answer to a call
LEMMA RepliedSound ==
    ASSUME NEW s, NEW V, NEW C, NEW K, Sound(s, V, C, K), NEW k \in V,
           NEW q \in Seq(Event), \A i \in DOMAIN q : ~IsReply(q[i]),
           NEW result \in Results, NEW path \in Nat,
           result \in RetryErrors => s.call[k].served = 0
    PROVE  /\ Sound(Sent(s, Append(q, Reply(k, result, path))), V \ {k}, C, K)
           /\ Sound(Sent(s, <<Reply(k, result, path)>>), V \ {k}, C, K)
<1> DEFINE r == Reply(k, result, path)
<1>1. k \in DOMAIN s.call /\ s \in Library
  BY DEF Sound, Placed, Working
<1>2. k \in Nat
  BY <1>1, CallFields
<1>3. r \in Event /\ IsReply(r) /\ r.call = k /\ r.result = result
  BY <1>2, ReplyIsEvent
<1> HIDE DEF r
<1>4. ASSUME NEW p \in Seq(Event), \A i \in DOMAIN p : ~IsReply(p[i])
      PROVE  Sound(Sent(s, Append(p, r)), V \ {k}, C, K)
  <2> DEFINE es == Append(p, r)
  <2>1. /\ es \in Seq(Event) /\ Len(p) \in Nat
        /\ DOMAIN p = 1..Len(p) /\ DOMAIN es = 1..Len(p) + 1
        /\ \A i \in 1..Len(p) : es[i] = p[i]
        /\ es[Len(p) + 1] = r
    BY <1>3, AppendFacts
  <2> HIDE DEF es
  <2>2. \A i \in DOMAIN es : IsReply(es[i]) => i = Len(p) + 1 /\ es[i] = r
    BY <1>4, <2>1
  <2>3. Answering(s, V, V \ {k}, es)
    BY <1>3, <2>2 DEF Answering
  <2>4. Sound(Sent(s, es), V \ {k}, C, K)
    BY <2>1, <2>3, SentSound
  <2> QED BY <2>4 DEF es
<1>5. Sound(Sent(s, <<r>>), V \ {k}, C, K)
  <2>1. PICK p \in Seq(Event) : p = <<>> /\ \A i \in DOMAIN p : ~IsReply(p[i])
    BY NoEvents
  <2>2. (\A i \in DOMAIN p : ~IsReply(p[i])) /\ Append(p, r) = <<r>>
    BY <2>1
  <2>3. Sound(Sent(s, Append(p, r)), V \ {k}, C, K)
    BY <1>4, <2>2
  <2> QED BY <2>2, <2>3
<1> QED
  BY <1>4, <1>5 DEF r

\* A signal answers nothing.
LEMMA SignaledSound ==
    ASSUME NEW s, NEW W, NEW C, NEW K, Sound(s, W, C, K), NEW e \in Event, ~IsReply(e)
    PROVE  Sound(Sent(s, <<e>>), W, C, K) /\ Sound([s EXCEPT !.in = Append(@, e)], W, C, K)
<1>1. <<e>> \in Seq(Event) /\ Answering(s, W, W, <<e>>)
  BY DEF Answering
<1>2. s \in Library /\ s.in \in Seq(Event)
  BY LibraryFields DEF Sound, Placed
<1>3. [s EXCEPT !.in = Append(@, e)] = [s EXCEPT !.in = @ \o <<e>>]
  <2>1. Append(s.in, e) = s.in \o <<e>>
    BY <1>2
  <2> QED BY <2>1
<1>4. Sound([s EXCEPT !.in = @ \o <<e>>], W, C, K)
  BY <1>1, ReceivedSound
<1> QED
  BY <1>1, <1>3, <1>4, SentSound

LEMMA SignalIsEvent ==
    ASSUME NEW what \in {"updated", "removed", "signedOut"}, NEW path \in Nat
    PROVE  Signal(what, path) \in Event /\ ~IsReply(Signal(what, path))
BY DEF Signal, Event, IsReply

\* The call signond takes is in nobody's hands, and not executed yet.
LEMMA TakenInv ==
    ASSUME ClientInv, c.out # <<>>
    PROVE  /\ Sound(c, d.working, canceled, c.kind) /\ d \in Daemon
           /\ Request \in DOMAIN c.call \ d.working
           /\ Target \in Nat
           /\ Taken.call = c.call /\ Taken.call[Request].served = 0
           /\ Sound(Taken, d.working \cup {Request}, canceled, c.kind)
           /\ (d.working \cup {Request}) \ {Request} = d.working
<1>1. Sound(c, d.working, canceled, c.kind) /\ d \in Daemon /\ c \in Library
  BY DEF ClientInv, Sound, Placed
<1>2. /\ Request \in DOMAIN c.call \ d.working /\ c.call[Request].served = 0
      /\ Taken.call = c.call
      /\ Sound(Taken, d.working \cup {Request}, canceled, c.kind)
  BY <1>1, TakenSound DEF Request, Taken
<1>3. Target \in Nat
  BY <1>1, <1>2, CallFields DEF Target
<1> QED
  BY <1>1, <1>2, <1>3

\* It is executed and answered at once, perhaps after a signal.
LEMMA AnswerInv ==
    ASSUME ClientInv, c.out # <<>>,
           NEW result \in {"ok", "refused"}, NEW path \in Nat,
           NEW q \in Seq(Event), \A i \in DOMAIN q : ~IsReply(q[i])
    PROVE  /\ Sound(Answer(Taken, Request, <<Reply(Request, result, path)>>),
                    d.working, canceled, c.kind)
           /\ Sound(Answer(Taken, Request, Append(q, Reply(Request, result, path))),
                    d.working, canceled, c.kind)
<1> DEFINE k == Request
           s == Taken
           t == [s EXCEPT !.call[k].served = @ + 1]
           V == d.working \cup {k}
<1>1. /\ Sound(s, V, canceled, c.kind) /\ k \in V /\ s.call[k].served = 0
      /\ V \ {k} = d.working
  BY TakenInv
<1>2. Answer(s, k, <<Reply(k, result, path)>>) = Sent(t, <<Reply(k, result, path)>>)
      /\ Answer(s, k, Append(q, Reply(k, result, path)))
           = Sent(t, Append(q, Reply(k, result, path)))
  BY DEF Answer
<1> HIDE DEF k, s, V
<1>3. Sound(t, V, canceled, c.kind)
  BY <1>1, ServedSound
<1> HIDE DEF t
<1>4. result \in Results /\ result \notin RetryErrors
  BY DEF Results, RetryErrors
<1>5. /\ Sound(Sent(t, Append(q, Reply(k, result, path))), V \ {k}, canceled, c.kind)
      /\ Sound(Sent(t, <<Reply(k, result, path)>>), V \ {k}, canceled, c.kind)
  BY <1>1, <1>3, <1>4, RepliedSound
<1> QED
  BY <1>1, <1>2, <1>5 DEF k, s

LEMMA AnsweredInv ==
    ASSUME ClientInv, c.out # <<>>,
           NEW result \in {"ok", "refused"}, NEW path \in Nat
    PROVE  Sound(Answer(Taken, Request, <<Reply(Request, result, path)>>),
                 d.working, canceled, c.kind)
<1>1. PICK q \in Seq(Event) : q = <<>> /\ \A i \in DOMAIN q : ~IsReply(q[i])
  BY NoEvents
<1> QED
  BY <1>1, AnswerInv

LEMMA RegisterObjectInv == ASSUME ClientInv, registerObject PROVE ClientInv' /\ c'.kind = c.kind
<1> DEFINE op == c.call[Request].op
           path == Registered(op)
<1>1. c.out # <<>> /\ canceled' = canceled
  BY DEF registerObject
<1>2. d \in Daemon
  BY DEF ClientInv
<1>3. path \in Nat /\ NoPath \in Nat
  BY <1>2 DEF Registered, Daemon, NoPath
<1>4. CASE op = "getIdentity" /\ ~d.row
  <2>1. c' = Answer(Taken, Request, <<Reply(Request, "refused", NoPath)>>) /\ d' = d
    BY <1>4 DEF registerObject
  <2>2. Sound(c', d.working, canceled, c.kind)
    BY <1>1, <1>3, <2>1, AnsweredInv
  <2> QED BY <1>1, <1>2, <2>1, <2>2, KindKept DEF ClientInv
<1>5. CASE ~(op = "getIdentity" /\ ~d.row)
  <2>1. /\ c' = Answer(Taken, Request, <<Reply(Request, "ok", path)>>)
        /\ d' = [d EXCEPT !.objects = @ \cup {path},
                          !.next = IF path = @ THEN @ + 1 ELSE @,
                          !.registered = IF op = "getIdentity" THEN path ELSE @]
    BY <1>5 DEF registerObject
  <2> DEFINE next == IF path = d.next THEN d.next + 1 ELSE d.next
             registered == IF op = "getIdentity" THEN path ELSE d.registered
  <2>2. d' = [d EXCEPT !.objects = d.objects \cup {path}, !.next = next,
                       !.registered = registered]
    BY <2>1
  <2> HIDE DEF path, op
  <2>3. next \in Nat /\ registered \in Nat /\ d.objects \cup {path} \in SUBSET Nat
    BY <1>2, <1>3 DEF Daemon
  <2> HIDE DEF next, registered
  <2>4. d' \in Daemon /\ d'.working = d.working
    BY <1>2, <2>2, <2>3 DEF Daemon
  <2>5. Sound(c', d.working, canceled, c.kind)
    BY <1>1, <1>3, <2>1, AnsweredInv
  <2> QED BY <1>1, <2>4, <2>5, KindKept DEF ClientInv
<1> QED
  BY <1>4, <1>5

LEMMA ServeInv == ASSUME ClientInv, serve \/ refuse PROVE ClientInv' /\ c'.kind = c.kind
<1>1. c.out # <<>> /\ canceled' = canceled /\ d' = d
  BY DEF serve, refuse, Serving, Happens
<1>2. PICK result \in {"ok", "refused"} :
         c' = Answer(Taken, Request, <<Reply(Request, result, NoPath)>>)
  BY DEF serve, refuse
<1>3. Sound(c', d.working, canceled, c.kind)
  BY <1>1, <1>2, AnsweredInv DEF NoPath
<1> QED
  BY <1>1, <1>3, KindKept DEF ClientInv

LEMMA UnknownObjectInv == ASSUME ClientInv, unknownObject PROVE ClientInv' /\ c'.kind = c.kind
<1>1. /\ c.out # <<>> /\ canceled' = canceled /\ d' = d
      /\ c' = Sent(Taken, <<Reply(Request, "UnknownObject", NoPath)>>)
  BY DEF unknownObject, Serving
<1> DEFINE k == Request
           s == Taken
           V == d.working \cup {k}
<1>2. Sound(s, V, canceled, c.kind) /\ k \in V /\ s.call[k].served = 0 /\ V \ {k} = d.working
  BY <1>1, TakenInv
<1> HIDE DEF k, s, V
<1>3. "UnknownObject" \in Results /\ NoPath \in Nat
  BY DEF Results, NoPath
<1>4. PICK q \in Seq(Event) : q = <<>> /\ \A i \in DOMAIN q : ~IsReply(q[i])
  BY NoEvents
<1>5. Sound(Sent(s, <<Reply(k, "UnknownObject", NoPath)>>), V \ {k}, canceled, c.kind)
  BY <1>2, <1>3, <1>4, RepliedSound
<1> QED
  BY <1>1, <1>2, <1>5, KindKept DEF ClientInv, k, s

LEMMA BeginInv == ASSUME ClientInv, begin PROVE ClientInv' /\ c'.kind = c.kind
<1>1. /\ c.out # <<>> /\ canceled' = canceled
      /\ c' = [Taken EXCEPT !.call[Request].served = @ + 1]
      /\ d' = [d EXCEPT !.working = @ \cup {Request}]
  BY DEF begin, Serving
<1> DEFINE k == Request
           s == Taken
           V == d.working \cup {k}
<1>2. /\ Sound(s, V, canceled, c.kind) /\ k \in V /\ s.call[k].served = 0
      /\ d \in Daemon /\ c \in Library /\ k \in DOMAIN c.call
  BY <1>1, TakenInv DEF Sound, Placed
<1>3. k \in Nat
  BY <1>2, CallFields
<1> HIDE DEF k, s
<1>4. d' = [d EXCEPT !.working = V]
  BY <1>1 DEF k
<1>5. V \subseteq Nat
  BY <1>2, <1>3 DEF Daemon
<1> HIDE DEF V
<1>6. d' \in Daemon /\ d'.working = V
  BY <1>2, <1>4, <1>5 DEF Daemon
<1>7. Sound([s EXCEPT !.call[k].served = @ + 1], V, canceled, c.kind)
  BY <1>2, ServedSound
<1> QED
  BY <1>1, <1>6, <1>7, KindKept DEF k, s

LEMMA ServeStoreInv == ASSUME ClientInv, serveStore PROVE ClientInv' /\ c'.kind = c.kind
<1>1. /\ c.out # <<>> /\ canceled' = canceled
      /\ c' = Answer(Taken, Request, storeReply(Request, Target))
      /\ d' = [d EXCEPT !.row = TRUE, !.registered = Target]
  BY DEF serveStore, Serving
<1>2. d \in Daemon /\ Target \in Nat /\ Request \in DOMAIN c.call /\ c \in Library
  BY <1>1, TakenInv DEF Sound, Placed
<1>3. d' \in Daemon /\ d'.working = d.working
  BY <1>1, <1>2 DEF Daemon
<1> DEFINE e == Signal("updated", Target)
           r == Reply(Request, "ok", 1)
           q == IF d.row /\ d.registered = Target THEN <<e>> ELSE <<>>
<1>4. e \in Event /\ ~IsReply(e)
  BY <1>2, SignalIsEvent
<1>5. storeReply(Request, Target) = q \o <<r>>
  BY DEF storeReply
<1> HIDE DEF e
<1>6. q \in Seq(Event) /\ \A i \in DOMAIN q : ~IsReply(q[i])
  BY <1>4
<1>7. r \in Event
  BY <1>2, CallFields, ReplyIsEvent DEF Results
<1> HIDE DEF q
<1>8. q \o <<r>> = Append(q, r)
  <2> HIDE DEF r
  <2> QED BY <1>6, <1>7
<1>9. Sound(Answer(Taken, Request, Append(q, Reply(Request, "ok", 1))), d.working, canceled, c.kind)
  BY <1>1, <1>6, AnswerInv
<1> QED
  BY <1>1, <1>3, <1>5, <1>8, <1>9, KindKept DEF ClientInv

LEMMA CompleteInv == ASSUME ClientInv, complete PROVE ClientInv' /\ c'.kind = c.kind
<1> DEFINE Es(k) ==
             LET op == c.call[k].op
                 path == c.call[k].path
             IN  CASE op = "remove"  -> <<Signal("removed", path)>>
                   [] op = "signOut" -> <<Signal("signedOut", path)>>
                   [] OTHER          -> <<>>
<1>1. PICK k \in d.working :
         /\ \/ c' = Sent(c, Append(Es(k), Reply(k, "ok", NoPath)))
            \/ c' = Sent(c, <<Reply(k, "refused", NoPath)>>)
         /\ d' = [d EXCEPT !.working = @ \ {k}, !.row = @ /\ c.call[k].op # "remove"]
  BY DEF complete
<1>2. Sound(c, d.working, canceled, c.kind) /\ d \in Daemon /\ canceled' = canceled
  BY DEF ClientInv, complete
<1>3. c \in Library /\ k \in DOMAIN c.call
  BY <1>2 DEF Sound, Placed, Working
<1>4. c.call[k].path \in Nat
  BY <1>3, CallFields
<1>5. Es(k) \in Seq(Event) /\ \A i \in DOMAIN Es(k) : ~IsReply(Es(k)[i])
  <2>1. \A what \in {"removed", "signedOut"} :
           Signal(what, c.call[k].path) \in Event /\ ~IsReply(Signal(what, c.call[k].path))
    BY <1>4, SignalIsEvent
  <2>2. CASE c.call[k].op = "remove"
    BY <2>1, <2>2
  <2>3. CASE c.call[k].op = "signOut"
    BY <2>1, <2>3
  <2>4. CASE c.call[k].op \notin {"remove", "signOut"}
    BY <2>4
  <2> QED BY <2>2, <2>3, <2>4
<1> DEFINE q == Es(k)
<1>6. q \in Seq(Event) /\ \A i \in DOMAIN q : ~IsReply(q[i])
  BY <1>5
<1>7. \/ c' = Sent(c, Append(q, Reply(k, "ok", NoPath)))
      \/ c' = Sent(c, <<Reply(k, "refused", NoPath)>>)
  BY <1>1
<1> HIDE DEF q, Es
<1>8. \A result \in {"ok", "refused"} :
        result \in Results /\ result \notin RetryErrors /\ NoPath \in Nat
  BY DEF Results, RetryErrors, NoPath
<1>9. \A result \in {"ok", "refused"} :
        /\ Sound(Sent(c, Append(q, Reply(k, result, NoPath))), d.working \ {k}, canceled, c.kind)
        /\ Sound(Sent(c, <<Reply(k, result, NoPath)>>), d.working \ {k}, canceled, c.kind)
  BY <1>2, <1>6, <1>8, RepliedSound
<1>10. Sound(c', d.working \ {k}, canceled, c.kind)
  BY <1>7, <1>9
<1>11. d' \in Daemon /\ d'.working = d.working \ {k}
  BY <1>1, <1>2 DEF Daemon
<1> QED
  BY <1>2, <1>10, <1>11, KindKept DEF ClientInv

LEMMA SignalsInv == ASSUME ClientInv, unregister \/ others PROVE ClientInv' /\ c'.kind = c.kind
<1>1. Sound(c, d.working, canceled, c.kind) /\ d \in Daemon /\ canceled' = canceled
  BY DEF ClientInv, unregister, others, Happens
<1>2. CASE unregister
  <2>1. PICK path \in d.objects :
           /\ c' = Sent(c, <<[type |-> "unregistered", path |-> path]>>)
           /\ d' = [d EXCEPT !.objects = @ \ {path}]
    BY <1>2 DEF unregister
  <2> DEFINE e == [type |-> "unregistered", path |-> path]
  <2>2. e \in Event /\ ~IsReply(e)
    BY <1>1 DEF Event, Daemon, IsReply
  <2> HIDE DEF e
  <2>3. Sound(Sent(c, <<e>>), d.working, canceled, c.kind)
    BY <1>1, <2>2, SignaledSound
  <2>4. d' \in Daemon /\ d'.working = d.working
    BY <1>1, <2>1 DEF Daemon
  <2> QED BY <1>1, <2>1, <2>3, <2>4, KindKept DEF e
<1>3. CASE others
  <2>1. PICK what \in {"updated", "removed", "signedOut"} :
           /\ c' = Sent(c, <<Signal(what, d.registered)>>)
           /\ d' = [d EXCEPT !.row = what # "removed"]
    BY <1>3 DEF others
  <2> DEFINE e == Signal(what, d.registered)
  <2>2. e \in Event /\ ~IsReply(e)
    BY <1>1, SignalIsEvent DEF Daemon
  <2> HIDE DEF e
  <2>3. Sound(Sent(c, <<e>>), d.working, canceled, c.kind)
    BY <1>1, <2>2, SignaledSound
  <2>4. d' \in Daemon /\ d'.working = d.working
    BY <1>1, <2>1 DEF Daemon
  <2> QED BY <1>1, <2>1, <2>3, <2>4, KindKept DEF e
<1> QED
  BY <1>2, <1>3

LEMMA StartsInv ==
    ASSUME ClientInv, activate \/ start \/ noservice PROVE ClientInv' /\ c'.kind = c.kind
<1>1. Sound(c, d.working, canceled, c.kind) /\ d \in Daemon /\ canceled' = canceled /\ d' = d
  BY DEF ClientInv, activate, start, noservice, Happens
<1> DEFINE W == d.working
           C == canceled
<1>2. CASE start
  <2>1. c' = [c EXCEPT !.up = TRUE]
    BY <1>2 DEF start
  <2>2. Sound([c EXCEPT !.up = TRUE], W, C, c.kind)
    BY <1>1, UpSound
  <2> QED BY <1>1, <2>1, <2>2, KindKept DEF ClientInv
<1>3. ASSUME NEW ok \in BOOLEAN,
             c' \in {[c EXCEPT !.up = TRUE, !.starting = FALSE,
                               !.in = Append(@, [type |-> "activated", ok |-> ok])],
                     [c EXCEPT !.starting = FALSE,
                               !.in = Append(@, [type |-> "activated", ok |-> ok])]}
      PROVE  Sound(c', W, C, c.kind)
  <2> DEFINE e == [type |-> "activated", ok |-> ok]
             s == [c EXCEPT !.starting = FALSE]
             r == [s EXCEPT !.in = Append(@, e)]
  <2>1. e \in Event /\ ~IsReply(e)
    BY DEF Event, IsReply
  <2>2. Sound(s, W, C, c.kind)
    BY <1>1, UpSound
  <2>3. Sound([s EXCEPT !.in = Append(@, e)], W, C, c.kind)
    <3> HIDE DEF s, e
    <3> QED BY <2>1, <2>2, SignaledSound
  <2>4. Sound([r EXCEPT !.up = TRUE], W, C, c.kind)
    <3> HIDE DEF r
    <3> QED BY <2>3, UpSound DEF r
  <2>5. c \in Library
    BY <1>1 DEF Sound, Placed
  <2>6. c' \in {r, [r EXCEPT !.up = TRUE]}
    BY <1>3, <2>5 DEF Library
  <2> QED BY <2>3, <2>4, <2>6
<1>4. CASE activate \/ noservice
  <2>1. Sound(c', W, C, c.kind)
    BY <1>3, <1>4 DEF activate, noservice
  <2> QED BY <1>1, <2>1, KindKept DEF ClientInv
<1> QED
  BY <1>2, <1>4

\* signond ends: the calls it has not answered are answered for it, and it has
\* executed none of them any more.
LEMMA AbandonedSound ==
    ASSUME Sound(c, d.working, canceled, c.kind)
    PROVE  LET s == [c EXCEPT !.out = <<>>,
                              !.call = [k \in DOMAIN @ |-> [@[k] EXCEPT !.served = 0]]]
           IN  Sound(s, Unanswered, canceled, c.kind) /\ \A k \in Unanswered : s.call[k].served = 0
<1> DEFINE Fresh(call) == [call EXCEPT !.served = 0]
           v == [k \in DOMAIN c.call |-> Fresh(c.call[k])]
           s == [c EXCEPT !.out = <<>>, !.call = v]
           V == Unanswered
           C == canceled
<1>1. c \in Library /\ c.call \in Seq(CallRecord) /\ Placed(c, 0, d.working, C)
  BY LibraryFields DEF Sound, Placed
<1>2. \A k \in DOMAIN c.call :
         /\ Fresh(c.call[k]) \in CallRecord /\ Fresh(c.call[k]).served = 0
         /\ Fresh(c.call[k]).on = c.call[k].on /\ Fresh(c.call[k]).state = c.call[k].state
         /\ Fresh(c.call[k]).watched = c.call[k].watched
         /\ Fresh(c.call[k]).answers = c.call[k].answers
         /\ Fresh(c.call[k]).op = c.call[k].op
  <2> SUFFICES ASSUME NEW k \in DOMAIN c.call
               PROVE  /\ Fresh(c.call[k]) \in CallRecord /\ Fresh(c.call[k]).served = 0
                      /\ Fresh(c.call[k]).on = c.call[k].on
                      /\ Fresh(c.call[k]).state = c.call[k].state
                      /\ Fresh(c.call[k]).watched = c.call[k].watched
                      /\ Fresh(c.call[k]).answers = c.call[k].answers
                      /\ Fresh(c.call[k]).op = c.call[k].op
    OBVIOUS
  <2>1. c.call[k] \in CallRecord
    BY <1>1
  <2> QED BY <2>1 DEF CallRecord
<1> HIDE DEF Fresh
<1>3. v \in Seq(CallRecord) /\ DOMAIN v = DOMAIN c.call
      /\ \A k \in DOMAIN c.call : v[k] = Fresh(c.call[k])
  BY <1>1, <1>2
<1>4. [c EXCEPT !.out = <<>>,
                !.call = [k \in DOMAIN @ |-> [@[k] EXCEPT !.served = 0]]] = s
  BY DEF Fresh
<1> HIDE DEF v
<1>5. /\ s \in Library /\ s.kind = c.kind /\ s.call = v /\ s.proxy = c.proxy
      /\ s.out = <<>> /\ s.in = c.in /\ s.process = c.process
  <2> DEFINE o == <<>>
             r == [c EXCEPT !.out = o, !.call = v]
  <2>1. o \in Seq(Nat)
    OBVIOUS
  <2> HIDE DEF o
  <2>2. /\ r \in Library /\ r.kind = c.kind /\ r.call = v /\ r.proxy = c.proxy
        /\ r.out = o /\ r.in = c.in /\ r.process = c.process
    BY <1>1, <1>3, <2>1 DEF Library
  <2> QED BY <2>2 DEF o
<1> HIDE DEF s
<1>6. V \subseteq DOMAIN c.call /\ \A k \in V : c.call[k].state = "sent"
      /\ \A i \in DOMAIN c.in : IsReply(c.in[i]) => c.in[i].call \notin V
  BY DEF Unanswered, IsReply
<1>7. Queues(s, 0)
  BY <1>1, <1>2, <1>3, <1>5 DEF Placed, Queues
<1>8. Outgoing(s, V)
  BY <1>5 DEF Outgoing, Distinct
<1>9. Incoming(s, V)
  BY <1>1, <1>2, <1>3, <1>5, <1>6 DEF Placed, Incoming, In
<1>10. Working(s, V)
  BY <1>2, <1>3, <1>5, <1>6 DEF Working
<1>11. Withdrawn(s, C)
  BY <1>1, <1>2, <1>3, <1>5 DEF Placed, Withdrawn
<1>12. \A k \in DOMAIN s.call : CallOK(s, k)
  BY <1>1, <1>2, <1>3, <1>5 DEF Placed, CallOK
<1>13. Sound(s, V, C, c.kind)
  BY <1>3, <1>5, <1>7, <1>8, <1>9, <1>10, <1>11, <1>12 DEF Placed, Sound
<1>14. \A k \in V : s.call[k].served = 0
  BY <1>2, <1>3, <1>5, <1>6
<1> QED
  BY <1>4, <1>13, <1>14

LEMMA DieInv == ASSUME ClientInv, die PROVE ClientInv' /\ c'.kind = c.kind
<1>1. Sound(c, d.working, canceled, c.kind) /\ d \in Daemon /\ canceled' = canceled
      /\ c \in Library
  BY SMTT(20) DEF ClientInv, die, Happens, Sound, Placed
<1>2. PICK result \in {"Disconnected", "NoReply"}, before \in BOOLEAN,
           ks \in InOrder(Unanswered) :
         LET failed == [i \in DOMAIN ks |-> Reply(ks[i], result, NoPath)]
             gone   == <<[type |-> "disconnected"]>>
         IN  c' = [Sent(c, IF before THEN failed \o gone ELSE gone \o failed) EXCEPT
                     !.up = FALSE, !.online = FALSE, !.out = <<>>,
                     !.call = [k \in DOMAIN @ |-> [@[k] EXCEPT !.served = 0]]]
  BY Zenon DEF die
<1> DEFINE failed == [i \in DOMAIN ks |-> Reply(ks[i], result, NoPath)]
           e      == [type |-> "disconnected"]
           gone   == <<e>>
           es     == IF before THEN failed \o gone ELSE gone \o failed
           s == [c EXCEPT !.out = <<>>,
                          !.call = [k \in DOMAIN @ |-> [@[k] EXCEPT !.served = 0]]]
           V == Unanswered
<1>3. c' = [Sent(c, es) EXCEPT
              !.up = FALSE, !.online = FALSE, !.out = <<>>,
              !.call = [k \in DOMAIN @ |-> [@[k] EXCEPT !.served = 0]]]
  BY <1>2
<1>4. Sound(s, V, canceled, c.kind) /\ \A k \in V : s.call[k].served = 0
  BY <1>1, AbandonedSound
<1>5. e \in Event /\ ~IsReply(e) /\ gone \in Seq(Event) /\ Len(gone) = 1 /\ gone[1] = e
  BY DEF Event, IsReply
<1>6. V \subseteq Nat
  BY <1>1, CallFields DEF Unanswered
<1>7. /\ ks \in [1..Cardinality(V) -> V] /\ Cardinality(V) \in Nat
      /\ \A i, j \in DOMAIN ks : ks[i] = ks[j] => i = j
  <2>1. ks \in SetToSeqs(V)
    BY <1>2 DEF InOrder
  <2>2. /\ ks \in [1..Cardinality(V) -> V]
        /\ \A i, j \in 1..Cardinality(V) : i # j => ks[i] # ks[j]
    BY <2>1 DEF SetToSeqs
  <2>3. V \subseteq 1..Len(c.call) /\ Len(c.call) \in Nat
    BY <1>1, LibraryFields DEF Unanswered
  <2>4. IsFiniteSet(1..Len(c.call))
    BY <2>3, FS_Interval
  <2> HIDE DEF V
  <2>5. Cardinality(V) \in Nat
    BY <2>3, <2>4, FS_Subset, FS_CardinalityType
  <2> QED BY <2>2, <2>5
<1> HIDE DEF e, V, s
<1>8. /\ failed \in Seq(Event)
      /\ \A i \in DOMAIN failed : /\ i \in DOMAIN ks /\ IsReply(failed[i])
                                  /\ failed[i].call = ks[i] /\ ks[i] \in V
  <2>1. \A i \in DOMAIN ks : ks[i] \in V /\ ks[i] \in Nat
    BY <1>6, <1>7
  <2>2. \A i \in DOMAIN ks : /\ Reply(ks[i], result, NoPath) \in Event
                             /\ IsReply(Reply(ks[i], result, NoPath))
                             /\ Reply(ks[i], result, NoPath).call = ks[i]
    BY <2>1, ReplyIsEvent DEF Results, NoPath
  <2> QED BY <1>7, <2>1, <2>2
<1> HIDE DEF failed
<1>9. Len(failed) \in Nat /\ es \in Seq(Event) /\ DOMAIN failed = 1..Len(failed)
      /\ ConcatFacts(failed, gone) /\ ConcatFacts(gone, failed)
  <2> HIDE DEF gone
  <2>1. /\ failed \o gone \in Seq(Event) /\ gone \o failed \in Seq(Event)
        /\ ConcatFacts(failed, gone) /\ ConcatFacts(gone, failed)
    BY <1>5, <1>8, Concatenated
  <2> QED BY <2>1, <1>8
<1> DEFINE At(i) == IF before THEN i ELSE i - 1
<1>10. ASSUME NEW i \in DOMAIN es, IsReply(es[i])
       PROVE  At(i) \in DOMAIN failed /\ es[i] = failed[At(i)]
  <2> HIDE DEF gone
  <2>1. CASE before
    <3>1. es = failed \o gone
      BY <2>1
    <3> HIDE DEF es
    <3>2. i \in 1..Len(failed) + 1
      BY <1>5, <1>9, <1>10, <3>1 DEF ConcatFacts
    <3>3. CASE i = Len(failed) + 1
      <4>1. es[i] = gone[1]
        BY <1>5, <1>9, <3>1, <3>3 DEF ConcatFacts
      <4> QED BY <1>5, <1>10, <4>1
    <3>4. CASE i \in 1..Len(failed)
      BY <1>9, <2>1, <3>1, <3>4 DEF ConcatFacts
    <3> QED BY <1>9, <3>2, <3>3, <3>4
  <2>2. CASE ~before
    <3>1. es = gone \o failed
      BY <2>2
    <3> HIDE DEF es
    <3>2. i \in 1..1 + Len(failed)
      BY <1>5, <1>9, <1>10, <3>1 DEF ConcatFacts
    <3>3. CASE i = 1
      <4>1. es[i] = gone[1]
        BY <1>5, <1>9, <3>1, <3>3 DEF ConcatFacts
      <4> QED BY <1>5, <1>10, <4>1
    <3>4. CASE i \in 2..1 + Len(failed)
      BY <1>5, <1>9, <2>2, <3>1, <3>4 DEF ConcatFacts
    <3> QED BY <1>9, <3>2, <3>3, <3>4
  <2> QED BY <1>2, <2>1, <2>2
<1>11. Answering(s, V, {}, es)
  <2>1. DOMAIN es \subseteq Nat
    BY <1>9
  <2> HIDE DEF es, At
  <2>2. \A i \in DOMAIN es : IsReply(es[i]) =>
           es[i].call \in V \ {}
           /\ (es[i].result \in RetryErrors => s.call[es[i].call].served = 0)
    BY <1>4, <1>8, <1>10
  <2>3. ASSUME NEW i \in DOMAIN es, NEW j \in DOMAIN es,
               IsReply(es[i]), IsReply(es[j]), es[i].call = es[j].call
        PROVE  i = j
    <3>1. ks[At(i)] = ks[At(j)]
      BY <1>8, <1>10, <2>3
    <3>2. At(i) = At(j)
      BY <1>7, <1>8, <1>10, <2>3, <3>1
    <3> QED BY <2>1, <3>2 DEF At
  <2> QED BY <2>2, <2>3 DEF Answering
<1> HIDE DEF es
<1> DEFINE t == Sent(s, es)
           u == [t EXCEPT !.up = FALSE]
<1>12. Sound(t, {}, canceled, c.kind)
  BY <1>4, <1>9, <1>11, SentSound
<1>13. c' = [u EXCEPT !.online = FALSE]
  <2>1. s.online = c.online /\ s.in = c.in
    BY <1>1 DEF s, Library
  <2> QED BY <1>1, <1>3, <2>1 DEF s, Sent, Library
<1> HIDE DEF t
<1>14. Sound(u, {}, canceled, c.kind)
  BY <1>12, UpSound
<1> HIDE DEF u
<1>15. Sound([u EXCEPT !.online = FALSE], {}, canceled, c.kind)
  BY <1>14, UpSound
<1>16. d' \in Daemon /\ d'.working = {}
  BY <1>1 DEF die, Daemon, NoPath
<1> QED
  BY <1>1, <1>13, <1>15, <1>16, KindKept DEF ClientInv

-----------------------------------------------------------------------------
(* Construction, and the theorems *)

LEMMA NewClientPlaced ==
    ASSUME NEW kind \in {"session", "identity", "service"}, NEW id \in Nat,
           NEW up \in BOOLEAN
    PROVE  LET s == NewClient(kind, id, up)
           IN  /\ Placed(s, 0, {}, {}) /\ s.proxy = <<>> /\ s.process = NoCall
               /\ s.kind = kind
<1> DEFINE s == NewClient(kind, id, up)
<1>1. s \in Library
  BY DEF NewClient, Library, NoCall
<1>2. /\ s.proxy = <<>> /\ s.call = <<>> /\ s.out = <<>> /\ s.in = <<>>
      /\ s.process = NoCall /\ s.kind = kind
  BY DEF NewClient
<1> HIDE DEF s
<1>3. Queues(s, 0) /\ Outgoing(s, {}) /\ Incoming(s, {}) /\ Working(s, {})
      /\ Withdrawn(s, {})
  BY <1>2 DEF Queues, Outgoing, Incoming, Working, Withdrawn, Distinct
<1>4. \A k \in DOMAIN s.call : CallOK(s, k)
  BY <1>2
<1> QED
  BY <1>1, <1>2, <1>3, <1>4 DEF Placed, s

LEMMA ConstructedSound ==
    ASSUME NEW kind \in {"session", "identity", "service"}, NEW id \in Nat,
           NEW up \in BOOLEAN, NEW path \in Nat
    PROVE  LET t == newProxy(NewClient(kind, id, up), path)
           IN  /\ Sound(t, {}, {}, kind)
               /\ Sound(initInterface(t), {}, {}, kind) /\ Sound(sendRegisterRequest(t), {}, {}, kind)
<1> DEFINE s == NewClient(kind, id, up)
           t == newProxy(s, path)
<1>1. Placed(s, 0, {}, {}) /\ s.proxy = <<>> /\ s.process = NoCall /\ s.kind = kind
  BY NewClientPlaced
<1> HIDE DEF s
<1>2. /\ Placed(t, 0, {}, {}) /\ Len(s.proxy) + 1 \in DOMAIN t.proxy
      /\ t.process = s.process /\ t.kind = kind
  BY <1>1, NewProxyPlaced DEF Grows
<1> HIDE DEF t
<1>3. Sound(t, {}, {}, kind)
  BY <1>1, <1>2 DEF Sound, Main
<1>4. Sound(initInterface(t), {}, {}, kind)
  BY <1>2, <1>3, ObjectPathNeededPlaced, GrowsSound
<1>5. Sound(sendRegisterRequest(t), {}, {}, kind)
  BY <1>2, <1>3, ObjectPathNeededPlaced, GrowsSound
<1> QED
  BY <1>3, <1>4, <1>5 DEF t, s

LEMMA InitInv == ASSUME Init PROVE ClientInv
<1>1. PICK kind \in Kinds, up \in BOOLEAN :
         CASE kind = "session"  -> c = AuthSessionImpl(up)
           [] kind = "identity" -> \E id \in 0..1 : c = IdentityImpl(id, up)
           [] kind = "service"  -> c = AuthServiceImpl(up)
  BY DEF Init
<1>2. kind \in {"session", "identity", "service"}
  BY ClientAssumption
<1>3. Sound(c, {}, {}, kind)
  <2>1. CASE kind = "session"
    <3>1. Sound(initInterface(newProxy(NewClient("session", 0, up), NoPath)), {}, {}, kind)
      BY <2>1, ConstructedSound DEF NoPath
    <3> QED BY <1>1, <2>1, <3>1 DEF AuthSessionImpl
  <2>2. CASE kind = "identity"
    <3>1. PICK id \in 0..1 : c = IdentityImpl(id, up)
      BY <1>1, <2>2
    <3>2. Sound(sendRegisterRequest(newProxy(NewClient("identity", id, up), NoPath)), {}, {}, kind)
      BY <2>2, ConstructedSound DEF NoPath
    <3> QED BY <3>1, <3>2 DEF IdentityImpl
  <2>3. CASE kind = "service"
    <3>1. Sound(newProxy(NewClient("service", 0, up), DaemonPath), {}, {}, kind)
      BY <2>3, ConstructedSound DEF DaemonPath
    <3> QED BY <1>1, <2>3, <3>1 DEF AuthServiceImpl
  <2> QED BY <1>2, <2>1, <2>2, <2>3
<1>4. d \in Daemon /\ d.working = {} /\ canceled = {}
  BY DEF Init, Daemon, NoPath
<1> QED
  BY <1>3, <1>4 DEF ClientInv, Sound

LEMMA NextInv == ASSUME ClientInv, [Next]_vars PROVE ClientInv' /\ c'.kind = c.kind
<1>1. CASE \/ queryAvailableMechanisms \/ setId \/ process
           \/ verifyUser \/ storeCredentials \/ remove \/ signOut \/ queryInfo
           \/ sendRequest \/ queryMechanisms
  BY <1>1, CallsOfApplication
<1>2. CASE cancel
  BY <1>2, CancelInv
<1>3. CASE eventLoop
  BY <1>3, EventLoopInv
<1>4. CASE postedFail
  BY <1>4, PostedFailInv
<1>5. CASE registerObject
  BY <1>5, RegisterObjectInv
<1>6. CASE unknownObject
  BY <1>6, UnknownObjectInv
<1>7. CASE begin
  BY <1>7, BeginInv
<1>8. CASE serveStore
  BY <1>8, ServeStoreInv
<1>9. CASE serve \/ refuse
  BY <1>9, ServeInv
<1>10. CASE complete
  BY <1>10, CompleteInv
<1>11. CASE unregister \/ others
  BY <1>11, SignalsInv
<1>12. CASE die
  BY <1>12, DieInv
<1>13. CASE activate \/ start \/ noservice
  BY <1>13, StartsInv
<1>14. CASE UNCHANGED vars
  BY <1>14 DEF ClientInv, vars
<1> QED
  BY <1>1, <1>2, <1>3, <1>4, <1>5, <1>6, <1>7, <1>8, <1>9, <1>10, <1>11, <1>12,
     <1>13, <1>14 DEF Next

\* Every call, of the application or for a registration, has one place: queued by
\* its proxy, sent, worked on or answered.  What is sent, queued or failed while
\* the interface, the connection or signond itself goes leaves none in two places.
THEOREM CallsHaveTheirPlace == Spec => []ClientInv
<1>1. Init => ClientInv
  BY InitInv
<1>2. ClientInv /\ [Next]_vars => ClientInv'
  BY NextInv
<1> QED
  BY <1>1, <1>2, PTL DEF Spec

\* PendingCall::onFinished() tries a call again when its interface has gone, and
\* setStatus() makes all that is queued: no call is so executed twice by the same
\* signond.
THEOREM CallsExecutedOnce == Spec => []ExecutedOnce
<1>1. ClientInv => ExecutedOnce
  BY DEF ClientInv, Sound, Placed, CallOK, ExecutedOnce
<1> QED
  BY <1>1, CallsHaveTheirPlace, PTL

\* A process() that AuthSessionImpl::cancel() withdrew from its queue, before any
\* D-Bus call was made of it, never reaches signond.
THEOREM WithdrawnNeverExecuted == Spec => []CanceledNeverExecuted
<1>1. ClientInv => CanceledNeverExecuted
  BY DEF ClientInv, Sound, Placed, Withdrawn, CanceledNeverExecuted
<1> QED
  BY <1>1, CallsHaveTheirPlace, PTL

\* An identity or a service hears of the end of each of its calls once, be it by
\* reply, error, PendingCall::fail() or the event loop.
THEOREM EndsToldOnce == Spec => []ToldOnce
<1>1. ClientInv => ToldOnce
  BY DEF ClientInv, Sound, Placed, CallOK, ToldOnce
<1> QED
  BY <1>1, CallsHaveTheirPlace, PTL

-----------------------------------------------------------------------------
(* The order of the replies to a service.  Its one proxy first waits for a  *)
(* connection, is then connected, and once that connection has gone it has  *)
(* lost its path for good (setDisconnected), and sends nothing any more.    *)

Undone(s, k) == s.call[k].state # "done"

ReplyTo(s, i, k) == IsReply(s.in[i]) /\ s.in[i].call = k

Replied(s, k) == \E i \in DOMAIN s.in : ReplyTo(s, i, k)

ServiceOps == {"request", "queryMechanisms"}

Simple(s) ==
    /\ s.kind = "service"
    /\ Len(s.proxy) = 1 /\ s.proxy[Main].exists
    /\ \A k \in DOMAIN s.call :
          s.call[k].on = Main /\ s.call[k].op \in ServiceOps /\ s.call[k].state # "failing"
    /\ \A i \in DOMAIN s.in : s.in[i].type \in {"reply", "disconnected", "activated"}

\* The methods are those of the queries under way, in the order they were made.
Listed(s) ==
    /\ \A i, j \in DOMAIN s.methods : i < j => s.methods[i] < s.methods[j]
    /\ \A i \in DOMAIN s.methods : s.methods[i] \in DOMAIN s.call
    /\ \A k \in DOMAIN s.call :
          s.call[k].op = "queryMechanisms" /\ Undone(s, k) <=> In(k, s.methods)

\* When event i comes, the connection has gone.
Gone(s, i) == s.proxy[Main].path = NoPath \/ \E g \in 1..i-1 : s.in[g].type = "disconnected"

\* Event i is an error for which the call will be queued again.
Abandoned(s, i) == IsReply(s.in[i]) /\ s.in[i].result \in RetryErrors /\ Gone(s, i)

Ordered(s) ==
    \A i \in DOMAIN s.in : IsReply(s.in[i]) /\ ~Abandoned(s, i) =>
       \A k \in 1..s.in[i].call-1 : Undone(s, k) => \E h \in 1..i-1 : ReplyTo(s, h, k)

AbandonedLast(s) ==
    \A i, j \in DOMAIN s.in : i < j /\ Abandoned(s, i) /\ IsReply(s.in[j]) => Abandoned(s, j)

Underway(s) ==
    \A k \in DOMAIN s.call : s.call[k].state = "sent" =>
       /\ In(k, s.out) \/ Replied(s, k)
       /\ s.call[k].lost <=> s.proxy[Main].path = NoPath

Leaving(s) ==
    \A i \in DOMAIN s.out : \A k \in 1..s.out[i]-1 :
       Undone(s, k) => Replied(s, k) \/ \E h \in 1..i-1 : s.out[h] = k

Waiting(s) ==
    /\ s.proxy[Main].path = DaemonPath /\ ~s.proxy[Main].conn
    /\ s.proxy[Main].status = "Incomplete"
    /\ s.proxy[Main].queue = [k \in 1..Len(s.call) |-> k]
    /\ ~s.online /\ s.out = <<>>
    /\ \A k \in DOMAIN s.call : s.call[k].state = "queued"
    /\ s.starting => s.in = <<>> /\ s.service = "activating"
    /\ s.in # <<>> => s.service = "activating" /\ Len(s.in) = 1 /\ s.in[1].type = "activated"

Connected(s) ==
    /\ s.proxy[Main].path = DaemonPath /\ s.proxy[Main].conn
    /\ s.proxy[Main].status = "Ready" /\ s.proxy[Main].queue = <<>>
    /\ ~s.starting
    /\ \A k \in DOMAIN s.call : s.call[k].state # "queued"
    /\ \A k \in DOMAIN s.call : s.call[k].state = "sent" => s.call[k].path = DaemonPath
    /\ \A i \in DOMAIN s.in : s.in[i].type # "activated"
    /\ s.online <=> \A i \in DOMAIN s.in : s.in[i].type # "disconnected"
    /\ ~s.online => s.out = <<>>

Lost(s) ==
    /\ s.proxy[Main].path = NoPath /\ s.proxy[Main].status = "Incomplete"
    /\ s.out = <<>>

InService(s) ==
    /\ Simple(s) /\ Ordered(s) /\ AbandonedLast(s) /\ Underway(s) /\ Leaving(s)
    /\ Waiting(s) \/ Connected(s) \/ Lost(s)

ServiceInv ==
    /\ c.kind = "service" => /\ InService(c) /\ Listed(c)
                             /\ d.working = {} /\ d.objects = {} /\ d.registered = NoPath
    /\ ~mixed

\* The event loop takes an event.
LEMMA Advance ==
    ASSUME NEW s, NEW t, s.in \in Seq(Event), s.in # <<>>, t.in = Tail(s.in),
           Ordered(s), AbandonedLast(s),
           t.proxy[Main].path = NoPath <=>
              s.proxy[Main].path = NoPath \/ s.in[1].type = "disconnected",
           \/ Abandoned(s, 1)
           \/ \A i \in DOMAIN s.in : IsReply(s.in[i]) =>
                 \A k \in 1..s.in[i].call-1 :
                    Undone(t, k) => Undone(s, k) /\ ~ReplyTo(s, 1, k)
    PROVE  Ordered(t) /\ AbandonedLast(t)
<1>1. /\ Len(s.in) \in Nat \ {0} /\ DOMAIN s.in = 1..Len(s.in)
      /\ DOMAIN t.in = 1..Len(s.in)-1
      /\ \A i \in 1..Len(s.in)-1 : t.in[i] = s.in[i + 1]
  OBVIOUS
<1>2. ASSUME NEW i \in DOMAIN t.in
      PROVE  i + 1 \in DOMAIN s.in /\ t.in[i] = s.in[i + 1] /\ i \in Nat /\ i >= 1
  BY <1>1
<1>3. ASSUME NEW i \in DOMAIN t.in PROVE Gone(t, i) <=> Gone(s, i + 1)
  <2>1. ASSUME NEW g \in 1..i-1, t.in[g].type = "disconnected" PROVE Gone(s, i + 1)
    <3>1. g \in DOMAIN t.in /\ g + 1 \in 1..(i+1)-1
      BY <1>1, <2>1
    <3> QED BY <1>2, <2>1, <3>1 DEF Gone
  <2>2. ASSUME NEW g \in 1..(i+1)-1, s.in[g].type = "disconnected" PROVE Gone(t, i)
    <3>1. CASE g = 1
      BY <3>1, <2>2 DEF Gone
    <3>2. CASE g # 1
      <4>1. g - 1 \in 1..i-1 /\ g - 1 \in DOMAIN t.in /\ (g - 1) + 1 = g
        BY <1>1, <2>2, <3>2
      <4> QED BY <1>2, <2>2, <4>1 DEF Gone
    <3> QED BY <3>1, <3>2
  <2>3. s.proxy[Main].path = NoPath => Gone(t, i) /\ Gone(s, i + 1)
    BY DEF Gone
  <2>4. t.proxy[Main].path = NoPath => Gone(s, i + 1)
    <3>1. 1 \in 1..(i+1)-1
      BY <1>2
    <3> QED BY <3>1 DEF Gone
  <2> QED BY <2>1, <2>2, <2>3, <2>4 DEF Gone
<1>4. ASSUME NEW i \in DOMAIN t.in PROVE Abandoned(t, i) <=> Abandoned(s, i + 1)
  BY <1>2, <1>3 DEF Abandoned
<1>5. AbandonedLast(t)
  <2> SUFFICES ASSUME NEW i \in DOMAIN t.in, NEW j \in DOMAIN t.in, i < j,
                      Abandoned(t, i), IsReply(t.in[j])
               PROVE  Abandoned(t, j)
    BY DEF AbandonedLast
  <2>1. i + 1 < j + 1 /\ Abandoned(s, i + 1) /\ IsReply(s.in[j + 1])
    BY <1>2, <1>4
  <2> QED BY <1>2, <1>4, <2>1 DEF AbandonedLast
<1>6. Ordered(t)
  <2> SUFFICES ASSUME NEW i \in DOMAIN t.in, IsReply(t.in[i]), ~Abandoned(t, i),
                      NEW k \in 1..t.in[i].call-1, Undone(t, k)
               PROVE  \E h \in 1..i-1 : ReplyTo(t, h, k)
    BY DEF Ordered
  <2>1. /\ i + 1 \in DOMAIN s.in /\ IsReply(s.in[i + 1]) /\ ~Abandoned(s, i + 1)
        /\ k \in 1..s.in[i + 1].call-1 /\ 1 < i + 1 /\ 1 \in DOMAIN s.in
    BY <1>1, <1>2, <1>4
  <2>2. ~Abandoned(s, 1)
    BY <2>1 DEF AbandonedLast
  <2>3. Undone(s, k) /\ ~ReplyTo(s, 1, k)
    BY <2>1, <2>2
  <2>4. PICK h \in 1..(i+1)-1 : ReplyTo(s, h, k)
    BY <2>1, <2>3 DEF Ordered
  <2>5. h # 1
    BY <2>3, <2>4
  <2>6. h - 1 \in 1..i-1 /\ h - 1 \in DOMAIN t.in /\ (h - 1) + 1 = h
    BY <1>1, <1>2, <2>5
  <2>7. ReplyTo(t, h - 1, k)
    BY <1>2, <2>4, <2>6 DEF ReplyTo
  <2> QED BY <2>6, <2>7
<1> QED
  BY <1>5, <1>6

\* Events are added to those that have arrived.
LEMMA Lengthened ==
    ASSUME NEW s, NEW t, s.in \in Seq(Event), NEW es \in Seq(Event), t.in = s.in \o es,
           Ordered(s), AbandonedLast(s),
           t.proxy[Main].path = s.proxy[Main].path,
           \A i \in DOMAIN s.in : IsReply(s.in[i]) =>
              \A k \in 1..s.in[i].call-1 : Undone(t, k) => Undone(s, k),
           \A i \in DOMAIN t.in \ DOMAIN s.in : IsReply(t.in[i]) /\ ~Abandoned(t, i) =>
              \A k \in 1..t.in[i].call-1 : Undone(t, k) => \E h \in 1..i-1 : ReplyTo(t, h, k),
           \A i \in DOMAIN t.in : \A j \in DOMAIN t.in \ DOMAIN s.in :
              i < j /\ Abandoned(t, i) /\ IsReply(t.in[j]) => Abandoned(t, j)
    PROVE  Ordered(t) /\ AbandonedLast(t)
<1>1. ConcatFacts(s.in, es)
  BY Concatenated
<1>2. /\ Len(s.in) \in Nat /\ DOMAIN s.in = 1..Len(s.in) /\ Len(es) \in Nat
      /\ DOMAIN t.in = 1..Len(s.in) + Len(es)
      /\ \A i \in DOMAIN s.in : t.in[i] = s.in[i]
  BY <1>1 DEF ConcatFacts
<1>3. ASSUME NEW i \in DOMAIN s.in
      PROVE  /\ Abandoned(t, i) <=> Abandoned(s, i)
             /\ \A h \in 1..i-1 : h \in DOMAIN s.in
  <2>1. \A h \in 1..i-1 : h \in DOMAIN s.in
    BY <1>2
  <2>2. Gone(t, i) <=> Gone(s, i)
    BY <1>2, <2>1 DEF Gone
  <2> QED BY <1>2, <2>1, <2>2 DEF Abandoned
<1>4. AbandonedLast(t)
  <2> SUFFICES ASSUME NEW i \in DOMAIN t.in, NEW j \in DOMAIN t.in, i < j,
                      Abandoned(t, i), IsReply(t.in[j])
               PROVE  Abandoned(t, j)
    BY DEF AbandonedLast
  <2>1. CASE j \in DOMAIN s.in
    <3>1. i \in DOMAIN s.in
      BY <1>2, <2>1
    <3> QED BY <1>2, <1>3, <2>1, <3>1 DEF AbandonedLast
  <2>2. CASE j \notin DOMAIN s.in
    BY <2>2
  <2> QED BY <2>1, <2>2
<1>5. Ordered(t)
  <2> SUFFICES ASSUME NEW i \in DOMAIN t.in, IsReply(t.in[i]), ~Abandoned(t, i),
                      NEW k \in 1..t.in[i].call-1, Undone(t, k)
               PROVE  \E h \in 1..i-1 : ReplyTo(t, h, k)
    BY DEF Ordered
  <2>1. CASE i \in DOMAIN s.in
    <3>1. IsReply(s.in[i]) /\ ~Abandoned(s, i) /\ k \in 1..s.in[i].call-1 /\ Undone(s, k)
      BY <1>2, <1>3, <2>1
    <3>2. PICK h \in 1..i-1 : ReplyTo(s, h, k)
      BY <2>1, <3>1 DEF Ordered
    <3>3. ReplyTo(t, h, k)
      BY <1>2, <1>3, <2>1, <3>2 DEF ReplyTo
    <3> QED BY <3>2, <3>3
  <2>2. CASE i \notin DOMAIN s.in
    BY <2>2
  <2> QED BY <2>1, <2>2
<1> QED
  BY <1>4, <1>5

\* The queries under way are the same.
LEMMA ListedSame ==
    ASSUME NEW s, NEW t, Listed(s), t.methods = s.methods, DOMAIN t.call = DOMAIN s.call,
           \A k \in DOMAIN s.call : /\ t.call[k].op = s.call[k].op
                                    /\ Undone(t, k) <=> Undone(s, k)
    PROVE  Listed(t)
BY DEF Listed

\* A call has been added, and its method if it queries mechanisms.
LEMMA ListedMore ==
    ASSUME NEW s, NEW t, Listed(s), s.methods \in Seq(Nat), NEW n \in Nat,
           DOMAIN s.call = 1..n, DOMAIN t.call = 1..n+1,
           \A k \in 1..n : t.call[k].op = s.call[k].op /\ (Undone(t, k) <=> Undone(s, k)),
           Undone(t, n + 1),
           t.methods = IF t.call[n + 1].op = "queryMechanisms" THEN Append(s.methods, n + 1)
                                                               ELSE s.methods
    PROVE  Listed(t)
<1>1. \A i \in DOMAIN s.methods : s.methods[i] \in 1..n
  BY DEF Listed
<1>2. CASE t.call[n + 1].op # "queryMechanisms"
  <2>1. t.methods = s.methods
    BY <1>2
  <2>2. ~In(n + 1, t.methods)
    <3>1. n + 1 \notin 1..n
      OBVIOUS
    <3> QED BY <1>1, <2>1, <3>1 DEF In
  <2>3. \A k \in 1..n+1 : k \in 1..n \/ k = n + 1
    OBVIOUS
  <2>4. \A k \in 1..n : k \in 1..n+1
    OBVIOUS
  <2> QED BY <1>1, <1>2, <2>1, <2>2, <2>3, <2>4 DEF Listed
<1>3. CASE t.call[n + 1].op = "queryMechanisms"
  <2> DEFINE q == Append(s.methods, n + 1)
             m == Len(s.methods)
  <2>1. t.methods = q
    BY <1>3
  <2>2. /\ m \in Nat /\ DOMAIN s.methods = 1..m /\ DOMAIN q = 1..m+1
        /\ \A i \in 1..m : q[i] = s.methods[i]
        /\ q[m + 1] = n + 1
    BY AppendFacts
  <2> HIDE DEF q, m
  <2>3. ASSUME NEW i \in DOMAIN q PROVE (i \in 1..m /\ q[i] = s.methods[i] /\ q[i] \in 1..n)
                                        \/ (i = m + 1 /\ q[i] = n + 1)
    BY <2>2, <1>1
  <2>4. ASSUME NEW i \in DOMAIN q, NEW j \in DOMAIN q, i < j PROVE q[i] < q[j]
    <3>1. i \in 1..m
      BY <2>2, <2>4
    <3>2. CASE j \in 1..m
      BY <2>2, <2>4, <3>1, <3>2 DEF Listed
    <3>3. CASE j = m + 1
      BY <2>2, <2>3, <1>1, <3>1, <3>3
    <3> QED BY <2>3, <3>2, <3>3
  <2>5. \A i \in DOMAIN q : q[i] \in DOMAIN t.call
    BY <2>3
  <2>6. ASSUME NEW k \in 1..n PROVE In(k, q) <=> In(k, s.methods)
    <3>1. ASSUME NEW i \in DOMAIN q, q[i] = k PROVE In(k, s.methods)
      BY SMTT(20), <2>2, <2>3, <3>1 DEF In
    <3>2. ASSUME NEW i \in DOMAIN s.methods, s.methods[i] = k PROVE In(k, q)
      BY SMTT(20), <2>2, <3>2 DEF In
    <3> QED BY <3>1, <3>2 DEF In
  <2>7. In(n + 1, q)
    BY <2>2 DEF In
  <2>8. ASSUME NEW k \in DOMAIN t.call
        PROVE  t.call[k].op = "queryMechanisms" /\ Undone(t, k) <=> In(k, t.methods)
    <3>1. CASE k \in 1..n
      BY <2>1, <2>6, <3>1 DEF Listed
    <3>2. CASE k = n + 1
      BY <1>3, <2>1, <2>7, <3>2
    <3> QED BY <3>1, <3>2
  <2> QED BY <2>1, <2>4, <2>5, <2>8 DEF Listed
<1> QED
  BY <1>2, <1>3

\* The earliest call has ended, and its method has been dequeued.
LEMMA ListedLess ==
    ASSUME NEW s, NEW t, Listed(s), s.methods \in Seq(Nat), NEW n \in Nat, NEW k \in 1..n,
           DOMAIN s.call = 1..n, DOMAIN t.call = 1..n,
           Undone(s, k), ~Undone(t, k), \A j \in 1..k-1 : ~Undone(s, j),
           \A j \in 1..n : /\ t.call[j].op = s.call[j].op
                           /\ j # k => (Undone(t, j) <=> Undone(s, j)),
           t.methods = IF s.call[k].op = "queryMechanisms" THEN Tail(s.methods)
                                                           ELSE s.methods
    PROVE  /\ Listed(t)
           /\ s.call[k].op = "queryMechanisms" => s.methods # <<>> /\ Head(s.methods) = k
<1>1. CASE s.call[k].op # "queryMechanisms"
  BY <1>1 DEF Listed
<1>2. CASE s.call[k].op = "queryMechanisms"
  <2> DEFINE q == Tail(s.methods)
             m == Len(s.methods)
  <2>1. PICK i \in DOMAIN s.methods : s.methods[i] = k
    BY <1>2 DEF Listed, In
  <2>2. /\ m \in Nat \ {0} /\ DOMAIN s.methods = 1..m /\ DOMAIN q = 1..m-1
        /\ \A j \in 1..m-1 : q[j] = s.methods[j + 1]
        /\ s.methods # <<>> /\ Head(s.methods) = s.methods[1]
        /\ 1 \in DOMAIN s.methods
    BY <2>1
  <2>3. t.methods = q
    BY <1>2
  <2> HIDE DEF q, m
  <2>4. \A j \in 1..m : s.methods[j] \in 1..n /\ Undone(s, s.methods[j])
    BY <2>2 DEF Listed, In
  <2>5. s.methods[1] = k
    <3>1. CASE i = 1
      BY <2>1, <3>1
    <3>2. CASE i # 1
      <4>1. s.methods[1] < s.methods[i]
        <5>1. i \in 1..m /\ 1 < i
          BY <2>1, <2>2, <3>2
        <5> QED BY <2>2, <5>1 DEF Listed
      <4>2. s.methods[1] \in 1..k-1
        BY <2>1, <2>2, <2>4, <4>1
      <4> QED BY <2>2, <2>4, <4>2
    <3> QED BY <3>1, <3>2
  <2>6. ASSUME NEW j \in 1..m-1
        PROVE  j + 1 \in 1..m /\ 1 < j + 1 /\ q[j] = s.methods[j + 1] /\ q[j] # k
    <3>1. j + 1 \in 1..m /\ 1 < j + 1 /\ 1 \in 1..m
      BY <2>2
    <3>2. s.methods[1] < s.methods[j + 1]
      BY <2>2, <3>1 DEF Listed
    <3> QED BY SMTT(20), <2>2, <2>4, <2>5, <3>1, <3>2
  <2>7. ASSUME NEW g \in DOMAIN q, NEW h \in DOMAIN q, g < h PROVE q[g] < q[h]
    <3>1. g \in 1..m-1 /\ h \in 1..m-1 /\ g + 1 < h + 1
      BY <2>2, <2>7
    <3>2. s.methods[g + 1] < s.methods[h + 1]
      BY <2>2, <2>6, <3>1 DEF Listed
    <3> QED BY <2>6, <3>1, <3>2
  <2>8. \A j \in DOMAIN q : q[j] \in DOMAIN t.call
    BY SMTT(20), <2>2, <2>4, <2>6
  <2>9. ~In(k, q)
    BY <2>2, <2>6 DEF In
  <2>10. ASSUME NEW j \in 1..n, j # k PROVE In(j, q) <=> In(j, s.methods)
    <3>1. ASSUME NEW g \in DOMAIN q, q[g] = j PROVE In(j, s.methods)
      BY <2>2, <2>6, <3>1 DEF In
    <3>2. ASSUME NEW g \in DOMAIN s.methods, s.methods[g] = j PROVE In(j, q)
      <4>1. g # 1
        BY <2>5, <2>10, <3>2
      <4>2. g - 1 \in 1..m-1 /\ (g - 1) + 1 = g
        BY <2>2, <4>1
      <4> QED BY <2>2, <3>2, <4>2 DEF In
    <3> QED BY <3>1, <3>2 DEF In
  <2>11. ASSUME NEW j \in DOMAIN t.call
         PROVE  t.call[j].op = "queryMechanisms" /\ Undone(t, j) <=> In(j, t.methods)
    <3>1. CASE j = k
      BY <2>3, <2>9, <3>1
    <3>2. CASE j # k
      BY <2>3, <2>10, <3>2 DEF Listed
    <3> QED BY <3>1, <3>2
  <2> QED BY <2>2, <2>3, <2>5, <2>7, <2>8, <2>11 DEF Listed
<1> QED
  BY <1>1, <1>2

-----------------------------------------------------------------------------
(* What the operators do for a service *)

\* What neither a call nor a proxy is
Standing(s, t) ==
    /\ t \in Library
    /\ t.kind = s.kind /\ t.methods = s.methods /\ t.up = s.up
    /\ t.online = s.online /\ t.service = s.service /\ t.starting = s.starting

LEMMA CallsStanding ==
    ASSUME NEW s \in Library, NEW v \in Seq(CallRecord)
    PROVE  LET t == [s EXCEPT !.call = v] IN
           /\ Standing(s, t) /\ t.call = v
           /\ t.proxy = s.proxy /\ t.out = s.out /\ t.in = s.in
BY DEF Library, Standing

LEMMA ProxyStanding ==
    ASSUME NEW s \in Library, NEW v \in Seq(ProxyRecord)
    PROVE  LET t == [s EXCEPT !.proxy = v] IN
           /\ Standing(s, t) /\ t.proxy = v
           /\ t.call = s.call /\ t.out = s.out /\ t.in = s.in
BY DEF Library, Standing

LEMMA OutStanding ==
    ASSUME NEW s \in Library, NEW v \in Seq(Nat)
    PROVE  LET t == [s EXCEPT !.out = v] IN
           /\ Standing(s, t) /\ t.out = v
           /\ t.call = s.call /\ t.proxy = s.proxy /\ t.in = s.in
BY DEF Library, Standing

LEMMA InStanding ==
    ASSUME NEW s \in Library, NEW v \in Seq(Event)
    PROVE  LET t == [s EXCEPT !.in = v] IN
           /\ Standing(s, t) /\ t.in = v
           /\ t.call = s.call /\ t.proxy = s.proxy /\ t.out = s.out
BY DEF Library, Standing

LEMMA StandingOn ==
    ASSUME NEW r, NEW s, NEW t, Standing(r, s), Standing(s, t) PROVE Standing(r, t)
BY DEF Standing

LEMMA DoCallStanding ==
    ASSUME NEW s \in Library, NEW k \in DOMAIN s.call, s.call[k].on \in DOMAIN s.proxy
    PROVE  LET t == doCall(s, k) IN
           /\ Standing(s, t) /\ t.proxy = s.proxy
           /\ t.call = [s.call EXCEPT ![k] = MadeCall(s, k)]
           /\ s.online => t.out = Append(s.out, k) /\ t.in = s.in
           /\ ~s.online => /\ t.out = s.out
                           /\ t.in = Append(s.in, Reply(k, "Disconnected", NoPath))
<1>1. k \in Nat /\ s.call[k] \in CallRecord /\ s.proxy[s.call[k].on].path \in Nat
  BY CallFields, ProxyFields
<1>2. MadeCall(s, k) \in CallRecord
  BY <1>1 DEF MadeCall, CallRecord
<1> DEFINE v == [s.call EXCEPT ![k] = MadeCall(s, k)]
           u == [s EXCEPT !.call = v]
           o == Append(s.out, k)
           i == Append(s.in, Reply(k, "Disconnected", NoPath))
<1>3. v \in Seq(CallRecord)
  BY <1>2, LibraryFields
<1>4. Reply(k, "Disconnected", NoPath) \in Event
  BY <1>1, ReplyIsEvent DEF Results, NoPath
<1>5. o \in Seq(Nat) /\ i \in Seq(Event)
  BY <1>1, <1>4, LibraryFields
<1>6. doCall(s, k) = IF s.online THEN [u EXCEPT !.out = Append(@, k)]
                                 ELSE [u EXCEPT !.in = Append(@, Reply(k, "Disconnected", NoPath))]
  BY DEF doCall, MadeCall, Library
<1> HIDE DEF v
<1>7. Standing(s, u) /\ u.call = v /\ u.proxy = s.proxy /\ u.out = s.out /\ u.in = s.in
  BY <1>3, CallsStanding
<1>8. doCall(s, k) = IF s.online THEN [u EXCEPT !.out = o] ELSE [u EXCEPT !.in = i]
  <2> HIDE DEF u
  <2> QED BY <1>6, <1>7
<1> HIDE DEF u, o, i
<1>9. /\ Standing(u, [u EXCEPT !.out = o]) /\ [u EXCEPT !.out = o].out = o
      /\ [u EXCEPT !.out = o].call = u.call /\ [u EXCEPT !.out = o].proxy = u.proxy
      /\ [u EXCEPT !.out = o].in = u.in
  BY <1>5, <1>7, OutStanding DEF Standing
<1>10. /\ Standing(u, [u EXCEPT !.in = i]) /\ [u EXCEPT !.in = i].in = i
       /\ [u EXCEPT !.in = i].call = u.call /\ [u EXCEPT !.in = i].proxy = u.proxy
       /\ [u EXCEPT !.in = i].out = u.out
  BY <1>5, <1>7, InStanding DEF Standing
<1> QED
  BY <1>7, <1>8, <1>9, <1>10, StandingOn DEF v, o, i

LEMMA WithCallStanding ==
    ASSUME NEW s \in Library, NEW op \in Ops
    PROVE  LET t == WithCall(s, Main, op)
               n == Len(s.call)
           IN  /\ Standing(s, t) /\ t.proxy = s.proxy /\ t.out = s.out /\ t.in = s.in
               /\ n \in Nat /\ DOMAIN s.call = 1..n /\ DOMAIN t.call = 1..n+1
               /\ Len(t.call) = n + 1
               /\ \A k \in 1..n : t.call[k] = s.call[k]
               /\ t.call[n + 1] = PendingCall(Main, op)
<1> DEFINE v == Append(s.call, PendingCall(Main, op))
<1>1. PendingCall(Main, op) \in CallRecord
  BY DEF PendingCall, CallRecord, NoPath, Main
<1>2. s.call \in Seq(CallRecord)
  BY LibraryFields
<1>3. /\ v \in Seq(CallRecord)
      /\ Len(s.call) \in Nat /\ DOMAIN s.call = 1..Len(s.call)
      /\ DOMAIN v = 1..Len(s.call)+1 /\ Len(v) = Len(s.call) + 1
      /\ \A k \in 1..Len(s.call) : v[k] = s.call[k]
      /\ v[Len(s.call) + 1] = PendingCall(Main, op)
  BY <1>1, <1>2, AppendFacts
<1>4. WithCall(s, Main, op) = [s EXCEPT !.call = v]
  BY DEF WithCall, Library
<1> HIDE DEF v
<1> QED
  BY <1>3, <1>4, CallsStanding

LEMMA MainStanding ==
    ASSUME NEW s \in Library, Len(s.proxy) = 1, NEW r \in ProxyRecord
    PROVE  LET t == [s EXCEPT !.proxy[Main] = r] IN
           /\ Standing(s, t) /\ t.call = s.call /\ t.out = s.out /\ t.in = s.in
           /\ Len(t.proxy) = 1 /\ t.proxy[Main] = r
<1> DEFINE v == [s.proxy EXCEPT ![Main] = r]
<1>1. s.proxy \in Seq(ProxyRecord) /\ Main \in DOMAIN s.proxy
  BY LibraryFields DEF Main
<1>2. v \in Seq(ProxyRecord) /\ Len(v) = 1 /\ v[Main] = r
  BY <1>1
<1>3. [s EXCEPT !.proxy[Main] = r] = [s EXCEPT !.proxy = v]
  BY DEF Library
<1> DEFINE t == [s EXCEPT !.proxy = v]
<1> HIDE DEF v
<1>4. /\ Standing(s, t) /\ t.proxy = v
      /\ t.call = s.call /\ t.out = s.out /\ t.in = s.in
  BY <1>2, ProxyStanding
<1> HIDE DEF t
<1>5. [s EXCEPT !.proxy[Main] = r] = t
  BY <1>3 DEF t
<1> QED
  BY <1>2, <1>4, <1>5

LEMMA OneProxy ==
    ASSUME NEW s, Len(s.proxy) = 1
    PROVE  connected(s) = setConnection(s, Main) /\ disconnected(s) = setDisconnected(s, Main)
<1>1. Len(s.proxy) \in Nat /\ 1 \in 1..Len(s.proxy) /\ 1 - 1 = 0
  OBVIOUS
<1>2. PICK did : /\ did[0] = s
                 /\ \A p \in 1..Len(s.proxy) : did[p] = setConnection(did[p - 1], p)
                 /\ connected(s) = did[Len(s.proxy)]
  BY <1>1, ConnectedLoop
<1>3. PICK dis : /\ dis[0] = s
                 /\ \A p \in 1..Len(s.proxy) : dis[p] = setDisconnected(dis[p - 1], p)
                 /\ disconnected(s) = dis[Len(s.proxy)]
  BY <1>1, DisconnectedLoop
<1> QED
  BY <1>1, <1>2, <1>3 DEF Main

-----------------------------------------------------------------------------
(* A service that has lost its path *)

Alike(s, t) ==
    /\ t \in Library
    /\ t.kind = s.kind /\ t.methods = s.methods
    /\ t.call = s.call /\ t.in = s.in /\ t.out = s.out

Forlorn(s) ==
    /\ s \in Library
    /\ Len(s.proxy) = 1 /\ s.proxy[Main].exists
    /\ s.proxy[Main].path = NoPath /\ s.proxy[Main].status = "Incomplete"

LEMMA LostServes ==
    ASSUME NEW s, NEW t, InService(s), Lost(s), Forlorn(t), Alike(s, t)
    PROVE  InService(t) /\ Lost(t)
<1>1. Lost(t)
  BY DEF Lost, Forlorn, Alike
<1>2. Simple(t)
  BY DEF InService, Simple, Forlorn, Alike
<1>3. \A i : Gone(t, i) <=> Gone(s, i)
  BY DEF Gone, Alike, Forlorn, Lost
<1>4. \A i : Abandoned(t, i) <=> Abandoned(s, i)
  BY <1>3 DEF Abandoned, Alike
<1>5. \A k : /\ Undone(t, k) <=> Undone(s, k)
             /\ Replied(t, k) <=> Replied(s, k)
             /\ \A i : ReplyTo(t, i, k) <=> ReplyTo(s, i, k)
  BY DEF Undone, Replied, ReplyTo, Alike
<1>6. Ordered(t)
  BY <1>4, <1>5 DEF InService, Ordered, Alike
<1>7. AbandonedLast(t)
  BY <1>4 DEF InService, AbandonedLast, Alike
<1>8. Underway(t) /\ Leaving(t)
  <2>1. \A i \in DOMAIN t.out : FALSE
    BY DEF Lost, Alike
  <2>2. Underway(t)
    BY <1>5 DEF InService, Underway, Alike, Lost, Forlorn
  <2> QED BY <2>1, <2>2 DEF Leaving
<1> QED
  BY <1>1, <1>2, <1>6, <1>7, <1>8 DEF InService

\* Without a path the proxy stays incomplete, connected or not.
LEMMA ForlornProxy ==
    ASSUME NEW s, Forlorn(s), NEW r \in ProxyRecord, r.exists, r.path = NoPath,
           r.status = "Incomplete"
    PROVE  LET t == [s EXCEPT !.proxy[Main] = r] IN
           /\ Forlorn(t) /\ Alike(s, t)
           /\ Forlorn(update(t, Main)) /\ Alike(s, update(t, Main))
<1> DEFINE t == [s EXCEPT !.proxy[Main] = r]
<1>1. s \in Library /\ Len(s.proxy) = 1
  BY DEF Forlorn
<1>2. /\ Standing(s, t) /\ t.call = s.call /\ t.out = s.out /\ t.in = s.in
      /\ Len(t.proxy) = 1 /\ t.proxy[Main] = r
  BY <1>1, MainStanding
<1> HIDE DEF t
<1>3. Forlorn(t) /\ Alike(s, t)
  BY <1>2 DEF Forlorn, Alike, Standing
<1>4. update(t, Main) = [t EXCEPT !.proxy[Main].status = "Incomplete"]
  BY <1>2 DEF update, Incomplete
<1>5. [t EXCEPT !.proxy[Main].status = "Incomplete"] = t
  BY <1>2 DEF Standing, Library, ProxyRecord
<1> QED
  BY <1>3, <1>4, <1>5 DEF t

LEMMA ForlornSlots ==
    ASSUME NEW s, Forlorn(s)
    PROVE  /\ Forlorn(connected(s)) /\ Alike(s, connected(s))
           /\ Forlorn(disconnected(s)) /\ Alike(s, disconnected(s))
<1> DEFINE con == [s.proxy[Main] EXCEPT !.conn = TRUE]
           dis == [s.proxy[Main] EXCEPT !.conn = FALSE, !.path = NoPath]
<1>1. /\ s \in Library /\ Len(s.proxy) = 1 /\ s.proxy[Main].exists
      /\ s.proxy[Main].path = NoPath /\ s.proxy[Main].status = "Incomplete"
  BY DEF Forlorn
<1>2. s.proxy[Main] \in ProxyRecord
  <2>1. Main \in DOMAIN s.proxy
    BY <1>1, LibraryFields DEF Main
  <2> QED BY <1>1, <2>1, ProxyFields
<1>3. con \in ProxyRecord /\ con.exists /\ con.path = NoPath /\ con.status = "Incomplete"
  BY <1>1, <1>2 DEF ProxyRecord
<1>4. dis \in ProxyRecord /\ dis.exists /\ dis.path = NoPath /\ dis.status = "Incomplete"
  BY <1>1, <1>2 DEF ProxyRecord, NoPath
<1>5. connected(s) = update([s EXCEPT !.proxy[Main] = con], Main)
  <2>1. [s EXCEPT !.proxy[Main].conn = TRUE] = [s EXCEPT !.proxy[Main] = con]
    BY <1>1 DEF Library
  <2> HIDE DEF con
  <2> QED BY <1>1, <2>1, OneProxy DEF setConnection
<1>6. disconnected(s) = update([s EXCEPT !.proxy[Main] = dis], Main)
  <2>1. [s EXCEPT !.proxy[Main] = [@ EXCEPT !.conn = FALSE, !.path = NoPath]]
          = [s EXCEPT !.proxy[Main] = dis]
    BY <1>1 DEF Library
  <2> HIDE DEF dis
  <2> QED BY <1>1, <2>1, OneProxy DEF setDisconnected
<1> HIDE DEF con, dis
<1>7. /\ Forlorn(update([s EXCEPT !.proxy[Main] = con], Main))
      /\ Alike(s, update([s EXCEPT !.proxy[Main] = con], Main))
  BY <1>3, ForlornProxy
<1>8. /\ Forlorn(update([s EXCEPT !.proxy[Main] = dis], Main))
      /\ Alike(s, update([s EXCEPT !.proxy[Main] = dis], Main))
  BY <1>4, ForlornProxy
<1> QED
  BY <1>5, <1>6, <1>7, <1>8

LEMMA AlikeOn ==
    ASSUME NEW r, NEW s, NEW t, Alike(r, s), Alike(s, t) PROVE Alike(r, t)
BY DEF Alike

LEMMA ForlornService ==
    ASSUME NEW s, Forlorn(s), NEW x \in {"unknown", "activating", "activated", "bus"}
    PROVE  LET t == [s EXCEPT !.service = x] IN Forlorn(t) /\ Alike(s, t)
BY DEF Forlorn, Alike, Library

LEMMA ForlornConnect ==
    ASSUME NEW s, Forlorn(s)
    PROVE  /\ Forlorn(init(s)) /\ Alike(s, init(s))
           /\ Forlorn(connect(s)) /\ Alike(s, connect(s))
<1> DEFINE a == [s EXCEPT !.service = "activating", !.starting = TRUE]
           b == [s EXCEPT !.service = "bus"]
           o == [s EXCEPT !.online = TRUE]
<1>1. /\ Forlorn(a) /\ Alike(s, a) /\ Forlorn(b) /\ Alike(s, b)
      /\ Forlorn(o) /\ Alike(s, o) /\ Alike(s, s)
  BY DEF Forlorn, Alike, Library
<1>2. init(s) \in {s, a, b, connected(o)}
  <2>1. setupSocketConnection(s) \in {"Ok", "Unavailable", "NoService"}
    BY DEF setupSocketConnection
  <2> HIDE DEF a, b, o
  <2>2. CASE s.service = "activating"
    BY <2>2 DEF init
  <2>3. CASE s.service # "activating" /\ setupSocketConnection(s) = "NoService"
    BY <2>3 DEF init, a
  <2>4. CASE s.service # "activating" /\ setupSocketConnection(s) = "Unavailable"
    BY <2>4 DEF init, b
  <2>5. CASE s.service # "activating" /\ setupSocketConnection(s) = "Ok"
    BY <2>5 DEF init, o
  <2> QED BY <2>1, <2>2, <2>3, <2>4, <2>5
<1> HIDE DEF a, b, o
<1>3. Forlorn(connected(o)) /\ Alike(s, connected(o))
  BY <1>1, ForlornSlots, AlikeOn
<1>4. Forlorn(init(s)) /\ Alike(s, init(s))
  BY <1>1, <1>2, <1>3
<1>5. connect(s) \in {connected(s), init(s)}
  BY DEF connect
<1> QED
  BY <1>4, <1>5, ForlornSlots

\* A call is queued, for good.
LEMMA EnqueueLost ==
    ASSUME NEW s, Simple(s), Forlorn(s), NEW k \in DOMAIN s.call
    PROVE  LET t == enqueueCall(s, k) IN
           /\ Forlorn(t) /\ t.kind = s.kind /\ t.methods = s.methods
           /\ t.in = s.in /\ t.out = s.out
           /\ t.call = [s.call EXCEPT ![k].state = "queued"]
<1> DEFINE p == s.call[k].on
           call == [s.call[k] EXCEPT !.state = "queued"]
           proxy == [s.proxy[Main] EXCEPT !.queue = Append(@, k)]
           v == [s.call EXCEPT ![k] = call]
           u == [s EXCEPT !.call = v]
           e == [u EXCEPT !.proxy[Main] = proxy]
<1>1. /\ s \in Library /\ Len(s.proxy) = 1 /\ s.proxy[Main].exists
      /\ s.proxy[Main].path = NoPath /\ s.proxy[Main].status = "Incomplete"
      /\ p = Main /\ s.kind = "service"
  BY DEF Forlorn, Simple
<1>2. /\ s.proxy[Main] \in ProxyRecord /\ s.call[k] \in CallRecord /\ k \in Nat
      /\ s.proxy[Main].queue \in Seq(Nat)
  <2>1. Main \in DOMAIN s.proxy
    BY <1>1, LibraryFields DEF Main
  <2> QED BY <1>1, <2>1, ProxyFields, CallFields
<1>3. call \in CallRecord
  BY <1>2 DEF CallRecord
<1>4. v \in Seq(CallRecord)
  <2>1. s.call \in Seq(CallRecord)
    BY <1>1, LibraryFields
  <2> HIDE DEF call
  <2> QED BY <1>3, <2>1
<1>5. /\ proxy \in ProxyRecord /\ proxy.exists /\ proxy.path = NoPath
      /\ proxy.status = "Incomplete"
  <2>1. Append(s.proxy[Main].queue, k) \in Seq(Nat)
    BY <1>2, AppendFacts
  <2> QED BY <1>1, <1>2, <2>1 DEF ProxyRecord
<1>6. v = [s.call EXCEPT ![k].state = "queued"]
  BY <1>2 DEF CallRecord
<1>7. [s EXCEPT !.proxy[p].queue = Append(@, k), !.call[k].state = "queued"] = e
  BY <1>1, <1>2 DEF Library, CallRecord, ProxyRecord
<1> HIDE DEF v, proxy
<1>8. Standing(s, u) /\ u.call = v /\ u.proxy = s.proxy /\ u.out = s.out /\ u.in = s.in
  BY <1>1, <1>4, CallsStanding
<1>9. Forlorn(u)
  BY <1>1, <1>8 DEF Forlorn, Standing
<1> HIDE DEF u
<1>10. Forlorn(e) /\ Alike(u, e)
  BY <1>5, <1>9, ForlornProxy
<1> HIDE DEF e
<1>11. enqueue(s, k) \in {e, connect(e)}
  BY <1>7 DEF enqueue
<1>12. Forlorn(enqueue(s, k)) /\ Alike(u, enqueue(s, k))
  BY <1>10, <1>11, ForlornConnect, AlikeOn
<1>13. enqueueCall(s, k) = enqueue(s, k)
  <2>1. enqueue(s, k).kind = "service"
    BY <1>1, <1>8, <1>12 DEF Alike, Standing
  <2> QED BY <2>1 DEF enqueueCall, objectPathNeeded
<1> QED
  BY <1>6, <1>8, <1>12, <1>13 DEF Alike, Standing

-----------------------------------------------------------------------------
(* A service that waits for a connection *)

\* The calls under way are the same.
Continues(s, t) ==
    /\ t \in Library
    /\ t.kind = s.kind /\ t.methods = s.methods
    /\ DOMAIN t.call = DOMAIN s.call
    /\ \A k \in DOMAIN s.call : /\ t.call[k].op = s.call[k].op
                                /\ Undone(t, k) <=> Undone(s, k)

LEMMA ContinuesOn ==
    ASSUME NEW r, NEW s, NEW t, Continues(r, s), Continues(s, t) PROVE Continues(r, t)
BY DEF Continues

\* What is made of a queue that holds every call
LEMMA MadeAll ==
    ASSUME NEW s \in Library, NEW N \in Nat, DOMAIN s.call = 1..N, Main \in DOMAIN s.proxy,
           \A k \in 1..N : s.call[k].on = Main, s.online, s.out = <<>>
    PROVE  LET t == doCalls(s, [k \in 1..N |-> k]) IN
           /\ Standing(s, t) /\ t.proxy = s.proxy /\ t.in = s.in
           /\ DOMAIN t.call = 1..N /\ DOMAIN t.out = 1..N
           /\ \A k \in 1..N : t.call[k] = MadeCall(s, k) /\ t.out[k] = k
<1> DEFINE queue == [k \in 1..N |-> k]
<1>1. queue \in Seq(Nat) /\ Len(queue) = N /\ \A k \in 1..N : queue[k] = k
  OBVIOUS
<1> HIDE DEF queue
<1>2. PICK did : /\ did[0] = s
                 /\ \A n \in 1..N : did[n] = doCall(did[n - 1], queue[n])
                 /\ doCalls(s, queue) = did[N]
  <2>1. PICK did : /\ did[0] = s
                   /\ \A n \in 1..Len(queue) : did[n] = doCall(did[n - 1], queue[n])
                   /\ doCalls(s, queue) = did[Len(queue)]
    BY <1>1, DoCallsLoop
  <2> QED BY <1>1, <2>1
<1> DEFINE Done(n, u) ==
             /\ Standing(s, u) /\ u.proxy = s.proxy /\ u.in = s.in
             /\ DOMAIN u.call = 1..N /\ DOMAIN u.out = 1..n /\ Len(u.out) = n
             /\ \A k \in 1..N : u.call[k] = IF k <= n THEN MadeCall(s, k) ELSE s.call[k]
             /\ \A k \in 1..n : u.out[k] = k
           S == {n \in 0..N : Done(n, did[n])}
<1>3. 0 \in S
  <2>1. Standing(s, s)
    BY DEF Standing
  <2>2. DOMAIN s.out = 1..0 /\ Len(s.out) = 0
    OBVIOUS
  <2>3. \A k \in 1..N : ~(k <= 0)
    OBVIOUS
  <2>4. \A k \in 1..0 : FALSE
    OBVIOUS
  <2>5. Done(0, s)
    BY <2>1, <2>2, <2>3, <2>4
  <2> HIDE DEF Done
  <2> QED BY <1>2, <2>5
<1>4. ASSUME NEW n \in 0..N, n \in S, n < N PROVE n + 1 \in S
  <2>1. n + 1 \in 1..N /\ (n + 1) - 1 = n /\ n + 1 \in 0..N
    BY <1>4
  <2> DEFINE u == did[n]
             w == did[n + 1]
  <2>2. w = doCall(u, n + 1)
    BY <1>1, <1>2, <2>1
  <2>3. Done(n, u)
    BY <1>4
  <2> HIDE DEF u, w
  <2>4. /\ u \in Library /\ n + 1 \in DOMAIN u.call /\ u.online
        /\ u.call[n + 1] = s.call[n + 1] /\ u.call[n + 1].on \in DOMAIN u.proxy
        /\ MadeCall(u, n + 1) = MadeCall(s, n + 1)
    <3>1. ~(n + 1 <= n) /\ u.proxy = s.proxy /\ DOMAIN u.call = 1..N
      BY <2>3
    <3>2. u.call[n + 1] = s.call[n + 1]
      BY <2>1, <2>3, <3>1
    <3> QED BY <2>1, <2>3, <3>1, <3>2 DEF Standing, MadeCall
  <2>5. /\ Standing(u, w) /\ w.proxy = u.proxy
        /\ w.call = [u.call EXCEPT ![n + 1] = MadeCall(u, n + 1)]
        /\ w.out = Append(u.out, n + 1) /\ w.in = u.in
    BY <2>2, <2>4, DoCallStanding
  <2>6. Standing(s, w)
    BY <2>3, <2>5, StandingOn
  <2>7. \A k \in 1..N : w.call[k] = IF k <= n + 1 THEN MadeCall(s, k) ELSE s.call[k]
    <3> TAKE k \in 1..N
    <3>1. CASE k = n + 1
      BY <2>3, <2>4, <2>5, <3>1
    <3>2. CASE k # n + 1
      BY <2>3, <2>5, <3>2
    <3> QED BY <3>1, <3>2
  <2>8. /\ DOMAIN w.out = 1..n+1 /\ Len(w.out) = n + 1
        /\ \A k \in 1..n+1 : w.out[k] = k
    <3>1. u.out \in Seq(Nat) /\ n + 1 \in Nat
      BY <2>4, LibraryFields
    <3>2. /\ DOMAIN w.out = 1..Len(u.out)+1 /\ Len(w.out) = Len(u.out) + 1
          /\ \A i \in 1..Len(u.out) : w.out[i] = u.out[i]
          /\ w.out[Len(u.out) + 1] = n + 1
      BY <2>5, <3>1, AppendFacts
    <3>3. \A k \in 1..n+1 : k \in 1..n \/ k = n + 1
      OBVIOUS
    <3> QED BY <2>3, <3>2, <3>3
  <2>9. Done(n + 1, w)
    BY <2>3, <2>5, <2>6, <2>7, <2>8
  <2> QED BY <2>1, <2>9 DEF w
<1> HIDE DEF S
<1>5. N \in S
  <2>1. 0..N \subseteq S
    BY <1>3, <1>4, Upward
  <2> QED BY <2>1
<1>6. Done(N, did[N])
  BY <1>5 DEF S
<1> QED
  BY <1>2, <1>6 DEF queue

LEMMA WaitingServes ==
    ASSUME NEW s, Simple(s), Waiting(s) PROVE InService(s)
<1>1. \A i \in DOMAIN s.in : ~IsReply(s.in[i])
  <2>1. ASSUME NEW i \in DOMAIN s.in PROVE s.in[i].type = "activated"
    BY DEF Waiting
  <2> QED BY <2>1 DEF IsReply
<1>2. Ordered(s) /\ AbandonedLast(s)
  BY <1>1 DEF Ordered, AbandonedLast
<1>3. Underway(s) /\ Leaving(s)
  BY DEF Underway, Leaving, Waiting
<1> QED
  BY <1>2, <1>3 DEF InService

\* The connection has been made: every call is sent, in order.
LEMMA WaitingConnected ==
    ASSUME NEW s, s \in Library, Simple(s), Waiting(s), ~s.starting, s.in = <<>>
    PROVE  LET t == connected([s EXCEPT !.online = TRUE])
           IN  InService(t) /\ Continues(s, t)
<1> DEFINE N == Len(s.call)
           o == [s EXCEPT !.online = TRUE]
           con == [s.proxy[Main] EXCEPT !.conn = TRUE]
           u == [o EXCEPT !.proxy[Main] = con]
           x == doCalls(u, [k \in 1..N |-> k])
           r == [x.proxy[Main] EXCEPT !.status = "Ready", !.queue = <<>>]
           t == connected(o)
<1>1. /\ Len(s.proxy) = 1 /\ s.proxy[Main].exists /\ s.kind = "service"
      /\ s.proxy[Main].path = DaemonPath /\ s.proxy[Main].status = "Incomplete"
      /\ s.proxy[Main].queue = [k \in 1..N |-> k] /\ s.out = <<>>
      /\ \A k \in DOMAIN s.call : s.call[k].on = Main /\ s.call[k].state = "queued"
  BY DEF Simple, Waiting
<1>2. N \in Nat /\ DOMAIN s.call = 1..N /\ Main \in DOMAIN s.proxy
  BY <1>1, LibraryFields DEF Main
<1> HIDE DEF N
<1>3. /\ o \in Library /\ o.kind = s.kind /\ o.methods = s.methods
      /\ o.online /\ o.starting = s.starting
      /\ o.proxy = s.proxy /\ o.call = s.call /\ o.in = s.in /\ o.out = s.out
  BY DEF Library
<1>4. con \in ProxyRecord /\ con.conn /\ con.exists = s.proxy[Main].exists
      /\ con.path = s.proxy[Main].path /\ con.status = s.proxy[Main].status
      /\ con.queue = s.proxy[Main].queue
  <2>1. s.proxy[Main] \in ProxyRecord
    BY <1>2, ProxyFields
  <2> QED BY <2>1 DEF ProxyRecord
<1>5. t = update(u, Main)
  <2>1. [o EXCEPT !.proxy[Main].conn = TRUE] = u
    BY <1>3 DEF Library
  <2> HIDE DEF u, o
  <2> QED BY <1>1, <1>3, <2>1, OneProxy DEF setConnection
<1> HIDE DEF o, con
<1>6. /\ Standing(o, u) /\ u.call = o.call /\ u.out = o.out /\ u.in = o.in
      /\ Len(u.proxy) = 1 /\ u.proxy[Main] = con
  BY <1>1, <1>3, <1>4, MainStanding
<1> HIDE DEF u
<1>7. t = [x EXCEPT !.proxy[Main] = [@ EXCEPT !.status = "Ready", !.queue = <<>>]]
  <2>1. u.online /\ u.proxy[Main].conn /\ u.proxy[Main].path # NoPath
        /\ u.proxy[Main].status # "Ready" /\ u.proxy[Main].queue = [k \in 1..N |-> k]
    BY <1>1, <1>3, <1>4, <1>6 DEF Standing, NoPath, DaemonPath
  <2>2. t = Ready(u, Main)
    BY <1>5, <2>1 DEF update
  <2> QED BY <2>1, <2>2 DEF Ready
<1>8. /\ Standing(u, x) /\ x.proxy = u.proxy /\ x.in = u.in
      /\ DOMAIN x.call = 1..N /\ DOMAIN x.out = 1..N
      /\ \A k \in 1..N : x.call[k] = MadeCall(u, k) /\ x.out[k] = k
  <2>1. u \in Library /\ u.online /\ DOMAIN u.call = 1..N /\ Main \in DOMAIN u.proxy
    BY <1>2, <1>3, <1>6, LibraryFields DEF Standing, Main
  <2>2. u.out = <<>> /\ \A k \in 1..N : u.call[k].on = Main
    BY <1>1, <1>2, <1>3, <1>6
  <2> QED BY <1>2, <2>1, <2>2, MadeAll
<1> HIDE DEF x
<1>9. r \in ProxyRecord /\ r.queue = <<>> /\ r.status = "Ready" /\ r.conn /\ r.exists
      /\ r.path = DaemonPath
  <2>1. x.proxy[Main] = con
    BY <1>6, <1>8
  <2>2. r \in ProxyRecord /\ r.queue = <<>>
    BY Zenon, <1>4, <2>1, ProxyEmptied
  <2> QED BY Zenon, <1>1, <1>4, <2>1, <2>2 DEF ProxyRecord
<1>10. t = [x EXCEPT !.proxy[Main] = r]
  BY <1>7, <1>8 DEF Standing, Library
<1> HIDE DEF r, t
<1>11. /\ Standing(x, t) /\ t.call = x.call /\ t.out = x.out /\ t.in = x.in
       /\ Len(t.proxy) = 1 /\ t.proxy[Main] = r
  <2>1. x \in Library /\ Len(x.proxy) = 1
    BY <1>6, <1>8 DEF Standing
  <2> QED BY <1>9, <1>10, <2>1, MainStanding
<1>12. ASSUME NEW k \in 1..N
       PROVE  /\ t.call[k].op = s.call[k].op /\ t.call[k].on = Main
              /\ t.call[k].state = "sent" /\ t.call[k].path = DaemonPath
              /\ ~t.call[k].lost /\ s.call[k].state = "queued"
              /\ t.out[k] = k
  <2>1. t.call[k] = MadeCall(u, k) /\ u.call[k] = s.call[k] /\ s.call[k] \in CallRecord
    BY <1>2, <1>3, <1>6, <1>8, <1>11, CallFields
  <2>2. s.call[k].on = Main /\ s.call[k].state = "queued" /\ u.proxy[Main].path = DaemonPath
    BY <1>1, <1>2, <1>4, <1>6
  <2>3. t.out[k] = k
    BY <1>8, <1>11
  <2>4. t.call[k] = [s.call[k] EXCEPT !.state = "sent", !.watched = TRUE, !.lost = FALSE,
                                      !.path = DaemonPath]
    BY <2>1, <2>2 DEF MadeCall
  <2> HIDE DEF t
  <2> QED BY <2>1, <2>2, <2>3, <2>4 DEF CallRecord
<1>13. /\ t \in Library /\ t.kind = s.kind /\ t.methods = s.methods /\ t.online
       /\ ~t.starting /\ t.in = <<>> /\ DOMAIN t.call = 1..N /\ DOMAIN t.out = 1..N
  BY <1>3, <1>6, <1>8, <1>11 DEF Standing
<1>14. Continues(s, t)
  BY <1>2, <1>12, <1>13 DEF Continues, Undone
<1>15. Simple(t)
  BY <1>1, <1>2, <1>9, <1>11, <1>12, <1>13 DEF Simple
<1>16. Connected(t)
  BY <1>9, <1>11, <1>12, <1>13 DEF Connected
<1>17. Ordered(t) /\ AbandonedLast(t)
  BY <1>13 DEF Ordered, AbandonedLast
<1>18. Underway(t)
  BY <1>9, <1>11, <1>12, <1>13 DEF Underway, In, DaemonPath, NoPath
<1>19. Leaving(t)
  <2>1. ASSUME NEW i \in 1..N, NEW k \in 1..i-1 PROVE k \in 1..N /\ t.out[k] = k
    BY <1>2, <1>12, <2>1
  <2> QED BY <1>12, <1>13, <2>1 DEF Leaving
<1> QED
  BY <1>14, <1>15, <1>16, <1>17, <1>18, <1>19 DEF InService, t, o

LEMMA InitWaiting ==
    ASSUME NEW s, s \in Library, Simple(s), Waiting(s)
    PROVE  InService(init(s)) /\ Continues(s, init(s))
<1> DEFINE a == [s EXCEPT !.service = "activating", !.starting = TRUE]
           b == [s EXCEPT !.service = "bus"]
           o == [s EXCEPT !.online = TRUE]
<1>1. CASE s.service = "activating"
  BY <1>1, WaitingServes DEF init, Continues
<1>2. CASE s.service # "activating"
  <2>1. s.in = <<>> /\ ~s.starting
    BY <1>2 DEF Waiting
  <2>2. /\ Simple(a) /\ Waiting(a) /\ Continues(s, a)
        /\ Simple(b) /\ Waiting(b) /\ Continues(s, b)
    BY <2>1 DEF Library, Simple, Waiting, Continues, Undone
  <2>3. setupSocketConnection(s) \in {"Ok", "Unavailable", "NoService"}
    BY DEF setupSocketConnection
  <2>4. InService(connected(o)) /\ Continues(s, connected(o))
    BY <2>1, WaitingConnected
  <2> HIDE DEF a, b, o
  <2>5. CASE setupSocketConnection(s) = "NoService"
    BY <1>2, <2>2, <2>5, WaitingServes DEF init, a
  <2>6. CASE setupSocketConnection(s) = "Unavailable"
    BY <1>2, <2>2, <2>6, WaitingServes DEF init, b
  <2>7. CASE setupSocketConnection(s) = "Ok"
    BY <1>2, <2>4, <2>7 DEF init, o
  <2> QED BY <2>3, <2>5, <2>6, <2>7
<1> QED
  BY <1>1, <1>2

-----------------------------------------------------------------------------
(* A service makes a call *)

\* One call more is under way.
OneMore(s, t, op) ==
    LET n == Len(s.call)
    IN  /\ t \in Library
        /\ t.kind = s.kind /\ t.methods = s.methods
        /\ n \in Nat /\ DOMAIN s.call = 1..n /\ DOMAIN t.call = 1..n+1
        /\ \A k \in 1..n : /\ t.call[k].op = s.call[k].op
                           /\ Undone(t, k) <=> Undone(s, k)
        /\ t.call[n + 1].op = op /\ Undone(t, n + 1)

LEMMA OneMoreContinues ==
    ASSUME NEW s, NEW t, NEW u, NEW op, OneMore(s, t, op), Continues(t, u)
    PROVE  OneMore(s, u, op)
<1> DEFINE n == Len(s.call)
<1>1. n \in Nat /\ n + 1 \in 1..n+1 /\ \A k \in 1..n : k \in 1..n+1
  BY DEF OneMore
<1> HIDE DEF n
<1> QED
  BY <1>1 DEF OneMore, Continues, n

LEMMA WithCallMore ==
    ASSUME NEW s \in Library, NEW op \in ServiceOps, Simple(s)
    PROVE  LET t == WithCall(s, Main, op) IN OneMore(s, t, op) /\ Simple(t)
<1> DEFINE t == WithCall(s, Main, op)
           n == Len(s.call)
<1>1. /\ Standing(s, t) /\ t.proxy = s.proxy /\ t.out = s.out /\ t.in = s.in
      /\ n \in Nat /\ DOMAIN s.call = 1..n /\ DOMAIN t.call = 1..n+1
      /\ \A k \in 1..n : t.call[k] = s.call[k]
      /\ t.call[n + 1] = PendingCall(Main, op)
  <2>1. op \in Ops
    BY DEF ServiceOps, Ops
  <2> QED BY <2>1, WithCallStanding
<1> HIDE DEF t
<1>2. OneMore(s, t, op)
  <2> HIDE DEF n
  <2> QED BY <1>1 DEF OneMore, Standing, Undone, PendingCall, n
<1>3. \A k \in 1..n+1 : k \in 1..n \/ k = n + 1
  BY <1>1
<1> HIDE DEF n
<1>4. Simple(t)
  BY <1>1, <1>3 DEF Simple, Standing, PendingCall
<1> QED
  BY <1>2, <1>4 DEF t

\* What has arrived and what leaves is about the calls made before.
LEMMA EarlierKept ==
    ASSUME NEW s, NEW W, NEW C, Placed(s, 0, W, C), NEW t, NEW n \in Nat,
           DOMAIN s.call = 1..n, Ordered(s), AbandonedLast(s),
           t.proxy[Main].path = s.proxy[Main].path, t.in = s.in,
           \A k \in 1..n : Undone(t, k) => Undone(s, k)
    PROVE  /\ Ordered(t) /\ AbandonedLast(t)
           /\ \A i \in DOMAIN s.in : IsReply(s.in[i]) =>
                 s.in[i].call \in 1..n /\ \A k \in 1..s.in[i].call-1 : k \in 1..n
           /\ \A i \in DOMAIN s.out :
                 s.out[i] \in 1..n /\ \A k \in 1..s.out[i]-1 : k \in 1..n
           /\ \A k : Replied(t, k) <=> Replied(s, k)
<1>1. ASSUME NEW i \in DOMAIN s.in, IsReply(s.in[i])
      PROVE  s.in[i].call \in 1..n /\ \A k \in 1..s.in[i].call-1 : k \in 1..n
  <2>1. s.in[i].call \in 1..n
    BY <1>1 DEF Placed, Incoming
  <2> QED BY <2>1
<1>2. ASSUME NEW i \in DOMAIN s.out
      PROVE  s.out[i] \in 1..n /\ \A k \in 1..s.out[i]-1 : k \in 1..n
  <2>1. s.out[i] \in 1..n
    BY <1>2 DEF Placed, Outgoing
  <2> QED BY <2>1
<1>3. \A i, k : ReplyTo(t, i, k) <=> ReplyTo(s, i, k)
  BY DEF ReplyTo
<1>4. \A i : Abandoned(t, i) <=> Abandoned(s, i)
  BY DEF Abandoned, Gone
<1>5. Ordered(t) /\ AbandonedLast(t)
  BY <1>1, <1>3, <1>4 DEF Ordered, AbandonedLast
<1> QED
  BY <1>1, <1>2, <1>3, <1>5 DEF Replied

LEMMA QueueWaiting ==
    ASSUME NEW s, InService(s), Waiting(s), s \in Library, NEW op \in ServiceOps
    PROVE  InService(queueCall(s, op)) /\ OneMore(s, queueCall(s, op), op)
<1> DEFINE n == Len(s.call)
           u == WithCall(s, Main, op)
           q == [k \in 1..n+1 |-> k]
           r == [u.proxy[Main] EXCEPT !.queue = q]
           e == [u EXCEPT !.proxy[Main] = r]
<1>1. /\ Standing(s, u) /\ u.proxy = s.proxy /\ u.out = s.out /\ u.in = s.in
      /\ n \in Nat /\ DOMAIN s.call = 1..n /\ DOMAIN u.call = 1..n+1 /\ Len(u.call) = n + 1
      /\ \A k \in 1..n : u.call[k] = s.call[k]
      /\ u.call[n + 1] = PendingCall(Main, op)
  <2>1. op \in Ops
    BY DEF ServiceOps, Ops
  <2> QED BY <2>1, WithCallStanding
<1>2. OneMore(s, u, op) /\ Simple(u)
  BY WithCallMore DEF InService
<1>3. queueCall(s, op) = enqueueCall(u, n + 1)
  BY DEF queueCall, WithCall, Waiting
<1> HIDE DEF u
<1>4. /\ s.proxy[Main].queue = [k \in 1..n |-> k] /\ s.proxy[Main].exists
      /\ s.proxy[Main].path = DaemonPath /\ s.proxy[Main].status = "Incomplete"
      /\ ~s.proxy[Main].conn /\ Len(s.proxy) = 1 /\ ~s.online /\ s.kind = "service"
      /\ \A k \in 1..n : s.call[k].state = "queued"
  BY <1>1 DEF Waiting, InService, Simple
<1>5. Append([k \in 1..n |-> k], n + 1) = q /\ q \in Seq(Nat)
  BY <1>1
<1> HIDE DEF q
<1>6. s.proxy[Main] \in ProxyRecord /\ u.call[n + 1] \in CallRecord /\ u \in Library
  <2>1. Main \in DOMAIN s.proxy
    BY <1>4, LibraryFields DEF Main
  <2>2. u \in Library /\ n + 1 \in DOMAIN u.call
    BY <1>1 DEF Standing
  <2> QED BY <2>1, <2>2, ProxyFields, CallFields
<1>7. r \in ProxyRecord /\ r.queue = q /\ r.exists /\ r.path = DaemonPath
      /\ r.status = "Incomplete" /\ ~r.conn
  BY <1>1, <1>4, <1>5, <1>6 DEF ProxyRecord
<1>8. [u EXCEPT !.proxy[u.call[n + 1].on].queue = Append(@, n + 1),
                !.call[n + 1].state = "queued"] = e
  <2>1. u.call[n + 1].on = Main /\ u.call[n + 1].state = "queued"
    BY <1>1 DEF PendingCall
  <2>2. [u.call EXCEPT ![n + 1].state = "queued"] = u.call
    <3>1. [u.call[n + 1] EXCEPT !.state = "queued"] = u.call[n + 1]
      BY <1>6, <2>1 DEF CallRecord
    <3>2. u.call \in Seq(CallRecord)
      BY <1>6, LibraryFields
    <3> QED BY <3>1, <3>2
  <2>3. [u.proxy EXCEPT ![Main].queue = Append(@, n + 1)] = [u.proxy EXCEPT ![Main] = r]
    BY <1>1, <1>4, <1>5, <1>6 DEF ProxyRecord
  <2>4. [u EXCEPT !.proxy[u.call[n + 1].on].queue = Append(@, n + 1),
                  !.call[n + 1].state = "queued"]
          = [u EXCEPT !.proxy = [u.proxy EXCEPT ![Main].queue = Append(@, n + 1)],
                      !.call = [u.call EXCEPT ![n + 1].state = "queued"]]
    BY <1>6, <2>1 DEF Library
  <2>5. e = [u EXCEPT !.proxy = [u.proxy EXCEPT ![Main] = r], !.call = u.call]
    BY <1>6 DEF Library
  <2> QED BY <2>2, <2>3, <2>4, <2>5
<1> HIDE DEF r
<1>9. /\ Standing(u, e) /\ e.call = u.call /\ e.out = u.out /\ e.in = u.in
      /\ Len(e.proxy) = 1 /\ e.proxy[Main] = r
  <2>1. Len(u.proxy) = 1
    BY <1>1, <1>4
  <2> QED BY <1>6, <1>7, <2>1, MainStanding
<1> HIDE DEF e
<1>10. Continues(u, e) /\ Simple(e) /\ e \in Library
  BY <1>2, <1>7, <1>9 DEF Standing, Continues, Simple, Undone
<1>11. Waiting(e)
  <2>1. \A k \in DOMAIN e.call : e.call[k].state = "queued"
    <3>1. \A k \in 1..n+1 : k \in 1..n \/ k = n + 1
      BY <1>1
    <3> QED BY <1>1, <1>4, <1>9, <3>1 DEF PendingCall
  <2>2. e.proxy[Main].queue = [k \in 1..Len(e.call) |-> k]
    BY <1>1, <1>7, <1>9 DEF q
  <2>3. e.online = s.online /\ e.starting = s.starting /\ e.service = s.service
        /\ e.in = s.in /\ e.out = s.out
    BY <1>1, <1>9 DEF Standing
  <2> QED BY <1>7, <1>9, <2>1, <2>2, <2>3 DEF Waiting
<1>12. InService(init(e)) /\ Continues(e, init(e))
  BY <1>10, <1>11, InitWaiting
<1>13. enqueue(u, n + 1) = init(e)
  <2>1. u.call[n + 1].on = Main /\ ~u.proxy[Main].conn /\ ~e.online
    BY <1>1, <1>4, <1>9 DEF PendingCall, Standing
  <2> QED BY <1>8, <2>1 DEF enqueue, connect
<1>14. enqueueCall(u, n + 1) = init(e)
  <2>1. init(e).kind = "service"
    BY <1>10, <1>12 DEF Continues, Simple
  <2> QED BY <1>13, <2>1 DEF enqueueCall, objectPathNeeded
<1> QED
  BY <1>2, <1>3, <1>10, <1>12, <1>14, OneMoreContinues, ContinuesOn

LEMMA QueueLost ==
    ASSUME NEW s, NEW W, NEW C, Placed(s, 0, W, C), InService(s), Lost(s),
           NEW op \in ServiceOps
    PROVE  InService(queueCall(s, op)) /\ OneMore(s, queueCall(s, op), op)
<1> DEFINE n == Len(s.call)
           u == WithCall(s, Main, op)
           t == queueCall(s, op)
<1>1. s \in Library
  BY DEF Placed
<1>2. /\ Standing(s, u) /\ u.proxy = s.proxy /\ u.out = s.out /\ u.in = s.in
      /\ n \in Nat /\ DOMAIN s.call = 1..n /\ DOMAIN u.call = 1..n+1
      /\ \A k \in 1..n : u.call[k] = s.call[k]
      /\ u.call[n + 1] = PendingCall(Main, op)
  <2>1. op \in Ops
    BY DEF ServiceOps, Ops
  <2> QED BY <1>1, <2>1, WithCallStanding
<1>3. OneMore(s, u, op) /\ Simple(u)
  BY <1>1, WithCallMore DEF InService
<1>4. t = enqueueCall(u, n + 1)
  BY DEF queueCall, WithCall, Lost
<1> HIDE DEF u, n, t
<1>5. Forlorn(u) /\ Lost(u)
  BY <1>2, <1>3 DEF Forlorn, Lost, Simple, Standing
<1>6. Ordered(u) /\ AbandonedLast(u) /\ \A k : Replied(u, k) <=> Replied(s, k)
  <2>1. \A k \in 1..n : Undone(u, k) => Undone(s, k)
    BY <1>2 DEF Undone
  <2>2. /\ Ordered(s) /\ AbandonedLast(s) /\ n \in Nat /\ DOMAIN s.call = 1..n
        /\ u.in = s.in /\ u.proxy[Main].path = s.proxy[Main].path
    BY <1>2 DEF InService
  <2> QED BY <2>1, <2>2, EarlierKept
<1>7. Underway(u)
  <2>1. \A k \in DOMAIN u.call : k \in 1..n \/ k = n + 1
    BY <1>2
  <2>2. ASSUME NEW k \in DOMAIN u.call, u.call[k].state = "sent"
        PROVE  k \in DOMAIN s.call /\ u.call[k] = s.call[k]
    BY <1>2, <2>1, <2>2 DEF PendingCall
  <2> QED BY <1>2, <1>6, <2>2 DEF InService, Underway
<1>8. Leaving(u)
  BY <1>5 DEF Leaving, Lost
<1>9. InService(u)
  BY <1>3, <1>5, <1>6, <1>7, <1>8 DEF InService
<1>10. n + 1 \in DOMAIN u.call
  BY <1>2
<1>11. /\ Forlorn(t) /\ t.kind = u.kind /\ t.methods = u.methods
       /\ t.in = u.in /\ t.out = u.out
       /\ t.call = [u.call EXCEPT ![n + 1].state = "queued"]
  BY <1>3, <1>4, <1>5, <1>10, EnqueueLost
<1>12. t.call = u.call
  <2>1. u.call[n + 1] \in CallRecord /\ u.call[n + 1].state = "queued"
        /\ u.call \in Seq(CallRecord)
    BY <1>2, <1>5, <1>10, CallFields, LibraryFields DEF Forlorn, PendingCall
  <2>2. [u.call[n + 1] EXCEPT !.state = "queued"] = u.call[n + 1]
    BY <2>1 DEF CallRecord
  <2> QED BY <1>11, <2>1, <2>2
<1>13. Alike(u, t)
  BY <1>11, <1>12 DEF Alike, Forlorn
<1>14. InService(t)
  BY <1>5, <1>9, <1>11, <1>13, LostServes
<1>15. Continues(u, t)
  BY <1>13 DEF Alike, Continues, Undone
<1> QED
  BY <1>3, <1>14, <1>15, OneMoreContinues DEF t

LEMMA AppendConcat ==
    ASSUME NEW S, NEW q \in Seq(S), NEW e \in S
    PROVE  <<e>> \in Seq(S) /\ Append(q, e) = q \o <<e>>
OBVIOUS

LEMMA EventTypes ==
    ASSUME NEW k, NEW result, NEW path
    PROVE  /\ Reply(k, result, path).type = "reply"
           /\ Reply(k, result, path).call = k /\ Reply(k, result, path).result = result
BY DEF Reply

LEMMA QueueConnected ==
    ASSUME NEW s, NEW W, NEW C, Placed(s, 0, W, C), InService(s), Connected(s),
           NEW op \in ServiceOps
    PROVE  InService(queueCall(s, op)) /\ OneMore(s, queueCall(s, op), op)
<1> DEFINE n == Len(s.call)
           u == WithCall(s, Main, op)
           t == queueCall(s, op)
           e == Reply(n + 1, "Disconnected", NoPath)
<1>1. s \in Library
  BY DEF Placed
<1>2. /\ Standing(s, u) /\ u.proxy = s.proxy /\ u.out = s.out /\ u.in = s.in
      /\ n \in Nat /\ DOMAIN s.call = 1..n /\ DOMAIN u.call = 1..n+1
      /\ \A k \in 1..n : u.call[k] = s.call[k]
      /\ u.call[n + 1] = PendingCall(Main, op)
  <2>1. op \in Ops
    BY DEF ServiceOps, Ops
  <2> QED BY <1>1, <2>1, WithCallStanding
<1>3. OneMore(s, u, op) /\ Simple(u)
  BY <1>1, WithCallMore DEF InService
<1>4. t = doCall(u, n + 1)
  BY DEF queueCall, WithCall, Connected
<1> HIDE DEF u, n, t
<1>5. /\ Len(s.proxy) = 1 /\ s.proxy[Main].path = DaemonPath
      /\ u \in Library /\ n + 1 \in DOMAIN u.call
      /\ u.call[n + 1].on = Main /\ u.call[n + 1].op = op /\ u.call[n + 1].on \in DOMAIN u.proxy
  BY <1>2, LibraryFields DEF InService, Simple, Connected, Standing, PendingCall, Main
<1>6. /\ Standing(u, t) /\ t.proxy = u.proxy
      /\ t.call = [u.call EXCEPT ![n + 1] = MadeCall(u, n + 1)]
      /\ u.online => t.out = Append(u.out, n + 1) /\ t.in = u.in
      /\ ~u.online => t.out = u.out /\ t.in = Append(u.in, e)
  BY <1>4, <1>5, DoCallStanding
<1>7. /\ DOMAIN t.call = 1..n+1 /\ \A k \in 1..n : t.call[k] = s.call[k]
      /\ t.call[n + 1].state = "sent" /\ ~t.call[n + 1].lost /\ t.call[n + 1].op = op
      /\ t.call[n + 1].on = Main /\ t.call[n + 1].path = DaemonPath
  <2>1. u.call[n + 1] \in CallRecord
    BY <1>5, CallFields
  <2>2. MadeCall(u, n + 1) = [u.call[n + 1] EXCEPT !.state = "sent", !.watched = TRUE,
                                                   !.lost = FALSE, !.path = DaemonPath]
    BY <1>2, <1>5 DEF MadeCall
  <2>3. \A k \in 1..n : k \in 1..n+1 /\ k # n + 1
    BY <1>2
  <2>4. t.call[n + 1] = MadeCall(u, n + 1) /\ \A k \in 1..n : t.call[k] = s.call[k]
    BY <1>2, <1>5, <1>6, <2>3
  <2>5. DOMAIN t.call = 1..n+1
    BY <1>2, <1>6
  <2>6. /\ MadeCall(u, n + 1).state = "sent" /\ ~MadeCall(u, n + 1).lost
        /\ MadeCall(u, n + 1).op = u.call[n + 1].op /\ MadeCall(u, n + 1).on = u.call[n + 1].on
        /\ MadeCall(u, n + 1).path = DaemonPath
    BY <2>1, <2>2 DEF CallRecord
  <2> QED BY <1>5, <2>4, <2>5, <2>6
<1>8. \A k \in 1..n+1 : k \in 1..n \/ k = n + 1
  BY <1>2
<1>9. Continues(u, t)
  BY <1>2, <1>5, <1>6, <1>7, <1>8 DEF Continues, Standing, Undone, PendingCall
<1>10. OneMore(s, t, op)
  BY <1>3, <1>9, OneMoreContinues
<1>11. /\ \A k \in 1..n : Undone(t, k) <=> Undone(s, k)
       /\ t.proxy = s.proxy /\ t.online = s.online /\ t.starting = s.starting
       /\ t.kind = s.kind
  BY <1>2, <1>6, <1>7 DEF Undone, Standing
<1>12. /\ \A i \in DOMAIN s.in : IsReply(s.in[i]) =>
             s.in[i].call \in 1..n /\ \A k \in 1..s.in[i].call-1 : k \in 1..n
       /\ \A i \in DOMAIN s.out :
             s.out[i] \in 1..n /\ \A k \in 1..s.out[i]-1 : k \in 1..n
  BY <1>2, EarlierKept DEF InService
<1>13. s.in \in Seq(Event) /\ s.out \in Seq(Nat) /\ n + 1 \in Nat
  BY <1>1, <1>2, LibraryFields
<1>14. CASE s.online
  <2>1. t.out = Append(s.out, n + 1) /\ t.in = s.in
    BY <1>2, <1>6, <1>14 DEF Standing
  <2> DEFINE m == Len(s.out)
  <2>2. /\ m \in Nat /\ DOMAIN s.out = 1..m /\ DOMAIN t.out = 1..m+1
        /\ \A i \in 1..m : t.out[i] = s.out[i]
        /\ t.out[m + 1] = n + 1
    BY <1>13, <2>1, AppendFacts
  <2> HIDE DEF m
  <2>3. Ordered(t) /\ AbandonedLast(t) /\ \A k : Replied(t, k) <=> Replied(s, k)
    BY <1>2, <1>11, <2>1, EarlierKept DEF InService
  <2>4. Simple(t)
    <3>1. \A k \in DOMAIN t.call : t.call[k].on = Main /\ t.call[k].op \in ServiceOps
                                   /\ t.call[k].state # "failing"
      BY <1>2, <1>7, <1>8 DEF InService, Simple
    <3> QED BY <1>11, <2>1, <3>1 DEF InService, Simple
  <2>5. Connected(t)
    <3>1. \A k \in DOMAIN t.call : t.call[k].state # "queued"
      BY <1>2, <1>7, <1>8 DEF Connected
    <3>2. \A k \in DOMAIN t.call : t.call[k].state = "sent" => t.call[k].path = DaemonPath
      BY <1>2, <1>7, <1>8 DEF Connected
    <3> QED BY <1>11, <1>14, <2>1, <3>1, <3>2 DEF Connected
  <2>6. Underway(t)
    <3>1. ASSUME NEW k \in 1..n, t.call[k].state = "sent"
          PROVE  /\ In(k, t.out) \/ Replied(t, k)
                 /\ t.call[k].lost <=> t.proxy[Main].path = NoPath
      <4>1. /\ In(k, s.out) \/ Replied(s, k)
            /\ s.call[k].lost <=> s.proxy[Main].path = NoPath
        BY <1>2, <1>7, <3>1 DEF InService, Underway
      <4>2. In(k, s.out) => In(k, t.out)
        BY <2>2 DEF In
      <4> QED BY <1>7, <1>11, <2>3, <4>1, <4>2
    <3>2. In(n + 1, t.out)
      BY <2>2 DEF In
    <3> QED BY <1>5, <1>7, <1>8, <1>11, <3>1, <3>2 DEF Underway, NoPath, DaemonPath
  <2>7. Leaving(t)
    <3> SUFFICES ASSUME NEW i \in DOMAIN t.out, NEW k \in 1..t.out[i]-1, Undone(t, k)
                 PROVE  Replied(t, k) \/ \E h \in 1..i-1 : t.out[h] = k
      BY DEF Leaving
    <3>1. CASE i \in 1..m
      <4>1. k \in 1..s.out[i]-1 /\ i \in DOMAIN s.out /\ k \in 1..n
        BY <1>12, <2>2, <3>1
      <4>2. Replied(s, k) \/ \E h \in 1..i-1 : s.out[h] = k
        BY <1>11, <4>1 DEF InService, Leaving
      <4>3. \A h \in 1..i-1 : h \in 1..m
        BY <2>2, <3>1
      <4> QED BY <2>2, <2>3, <4>2, <4>3
    <3>2. CASE i = m + 1
      <4>1. k \in 1..n
        BY <1>2, <2>2, <3>2
      <4>2. s.call[k].state = "sent"
        <5>1. s.call[k].state \in {"queued", "sent", "failing", "done"}
          BY <1>1, <1>2, <4>1, CallFields
        <5>2. s.call[k].state # "failing" /\ s.call[k].state # "queued"
          BY <1>2, <4>1 DEF InService, Simple, Connected
        <5> QED BY <1>11, <4>1, <5>1, <5>2 DEF Undone
      <4>3. In(k, s.out) \/ Replied(s, k)
        BY <1>2, <4>1, <4>2 DEF InService, Underway
      <4>4. ASSUME NEW h \in DOMAIN s.out, s.out[h] = k PROVE h \in 1..i-1 /\ t.out[h] = k
        BY <2>2, <3>2, <4>4
      <4> QED BY <2>3, <4>3, <4>4 DEF In
    <3> QED BY <2>2, <3>1, <3>2
  <2> QED BY <1>10, <2>3, <2>4, <2>5, <2>6, <2>7 DEF InService, t
<1>15. CASE ~s.online
  <2>1. t.out = s.out /\ t.in = Append(s.in, e)
    BY <1>2, <1>6, <1>15 DEF Standing
  <2>2. s.out = <<>>
    BY <1>15 DEF Connected
  <2> DEFINE m == Len(s.in)
  <2>3. e \in Event
    BY <1>13, ReplyIsEvent DEF Results, NoPath
  <2>4. e.type = "reply" /\ e.call = n + 1 /\ e.result = "Disconnected"
    BY EventTypes
  <2> HIDE DEF e
  <2>5. /\ m \in Nat /\ DOMAIN s.in = 1..m /\ DOMAIN t.in = 1..m+1
        /\ \A i \in 1..m : t.in[i] = s.in[i]
        /\ t.in[m + 1] = e
    BY <1>13, <2>1, <2>3, AppendFacts
  <2>6. <<e>> \in Seq(Event) /\ t.in = s.in \o <<e>>
    BY <1>13, <2>1, <2>3, AppendConcat
  <2> HIDE DEF m
  <2>7. PICK g \in 1..m : s.in[g].type = "disconnected"
    BY <1>15, <2>5 DEF Connected
  <2>8. Abandoned(t, m + 1)
    <3>1. g \in 1..(m + 1) - 1
      BY <2>5
    <3>2. t.in[g].type = "disconnected"
      BY <2>5, <2>7
    <3> QED BY <2>4, <2>5, <3>1, <3>2 DEF Abandoned, Gone, IsReply, RetryErrors
  <2>9. \A i \in DOMAIN t.in \ DOMAIN s.in : i = m + 1
    BY <2>5
  <2>10. \A i \in DOMAIN s.in : IsReply(s.in[i]) =>
            \A k \in 1..s.in[i].call-1 : Undone(t, k) => Undone(s, k)
    BY <1>11, <1>12
  <2>11. Ordered(t) /\ AbandonedLast(t)
    BY <1>11, <1>13, <2>6, <2>8, <2>9, <2>10, Lengthened DEF InService
  <2>12. \A i \in DOMAIN t.in : i \in 1..m \/ i = m + 1
    BY <2>5
  <2>13. Simple(t)
    <3>1. \A k \in DOMAIN t.call : t.call[k].on = Main /\ t.call[k].op \in ServiceOps
                                   /\ t.call[k].state # "failing"
      BY <1>2, <1>7, <1>8 DEF InService, Simple
    <3>2. \A i \in DOMAIN t.in : t.in[i].type \in {"reply", "disconnected", "activated"}
      BY <2>4, <2>5, <2>12 DEF InService, Simple
    <3> QED BY <1>11, <3>1, <3>2 DEF InService, Simple
  <2>14. Connected(t)
    <3>1. \A k \in DOMAIN t.call : t.call[k].state # "queued"
      BY <1>2, <1>7, <1>8 DEF Connected
    <3>2. \A k \in DOMAIN t.call : t.call[k].state = "sent" => t.call[k].path = DaemonPath
      BY <1>2, <1>7, <1>8 DEF Connected
    <3>3. \A i \in DOMAIN t.in : t.in[i].type # "activated"
      BY <2>4, <2>5, <2>12 DEF Connected
    <3>4. g \in DOMAIN t.in /\ t.in[g].type = "disconnected"
      BY <2>5, <2>7
    <3> QED BY <1>11, <1>15, <2>1, <3>1, <3>2, <3>3, <3>4 DEF Connected
  <2>15. Underway(t)
    <3>1. ASSUME NEW k \in 1..n, t.call[k].state = "sent"
          PROVE  /\ In(k, t.out) \/ Replied(t, k)
                 /\ t.call[k].lost <=> t.proxy[Main].path = NoPath
      <4>1. /\ In(k, s.out) \/ Replied(s, k)
            /\ s.call[k].lost <=> s.proxy[Main].path = NoPath
        BY <1>2, <1>7, <3>1 DEF InService, Underway
      <4>2. Replied(s, k) => Replied(t, k)
        BY <2>5 DEF Replied, ReplyTo
      <4> QED BY <1>7, <1>11, <2>1, <4>1, <4>2
    <3>2. Replied(t, n + 1)
      <4>1. m + 1 \in DOMAIN t.in /\ ReplyTo(t, m + 1, n + 1)
        BY <2>4, <2>5 DEF ReplyTo, IsReply
      <4> QED BY <4>1 DEF Replied
    <3> QED BY <1>5, <1>7, <1>8, <1>11, <3>1, <3>2 DEF Underway, NoPath, DaemonPath
  <2>16. Leaving(t)
    BY <2>1, <2>2 DEF Leaving
  <2> QED BY <1>10, <2>11, <2>13, <2>14, <2>15, <2>16 DEF InService, t
<1> QED
  BY <1>14, <1>15 DEF t

LEMMA QueueCallServes ==
    ASSUME NEW s, NEW W, NEW C, Placed(s, 0, W, C), InService(s), NEW op \in ServiceOps
    PROVE  InService(queueCall(s, op)) /\ OneMore(s, queueCall(s, op), op)
<1>1. s \in Library
  BY DEF Placed
<1>2. Waiting(s) \/ Connected(s) \/ Lost(s)
  BY DEF InService
<1> QED
  BY <1>1, <1>2, QueueWaiting, QueueConnected, QueueLost

-----------------------------------------------------------------------------
(* A service is told of the end of a call *)

LEMMA TailFacts ==
    ASSUME NEW s, NEW t, s.in \in Seq(Event), s.in # <<>>, t.in = Tail(s.in)
    PROVE  /\ 1 \in DOMAIN s.in /\ Head(s.in) = s.in[1]
           /\ \A i \in DOMAIN t.in : i + 1 \in DOMAIN s.in /\ t.in[i] = s.in[i + 1]
           /\ \A i \in DOMAIN s.in : i # 1 => i - 1 \in DOMAIN t.in /\ t.in[i - 1] = s.in[i]
           /\ \A k : Replied(s, k) => ReplyTo(s, 1, k) \/ Replied(t, k)
<1>1. /\ Len(s.in) \in Nat \ {0} /\ DOMAIN s.in = 1..Len(s.in)
      /\ DOMAIN t.in = 1..Len(s.in)-1 /\ Head(s.in) = s.in[1]
      /\ \A i \in 1..Len(s.in)-1 : t.in[i] = s.in[i + 1]
  OBVIOUS
<1>2. ASSUME NEW i \in DOMAIN s.in, i # 1
      PROVE  i - 1 \in DOMAIN t.in /\ t.in[i - 1] = s.in[i]
  <2>1. i - 1 \in 1..Len(s.in)-1 /\ (i - 1) + 1 = i
    BY <1>1, <1>2
  <2> QED BY <1>1, <2>1
<1>3. ASSUME NEW k, NEW i \in DOMAIN s.in, ReplyTo(s, i, k)
      PROVE  ReplyTo(s, 1, k) \/ Replied(t, k)
  BY <1>2, <1>3 DEF ReplyTo, Replied
<1>4. \A i \in DOMAIN t.in : i + 1 \in DOMAIN s.in /\ t.in[i] = s.in[i + 1]
  BY <1>1
<1> QED
  BY <1>1, <1>2, <1>3, <1>4 DEF Replied

LEMMA FinishStanding ==
    ASSUME NEW s \in Library, Simple(s), NEW k \in DOMAIN s.call
    PROVE  LET t == onCallFinished(answered(s, k), k) IN
           /\ Standing(s, t) /\ Simple(t)
           /\ t.in = s.in /\ t.out = s.out
           /\ DOMAIN t.call = DOMAIN s.call
           /\ t.call[k].state = "done" /\ t.call[k].op = s.call[k].op
           /\ \A j \in DOMAIN s.call : j # k => t.call[j] = s.call[j]
           /\ t.proxy[Main].path = s.proxy[Main].path
           /\ t.proxy[Main].conn = s.proxy[Main].conn
           /\ t.proxy[Main].status = s.proxy[Main].status
           /\ s.proxy[Main].queue = <<>> => t.proxy[Main].queue = <<>>
<1> DEFINE u == answered(s, k)
           t == onCallFinished(u, k)
           r == FinishedProxy(u, Main, k)
<1>1. /\ Len(s.proxy) = 1 /\ s.proxy[Main].exists /\ s.call[k].on = Main
      /\ Main \in DOMAIN s.proxy /\ s.proxy[Main] \in ProxyRecord /\ s.call[k] \in CallRecord
      /\ s.proxy[Main].queue \in Seq(Nat)
  <2>1. Len(s.proxy) = 1 /\ s.proxy[Main].exists /\ s.call[k].on = Main
    BY DEF Simple
  <2>2. Main \in DOMAIN s.proxy
    BY <2>1, LibraryFields DEF Main
  <2> QED BY <2>1, <2>2, ProxyFields, CallFields
<1>2. /\ Stays(s, u) /\ u.call = [s.call EXCEPT ![k].answers = @ + 1]
      /\ u.proxy = s.proxy /\ u.out = s.out /\ u.in = s.in
  BY AnsweredEffect
<1>3. Standing(s, u)
  BY <1>2 DEF Stays, Standing, answered, Library
<1> HIDE DEF u
<1>4. /\ u.call[k] \in CallRecord /\ u.call[k].on = Main /\ u.call[k].op = s.call[k].op
      /\ DOMAIN u.call = DOMAIN s.call /\ u \in Library
      /\ \A j \in DOMAIN s.call : j # k => u.call[j] = s.call[j]
  BY SMTT(20), <1>1, <1>2 DEF Stays, CallRecord
<1>5. /\ Stays(u, t)
      /\ t.call = [u.call EXCEPT ![k] = [u.call[k] EXCEPT !.state = "done", !.lost = FALSE]]
      /\ t.proxy = [u.proxy EXCEPT ![Main] = r]
      /\ t.proxy[Main].queue = RemoveFirst(u.proxy[Main].queue, k)
      /\ t.out = u.out /\ t.in = u.in
  <2>1. k \in DOMAIN u.call /\ u.call[k].on \in DOMAIN u.proxy
    BY <1>1, <1>2, <1>4
  <2> DEFINE p == u.call[k].on
  <2>2. /\ Stays(u, t)
        /\ t.call = [u.call EXCEPT ![k] = [u.call[k] EXCEPT !.state = "done", !.lost = FALSE]]
        /\ t.proxy = [u.proxy EXCEPT ![p] = FinishedProxy(u, p, k)]
        /\ t.proxy[p].queue = RemoveFirst(u.proxy[p].queue, k)
        /\ t.out = u.out /\ t.in = u.in
    BY Zenon, <1>4, <2>1, FinishEffect
  <2>3. p = Main
    BY <1>4
  <2> HIDE DEF p, t
  <2> QED BY <2>2, <2>3
<1>6. Standing(u, t)
  BY <1>4, <1>5 DEF Stays, Standing, onCallFinished, Library
<1> HIDE DEF t
<1>7. r.exists /\ r.path = s.proxy[Main].path /\ r.conn = s.proxy[Main].conn
      /\ r.status = s.proxy[Main].status
  BY <1>1, <1>2 DEF FinishedProxy, ProxyRecord
<1> HIDE DEF r
<1>8. t.proxy[Main] = r /\ Len(t.proxy) = 1
  <2>1. s.proxy \in Seq(ProxyRecord) /\ t.proxy \in Seq(ProxyRecord)
    BY <1>6, LibraryFields DEF Standing
  <2> QED BY <1>1, <1>2, <1>5, <2>1
<1>9. /\ DOMAIN t.call = DOMAIN s.call
      /\ t.call[k].state = "done" /\ t.call[k].op = s.call[k].op /\ t.call[k].on = Main
      /\ \A j \in DOMAIN s.call : j # k => t.call[j] = s.call[j]
  BY <1>4, <1>5 DEF CallRecord
<1>10. s.proxy[Main].queue = <<>> => t.proxy[Main].queue = <<>>
  <2> DEFINE q == t.proxy[Main].queue
  <2>1. q \in Seq(Nat) /\ \A i \in DOMAIN q : \E j \in DOMAIN s.proxy[Main].queue : TRUE
    BY <1>1, <1>2, <1>5, Removed
  <2> HIDE DEF q
  <2>2. ASSUME s.proxy[Main].queue = <<>> PROVE q = <<>>
    <3>1. DOMAIN s.proxy[Main].queue = {}
      BY <2>2
    <3>2. DOMAIN q = {}
      BY <2>1, <3>1
    <3> QED BY <2>1, <3>2
  <2> QED BY <2>2 DEF q
<1>11. Simple(t)
  <2>1. t.kind = "service" /\ t.in = s.in
    BY <1>2, <1>3, <1>5, <1>6 DEF Simple, Standing
  <2>2. \A j \in DOMAIN t.call : t.call[j].on = Main /\ t.call[j].op \in ServiceOps
                                 /\ t.call[j].state # "failing"
    BY <1>9 DEF Simple
  <2> QED BY <1>7, <1>8, <2>1, <2>2 DEF Simple
<1> QED
  BY <1>2, <1>3, <1>5, <1>6, <1>7, <1>8, <1>9, <1>10, <1>11, StandingOn DEF t, u

\* The head of the methods goes with the end of a query, whatever its result.
LEMMA FinishedService ==
    ASSUME NEW s \in Library, Simple(s), NEW k \in DOMAIN s.call, NEW result, NEW value
    PROVE  LET x == IF s.call[k].op = "queryMechanisms" THEN dequeueMethod(s) ELSE s
               t == onFinished(s, k, result, value)
           IN  t = IF s.call[k].lost /\ result \in RetryErrors THEN enqueueCall(s, k)
                   ELSE onCallFinished(answered(x, k), k)
<1> DEFINE x == IF s.call[k].op = "queryMechanisms" THEN dequeueMethod(s) ELSE s
<1>1. s.kind = "service" /\ s.call[k].op \in {"request", "queryMechanisms"}
  BY DEF Simple, ServiceOps
<1>2. success(s, k, value) = x
  BY <1>1 DEF success, queryMechanismsReply
<1>3. errorSlot(s, k, result) = answered(x, k)
  BY <1>1 DEF errorSlot, errorReply, queryMechanismsError
<1> HIDE DEF x
<1> QED
  BY <1>2, <1>3 DEF onFinished, x

LEMMA DequeueStanding ==
    ASSUME NEW s \in Library, Simple(s)
    PROVE  LET t == dequeueMethod(s) IN
           /\ t \in Library /\ Simple(t)
           /\ t.methods = (IF s.methods = <<>> THEN <<>> ELSE Tail(s.methods))
           /\ t.kind = s.kind /\ t.online = s.online /\ t.starting = s.starting
           /\ t.call = s.call /\ t.proxy = s.proxy /\ t.in = s.in /\ t.out = s.out
<1>1. s.methods \in Seq(Nat)
  BY LibraryFields
<1>2. CASE s.methods = <<>>
  BY <1>2 DEF dequeueMethod
<1>3. CASE s.methods # <<>>
  <2>1. dequeueMethod(s) = [s EXCEPT !.methods = Tail(s.methods)]
    BY <1>3 DEF dequeueMethod
  <2>2. Tail(s.methods) \in Seq(Nat)
    BY <1>1, <1>3
  <2> DEFINE v == Tail(s.methods)
             t == [s EXCEPT !.methods = v]
  <2> HIDE DEF v
  <2>3. /\ t \in Library /\ t.methods = v
        /\ t.kind = s.kind /\ t.online = s.online /\ t.starting = s.starting
        /\ t.call = s.call /\ t.proxy = s.proxy /\ t.in = s.in /\ t.out = s.out
    BY <2>2 DEF v, Library
  <2> HIDE DEF t
  <2>4. Simple(t)
    BY <2>3 DEF Simple
  <2> QED BY <1>3, <2>1, <2>3, <2>4 DEF t, v
<1> QED
  BY <1>2, <1>3

LEMMA TakenStanding ==
    ASSUME NEW s \in Library, s.in # <<>>
    PROVE  LET t == [s EXCEPT !.in = Tail(@)] IN
           /\ Standing(s, t) /\ t.in = Tail(s.in)
           /\ t.call = s.call /\ t.proxy = s.proxy /\ t.out = s.out
<1> DEFINE v == Tail(s.in)
<1>1. v \in Seq(Event)
  <2>1. s.in \in Seq(Event)
    BY LibraryFields
  <2> QED BY <2>1
<1> HIDE DEF v
<1>2. Standing(s, [s EXCEPT !.in = v]) /\ [s EXCEPT !.in = v].in = v
      /\ [s EXCEPT !.in = v].call = s.call /\ [s EXCEPT !.in = v].proxy = s.proxy
      /\ [s EXCEPT !.in = v].out = s.out
  BY <1>1, InStanding
<1> QED
  BY <1>2 DEF v

\* The reply that is not the occasion to try again ends the earliest call.
LEMMA FinishServes ==
    ASSUME NEW s, NEW W, NEW C, Placed(s, 0, W, C), InService(s), Listed(s), s.in # <<>>,
           NEW k \in DOMAIN s.call, ReplyTo(s, 1, k), s.call[k].state = "sent",
           ~Abandoned(s, 1)
    PROVE  LET b == [s EXCEPT !.in = Tail(@)]
               x == IF s.call[k].op = "queryMechanisms" THEN dequeueMethod(b) ELSE b
               t == onCallFinished(answered(x, k), k)
           IN  /\ InService(t) /\ Listed(t)
               /\ s.call[k].op = "queryMechanisms" => s.methods # <<>> /\ Head(s.methods) = k
<1> DEFINE n == Len(s.call)
           b == [s EXCEPT !.in = Tail(@)]
           x == IF s.call[k].op = "queryMechanisms" THEN dequeueMethod(b) ELSE b
           t == onCallFinished(answered(x, k), k)
<1>1. /\ s \in Library /\ s.methods \in Seq(Nat) /\ s.in \in Seq(Event)
      /\ n \in Nat /\ DOMAIN s.call = 1..n /\ Undone(s, k)
      /\ Simple(s) /\ Ordered(s) /\ AbandonedLast(s) /\ Underway(s) /\ Leaving(s)
  BY LibraryFields DEF Placed, InService, Undone
<1> HIDE DEF n
<1>2. /\ Standing(s, b) /\ b.in = Tail(s.in)
      /\ b.call = s.call /\ b.proxy = s.proxy /\ b.out = s.out
  BY <1>1, TakenStanding
<1> HIDE DEF b
<1>3. /\ 1 \in DOMAIN s.in /\ Head(s.in) = s.in[1]
      /\ \A i \in DOMAIN b.in : i + 1 \in DOMAIN s.in /\ b.in[i] = s.in[i + 1]
      /\ \A i \in DOMAIN s.in : i # 1 => i - 1 \in DOMAIN b.in /\ b.in[i - 1] = s.in[i]
      /\ \A j : Replied(s, j) => ReplyTo(s, 1, j) \/ Replied(b, j)
  BY <1>1, <1>2, TailFacts
<1>4. Simple(b) /\ b \in Library
  BY <1>1, <1>2, <1>3 DEF Simple, Standing
<1>5. s.call[k].op = "queryMechanisms" => s.methods # <<>>
  BY <1>1 DEF Listed, In
<1>6. /\ x \in Library /\ Simple(x)
      /\ x.methods = (IF s.call[k].op = "queryMechanisms" THEN Tail(s.methods) ELSE s.methods)
      /\ x.online = s.online /\ x.starting = s.starting
      /\ x.call = s.call /\ x.proxy = s.proxy /\ x.in = b.in /\ x.out = s.out
  BY <1>2, <1>4, <1>5, DequeueStanding DEF Standing
<1> HIDE DEF x
<1>7. /\ Standing(x, t) /\ Simple(t)
      /\ t.in = x.in /\ t.out = x.out /\ DOMAIN t.call = DOMAIN x.call
      /\ t.call[k].state = "done" /\ t.call[k].op = x.call[k].op
      /\ \A j \in DOMAIN x.call : j # k => t.call[j] = x.call[j]
      /\ t.proxy[Main].path = x.proxy[Main].path
      /\ t.proxy[Main].conn = x.proxy[Main].conn
      /\ t.proxy[Main].status = x.proxy[Main].status
      /\ x.proxy[Main].queue = <<>> => t.proxy[Main].queue = <<>>
  BY <1>6, FinishStanding
<1> HIDE DEF t
<1>8. \A j \in 1..k-1 : ~Undone(s, j)
  <2>1. IsReply(s.in[1]) /\ s.in[1].call = k
    BY DEF ReplyTo
  <2>2. \A h \in 1..1-1 : FALSE
    OBVIOUS
  <2> QED BY <1>1, <1>3, <2>1, <2>2 DEF Ordered
<1>9. /\ ~Undone(t, k)
      /\ \A j \in 1..n : /\ t.call[j].op = s.call[j].op
                         /\ j # k => (Undone(t, j) <=> Undone(s, j))
  BY <1>1, <1>6, <1>7 DEF Undone
<1>10. /\ Listed(t)
       /\ s.call[k].op = "queryMechanisms" => s.methods # <<>> /\ Head(s.methods) = k
  <2>1. t.methods = IF s.call[k].op = "queryMechanisms" THEN Tail(s.methods) ELSE s.methods
    BY <1>6, <1>7 DEF Standing
  <2>2. DOMAIN t.call = 1..n /\ k \in 1..n
    BY <1>1, <1>6, <1>7
  <2> QED BY <1>1, <1>8, <1>9, <2>1, <2>2, ListedLess
<1>11. Ordered(t) /\ AbandonedLast(t)
  <2>1. ASSUME NEW i \in DOMAIN s.in, IsReply(s.in[i]), NEW j \in 1..s.in[i].call-1,
               Undone(t, j)
        PROVE  Undone(s, j) /\ ~ReplyTo(s, 1, j)
    <3>1. s.in[i].call \in 1..n
      BY <1>1, <2>1 DEF Placed, Incoming
    <3>2. j \in 1..n
      BY <1>1, <3>1
    <3> QED BY <1>9, <2>1, <3>2 DEF ReplyTo
  <2>2. t.in = Tail(s.in) /\ t.proxy[Main].path = s.proxy[Main].path
        /\ s.in[1].type # "disconnected"
    BY <1>2, <1>6, <1>7 DEF ReplyTo, IsReply
  <2> QED BY <1>1, <2>1, <2>2, Advance
<1>12. \A j : Replied(s, j) => j = k \/ Replied(t, j)
  BY <1>3, <1>6, <1>7 DEF ReplyTo, Replied
<1>13. Underway(t)
  <2> SUFFICES ASSUME NEW j \in DOMAIN t.call, t.call[j].state = "sent"
               PROVE  /\ In(j, t.out) \/ Replied(t, j)
                      /\ t.call[j].lost <=> t.proxy[Main].path = NoPath
    BY DEF Underway
  <2>1. j # k /\ j \in DOMAIN s.call /\ t.call[j] = s.call[j]
    BY <1>6, <1>7
  <2> QED BY <1>1, <1>6, <1>7, <1>12, <2>1 DEF Underway
<1>14. Leaving(t)
  <2> SUFFICES ASSUME NEW i \in DOMAIN t.out, NEW j \in 1..t.out[i]-1, Undone(t, j)
               PROVE  Replied(t, j) \/ \E h \in 1..i-1 : t.out[h] = j
    BY DEF Leaving
  <2>1. t.out = s.out
    BY <1>6, <1>7
  <2>2. s.out[i] \in 1..n
    BY <1>1, <2>1 DEF Placed, Outgoing
  <2>3. j \in 1..n /\ j # k /\ Undone(s, j)
    BY <1>1, <1>9, <2>1, <2>2
  <2>4. Replied(s, j) \/ \E h \in 1..i-1 : s.out[h] = j
    BY <1>1, <2>1, <2>3 DEF Leaving
  <2> QED BY <1>12, <2>1, <2>3, <2>4
<1>15. ~Waiting(s)
  BY SMTT(20), <1>1, <1>3 DEF Waiting
<1>16. CASE Connected(s)
  <2>1. \A j \in DOMAIN t.call : /\ t.call[j].state # "queued"
                                 /\ t.call[j].state = "sent" => t.call[j].path = DaemonPath
    <3> TAKE j \in DOMAIN t.call
    <3>1. CASE j = k
      BY <1>7, <3>1
    <3>2. CASE j # k
      BY <1>6, <1>7, <1>16, <3>2 DEF Connected
    <3> QED BY <3>1, <3>2
  <2>2. \A i \in DOMAIN t.in : t.in[i].type # "activated"
    BY <1>3, <1>6, <1>7, <1>16 DEF Connected
  <2>3. t.online <=> \A i \in DOMAIN t.in : t.in[i].type # "disconnected"
    <3>1. s.in[1].type # "disconnected"
      BY DEF ReplyTo, IsReply
    <3>2. (\A i \in DOMAIN s.in : s.in[i].type # "disconnected")
            <=> \A i \in DOMAIN b.in : b.in[i].type # "disconnected"
      BY <1>3, <3>1
    <3> QED BY <1>6, <1>7, <1>16, <3>2 DEF Connected, Standing
  <2>4. Connected(t)
    BY SMTT(20), <1>6, <1>7, <1>16, <2>1, <2>2, <2>3 DEF Connected, Standing
  <2> QED BY <1>7, <1>10, <1>11, <1>13, <1>14, <2>4 DEF InService, t, x, b
<1>17. CASE Lost(s)
  <2>1. Lost(t)
    BY <1>6, <1>7, <1>17 DEF Lost
  <2> QED BY <1>7, <1>10, <1>11, <1>13, <1>14, <2>1 DEF InService, t, x, b
<1> QED
  BY <1>15, <1>16, <1>17 DEF InService

LEMMA RetryServes ==
    ASSUME NEW s, NEW W, NEW C, Placed(s, 0, W, C), InService(s), s.in # <<>>,
           NEW k \in DOMAIN s.call, ReplyTo(s, 1, k), s.call[k].state = "sent",
           Abandoned(s, 1)
    PROVE  LET t == enqueueCall([s EXCEPT !.in = Tail(@)], k)
           IN  s.call[k].lost /\ InService(t) /\ Continues(s, t)
<1> DEFINE b == [s EXCEPT !.in = Tail(@)]
           t == enqueueCall(b, k)
<1>1. /\ s \in Library /\ s.in \in Seq(Event) /\ s.call[k] \in CallRecord
      /\ s.call \in Seq(CallRecord)
      /\ Simple(s) /\ Ordered(s) /\ AbandonedLast(s) /\ Underway(s)
  BY LibraryFields, CallFields DEF Placed, InService
<1>2. s.proxy[Main].path = NoPath
  <2>1. \A g \in 1..1-1 : FALSE
    OBVIOUS
  <2> QED BY <2>1 DEF Abandoned, Gone
<1>3. Lost(s) /\ s.call[k].lost
  BY <1>1, <1>2 DEF InService, Waiting, Connected, Underway, NoPath, DaemonPath
<1>4. /\ Standing(s, b) /\ b.in = Tail(s.in)
      /\ b.call = s.call /\ b.proxy = s.proxy /\ b.out = s.out
  BY <1>1, TakenStanding
<1> HIDE DEF b
<1>5. /\ 1 \in DOMAIN s.in
      /\ \A i \in DOMAIN b.in : i + 1 \in DOMAIN s.in /\ b.in[i] = s.in[i + 1]
      /\ \A j : Replied(s, j) => ReplyTo(s, 1, j) \/ Replied(b, j)
  BY <1>1, <1>4, TailFacts
<1>6. Simple(b) /\ Forlorn(b)
  BY <1>1, <1>3, <1>4, <1>5 DEF Simple, Standing, Forlorn, Lost
<1>7. /\ Forlorn(t) /\ t.kind = b.kind /\ t.methods = b.methods
      /\ t.in = b.in /\ t.out = b.out
      /\ t.call = [b.call EXCEPT ![k].state = "queued"]
  BY <1>4, <1>6, EnqueueLost
<1> HIDE DEF t
<1>8. /\ DOMAIN t.call = DOMAIN s.call
      /\ t.call[k].state = "queued" /\ t.call[k].op = s.call[k].op /\ t.call[k].on = s.call[k].on
      /\ \A j \in DOMAIN s.call : j # k => t.call[j] = s.call[j]
  BY <1>1, <1>4, <1>7 DEF CallRecord
<1>9. Continues(s, t)
  BY <1>4, <1>7, <1>8 DEF Continues, Standing, Forlorn, Undone
<1>10. Lost(t)
  BY <1>3, <1>4, <1>7 DEF Lost, Forlorn
<1>11. Simple(t)
  <2>1. t.kind = "service" /\ Len(t.proxy) = 1 /\ t.proxy[Main].exists /\ t.in = b.in
    BY <1>6, <1>7 DEF Simple, Forlorn
  <2>2. \A j \in DOMAIN t.call : t.call[j].on = Main /\ t.call[j].op \in ServiceOps
                                 /\ t.call[j].state # "failing"
    BY <1>1, <1>8 DEF Simple
  <2> QED BY <1>6, <2>1, <2>2 DEF Simple
<1>12. Ordered(t) /\ AbandonedLast(t)
  BY <1>1, <1>2, <1>4, <1>7, <1>10, Advance DEF Lost
<1>13. Underway(t)
  <2> SUFFICES ASSUME NEW j \in DOMAIN t.call, t.call[j].state = "sent"
               PROVE  /\ In(j, t.out) \/ Replied(t, j)
                      /\ t.call[j].lost <=> t.proxy[Main].path = NoPath
    BY DEF Underway
  <2>1. j # k /\ j \in DOMAIN s.call /\ t.call[j] = s.call[j]
    BY <1>8
  <2>2. Replied(s, j) => Replied(t, j)
    <3>1. ~ReplyTo(s, 1, j)
      BY <2>1 DEF ReplyTo
    <3>2. Replied(b, j) => Replied(t, j)
      BY <1>7 DEF ReplyTo, Replied
    <3> QED BY <1>5, <3>1, <3>2
  <2>3. t.proxy[Main].path = NoPath /\ t.out = s.out
    BY <1>4, <1>7, <1>10 DEF Lost
  <2> QED BY <1>1, <1>2, <2>1, <2>2, <2>3 DEF Underway
<1>14. Leaving(t)
  BY <1>10 DEF Lost, Leaving
<1> QED
  BY <1>3, <1>9, <1>10, <1>11, <1>12, <1>13, <1>14 DEF InService, t, b

\* A service that has lost its path takes an event that is not a reply.
LEMMA LostTaken ==
    ASSUME NEW s, NEW W, NEW C, Placed(s, 0, W, C), InService(s), Lost(s), s.in # <<>>,
           ~IsReply(s.in[1])
    PROVE  LET t == [s EXCEPT !.in = Tail(@)]
           IN  InService(t) /\ Lost(t) /\ Forlorn(t) /\ Continues(s, t)
<1> DEFINE t == [s EXCEPT !.in = Tail(@)]
<1>1. /\ s \in Library /\ s.in \in Seq(Event) /\ DOMAIN s.call = 1..Len(s.call)
      /\ Simple(s) /\ Ordered(s) /\ AbandonedLast(s) /\ Underway(s)
  BY LibraryFields DEF Placed, InService
<1>2. /\ Standing(s, t) /\ t.in = Tail(s.in)
      /\ t.call = s.call /\ t.proxy = s.proxy /\ t.out = s.out
  BY <1>1, TakenStanding
<1> HIDE DEF t
<1>3. /\ 1 \in DOMAIN s.in
      /\ \A i \in DOMAIN t.in : i + 1 \in DOMAIN s.in /\ t.in[i] = s.in[i + 1]
      /\ \A j : Replied(s, j) => ReplyTo(s, 1, j) \/ Replied(t, j)
  BY <1>1, <1>2, TailFacts
<1>4. \A j : ~ReplyTo(s, 1, j) /\ (Undone(t, j) <=> Undone(s, j))
  BY <1>2 DEF ReplyTo, Undone
<1>5. Simple(t) /\ Lost(t) /\ Forlorn(t) /\ Continues(s, t)
  BY <1>1, <1>2, <1>3 DEF Simple, Standing, Lost, Forlorn, Continues, Undone
<1>6. Ordered(t) /\ AbandonedLast(t)
  BY <1>1, <1>2, <1>4, <1>5, Advance DEF Lost
<1>7. Underway(t) /\ Leaving(t)
  BY <1>1, <1>2, <1>3, <1>4, <1>5 DEF Underway, Leaving, Lost
<1> QED
  BY <1>5, <1>6, <1>7 DEF InService, t

LEMMA AlikeContinues ==
    ASSUME NEW s, NEW t, Alike(s, t) PROVE Continues(s, t)
BY DEF Alike, Continues, Undone

LEMMA ActivatedServes ==
    ASSUME NEW s, NEW W, NEW C, Placed(s, 0, W, C), InService(s), s.in # <<>>,
           s.in[1].type = "activated", NEW ok
    PROVE  LET t == onActivationDone([s EXCEPT !.in = Tail(@)], ok)
           IN  InService(t) /\ Continues(s, t)
<1> DEFINE b == [s EXCEPT !.in = Tail(@)]
           u == [b EXCEPT !.service = "activated"]
           t == onActivationDone(b, ok)
<1>1. s \in Library /\ s.in \in Seq(Event) /\ Simple(s)
  BY LibraryFields DEF Placed, InService
<1>2. /\ Standing(s, b) /\ b.in = Tail(s.in)
      /\ b.call = s.call /\ b.proxy = s.proxy /\ b.out = s.out
  BY <1>1, TakenStanding
<1> HIDE DEF b
<1>3. 1 \in DOMAIN s.in /\ \A i \in DOMAIN b.in : i + 1 \in DOMAIN s.in /\ b.in[i] = s.in[i + 1]
  BY <1>1, <1>2, TailFacts
<1>4. t \in {b, init(u)}
  BY DEF onActivationDone
<1>5. CASE Lost(s)
  <2>1. ~IsReply(s.in[1])
    BY DEF IsReply
  <2>2. InService(b) /\ Lost(b) /\ Forlorn(b) /\ Continues(s, b)
    BY <1>5, <2>1, LostTaken DEF b
  <2>3. Forlorn(u) /\ Alike(b, u)
    BY <2>2, ForlornService
  <2> HIDE DEF u
  <2>4. Forlorn(init(u)) /\ Alike(b, init(u))
    BY <2>3, ForlornConnect, AlikeOn
  <2>5. InService(init(u)) /\ Continues(s, init(u))
    BY <2>2, <2>4, LostServes, AlikeContinues, ContinuesOn
  <2> QED BY <1>4, <2>2, <2>5 DEF b
<1>6. CASE Waiting(s)
  <2>1. b.in = <<>> /\ ~s.starting
    <3>1. Len(s.in) = 1 /\ ~s.starting
      BY <1>6 DEF Waiting
    <3> DEFINE v == Tail(s.in)
    <3>2. v \in Seq(Event) /\ Len(v) = 0
      BY <1>1, <3>1
    <3> HIDE DEF v
    <3>3. v = <<>>
      BY <3>2
    <3> QED BY <1>2, <3>1, <3>3 DEF v
  <2>2. Simple(b) /\ Waiting(b) /\ Continues(s, b) /\ b \in Library
    BY <1>1, <1>2, <1>6, <2>1 DEF Simple, Waiting, Standing, Continues, Undone
  <2>3. Simple(u) /\ Waiting(u) /\ Continues(b, u) /\ u \in Library
    <3>1. /\ u \in Library /\ u.kind = b.kind /\ u.methods = b.methods /\ u.in = b.in
          /\ u.call = b.call /\ u.proxy = b.proxy /\ u.out = b.out
          /\ u.online = b.online /\ u.starting = b.starting
      BY <2>2 DEF Library
    <3>2. ~b.starting
      BY <1>2, <2>1 DEF Standing
    <3> HIDE DEF u
    <3> QED BY <2>1, <2>2, <3>1, <3>2 DEF Simple, Waiting, Continues, Undone
  <2>4. InService(b)
    BY <2>2, WaitingServes
  <2> HIDE DEF u
  <2>5. InService(init(u)) /\ Continues(s, init(u))
    BY <2>2, <2>3, InitWaiting, ContinuesOn
  <2> QED BY <1>4, <2>2, <2>4, <2>5 DEF b
<1>7. ~Connected(s)
  BY <1>3 DEF Connected
<1> QED
  BY <1>5, <1>6, <1>7 DEF InService

LEMMA InterfaceDestroyedStanding ==
    ASSUME NEW s \in Library
    PROVE  LET t == onInterfaceDestroyed(s, Main) IN
           /\ Standing(s, t) /\ t.proxy = s.proxy /\ t.out = s.out /\ t.in = s.in
           /\ DOMAIN t.call = DOMAIN s.call
           /\ \A k \in DOMAIN s.call :
                /\ t.call[k].on = s.call[k].on /\ t.call[k].op = s.call[k].op
                /\ t.call[k].state = s.call[k].state
                /\ s.call[k].on = Main /\ s.call[k].state = "sent" => t.call[k].lost
<1> DEFINE v == [k \in DOMAIN s.call |->
                   IF s.call[k].on = Main /\ s.call[k].state = "sent"
                   THEN [s.call[k] EXCEPT !.lost = TRUE] ELSE s.call[k]]
<1>1. ASSUME NEW k \in DOMAIN s.call
      PROVE  /\ v[k] \in CallRecord
             /\ v[k].on = s.call[k].on /\ v[k].op = s.call[k].op
             /\ v[k].state = s.call[k].state
             /\ s.call[k].on = Main /\ s.call[k].state = "sent" => v[k].lost
  <2>1. s.call[k] \in CallRecord
    BY CallFields
  <2> QED BY <2>1 DEF CallRecord
<1>2. DOMAIN v = DOMAIN s.call
  OBVIOUS
<1>3. v \in Seq(CallRecord)
  <2>1. DOMAIN s.call = 1..Len(s.call) /\ Len(s.call) \in Nat
    BY LibraryFields
  <2>2. v \in [1..Len(s.call) -> CallRecord]
    BY <1>1, <2>1
  <2> HIDE DEF v
  <2> QED BY <2>1, <2>2, SeqDef
<1>4. onInterfaceDestroyed(s, Main) = [s EXCEPT !.call = v]
  BY DEF onInterfaceDestroyed, Library
<1> HIDE DEF v
<1> QED
  BY <1>1, <1>2, <1>3, <1>4, CallsStanding

\* The connection goes: the path is lost, and with it every call sent.
LEMMA DisconnectedServes ==
    ASSUME NEW s, NEW W, NEW C, Placed(s, 0, W, C), InService(s), s.in # <<>>,
           s.in[1].type = "disconnected"
    PROVE  LET t == onDisconnected([s EXCEPT !.in = Tail(@)])
           IN  InService(t) /\ Continues(s, t)
<1> DEFINE b == [s EXCEPT !.in = Tail(@)]
           sv == IF b.service = "bus" THEN "bus" ELSE "unknown"
           o == [b EXCEPT !.service = sv]
           t == onDisconnected(b)
<1>1. /\ s \in Library /\ s.in \in Seq(Event)
      /\ Simple(s) /\ Ordered(s) /\ AbandonedLast(s) /\ Underway(s)
  BY LibraryFields DEF Placed, InService
<1>2. /\ Standing(s, b) /\ b.in = Tail(s.in)
      /\ b.call = s.call /\ b.proxy = s.proxy /\ b.out = s.out
  BY <1>1, TakenStanding
<1>3. t = disconnected(o)
  BY DEF onDisconnected
<1>4. sv \in {"unknown", "activating", "activated", "bus"}
  OBVIOUS
<1> HIDE DEF b, sv
<1>5. CASE Lost(s)
  <2>1. ~IsReply(s.in[1])
    BY DEF IsReply
  <2>2. InService(b) /\ Lost(b) /\ Forlorn(b) /\ Continues(s, b)
    BY <1>5, <2>1, LostTaken DEF b
  <2>3. Forlorn(o) /\ Alike(b, o)
    BY <1>4, <2>2, ForlornService
  <2> HIDE DEF o
  <2>4. Forlorn(t) /\ Alike(b, t)
    BY <1>3, <2>3, ForlornSlots, AlikeOn
  <2>5. InService(t) /\ Continues(s, t)
    BY <2>2, <2>4, LostServes, AlikeContinues, ContinuesOn
  <2> QED BY <2>5 DEF b
<1>6. /\ 1 \in DOMAIN s.in
      /\ \A i \in DOMAIN b.in : i + 1 \in DOMAIN s.in /\ b.in[i] = s.in[i + 1]
      /\ \A j : Replied(s, j) => ReplyTo(s, 1, j) \/ Replied(b, j)
  BY <1>1, <1>2, TailFacts
<1>7. ~Waiting(s)
  BY <1>6 DEF Waiting
<1>8. CASE Connected(s)
  <2> DEFINE r == [o.proxy[Main] EXCEPT !.conn = FALSE, !.path = NoPath]
             u == [o EXCEPT !.proxy[Main] = r]
             w == onInterfaceDestroyed(u, Main)
             q == [w.proxy[Main] EXCEPT !.status = "Incomplete"]
  <2>1. /\ o \in Library /\ o.kind = s.kind /\ o.methods = s.methods
        /\ o.call = s.call /\ o.proxy = s.proxy /\ o.out = s.out /\ o.in = b.in
    BY <1>2, <1>4 DEF Library, Standing
  <2>2. /\ Len(s.proxy) = 1 /\ s.proxy[Main].exists /\ s.proxy[Main].status = "Ready"
        /\ s.proxy[Main] \in ProxyRecord /\ s.out = <<>>
    <3>1. Len(s.proxy) = 1 /\ s.proxy[Main].exists /\ s.proxy[Main].status = "Ready"
      BY <1>1, <1>8 DEF Simple, Connected
    <3>2. Main \in DOMAIN s.proxy
      BY <1>1, <3>1, LibraryFields DEF Main
    <3>3. s.out = <<>>
      BY <1>6, <1>8 DEF Connected
    <3> QED BY <1>1, <3>1, <3>2, <3>3, ProxyFields
  <2>3. /\ r \in ProxyRecord /\ r.exists /\ r.path = NoPath /\ ~r.conn
        /\ r.status = "Ready"
    BY <2>1, <2>2 DEF ProxyRecord, NoPath
  <2>4. t = update(u, Main)
    <3>1. [o EXCEPT !.proxy[Main] = [@ EXCEPT !.conn = FALSE, !.path = NoPath]] = u
      BY <2>1 DEF Library
    <3> HIDE DEF u, o
    <3> QED BY <1>3, <2>1, <2>2, <3>1, OneProxy DEF setDisconnected
  <2> HIDE DEF o, r
  <2>5. /\ Standing(o, u) /\ u.call = o.call /\ u.out = o.out /\ u.in = o.in
        /\ Len(u.proxy) = 1 /\ u.proxy[Main] = r
    BY <2>1, <2>2, <2>3, MainStanding
  <2> HIDE DEF u
  <2>6. t = [w EXCEPT !.proxy[Main].status = "Incomplete"]
    BY <2>3, <2>4, <2>5 DEF update, Incomplete
  <2>7. /\ Standing(u, w) /\ w.proxy = u.proxy /\ w.out = u.out /\ w.in = u.in
        /\ DOMAIN w.call = DOMAIN u.call
        /\ \A k \in DOMAIN u.call :
             /\ w.call[k].on = u.call[k].on /\ w.call[k].op = u.call[k].op
             /\ w.call[k].state = u.call[k].state
             /\ u.call[k].on = Main /\ u.call[k].state = "sent" => w.call[k].lost
    BY <2>5, InterfaceDestroyedStanding DEF Standing
  <2> HIDE DEF w
  <2>8. q \in ProxyRecord /\ q.exists /\ q.path = NoPath /\ q.status = "Incomplete"
    BY <2>3, <2>5, <2>7 DEF ProxyRecord
  <2>9. t = [w EXCEPT !.proxy[Main] = q]
    BY <2>6, <2>7 DEF Standing, Library
  <2> HIDE DEF q, t
  <2>10. /\ Standing(w, t) /\ t.call = w.call /\ t.out = w.out /\ t.in = w.in
         /\ Len(t.proxy) = 1 /\ t.proxy[Main] = q
    <3>1. w \in Library /\ Len(w.proxy) = 1
      BY <2>5, <2>7 DEF Standing
    <3> QED BY <2>8, <2>9, <3>1, MainStanding
  <2>11. /\ t \in Library /\ t.kind = s.kind /\ t.methods = s.methods
         /\ t.in = b.in /\ t.out = <<>> /\ DOMAIN t.call = DOMAIN s.call
         /\ \A k \in DOMAIN s.call :
              /\ t.call[k].on = s.call[k].on /\ t.call[k].op = s.call[k].op
              /\ t.call[k].state = s.call[k].state
              /\ s.call[k].on = Main /\ s.call[k].state = "sent" => t.call[k].lost
    BY <2>1, <2>2, <2>5, <2>7, <2>10 DEF Standing
  <2>12. Continues(s, t)
    BY <2>11 DEF Continues, Undone
  <2>13. Simple(t)
    <3>1. \A i \in DOMAIN t.in : t.in[i].type \in {"reply", "disconnected", "activated"}
      BY <1>1, <1>6, <2>11 DEF Simple
    <3> QED BY <1>1, <2>8, <2>10, <2>11, <3>1 DEF Simple
  <2>14. Lost(t)
    BY <2>8, <2>10, <2>11 DEF Lost
  <2>15. \A j : ~ReplyTo(s, 1, j)
    BY DEF ReplyTo, IsReply
  <2>16. Ordered(t) /\ AbandonedLast(t)
    <3>1. ASSUME NEW i \in DOMAIN s.in, IsReply(s.in[i]), NEW k \in 1..s.in[i].call-1,
                 Undone(t, k)
          PROVE  Undone(s, k) /\ ~ReplyTo(s, 1, k)
      <4>1. s.in[i].call \in DOMAIN s.call /\ DOMAIN s.call = 1..Len(s.call)
            /\ Len(s.call) \in Nat
        BY <1>1, <3>1, LibraryFields DEF Placed, Incoming
      <4>2. k \in DOMAIN s.call
        BY <4>1
      <4> QED BY <2>11, <2>15, <3>1, <4>2 DEF Undone
    <3>2. t.in = Tail(s.in) /\ t.proxy[Main].path = NoPath
      BY <1>2, <2>8, <2>10, <2>11
    <3> QED BY <1>1, <3>1, <3>2, Advance
  <2>17. Underway(t)
    <3> SUFFICES ASSUME NEW k \in DOMAIN t.call, t.call[k].state = "sent"
                 PROVE  Replied(t, k) /\ t.call[k].lost
      BY <2>14 DEF Underway, Lost
    <3>1. k \in DOMAIN s.call /\ s.call[k].state = "sent" /\ s.call[k].on = Main
      BY <1>1, <2>11 DEF Simple
    <3>2. ~In(k, s.out)
      BY <2>2 DEF In
    <3>3. Replied(b, k)
      BY <1>1, <1>6, <2>15, <3>1, <3>2 DEF Underway
    <3>4. Replied(t, k)
      BY <2>11, <3>3 DEF Replied, ReplyTo
    <3> QED BY <2>11, <3>1, <3>4
  <2>18. Leaving(t)
    BY <2>11 DEF Leaving
  <2> QED BY <2>12, <2>13, <2>14, <2>16, <2>17, <2>18 DEF InService, t, b
<1> QED
  BY <1>5, <1>7, <1>8 DEF InService

LEMMA EventLoopServes ==
    ASSUME ClientInv, ServiceInv, c.kind = "service", eventLoop
    PROVE  InService(c') /\ Listed(c') /\ ~mixed'
<1> DEFINE e == Head(c.in)
           b == [c EXCEPT !.in = Tail(@)]
           k == e.call
<1>1. /\ Placed(c, 0, d.working, canceled) /\ Sound(c, d.working, canceled, c.kind)
      /\ InService(c) /\ Listed(c) /\ ~mixed /\ c.in # <<>> /\ c \in Library
  BY DEF ClientInv, ServiceInv, Sound, Placed, eventLoop
<1>2. /\ c' = Delivered(b, e)
      /\ mixed' = (mixed \/ (AnswersMechanisms(e) /\ (c.methods = <<>> \/ Head(c.methods) # k)))
  BY DEF eventLoop
<1>3. e = c.in[1] /\ 1 \in DOMAIN c.in /\ e.type \in {"reply", "disconnected", "activated"}
  <2>1. e = c.in[1] /\ 1 \in DOMAIN c.in
    BY <1>1, LibraryFields
  <2> QED BY <1>1, <2>1 DEF InService, Simple
<1>4. CASE e.type = "disconnected"
  <2>1. c' = onDisconnected(b)
    BY <1>2, <1>4 DEF Delivered
  <2>2. InService(c') /\ Continues(c, c')
    BY <1>1, <1>3, <1>4, <2>1, DisconnectedServes
  <2>3. Listed(c')
    BY <1>1, <2>2, ListedSame DEF Continues
  <2>4. ~AnswersMechanisms(e)
    BY <1>4 DEF AnswersMechanisms
  <2> QED BY <1>1, <1>2, <2>2, <2>3, <2>4
<1>5. CASE e.type = "activated"
  <2>1. c' = onActivationDone(b, e.ok)
    BY <1>2, <1>5 DEF Delivered
  <2>2. InService(c') /\ Continues(c, c')
    BY <1>1, <1>3, <1>5, <2>1, ActivatedServes
  <2>3. Listed(c')
    BY <1>1, <2>2, ListedSame DEF Continues
  <2>4. ~AnswersMechanisms(e)
    BY <1>5 DEF AnswersMechanisms
  <2> QED BY <1>1, <1>2, <2>2, <2>3, <2>4
<1>6. CASE e.type = "reply"
  <2>1. c' = onFinished(b, k, e.result, e.path)
    BY <1>2, <1>6 DEF Delivered
  <2>2. ReplyTo(c, 1, k) /\ IsReply(c.in[1]) /\ c.in[1].call = k
    BY <1>3, <1>6 DEF ReplyTo, IsReply
  <2>3. k \in DOMAIN c.call /\ c.call[k].state = "sent"
    BY <1>1, <1>3, <2>2 DEF Placed, Incoming
  <2>4. /\ Standing(c, b) /\ b.in = Tail(c.in)
        /\ b.call = c.call /\ b.proxy = c.proxy /\ b.out = c.out
    BY <1>1, TakenStanding
  <2> DEFINE x == IF c.call[k].op = "queryMechanisms" THEN dequeueMethod(b) ELSE b
             t == onCallFinished(answered(x, k), k)
  <2> HIDE DEF b
  <2>5. Simple(b) /\ b \in Library
    <3>1. \A i \in DOMAIN b.in : \E j \in DOMAIN c.in : b.in[i] = c.in[j]
      BY <1>1, <2>4, TailFacts, LibraryFields
    <3>2. Simple(c)
      BY <1>1 DEF InService
    <3> QED BY <2>4, <3>1, <3>2 DEF Simple, Standing
  <2>6. c' = IF c.call[k].lost /\ e.result \in RetryErrors THEN enqueueCall(b, k) ELSE t
    BY <2>1, <2>3, <2>4, <2>5, FinishedService
  <2> HIDE DEF t
  <2>7. CASE Abandoned(c, 1)
    <3>1. /\ c.call[k].lost /\ InService(enqueueCall(b, k))
          /\ Continues(c, enqueueCall(b, k))
      BY <1>1, <2>2, <2>3, <2>7, RetryServes DEF b
    <3>2. e.result \in RetryErrors
      BY <1>3, <2>7 DEF Abandoned
    <3>3. InService(c') /\ Continues(c, c')
      BY <2>6, <3>1, <3>2
    <3>4. Listed(c')
      BY <1>1, <3>3, ListedSame DEF Continues
    <3>5. ~AnswersMechanisms(e)
      BY <3>2 DEF AnswersMechanisms, RetryErrors
    <3> QED BY <1>1, <1>2, <3>3, <3>4, <3>5
  <2>8. CASE ~Abandoned(c, 1)
    <3>1. /\ InService(t) /\ Listed(t)
          /\ c.call[k].op = "queryMechanisms" => c.methods # <<>> /\ Head(c.methods) = k
      BY <1>1, <2>2, <2>3, <2>8, FinishServes DEF b, t
    <3>2. ~(c.call[k].lost /\ e.result \in RetryErrors)
      <4>1. c.call[k].lost => c.proxy[Main].path = NoPath
        BY <1>1, <2>3 DEF InService, Underway
      <4>2. c.proxy[Main].path = NoPath => Gone(c, 1)
        BY DEF Gone
      <4> QED BY <1>3, <2>2, <2>8, <4>1, <4>2 DEF Abandoned
    <3>3. c' = t
      BY <2>6, <3>2
    <3>4. AnswersMechanisms(e) => c.call[k].op = "queryMechanisms"
      BY DEF AnswersMechanisms
    <3> QED BY <1>1, <1>2, <3>1, <3>3, <3>4
  <2> QED BY <2>7, <2>8
<1> QED
  BY <1>3, <1>4, <1>5, <1>6

LEMMA ServiceCallServes ==
    ASSUME ClientInv, ServiceInv, sendRequest \/ queryMechanisms
    PROVE  InService(c') /\ Listed(c') /\ ~mixed'
<1> DEFINE n == Len(c.call)
<1>1. /\ Placed(c, 0, d.working, canceled) /\ c.kind = "service"
      /\ InService(c) /\ Listed(c) /\ ~mixed /\ c.methods \in Seq(Nat)
      /\ UNCHANGED mixed
  BY LibraryFields DEF ClientInv, ServiceInv, Sound, Placed, sendRequest, queryMechanisms,
                       Application
<1>2. CASE sendRequest
  <2> DEFINE t == queueCall(c, "request")
  <2>1. c' = t
    BY <1>2 DEF sendRequest
  <2>2. InService(t) /\ OneMore(c, t, "request")
    BY <1>1, QueueCallServes DEF ServiceOps
  <2> HIDE DEF t
  <2>3. Listed(t)
    BY <1>1, <2>2, ListedMore DEF OneMore
  <2> QED BY <1>1, <2>1, <2>2, <2>3
<1>3. CASE queryMechanisms
  <2> DEFINE u == queueCall(c, "queryMechanisms")
             v == Append(u.methods, n + 1)
             t == [u EXCEPT !.methods = v]
  <2>1. c' = t
    BY <1>3 DEF queryMechanisms
  <2>2. InService(u) /\ OneMore(c, u, "queryMechanisms")
    BY <1>1, QueueCallServes DEF ServiceOps
  <2> HIDE DEF u
  <2>3. u \in Library /\ n \in Nat /\ u.methods = c.methods
    BY <2>2 DEF OneMore
  <2> HIDE DEF n
  <2>4. v \in Seq(Nat)
    BY <1>1, <2>3
  <2>5. /\ t \in Library /\ t.methods = v /\ t.kind = u.kind
        /\ t.call = u.call /\ t.proxy = u.proxy /\ t.out = u.out /\ t.in = u.in
        /\ t.online = u.online /\ t.service = u.service /\ t.starting = u.starting
    <3> HIDE DEF v
    <3> QED BY <2>3, <2>4 DEF Library
  <2> HIDE DEF t
  <2>6. InService(t)
    <3>1. /\ \A k : Undone(t, k) <=> Undone(u, k)
          /\ \A k : Replied(t, k) <=> Replied(u, k)
          /\ \A i, k : ReplyTo(t, i, k) <=> ReplyTo(u, i, k)
          /\ \A i : Abandoned(t, i) <=> Abandoned(u, i)
      BY <2>5 DEF Undone, Replied, ReplyTo, Abandoned, Gone
    <3>2. Simple(t)
      BY <2>2, <2>5 DEF InService, Simple
    <3>3. Ordered(t) /\ AbandonedLast(t)
      BY <2>2, <2>5, <3>1 DEF InService, Ordered, AbandonedLast
    <3>4. Underway(t) /\ Leaving(t)
      BY <2>2, <2>5, <3>1 DEF InService, Underway, Leaving
    <3>5. /\ Waiting(t) <=> Waiting(u)
          /\ Connected(t) <=> Connected(u)
          /\ Lost(t) <=> Lost(u)
      BY <2>5 DEF Waiting, Connected, Lost
    <3> QED BY <2>2, <3>2, <3>3, <3>4, <3>5 DEF InService
  <2>7. Listed(t)
    <3>1. /\ DOMAIN c.call = 1..n /\ DOMAIN t.call = 1..n+1
          /\ \A k \in 1..n : t.call[k].op = c.call[k].op /\ (Undone(t, k) <=> Undone(c, k))
          /\ t.call[n + 1].op = "queryMechanisms" /\ Undone(t, n + 1)
          /\ t.methods = Append(c.methods, n + 1)
      BY <2>2, <2>3, <2>5 DEF OneMore, Undone, n
    <3> QED BY <1>1, <2>3, <3>1, ListedMore
  <2> QED BY <1>1, <2>1, <2>6, <2>7
<1> QED
  BY <1>2, <1>3

-----------------------------------------------------------------------------
(* What signond does for a service *)

\* A request leaves for the daemon object, which is known.
LEMMA RequestKnown ==
    ASSUME ClientInv, ServiceInv, c.kind = "service", c.out # <<>>
    PROVE  /\ Connected(c) /\ c.online
           /\ Request = c.out[1] /\ 1 \in DOMAIN c.out
           /\ Request \in DOMAIN c.call /\ c.call[Request].state = "sent"
           /\ ~IsRegistration(Request) /\ Target = DaemonPath
           /\ c.call[Request].op \in ServiceOps
<1>1. Placed(c, 0, d.working, canceled) /\ InService(c) /\ c \in Library
  BY DEF ClientInv, ServiceInv, Sound, Placed
<1>2. Connected(c) /\ c.online
  BY <1>1 DEF InService, Waiting, Lost, Connected
<1>3. Request = c.out[1] /\ 1 \in DOMAIN c.out
  BY <1>1, LibraryFields DEF Request
<1>4. Request \in DOMAIN c.call /\ c.call[Request].state = "sent"
  BY <1>1, <1>3 DEF Placed, Outgoing
<1>5. c.call[Request].on = Main /\ c.call[Request].op \in ServiceOps
  BY <1>1, <1>4 DEF InService, Simple
<1>6. c.call[Request].path = DaemonPath
  BY <1>2, <1>4 DEF Connected
<1> QED
  BY <1>2, <1>3, <1>4, <1>5, <1>6 DEF IsRegistration, Target

\* Of what else signond does, nothing concerns a service.
LEMMA NothingElse ==
    ASSUME ClientInv, ServiceInv, c.kind = "service"
    PROVE  /\ ~registerObject /\ ~refuse /\ ~unknownObject /\ ~begin /\ ~serveStore
           /\ ~complete /\ ~unregister /\ ~others /\ ~postedFail
           /\ ~queryAvailableMechanisms /\ ~setId /\ ~process /\ ~cancel
           /\ ~verifyUser /\ ~storeCredentials /\ ~remove /\ ~signOut /\ ~queryInfo
<1>1. ~registerObject /\ ~refuse
  BY RequestKnown DEF registerObject, refuse
<1>2. ~unknownObject
  BY RequestKnown DEF unknownObject, Serving, Known
<1>3. ~begin /\ ~serveStore
  BY RequestKnown DEF begin, serveStore, Serving, Long, ServiceOps
<1>4. ~complete /\ ~unregister /\ ~others
  BY DEF ServiceInv, complete, unregister, others
<1>5. ~postedFail
  BY DEF ServiceInv, InService, Simple, postedFail
<1>6. /\ ~queryAvailableMechanisms /\ ~setId /\ ~process /\ ~cancel
      /\ ~verifyUser /\ ~storeCredentials /\ ~remove /\ ~signOut /\ ~queryInfo
  BY DEF queryAvailableMechanisms, setId, process, cancel, verifyUser, storeCredentials,
         remove, signOut, queryInfo, Application
<1> QED
  BY <1>1, <1>2, <1>3, <1>4, <1>5, <1>6

LEMMA AnswerStanding ==
    ASSUME NEW s \in Library, s.out # <<>>, s.online, NEW k \in DOMAIN s.call, NEW e \in Event
    PROVE  LET t == Answer([s EXCEPT !.out = Tail(@)], k, <<e>>) IN
           /\ Standing(s, t) /\ t.proxy = s.proxy
           /\ t.out = Tail(s.out) /\ t.in = s.in \o <<e>>
           /\ DOMAIN t.call = DOMAIN s.call
           /\ \A j \in DOMAIN s.call :
                /\ t.call[j].on = s.call[j].on /\ t.call[j].op = s.call[j].op
                /\ t.call[j].state = s.call[j].state /\ t.call[j].path = s.call[j].path
                /\ t.call[j].lost = s.call[j].lost
<1> DEFINE out == Tail(s.out)
           in == s.in \o <<e>>
           call == [s.call[k] EXCEPT !.served = @ + 1]
           v == [s.call EXCEPT ![k] = call]
           o == [s EXCEPT !.out = out]
           u == [o EXCEPT !.call = v]
           t == [u EXCEPT !.in = in]
<1>1. s.out \in Seq(Nat) /\ s.in \in Seq(Event) /\ s.call \in Seq(CallRecord)
      /\ s.call[k] \in CallRecord
  BY LibraryFields, CallFields
<1>2. out \in Seq(Nat) /\ in \in Seq(Event)
  BY <1>1
<1>3. call \in CallRecord /\ call.on = s.call[k].on /\ call.op = s.call[k].op
      /\ call.state = s.call[k].state /\ call.path = s.call[k].path
      /\ call.lost = s.call[k].lost
  <2> DEFINE r == s.call[k]
  <2>1. r \in CallRecord
    BY <1>1
  <2>2. call = [r EXCEPT !.served = r.served + 1]
    OBVIOUS
  <2> HIDE DEF r, call
  <2>3. r.served + 1 \in Nat
    BY <2>1 DEF CallRecord
  <2>4. call \in CallRecord /\ call.on = r.on /\ call.op = r.op
        /\ call.state = r.state /\ call.path = r.path /\ call.lost = r.lost
    BY <2>1, <2>2, <2>3 DEF CallRecord
  <2> QED BY <2>4 DEF r
<1>4. [s.call EXCEPT ![k].served = @ + 1] = v
  BY <1>1
<1> HIDE DEF call
<1>5. /\ v \in Seq(CallRecord) /\ DOMAIN v = DOMAIN s.call
      /\ \A j \in DOMAIN s.call :
           /\ v[j].on = s.call[j].on /\ v[j].op = s.call[j].op
           /\ v[j].state = s.call[j].state /\ v[j].path = s.call[j].path
           /\ v[j].lost = s.call[j].lost
  BY <1>1, <1>3
<1>6. Answer([s EXCEPT !.out = Tail(@)], k, <<e>>) = t
  <2>1. [s EXCEPT !.out = Tail(@)] = o
    OBVIOUS
  <2>2. Standing(s, o) /\ o.out = out /\ o.call = s.call /\ o.proxy = s.proxy /\ o.in = s.in
    BY <1>2, OutStanding
  <2> HIDE DEF o, v
  <2>3. [o EXCEPT !.call[k].served = @ + 1] = u
    BY <1>4, <2>2 DEF Standing, Library
  <2>4. Standing(o, u) /\ u.call = v /\ u.proxy = o.proxy /\ u.out = o.out /\ u.in = o.in
    BY <1>5, <2>2, CallsStanding DEF Standing
  <2> HIDE DEF u
  <2>5. Answer(o, k, <<e>>) = [u EXCEPT !.in = @ \o <<e>>]
    BY <2>2, <2>3, <2>4 DEF Answer, Sent, Standing
  <2> QED BY <2>1, <2>2, <2>4, <2>5
<1> HIDE DEF v, out, in
<1>7. Standing(s, o) /\ o.out = out /\ o.call = s.call /\ o.proxy = s.proxy /\ o.in = s.in
  BY <1>2, OutStanding
<1> HIDE DEF o
<1>8. Standing(o, u) /\ u.call = v /\ u.proxy = o.proxy /\ u.out = o.out /\ u.in = o.in
  BY <1>5, <1>7, CallsStanding DEF Standing
<1> HIDE DEF u
<1>9. Standing(u, t) /\ t.in = in /\ t.call = u.call /\ t.proxy = u.proxy /\ t.out = u.out
  BY <1>2, <1>8, InStanding DEF Standing
<1> HIDE DEF t
<1>10. Standing(s, t)
  BY <1>7, <1>8, <1>9, StandingOn
<1>11. t.call = v /\ t.proxy = s.proxy /\ t.out = out /\ t.in = in
  BY <1>7, <1>8, <1>9
<1> QED
  BY <1>5, <1>6, <1>10, <1>11 DEF out, in

LEMMA ServeServes ==
    ASSUME ClientInv, ServiceInv, c.kind = "service", serve
    PROVE  InService(c') /\ Listed(c') /\ UNCHANGED <<d, mixed>>
<1>1. /\ Placed(c, 0, d.working, canceled) /\ InService(c) /\ Listed(c) /\ c \in Library
      /\ c.out # <<>> /\ UNCHANGED <<d, mixed>>
  BY DEF ClientInv, ServiceInv, Sound, Placed, serve, Serving
<1> DEFINE k == Request
           n == Len(c.call)
           m == Len(c.in)
           l == Len(c.out)
           t == c'
<1>2. /\ Connected(c) /\ c.online /\ k = c.out[1] /\ 1 \in DOMAIN c.out
      /\ k \in DOMAIN c.call /\ c.call[k].state = "sent"
  BY <1>1, RequestKnown
<1>3. PICK result \in {"ok", "refused"} :
         t = Answer([c EXCEPT !.out = Tail(@)], k, <<Reply(k, result, NoPath)>>)
  BY DEF serve, Taken
<1> DEFINE e == Reply(k, result, NoPath)
<1>4. /\ e \in Event /\ e.type = "reply" /\ e.call = k
      /\ e.result = result /\ result \notin RetryErrors
  <2>1. k \in Nat
    BY <1>1, <1>2, CallFields
  <2>2. result \in Results /\ result \notin RetryErrors /\ NoPath \in Nat
    BY DEF Results, RetryErrors, NoPath
  <2> HIDE DEF k
  <2> QED BY <2>1, <2>2, ReplyIsEvent, EventTypes
<1>5. t = Answer([c EXCEPT !.out = Tail(@)], k, <<e>>)
  BY <1>3
<1> HIDE DEF k, e, t
<1>6. /\ Standing(c, t) /\ t.proxy = c.proxy
      /\ t.out = Tail(c.out) /\ t.in = c.in \o <<e>>
      /\ DOMAIN t.call = DOMAIN c.call
      /\ \A j \in DOMAIN c.call :
           /\ t.call[j].on = c.call[j].on /\ t.call[j].op = c.call[j].op
           /\ t.call[j].state = c.call[j].state /\ t.call[j].path = c.call[j].path
           /\ t.call[j].lost = c.call[j].lost
  <2> DEFINE u == Answer([c EXCEPT !.out = Tail(@)], k, <<e>>)
  <2>1. /\ Standing(c, u) /\ u.proxy = c.proxy
        /\ u.out = Tail(c.out) /\ u.in = c.in \o <<e>>
        /\ DOMAIN u.call = DOMAIN c.call
        /\ \A j \in DOMAIN c.call :
             /\ u.call[j].on = c.call[j].on /\ u.call[j].op = c.call[j].op
             /\ u.call[j].state = c.call[j].state /\ u.call[j].path = c.call[j].path
             /\ u.call[j].lost = c.call[j].lost
    BY <1>1, <1>2, <1>4, AnswerStanding
  <2> HIDE DEF u
  <2>2. t = u
    BY <1>5 DEF u
  <2> QED BY <2>1, <2>2
<1>7. /\ n \in Nat /\ DOMAIN c.call = 1..n /\ c.in \in Seq(Event) /\ c.out \in Seq(Nat)
      /\ <<e>> \in Seq(Event) /\ Append(c.in, e) = c.in \o <<e>>
  BY <1>1, <1>4, LibraryFields, AppendConcat
<1>8. /\ m \in Nat /\ DOMAIN c.in = 1..m /\ DOMAIN t.in = 1..m+1
      /\ \A i \in 1..m : t.in[i] = c.in[i]
      /\ t.in[m + 1] = e
  BY <1>4, <1>6, <1>7, AppendFacts
<1>9. /\ l \in Nat \ {0} /\ DOMAIN c.out = 1..l /\ DOMAIN t.out = 1..l-1
      /\ \A i \in 1..l-1 : t.out[i] = c.out[i + 1]
  BY <1>1, <1>6, <1>7
<1> HIDE DEF n, m, l
<1>10. \A i \in 1..m+1 : i \in 1..m \/ i = m + 1
  BY <1>8
<1>11. ASSUME NEW i \in DOMAIN t.in PROVE ~Gone(t, i)
  <2>1. \A j \in 1..m : c.in[j].type # "disconnected"
    BY <1>2, <1>8 DEF Connected
  <2>2. \A j \in DOMAIN t.in : t.in[j].type # "disconnected"
    BY <1>4, <1>8, <1>10, <2>1
  <2>3. \A g \in 1..i-1 : g \in DOMAIN t.in
    BY <1>8
  <2>4. t.proxy[Main].path # NoPath
    BY <1>2, <1>6 DEF Connected, NoPath, DaemonPath
  <2> QED BY <2>2, <2>3, <2>4 DEF Gone
<1>12. \A j \in 1..n : Undone(t, j) <=> Undone(c, j)
  BY <1>6, <1>7 DEF Undone
<1>13. ReplyTo(t, m + 1, k) /\ m + 1 \in DOMAIN t.in
  BY <1>4, <1>8 DEF ReplyTo, IsReply
<1>14. \A j : Replied(c, j) => \E h \in 1..m : ReplyTo(t, h, j)
  BY <1>8 DEF Replied, ReplyTo
<1>15. Ordered(t) /\ AbandonedLast(t)
  <2>1. \A i \in DOMAIN c.in : IsReply(c.in[i]) =>
           \A j \in 1..c.in[i].call-1 : Undone(t, j) => Undone(c, j)
    <3>1. ASSUME NEW i \in DOMAIN c.in, IsReply(c.in[i]), NEW j \in 1..c.in[i].call-1
          PROVE  j \in 1..n
      <4>1. c.in[i].call \in 1..n
        BY <1>1, <1>7, <3>1 DEF Placed, Incoming
      <4> QED BY <1>7, <4>1
    <3> QED BY <1>12, <3>1
  <2>2. ASSUME NEW i \in DOMAIN t.in \ DOMAIN c.in, NEW j \in 1..t.in[i].call-1, Undone(t, j)
        PROVE  \E h \in 1..i-1 : ReplyTo(t, h, j)
    <3>1. i = m + 1 /\ j \in 1..k-1
      BY <1>4, <1>8, <1>10, <2>2
    <3>2. j \in 1..n
      BY <1>2, <1>7, <3>1
    <3>3. \A h \in 1..1-1 : FALSE
      OBVIOUS
    <3>4. Replied(c, j)
      BY <1>1, <1>2, <1>12, <2>2, <3>1, <3>2, <3>3 DEF InService, Leaving
    <3> QED BY <1>8, <1>14, <3>1, <3>4
  <2>3. \A i \in DOMAIN t.in : ~Abandoned(t, i)
    BY <1>11 DEF Abandoned
  <2>4. Ordered(c) /\ AbandonedLast(c) /\ t.proxy[Main].path = c.proxy[Main].path
    BY <1>1, <1>6 DEF InService
  <2> QED BY <1>6, <1>7, <2>1, <2>2, <2>3, <2>4, Lengthened
<1>16. Simple(t)
  <2>1. \A i \in DOMAIN t.in : t.in[i].type \in {"reply", "disconnected", "activated"}
    BY <1>1, <1>4, <1>8, <1>10 DEF InService, Simple
  <2> QED BY <1>1, <1>6, <2>1 DEF InService, Simple, Standing
<1>17. Connected(t)
  <2>1. \A i \in DOMAIN t.in : t.in[i].type # "activated" /\ t.in[i].type # "disconnected"
    BY <1>2, <1>4, <1>8, <1>10 DEF Connected
  <2>2. t.online /\ ~t.starting
    BY <1>2, <1>6 DEF Connected, Standing
  <2>3. /\ \A j \in DOMAIN t.call : t.call[j].state # "queued"
        /\ \A j \in DOMAIN t.call : t.call[j].state = "sent" => t.call[j].path = DaemonPath
    BY <1>2, <1>6 DEF Connected
  <2>4. /\ t.proxy[Main].path = DaemonPath /\ t.proxy[Main].conn
        /\ t.proxy[Main].status = "Ready" /\ t.proxy[Main].queue = <<>>
    BY <1>2, <1>6 DEF Connected
  <2> QED BY <2>1, <2>2, <2>3, <2>4 DEF Connected
<1>18. \A j : In(j, c.out) => j = k \/ In(j, t.out)
  <2> SUFFICES ASSUME NEW i \in 1..l PROVE c.out[i] = k \/ In(c.out[i], t.out)
    BY <1>9 DEF In
  <2>1. CASE i = 1
    BY <1>2, <2>1
  <2>2. CASE i # 1
    <3>1. i - 1 \in 1..l-1 /\ (i - 1) + 1 = i
      BY <1>9, <2>2
    <3> QED BY <1>9, <3>1 DEF In
  <2> QED BY <2>1, <2>2
<1>19. \A j : Replied(c, j) \/ j = k => Replied(t, j)
  <2>1. Replied(t, k)
    BY <1>13 DEF Replied
  <2>2. \A h \in 1..m : h \in DOMAIN t.in
    BY <1>8
  <2>3. \A j : Replied(c, j) => Replied(t, j)
    BY <1>14, <2>2 DEF Replied
  <2> QED BY <2>1, <2>3
<1>20. Underway(t)
  BY <1>1, <1>6, <1>18, <1>19 DEF InService, Underway
<1>21. Leaving(t)
  <2> SUFFICES ASSUME NEW i \in 1..l-1, NEW j \in 1..t.out[i]-1, Undone(t, j)
               PROVE  Replied(t, j) \/ \E h \in 1..i-1 : t.out[h] = j
    BY <1>9 DEF Leaving
  <2>1. i + 1 \in DOMAIN c.out /\ t.out[i] = c.out[i + 1] /\ c.out[i + 1] \in 1..n
    <3>1. i + 1 \in DOMAIN c.out /\ t.out[i] = c.out[i + 1]
      BY <1>9
    <3> QED BY <1>1, <1>7, <3>1 DEF Placed, Outgoing
  <2>2. j \in 1..n /\ j \in 1..c.out[i + 1]-1
    BY <1>7, <2>1
  <2>3. Replied(c, j) \/ \E h \in 1..(i+1)-1 : c.out[h] = j
    BY <1>1, <1>12, <2>1, <2>2 DEF InService, Leaving
  <2>4. ASSUME NEW h \in 1..(i+1)-1, c.out[h] = j
        PROVE  j = k \/ \E g \in 1..i-1 : t.out[g] = j
    <3>1. CASE h = 1
      BY <1>2, <2>4, <3>1
    <3>2. CASE h # 1
      <4>1. h - 1 \in 1..i-1 /\ h - 1 \in 1..l-1 /\ (h - 1) + 1 = h
        BY <1>9, <3>2
      <4> QED BY <1>9, <2>4, <4>1
    <3> QED BY <3>1, <3>2
  <2> QED BY <1>19, <2>3, <2>4
<1>22. Listed(t)
  BY <1>1, <1>6, <1>7, <1>12, ListedSame DEF Standing
<1> QED
  BY <1>1, <1>15, <1>16, <1>17, <1>20, <1>21, <1>22 DEF InService, t

-----------------------------------------------------------------------------
(* signond ends, and comes back *)

\* Numbers in ascending order, each of them once
Ascending(V, ks, N) ==
    /\ N \in Nat /\ DOMAIN ks = 1..N
    /\ \A i \in 1..N : ks[i] \in V
    /\ \A i, j \in 1..N : i < j => ks[i] < ks[j]
    /\ \A k \in V : \E i \in 1..N : ks[i] = k

LEMMA InAscendingOrder ==
    ASSUME NEW V, V \subseteq Nat, IsFiniteSet(V), NEW ks, ks \in InOrder(V)
    PROVE  Ascending(V, ks, Cardinality(V))
<1> DEFINE N == Cardinality(V)
<1>1. ks \in SetToSeqs(V) /\ \A i, j \in DOMAIN ks : i < j => ks[i] < ks[j]
  BY DEF InOrder
<1>2. ks \in [1..N -> V] /\ \A i, j \in 1..N : i # j => ks[i] # ks[j]
  BY <1>1 DEF SetToSeqs
<1>3. N \in Nat
  BY FS_CardinalityType
<1>4. IsFiniteSet(1..N) /\ Cardinality(1..N) = N
  <2> HIDE DEF N
  <2> QED BY <1>3, FS_Interval
<1>5. ks \in Surjection(1..N, V)
  <2>1. ks \in Injection(1..N, V)
    BY <1>2 DEF Injection, IsInjective
  <2> QED BY <1>4, <2>1, FS_Injection
<1>6. \A k \in V : \E i \in 1..N : ks[i] = k
  BY <1>5 DEF Surjection
<1> QED
  BY <1>1, <1>2, <1>3, <1>6 DEF Ascending

\* What the library has been told when signond has ended: the failure of the
\* calls not answered, in the order they were made, and the disconnection.
Ends(s, t, N, ks, result, b, g) ==
    LET m == Len(s.in)
    IN  /\ DOMAIN t.in = 1..m + N + 1
        /\ \A i \in 1..m : t.in[i] = s.in[i]
        /\ g \in 1..N + 1 /\ t.in[m + g].type = "disconnected"
        /\ b \in {0, 1}
        /\ \A i \in 1..N : /\ m + i + b \in 1..m + N + 1 /\ i + b # g
                           /\ t.in[m + i + b].type = "reply"
                           /\ t.in[m + i + b].call = ks[i]
                           /\ t.in[m + i + b].result = result
        /\ \A i \in 1..m + N + 1 :
              i \in 1..m \/ i = m + g \/ \E q \in 1..N : i = m + q + b

LEMMA TheEnd ==
    ASSUME NEW s, NEW t, s.in \in Seq(Event), NEW N \in Nat, NEW ks, DOMAIN ks = 1..N,
           \A i \in 1..N : ks[i] \in Nat, NEW result \in Results, NEW before \in BOOLEAN,
           t.in = s.in \o (LET failed == [i \in DOMAIN ks |-> Reply(ks[i], result, NoPath)]
                               gone   == <<[type |-> "disconnected"]>>
                           IN  IF before THEN failed \o gone ELSE gone \o failed)
    PROVE  /\ \E es \in Seq(Event) : t.in = s.in \o es
           /\ \E b, g : Ends(s, t, N, ks, result, b, g)
<1> DEFINE failed == [i \in DOMAIN ks |-> Reply(ks[i], result, NoPath)]
           e      == [type |-> "disconnected"]
           gone   == <<e>>
           es     == IF before THEN failed \o gone ELSE gone \o failed
           m      == Len(s.in)
           b      == IF before THEN 0 ELSE 1
           g      == IF before THEN N + 1 ELSE 1
<1>1. t.in = s.in \o es
  OBVIOUS
<1>2. e \in Event /\ e.type = "disconnected" /\ gone \in Seq(Event)
      /\ Len(gone) = 1 /\ gone[1] = e
  BY DEF Event
<1>3. /\ failed \in Seq(Event) /\ Len(failed) = N
      /\ \A i \in 1..N : /\ failed[i].type = "reply" /\ failed[i].call = ks[i]
                         /\ failed[i].result = result
  <2>1. \A i \in 1..N : /\ Reply(ks[i], result, NoPath) \in Event
                        /\ Reply(ks[i], result, NoPath).type = "reply"
                        /\ Reply(ks[i], result, NoPath).call = ks[i]
                        /\ Reply(ks[i], result, NoPath).result = result
    BY ReplyIsEvent, EventTypes DEF NoPath
  <2> QED BY <2>1
<1> HIDE DEF failed, gone
<1>4. /\ failed \o gone \in Seq(Event) /\ gone \o failed \in Seq(Event)
      /\ ConcatFacts(failed, gone) /\ ConcatFacts(gone, failed)
  BY <1>2, <1>3, Concatenated
<1>5. es \in Seq(Event)
  BY <1>4
<1>6. /\ DOMAIN es = 1..N + 1 /\ Len(es) = N + 1
      /\ g \in 1..N + 1 /\ es[g].type = "disconnected"
      /\ b \in {0, 1}
      /\ \A i \in 1..N : i + b \in 1..N + 1 /\ i + b # g /\ es[i + b] = failed[i]
      /\ \A i \in 1..N + 1 : i = g \/ \E q \in 1..N : i = q + b
  <2>1. CASE before
    <3>1. es = failed \o gone /\ b = 0 /\ g = N + 1
      BY <2>1
    <3> HIDE DEF es, b, g
    <3>2. DOMAIN es = 1..N + 1 /\ Len(es) = N + 1
      BY <1>2, <1>3, <1>4, <1>5, <3>1 DEF ConcatFacts
    <3>3. es[N + 1] = gone[(N + 1) - N]
      BY <1>2, <1>3, <1>4, <3>1 DEF ConcatFacts
    <3>4. (N + 1) - N = 1
      OBVIOUS
    <3>5. es[g].type = "disconnected"
      BY <1>2, <3>1, <3>3, <3>4
    <3>6. \A i \in 1..N : i + 0 = i /\ es[i] = failed[i]
      BY <1>3, <1>4, <3>1 DEF ConcatFacts
    <3>7. \A i \in 1..N + 1 : i = N + 1 \/ \E q \in 1..N : i = q + 0
      OBVIOUS
    <3> QED BY <3>1, <3>2, <3>5, <3>6, <3>7
  <2>2. CASE ~before
    <3>1. es = gone \o failed /\ b = 1 /\ g = 1
      BY <2>2
    <3> HIDE DEF es, b, g
    <3>2. DOMAIN es = 1..N + 1 /\ Len(es) = N + 1
      BY <1>2, <1>3, <1>4, <1>5, <3>1 DEF ConcatFacts
    <3>3. es[1] = gone[1]
      BY <1>2, <1>4, <3>1 DEF ConcatFacts
    <3>4. es[g].type = "disconnected"
      BY <1>2, <3>1, <3>3
    <3>5. ASSUME NEW i \in 1..N PROVE es[i + 1] = failed[i]
      <4>1. i + 1 \in 1+1..1 + N /\ (i + 1) - 1 = i
        OBVIOUS
      <4> QED BY <1>2, <1>3, <1>4, <3>1, <4>1 DEF ConcatFacts
    <3>6. \A i \in 1..N + 1 : i = 1 \/ \E q \in 1..N : i = q + 1
      <4> SUFFICES ASSUME NEW i \in 1..N + 1, i # 1 PROVE \E q \in 1..N : i = q + 1
        OBVIOUS
      <4>1. i - 1 \in 1..N /\ i = (i - 1) + 1
        OBVIOUS
      <4> QED BY <4>1
    <3> QED BY <3>1, <3>2, <3>4, <3>5, <3>6
  <2> QED BY <2>1, <2>2
<1> HIDE DEF es, b, g
<1>7. ConcatFacts(s.in, es)
  BY <1>5, Concatenated
<1>8. /\ m \in Nat /\ DOMAIN s.in = 1..m
      /\ DOMAIN t.in = 1..m + N + 1
      /\ \A i \in 1..m : t.in[i] = s.in[i]
      /\ \A i \in m+1..m + (N + 1) : i - m \in 1..N+1 /\ t.in[i] = es[i - m]
  <2> HIDE DEF m
  <2>1. /\ m \in Nat /\ DOMAIN s.in = 1..m /\ DOMAIN t.in = 1..m + (N + 1)
        /\ \A i \in 1..m : t.in[i] = s.in[i]
        /\ \A i \in m+1..m + (N + 1) : i - m \in 1..N+1 /\ t.in[i] = es[i - m]
    <3>1. Len(es) = N + 1
      BY <1>6
    <3> QED BY <1>1, <1>7, <3>1 DEF ConcatFacts, m
  <2>2. m + (N + 1) = m + N + 1
    BY <2>1
  <2> QED BY <2>1, <2>2
<1> HIDE DEF m
<1>9. ASSUME NEW i \in 1..N + 1 PROVE t.in[m + i] = es[i] /\ m + i \in 1..m + N + 1
  <2>1. m + i \in m+1..m + (N + 1) /\ (m + i) - m = i /\ m + i \in 1..m + N + 1
    BY <1>8
  <2> QED BY <1>8, <2>1
<1>10. ASSUME NEW i \in 1..N
       PROVE  /\ m + i + b \in 1..m + N + 1 /\ i + b # g
              /\ t.in[m + i + b].type = "reply"
              /\ t.in[m + i + b].call = ks[i]
              /\ t.in[m + i + b].result = result
  <2>1. i \in Nat /\ b \in Nat /\ m \in Nat
    BY <1>6, <1>8
  <2>2. m + (i + b) = m + i + b
    BY <2>1
  <2>3. i + b \in 1..N + 1 /\ i + b # g /\ es[i + b] = failed[i]
    BY <1>6
  <2>4. t.in[m + i + b] = failed[i] /\ m + i + b \in 1..m + N + 1
    BY <1>9, <2>2, <2>3
  <2> QED BY <1>3, <2>3, <2>4
<1>11. ASSUME NEW i \in 1..m + N + 1
       PROVE  i \in 1..m \/ i = m + g \/ \E q \in 1..N : i = m + q + b
  <2>1. CASE i \in 1..m
    BY <2>1
  <2>2. CASE i \notin 1..m
    <3>1. i - m \in 1..N + 1 /\ i = m + (i - m)
      BY <1>8, <2>2
    <3>2. CASE i - m = g
      BY <3>1, <3>2
    <3>3. ASSUME NEW q \in 1..N, i - m = q + b PROVE i = m + q + b
      BY SMTT(20), <1>6, <1>8, <3>3
    <3> QED BY <1>6, <3>1, <3>2, <3>3
  <2> QED BY <2>1, <2>2
<1>12. Ends(s, t, N, ks, result, b, g)
  BY <1>6, <1>8, <1>9, <1>10, <1>11 DEF Ends, m
<1> QED
  BY <1>1, <1>5, <1>12

LEMMA WhenItEnds ==
    ASSUME ClientInv, die
    PROVE  \E result \in {"Disconnected", "NoReply"}, before \in BOOLEAN,
              ks \in InOrder(Unanswered) :
             /\ c' \in Library
             /\ c'.kind = c.kind /\ c'.methods = c.methods /\ c'.proxy = c.proxy
             /\ c'.service = c.service /\ c'.starting = c.starting
             /\ ~c'.online /\ c'.out = <<>>
             /\ DOMAIN c'.call = DOMAIN c.call
             /\ \A k \in DOMAIN c.call :
                  /\ c'.call[k].on = c.call[k].on /\ c'.call[k].op = c.call[k].op
                  /\ c'.call[k].state = c.call[k].state /\ c'.call[k].path = c.call[k].path
                  /\ c'.call[k].lost = c.call[k].lost
             /\ ~c.online => c'.in = c.in
             /\ c.online =>
                  c'.in = c.in \o
                    (LET failed == [i \in DOMAIN ks |-> Reply(ks[i], result, NoPath)]
                         gone   == <<[type |-> "disconnected"]>>
                     IN  IF before THEN failed \o gone ELSE gone \o failed)
<1>1. c \in Library /\ c' \in Library
  BY DieInv DEF ClientInv, Sound, Placed
<1>2. PICK result \in {"Disconnected", "NoReply"}, before \in BOOLEAN,
           ks \in InOrder(Unanswered) :
         LET failed == [i \in DOMAIN ks |-> Reply(ks[i], result, NoPath)]
             gone   == <<[type |-> "disconnected"]>>
         IN  c' = [Sent(c, IF before THEN failed \o gone ELSE gone \o failed) EXCEPT
                     !.up = FALSE, !.online = FALSE, !.out = <<>>,
                     !.call = [k \in DOMAIN @ |-> [@[k] EXCEPT !.served = 0]]]
  BY DEF die
<1> DEFINE failed == [i \in DOMAIN ks |-> Reply(ks[i], result, NoPath)]
           gone   == <<[type |-> "disconnected"]>>
           es     == IF before THEN failed \o gone ELSE gone \o failed
           v      == [k \in DOMAIN c.call |-> [c.call[k] EXCEPT !.served = 0]]
           s      == Sent(c, es)
<1>3. c' = [s EXCEPT !.up = FALSE, !.online = FALSE, !.out = <<>>,
                     !.call = [k \in DOMAIN @ |-> [@[k] EXCEPT !.served = 0]]]
  BY <1>2
<1>4. \A k \in DOMAIN c.call :
         /\ v[k].on = c.call[k].on /\ v[k].op = c.call[k].op
         /\ v[k].state = c.call[k].state /\ v[k].path = c.call[k].path
         /\ v[k].lost = c.call[k].lost
  BY <1>1, CallFields DEF CallRecord
<1>5. DOMAIN v = DOMAIN c.call
  OBVIOUS
<1> HIDE DEF es
<1>6. /\ DOMAIN s = DOMAIN c /\ s.call = c.call /\ s.kind = c.kind
      /\ s.methods = c.methods /\ s.proxy = c.proxy
      /\ s.service = c.service /\ s.starting = c.starting
      /\ ~c.online => s.in = c.in
      /\ c.online => s.in = c.in \o es
  BY <1>1 DEF Sent, Library
<1> HIDE DEF s
<1>7. DOMAIN s = {"kind", "up", "online", "service", "starting", "proxy", "call", "out", "in",
                  "registering", "process", "state", "id", "methods", "asserted"}
  BY <1>1, <1>6 DEF Library
<1>8. [k \in DOMAIN s.call |-> [s.call[k] EXCEPT !.served = 0]] = v
  BY <1>6
<1>9. c' = [s EXCEPT !.up = FALSE, !.online = FALSE, !.out = <<>>, !.call = v]
  <2> HIDE DEF v
  <2> QED BY <1>3, <1>8
<1> HIDE DEF v
<1>10. /\ c'.kind = c.kind /\ c'.methods = c.methods /\ c'.proxy = c.proxy
       /\ c'.service = c.service /\ c'.starting = c.starting
       /\ ~c'.online /\ c'.out = <<>>
       /\ c'.call = v /\ c'.in = s.in
  BY <1>6, <1>7, <1>9
<1>11. c.online => c'.in = c.in \o
                    (LET f == [i \in DOMAIN ks |-> Reply(ks[i], result, NoPath)]
                         g == <<[type |-> "disconnected"]>>
                     IN  IF before THEN f \o g ELSE g \o f)
  BY <1>6, <1>10 DEF es
<1> QED
  BY <1>1, <1>4, <1>5, <1>6, <1>10, <1>11

LEMMA DieServes ==
    ASSUME ClientInv, ServiceInv, c.kind = "service", die
    PROVE  InService(c') /\ Listed(c') /\ ~mixed'
<1>1. /\ Placed(c, 0, d.working, canceled) /\ InService(c) /\ Listed(c) /\ c \in Library
      /\ ~mixed /\ UNCHANGED mixed
  BY DEF ClientInv, ServiceInv, Sound, Placed, die, Happens
<1> DEFINE V == Unanswered
           t == c'
           m == Len(c.in)
           n == Len(c.call)
           N == Cardinality(V)
           Ending(r, b, ks) ==
             LET failed == [i \in DOMAIN ks |-> Reply(ks[i], r, NoPath)]
                 gone   == <<[type |-> "disconnected"]>>
             IN  IF b THEN failed \o gone ELSE gone \o failed
<1>2. PICK result \in {"Disconnected", "NoReply"}, before \in BOOLEAN,
           ks \in InOrder(Unanswered) :
             /\ c' \in Library
             /\ c'.kind = c.kind /\ c'.methods = c.methods /\ c'.proxy = c.proxy
             /\ c'.service = c.service /\ c'.starting = c.starting
             /\ ~c'.online /\ c'.out = <<>>
             /\ DOMAIN c'.call = DOMAIN c.call
             /\ \A k \in DOMAIN c.call :
                  /\ c'.call[k].on = c.call[k].on /\ c'.call[k].op = c.call[k].op
                  /\ c'.call[k].state = c.call[k].state /\ c'.call[k].path = c.call[k].path
                  /\ c'.call[k].lost = c.call[k].lost
             /\ ~c.online => c'.in = c.in
             /\ c.online => c'.in = c.in \o Ending(result, before, ks)
  BY Zenon, WhenItEnds
<1>3. /\ n \in Nat /\ DOMAIN c.call = 1..n /\ c.in \in Seq(Event)
      /\ m \in Nat /\ DOMAIN c.in = 1..m
  BY <1>1, LibraryFields
<1> HIDE DEF V, t, m, n
<1>4. /\ t \in Library
      /\ t.kind = c.kind /\ t.methods = c.methods /\ t.proxy = c.proxy
      /\ t.service = c.service /\ t.starting = c.starting
      /\ ~t.online /\ t.out = <<>>
      /\ DOMAIN t.call = DOMAIN c.call
      /\ \A k \in DOMAIN c.call :
           /\ t.call[k].on = c.call[k].on /\ t.call[k].op = c.call[k].op
           /\ t.call[k].state = c.call[k].state /\ t.call[k].path = c.call[k].path
           /\ t.call[k].lost = c.call[k].lost
  BY <1>2 DEF t
<1>5. \A k \in 1..n : Undone(t, k) <=> Undone(c, k)
  BY <1>3, <1>4 DEF Undone
<1>6. Listed(t)
  BY <1>1, <1>3, <1>4, <1>5, ListedSame
<1>7. Leaving(t)
  BY <1>4 DEF Leaving
<1>8. CASE ~c.online
  <2>1. t.in = c.in
    BY <1>2, <1>8 DEF t
  <2>2. c.out = <<>>
    BY <1>1, <1>8 DEF InService, Waiting, Connected, Lost
  <2>3. /\ \A k : Replied(t, k) <=> Replied(c, k)
        /\ \A i, k : ReplyTo(t, i, k) <=> ReplyTo(c, i, k)
        /\ \A i : Abandoned(t, i) <=> Abandoned(c, i)
    BY <1>4, <2>1 DEF Replied, ReplyTo, Abandoned, Gone
  <2>4. Simple(t)
    BY <1>1, <1>4, <2>1 DEF InService, Simple
  <2>5. Ordered(t)
    <3>1. \A i \in DOMAIN c.in : IsReply(c.in[i]) => \A k \in 1..c.in[i].call-1 : k \in 1..n
      <4>1. \A i \in DOMAIN c.in : IsReply(c.in[i]) => c.in[i].call \in 1..n
        BY <1>1, <1>3 DEF Placed, Incoming
      <4> QED BY <1>3, <4>1
    <3> QED BY <1>1, <1>5, <2>1, <2>3, <3>1 DEF InService, Ordered
  <2>6. AbandonedLast(t)
    BY <1>1, <2>1, <2>3 DEF InService, AbandonedLast
  <2>7. Underway(t)
    BY <1>1, <1>4, <2>2, <2>3 DEF InService, Underway
  <2>8. /\ Waiting(c) => Waiting(t)
        /\ Connected(c) => Connected(t)
        /\ Lost(c) => Lost(t)
    <3>1. Len(t.call) = Len(c.call)
      BY <1>1, <1>4, LibraryFields
    <3>2. Waiting(c) => Waiting(t)
      BY <1>4, <1>8, <2>1, <3>1 DEF Waiting
    <3>3. Connected(c) => Connected(t)
      BY <1>4, <1>8, <2>1 DEF Connected
    <3>4. Lost(c) => Lost(t)
      BY <1>4 DEF Lost
    <3> QED BY <3>2, <3>3, <3>4
  <2>9. InService(t)
    BY <1>1, <1>7, <2>4, <2>5, <2>6, <2>7, <2>8 DEF InService
  <2> QED BY <1>1, <1>6, <2>9 DEF t
<1>9. CASE c.online
  <2>1. V \subseteq 1..n /\ \A k \in V : c.call[k].state = "sent" /\ ~Replied(c, k)
    BY <1>3 DEF V, Unanswered, Replied, ReplyTo, IsReply
  <2>2. \A k \in 1..n : c.call[k].state = "sent" => k \in V \/ Replied(c, k)
    BY <1>3 DEF V, Unanswered, Replied, ReplyTo, IsReply
  <2>3. IsFiniteSet(V) /\ V \subseteq Nat
    <3>1. IsFiniteSet(1..n)
      BY <1>3, FS_Interval
    <3> QED BY <1>3, <2>1, <3>1, FS_Subset
  <2>4. /\ N \in Nat /\ DOMAIN ks = 1..N
        /\ \A i \in 1..N : ks[i] \in V
        /\ \A i, j \in 1..N : i < j => ks[i] < ks[j]
        /\ \A k \in V : \E i \in 1..N : ks[i] = k
    <3>1. ks \in InOrder(V)
      BY <1>2 DEF V
    <3>2. Ascending(V, ks, N)
      BY <2>3, <3>1, InAscendingOrder
    <3> HIDE DEF N
    <3> QED BY <3>2 DEF Ascending
  <2> HIDE DEF N
  <2>5. t.in = c.in \o Ending(result, before, ks)
    BY <1>2, <1>9 DEF t
  <2>6. /\ \E es \in Seq(Event) : t.in = c.in \o es
        /\ \E b, g : Ends(c, t, N, ks, result, b, g)
    <3>1. result \in Results
      BY DEF Results
    <3>2. \A i \in 1..N : ks[i] \in Nat
      BY <2>3, <2>4
    <3> QED BY <1>3, <2>4, <2>5, <3>1, <3>2, TheEnd
  <2> HIDE DEF Ending
  <2>7. PICK b, g : Ends(c, t, N, ks, result, b, g)
    BY <2>6
  <2>8. /\ DOMAIN t.in = 1..m + N + 1
        /\ \A i \in 1..m : t.in[i] = c.in[i]
        /\ g \in 1..N + 1 /\ t.in[m + g].type = "disconnected" /\ m + g \in 1..m + N + 1
        /\ b \in {0, 1}
        /\ \A i \in 1..N : /\ m + i + b \in 1..m + N + 1
                           /\ t.in[m + i + b].type = "reply"
                           /\ t.in[m + i + b].call = ks[i]
                           /\ t.in[m + i + b].result = result
        /\ \A i \in 1..m + N + 1 :
              i \in 1..m \/ i = m + g \/ \E q \in 1..N : i = m + q + b
    <3>1. g \in 1..N + 1 => m + g \in 1..m + N + 1
      BY <1>3, <2>4
    <3> QED BY <2>7, <3>1 DEF Ends, m
  <2>9. ASSUME NEW i \in DOMAIN t.in \ DOMAIN c.in, IsReply(t.in[i])
        PROVE  \E q \in 1..N : /\ i = m + q + b /\ t.in[i].call = ks[q]
                               /\ t.in[i].result = result
    BY <1>3, <2>8, <2>9 DEF IsReply
  <2>10. ~Waiting(c) /\ \A q \in 1..N : Connected(c)
    <3>1. ~Waiting(c)
      BY <1>9 DEF Waiting
    <3>2. ASSUME Lost(c), NEW q \in 1..N PROVE FALSE
      <4>1. ks[q] \in 1..n /\ c.call[ks[q]].state = "sent" /\ ~Replied(c, ks[q])
        BY <2>1, <2>4
      <4>2. ~In(ks[q], c.out)
        BY <3>2 DEF Lost, In
      <4> QED BY <1>1, <1>3, <4>1, <4>2 DEF InService, Underway
    <3> QED BY <1>1, <3>1, <3>2 DEF InService
  <2>11. \A i \in DOMAIN c.in : IsReply(c.in[i]) =>
            \A k \in 1..c.in[i].call-1 : Undone(t, k) => Undone(c, k)
    <3>1. \A i \in DOMAIN c.in : IsReply(c.in[i]) => c.in[i].call \in 1..n
      BY <1>1, <1>3 DEF Placed, Incoming
    <3>2. \A i \in DOMAIN c.in : IsReply(c.in[i]) => \A k \in 1..c.in[i].call-1 : k \in 1..n
      BY <1>3, <3>1
    <3> QED BY <1>5, <3>2
  <2>12. ASSUME NEW i \in DOMAIN t.in \ DOMAIN c.in, IsReply(t.in[i]),
                NEW k \in 1..t.in[i].call-1, Undone(t, k)
         PROVE  \E h \in 1..i-1 : ReplyTo(t, h, k)
    <3>1. PICK q \in 1..N : i = m + q + b /\ t.in[i].call = ks[q]
      BY <2>9, <2>12
    <3>2. ks[q] \in 1..n /\ k \in 1..n /\ k < ks[q] /\ k \in 1..ks[q]-1
      <4>1. ks[q] \in 1..n
        BY <2>1, <2>4
      <4> QED BY <1>3, <2>12, <3>1, <4>1
    <3>3. c.call[k].state = "sent"
      <4>1. c.call[k].state \in {"queued", "sent", "failing", "done"}
        BY <1>1, <1>3, <3>2, CallFields DEF CallRecord
      <4>2. c.call[k].state # "queued" /\ c.call[k].state # "failing"
        BY <1>1, <1>3, <2>10, <3>2 DEF Connected, InService, Simple
      <4>3. Undone(c, k)
        BY <1>5, <2>12, <3>2
      <4> QED BY <4>1, <4>2, <4>3 DEF Undone
    <3>4. CASE Replied(c, k)
      <4>1. PICK h \in 1..m : ReplyTo(c, h, k)
        BY <1>3, <3>4 DEF Replied
      <4>2. h \in 1..i-1
        BY <1>3, <2>8, <3>1, <4>1
      <4> QED BY <2>8, <4>1, <4>2 DEF ReplyTo
    <3>5. CASE k \in V
      <4>1. PICK p \in 1..N : ks[p] = k
        BY <2>4, <3>5
      <4>2. p < q
        <5>1. CASE p = q
          BY <3>2, <4>1, <5>1
        <5>2. CASE q < p
          <6>1. ks[q] < ks[p]
            BY <2>4, <5>2
          <6> QED BY <3>2, <4>1, <6>1
        <5> QED BY <2>4, <5>1, <5>2
      <4>3. m + p + b \in 1..i-1
        BY <1>3, <2>8, <3>1, <4>2
      <4>4. ReplyTo(t, m + p + b, k)
        BY <2>8, <4>1 DEF ReplyTo, IsReply
      <4> QED BY <4>3, <4>4
    <3> QED BY <2>2, <3>2, <3>3, <3>4, <3>5
  <2>13. ASSUME NEW i \in DOMAIN t.in, NEW j \in DOMAIN t.in \ DOMAIN c.in,
                i < j, Abandoned(t, i), IsReply(t.in[j])
         PROVE  Abandoned(t, j)
    <3>1. PICK q \in 1..N : j = m + q + b /\ t.in[j].result = result
      BY <2>9, <2>13
    <3>2. Connected(c)
      BY <2>10, <3>1
    <3>3. t.proxy[Main].path # NoPath
      BY <1>4, <3>2 DEF Connected, NoPath, DaemonPath
    <3>4. PICK h \in 1..i-1 : t.in[h].type = "disconnected"
      BY <2>13, <3>3 DEF Abandoned, Gone
    <3>5. i \notin 1..m
      <4>1. ASSUME i \in 1..m PROVE FALSE
        <5>1. h \in 1..m
          BY <1>3, <4>1
        <5>2. c.in[h].type # "disconnected"
          BY <1>3, <1>9, <3>2, <5>1 DEF Connected
        <5> QED BY <2>8, <3>4, <5>1, <5>2
      <4> QED BY <4>1
    <3>6. t.in[i].result = result
      BY <1>3, <2>9, <2>13, <3>5 DEF Abandoned
    <3>7. result \in RetryErrors
      BY <2>13, <3>6 DEF Abandoned
    <3>8. Gone(t, j)
      <4>1. h \in 1..j-1
        BY <1>3, <2>8, <2>13
      <4> QED BY <3>4, <4>1 DEF Gone
    <3> QED BY <2>13, <3>1, <3>7, <3>8 DEF Abandoned
  <2>14. Ordered(t) /\ AbandonedLast(t)
    <3>1. PICK es \in Seq(Event) : t.in = c.in \o es
      BY <2>6
    <3>2. Ordered(c) /\ AbandonedLast(c) /\ t.proxy[Main].path = c.proxy[Main].path
      BY <1>1, <1>4 DEF InService
    <3> QED BY <1>3, <2>11, <2>12, <2>13, <3>1, <3>2, Lengthened
  <2>15. ASSUME NEW k \in 1..n, Replied(c, k) \/ k \in V PROVE Replied(t, k)
    <3>1. CASE Replied(c, k)
      <4>1. PICK h \in 1..m : ReplyTo(c, h, k)
        BY <1>3, <3>1 DEF Replied
      <4>2. h \in 1..m + N + 1
        BY <1>3, <2>4
      <4>3. h \in DOMAIN t.in /\ t.in[h] = c.in[h]
        BY <2>8, <4>2
      <4>4. ReplyTo(t, h, k)
        BY <4>1, <4>3 DEF ReplyTo
      <4> QED BY <4>3, <4>4 DEF Replied
    <3>2. CASE k \in V
      <4>1. PICK p \in 1..N : ks[p] = k
        BY <2>4, <3>2
      <4>2. m + p + b \in DOMAIN t.in /\ ReplyTo(t, m + p + b, k)
        BY <2>8, <4>1 DEF ReplyTo, IsReply
      <4> QED BY <4>2 DEF Replied
    <3> QED BY <2>15, <3>1, <3>2
  <2>16. Underway(t)
    <3>1. \A k \in 1..n : c.call[k].state = "sent" =>
             (c.call[k].lost <=> c.proxy[Main].path = NoPath)
      BY <1>1, <1>3 DEF InService, Underway
    <3> QED BY <1>3, <1>4, <2>2, <2>15, <3>1 DEF Underway
  <2>17. Simple(t)
    <3>1. ASSUME NEW i \in DOMAIN t.in
          PROVE  t.in[i].type \in {"reply", "disconnected", "activated"}
      <4>1. CASE i \in 1..m
        BY <1>1, <1>3, <2>8, <4>1 DEF InService, Simple
      <4>2. CASE i \notin 1..m
        BY <2>8, <4>2
      <4> QED BY <4>1, <4>2
    <3> QED BY <1>1, <1>4, <3>1 DEF InService, Simple
  <2>18. ASSUME Connected(c) PROVE InService(t)
    <3>1. ASSUME NEW i \in DOMAIN t.in PROVE t.in[i].type # "activated"
      <4>1. CASE i \in 1..m
        BY <1>3, <2>8, <2>18, <4>1 DEF Connected
      <4>2. CASE i \notin 1..m
        BY <2>8, <4>2
      <4> QED BY <4>1, <4>2
    <3>2. ~\A i \in DOMAIN t.in : t.in[i].type # "disconnected"
      BY <2>8
    <3>3. /\ \A k \in DOMAIN t.call : t.call[k].state # "queued"
          /\ \A k \in DOMAIN t.call : t.call[k].state = "sent" => t.call[k].path = DaemonPath
          /\ t.proxy[Main].path = DaemonPath /\ t.proxy[Main].conn
          /\ t.proxy[Main].status = "Ready" /\ t.proxy[Main].queue = <<>>
          /\ ~t.starting
      BY <1>4, <2>18 DEF Connected
    <3>4. Connected(t)
      BY <1>4, <3>1, <3>2, <3>3 DEF Connected
    <3> QED BY <1>7, <2>14, <2>16, <2>17, <3>4 DEF InService
  <2>19. ASSUME Lost(c) PROVE InService(t)
    <3>1. Lost(t)
      BY <1>4, <2>19 DEF Lost
    <3> QED BY <1>7, <2>14, <2>16, <2>17, <3>1 DEF InService
  <2>20. InService(t)
    BY <1>1, <2>10, <2>18, <2>19 DEF InService
  <2> QED BY <1>1, <1>6, <2>20 DEF t
<1> QED
  BY <1>8, <1>9

\* What became of the activation is on its way to the library.
LEMMA ActivationServes ==
    ASSUME NEW s, NEW W, NEW C, Placed(s, 0, W, C), InService(s), Listed(s), s.starting,
           NEW ok \in BOOLEAN, NEW up \in BOOLEAN
    PROVE  LET t == [s EXCEPT !.up = up, !.starting = FALSE,
                              !.in = Append(@, [type |-> "activated", ok |-> ok])]
           IN  InService(t) /\ Listed(t)
<1> DEFINE e == [type |-> "activated", ok |-> ok]
           n == Append(s.in, e)
           t == [s EXCEPT !.up = up, !.starting = FALSE, !.in = n]
           m == Len(s.in)
<1>1. s \in Library /\ s.in \in Seq(Event)
  BY LibraryFields DEF Placed
<1>2. [s EXCEPT !.up = up, !.starting = FALSE,
                !.in = Append(@, [type |-> "activated", ok |-> ok])] = t
  BY <1>1 DEF Library
<1>3. e \in Event /\ e.type = "activated"
  BY DEF Event
<1> HIDE DEF e
<1>4. n \in Seq(Event)
  BY <1>1, <1>3
<1>5. /\ e \in Event /\ e.type = "activated"
      /\ t \in Library /\ t.kind = s.kind /\ t.methods = s.methods
      /\ t.online = s.online /\ t.service = s.service /\ ~t.starting
      /\ t.proxy = s.proxy /\ t.call = s.call /\ t.out = s.out /\ t.in = n
  <2> HIDE DEF n
  <2> QED BY <1>1, <1>3, <1>4 DEF Library
<1> HIDE DEF t
<1>6. /\ m \in Nat /\ DOMAIN s.in = 1..m /\ DOMAIN n = 1..m+1
      /\ \A i \in 1..m : n[i] = s.in[i]
      /\ n[m + 1] = e
      /\ <<e>> \in Seq(Event) /\ n = s.in \o <<e>>
  BY <1>1, <1>5, AppendFacts, AppendConcat
<1> HIDE DEF n
<1>7. \A i \in DOMAIN t.in \ DOMAIN s.in : i = m + 1 /\ t.in[i] = e /\ ~IsReply(t.in[i])
  BY <1>5, <1>6 DEF IsReply
<1>8. \A k : Undone(t, k) <=> Undone(s, k)
  BY <1>5 DEF Undone
<1>9. Ordered(t) /\ AbandonedLast(t)
  BY <1>1, <1>5, <1>6, <1>7, <1>8, Lengthened DEF InService
<1>10. ASSUME NEW k, Replied(s, k) PROVE Replied(t, k)
  <2>1. PICK i \in 1..m : ReplyTo(s, i, k)
    BY <1>6, <1>10 DEF Replied
  <2>2. i \in 1..m+1
    BY <1>6
  <2>3. i \in DOMAIN t.in /\ t.in[i] = s.in[i]
    BY <1>5, <1>6, <2>2
  <2> QED BY <2>1, <2>3 DEF Replied, ReplyTo
<1>11. Simple(t)
  <2>1. \A i \in DOMAIN t.in : t.in[i].type \in {"reply", "disconnected", "activated"}
    BY <1>5, <1>6, <1>7 DEF InService, Simple
  <2> QED BY <1>5, <2>1 DEF InService, Simple
<1>12. Underway(t)
  BY <1>5, <1>10 DEF InService, Underway
<1>13. Waiting(s) \/ Lost(s)
  BY DEF InService, Connected
<1>14. Waiting(t) \/ Lost(t)
  <2>1. CASE Lost(s)
    BY <1>5, <2>1 DEF Lost
  <2>2. CASE Waiting(s)
    <3>1. s.in = <<>> /\ s.service = "activating"
      BY <2>2 DEF Waiting
    <3>2. Len(t.in) = 1 /\ t.in[1].type = "activated"
      <4>1. m = 0
        BY <3>1
      <4> HIDE DEF m
      <4>2. 0 + 1 = 1 /\ n[1] = e
        BY <1>6, <4>1
      <4>3. Len(n) = 1
        BY <1>6, <3>1
      <4> QED BY <1>5, <4>2, <4>3
    <3> QED BY <1>5, <2>2, <3>1, <3>2 DEF Waiting
  <2> QED BY <1>13, <2>1, <2>2
<1>15. Leaving(t)
  <2>1. t.out = <<>>
    BY <1>5, <1>13 DEF Waiting, Lost
  <2> QED BY <2>1 DEF Leaving
<1>16. Listed(t)
  BY <1>5, <1>8, ListedSame
<1>17. InService(t)
  BY <1>9, <1>11, <1>12, <1>14, <1>15 DEF InService
<1> QED
  BY <1>2, <1>16, <1>17 DEF e

LEMMA StartServes ==
    ASSUME ClientInv, ServiceInv, c.kind = "service", activate \/ start \/ noservice
    PROVE  InService(c') /\ Listed(c') /\ ~mixed'
<1>1. /\ Placed(c, 0, d.working, canceled) /\ InService(c) /\ Listed(c) /\ c \in Library
      /\ ~mixed /\ UNCHANGED mixed
  BY DEF ClientInv, ServiceInv, Sound, Placed, activate, start, noservice, Happens
<1>2. CASE activate
  <2> DEFINE t == [c EXCEPT !.up = TRUE, !.starting = FALSE,
                            !.in = Append(@, [type |-> "activated", ok |-> TRUE])]
  <2>1. c' = t /\ c.starting
    BY <1>2 DEF activate
  <2>2. InService(t) /\ Listed(t)
    BY <1>1, <2>1, ActivationServes
  <2> HIDE DEF t
  <2> QED BY <1>1, <2>1, <2>2
<1>3. CASE noservice
  <2> DEFINE t == [c EXCEPT !.starting = FALSE,
                            !.in = Append(@, [type |-> "activated", ok |-> FALSE])]
             u == [c EXCEPT !.up = c.up, !.starting = FALSE,
                            !.in = Append(@, [type |-> "activated", ok |-> FALSE])]
  <2>1. c' = t /\ c.starting /\ c.up \in BOOLEAN
    BY <1>1, <1>3 DEF noservice, Library
  <2>2. InService(u) /\ Listed(u)
    BY <1>1, <2>1, ActivationServes
  <2>3. t = u
    BY <1>1 DEF Library
  <2> HIDE DEF t, u
  <2> QED BY <1>1, <2>1, <2>2, <2>3
<1>4. CASE start
  <2> DEFINE t == c'
  <2>1. /\ t.kind = c.kind /\ t.methods = c.methods /\ t.proxy = c.proxy
        /\ t.call = c.call /\ t.out = c.out /\ t.in = c.in
        /\ t.online = c.online /\ t.service = c.service /\ t.starting = c.starting
    BY <1>1, <1>4 DEF start, Library
  <2> HIDE DEF t
  <2>2. /\ \A k : Undone(t, k) <=> Undone(c, k)
        /\ \A k : Replied(t, k) <=> Replied(c, k)
        /\ \A i, k : ReplyTo(t, i, k) <=> ReplyTo(c, i, k)
        /\ \A i : Abandoned(t, i) <=> Abandoned(c, i)
    BY <2>1 DEF Undone, Replied, ReplyTo, Abandoned, Gone
  <2>3. Simple(t)
    BY <1>1, <2>1 DEF InService, Simple
  <2>4. Ordered(t) /\ AbandonedLast(t)
    BY <1>1, <2>1, <2>2 DEF InService, Ordered, AbandonedLast
  <2>5. Underway(t) /\ Leaving(t)
    BY <1>1, <2>1, <2>2 DEF InService, Underway, Leaving
  <2>6. /\ Waiting(t) <=> Waiting(c)
        /\ Connected(t) <=> Connected(c)
        /\ Lost(t) <=> Lost(c)
    BY <2>1 DEF Waiting, Connected, Lost
  <2>7. InService(t)
    BY <1>1, <2>3, <2>4, <2>5, <2>6 DEF InService
  <2>8. Listed(t)
    BY <1>1, <2>1, <2>2, ListedSame
  <2> QED BY <1>1, <2>7, <2>8 DEF t
<1> QED
  BY <1>2, <1>3, <1>4

-----------------------------------------------------------------------------
(* The mechanisms are announced for the method asked about *)

\* Another owner makes no call of a service.
LEMMA OthersAnswerNone ==
    ASSUME ClientInv, c.kind # "service", eventLoop, ~mixed
    PROVE  ~mixed'
<1> DEFINE e == Head(c.in)
<1>1. /\ Placed(c, 0, d.working, canceled) /\ c.in \in Seq(Event) /\ c.in # <<>>
      /\ mixed' = (mixed \/ (AnswersMechanisms(e)
                             /\ (c.methods = <<>> \/ Head(c.methods) # e.call)))
  BY LibraryFields DEF ClientInv, Sound, Placed, eventLoop
<1>2. 1 \in DOMAIN c.in /\ e = c.in[1]
  BY <1>1
<1> HIDE DEF e
<1>3. ASSUME AnswersMechanisms(e) PROVE FALSE
  <2>1. e.call \in DOMAIN c.call
    BY <1>1, <1>2, <1>3 DEF AnswersMechanisms, Placed, Incoming, IsReply
  <2>2. c.call[e.call].op # "queryMechanisms"
    BY <1>1, <2>1 DEF Placed, CallOK
  <2> QED BY <1>3, <2>2 DEF AnswersMechanisms
<1> QED
  BY <1>1, <1>3

LEMMA InitServes == ASSUME Init PROVE ServiceInv
<1>1. d.working = {} /\ d.objects = {} /\ d.registered = NoPath /\ ~mixed
  BY DEF Init
<1>2. ASSUME c.kind = "service" PROVE InService(c) /\ Listed(c)
  <2>1. PICK kind \in Kinds, up \in BOOLEAN :
           CASE kind = "session"  -> c = AuthSessionImpl(up)
             [] kind = "identity" -> \E id \in 0..1 : c = IdentityImpl(id, up)
             [] kind = "service"  -> c = AuthServiceImpl(up)
    BY DEF Init
  <2>2. kind \in {"session", "identity", "service"}
    BY ClientAssumption
  <2>3. kind = "service"
    <3>1. kind = "session" => c.kind = "session"
      <4>1. Sound(initInterface(newProxy(NewClient("session", 0, up), NoPath)), {}, {}, "session")
        BY ConstructedSound DEF NoPath
      <4> QED BY <2>1, <4>1 DEF AuthSessionImpl, Sound
    <3>2. kind = "identity" => c.kind = "identity"
      <4>1. \A id \in Nat :
               Sound(sendRegisterRequest(newProxy(NewClient("identity", id, up), NoPath)),
                     {}, {}, "identity")
        BY ConstructedSound DEF NoPath
      <4>2. kind = "identity" => \E id \in Nat : c = IdentityImpl(id, up)
        BY <2>1
      <4> QED BY <4>1, <4>2 DEF IdentityImpl, Sound
    <3> QED BY <1>2, <2>2, <3>1, <3>2
  <2> DEFINE r == [exists |-> TRUE, conn |-> up, path |-> DaemonPath, queue |-> <<>>,
                   status |-> IF up THEN "Ready" ELSE "Incomplete"]
  <2>4. c = newProxy(NewClient("service", 0, up), DaemonPath)
    BY <2>1, <2>3 DEF AuthServiceImpl
  <2>5. /\ c.kind = "service" /\ c.online = up /\ c.starting = ~up
        /\ c.service = (IF up THEN "unknown" ELSE "activating")
        /\ c.call = <<>> /\ c.out = <<>> /\ c.in = <<>> /\ c.methods = <<>>
        /\ c.proxy = <<r>>
    <3> DEFINE s == NewClient("service", 0, up)
    <3>1. /\ s.kind = "service" /\ s.online = up /\ s.starting = ~up
          /\ s.service = (IF up THEN "unknown" ELSE "activating")
          /\ s.call = <<>> /\ s.out = <<>> /\ s.in = <<>> /\ s.methods = <<>>
          /\ s.proxy = <<>>
      BY DEF NewClient
    <3>2. DOMAIN s = {"kind", "up", "online", "service", "starting", "proxy", "call", "out",
                      "in", "registering", "process", "state", "id", "methods", "asserted"}
      BY DEF NewClient
    <3> HIDE DEF s
    <3>3. [exists |-> TRUE, conn |-> s.online, path |-> DaemonPath, queue |-> <<>>,
           status |-> IF s.online /\ DaemonPath # NoPath THEN "Ready" ELSE "Incomplete"] = r
      BY <3>1 DEF NoPath, DaemonPath
    <3> HIDE DEF r
    <3>4. c = [s EXCEPT !.proxy = Append(<<>>, r)]
      BY <2>4, <3>1, <3>2, <3>3 DEF newProxy, s
    <3>5. Append(<<>>, r) = <<r>>
      OBVIOUS
    <3> QED BY <3>1, <3>2, <3>4, <3>5
  <2>6. Len(c.proxy) = 1 /\ c.proxy[Main] = r
    <3> HIDE DEF r
    <3> QED BY <2>5 DEF Main
  <2>7. /\ c.proxy[Main].exists /\ c.proxy[Main].conn = up
        /\ c.proxy[Main].path = DaemonPath /\ c.proxy[Main].queue = <<>>
        /\ c.proxy[Main].status = IF up THEN "Ready" ELSE "Incomplete"
    BY <2>6
  <2>8. DOMAIN c.call = {} /\ DOMAIN c.in = {} /\ DOMAIN c.out = {} /\ DOMAIN c.methods = {}
        /\ Len(c.call) = 0
    BY <2>5
  <2> HIDE DEF r
  <2>9. Simple(c) /\ Listed(c) /\ Ordered(c) /\ AbandonedLast(c) /\ Underway(c) /\ Leaving(c)
    BY <2>5, <2>6, <2>7, <2>8 DEF Simple, Listed, Ordered, AbandonedLast, Underway, Leaving, In
  <2>10. CASE up
    <3>1. Connected(c)
      BY <2>5, <2>7, <2>8, <2>10 DEF Connected
    <3> QED BY <2>9, <3>1 DEF InService
  <2>11. CASE ~up
    <3>1. <<>> = [k \in 1..0 |-> k]
      OBVIOUS
    <3>2. Waiting(c)
      BY <2>5, <2>7, <2>8, <2>11, <3>1 DEF Waiting
    <3> QED BY <2>9, <3>2 DEF InService
  <2> QED BY <2>10, <2>11
<1> QED
  BY <1>1, <1>2 DEF ServiceInv

\* What signond keeps of a service
LEMMA DaemonKeepsNothing ==
    ASSUME ClientInv, ServiceInv, c.kind = "service", UNCHANGED d \/ die
    PROVE  d'.working = {} /\ d'.objects = {} /\ d'.registered = NoPath
<1>1. CASE UNCHANGED d
  BY Zenon, <1>1 DEF ServiceInv
<1>2. CASE die
  BY Zenon, <1>2 DEF ClientInv, Daemon, die
<1> QED
  BY <1>1, <1>2

\* What other owners do announces no mechanisms.
LEMMA OthersMixNothing ==
    ASSUME ClientInv, ServiceInv, c.kind # "service", [Next]_vars PROVE ~mixed'
<1>1. CASE eventLoop
  BY <1>1, OthersAnswerNone DEF ServiceInv
<1>2. CASE \/ queryAvailableMechanisms \/ setId \/ process \/ cancel
           \/ verifyUser \/ storeCredentials \/ remove \/ signOut \/ queryInfo
           \/ sendRequest \/ queryMechanisms
  BY <1>2 DEF ServiceInv, queryAvailableMechanisms, setId, process, cancel, verifyUser,
              storeCredentials, remove, signOut, queryInfo, sendRequest, queryMechanisms,
              Application
<1>3. CASE \/ postedFail \/ registerObject \/ unknownObject \/ begin \/ serveStore
           \/ serve \/ complete \/ activate \/ start
  BY Zenon, <1>3 DEF ServiceInv, postedFail, registerObject, unknownObject, begin, serveStore,
              serve, complete, activate, start, Serving
<1>4. CASE refuse \/ unregister \/ others \/ die \/ noservice
  BY <1>4 DEF ServiceInv, refuse, unregister, others, die, noservice, Happens
<1>5. CASE UNCHANGED vars
  BY <1>5 DEF ServiceInv, vars
<1> QED
  BY <1>1, <1>2, <1>3, <1>4, <1>5 DEF Next

\* Every step of a service keeps it in one of its three situations.
LEMMA NextServes == ASSUME ClientInv, ServiceInv, [Next]_vars PROVE ServiceInv'
<1>1. c'.kind = c.kind
  BY NextInv
<1>2. CASE c.kind # "service"
  BY <1>1, <1>2, OthersMixNothing DEF ServiceInv
<1>3. ASSUME c.kind = "service"
      PROVE  /\ InService(c') /\ Listed(c') /\ ~mixed'
             /\ UNCHANGED d \/ die
  <2>1. \/ sendRequest \/ queryMechanisms \/ eventLoop \/ serve
        \/ die \/ activate \/ start \/ noservice \/ UNCHANGED vars
    BY <1>3, NothingElse DEF Next
  <2>2. CASE sendRequest \/ queryMechanisms
    BY <2>2, ServiceCallServes DEF sendRequest, queryMechanisms, Application
  <2>3. CASE eventLoop
    BY <1>3, <2>3, EventLoopServes DEF eventLoop
  <2>4. CASE serve
    BY <1>3, <2>4, ServeServes DEF ServiceInv
  <2>5. CASE die
    BY <1>3, <2>5, DieServes
  <2>6. CASE activate \/ start \/ noservice
    BY <1>3, <2>6, StartServes DEF activate, start, noservice
  <2>7. CASE UNCHANGED vars
    BY <1>3, <2>7 DEF ServiceInv, vars
  <2> QED BY <2>1, <2>2, <2>3, <2>4, <2>5, <2>6, <2>7
<1>4. CASE c.kind = "service"
  <2>1. d'.working = {} /\ d'.objects = {} /\ d'.registered = NoPath
    BY <1>3, <1>4, DaemonKeepsNothing
  <2> QED BY <1>3, <1>4, <2>1 DEF ServiceInv
<1> QED
  BY <1>2, <1>4

\* AuthServiceImpl::queryMechanismsReply() names the method it takes from
\* m_methodsForWhichMechsWereQueried, which is the one that was asked about: the
\* calls of a service are answered in the order they were made, those that fail
\* included, and those that are queued again are not answered any more.
THEOREM MechanismsNamed == Spec => []MechanismsMatch
<1>1. Init => ClientInv /\ ServiceInv
  BY InitInv, InitServes
<1>2. ClientInv /\ ServiceInv /\ [Next]_vars => (ClientInv /\ ServiceInv)'
  BY NextInv, NextServes
<1>3. ServiceInv => MechanismsMatch
  BY DEF ServiceInv, MechanismsMatch
<1> QED
  BY <1>1, <1>2, <1>3, PTL DEF Spec
=============================================================================
