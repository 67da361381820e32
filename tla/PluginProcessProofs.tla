------------------------ MODULE PluginProcessProofs ------------------------
(***************************************************************************)
(* NothingMisread holds for blobs of any number of pages, any number of    *)
(* operations and dialogs, writes that arrive in any pieces, input read    *)
(* ahead to any length, cancels at any time and a proxy destroyed at any   *)
(* time.  It assumes that a plugin answers only what it works on ("idle"   *)
(* is not in Env): with a second answer the daemon may write an operation  *)
(* while the cancel thread reads.                                          *)
(***************************************************************************)
EXTENDS PluginProcess, SequenceTheorems, TLAPS

Responses == Finals \cup {"ui", "refreshed", "mechanisms"}
Continuations == {"processUi", "refresh"}

TypeOK ==
    /\ phase \in {"starting", "idle", "busy", "dialog", "closed"}
    /\ canceled \in BOOLEAN
    /\ writeBuffer \in Seq(Tokens)
    /\ pipe \in Seq(Tokens)
    /\ inFile \in Seq(Tokens)
    /\ output \in Seq([op : Responses, pages : Nat])
    /\ notifier \in BOOLEAN
    /\ slot \in {"startTask", "readBlob", "none"}
    /\ main \in {"loop", "receiving", "enabling"}
    /\ blob \in [operation : Opcodes \cup {"page"}, size : Nat, got : Nat]
    /\ cancelThread \in BOOLEAN
    /\ plugin \in {"idle", "working", "waiting"}
    /\ posted \in Nat
    /\ history \in [misread : BOOLEAN, blobFailed : BOOLEAN, canceledEarly : BOOLEAN]

-----------------------------------------------------------------------------
(* What is still to be read. *)

\* All that was written and not read, in the order in which it is read.
Unread == Input \o writeBuffer

\* The main thread is in a blob, of which so many pages are left.
Reading == main = "receiving" \/ slot = "readBlob"
Left == IF Reading THEN blob.size - blob.got ELSE 0

\* The first n tokens of s are pages, and besides them only those that follow
\* an operation are.
Framed(s, n) ==
    /\ n <= Len(s)
    /\ \A i \in 1..Len(s) : s[i].op \in Blobs =>
          s[i].pages > 0 /\ i + s[i].pages <= Len(s)
    /\ \A i \in 1..Len(s) : s[i].op = "page" <=>
          \/ i <= n
          \/ \E j \in 1..i-1 : s[j].op \in Blobs /\ i <= j + s[j].pages

Holds(s, ops) == \E i \in 1..Len(s) : s[i].op \in ops

\* One operation, no cancel ahead of one that continues a dialog.
Ordered(s) ==
    \A i, j \in 1..Len(s) :
       /\ s[i].op \in Blobs /\ s[j].op \in Blobs => i = j
       /\ s[i].op = "cancel" /\ s[j].op \in Continuations => j < i

\* A cancel that has outlived its request is ahead of the next one.
Outlived(s) ==
    \A i \in 1..Len(s) : s[i].op = "cancel" =>
       \E j \in i+1..Len(s) : s[j].op = "process"

-----------------------------------------------------------------------------
(* The invariant. *)

\* Who reads, and what the plugin does then.
ThreadsInv ==
    /\ cancelThread => ~notifier /\ ~Reading
    /\ Reading => notifier /\ blob.got < blob.size
    /\ main = "receiving" => blob.got = 0 /\ (blob.size > 1 => slot = "readBlob")
    /\ main = "loop" => slot \in {"startTask", "readBlob"}
    /\ main = "enabling" => slot = "none"
    /\ plugin = "working" => cancelThread /\ main = "loop"
    /\ posted > 0 => posted = 1 /\ cancelThread /\ plugin = "idle"
    /\ main = "enabling" /\ blob.operation = "process" =>
          cancelThread /\ plugin = "idle" /\ posted = 0
    /\ main = "enabling" /\ blob.operation # "process" =>
          IF cancelThread THEN plugin = "waiting" \/ posted = 1 ELSE plugin = "idle"
    /\ main = "loop" /\ cancelThread => plugin = "working" \/ posted = 1
    /\ Reading \/ main = "enabling" => blob.operation \in Blobs

\* An operation that has not been answered.
AtWork == Reading \/ cancelThread \/ Holds(Unread, Blobs)

InputInv ==
    /\ Framed(Unread, Left)
    /\ Ordered(Unread)
    /\ Reading \/ cancelThread => ~Holds(Unread, Blobs)
    /\ Holds(Unread, {"process"}) \/ (Reading /\ blob.operation = "process") =>
          plugin = "idle"
    /\ Holds(Unread, Continuations) \/ (Reading /\ blob.operation # "process") =>
          plugin = "waiting"
    /\ canceled \/ phase \in {"idle", "closed"} \/ Outlived(Unread)
    /\ Holds(Unread, {"mechanisms"}) => phase = "starting"

\* The daemon writes an operation only when none is at work.
AnswersInv ==
    /\ AtWork => phase \in {"busy", "closed"} /\ output = <<>>
    /\ \A i \in 1..Len(output) :
          /\ output[i].op \in Finals => i = Len(output) /\ plugin = "idle"
          /\ output[i].op = "mechanisms" => phase = "starting"
          /\ output[i].op \in {"ui", "refreshed"} =>
                \/ phase = "closed"
                \/ phase = "busy" /\ (canceled \/ (plugin = "waiting" /\ i = Len(output)))
    /\ phase = "starting" => /\ plugin = "idle"
                             /\ Len(Unread) + Len(output) <= 1
    /\ phase = "idle" => output = <<>> /\ plugin = "idle"
    /\ phase = "dialog" /\ ~canceled => plugin = "waiting" /\ output = <<>>

\* After a blob has failed nothing is read any more.
Deaf ==
    /\ main = "loop"
    /\ ~notifier
    /\ ~cancelThread
    /\ plugin # "working"
    /\ posted = 0

Live == ThreadsInv /\ InputInv /\ AnswersInv

ReadInv == TypeOK /\ NothingMisread /\ (Deaf \/ Live)

-----------------------------------------------------------------------------
(* What is unread after a step. *)

LEMMA UnreadType ==
  ASSUME TypeOK
  PROVE  /\ Input \in Seq(Tokens) /\ Unread \in Seq(Tokens)
         /\ Len(Input) = Len(inFile) + Len(pipe)
         /\ Len(Unread) = Len(Input) + Len(writeBuffer)
BY DEF TypeOK, Input, Unread

LEMMA WritesUnread ==
  ASSUME TypeOK, NEW tokens \in Seq(Tokens), Writes(tokens), UNCHANGED inputVars
  PROVE  Unread' = Unread \o tokens /\ writeBuffer' \in Seq(Tokens)
<1>1. Input' = Input
  BY DEF Input, inputVars
<1>2. writeBuffer' = writeBuffer \o tokens
  BY DEF Writes
<1>3. Input \in Seq(Tokens) /\ writeBuffer \in Seq(Tokens)
  BY UnreadType DEF TypeOK
<1> QED
  BY <1>1, <1>2, <1>3, ConcatAssociative DEF Unread

LEMMA FourParts ==
  ASSUME NEW p \in Seq(Tokens), NEW q \in Seq(Tokens),
         NEW r \in Seq(Tokens), NEW s \in Seq(Tokens)
  PROVE  (p \o (q \o r)) \o s = (p \o q) \o (r \o s)
<1>1. p \o (q \o r) = (p \o q) \o r
  BY ConcatAssociative
<1>2. p \o q \in Seq(Tokens)
  BY ConcatProperties
<1> QED
  BY <1>1, <1>2, ConcatAssociative

LEMMA MoveBracket ==
  ASSUME NEW p \in Seq(Tokens), NEW q \in Seq(Tokens),
         NEW w \in Seq(Tokens), NEW n \in 1..Len(w)
  PROVE  (p \o (q \o SubSeq(w, 1, n))) \o SubSeq(w, n + 1, Len(w)) = (p \o q) \o w
<1>1. /\ SubSeq(w, 1, n) \in Seq(Tokens)
      /\ SubSeq(w, n + 1, Len(w)) \in Seq(Tokens)
      /\ p \o q \in Seq(Tokens)
  OBVIOUS
<1>2. SubSeq(w, 1, n) \o SubSeq(w, n + 1, Len(w)) = SubSeq(w, 1, Len(w))
  BY ConcatAdjacentSubSeq
<1>3. SubSeq(w, 1, Len(w)) = w
  BY SubSeqFull
<1>4. \A r, s \in Seq(Tokens) : (p \o (q \o r)) \o s = (p \o q) \o (r \o s)
  BY FourParts
<1> HIDE DEF Tokens
<1>5. (p \o (q \o SubSeq(w, 1, n))) \o SubSeq(w, n + 1, Len(w))
        = (p \o q) \o (SubSeq(w, 1, n) \o SubSeq(w, n + 1, Len(w)))
  BY <1>1, <1>4, Zenon
<1> QED
  BY <1>2, <1>3, <1>5

LEMMA FlushUnread ==
  ASSUME TypeOK, NEW n \in 1..Len(writeBuffer), flush(n)
  PROVE  /\ Unread' = Unread
         /\ pipe' \in Seq(Tokens) /\ writeBuffer' \in Seq(Tokens)
<1>1. /\ inFile \in Seq(Tokens) /\ pipe \in Seq(Tokens)
      /\ writeBuffer \in Seq(Tokens)
  BY DEF TypeOK
<1>2. /\ pipe' = pipe \o SubSeq(writeBuffer, 1, n)
      /\ writeBuffer' = SubSeq(writeBuffer, n + 1, Len(writeBuffer))
      /\ inFile' = inFile
  BY DEF flush
<1>3. Unread' = Unread
  BY <1>1, <1>2, MoveBracket DEF Unread, Input
<1> QED
  BY <1>1, <1>2, <1>3

LEMMA TakenUnread ==
  ASSUME TypeOK, takesNext, Input # <<>>, writeBuffer' = writeBuffer
  PROVE  /\ inFile' \in Seq(Tokens) /\ pipe' \in Seq(Tokens)
         /\ Len(Unread) > 0
         /\ Head(Input) = Unread[1]
         /\ Unread' \in Seq(Tokens)
         /\ Len(Unread') = Len(Unread) - 1
         /\ \A i \in 1..Len(Unread') : Unread'[i] = Unread[i + 1]
<1>1. /\ inFile \in Seq(Tokens) /\ pipe \in Seq(Tokens)
      /\ writeBuffer \in Seq(Tokens)
  BY DEF TypeOK
<1>2. CASE inFile # <<>>
  <2>1. inFile' = Tail(inFile) /\ pipe' = pipe
    BY <1>2 DEF takesNext
  <2> QED
    BY <1>1, <1>2, <2>1 DEF Unread, Input
<1>3. CASE inFile = <<>>
  <2>1. pipe # <<>>
    BY <1>1, <1>3 DEF Input
  <2>2. PICK n \in 1..Len(pipe) : inFile' = SubSeq(pipe, 2, n)
                                  /\ pipe' = SubSeq(pipe, n + 1, Len(pipe))
    <3>1. \E n \in IF "ahead" \in Env THEN 1..Len(pipe) ELSE {1} :
             /\ inFile' = SubSeq(pipe, 2, n)
             /\ pipe' = SubSeq(pipe, n + 1, Len(pipe))
      BY <1>3 DEF takesNext
    <3>2. 1 \in 1..Len(pipe)
      BY <1>1, <2>1
    <3> QED
      BY <3>1, <3>2
  <2>3. inFile' \in Seq(Tokens) /\ pipe' \in Seq(Tokens)
    BY <1>1, <2>2
  <2>4. Input = pipe
    BY <1>1, <1>3 DEF Input
  <2>5. Input' = SubSeq(pipe, 2, Len(pipe))
    <3>1. /\ 2 \in 1..Len(pipe)+1 /\ n \in 2-1..Len(pipe)
          /\ Len(pipe) \in n..Len(pipe)
      BY <1>1, <2>1
    <3>2. SubSeq(pipe, 2, n) \o SubSeq(pipe, n + 1, Len(pipe)) = SubSeq(pipe, 2, Len(pipe))
      BY <1>1, <3>1, ConcatAdjacentSubSeq
    <3> QED
      BY <2>2, <3>2 DEF Input
  <2> QED
    BY <1>1, <2>1, <2>3, <2>4, <2>5 DEF Unread
<1> QED
  BY <1>2, <1>3

-----------------------------------------------------------------------------
(* What reading and writing do to what is unread. *)

\* t is s without its first token.
Rest(s, t) ==
    /\ Len(s) > 0
    /\ Len(t) = Len(s) - 1
    /\ \A i \in 1..Len(t) : t[i] = s[i + 1]

Pending(token) == IF token.op \in Blobs THEN token.pages ELSE 0

LEMMA RestFacts ==
  ASSUME NEW s \in Seq(Tokens), NEW t \in Seq(Tokens), Rest(s, t)
  PROVE  /\ Len(s) \in Nat /\ Len(t) \in Nat /\ Len(t) = Len(s) - 1
         /\ \A i \in 1..Len(s) : s[i].pages \in Nat
         /\ \A i \in 1..Len(t) : i + 1 \in 1..Len(s) /\ t[i] = s[i + 1]
         /\ \A i \in 2..Len(s) : i - 1 \in 1..Len(t) /\ t[i - 1] = s[i]
<1>1. Len(s) \in Nat /\ Len(t) \in Nat /\ Len(t) = Len(s) - 1
  BY DEF Rest
<1>2. \A i \in 1..Len(s) : s[i].pages \in Nat
  <2>1. \A i \in 1..Len(s) : s[i] \in Tokens
    BY ElementOfSeq
  <2> QED
    BY <2>1 DEF Tokens
<1>3. \A i \in 1..Len(t) : i + 1 \in 1..Len(s) /\ t[i] = s[i + 1]
  BY <1>1 DEF Rest
<1>4. ASSUME NEW i \in 2..Len(s)
      PROVE  i - 1 \in 1..Len(t) /\ t[i - 1] = s[i]
  <2>1. i - 1 \in 1..Len(t) /\ (i - 1) + 1 = i
    BY <1>1
  <2> QED
    BY <1>3, <2>1
<1> QED
  BY <1>1, <1>2, <1>3, <1>4

\* Where the pages of t are, which were one place further on in s.
LEMMA PagesMoved ==
  ASSUME NEW s \in Seq(Tokens), NEW t \in Seq(Tokens), Rest(s, t),
         NEW n \in Nat, Framed(s, n), NEW i \in 1..Len(t)
  PROVE  t[i].op = "page" <=>
            \/ i + 1 <= n
            \/ s[1].op \in Blobs /\ i <= s[1].pages
            \/ \E j \in 1..i-1 : t[j].op \in Blobs /\ i <= j + t[j].pages
<1>1. i + 1 \in 1..Len(s) /\ t[i] = s[i + 1] /\ i \in 1..Len(s)
      /\ \A k \in 1..Len(s) : s[k].pages \in Nat
  BY RestFacts
<1>2. s[i + 1].op = "page" <=>
         \/ i + 1 <= n
         \/ \E j \in 1..(i + 1)-1 : s[j].op \in Blobs /\ i + 1 <= j + s[j].pages
  BY <1>1 DEF Framed
<1>3. (i + 1) - 1 = i /\ i \in Nat /\ i >= 1
  OBVIOUS
<1>4. ASSUME NEW j \in 1..i, s[j].op \in Blobs, i + 1 <= j + s[j].pages, j # 1
      PROVE  \E k \in 1..i-1 : t[k].op \in Blobs /\ i <= k + t[k].pages
  <2>1. j - 1 \in 1..i-1 /\ t[j - 1] = s[j] /\ s[j].pages \in Nat
    BY <1>1, <1>4, RestFacts
  <2>2. i <= (j - 1) + s[j].pages
    BY <1>4, <2>1
  <2> QED
    BY <1>4, <2>1, <2>2
<1>5. ASSUME NEW k \in 1..i-1, t[k].op \in Blobs, i <= k + t[k].pages
      PROVE  \E j \in 1..i : s[j].op \in Blobs /\ i + 1 <= j + s[j].pages
  <2>1. k + 1 \in 1..i /\ t[k] = s[k + 1] /\ s[k + 1].pages \in Nat
    BY <1>1, RestFacts
  <2>2. i + 1 <= (k + 1) + s[k + 1].pages
    BY <1>5, <2>1
  <2> QED
    BY <1>5, <2>1, <2>2
<1>6. s[1].op \in Blobs /\ i <= s[1].pages <=>
      s[1].op \in Blobs /\ i + 1 <= 1 + s[1].pages
  BY <1>1
<1> QED
  BY <1>1, <1>2, <1>3, <1>4, <1>5, <1>6

LEMMA BlobsMoved ==
  ASSUME NEW s \in Seq(Tokens), NEW t \in Seq(Tokens), Rest(s, t),
         NEW n \in Nat, Framed(s, n), NEW i \in 1..Len(t), t[i].op \in Blobs
  PROVE  t[i].pages > 0 /\ i + t[i].pages <= Len(t)
<1>1. /\ i + 1 \in 1..Len(s) /\ t[i] = s[i + 1] /\ s[i + 1].pages \in Nat
      /\ Len(s) \in Nat /\ Len(t) = Len(s) - 1
  BY RestFacts
<1>2. s[i + 1].pages > 0 /\ (i + 1) + s[i + 1].pages <= Len(s)
  BY <1>1 DEF Framed
<1> QED
  BY <1>1, <1>2

LEMMA ReadsPage ==
  ASSUME NEW s \in Seq(Tokens), NEW t \in Seq(Tokens), Rest(s, t),
         NEW n \in Nat, n > 0, Framed(s, n)
  PROVE  s[1].op = "page" /\ Framed(t, n - 1)
<1>1. Len(s) \in Nat /\ Len(t) = Len(s) - 1 /\ n <= Len(s) /\ 1 \in 1..Len(s)
  BY RestFacts DEF Framed
<1>2. s[1].op = "page"
  BY <1>1 DEF Framed
<1>3. \A i \in 1..Len(t) : i + 1 <= n <=> i <= n - 1
  OBVIOUS
<1>4. s[1].op \notin Blobs
  BY <1>2 DEF Blobs
<1>5. n - 1 <= Len(t)
  BY <1>1
<1>6. \A i \in 1..Len(t) : t[i].op = "page" <=>
         \/ i <= n - 1
         \/ \E j \in 1..i-1 : t[j].op \in Blobs /\ i <= j + t[j].pages
  BY <1>3, <1>4, PagesMoved
<1>7. \A i \in 1..Len(t) : t[i].op \in Blobs =>
         t[i].pages > 0 /\ i + t[i].pages <= Len(t)
  BY BlobsMoved
<1> QED
  BY <1>2, <1>5, <1>6, <1>7 DEF Framed

LEMMA ReadsOpcode ==
  ASSUME NEW s \in Seq(Tokens), NEW t \in Seq(Tokens), Rest(s, t), Framed(s, 0)
  PROVE  s[1].op # "page" /\ Framed(t, Pending(s[1]))
<1>1. /\ 1 \in 1..Len(s) /\ s[1].pages \in Nat
      /\ Len(s) \in Nat /\ Len(t) = Len(s) - 1
  BY RestFacts DEF Rest
<1>2. s[1].op # "page"
  BY <1>1 DEF Framed
<1>3. Pending(s[1]) <= Len(t)
  BY <1>1 DEF Framed, Pending
<1>4. \A i \in 1..Len(t) : ~(i + 1 <= 0)
  OBVIOUS
<1>5. \A i \in 1..Len(t) :
         i <= Pending(s[1]) <=> s[1].op \in Blobs /\ i <= s[1].pages
  BY DEF Pending
<1>6. \A i \in 1..Len(t) : t[i].op = "page" <=>
         \/ i <= Pending(s[1])
         \/ \E j \in 1..i-1 : t[j].op \in Blobs /\ i <= j + t[j].pages
  BY <1>4, <1>5, PagesMoved
<1>7. \A i \in 1..Len(t) : t[i].op \in Blobs =>
         t[i].pages > 0 /\ i + t[i].pages <= Len(t)
  BY BlobsMoved
<1> QED
  BY <1>2, <1>3, <1>6, <1>7 DEF Framed

LEMMA ReadsOther ==
  ASSUME NEW s \in Seq(Tokens), NEW t \in Seq(Tokens), Rest(s, t), Ordered(s)
  PROVE  /\ Ordered(t)
         /\ \A ops : Holds(t, ops) => Holds(s, ops)
         /\ s[1].op \in Blobs => ~Holds(t, Blobs)
         /\ s[1].op = "cancel" => ~Holds(s, Continuations)
         /\ Outlived(s) =>
               /\ s[1].op = "process" => \A i \in 1..Len(t) : t[i].op # "cancel"
               /\ s[1].op # "process" => Outlived(t)
               /\ s[1].op = "cancel" => Holds(s, {"process"})
<1>1. Len(s) \in Nat /\ Len(t) = Len(s) - 1 /\ 1 \in 1..Len(s)
      /\ \A i \in 1..Len(t) : i + 1 \in 1..Len(s) /\ t[i] = s[i + 1]
  BY DEF Rest
<1>2. Ordered(t)
  BY <1>1 DEF Ordered
<1>3. \A ops : Holds(t, ops) => Holds(s, ops)
  BY <1>1 DEF Holds
<1>4. s[1].op \in Blobs => ~Holds(t, Blobs)
  BY <1>1 DEF Ordered, Holds
<1>5. s[1].op = "cancel" => ~Holds(s, Continuations)
  BY <1>1 DEF Ordered, Holds
<1>6. ASSUME Outlived(s)
      PROVE  /\ s[1].op = "process" => \A i \in 1..Len(t) : t[i].op # "cancel"
             /\ s[1].op # "process" => Outlived(t)
             /\ s[1].op = "cancel" => Holds(s, {"process"})
  <2>1. ASSUME NEW i \in 1..Len(t), t[i].op = "cancel"
        PROVE  \E j \in i+1..Len(t) : t[j].op = "process"
    <3>1. PICK j \in (i+1)+1..Len(s) : s[j].op = "process"
      <4>1. i + 1 \in 1..Len(s) /\ s[i + 1].op = "cancel"
        BY <1>1, <2>1
      <4> QED
        BY <1>6, <4>1 DEF Outlived
    <3>2. j - 1 \in i+1..Len(t) /\ t[j - 1] = s[j]
      BY <1>1, <3>1, RestFacts
    <3> QED
      BY <3>1, <3>2
  <2>2. ASSUME s[1].op = "process", NEW i \in 1..Len(t), t[i].op = "cancel"
        PROVE  FALSE
    <3>1. PICK j \in i+1..Len(t) : t[j].op = "process"
      BY <2>1, <2>2
    <3>2. j + 1 \in 1..Len(s) /\ s[j + 1].op = "process" /\ j + 1 # 1
      BY <1>1, <3>1
    <3> QED
      BY <1>1, <2>2, <3>2 DEF Ordered, Blobs
  <2>3. ASSUME s[1].op = "cancel"
        PROVE  Holds(s, {"process"})
    BY <1>1, <1>6, <2>3 DEF Outlived, Holds
  <2> QED
    BY <2>1, <2>2, <2>3 DEF Outlived
<1> QED
  BY <1>2, <1>3, <1>4, <1>5, <1>6

\* What is written behind s.
LEMMA BothParts ==
  ASSUME NEW s \in Seq(Tokens), NEW u \in Seq(Tokens)
  PROVE  /\ s \o u \in Seq(Tokens)
         /\ Len(s) \in Nat /\ Len(u) \in Nat /\ Len(s \o u) = Len(s) + Len(u)
         /\ \A i \in 1..Len(s) : i \in 1..Len(s \o u) /\ (s \o u)[i] = s[i]
         /\ \A i \in 1..Len(s \o u) : i \notin 1..Len(s) =>
               i - Len(s) \in 1..Len(u) /\ (s \o u)[i] = u[i - Len(s)]
         /\ \A i \in 1..Len(s) : s[i].pages \in Nat
         /\ \A i \in 1..Len(u) : u[i].pages \in Nat
<1>1. \A i \in 1..Len(s) : s[i] \in Tokens
  BY ElementOfSeq
<1>2. \A i \in 1..Len(u) : u[i] \in Tokens
  BY ElementOfSeq
<1>3. /\ s \o u \in Seq(Tokens) /\ Len(s) \in Nat /\ Len(u) \in Nat
      /\ Len(s \o u) = Len(s) + Len(u)
      /\ \A i \in 1..Len(s) + Len(u) :
            (s \o u)[i] = IF i <= Len(s) THEN s[i] ELSE u[i - Len(s)]
  BY ConcatProperties, LenProperties
<1>4. \A i \in 1..Len(s) : i \in 1..Len(s \o u) /\ (s \o u)[i] = s[i]
  BY <1>3
<1>5. \A i \in 1..Len(s \o u) : i \notin 1..Len(s) =>
         i - Len(s) \in 1..Len(u) /\ (s \o u)[i] = u[i - Len(s)]
  BY <1>3
<1> QED
  BY <1>1, <1>2, <1>3, <1>4, <1>5 DEF Tokens

LEMMA HeldByBoth ==
  ASSUME NEW s \in Seq(Tokens), NEW u \in Seq(Tokens), NEW ops
  PROVE  Holds(s \o u, ops) <=> Holds(s, ops) \/ Holds(u, ops)
<1>1. ASSUME NEW i \in 1..Len(s \o u), (s \o u)[i].op \in ops
      PROVE  Holds(s, ops) \/ Holds(u, ops)
  <2>1. CASE i \in 1..Len(s)
    BY <1>1, <2>1, BothParts DEF Holds
  <2>2. CASE i \notin 1..Len(s)
    <3>1. i - Len(s) \in 1..Len(u) /\ u[i - Len(s)].op \in ops
      BY <1>1, <2>2, BothParts
    <3> QED
      BY <3>1 DEF Holds
  <2> QED
    BY <2>1, <2>2
<1>2. ASSUME NEW i \in 1..Len(s), s[i].op \in ops
      PROVE  Holds(s \o u, ops)
  BY <1>2, BothParts DEF Holds
<1>3. ASSUME NEW i \in 1..Len(u), u[i].op \in ops
      PROVE  Holds(s \o u, ops)
  <2>1. /\ Len(s) \in Nat /\ Len(u) \in Nat /\ Len(s \o u) = Len(s) + Len(u)
    BY BothParts
  <2>2. /\ Len(s) + i \in 1..Len(s \o u) /\ Len(s) + i \notin 1..Len(s)
        /\ (Len(s) + i) - Len(s) = i
    BY <2>1
  <2>3. (s \o u)[Len(s) + i] = u[i]
    BY <2>2, BothParts
  <2> QED
    BY <1>3, <2>2, <2>3 DEF Holds
<1> QED
  BY <1>1, <1>2, <1>3 DEF Holds

LEMMA FramedBySameBlobs ==
  ASSUME NEW s \in Seq(Tokens), NEW u \in Seq(Tokens), NEW n \in Nat, Framed(s, n),
         ~Holds(u, Blobs \cup {"page"})
  PROVE  Framed(s \o u, n)
<1> DEFINE t == s \o u
<1>1. /\ Len(s) \in Nat /\ Len(t) \in Nat /\ Len(s) <= Len(t) /\ n <= Len(s)
      /\ \A i \in 1..Len(s) : i \in 1..Len(t) /\ t[i] = s[i]
      /\ \A i \in 1..Len(s) : s[i].pages \in Nat
  BY BothParts DEF Framed
<1>2. \A i \in 1..Len(t) : i \notin 1..Len(s) =>
         t[i].op \notin Blobs /\ t[i].op # "page"
  BY BothParts DEF Holds
<1> HIDE DEF t
<1>3. ASSUME NEW i \in 1..Len(t), t[i].op \in Blobs
      PROVE  i \in 1..Len(s) /\ t[i].pages > 0 /\ i + t[i].pages <= Len(s)
  BY <1>1, <1>2, <1>3 DEF Framed
<1>4. ASSUME NEW i \in 1..Len(s)
      PROVE  t[i].op = "page" <=>
                \/ i <= n
                \/ \E j \in 1..i-1 : t[j].op \in Blobs /\ i <= j + t[j].pages
  <2>1. \A j \in 1..i-1 : t[j] = s[j]
    BY <1>1
  <2> QED
    BY <1>1, <2>1 DEF Framed
<1>5. ASSUME NEW i \in 1..Len(t), i \notin 1..Len(s)
      PROVE  ~(\E j \in 1..i-1 : t[j].op \in Blobs /\ i <= j + t[j].pages)
  <2>1. ASSUME NEW j \in 1..i-1, t[j].op \in Blobs, i <= j + t[j].pages
        PROVE  FALSE
    <3>1. j \in 1..Len(t) /\ i > Len(s)
      BY <1>1, <1>5
    <3>2. j \in 1..Len(s) /\ j + t[j].pages <= Len(s) /\ t[j].pages \in Nat
      BY <1>1, <1>3, <2>1, <3>1
    <3> QED
      BY <1>1, <2>1, <3>1, <3>2
  <2> QED
    BY <2>1
<1>6. \A i \in 1..Len(t) : t[i].op \in Blobs => i + t[i].pages <= Len(t)
  <2> TAKE i \in 1..Len(t)
  <2> HAVE t[i].op \in Blobs
  <2>1. i \in 1..Len(s) /\ i + t[i].pages <= Len(s) /\ t[i].pages \in Nat
    BY <1>1, <1>3
  <2> QED
    BY <1>1, <2>1
<1>7. \A i \in 1..Len(t) : i \notin 1..Len(s) => ~(i <= n)
  BY <1>1
<1>8. Framed(t, n)
  BY <1>1, <1>2, <1>3, <1>4, <1>5, <1>6, <1>7 DEF Framed
<1> QED
  BY <1>8 DEF t

LEMMA WritesControl ==
  ASSUME NEW s \in Seq(Tokens), NEW u \in Seq(Tokens), Ordered(s),
         ~Holds(u, Blobs)
  PROVE  Ordered(s \o u)
<1> DEFINE t == s \o u
<1>1. /\ Len(s) \in Nat
      /\ \A i \in 1..Len(s) : t[i] = s[i]
      /\ \A i \in 1..Len(t) : i \notin 1..Len(s) => t[i].op \notin Blobs /\ i > Len(s)
  BY BothParts DEF Holds
<1> HIDE DEF t
<1>2. Ordered(t)
  BY <1>1 DEF Ordered, Blobs, Continuations
<1> QED
  BY <1>2 DEF t

LEMMA MessageParts ==
  ASSUME NEW op \in Blobs, NEW n \in Nat \ {0}
  PROVE  /\ Message(op, n) \in Seq(Tokens)
         /\ Len(Message(op, n)) = n + 1
         /\ Message(op, n)[1] = [op |-> op, pages |-> n]
         /\ \A i \in 2..n + 1 : Message(op, n)[i].op = "page"
<1> DEFINE first == <<[op |-> op, pages |-> n]>>
           pages == [i \in 1..n |-> Token("page")]
<1>1. [op |-> op, pages |-> n] \in Tokens /\ Token("page") \in Tokens
  BY DEF Tokens, Token, Opcodes
<1>2. /\ first \in Seq(Tokens) /\ Len(first) = 1
      /\ first[1] = [op |-> op, pages |-> n]
  BY <1>1
<1>3. pages \in Seq(Tokens) /\ Len(pages) = n /\ \A i \in 1..n : pages[i] = Token("page")
  BY <1>1
<1>4. Message(op, n) = first \o pages
  BY DEF Message
<1> HIDE DEF first, pages
<1> HIDE DEF Tokens
<1>5. /\ first \o pages \in Seq(Tokens)
      /\ Len(first \o pages) = Len(first) + Len(pages)
      /\ \A i \in 1..Len(first) + Len(pages) : (first \o pages)[i] =
            IF i <= Len(first) THEN first[i] ELSE pages[i - Len(first)]
  BY <1>2, <1>3, ConcatProperties, Zenon
<1>6. Len(first \o pages) = n + 1
  BY <1>2, <1>3, <1>5
<1>7. (first \o pages)[1] = first[1]
  BY <1>2, <1>3, <1>5
<1>8. ASSUME NEW i \in 2..n + 1
      PROVE  (first \o pages)[i] = Token("page")
  <2>1. i - 1 \in 1..n /\ i \in 1..Len(first) + Len(pages) /\ ~(i <= Len(first))
    BY <1>2, <1>3
  <2>2. (first \o pages)[i] = pages[i - 1]
    BY <1>2, <1>5, <2>1
  <2> QED
    BY <1>3, <2>1, <2>2
<1> QED
  BY <1>2, <1>4, <1>5, <1>6, <1>7, <1>8 DEF Token

LEMMA WritesMessage ==
  ASSUME NEW s \in Seq(Tokens), Framed(s, 0), ~Holds(s, Blobs),
         NEW op \in Blobs, NEW n \in Nat \ {0},
         op = "process" \/ ~Holds(s, {"cancel"})
  PROVE  LET t == s \o Message(op, n) IN
         /\ Framed(t, 0)
         /\ Ordered(t)
         /\ Outlived(t)
         /\ \A ops : Holds(t, ops) => Holds(s, ops) \/ ops \cap {op, "page"} # {}
<1> DEFINE u == Message(op, n)
           t == s \o u
           at == Len(s) + 1
<1>1. /\ u \in Seq(Tokens) /\ Len(u) = n + 1 /\ u[1] = [op |-> op, pages |-> n]
      /\ \A i \in 2..n + 1 : u[i].op = "page"
  BY MessageParts
<1> HIDE DEF u
<1>2. /\ t \in Seq(Tokens) /\ Len(s) \in Nat /\ Len(t) = Len(s) + Len(u)
      /\ \A i \in 1..Len(s) : i \in 1..Len(t) /\ t[i] = s[i]
      /\ \A i \in 1..Len(t) : i \notin 1..Len(s) =>
            i - Len(s) \in 1..Len(u) /\ t[i] = u[i - Len(s)]
  BY <1>1, BothParts, Zenon
<1> HIDE DEF t
<1>3. at \in 1..Len(t) /\ t[at].op = op /\ t[at].pages = n
  <2>1. at \in 1..Len(t) /\ at \notin 1..Len(s) /\ at - Len(s) = 1
    BY <1>1, <1>2
  <2>2. t[at] = u[1]
    BY <1>2, <2>1
  <2> QED
    BY <1>1, <2>1, <2>2
<1>4. \A i \in at+1..Len(t) : t[i].op = "page"
  <2> TAKE i \in at+1..Len(t)
  <2>1. i \in 1..Len(t) /\ i \notin 1..Len(s) /\ i - Len(s) \in 2..n + 1
    BY <1>1, <1>2
  <2> QED
    BY <1>1, <1>2, <2>1
<1>5. \A i \in 1..Len(s) : t[i].op \notin Blobs /\ t[i].op # "page"
  BY <1>2 DEF Framed, Holds
<1>6. Len(t) = at + n
      /\ \A i \in 1..Len(t) : i \in 1..Len(s) \/ i = at \/ i \in at+1..Len(t)
  BY <1>1, <1>2
<1>7. "page" \notin Blobs /\ "cancel" \notin Blobs /\ op \in {"process"} \cup Continuations
      /\ Continuations \subseteq Blobs /\ op # "page" /\ op # "cancel"
  BY DEF Blobs, Continuations
<1>8. \A i \in 1..Len(t) : t[i].op \in Blobs <=> i = at
  BY <1>3, <1>4, <1>5, <1>6, <1>7
<1>9. Framed(t, 0)
  <2>1. \A i \in 1..Len(t) : t[i].op \in Blobs =>
           t[i].pages > 0 /\ i + t[i].pages <= Len(t)
    BY <1>2, <1>3, <1>6, <1>8
  <2>2. ASSUME NEW i \in 1..Len(t)
        PROVE  t[i].op = "page" <=>
                  \/ i <= 0
                  \/ \E j \in 1..i-1 : t[j].op \in Blobs /\ i <= j + t[j].pages
    <3>1. CASE i \in 1..Len(s)
      <4>1. \A j \in 1..i-1 : j \in 1..Len(t) /\ j # at
        BY <1>2, <3>1
      <4> QED
        BY <1>5, <1>8, <3>1, <4>1
    <3>2. CASE i = at
      <4>1. \A j \in 1..i-1 : j \in 1..Len(t) /\ j # at
        BY <1>2, <3>2
      <4> QED
        BY <1>2, <1>3, <1>7, <1>8, <3>2, <4>1
    <3>3. CASE i \in at+1..Len(t)
      <4>1. at \in 1..i-1 /\ i <= at + n
        BY <1>2, <1>6, <3>3
      <4> QED
        BY <1>3, <1>4, <1>8, <3>3, <4>1
    <3> QED
      BY <1>6, <3>1, <3>2, <3>3
  <2> QED
    BY <1>2, <2>1, <2>2 DEF Framed
<1>10. \A i \in 1..Len(t) : t[i].op = "cancel" =>
          i \in 1..Len(s) /\ s[i].op = "cancel" /\ op = "process"
  BY <1>2, <1>3, <1>4, <1>6, <1>7 DEF Holds
<1>11. Ordered(t)
  BY <1>7, <1>8, <1>10, <1>3 DEF Ordered, Continuations
<1>12. Outlived(t)
  <2> SUFFICES ASSUME NEW i \in 1..Len(t), t[i].op = "cancel"
               PROVE  \E j \in i+1..Len(t) : t[j].op = "process"
    BY DEF Outlived
  <2>1. at \in i+1..Len(t) /\ op = "process"
    BY <1>2, <1>6, <1>10
  <2> QED
    BY <1>3, <2>1
<1>13. ASSUME NEW ops, Holds(t, ops)
       PROVE  Holds(s, ops) \/ ops \cap {op, "page"} # {}
  <2>1. PICK i \in 1..Len(t) : t[i].op \in ops
    BY <1>13 DEF Holds
  <2> QED
    BY <1>2, <1>3, <1>4, <1>6, <2>1 DEF Holds
<1> QED
  BY <1>9, <1>11, <1>12, <1>13 DEF t, u

\* What the cancel thread takes is past what m_inFile has read ahead.
LEMMA TakenBehind ==
  ASSUME TypeOK, pipe # <<>>, pipe' = Tail(pipe), UNCHANGED <<inFile, writeBuffer>>
  PROVE  /\ pipe' \in Seq(Tokens)
         /\ Unread' \in Seq(Tokens)
         /\ \A ops : Holds(Unread', ops) => Holds(Unread, ops)
         /\ \A ops : Head(pipe).op \in ops => Holds(Unread, ops)
<1>1. /\ inFile \in Seq(Tokens) /\ pipe \in Seq(Tokens)
      /\ writeBuffer \in Seq(Tokens)
  BY DEF TypeOK
<1>2. /\ pipe' \in Seq(Tokens) /\ 1 \in 1..Len(pipe) /\ Head(pipe) = pipe[1]
      /\ \A i \in 1..Len(pipe') : i + 1 \in 1..Len(pipe) /\ pipe'[i] = pipe[i + 1]
  BY <1>1
<1>3. /\ inFile \o pipe \in Seq(Tokens) /\ inFile \o pipe' \in Seq(Tokens)
      /\ Unread = (inFile \o pipe) \o writeBuffer
      /\ Unread' = (inFile \o pipe') \o writeBuffer
  BY <1>1, <1>2 DEF Unread, Input
<1>4. ASSUME NEW ops
      PROVE  /\ Holds(Unread, ops) <=>
                   Holds(inFile, ops) \/ Holds(pipe, ops) \/ Holds(writeBuffer, ops)
             /\ Holds(Unread', ops) <=>
                   Holds(inFile, ops) \/ Holds(pipe', ops) \/ Holds(writeBuffer, ops)
  BY <1>1, <1>2, <1>3, HeldByBoth
<1>5. \A ops : Holds(pipe', ops) => Holds(pipe, ops)
  BY <1>2 DEF Holds
<1>6. \A ops : Head(pipe).op \in ops => Holds(pipe, ops)
  BY <1>2 DEF Holds
<1>7. Unread' \in Seq(Tokens)
  BY <1>1, <1>3, ConcatProperties
<1> QED
  BY <1>2, <1>4, <1>5, <1>6, <1>7

-----------------------------------------------------------------------------
(* The daemon's steps. *)

ProcessSame == UNCHANGED <<inFile, mainVars, cancelThread, plugin, posted, ended, history>>

LEMMA ThreadsSame ==
  ASSUME ReadInv, ProcessSame
  PROVE  /\ NothingMisread'
         /\ Deaf => Deaf'
         /\ Live => ThreadsInv'
         /\ Reading' = Reading /\ Left' = Left
BY DEF ReadInv, ProcessSame, NothingMisread, Deaf, Live, ThreadsInv, Reading, Left,
       mainVars

LEMMA LeftType ==
  ASSUME TypeOK, ThreadsInv
  PROVE  Left \in Nat /\ (Left = 0 <=> ~Reading)
BY DEF TypeOK, ThreadsInv, Left, Reading

\* Writing tokens that are no operation and no page.
LEMMA ControlStep ==
  ASSUME ReadInv, Live, NEW tokens \in Seq(Tokens), Writes(tokens), UNCHANGED inputVars,
         ~Holds(tokens, Blobs \cup {"page", "mechanisms"}),
         ProcessSame, UNCHANGED output,
         canceled' \/ phase' = "closed",
         phase' \in {phase, "closed"}, phase \in {"idle", "busy", "dialog"},
         canceled => canceled'
  PROVE  Live'
<1>1. /\ TypeOK /\ ThreadsInv /\ InputInv /\ AnswersInv /\ ThreadsInv'
      /\ Reading' = Reading /\ Left' = Left /\ Left \in Nat
  BY ThreadsSame, LeftType DEF ReadInv, Live
<1>2. Unread' = Unread \o tokens /\ Unread \in Seq(Tokens)
  BY <1>1, WritesUnread, UnreadType
<1>3. /\ blob' = blob /\ plugin' = plugin /\ cancelThread' = cancelThread
      /\ posted' = posted /\ output' = output
  BY DEF ProcessSame, mainVars
<1>4. ~Holds(tokens, Blobs) /\ ~Holds(tokens, {"process"}) /\ ~Holds(tokens, Continuations)
      /\ ~Holds(tokens, {"mechanisms"}) /\ ~Holds(tokens, Blobs \cup {"page"})
  BY DEF Holds, Blobs, Continuations
<1>5. /\ Holds(Unread', Blobs) <=> Holds(Unread, Blobs)
      /\ Holds(Unread', {"process"}) <=> Holds(Unread, {"process"})
      /\ Holds(Unread', Continuations) <=> Holds(Unread, Continuations)
      /\ Holds(Unread', {"mechanisms"}) <=> Holds(Unread, {"mechanisms"})
  BY <1>2, <1>4, HeldByBoth
<1>6. Framed(Unread', Left') /\ Ordered(Unread')
  BY <1>1, <1>2, <1>4, FramedBySameBlobs, WritesControl DEF InputInv
<1>7. InputInv'
  BY <1>1, <1>3, <1>5, <1>6 DEF InputInv
<1>8. AtWork' <=> AtWork
  BY <1>1, <1>3, <1>5 DEF AtWork
<1>9. AnswersInv'
  BY <1>1, <1>3, <1>8 DEF AnswersInv
<1> QED
  BY <1>1, <1>7, <1>9 DEF Live

LEMMA ControlTokens ==
  ASSUME NEW op1 \in {"cancel", "stop"}, NEW op2 \in {"cancel", "stop"}
  PROVE  /\ <<Token(op1)>> \in Seq(Tokens)
         /\ <<Token(op1), Token(op2)>> \in Seq(Tokens)
         /\ ~Holds(<<Token(op1)>>, Blobs \cup {"page", "mechanisms"})
         /\ ~Holds(<<Token(op1), Token(op2)>>, Blobs \cup {"page", "mechanisms"})
<1>1. Token(op1) \in Tokens /\ Token(op2) \in Tokens
  BY DEF Token, Tokens, Opcodes
<1>2. /\ Token(op1).op \notin Blobs \cup {"page", "mechanisms"}
      /\ Token(op2).op \notin Blobs \cup {"page", "mechanisms"}
  BY DEF Token, Blobs
<1> HIDE DEF Tokens, Token
<1>3. /\ \A i \in 1..Len(<<Token(op1)>>) : <<Token(op1)>>[i] = Token(op1)
      /\ \A i \in 1..Len(<<Token(op1), Token(op2)>>) :
            <<Token(op1), Token(op2)>>[i] \in {Token(op1), Token(op2)}
  OBVIOUS
<1> QED
  BY <1>1, <1>2, <1>3 DEF Holds

LEMMA cancelStep ==
  ASSUME ReadInv, cancel
  PROVE  ReadInv'
<1> DEFINE tokens == <<Token("cancel")>>
<1>1. tokens \in Seq(Tokens) /\ ~Holds(tokens, Blobs \cup {"page", "mechanisms"})
  BY ControlTokens
<1>2. Writes(tokens) /\ ProcessSame /\ UNCHANGED inputVars /\ UNCHANGED output
  BY DEF cancel, processSilent, ProcessSame, inputVars
<1> HIDE DEF tokens
<1>3. TypeOK'
  BY <1>1, <1>2, WritesUnread DEF ReadInv, TypeOK, cancel, ProcessSame, mainVars, inputVars
<1>4. Live => Live'
  BY <1>1, <1>2, ControlStep DEF cancel
<1> QED
  BY <1>2, <1>3, <1>4, ThreadsSame DEF ReadInv

LEMMA destroyStep ==
  ASSUME ReadInv, destroy
  PROVE  ReadInv'
<1> DEFINE tokens == IF phase = "idle" THEN <<Token("stop")>>
                                       ELSE <<Token("cancel"), Token("stop")>>
<1>1. tokens \in Seq(Tokens) /\ ~Holds(tokens, Blobs \cup {"page", "mechanisms"})
  BY ControlTokens
<1>2. Writes(tokens) /\ ProcessSame /\ UNCHANGED inputVars /\ UNCHANGED output
  BY DEF destroy, processSilent, ProcessSame, inputVars
<1> HIDE DEF tokens
<1>3. TypeOK'
  BY <1>1, <1>2, WritesUnread DEF ReadInv, TypeOK, destroy, ProcessSame, mainVars, inputVars
<1>4. Live => Live'
  BY <1>1, <1>2, ControlStep DEF destroy
<1> QED
  BY <1>2, <1>3, <1>4, ThreadsSame DEF ReadInv

\* An operation is only written when none is at work, and after no cancel of a
\* request it continues.
LEMMA OperationStep ==
  ASSUME ReadInv, NEW op \in Blobs, NEW n \in Pages, Writes(Message(op, n)),
         UNCHANGED inputVars, ProcessSame, UNCHANGED <<output, canceled>>,
         phase' = "busy",
         \/ op = "process" /\ phase = "idle"
         \/ op # "process" /\ phase = "dialog" /\ ~canceled
  PROVE  ReadInv'
<1>1. Message(op, n) \in Seq(Tokens) /\ n \in Nat \ {0}
  BY MessageParts, ProcessAssumption
<1>2. Unread' = Unread \o Message(op, n) /\ writeBuffer' \in Seq(Tokens)
      /\ Unread \in Seq(Tokens)
  BY <1>1, WritesUnread, UnreadType DEF ReadInv
<1>3. TypeOK'
  BY <1>2 DEF ReadInv, TypeOK, ProcessSame, mainVars, inputVars
<1>4. /\ blob' = blob /\ plugin' = plugin /\ cancelThread' = cancelThread
      /\ posted' = posted /\ output' = output
  BY DEF ProcessSame, mainVars
<1>5. ASSUME Live
      PROVE  Live'
  <2>1. /\ TypeOK /\ ThreadsInv /\ InputInv /\ AnswersInv /\ ThreadsInv'
        /\ Reading' = Reading /\ Left' = Left
    BY <1>5, ThreadsSame DEF ReadInv, Live
  <2>2. ~AtWork /\ output = <<>>
    BY <2>1 DEF AnswersInv
  <2>3. ~Reading /\ ~cancelThread /\ ~Holds(Unread, Blobs) /\ Left = 0
    BY <2>2 DEF AtWork, Left
  <2>4. op # "process" => ~Holds(Unread, {"cancel"}) /\ plugin = "waiting"
    <3> SUFFICES ASSUME op # "process"
                 PROVE  ~Holds(Unread, {"cancel"}) /\ plugin = "waiting"
      OBVIOUS
    <3>1. Outlived(Unread) /\ plugin = "waiting"
      BY <2>1 DEF InputInv, AnswersInv
    <3>2. \A j \in 1..Len(Unread) : Unread[j].op # "process"
      BY <2>3 DEF Holds, Blobs
    <3>3. Len(Unread) \in Nat
      BY <1>2
    <3> QED
      BY <3>1, <3>2, <3>3 DEF Holds, Outlived
  <2>5. op = "process" => plugin = "idle"
    BY <2>1 DEF AnswersInv
  <2>6. /\ Framed(Unread', 0) /\ Ordered(Unread') /\ Outlived(Unread')
        /\ \A ops : Holds(Unread', ops) => Holds(Unread, ops) \/ ops \cap {op, "page"} # {}
    BY <1>1, <1>2, <2>1, <2>3, <2>4, WritesMessage DEF InputInv
  <2>7. /\ Holds(Unread', {"process"}) => op = "process"
        /\ Holds(Unread', Continuations) => op # "process"
        /\ ~Holds(Unread', {"mechanisms"})
    <3>1. ~Holds(Unread, {"process"}) /\ ~Holds(Unread, Continuations)
      BY <2>3 DEF Holds, Blobs, Continuations
    <3>2. ~Holds(Unread, {"mechanisms"})
      BY <2>1 DEF InputInv
    <3>3. op # "mechanisms"
      BY DEF Blobs
    <3> QED
      BY <2>6, <3>1, <3>2, <3>3 DEF Continuations
  <2>8. InputInv'
    BY <1>4, <2>1, <2>3, <2>4, <2>5, <2>6, <2>7 DEF InputInv
  <2>9. AnswersInv'
    BY <1>4, <2>2 DEF AnswersInv
  <2> QED
    BY <2>1, <2>8, <2>9 DEF Live
<1> QED
  BY <1>3, <1>5, ThreadsSame DEF ReadInv

LEMMA processStep ==
  ASSUME ReadInv, NEW n \in Pages, process(n)
  PROVE  ReadInv'
BY OperationStep DEF process, processSilent, ProcessSame, inputVars, Blobs

LEMMA continueStep ==
  ASSUME ReadInv, NEW n \in Pages, NEW op \in Continuations, continue(op, n)
  PROVE  ReadInv'
BY OperationStep DEF continue, processSilent, ProcessSame, inputVars, Blobs, Continuations

LEMMA receiveStep ==
  ASSUME ReadInv, receive
  PROVE  ReadInv'
<1>1. /\ ProcessSame /\ UNCHANGED inputVars /\ UNCHANGED writeBuffer
      /\ output # <<>> /\ output' = Tail(output)
      /\ \/ handlePluginResponse(Head(output).op)
         \/ UNCHANGED <<phase, canceled>>
  BY DEF receive, processSilent, ProcessSame, inputVars
<1>2. /\ TypeOK /\ output \in Seq([op : Responses, pages : Nat])
      /\ output' \in Seq([op : Responses, pages : Nat])
      /\ Len(output') = Len(output) - 1 /\ Len(output) \in Nat \ {0}
      /\ Head(output) = output[1]
      /\ \A i \in 1..Len(output') : i + 1 \in 1..Len(output)
                                   /\ output'[i] = output[i + 1]
  BY <1>1 DEF ReadInv, TypeOK
<1>3. TypeOK'
  <2>1. phase \in {"starting", "idle", "busy", "dialog", "closed"} /\ canceled \in BOOLEAN
    BY <1>2 DEF TypeOK
  <2>2. phase' \in {phase, "idle", "dialog"}
    BY <1>1 DEF handlePluginResponse
  <2>3. canceled' \in BOOLEAN
    BY <1>1, <2>1 DEF handlePluginResponse
  <2>4. UNCHANGED <<pipe, inFile, writeBuffer, mainVars, cancelThread, plugin, posted,
                    history>>
    BY <1>1 DEF ProcessSame, inputVars
  <2> QED
    BY <1>2, <2>1, <2>2, <2>3, <2>4 DEF TypeOK, mainVars
<1>4. Unread' = Unread
  BY <1>1 DEF Unread, Input, inputVars
<1>5. ASSUME Live
      PROVE  Live'
  <2>1. /\ ThreadsInv' /\ InputInv /\ AnswersInv
        /\ Reading' = Reading /\ Left' = Left
        /\ blob' = blob /\ plugin' = plugin /\ cancelThread' = cancelThread
    BY <1>1, <1>5, ThreadsSame DEF Live, ProcessSame, mainVars
  <2>2. ~AtWork /\ ~AtWork'
    BY <1>1, <1>4, <2>1 DEF AtWork, AnswersInv
  <2>3. 1 \in 1..Len(output) /\ output[1].op \in Responses
    <3>1. 1 \in 1..Len(output)
      BY <1>2
    <3>2. output[1] \in [op : Responses, pages : Nat]
      BY <1>2, <3>1, ElementOfSeq
    <3> QED
      BY <3>1, <3>2
  <2>4. CASE output[1].op \in Finals
    <3>1. Len(output) = 1 /\ plugin = "idle"
      BY <2>1, <2>3, <2>4 DEF AnswersInv
    <3>2. output' = <<>>
      <4>1. Len(output') = 0
        BY <1>2, <3>1
      <4> QED
        BY <1>2, <4>1, EmptySeq
    <3>3. \/ phase' \in {"idle", "closed"}
          \/ UNCHANGED <<phase, canceled>>
      BY <1>1, <1>2, <2>4 DEF handlePluginResponse
    <3>4. phase # "starting" => phase' # "starting"
      BY <1>1, <1>3 DEF handlePluginResponse
    <3>5. Len(output) \in Nat /\ Len(output') = Len(output) - 1
      BY <1>2
    <3>6. phase = "starting" => Len(Unread) + Len(output) <= 1 /\ Len(Unread) \in Nat
      BY <2>1, <1>2, UnreadType DEF AnswersInv
    <3>7. InputInv'
      <4>1. Holds(Unread, {"mechanisms"}) => phase' = "starting"
        <5>1. phase = "starting" => Len(Unread) = 0
          BY <3>1, <3>6
        <5> QED
          BY <2>1, <5>1 DEF InputInv, Holds
      <4>2. canceled' \/ phase' \in {"idle", "closed"} \/ Outlived(Unread)
        BY <2>1, <3>3 DEF InputInv
      <4> QED
        BY <1>4, <2>1, <4>1, <4>2 DEF InputInv
    <3>8. AnswersInv'
      BY <1>4, <2>1, <2>2, <3>1, <3>2, <3>3, <3>4, <3>5, <3>6 DEF AnswersInv
    <3> QED
      BY <2>1, <3>7, <3>8 DEF Live
  <2>5. CASE output[1].op = "mechanisms"
    <3>1. phase = "starting" /\ plugin = "idle" /\ Len(Unread) + Len(output) <= 1
      BY <2>1, <2>3, <2>5 DEF AnswersInv
    <3>2. Len(Unread) = 0 /\ Len(output) = 1 /\ output' = <<>>
      BY <1>2, <3>1, UnreadType
    <3>3. phase' \in {"idle", "starting"}
      BY <1>1, <1>2, <2>5, <3>1 DEF handlePluginResponse
    <3>4. InputInv'
      <4>1. Outlived(Unread) /\ ~Holds(Unread, {"mechanisms"})
        BY <3>2 DEF Outlived, Holds
      <4> QED
        BY <1>4, <2>1, <4>1 DEF InputInv
    <3>5. AnswersInv'
      BY <1>4, <2>1, <2>2, <3>1, <3>2, <3>3 DEF AnswersInv
    <3> QED
      BY <2>1, <3>4, <3>5 DEF Live
  <2>6. CASE output[1].op \in {"ui", "refreshed"}
    <3>1. \/ phase = "closed"
          \/ phase = "busy" /\ (canceled \/ (plugin = "waiting" /\ Len(output) = 1))
      BY <2>1, <2>3, <2>6 DEF AnswersInv
    <3>2. /\ canceled' = canceled
          /\ \/ phase' = phase
             \/ ~canceled /\ phase = "busy" /\ phase' = "dialog"
      <4>1. output[1].op \notin Finals \cup {"mechanisms"} /\ output[1].op \notin Finals
        BY <2>6 DEF Finals
      <4>2. canceled \in BOOLEAN
        BY <1>2 DEF TypeOK
      <4>3. CASE handlePluginResponse(output[1].op)
        <5>1. canceled' = canceled
          BY <4>1, <4>2, <4>3 DEF handlePluginResponse
        <5>2. CASE phase = "closed"
          BY <5>1, <5>2, <4>3 DEF handlePluginResponse
        <5>3. CASE phase # "closed"
          <6>1. phase' = IF canceled \/ phase # "busy" THEN phase ELSE "dialog"
            BY <4>1, <4>3, <5>3 DEF handlePluginResponse
          <6> QED
            BY <5>1, <6>1
        <5> QED
          BY <5>2, <5>3
      <4> QED
        BY <1>1, <1>2, <4>3
    <3>3. InputInv'
      BY <1>4, <2>1, <3>1, <3>2 DEF InputInv
    <3>4. CASE phase' = phase
      <4>1. \A i \in 1..Len(output') :
              /\ output'[i].op \in Finals => i = Len(output') /\ plugin = "idle"
              /\ output'[i].op = "mechanisms" => phase = "starting"
              /\ output'[i].op \in {"ui", "refreshed"} =>
                    \/ phase = "closed"
                    \/ phase = "busy" /\ (canceled \/ (plugin = "waiting" /\ i = Len(output')))
        <5> TAKE i \in 1..Len(output')
        <5>1. i + 1 \in 1..Len(output) /\ output'[i] = output[i + 1]
          BY <1>2
        <5>2. i + 1 = Len(output) => i = Len(output')
          BY <1>2
        <5> QED
          BY <2>1, <5>1, <5>2 DEF AnswersInv
      <4> QED
        BY <1>4, <2>1, <2>2, <3>1, <3>2, <3>3, <3>4, <4>1 DEF AnswersInv, Live
    <3>5. CASE ~canceled /\ phase = "busy" /\ phase' = "dialog"
      <4>1. plugin = "waiting" /\ Len(output') = 0
        BY <1>2, <3>1, <3>5
      <4>2. output' = <<>>
        BY <1>2, <4>1, EmptySeq
      <4> QED
        BY <2>1, <4>2, <2>2, <3>3, <3>5, <4>1 DEF AnswersInv, Live
    <3> QED
      BY <3>2, <3>4, <3>5
  <2> QED
    BY <2>3, <2>4, <2>5, <2>6 DEF Responses
<1> QED
  BY <1>1, <1>3, <1>5, ThreadsSame DEF ReadInv

LEMMA flushStep ==
  ASSUME ReadInv, NEW n \in 1..Len(writeBuffer), flush(n)
  PROVE  ReadInv'
<1>1. /\ Unread' = Unread /\ pipe' \in Seq(Tokens) /\ writeBuffer' \in Seq(Tokens)
  BY FlushUnread DEF ReadInv
<1>2. ProcessSame /\ UNCHANGED <<phase, canceled, output>>
  BY DEF flush, ProcessSame
<1>3. TypeOK'
  BY <1>1, <1>2 DEF ReadInv, TypeOK, ProcessSame, mainVars
<1>4. Live => InputInv' /\ AnswersInv'
  BY <1>1, <1>2, ThreadsSame DEF Live, InputInv, AnswersInv, AtWork, ProcessSame, mainVars
<1> QED
  BY <1>2, <1>3, <1>4, ThreadsSame DEF ReadInv, Live

\* The process has ended, or nothing happens.
LEMMA killStep ==
  ASSUME ReadInv, kill \/ UNCHANGED vars
  PROVE  ReadInv'
<1>1. UNCHANGED <<phase, canceled, writeBuffer, inputVars, output, mainVars, cancelThread,
                  plugin, posted, history>>
  BY DEF kill, vars, daemonVars
<1> QED
  BY <1>1 DEF ReadInv, TypeOK, NothingMisread, Deaf, Live, ThreadsInv, InputInv, AnswersInv,
              AtWork, Reading, Left, Unread, Input, inputVars, mainVars

-----------------------------------------------------------------------------
(* The main thread's steps, none of which a deaf one takes. *)

ReadHistory == [misread : BOOLEAN, blobFailed : BOOLEAN, canceledEarly : BOOLEAN]

LEMMA EmitsOutput ==
  ASSUME TypeOK, NEW response \in Responses, Emits(response)
  PROVE  /\ output' \in Seq([op : Responses, pages : Nat])
         /\ Len(output) \in Nat
         /\ Len(output') = Len(output) + 1
         /\ output'[Len(output')].op = response
         /\ \A i \in 1..Len(output) : output'[i] = output[i]
<1>1. output \in Seq([op : Responses, pages : Nat])
  BY DEF TypeOK
<1>2. PICK n \in Nat : output' = Append(output, [op |-> response, pages |-> n])
  BY ProcessAssumption DEF Emits
<1>3. [op |-> response, pages |-> n] \in [op : Responses, pages : Nat]
  OBVIOUS
<1> QED
  BY <1>1, <1>2, <1>3, AppendProperties

LEMMA MisreadSame ==
  ASSUME ReadInv, NEW wrong, ~wrong, Misreads(wrong)
  PROVE  history' \in ReadHistory /\ ~history'.misread
<1>1. history \in ReadHistory /\ ~history.misread
  BY DEF ReadInv, TypeOK, NothingMisread, ReadHistory
<1>2. history' = [history EXCEPT !.misread = history.misread \/ wrong]
  BY DEF Misreads
<1> QED
  BY <1>1, <1>2 DEF ReadHistory

\* What startTask() takes is an opcode.
LEMMA TaskRead ==
  ASSUME ReadInv, startTask
  PROVE  /\ TypeOK /\ ThreadsInv /\ InputInv /\ AnswersInv
         /\ ~cancelThread /\ ~Reading /\ plugin # "working" /\ posted = 0
         /\ inFile' \in Seq(Tokens) /\ pipe' \in Seq(Tokens) /\ Input # <<>>
         /\ Unread \in Seq(Tokens) /\ Unread' \in Seq(Tokens)
         /\ Rest(Unread, Unread') /\ Head(Input) = Unread[1]
         /\ Unread[1] \in Tokens /\ 1 \in 1..Len(Unread)
         /\ Framed(Unread, 0) /\ Framed(Unread', Pending(Unread[1]))
         /\ history' \in ReadHistory /\ NothingMisread'
<1>1. TypeOK /\ ThreadsInv /\ InputInv /\ AnswersInv
  BY DEF ReadInv, Live, Deaf, startTask
<1>2. ~cancelThread /\ ~Reading /\ plugin # "working" /\ posted = 0 /\ Left = 0
  BY <1>1 DEF startTask, ThreadsInv, Reading, Left, TypeOK
<1>3. takesNext /\ writeBuffer' = writeBuffer
  BY DEF startTask, daemonVars
<1>4. Input # <<>>
  BY <1>1 DEF startTask, Input, TypeOK
<1>5. /\ inFile' \in Seq(Tokens) /\ pipe' \in Seq(Tokens)
      /\ Unread \in Seq(Tokens) /\ Unread' \in Seq(Tokens)
      /\ Rest(Unread, Unread') /\ Head(Input) = Unread[1]
  BY <1>1, <1>3, <1>4, TakenUnread, UnreadType DEF Rest
<1>6. 1 \in 1..Len(Unread) /\ Unread[1] \in Tokens
  <2>1. 1 \in 1..Len(Unread)
    BY <1>5 DEF Rest
  <2> QED
    BY <1>5, <2>1, ElementOfSeq
<1>7. Framed(Unread, 0)
  BY <1>1, <1>2 DEF InputInv
<1>8. Unread[1].op # "page" /\ Framed(Unread', Pending(Unread[1]))
  BY <1>5, <1>7, ReadsOpcode
<1>9. Misreads(Head(Input).op = "page")
  BY DEF startTask
<1>10. history' \in ReadHistory /\ NothingMisread'
  BY <1>5, <1>8, <1>9, MisreadSame DEF NothingMisread
<1> QED
  BY <1>1, <1>2, <1>4, <1>5, <1>6, <1>7, <1>8, <1>10

\* An opcode that changes nothing but what is unread.
LEMMA TaskIgnored ==
  ASSUME ReadInv, startTask, Unread[1].op \in {"cancel", "stop"},
         UNCHANGED <<output, notifier, blob, slot, main, cancelThread, plugin>>
  PROVE  ReadInv'
<1>1. /\ TypeOK /\ ThreadsInv /\ InputInv /\ AnswersInv
      /\ ~cancelThread /\ ~Reading
      /\ inFile' \in Seq(Tokens) /\ pipe' \in Seq(Tokens)
      /\ Unread \in Seq(Tokens) /\ Unread' \in Seq(Tokens)
      /\ Rest(Unread, Unread')
      /\ Framed(Unread', Pending(Unread[1]))
      /\ history' \in ReadHistory /\ NothingMisread'
  BY TaskRead
<1>2. UNCHANGED <<phase, canceled, writeBuffer, posted>>
  BY DEF startTask, daemonVars
<1>3. TypeOK'
  BY <1>1, <1>2 DEF TypeOK, ReadHistory
<1>4. ThreadsInv' /\ ~Reading' /\ Left' = 0 /\ Pending(Unread[1]) = 0
  BY <1>1, <1>2 DEF ThreadsInv, Reading, Left, Pending, Blobs
<1>5. /\ Ordered(Unread')
      /\ \A ops : Holds(Unread', ops) => Holds(Unread, ops)
      /\ Outlived(Unread) => Outlived(Unread')
  BY <1>1, ReadsOther DEF InputInv
<1>6. InputInv'
  BY <1>1, <1>2, <1>4, <1>5 DEF InputInv
<1>7. AtWork' => AtWork
  BY <1>1, <1>4, <1>5 DEF AtWork
<1>8. Len(Unread') = Len(Unread) - 1 /\ Len(Unread) \in Nat /\ Len(output) \in Nat
  BY <1>1 DEF Rest, TypeOK
<1>9. AnswersInv'
  <2>1. phase = "starting" => Len(Unread') + Len(output) <= 1
    BY <1>1, <1>8 DEF AnswersInv
  <2> QED
    BY <1>1, <1>2, <1>7, <2>1 DEF AnswersInv
<1> QED
  BY <1>1, <1>3, <1>4, <1>6, <1>9 DEF ReadInv, Live

\* An operation: its pages are what is read next.
LEMMA TaskBlob ==
  ASSUME ReadInv, startTask, Unread[1].op \in Blobs,
         blob' = [operation |-> Unread[1].op, size |-> Unread[1].pages, got |-> 0],
         slot' = IF Unread[1].pages > 1 THEN "readBlob" ELSE "none",
         main' = "receiving",
         UNCHANGED <<output, notifier, cancelThread, plugin>>
  PROVE  ReadInv'
<1>1. /\ TypeOK /\ ThreadsInv /\ InputInv /\ AnswersInv
      /\ ~cancelThread /\ ~Reading /\ plugin # "working" /\ posted = 0
      /\ inFile' \in Seq(Tokens) /\ pipe' \in Seq(Tokens)
      /\ Unread \in Seq(Tokens) /\ Unread' \in Seq(Tokens)
      /\ Rest(Unread, Unread') /\ Unread[1] \in Tokens /\ 1 \in 1..Len(Unread)
      /\ Framed(Unread, 0) /\ Framed(Unread', Pending(Unread[1]))
      /\ history' \in ReadHistory /\ NothingMisread'
  BY TaskRead
<1>2. UNCHANGED <<phase, canceled, writeBuffer, posted>> /\ notifier
  BY DEF startTask, daemonVars
<1>3. /\ Unread[1].pages \in Nat /\ Unread[1].pages > 0
      /\ Pending(Unread[1]) = Unread[1].pages
  BY <1>1 DEF Framed, Tokens, Pending
<1>4. /\ blob'.operation = Unread[1].op /\ blob'.size = Unread[1].pages
      /\ blob'.got = 0
      /\ blob' \in [operation : Opcodes \cup {"page"}, size : Nat, got : Nat]
  BY <1>3 DEF Opcodes
<1>5. TypeOK'
  <2>1. slot' \in {"startTask", "readBlob", "none"}
    OBVIOUS
  <2> QED
    BY <1>1, <1>2, <1>4, <2>1 DEF TypeOK, ReadHistory
<1>6. Reading' /\ Left' = Pending(Unread[1])
  BY <1>3, <1>4 DEF Reading, Left
<1>7. ThreadsInv'
  BY <1>1, <1>2, <1>3, <1>4, <1>6 DEF ThreadsInv
<1>8. /\ Ordered(Unread') /\ ~Holds(Unread', Blobs)
      /\ \A ops : Holds(Unread', ops) => Holds(Unread, ops)
      /\ Outlived(Unread) => Outlived(Unread')
  <2>1. Ordered(Unread)
    BY <1>1 DEF InputInv
  <2>2. /\ Ordered(Unread') /\ ~Holds(Unread', Blobs)
        /\ \A ops : Holds(Unread', ops) => Holds(Unread, ops)
    BY <1>1, <2>1, ReadsOther
  <2>3. ASSUME Outlived(Unread)
        PROVE  Outlived(Unread')
    <3>1. /\ Unread[1].op = "process" => \A i \in 1..Len(Unread') : Unread'[i].op # "cancel"
          /\ Unread[1].op # "process" => Outlived(Unread')
      BY <1>1, <2>1, <2>3, ReadsOther
    <3> QED
      BY <3>1 DEF Outlived
  <2> QED
    BY <2>2, <2>3
<1>9. /\ Holds(Unread, Blobs)
      /\ Unread[1].op = "process" => Holds(Unread, {"process"})
      /\ Unread[1].op # "process" => Holds(Unread, Continuations)
  BY <1>1 DEF Holds, Blobs, Continuations
<1>10. ~Holds(Unread', {"process"}) /\ ~Holds(Unread', Continuations)
  BY <1>8 DEF Holds, Blobs, Continuations
<1>11. InputInv'
  BY <1>1, <1>2, <1>4, <1>6, <1>8, <1>9, <1>10 DEF InputInv
<1>12. AtWork
  BY <1>9 DEF AtWork
<1>13. AnswersInv'
  BY <1>1, <1>2, <1>12 DEF AnswersInv
<1> QED
  BY <1>1, <1>5, <1>7, <1>11, <1>13 DEF ReadInv, Live

\* The reply to queryMechanisms is the first answer of all.
LEMMA TaskMechanisms ==
  ASSUME ReadInv, startTask, Unread[1].op = "mechanisms", Emits("mechanisms"),
         UNCHANGED <<notifier, blob, slot, main, cancelThread, plugin>>
  PROVE  ReadInv'
<1>1. /\ TypeOK /\ ThreadsInv /\ InputInv /\ AnswersInv
      /\ ~cancelThread /\ ~Reading
      /\ inFile' \in Seq(Tokens) /\ pipe' \in Seq(Tokens)
      /\ Unread \in Seq(Tokens) /\ Unread' \in Seq(Tokens)
      /\ Rest(Unread, Unread') /\ 1 \in 1..Len(Unread)
      /\ Framed(Unread', Pending(Unread[1]))
      /\ history' \in ReadHistory /\ NothingMisread'
  BY TaskRead
<1>2. UNCHANGED <<phase, canceled, writeBuffer, posted>>
  BY DEF startTask, daemonVars
<1>3. /\ output' \in Seq([op : Responses, pages : Nat])
      /\ Len(output) \in Nat /\ Len(output') = Len(output) + 1
      /\ output'[Len(output')].op = "mechanisms"
  BY <1>1, EmitsOutput DEF Responses
<1>4. TypeOK'
  BY <1>1, <1>2, <1>3 DEF TypeOK, ReadHistory
<1>5. ThreadsInv' /\ ~Reading' /\ Left' = 0 /\ Pending(Unread[1]) = 0
  BY <1>1, <1>2 DEF ThreadsInv, Reading, Left, Pending, Blobs
<1>6. phase = "starting" /\ plugin = "idle" /\ Len(Unread) + Len(output) <= 1
  BY <1>1 DEF InputInv, AnswersInv, Holds
<1>7. Len(Unread') = 0 /\ Len(output') = 1
  BY <1>1, <1>3, <1>6 DEF Rest
<1>8. \A ops : ~Holds(Unread', ops)
  BY <1>7 DEF Holds
<1>9. Ordered(Unread') /\ Outlived(Unread')
  BY <1>7 DEF Ordered, Outlived
<1>10. InputInv'
  BY <1>1, <1>2, <1>5, <1>8, <1>9 DEF InputInv
<1>11. AnswersInv'
  <2>1. ~AtWork'
    BY <1>1, <1>5, <1>8 DEF AtWork
  <2>2. \A i \in 1..Len(output') : output'[i].op = "mechanisms"
    <3>1. \A i \in 1..Len(output') : i = Len(output')
      BY <1>7
    <3> QED
      BY <1>3, <3>1
  <2> QED
    BY <1>2, <1>6, <1>7, <2>1, <2>2 DEF AnswersInv, Finals
<1> QED
  BY <1>1, <1>4, <1>5, <1>10, <1>11 DEF ReadInv, Live

\* A cancel that finds the plugin waiting for a dialog ends the request.
LEMMA TaskCancel ==
  ASSUME ReadInv, startTask, Unread[1].op = "cancel", plugin # "idle", plugin' = "idle",
         sends("error"), UNCHANGED <<blob, slot, main>>
  PROVE  ReadInv'
<1>1. /\ TypeOK /\ ThreadsInv /\ InputInv /\ AnswersInv
      /\ ~cancelThread /\ ~Reading /\ plugin # "working" /\ posted = 0
      /\ inFile' \in Seq(Tokens) /\ pipe' \in Seq(Tokens)
      /\ Unread \in Seq(Tokens) /\ Unread' \in Seq(Tokens)
      /\ Rest(Unread, Unread') /\ 1 \in 1..Len(Unread)
      /\ Framed(Unread', Pending(Unread[1]))
      /\ history' \in ReadHistory /\ NothingMisread'
  BY TaskRead
<1>2. UNCHANGED <<phase, canceled, writeBuffer, posted>> /\ notifier
  BY DEF startTask, daemonVars
<1>3. notifier' /\ ~cancelThread' /\ cancelThread' \in BOOLEAN /\ notifier' \in BOOLEAN
      /\ Emits("error")
  BY <1>2 DEF sends, disableCancelThread
<1>4. /\ output' \in Seq([op : Responses, pages : Nat])
      /\ Len(output) \in Nat /\ Len(output') = Len(output) + 1
      /\ output'[Len(output')].op = "error"
      /\ \A i \in 1..Len(output) : output'[i] = output[i]
  BY <1>1, <1>3, EmitsOutput DEF Responses, Finals
<1>5. TypeOK'
  BY <1>1, <1>2, <1>3, <1>4 DEF TypeOK, ReadHistory
<1>6. ThreadsInv' /\ ~Reading' /\ Left' = 0 /\ Pending(Unread[1]) = 0
  BY <1>1, <1>2, <1>3 DEF ThreadsInv, Reading, Left, Pending, Blobs, startTask
<1>7. ~Holds(Unread, Blobs)
  <2>1. ~Holds(Unread, {"process"})
    BY <1>1 DEF InputInv
  <2>2. ~Holds(Unread, Continuations)
    BY <1>1, ReadsOther DEF InputInv
  <2> QED
    BY <2>1, <2>2 DEF Holds, Blobs, Continuations
<1>8. canceled \/ phase = "closed"
  <2>1. Outlived(Unread) => Holds(Unread, {"process"})
    BY <1>1, ReadsOther DEF InputInv
  <2> QED
    BY <1>1, <2>1 DEF InputInv, AnswersInv
<1>9. Ordered(Unread') /\ \A ops : Holds(Unread', ops) => Holds(Unread, ops)
  BY <1>1, ReadsOther DEF InputInv
<1>10. ~Holds(Unread', {"process"}) /\ ~Holds(Unread', Continuations)
  BY <1>7, <1>9 DEF Holds, Blobs, Continuations
<1>11. InputInv'
  BY <1>1, <1>2, <1>3, <1>6, <1>8, <1>9, <1>10 DEF InputInv
<1>12. ~AtWork'
  BY <1>3, <1>6, <1>7, <1>9 DEF AtWork
<1>13. \A i \in 1..Len(output') :
          /\ output'[i].op \in Finals => i = Len(output')
          /\ output'[i].op = "mechanisms" => phase = "starting"
          /\ output'[i].op \in {"ui", "refreshed"} =>
                phase = "closed" \/ (phase = "busy" /\ canceled)
  <2> TAKE i \in 1..Len(output')
  <2>1. CASE i = Len(output')
    BY <1>4, <2>1 DEF Finals
  <2>2. CASE i # Len(output')
    <3>1. i \in 1..Len(output) /\ output'[i] = output[i]
      BY <1>4, <2>2
    <3>2. /\ output[i].op \notin Finals
          /\ output[i].op = "mechanisms" => phase = "starting"
          /\ output[i].op \in {"ui", "refreshed"} => phase \in {"closed", "busy"}
      BY <1>1, <3>1 DEF AnswersInv
    <3> QED
      <4>1. output'[i].op = output[i].op
        BY <3>1
      <4> QED
        BY <1>8, <3>2, <4>1
  <2> QED
    BY <2>1, <2>2
<1>14. phase \notin {"starting", "idle"}
  BY <1>1 DEF AnswersInv
<1>15. AnswersInv'
  BY <1>2, <1>8, <1>12, <1>13, <1>14 DEF AnswersInv
<1> QED
  BY <1>1, <1>5, <1>6, <1>11, <1>15 DEF ReadInv, Live

LEMMA startTaskStep ==
  ASSUME ReadInv, "idle" \notin Env, startTask
  PROVE  ReadInv'
<1>1. Head(Input) = Unread[1]
  BY TaskRead
<1>2. CASE /\ Head(Input).op \in Blobs
           /\ blob' = [operation |-> Head(Input).op, size |-> Head(Input).pages, got |-> 0]
           /\ slot' = IF Head(Input).pages > 1 THEN "readBlob" ELSE "none"
           /\ main' = "receiving"
           /\ UNCHANGED <<notifier, cancelThread, plugin, output, ended>>
  BY <1>1, <1>2, TaskBlob
<1>3. CASE /\ Head(Input).op = "cancel"
           /\ canceledHere
           /\ UNCHANGED <<blob, slot, main, ended>>
  <2>1. CASE plugin # "idle"
    BY <1>1, <1>3, <2>1, TaskCancel DEF canceledHere
  <2>2. CASE plugin = "idle"
    BY <1>1, <1>3, <2>2, TaskIgnored DEF canceledHere
  <2> QED
    BY <2>1, <2>2
<1>4. CASE /\ Head(Input).op = "mechanisms"
           /\ Emits("mechanisms")
           /\ UNCHANGED <<notifier, blob, slot, main, cancelThread, plugin, ended>>
  BY <1>1, <1>4, TaskMechanisms
<1>5. CASE /\ Head(Input).op \in {"stop", "page"}
           /\ UNCHANGED <<notifier, blob, slot, main, cancelThread, plugin, output>>
  <2>1. Head(Input).op # "page"
    BY TaskRead, <1>1, ReadsOpcode
  <2> QED
    BY <1>1, <1>5, <2>1, TaskIgnored
<1> QED
  BY <1>2, <1>3, <1>4, <1>5 DEF startTask

\* The pages of a blob: the last one gives the input to the cancel thread.
LEMMA readBlobStep ==
  ASSUME ReadInv, readBlob
  PROVE  ReadInv'
<1>1. /\ TypeOK /\ ThreadsInv /\ InputInv /\ AnswersInv /\ Reading
  BY DEF ReadInv, Live, Deaf, readBlob, ReadsBlob, Reading
<1>2. /\ notifier /\ ~cancelThread /\ plugin # "working" /\ posted = 0
      /\ blob.got \in Nat /\ blob.size \in Nat /\ blob.got < blob.size
      /\ blob.operation \in Blobs
      /\ Left = blob.size - blob.got /\ Left \in Nat /\ Left > 0
      /\ main = "receiving" => blob.got = 0 /\ (blob.size > 1 => slot = "readBlob")
      /\ main # "receiving" => slot = "readBlob"
  BY <1>1 DEF ThreadsInv, Reading, Left, TypeOK
<1>3. UNCHANGED <<phase, canceled, writeBuffer, posted, output, plugin>>
  BY DEF readBlob, daemonVars
<1>4. takesNext /\ Input # <<>> /\ Misreads(Head(Input).op # "page")
      /\ blob' = [blob EXCEPT !.got = blob.got + 1]
  BY DEF readBlob
<1>5. /\ inFile' \in Seq(Tokens) /\ pipe' \in Seq(Tokens)
      /\ Unread \in Seq(Tokens) /\ Unread' \in Seq(Tokens)
      /\ Rest(Unread, Unread') /\ Head(Input) = Unread[1]
  BY <1>1, <1>3, <1>4, TakenUnread, UnreadType DEF Rest
<1>6. Unread[1].op = "page" /\ Framed(Unread', Left - 1)
  BY <1>1, <1>2, <1>5, ReadsPage DEF InputInv
<1>7. history' \in ReadHistory /\ NothingMisread'
  BY <1>4, <1>5, <1>6, MisreadSame DEF NothingMisread
<1>8. /\ blob' \in [operation : Opcodes \cup {"page"}, size : Nat, got : Nat]
      /\ blob'.operation = blob.operation /\ blob'.size = blob.size
      /\ blob'.got = blob.got + 1
  <2>1. blob \in [operation : Opcodes \cup {"page"}, size : Nat, got : Nat]
    BY <1>1 DEF TypeOK
  <2> HIDE DEF Opcodes
  <2> QED
    BY <1>2, <1>4, <2>1
<1>9. /\ Ordered(Unread')
      /\ \A ops : Holds(Unread', ops) => Holds(Unread, ops)
      /\ Outlived(Unread) => Outlived(Unread')
  BY <1>1, <1>5, <1>6, ReadsOther DEF InputInv
<1>10. /\ ~Holds(Unread', Blobs)
       /\ ~Holds(Unread', {"process"}) /\ ~Holds(Unread', Continuations)
  BY <1>1, <1>9 DEF InputInv, Holds, Blobs, Continuations
<1>11. /\ blob.operation = "process" => plugin = "idle"
       /\ blob.operation # "process" => plugin = "waiting"
  BY <1>1 DEF InputInv
<1>12. AtWork
  BY <1>1 DEF AtWork
<1>13. CASE blob.got + 1 = blob.size
  <2>1. /\ slot' = "none" /\ notifier' = FALSE /\ cancelThread' = TRUE
        /\ main' = "enabling"
    BY <1>13 DEF readBlob, enableCancelThread
  <2>2. TypeOK'
    BY <1>1, <1>3, <1>5, <1>7, <1>8, <2>1 DEF TypeOK, ReadHistory
  <2>3. ~Reading' /\ Left' = 0 /\ Left - 1 = 0
    BY <1>2, <1>13, <2>1 DEF Reading, Left
  <2>4. ThreadsInv'
    BY <1>2, <1>3, <1>8, <1>11, <2>1, <2>3 DEF ThreadsInv
  <2>5. InputInv'
    BY <1>1, <1>3, <1>6, <1>9, <1>10, <2>3 DEF InputInv
  <2>6. AnswersInv'
    BY <1>1, <1>3, <1>12 DEF AnswersInv
  <2> QED
    BY <1>7, <2>2, <2>4, <2>5, <2>6 DEF ReadInv, Live
<1>14. CASE blob.got + 1 # blob.size
  <2>1. main' = "loop" /\ UNCHANGED <<slot, notifier, cancelThread>>
    BY <1>14 DEF readBlob
  <2>2. slot = "readBlob"
    BY <1>2, <1>14
  <2>3. TypeOK'
    BY <1>1, <1>3, <1>5, <1>7, <1>8, <2>1 DEF TypeOK, ReadHistory
  <2>4. Reading' /\ Left' = Left - 1 /\ blob'.got < blob'.size
    BY <1>2, <1>8, <1>14, <2>1, <2>2 DEF Reading, Left
  <2>5. ThreadsInv'
    BY <1>2, <1>3, <1>8, <2>1, <2>2, <2>4 DEF ThreadsInv
  <2>6. InputInv'
    BY <1>1, <1>3, <1>6, <1>8, <1>9, <1>10, <1>11, <2>1, <2>4 DEF InputInv
  <2>7. AnswersInv'
    BY <1>1, <1>3, <1>12 DEF AnswersInv
  <2> QED
    BY <1>7, <2>3, <2>5, <2>6, <2>7 DEF ReadInv, Live
<1> QED
  BY <1>13, <1>14

\* After a late page nothing is read any more.
LEMMA blobFailsStep ==
  ASSUME ReadInv, blobFails
  PROVE  ReadInv'
<1>1. TypeOK /\ ThreadsInv /\ Reading
  BY DEF ReadInv, Live, Deaf, blobFails, ReadsBlob, Reading
<1>2. ~cancelThread /\ plugin # "working" /\ posted = 0
  BY <1>1 DEF ThreadsInv, TypeOK
<1>3. output' \in Seq([op : Responses, pages : Nat])
  BY <1>1, EmitsOutput DEF blobFails, Responses, Finals
<1>4. history' \in ReadHistory /\ NothingMisread'
  <2>1. history \in ReadHistory /\ ~history.misread
    BY <1>1 DEF TypeOK, ReadHistory, ReadInv, NothingMisread
  <2> QED
    BY <2>1 DEF blobFails, NothingMisread, ReadHistory
<1>5. TypeOK'
  BY <1>1, <1>2, <1>3, <1>4 DEF TypeOK, blobFails, daemonVars, inputVars, ReadHistory
<1>6. Deaf'
  BY <1>2 DEF Deaf, blobFails
<1> QED
  BY <1>4, <1>5, <1>6 DEF ReadInv

\* The plugin is called while the cancel thread has the input, unless a cancel
\* has come before.
LEMMA sessionDataReceivedStep ==
  ASSUME ReadInv, "idle" \notin Env, sessionDataReceived
  PROVE  ReadInv'
<1>1. TypeOK /\ ThreadsInv /\ InputInv /\ AnswersInv /\ main = "enabling"
  BY DEF ReadInv, Live, Deaf, sessionDataReceived
<1>2. UNCHANGED <<phase, canceled, writeBuffer, inputVars, output, notifier,
                  cancelThread, posted, history>>
  BY DEF sessionDataReceived, daemonVars
<1>3. /\ plugin' = IF plugin = "waiting" \/ blob.operation = "process"
                   THEN "working" ELSE plugin
      /\ blob' = NoBlob /\ slot' = "startTask" /\ main' = "loop"
  BY DEF sessionDataReceived
<1>4. TypeOK'
  BY <1>1, <1>2, <1>3 DEF TypeOK, inputVars, NoBlob, Opcodes
<1>5. Unread' = Unread
  BY <1>2 DEF Unread, Input, inputVars
<1>6. ~Reading /\ ~Reading' /\ Left = 0 /\ Left' = 0
  BY <1>1, <1>3 DEF ThreadsInv, Reading, Left
<1>7. ThreadsInv'
  BY <1>1, <1>2, <1>3, <1>6 DEF ThreadsInv, TypeOK
<1>8. AtWork' <=> AtWork
  BY <1>2, <1>5, <1>6 DEF AtWork
<1>9. CASE cancelThread
  <2>1. AtWork /\ ~Holds(Unread, Blobs)
    BY <1>1, <1>9 DEF AtWork, InputInv
  <2>2. ~Holds(Unread, {"process"}) /\ ~Holds(Unread, Continuations)
    BY <2>1 DEF Holds, Blobs, Continuations
  <2>3. InputInv'
    BY <1>1, <1>2, <1>5, <1>6, <2>1, <2>2 DEF InputInv
  <2>4. AnswersInv'
    BY <1>1, <1>2, <2>1 DEF AnswersInv
  <2> QED
    BY <1>2, <1>4, <1>7, <2>3, <2>4 DEF ReadInv, Live, NothingMisread
<1>10. CASE ~cancelThread
  <2>1. plugin = "idle" /\ plugin' = plugin
    BY <1>1, <1>3, <1>10 DEF ThreadsInv
  <2>2. InputInv'
    BY <1>1, <1>2, <1>5, <1>6, <2>1 DEF InputInv
  <2>3. AnswersInv'
    BY <1>1, <1>2, <1>5, <1>8, <2>1 DEF AnswersInv
  <2> QED
    BY <1>2, <1>4, <1>7, <2>2, <2>3 DEF ReadInv, Live, NothingMisread
<1> QED
  BY <1>9, <1>10

-----------------------------------------------------------------------------
(* The plugin's and the cancel thread's steps. *)

\* An answer gives the input back to the main thread; no other is under way.
LEMMA AnswerSent ==
  ASSUME ReadInv, Live, cancelThread, main \in {"loop", "enabling"},
         NEW response \in Finals \cup {"ui", "refreshed"}, sends(response),
         plugin' = IF response \in Finals THEN "idle" ELSE "waiting",
         posted' = 0,
         main = "enabling" => response \in Finals /\ blob.operation # "process",
         UNCHANGED <<phase, canceled, writeBuffer, inputVars, slot, main, blob, history>>
  PROVE  ReadInv'
<1>1. TypeOK /\ ThreadsInv /\ InputInv /\ AnswersInv
  BY DEF ReadInv, Live
<1>2. notifier' /\ ~cancelThread' /\ notifier' \in BOOLEAN /\ cancelThread' \in BOOLEAN
      /\ Emits(response)
  BY DEF sends, disableCancelThread
<1>3. output = <<>> /\ phase \in {"busy", "closed"}
  BY <1>1 DEF AnswersInv, AtWork
<1>4. /\ output' \in Seq([op : Responses, pages : Nat])
      /\ Len(output') = 1 /\ output'[1].op = response
      /\ \A i \in 1..Len(output') : i = 1
  <2>1. Len(output) = 0
    BY <1>3
  <2>2. /\ output' \in Seq([op : Responses, pages : Nat])
        /\ Len(output') = Len(output) + 1
        /\ output'[Len(output')].op = response
    BY <1>1, <1>2, EmitsOutput DEF Responses
  <2> QED
    BY <2>1, <2>2
<1>5. TypeOK'
  BY <1>1, <1>2, <1>4 DEF TypeOK, inputVars
<1>6. ~Reading /\ ~Reading' /\ Left = 0 /\ Left' = 0 /\ slot = slot'
  BY <1>1 DEF ThreadsInv, Reading, Left
<1>7. ThreadsInv'
  BY <1>1, <1>2, <1>6 DEF ThreadsInv, Finals
<1>8. Unread' = Unread
  BY DEF Unread, Input, inputVars
<1>9. ~Holds(Unread, Blobs)
  BY <1>1 DEF InputInv
<1>10. ~Holds(Unread, {"process"}) /\ ~Holds(Unread, Continuations)
  BY <1>9 DEF Holds, Blobs, Continuations
<1>11. InputInv'
  BY <1>1, <1>2, <1>6, <1>8, <1>9, <1>10 DEF InputInv
<1>12. ~AtWork'
  BY <1>2, <1>6, <1>8, <1>9 DEF AtWork
<1>13. AnswersInv'
  BY <1>3, <1>4, <1>12 DEF AnswersInv, Finals
<1> QED
  BY <1>5, <1>7, <1>11, <1>13 DEF ReadInv, Live, NothingMisread

LEMMA errorDeliveredStep ==
  ASSUME ReadInv, errorDelivered
  PROVE  ReadInv'
<1>1. Live /\ ThreadsInv /\ TypeOK
  BY DEF ReadInv, Live, Deaf, errorDelivered, TypeOK
<1>2. posted = 1 /\ cancelThread /\ plugin = "idle" /\ posted' = 0
  BY <1>1 DEF ThreadsInv, errorDelivered
<1>3. main = "enabling" => blob.operation # "process"
  BY <1>1, <1>2 DEF ThreadsInv
<1> QED
  BY <1>1, <1>2, <1>3, AnswerSent DEF errorDelivered, Finals, daemonVars

LEMMA pluginAnswersStep ==
  ASSUME ReadInv, NEW response \in Finals, pluginAnswers(response)
  PROVE  ReadInv'
<1>1. Live /\ ThreadsInv /\ TypeOK
  BY DEF ReadInv, Live, Deaf, pluginAnswers, TypeOK
<1>2. posted = 0 /\ posted' = 0 /\ cancelThread
  BY <1>1 DEF ThreadsInv, pluginAnswers, TypeOK
<1> QED
  BY <1>1, <1>2, AnswerSent DEF pluginAnswers, daemonVars

LEMMA pluginAsksStep ==
  ASSUME ReadInv, NEW response \in {"ui", "refreshed"}, pluginAsks(response)
  PROVE  ReadInv'
<1>1. Live /\ ThreadsInv /\ TypeOK
  BY DEF ReadInv, Live, Deaf, pluginAsks, TypeOK
<1>2. posted = 0 /\ posted' = 0 /\ cancelThread
  BY <1>1 DEF ThreadsInv, pluginAsks, TypeOK
<1> QED
  BY <1>1, <1>2, AnswerSent DEF pluginAsks, Finals

\* While the cancel thread reads there are only opcodes of a cancel or a stop.
LEMMA cancelThreadReadsStep ==
  ASSUME ReadInv, "idle" \notin Env, cancelThreadReads
  PROVE  ReadInv'
<1>1. TypeOK /\ ThreadsInv /\ InputInv /\ AnswersInv /\ cancelThread
  BY DEF ReadInv, Live, Deaf, cancelThreadReads
<1>2. UNCHANGED <<phase, canceled, writeBuffer, inFile, output, notifier, slot, main,
                  blob, cancelThread>>
  BY DEF cancelThreadReads, daemonVars, mainVars
<1>3. pipe # <<>> /\ pipe' = Tail(pipe)
  BY DEF cancelThreadReads
<1>4. /\ pipe' \in Seq(Tokens)
      /\ Unread \in Seq(Tokens) /\ Unread' \in Seq(Tokens)
      /\ \A ops : Holds(Unread', ops) => Holds(Unread, ops)
      /\ \A ops : Head(pipe).op \in ops => Holds(Unread, ops)
  BY <1>1, <1>2, <1>3, TakenBehind, UnreadType
<1>5. ~Reading /\ ~Reading' /\ Left = 0 /\ Left' = 0
  BY <1>1, <1>2 DEF ThreadsInv, Reading, Left
<1>6. AtWork /\ AtWork' /\ output = <<>> /\ phase \in {"busy", "closed"}
  BY <1>1, <1>2 DEF AtWork, AnswersInv
<1>7. ~Holds(Unread, Blobs) /\ Framed(Unread, 0)
  BY <1>1, <1>5 DEF InputInv
<1>8. ~Holds(Unread, {"page"})
  <2>1. \A i \in 1..Len(Unread) : ~(i <= 0)
    OBVIOUS
  <2>2. \A i \in 1..Len(Unread) : \A j \in 1..i-1 : j \in 1..Len(Unread)
    BY <1>4
  <2> QED
    BY <1>7, <2>1, <2>2 DEF Framed, Holds
<1>9. ~Holds(Unread, {"mechanisms"})
  BY <1>1, <1>6 DEF InputInv
<1>10. Head(pipe).op \in {"cancel", "stop"}
  <2>1. Head(pipe) \in Tokens
    BY <1>1, <1>3 DEF TypeOK
  <2>2. Head(pipe).op \in Opcodes \cup {"page"}
    BY <2>1 DEF Tokens
  <2>3. Head(pipe).op \notin Blobs \cup {"page", "mechanisms"}
    BY <1>4, <1>7, <1>8, <1>9
  <2> QED
    BY <2>2, <2>3 DEF Opcodes
<1>11. history' \in ReadHistory /\ NothingMisread'
  <2>1. history \in ReadHistory /\ ~history.misread
    BY <1>1 DEF TypeOK, ReadHistory, ReadInv, NothingMisread
  <2>2. history' = [history EXCEPT
           !.misread = history.misread \/ Head(pipe).op \notin {"cancel", "stop"},
           !.canceledEarly = history.canceledEarly \/ (main = "enabling" /\ plugin = "idle")]
    BY DEF cancelThreadReads
  <2>3. history.canceledEarly \/ (main = "enabling" /\ plugin = "idle") \in BOOLEAN
    BY <2>1 DEF ReadHistory
  <2> QED
    BY <1>10, <2>1, <2>2, <2>3 DEF NothingMisread, ReadHistory
<1>12. \/ plugin # "idle" /\ plugin' = "idle" /\ posted' = posted + 1
       \/ plugin = "idle" /\ UNCHANGED <<plugin, posted>>
  BY DEF cancelThreadReads
<1>13. TypeOK'
  BY <1>1, <1>2, <1>4, <1>11, <1>12 DEF TypeOK, ReadHistory
<1>14. ThreadsInv'
  BY <1>1, <1>2, <1>5, <1>12 DEF ThreadsInv, TypeOK
<1>15. \A ops : ~Holds(Unread, ops) => ~Holds(Unread', ops)
  BY <1>4
<1>16. /\ ~Holds(Unread', Blobs) /\ ~Holds(Unread', {"page"})
       /\ ~Holds(Unread', {"mechanisms"})
       /\ ~Holds(Unread', {"process"}) /\ ~Holds(Unread', Continuations)
  <2>1. ~Holds(Unread', Blobs) /\ ~Holds(Unread', {"page"}) /\ ~Holds(Unread', {"mechanisms"})
    BY <1>7, <1>8, <1>9, <1>15
  <2> QED
    BY <2>1 DEF Holds, Blobs, Continuations
<1>17. Framed(Unread', 0)
  <2>1. Len(Unread') \in Nat
    BY <1>4
  <2>2. \A i \in 1..Len(Unread') : ~(i <= 0)
    OBVIOUS
  <2>3. \A i \in 1..Len(Unread') : \A j \in 1..i-1 : j \in 1..Len(Unread')
    BY <2>1
  <2> QED
    BY <1>16, <2>1, <2>2, <2>3 DEF Framed, Holds
<1>18. Ordered(Unread')
  BY <1>16 DEF Ordered, Holds, Continuations, Blobs
<1>19. Outlived(Unread) => Outlived(Unread')
  <2>1. ASSUME Outlived(Unread)
        PROVE  ~Holds(Unread, {"cancel"})
    <3>1. ~Holds(Unread, {"process"})
      BY <1>7 DEF Holds, Blobs
    <3>2. \A i \in 1..Len(Unread) : \A j \in i+1..Len(Unread) : j \in 1..Len(Unread)
      BY <1>4
    <3> QED
      BY <2>1, <3>1, <3>2 DEF Outlived, Holds
  <2>2. ~Holds(Unread', {"cancel"}) => Outlived(Unread')
    BY DEF Outlived, Holds
  <2> QED
    BY <1>15, <2>1, <2>2
<1>20. InputInv'
  BY <1>1, <1>2, <1>5, <1>16, <1>17, <1>18, <1>19 DEF InputInv
<1>21. AnswersInv'
  BY <1>2, <1>6 DEF AnswersInv
<1> QED
  BY <1>11, <1>13, <1>14, <1>20, <1>21 DEF ReadInv, Live

-----------------------------------------------------------------------------
(* The theorem. *)

LEMMA ReadInvInit == Init => ReadInv
<1> SUFFICES ASSUME Init
             PROVE  ReadInv
  OBVIOUS
<1>1. TypeOK
  <2>1. writeBuffer \in Seq(Tokens)
    <3>1. Token("mechanisms") \in Tokens
      BY DEF Tokens, Token, Opcodes
    <3> QED
      BY <3>1 DEF Init
  <2>2. blob \in [operation : Opcodes \cup {"page"}, size : Nat, got : Nat]
    BY DEF Init, NoBlob, Opcodes
  <2>3. pipe \in Seq(Tokens) /\ inFile \in Seq(Tokens)
        /\ output \in Seq([op : Responses, pages : Nat])
    BY DEF Init
  <2>4. history \in [misread : BOOLEAN, blobFailed : BOOLEAN, canceledEarly : BOOLEAN]
    BY DEF Init
  <2> QED
    BY <2>1, <2>2, <2>3, <2>4 DEF Init, TypeOK
<1>2. /\ Unread = <<Token("mechanisms")>> /\ Len(Unread) = 1
      /\ \A i \in 1..Len(Unread) : i = 1 /\ Unread[i].op = "mechanisms"
  BY DEF Init, Unread, Input, Token
<1>3. ~Reading /\ Left = 0
  BY DEF Init, Reading, Left
<1>4. /\ \A ops : Holds(Unread, ops) => "mechanisms" \in ops
      /\ Ordered(Unread) /\ Outlived(Unread) /\ Framed(Unread, 0)
  BY <1>2 DEF Holds, Ordered, Outlived, Framed, Blobs
<1>5. /\ ~Holds(Unread, Blobs) /\ ~Holds(Unread, {"process"})
      /\ ~Holds(Unread, Continuations)
  BY <1>4 DEF Blobs, Continuations
<1>6. ThreadsInv
  BY <1>3 DEF Init, ThreadsInv
<1>7. InputInv
  BY <1>3, <1>4, <1>5 DEF Init, InputInv
<1>8. AnswersInv
  BY <1>2, <1>3, <1>5 DEF Init, AnswersInv, AtWork
<1> QED
  BY <1>1, <1>6, <1>7, <1>8 DEF ReadInv, Live, NothingMisread, Init

LEMMA ReadInvStep ==
  ASSUME ReadInv, "idle" \notin Env, [Next]_vars
  PROVE  ReadInv'
<1>1. CASE DaemonStep
  BY <1>1, processStep, cancelStep, continueStep, receiveStep, destroyStep, killStep,
     flushStep DEF DaemonStep, Continuations
<1>2. CASE MainStep
  BY <1>2, startTaskStep, readBlobStep, blobFailsStep, sessionDataReceivedStep,
     errorDeliveredStep DEF MainStep
<1>3. CASE PluginStep
  BY <1>3, pluginAnswersStep, pluginAsksStep DEF PluginStep
<1>4. CASE cancelThreadReads
  BY <1>4, cancelThreadReadsStep
<1>5. CASE UNCHANGED vars
  BY <1>5, killStep
<1> QED
  BY <1>1, <1>2, <1>3, <1>4, <1>5 DEF Next

\* The two threads of a plugin's process never take each other's input.
THEOREM NeverMisread ==
  ASSUME "idle" \notin Env
  PROVE  Spec => []NothingMisread
<1>1. Init => ReadInv
  BY ReadInvInit
<1>2. ReadInv /\ [Next]_vars => ReadInv'
  BY ReadInvStep
<1>3. ReadInv => NothingMisread
  BY DEF ReadInv
<1> QED
  BY <1>1, <1>2, <1>3, PTL DEF Spec
=============================================================================
