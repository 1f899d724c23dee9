----------------------- MODULE FirestoreWritesProofs -----------------------
(* The writes of an installation for any users, any number of writes, breaks, *)
(* kills and switches of user, and any size of the pipeline.                 *)
EXTENDS FirestoreWrites, SequenceTheorems, WellFoundedInduction, TLAPS

\* The batches of a queue have ascending ids, and the pipeline is its beginning.
Ascending(q) == \A i, j \in 1 .. Len(q) : i < j => q[i].id < q[j].id
Begins(p, q) == Len(p) <= Len(q) /\ \A i \in 1 .. Len(p) : p[i] = q[i]

Queues ==
    /\ \A u \in Users : Ascending(queue[u]) /\ \A i \in 1 .. Len(queue[u]) : queue[u][i].by = u
    /\ running => \A u \in Users : \A i \in 1 .. Len(queue[u]) : queue[u][i].id < nextId
    /\ Begins(pipeline, queue[current])
    /\ Len(pipeline) <= MaxPending

\* A task was put there by the user of the task before it, unless it is the one
\* that brings its user; the first was by the current user.
Before(j) == IF j = 1 THEN current ELSE tasks[j - 1].user
Turns ==
    /\ \A j \in 1 .. Len(tasks) : tasks[j].kind # "user" => tasks[j].user = Before(j)
    /\ \A j \in 1 .. Len(tasks) : tasks[j].kind = "write" => tasks[j].n \in 1 .. written
    /\ running => account = Before(Len(tasks) + 1)

\* One token at most is on its way to a stream that wants it.
Tokens ==
    /\ \A j \in 1 .. Len(tasks) : tasks[j].live => stream.state = "starting" /\ ~stream.asking
    /\ \A i, j \in 1 .. Len(tasks) : tasks[i].live /\ tasks[j].live => i = j
    /\ stream.asking => stream.state = "starting"

\* What is on the wire, or answered, is the pipeline, once the handshake is done.
Linked(p, st, w, a) ==
    /\ st.handshake \/ st.idle => st.state = "open"
    /\ st.idle => p = <<>>
    /\ IsStarted(st) /\ p = <<>> => st.handshake
    /\ ~st.handshake => w = <<>> /\ a = <<>>
    /\ st.handshake =>
          /\ Len(p) = Len(a) + Len(w)
          /\ \A i \in 1 .. Len(a) : a[i] = p[i]
          /\ \A i \in 1 .. Len(w) : w[i] = p[Len(a) + i]
Connection ==
    /\ Linked(pipeline, stream, wire, answers)
    /\ stream.state = "open" => stream.user = current
    /\ IsStarted(stream) \/ pipeline # <<>> => enabled

\* A process that has ended keeps nothing but the disk.
AtRest ==
    ~running => /\ ~enabled /\ tasks = <<>> /\ stream = Closed("initial")
                /\ callbacks = {} /\ waits = {}

Core == TypeOK /\ Queues /\ Turns /\ Tokens /\ Connection /\ AtRest

\* What is settled, and what is owed to the app.
Done == Applied \cup Refused
Upto(id) == {queue[current][i].n : i \in {k \in 1 .. Len(queue[current]) : queue[current][k].id <= id}}
Debts ==
    /\ NothingLost
    /\ \A i \in 1 .. Len(answers) : answers[i].n \in Applied
    /\ \A c \in callbacks : \E i \in 1 .. Len(queue[c.user]) :
          queue[c.user][i].id = c.id /\ queue[c.user][i].n = c.n
    /\ \A w \in waits : w.upto \subseteq Done \cup Upto(w.id)
    /\ ToldTruly

\* Writes are numbered as they are made, queued, and applied.
Order ==
    /\ \A u \in Users : \A i, j \in 1 .. Len(queue[u]) : i < j => queue[u][i].n < queue[u][j].n
    /\ \A i, j \in 1 .. Len(tasks) : i < j /\ tasks[i].kind = "write" /\ tasks[j].kind = "write"
          => tasks[i].n < tasks[j].n
    /\ \A u \in Users : \A x \in Queued(u) \cup applied[u] :
          /\ x <= written
          /\ \A j \in 1 .. Len(tasks) : tasks[j].kind = "write" => x < tasks[j].n

\* What a user's server has had is in his queue, or is before all of it and not
\* after the last it has applied.
Behind ==
    /\ \A u \in Users : \A x \in applied[u] \ Queued(u) :
          x <= last[u] /\ \A y \in Queued(u) : x < y
    /\ answers # <<>> => last[current] = answers[Len(answers)].n
    /\ \A u \in Users : applied[u] \cap Refused = {}
    /\ \A i \in 1 .. Len(answers) : answers[i].n \in applied[current]

-----------------------------------------------------------------------------
(* The pipeline and the queue                                                *)

\* The part of a sequence after its first k elements, up to the mth.
LEMMA PartOf ==
    ASSUME NEW S, NEW s \in Seq(S), NEW k \in Nat, NEW m \in Nat, k <= m, m <= Len(s)
    PROVE  /\ SubSeq(s, k + 1, m) \in Seq(S)
           /\ Len(SubSeq(s, k + 1, m)) = m - k
           /\ \A i \in 1 .. m - k : SubSeq(s, k + 1, m)[i] = s[k + i]
  <1>1. SubSeq(s, k + 1, m) \in Seq(S)  OBVIOUS
  <1>2. Len(SubSeq(s, k + 1, m)) = m - k  OBVIOUS
  <1>3. \A i \in 1 .. m - k : SubSeq(s, k + 1, m)[i] = s[k + i]  OBVIOUS
  <1> QED  BY <1>1, <1>2, <1>3

\* The part of a sequence after its first element.
LEMMA RestOf ==
    ASSUME NEW S, NEW s \in Seq(S), Len(s) > 0
    PROVE  /\ SubSeq(s, 2, Len(s)) \in Seq(S)
           /\ Len(SubSeq(s, 2, Len(s))) = Len(s) - 1
           /\ \A i \in 1 .. Len(s) - 1 : SubSeq(s, 2, Len(s))[i] = s[i + 1]
  <1>1. SubSeq(s, 2, Len(s)) = Tail(s)
    OBVIOUS
  <1>2. Tail(s) \in Seq(S)
    OBVIOUS
  <1>3. Len(Tail(s)) = Len(s) - 1
    OBVIOUS
  <1>4. \A i \in 1 .. Len(s) - 1 : Tail(s)[i] = s[i + 1]
    OBVIOUS
  <1> QED  BY <1>1, <1>2, <1>3, <1>4

\* What follows the pipeline in the queue begins after as many batches.
LEMMA Following ==
    ASSUME NEW p \in Seq(Batch), NEW q \in Seq(Batch), Ascending(q), Begins(p, q),
           NEW k \in 0 .. Len(q), \A i \in DOMAIN q : q[i].id > LastId(p) <=> i > k
    PROVE  k = Len(p)
  <1>1. \A i \in 1 .. Len(q) : q[i].id \in Nat /\ q[i].id > 0
    <2>1. \A i \in 1 .. Len(q) : q[i] \in Batch
      OBVIOUS
    <2> QED  BY <2>1 DEF Batch
  <1>2. CASE p = <<>>
    BY <1>1, <1>2 DEF LastId
  <1>3. CASE p # <<>>
    <2>1. Len(p) \in 1 .. Len(q) /\ LastId(p) = q[Len(p)].id
      BY <1>3 DEF LastId, Begins
    <2>2. \A i \in 1 .. Len(q) : q[i].id > q[Len(p)].id <=> i > Len(p)
      BY <1>1, <2>1 DEF Ascending
    <2> QED  BY <2>1, <2>2
  <1> QED  BY <1>2, <1>3

\* Fill extends the pipeline along the queue, and what is on the wire with it.
LEMMA FillExtends ==
    ASSUME NEW p \in Seq(Batch), NEW q \in Seq(Batch), NEW st, NEW w \in Seq(Batch),
           Ascending(q), Begins(p, q), Len(p) <= MaxPending, Fill(p, q, st, w)
    PROVE  /\ pipeline' \in Seq(Batch) /\ wire' \in Seq(Batch)
           /\ Begins(pipeline', q) /\ Len(p) <= Len(pipeline') /\ Len(pipeline') <= MaxPending
           /\ ~st.handshake => wire' = w
           /\ st.handshake =>
                 /\ Len(wire') = Len(w) + (Len(pipeline') - Len(p))
                 /\ \A i \in 1 .. Len(w) : wire'[i] = w[i]
                 /\ \A i \in Len(w) + 1 .. Len(wire') : wire'[i] = pipeline'[Len(p) + (i - Len(w))]
  <1>1. PICK k \in 0 .. Len(q) :
          LET new == SubSeq(q, k + 1, Least(Len(q), k + MaxPending - Len(p)))
              sent == st.handshake /\ new # <<>>
          IN  /\ \A i \in DOMAIN q : q[i].id > LastId(p) <=> i > k
              /\ pipeline' = p \o new
              /\ wire' = IF sent THEN w \o new ELSE w
    BY DEF Fill
  <1>2. k = Len(p)
    BY <1>1, Following
  <1> DEFINE m == Least(Len(q), k + MaxPending - Len(p))
             new == SubSeq(q, k + 1, m)
  <1>3. m \in Nat /\ m <= Len(q) /\ m <= MaxPending /\ k <= m
    BY <1>2, WritesAssumption DEF Least, Begins, WritesAssumption
  <1>4. /\ pipeline' = p \o new
        /\ wire' = IF st.handshake /\ new # <<>> THEN w \o new ELSE w
    BY <1>1
  <1> HIDE DEF m
  <1>5. /\ new \in Seq(Batch) /\ Len(new) = m - k
        /\ \A i \in 1 .. m - k : new[i] = q[k + i]
    BY <1>3, PartOf
  <1> HIDE DEF new
  <1>6. pipeline' \in Seq(Batch) /\ Len(pipeline') = m
    BY <1>2, <1>3, <1>4, <1>5
  <1>7. \A i \in 1 .. m : pipeline'[i] = IF i <= Len(p) THEN p[i] ELSE new[i - Len(p)]
    BY <1>2, <1>3, <1>4, <1>5
  <1>8. Begins(pipeline', q)
    BY <1>2, <1>3, <1>5, <1>6, <1>7 DEF Begins
  <1>9. ASSUME st.handshake
        PROVE  /\ wire' \in Seq(Batch) /\ Len(wire') = Len(w) + Len(new)
               /\ \A i \in 1 .. Len(wire') : wire'[i] = IF i <= Len(w) THEN w[i] ELSE new[i - Len(w)]
    <2>1. CASE new = <<>>
      BY <1>4, <2>1
    <2>2. CASE new # <<>>
      <3>1. wire' = w \o new
        BY <1>4, <1>9, <2>2
      <3>2. w \o new \in Seq(Batch) /\ Len(w \o new) = Len(w) + Len(new)
        BY <1>5
      <3>3. \A i \in 1 .. Len(w) + Len(new) :
               (w \o new)[i] = IF i <= Len(w) THEN w[i] ELSE new[i - Len(w)]
        BY <1>5
      <3> QED  BY <3>1, <3>2, <3>3
    <2> QED  BY <2>1, <2>2
  <1>10. ~st.handshake => wire' = w
    BY <1>4
  <1>11. ASSUME st.handshake, NEW i \in Len(w) + 1 .. Len(wire')
         PROVE  wire'[i] = pipeline'[Len(p) + (i - Len(w))]
    <2>1. wire'[i] = new[i - Len(w)]
      BY <1>9, <1>11
    <2>2. Len(wire') = Len(w) + (m - k)
      BY <1>5, <1>9, <1>11
    <2>3. Len(p) + (i - Len(w)) \in 1 .. m /\ Len(p) + (i - Len(w)) > Len(p)
      BY <1>2, <1>3, <2>2
    <2>4. pipeline'[Len(p) + (i - Len(w))] = new[Len(p) + (i - Len(w)) - Len(p)]
      BY <1>7, <2>3
    <2>5. Len(p) + (i - Len(w)) - Len(p) = i - Len(w)
      OBVIOUS
    <2> QED  BY <2>1, <2>4, <2>5
  <1> QED  BY <1>2, <1>3, <1>5, <1>6, <1>8, <1>9, <1>10, <1>11

\* A stream that runs keeps running, with or without an idle timer; another
\* starts when there is something to write.
LEMMA FillStarts ==
    ASSUME NEW p \in Seq(Batch), NEW q, NEW st \in Stream, NEW w, Fill(p, q, st, w)
    PROVE  /\ stream' \in Stream
           /\ pipeline' # <<>> /\ ~IsStarted(st) => stream' = Start(st)
           /\ pipeline' = <<>> \/ IsStarted(st) => \E b \in BOOLEAN :
                 /\ stream' = [st EXCEPT !.idle = b]
                 /\ b => st.idle \/ (pipeline' = <<>> /\ st.state = "open")
                 /\ b /\ st.handshake => pipeline' = p
  <1>1. PICK new :
          LET sent == st.handshake /\ new # <<>>
          IN  /\ pipeline' = p \o new
              /\ stream' = StartIfNeeded(p \o new,
                   [st EXCEPT !.idle = ~sent /\ (@ \/ (p \o new = <<>> /\ st.state = "open"))])
    BY DEF Fill
  <1>2. new = <<>> => p \o new = p
    OBVIOUS
  <1>3. PICK b \in BOOLEAN :
           /\ stream' = StartIfNeeded(pipeline', [st EXCEPT !.idle = b])
           /\ b => st.idle \/ (pipeline' = <<>> /\ st.state = "open")
           /\ b /\ st.handshake => pipeline' = p
    BY <1>1, <1>2 DEF Stream
  <1>4. [st EXCEPT !.idle = b] \in Stream /\ Start(st) \in Stream
        /\ IsStarted([st EXCEPT !.idle = b]) = IsStarted(st)
        /\ Start([st EXCEPT !.idle = b]) = Start(st)
    BY DEF Stream, Start, Closed, IsStarted
  <1> QED  BY <1>3, <1>4 DEF StartIfNeeded

\* Fill keeps what is on the wire, or answered, the pipeline of its stream.
LEMMA FillLinks ==
    ASSUME NEW p \in Seq(Batch), NEW q \in Seq(Batch), NEW st \in Stream,
           NEW w \in Seq(Batch), NEW a \in Seq(Batch),
           Ascending(q), Begins(p, q), Len(p) <= MaxPending, Linked(p, st, w, a), Fill(p, q, st, w)
    PROVE  /\ Linked(pipeline', stream', wire', a)
           /\ stream'.state = "open" => st.state = "open" /\ stream'.user = st.user
  <1>1. /\ pipeline' \in Seq(Batch) /\ wire' \in Seq(Batch) /\ Len(p) <= Len(pipeline')
        /\ ~st.handshake => wire' = w
        /\ st.handshake =>
              /\ Len(wire') = Len(w) + (Len(pipeline') - Len(p))
              /\ \A i \in 1 .. Len(w) : wire'[i] = w[i]
              /\ \A i \in Len(w) + 1 .. Len(wire') : wire'[i] = pipeline'[Len(p) + (i - Len(w))]
        /\ \A i \in 1 .. Len(p) : pipeline'[i] = p[i]
    BY FillExtends DEF Begins
  <1>2. CASE pipeline' # <<>> /\ ~IsStarted(st)
    <2>1. stream' = Start(st)
      BY <1>2, FillStarts
    <2>2. /\ stream'.state \in {"backoff", "starting"}
          /\ ~stream'.handshake /\ ~stream'.idle
      BY <2>1 DEF Start, Closed
    <2>3. ~st.handshake /\ w = <<>> /\ a = <<>>
      BY <1>2 DEF Linked, IsStarted
    <2> QED  BY <1>1, <1>2, <2>2, <2>3 DEF Linked
  <1>3. CASE pipeline' = <<>> \/ IsStarted(st)
    <2>1. PICK b \in BOOLEAN :
             /\ stream' = [st EXCEPT !.idle = b]
             /\ b => st.idle \/ (pipeline' = <<>> /\ st.state = "open")
             /\ b /\ st.handshake => pipeline' = p
      BY <1>3, FillStarts
    <2>2. /\ stream'.state = st.state /\ stream'.user = st.user
          /\ stream'.handshake = st.handshake /\ stream'.idle = b
      BY <2>1 DEF Stream
    <2>3. pipeline' = <<>> => p = <<>>
      BY <1>1
    <2>4. b => st.state = "open" /\ pipeline' = <<>>
      BY <2>1, <2>3 DEF Linked, IsStarted
    <2>5. ASSUME st.handshake
          PROVE  /\ Len(pipeline') = Len(a) + Len(wire')
                 /\ \A i \in 1 .. Len(a) : a[i] = pipeline'[i]
                 /\ \A i \in 1 .. Len(wire') : wire'[i] = pipeline'[Len(a) + i]
      <3>1. Len(p) = Len(a) + Len(w)
        BY <2>5 DEF Linked
      <3>2. Len(pipeline') = Len(a) + Len(wire')
        BY <1>1, <2>5, <3>1
      <3>3. \A i \in 1 .. Len(a) : i \in 1 .. Len(p)
        BY <3>1
      <3>4. ASSUME NEW i \in 1 .. Len(wire')  PROVE wire'[i] = pipeline'[Len(a) + i]
        <4>1. CASE i <= Len(w)
          <5>1. i \in 1 .. Len(w) /\ Len(a) + i \in 1 .. Len(p)
            BY <3>1, <4>1
          <5>2. wire'[i] = w[i] /\ w[i] = p[Len(a) + i]
            BY <1>1, <2>5, <5>1 DEF Linked
          <5> QED  BY <1>1, <5>1, <5>2
        <4>2. CASE i > Len(w)
          <5>1. Len(p) + (i - Len(w)) = Len(a) + i /\ i \in Len(w) + 1 .. Len(wire')
            BY <3>1, <4>2
          <5> QED  BY <1>1, <2>5, <5>1
        <4> QED  BY <4>1, <4>2
      <3> QED  BY <1>1, <2>5, <3>2, <3>3, <3>4 DEF Linked
    <2> QED  BY <1>1, <2>2, <2>3, <2>4, <2>5 DEF Linked, IsStarted
  <1> QED  BY <1>2, <1>3

\* The batch with the id of the front of the pipeline is the first of the queue.
LEMMA FrontLeaves ==
    ASSUME TypeOK, Queues, pipeline # <<>>, Remove(Head(pipeline))
    PROVE  /\ queue' \in [Users -> Seq(Batch)]
           /\ \A u \in Users \ {current} : queue'[u] = queue[u]
           /\ Len(queue[current]) > 0 /\ Len(queue'[current]) = Len(queue[current]) - 1
           /\ \A i \in 1 .. Len(queue[current]) - 1 : queue'[current][i] = queue[current][i + 1]
           /\ Head(pipeline) = queue[current][1]
           /\ Begins(Tail(pipeline), queue'[current]) /\ Ascending(queue'[current])
  <1> DEFINE q == queue[current]
  <1>1. q \in Seq(Batch) /\ pipeline \in Seq(Batch) /\ current \in Users
    BY DEF TypeOK
  <1>2. Len(q) > 0 /\ Head(pipeline) = q[1] /\ Begins(pipeline, q) /\ Ascending(q)
    BY <1>1 DEF Queues, Begins
  <1>3. PICK k \in DOMAIN q :
          /\ q[k].id = q[1].id
          /\ queue' = [queue EXCEPT ![current] = SubSeq(q, 1, k - 1) \o SubSeq(q, k + 1, Len(q))]
    BY <1>2 DEF Remove
  <1> HIDE DEF q
  <1>4. k = 1
    <2>1. \A i \in 1 .. Len(q) : q[i].id \in Nat
      <3>1. \A i \in 1 .. Len(q) : q[i] \in Batch
        BY <1>1
      <3> QED  BY <3>1 DEF Batch
    <2> QED  BY <1>1, <1>2, <1>3, <2>1 DEF Ascending
  <1> DEFINE r == SubSeq(q, 1, 0) \o SubSeq(q, 2, Len(q))
  <1>5. /\ r \in Seq(Batch) /\ Len(r) = Len(q) - 1
        /\ \A i \in 1 .. Len(q) - 1 : r[i] = q[i + 1]
    <2>1. SubSeq(q, 1, 0) = <<>>
      BY <1>1
    <2>2. /\ SubSeq(q, 2, Len(q)) \in Seq(Batch) /\ Len(SubSeq(q, 2, Len(q))) = Len(q) - 1
          /\ \A i \in 1 .. Len(q) - 1 : SubSeq(q, 2, Len(q))[i] = q[i + 1]
      BY <1>1, <1>2, RestOf
    <2> QED  BY <2>1, <2>2
  <1>6. queue' = [queue EXCEPT ![current] = r]
    BY <1>3, <1>4
  <1> HIDE DEF r
  <1>7. queue'[current] = r /\ \A u \in Users \ {current} : queue'[u] = queue[u]
    BY <1>1, <1>6 DEF TypeOK
  <1>8. queue' \in [Users -> Seq(Batch)]
    BY <1>5, <1>6 DEF TypeOK
  <1>9. Ascending(r)
    <2> SUFFICES ASSUME NEW i \in 1 .. Len(r), NEW j \in 1 .. Len(r), i < j
                 PROVE  r[i].id < r[j].id
      BY DEF Ascending
    <2>1. i + 1 \in 1 .. Len(q) /\ j + 1 \in 1 .. Len(q) /\ i + 1 < j + 1
      BY <1>1, <1>2, <1>5
    <2> QED  BY <1>2, <1>5, <2>1 DEF Ascending
  <1>10. Begins(Tail(pipeline), r)
    <2>1. Len(Tail(pipeline)) <= Len(r)
      BY <1>1, <1>2, <1>5 DEF Begins
    <2>2. ASSUME NEW i \in 1 .. Len(Tail(pipeline))
          PROVE  Tail(pipeline)[i] = r[i]
      <3>1. i + 1 \in 1 .. Len(pipeline) /\ Tail(pipeline)[i] = pipeline[i + 1]
        BY <1>1
      <3> QED  BY <1>1, <1>2, <1>5, <3>1 DEF Begins
    <2> QED  BY <2>1, <2>2 DEF Begins
  <1> QED  BY <1>1, <1>2, <1>5, <1>7, <1>8, <1>9, <1>10 DEF q

-----------------------------------------------------------------------------
(* Steps that leave a part of the state alone                                *)

LEMMA Frame ==
    ASSUME Core
    PROVE  /\ UNCHANGED <<queue, running, nextId, pipeline, current>> => Queues'
           /\ UNCHANGED <<tasks, current, running, account, written>> => Turns'
           /\ UNCHANGED <<tasks, stream>> => Tokens'
           /\ UNCHANGED <<stream, current, enabled, pipeline, wire, answers>> => Connection'
           /\ running' => AtRest'
  <1> USE DEF Core
  <1>1. UNCHANGED <<queue, running, nextId, pipeline, current>> => Queues'
    BY DEF Queues
  <1>2. UNCHANGED <<tasks, current, running, account, written>> => Turns'
    BY DEF Turns, Before
  <1>3. UNCHANGED <<tasks, stream>> => Tokens'
    BY DEF Tokens
  <1>4. UNCHANGED <<stream, current, enabled, pipeline, wire, answers>> => Connection'
    BY DEF Connection
  <1>5. running' => AtRest'
    BY DEF AtRest
  <1> QED  BY <1>1, <1>2, <1>3, <1>4, <1>5

\* Voiding changes nothing of a task but whether it is still wanted.
LEMMA Voided ==
    ASSUME NEW ts \in Seq(Task)
    PROVE  /\ Void(ts) \in Seq(Task) /\ Len(Void(ts)) = Len(ts)
           /\ \A i \in 1 .. Len(ts) : /\ Void(ts)[i].kind = ts[i].kind /\ Void(ts)[i].user = ts[i].user
                                     /\ Void(ts)[i].n = ts[i].n /\ ~Void(ts)[i].live
  <1>1. \A i \in 1 .. Len(ts) : ts[i] \in Task
    OBVIOUS
  <1>2. Void(ts) = [i \in 1 .. Len(ts) |-> [ts[i] EXCEPT !.live = FALSE]]
    BY DEF Void
  <1>3. \A i \in 1 .. Len(ts) : [ts[i] EXCEPT !.live = FALSE] \in Task
    BY <1>1 DEF Task
  <1>4. Void(ts) \in Seq(Task) /\ Len(Void(ts)) = Len(ts)
    BY <1>2, <1>3
  <1>5. \A i \in 1 .. Len(ts) : Void(ts)[i] = [ts[i] EXCEPT !.live = FALSE]
    BY <1>2
  <1> QED  BY <1>1, <1>4, <1>5 DEF Task

\* When the tasks that are left keep their users the turns go on.
LEMMA TurnsGoOn ==
    ASSUME TypeOK, Turns, tasks' \in Seq(Task), tasks # <<>>, Len(tasks') = Len(tasks) - 1,
           \A i \in 1 .. Len(tasks') : tasks'[i].kind = tasks[i + 1].kind /\ tasks'[i].user = tasks[i + 1].user,
           \A i \in 1 .. Len(tasks') : tasks'[i].n = tasks[i + 1].n,
           current' = tasks[1].user, UNCHANGED <<running, account, written>>
    PROVE  Turns'
  <1>1. ASSUME NEW j \in 1 .. Len(tasks'), tasks'[j].kind # "user"
        PROVE  tasks'[j].user = Before(j)'
    <2>1. j + 1 \in 1 .. Len(tasks) /\ j + 1 # 1 /\ tasks[j + 1].user = tasks[j + 1 - 1].user
      <3>1. j + 1 \in 1 .. Len(tasks) /\ j + 1 # 1 /\ tasks[j + 1].kind # "user"
        BY <1>1 DEF TypeOK
      <3> QED  BY <3>1 DEF Turns, Before
    <2>2. CASE j = 1
      BY <1>1, <2>1, <2>2 DEF Before
    <2>3. CASE j # 1
      <3>1. j - 1 \in 1 .. Len(tasks') /\ j - 1 + 1 = j /\ j + 1 - 1 = j
        BY <1>1, <2>3
      <3> QED  BY <1>1, <2>1, <2>3, <3>1 DEF Before
    <2> QED  BY <2>2, <2>3
  <1>2. Before(Len(tasks) + 1)' = Before(Len(tasks) + 1)
    <2>1. Len(tasks) \in Nat /\ Len(tasks) > 0
      <3>1. tasks \in Seq(Task)
        BY DEF TypeOK
      <3> QED  BY <3>1
    <2>2. Before(Len(tasks) + 1) = tasks[Len(tasks)].user
      BY <2>1 DEF Before
    <2>3. CASE Len(tasks') = 0
      <3>1. Len(tasks) = 1
        BY <2>1, <2>3
      <3>2. Before(Len(tasks) + 1)' = current'
        BY <2>3 DEF Before
      <3> QED  BY <2>2, <3>1, <3>2
    <2>4. CASE Len(tasks') # 0
      <3>1. Len(tasks') \in 1 .. Len(tasks') /\ Len(tasks') + 1 - 1 = Len(tasks')
            /\ Len(tasks') + 1 = Len(tasks)
        BY <2>1, <2>4
      <3> QED  BY <2>1, <2>2, <2>4, <3>1 DEF Before
    <2> QED  BY <2>3, <2>4
  <1>3. ASSUME NEW j \in 1 .. Len(tasks'), tasks'[j].kind = "write"
        PROVE  tasks'[j].n \in 1 .. written'
    <2>1. j + 1 \in 1 .. Len(tasks)
      BY DEF TypeOK
    <2> QED  BY <1>3, <2>1 DEF Turns
  <1> QED  BY <1>1, <1>2, <1>3 DEF Turns

\* Whoever is signed in puts a task at the end.
LEMMA TurnsGrow ==
    ASSUME TypeOK, Turns, running, NEW t \in Task, tasks' = Append(tasks, t),
           t.kind # "user" => t.user = account,
           t.kind = "write" => t.n \in 1 .. written', account' = t.user,
           written' \in Nat, written <= written', UNCHANGED <<running, current>>
    PROVE  Turns'
  <1>1. tasks \in Seq(Task) /\ Len(tasks') = Len(tasks) + 1 /\ tasks'[Len(tasks) + 1] = t
        /\ \A j \in 1 .. Len(tasks) : tasks'[j] = tasks[j]
    BY DEF TypeOK
  <1>2. \A j \in 1 .. Len(tasks) + 1 : Before(j)' = Before(j)
    BY <1>1 DEF Before
  <1>3. Before(Len(tasks) + 1)' = t.user
    BY <1>1 DEF Before
  <1>4. \A j \in 1 .. Len(tasks) : tasks[j].n \in 1 .. written => tasks[j].n \in 1 .. written'
    BY DEF TypeOK
  <1> QED  BY <1>1, <1>2, <1>3, <1>4 DEF Turns

\* Voiding the tasks leaves the turns as they are.
LEMMA TurnsStay ==
    ASSUME TypeOK, Turns, tasks' = Void(tasks), UNCHANGED <<running, current, account, written>>
    PROVE  Turns'
  <1>1. /\ tasks \in Seq(Task) /\ Len(tasks') = Len(tasks)
        /\ \A i \in 1 .. Len(tasks) : /\ tasks'[i].kind = tasks[i].kind /\ tasks'[i].user = tasks[i].user
                                      /\ tasks'[i].n = tasks[i].n
    BY Voided DEF TypeOK
  <1>2. \A j \in 1 .. Len(tasks) + 1 : Before(j)' = Before(j)
    BY <1>1 DEF Before
  <1> QED  BY <1>1, <1>2 DEF Turns

\* Losing or passing on a task leaves no new token on its way.
LEMMA TokensGoOn ==
    ASSUME TypeOK, Tokens, tasks # <<>>, tasks' = Tail(tasks),
           stream'.state = stream.state, stream'.asking = stream.asking
    PROVE  Tokens'
  <1>1. /\ tasks \in Seq(Task) /\ Len(tasks') = Len(tasks) - 1
        /\ \A i \in 1 .. Len(tasks') : tasks'[i] = tasks[i + 1] /\ i + 1 \in 1 .. Len(tasks)
    BY DEF TypeOK
  <1> QED  BY <1>1 DEF Tokens

LEMMA TokensFill ==
    ASSUME TypeOK, Tokens, NEW p \in Seq(Batch), NEW q, NEW w, Fill(p, q, stream, w),
           tasks' = tasks \/ (tasks # <<>> /\ tasks' = Tail(tasks))
    PROVE  Tokens'
  <1>1. stream \in Stream
    BY DEF TypeOK
  <1>2. CASE stream'.state = stream.state /\ stream'.asking = stream.asking
    <2>1. CASE tasks' = tasks
      BY <1>2, <2>1 DEF Tokens
    <2> QED  BY <1>2, <2>1, TokensGoOn
  <1>3. CASE pipeline' # <<>> /\ ~IsStarted(stream)
    <2>1. stream' = Start(stream)
      BY <1>1, <1>3, FillStarts
    <2>2. stream'.asking => stream'.state = "starting"
      BY <2>1 DEF Start, Closed
    <2>3. \A j \in 1 .. Len(tasks) : ~tasks[j].live
      BY <1>3 DEF Tokens, IsStarted
    <2>4. \A j \in 1 .. Len(tasks') : ~tasks'[j].live
      <3>1. CASE tasks' = tasks
        BY <2>3, <3>1
      <3>2. CASE tasks # <<>> /\ tasks' = Tail(tasks)
        <4>1. /\ tasks \in Seq(Task) /\ Len(tasks') = Len(tasks) - 1
              /\ \A i \in 1 .. Len(tasks') : tasks'[i] = tasks[i + 1] /\ i + 1 \in 1 .. Len(tasks)
          BY <3>2 DEF TypeOK
        <4> QED  BY <2>3, <4>1
      <3> QED  BY <3>1, <3>2
    <2> QED  BY <2>2, <2>4 DEF Tokens
  <1>4. CASE pipeline' = <<>> \/ IsStarted(stream)
    <2>1. PICK b \in BOOLEAN : stream' = [stream EXCEPT !.idle = b]
      BY <1>1, <1>4, FillStarts
    <2>2. stream'.state = stream.state /\ stream'.asking = stream.asking
      BY <1>1, <2>1 DEF Stream
    <2> QED  BY <1>2, <2>2
  <1> QED  BY <1>3, <1>4

\* A step that voids the tasks leaves no token on its way.
LEMMA TokensVoid ==
    ASSUME NEW ts \in Seq(Task), tasks' = Void(ts), stream'.asking => stream'.state = "starting"
    PROVE  Tokens'
  <1>1. \A i \in 1 .. Len(tasks') : ~tasks'[i].live
    BY Voided
  <1> QED  BY <1>1 DEF Tokens

\* What only a process has, and what only a stream past its handshake has.
LEMMA Alive ==
    ASSUME Core
    PROVE  /\ tasks # <<>> \/ stream.asking \/ stream.state # "initial" \/ stream.idle => running
           /\ enabled => running
           /\ pipeline # <<>> => running /\ enabled
           /\ wire # <<>> \/ answers # <<>> => running /\ enabled /\ stream.handshake /\ pipeline # <<>>
           /\ answers # <<>> => Len(pipeline) > 0 /\ Head(answers) = Head(pipeline)
           /\ wire # <<>> /\ answers = <<>> => Len(pipeline) > 0 /\ Head(wire) = Head(pipeline)
  <1> USE DEF Core
  <1>1. tasks # <<>> \/ stream.asking \/ stream.state # "initial" \/ stream.idle => running
    BY DEF AtRest, Closed
  <1>2. enabled => running
    BY DEF AtRest, TypeOK
  <1>3. pipeline # <<>> => running /\ enabled
    BY <1>2 DEF Connection
  <1>4. pipeline \in Seq(Batch) /\ wire \in Seq(Batch) /\ answers \in Seq(Batch)
    BY DEF TypeOK
  <1>5. ASSUME wire # <<>> \/ answers # <<>>
        PROVE  /\ stream.handshake /\ Len(pipeline) > 0
               /\ answers # <<>> => Head(answers) = Head(pipeline)
               /\ answers = <<>> => Head(wire) = Head(pipeline)
    <2>1. stream.handshake /\ Len(pipeline) = Len(answers) + Len(wire)
      BY <1>5 DEF Connection, Linked
    <2>2. Len(pipeline) > 0
      BY <1>4, <1>5, <2>1
    <2>3. ASSUME answers # <<>>  PROVE Head(answers) = Head(pipeline)
      <3>1. 1 \in 1 .. Len(answers)
        BY <1>4, <2>3
      <3>2. answers[1] = pipeline[1]
        BY <2>1, <3>1 DEF Connection, Linked
      <3> QED  BY <1>4, <2>2, <2>3, <3>2
    <2>4. ASSUME answers = <<>>  PROVE Head(wire) = Head(pipeline)
      <3>1. 1 \in 1 .. Len(wire) /\ Len(answers) + 1 = 1
        BY <1>4, <1>5, <2>4
      <3>2. wire[1] = pipeline[1]
        BY <2>1, <3>1 DEF Connection, Linked
      <3> QED  BY <1>4, <2>2, <3>1, <3>2
    <2> QED  BY <2>1, <2>2, <2>3, <2>4
  <1> QED  BY <1>1, <1>2, <1>3, <1>4, <1>5

\* A stream that was not running, and its wire, after a Fill.
LEMMA FillAfresh ==
    ASSUME NEW p \in Seq(Batch), NEW q \in Seq(Batch), Ascending(q), Begins(p, q),
           Len(p) <= MaxPending, Fill(p, q, Closed("initial"), <<>>), answers' = <<>>
    PROVE  /\ pipeline' \in Seq(Batch) /\ wire' \in Seq(Batch) /\ answers' \in Seq(Batch)
           /\ stream' \in Stream /\ stream'.state \in {"initial", "starting"}
           /\ stream'.asking => stream'.state = "starting"
           /\ Begins(pipeline', q) /\ Len(pipeline') <= MaxPending
           /\ Linked(pipeline', stream', wire', answers')
  <1>1. <<>> \in Seq(Batch)
    OBVIOUS
  <1>2. /\ Closed("initial") \in Stream /\ Closed("initial").state = "initial"
        /\ ~Closed("initial").idle /\ ~Closed("initial").handshake /\ ~IsStarted(Closed("initial"))
    BY DEF Closed, Stream, IsStarted
  <1>3. Linked(p, Closed("initial"), <<>>, <<>>)
    BY <1>2 DEF Linked
  <1>4. /\ pipeline' \in Seq(Batch) /\ wire' \in Seq(Batch)
        /\ Begins(pipeline', q) /\ Len(pipeline') <= MaxPending
    BY <1>1, FillExtends
  <1>5. Linked(pipeline', stream', wire', answers')
    BY <1>1, <1>2, <1>3, FillLinks
  <1>6. /\ stream' \in Stream /\ stream'.state \in {"initial", "starting"}
        /\ stream'.asking => stream'.state = "starting"
    <2>1. CASE pipeline' # <<>>
      BY <1>2, <2>1, FillStarts DEF Start, Closed
    <2>2. CASE pipeline' = <<>>
      BY <1>2, <2>2, FillStarts DEF Closed
    <2> QED  BY <2>1, <2>2
  <1> QED  BY <1>1, <1>4, <1>5, <1>6

LEMMA Restarts ==
    ASSUME NEW q \in Seq(Batch), Ascending(q), RestartNetwork(q)
    PROVE  /\ pipeline' \in Seq(Batch) /\ wire' \in Seq(Batch) /\ answers' \in Seq(Batch)
           /\ stream' \in Stream /\ stream'.state \in {"initial", "starting"}
           /\ stream'.asking => stream'.state = "starting"
           /\ Begins(pipeline', q) /\ Len(pipeline') <= MaxPending
           /\ Linked(pipeline', stream', wire', answers')
  <1>1. <<>> \in Seq(Batch) /\ Len(<<>>) = 0 /\ 0 <= MaxPending
    BY WritesAssumption DEF WritesAssumption
  <1>2. Begins(<<>>, q)
    BY DEF Begins
  <1> QED  BY <1>1, <1>2, FillAfresh DEF RestartNetwork

-----------------------------------------------------------------------------
(* The core of the invariant, action by action                               *)

LEMMA CoreStart == ASSUME Init PROVE Core
  <1>1. TypeOK
    <2>1. stream \in Stream
      BY DEF Init, Stream, Closed
    <2>2. queue \in [Users -> Seq(Batch)] /\ tasks \in Seq(Task) /\ nextId \in Nat \ {0}
          /\ pipeline \in Seq(Batch) /\ wire \in Seq(Batch) /\ answers \in Seq(Batch)
      BY DEF Init
    <2>3. written \in 0 .. MaxWrites /\ trouble \in 0 .. MaxTrouble
      BY WritesAssumption DEF Init, WritesAssumption
    <2>6. /\ account \in Users /\ current \in Users /\ running \in BOOLEAN
          /\ enabled \in BOOLEAN /\ clean \in BOOLEAN
      BY DEF Init
    <2>4. /\ stored \subseteq Numbers /\ applied \in [Users -> SUBSET Numbers]
          /\ toldOk \subseteq Numbers /\ toldError \subseteq Numbers /\ awaited \subseteq Numbers
          /\ callbacks = {} /\ waits = {}
      BY DEF Init
    <2>5. last \in [Users -> 0 .. MaxWrites]
      BY WritesAssumption DEF Init, WritesAssumption
    <2> QED  BY <2>1, <2>2, <2>3, <2>4, <2>5, <2>6 DEF TypeOK
  <1>2. Begins(<<>>, <<>>) /\ 0 <= MaxPending
    BY WritesAssumption DEF Begins, WritesAssumption
  <1>3. Queues
    BY <1>1, <1>2 DEF Init, Queues, Ascending, TypeOK
  <1>4. Turns /\ Tokens /\ AtRest
    BY DEF Init, Turns, Tokens, AtRest, Closed
  <1>5. Connection
    BY DEF Init, Connection, Linked, IsStarted, Closed
  <1> QED  BY <1>1, <1>3, <1>4, <1>5 DEF Core

\* AppWrites, AuthChanges and TokenComes put a task at the end.
LEMMA CoreEnqueues ==
    ASSUME Core, running, NEW t \in Task, tasks' = Append(tasks, t),
           t.kind # "user" => t.user = account,
           t.kind = "write" => t.n \in 1 .. written', account' = t.user,
           t.live => stream.asking /\ ~stream'.asking,
           written' \in 0 .. MaxWrites, written <= written', trouble' \in 0 .. MaxTrouble,
           stream' \in Stream, stream' = [stream EXCEPT !.asking = stream'.asking],
           stream'.asking => stream.asking,
           UNCHANGED <<queue, running, current, nextId, enabled, pipeline, wire, answers, pending,
                       server, stored, told, clean>>
    PROVE  Core'
  <1> USE DEF Core
  <1>1. TypeOK'
    <2>1. tasks' \in Seq(Task)
      BY DEF TypeOK
    <2>2. account' \in Users
      BY DEF Task
    <2> QED  BY <2>1, <2>2 DEF TypeOK, pending, server, told
  <1>2. Turns'
    <2>1. written' \in Nat
      OBVIOUS
    <2> QED  BY <2>1, TurnsGrow
  <1>3. stream'.state = stream.state /\ stream'.handshake = stream.handshake
        /\ stream'.idle = stream.idle /\ stream'.user = stream.user
    BY DEF TypeOK, Stream
  <1>4. Tokens'
    <2>1. /\ tasks \in Seq(Task) /\ Len(tasks') = Len(tasks) + 1 /\ tasks'[Len(tasks) + 1] = t
          /\ \A j \in 1 .. Len(tasks) : tasks'[j] = tasks[j]
      BY DEF TypeOK
    <2> QED  BY <1>3, <2>1 DEF Tokens
  <1>5. Connection'
    BY <1>3 DEF Connection, Linked, IsStarted
  <1>6. Queues' /\ AtRest'
    BY Frame
  <1> QED  BY <1>1, <1>2, <1>4, <1>5, <1>6

LEMMA CoreAppWrites == ASSUME Core, AppWrites PROVE Core'
  <1> DEFINE t == [kind |-> "write", user |-> account, n |-> written + 1, live |-> FALSE]
  <1>1. account \in Users /\ written \in 0 .. MaxWrites /\ trouble \in 0 .. MaxTrouble
        /\ stream \in Stream
    BY DEF Core, TypeOK
  <1>2. t \in Task /\ t.kind = "write" /\ t.user = account /\ t.n = written + 1 /\ ~t.live
    BY <1>1, WritesAssumption DEF AppWrites, Task, WritesAssumption
  <1>3. running /\ tasks' = Append(tasks, t) /\ written' = written + 1 /\ written < MaxWrites
    BY DEF AppWrites, Enqueue
  <1>4. UNCHANGED <<queue, account, running, current, nextId, enabled, pipeline, stream, wire,
                    answers, pending, server, stored, told, clean, trouble>>
    BY DEF AppWrites, disk, remote
  <1>5. stream' = [stream EXCEPT !.asking = stream'.asking]
    BY <1>1, <1>4 DEF Stream
  <1>6. written' \in 0 .. MaxWrites /\ written <= written' /\ t.n \in 1 .. written'
    BY <1>1, <1>2, <1>3, WritesAssumption DEF WritesAssumption
  <1> HIDE DEF t
  <1> QED  BY <1>1, <1>2, <1>3, <1>4, <1>5, <1>6, CoreEnqueues

LEMMA CoreAuthChanges == ASSUME Core, NEW u \in Users, AuthChanges(u) PROVE Core'
  <1> DEFINE t == [kind |-> "user", user |-> u, n |-> 0, live |-> FALSE]
  <1>1. written \in 0 .. MaxWrites /\ trouble \in 0 .. MaxTrouble /\ stream \in Stream
    BY DEF Core, TypeOK
  <1>2. t \in Task /\ t.kind = "user" /\ t.user = u /\ ~t.live
    BY WritesAssumption DEF Task, WritesAssumption
  <1>3. running /\ tasks' = Append(tasks, t) /\ account' = u /\ trouble < MaxTrouble
        /\ trouble' = trouble + 1
    BY DEF AuthChanges, Enqueue, Goes
  <1>4. UNCHANGED <<queue, running, current, nextId, enabled, pipeline, stream, wire,
                    answers, pending, server, stored, told, clean, written>>
    BY DEF AuthChanges, remote, Goes
  <1>5. stream' = [stream EXCEPT !.asking = stream'.asking]
    BY <1>1, <1>4 DEF Stream
  <1>6. trouble' \in 0 .. MaxTrouble /\ written' \in 0 .. MaxWrites /\ written <= written'
    BY <1>1, <1>3, <1>4, WritesAssumption DEF WritesAssumption
  <1> HIDE DEF t
  <1> QED  BY <1>1, <1>2, <1>3, <1>4, <1>5, <1>6, CoreEnqueues

LEMMA CoreTokenComes ==
    ASSUME Core, NEW kind \in {"token", "tokenFailed"}, TokenComes(kind),
           UNCHANGED <<clean, written>>, trouble' \in 0 .. MaxTrouble
    PROVE  Core'
  <1> DEFINE t == [kind |-> kind, user |-> account, n |-> 0, live |-> TRUE]
  <1>1. account \in Users /\ written \in 0 .. MaxWrites /\ stream \in Stream
    BY DEF Core, TypeOK
  <1>2. t \in Task /\ t.kind = kind /\ t.user = account
    BY <1>1, WritesAssumption DEF Task, WritesAssumption
  <1>3. running /\ stream.asking /\ tasks' = Append(tasks, t)
        /\ stream' = [stream EXCEPT !.asking = FALSE]
    BY Alive DEF TokenComes, Enqueue
  <1>4. UNCHANGED <<queue, account, running, current, nextId, enabled, pipeline, wire,
                    answers, pending, server, stored, told, clean, written>>
    BY DEF TokenComes, disk
  <1>5. stream' \in Stream /\ ~stream'.asking /\ stream' = [stream EXCEPT !.asking = stream'.asking]
    BY <1>1, <1>3 DEF Stream
  <1>6. written' \in 0 .. MaxWrites /\ written <= written' /\ t.kind # "write"
    BY <1>1, <1>2, <1>4
  <1> HIDE DEF t
  <1> QED  BY <1>1, <1>2, <1>3, <1>4, <1>5, <1>6, CoreEnqueues

LEMMA CoreRunWrite == ASSUME Core, RunWrite PROVE Core'
  <1> USE DEF Core
  <1> DEFINE t == Head(tasks)
             b == [id |-> nextId, n |-> t.n, by |-> t.user]
             q == Append(queue[current], b)
  <1>1. tasks # <<>> /\ t.kind = "write" /\ tasks' = Tail(tasks)
        /\ queue' = [queue EXCEPT ![current] = q]
        /\ nextId' = nextId + 1 /\ stored' = stored \cup {t.n}
    BY DEF RunWrite, Runs
  <1>2. UNCHANGED <<account, running, current, enabled, answers, waits, applied, last, toldOk,
                    toldError, awaited, clean, written, trouble>>
    BY DEF RunWrite, server, told, bounds
  <1>3. running
    BY <1>1, Alive
  <1>4. /\ tasks \in Seq(Task) /\ queue \in [Users -> Seq(Batch)] /\ current \in Users
        /\ nextId \in Nat \ {0} /\ written \in Nat /\ written <= MaxWrites
        /\ queue[current] \in Seq(Batch)
        /\ pipeline \in Seq(Batch) /\ wire \in Seq(Batch) /\ answers \in Seq(Batch)
        /\ stream \in Stream
    BY WritesAssumption DEF TypeOK, WritesAssumption
  <1>5. Len(tasks) > 0 /\ t = tasks[1] /\ t.user \in Users
    <2>1. Len(tasks) > 0 /\ t = tasks[1] /\ tasks[1] \in Task
      BY <1>1, <1>4
    <2> QED  BY <2>1 DEF Task
  <1>6. t.user = current /\ t.n \in Numbers
    <2>1. 1 \in 1 .. Len(tasks)
      BY <1>4, <1>5
    <2>2. t.kind # "user"
      BY <1>1
    <2>3. t.user = Before(1)
      BY <1>5, <2>1, <2>2 DEF Turns
    <2>4. t.n \in 1 .. written
      BY <1>1, <1>5, <2>1 DEF Turns
    <2> QED  BY <1>4, <2>3, <2>4, WritesAssumption DEF Before, Numbers, WritesAssumption
  <1>7. b \in Batch /\ b.id = nextId /\ b.by = current /\ b.n = t.n
    BY <1>4, <1>5, <1>6 DEF Batch
  <1> HIDE DEF t, b
  <1>8. /\ q \in Seq(Batch) /\ Len(q) = Len(queue[current]) + 1 /\ q[Len(q)] = b
        /\ \A i \in 1 .. Len(queue[current]) : q[i] = queue[current][i]
    BY <1>4, <1>7
  <1>9. /\ queue' \in [Users -> Seq(Batch)] /\ queue'[current] = q
        /\ \A u \in Users : u # current => queue'[u] = queue[u]
    BY <1>1, <1>4, <1>8
  <1> HIDE DEF q
  <1>10. /\ \A i \in 1 .. Len(queue[current]) :
               /\ queue[current][i].id < nextId /\ queue[current][i].id \in Nat
               /\ queue[current][i].by = current
         /\ Ascending(queue[current])
    <2>1. \A i \in 1 .. Len(queue[current]) : queue[current][i] \in Batch
      BY <1>4
    <2>2. \A i \in 1 .. Len(queue[current]) : queue[current][i].id \in Nat
      BY <2>1 DEF Batch
    <2> QED  BY <1>3, <1>4, <2>2 DEF Queues
  <1>11. Ascending(q) /\ Begins(pipeline, q) /\ \A i \in 1 .. Len(q) : q[i].by = current /\ q[i].id < nextId'
    <2>1. Begins(pipeline, queue[current])
      BY DEF Queues
    <2>2. Begins(pipeline, q)
      BY <1>4, <1>8, <2>1 DEF Begins
    <2>3. Ascending(q)
      <3> SUFFICES ASSUME NEW i \in 1 .. Len(q), NEW j \in 1 .. Len(q), i < j
                   PROVE  q[i].id < q[j].id
        BY DEF Ascending
      <3>1. i \in 1 .. Len(queue[current])
        BY <1>4, <1>8
      <3>2. CASE j = Len(q)
        BY <1>7, <1>8, <1>10, <3>1, <3>2
      <3>3. CASE j # Len(q)
        <4>1. Len(queue[current]) \in Nat /\ Len(q) = Len(queue[current]) + 1
          BY <1>4, <1>8
        <4>2. j \in 1 .. Len(queue[current])
          BY <3>3, <4>1
        <4> QED  BY <1>8, <1>10, <3>1, <4>2 DEF Ascending
      <3> QED  BY <3>2, <3>3
    <2>4. ASSUME NEW i \in 1 .. Len(q)  PROVE q[i].by = current /\ q[i].id < nextId'
      <3> nextId \in Nat /\ nextId' \in Nat /\ nextId < nextId'
        BY <1>1, <1>4
      <3>1. CASE i = Len(q)
        BY <1>7, <1>8, <3>1
      <3>2. CASE i # Len(q)
        <4>1. i \in 1 .. Len(queue[current])
          BY <1>4, <1>8, <3>2
        <4> QED  BY <1>8, <1>10, <4>1
      <3> QED  BY <3>1, <3>2
    <2> QED  BY <2>2, <2>3, <2>4
  <1>12. /\ pipeline' \in Seq(Batch) /\ wire' \in Seq(Batch) /\ stream' \in Stream
         /\ Begins(pipeline', q) /\ Len(pipeline') <= MaxPending
         /\ Linked(pipeline', stream', wire', answers)
         /\ stream'.state = "open" => stream'.user = current
         /\ IsStarted(stream') \/ pipeline' # <<>> => enabled
    <2>1. Linked(pipeline, stream, wire, answers) /\ Len(pipeline) <= MaxPending
          /\ (stream.state = "open" => stream.user = current)
          /\ (IsStarted(stream) \/ pipeline # <<>> => enabled)
      BY DEF Connection, Queues
    <2>2. CASE enabled
      <3>1. Fill(pipeline, q, stream, wire)
        BY <1>9, <2>2 DEF RunWrite
      <3>2. /\ pipeline' \in Seq(Batch) /\ wire' \in Seq(Batch)
            /\ Begins(pipeline', q) /\ Len(pipeline') <= MaxPending
        BY <1>4, <1>8, <1>11, <2>1, <3>1, FillExtends
      <3>3. stream' \in Stream
        BY <1>4, <3>1, FillStarts
      <3>4. Linked(pipeline', stream', wire', answers)
            /\ (stream'.state = "open" => stream.state = "open" /\ stream'.user = stream.user)
        BY <1>4, <1>8, <1>11, <2>1, <3>1, FillLinks
      <3> QED  BY <2>1, <2>2, <3>2, <3>3, <3>4
    <2>3. CASE ~enabled
      <3>1. UNCHANGED <<pipeline, stream, wire>>
        BY <2>3 DEF RunWrite
      <3> QED  BY <1>4, <1>11, <2>1, <2>3, <3>1
    <2> QED  BY <2>2, <2>3
  <1>13. callbacks' \subseteq [user : Users, id : Nat \ {0}, n : Numbers]
    <2>1. callbacks' \subseteq callbacks \cup {[user |-> current, id |-> nextId, n |-> b.n]}
      BY DEF RunWrite, b, t
    <2>2. [user |-> current, id |-> nextId, n |-> b.n] \in [user : Users, id : Nat \ {0}, n : Numbers]
      BY <1>4, <1>6, <1>7
    <2> QED  BY <2>1, <2>2 DEF TypeOK
  <1>14. TypeOK'
    <2>1. tasks' \in Seq(Task) /\ nextId' \in Nat \ {0} /\ stored' \subseteq Numbers
      BY <1>1, <1>4, <1>5, <1>6 DEF TypeOK
    <2> QED  BY <1>2, <1>9, <1>12, <1>13, <2>1 DEF TypeOK
  <1>15. Queues'
    <2>1. \A u \in Users : u # current =>
             Ascending(queue[u]) /\ \A i \in 1 .. Len(queue[u]) : queue[u][i].by = u /\ queue[u][i].id < nextId'
      <3> SUFFICES ASSUME NEW u \in Users, NEW i \in 1 .. Len(queue[u])
                   PROVE  queue[u][i].id < nextId'
        BY DEF Queues
      <3>1. queue[u][i] \in Batch
        BY <1>4
      <3>2. queue[u][i].id \in Nat
        BY <3>1 DEF Batch
      <3> QED  BY <1>1, <1>3, <1>4, <3>2 DEF Queues
    <2> QED  BY <1>2, <1>9, <1>11, <1>12, <2>1 DEF Queues
  <1>16. Turns'
    <2>1. /\ Len(tasks') = Len(tasks) - 1 /\ tasks' \in Seq(Task)
          /\ \A i \in 1 .. Len(tasks') : tasks'[i] = tasks[i + 1]
      BY <1>1, <1>4, <1>5
    <2> QED  BY <1>1, <1>2, <1>5, <1>6, <2>1, TurnsGoOn
  <1>17. Tokens'
    <2>1. CASE enabled
      <3>1. Fill(pipeline, q, stream, wire)
        BY <1>9, <2>1 DEF RunWrite
      <3> QED  BY <1>1, <1>4, <3>1, TokensFill
    <2>2. CASE ~enabled
      <3>1. stream' = stream
        BY <2>2 DEF RunWrite
      <3> QED  BY <1>1, <3>1, TokensGoOn
    <2> QED  BY <2>1, <2>2
  <1>18. Connection' /\ AtRest'
    BY <1>2, <1>3, <1>12 DEF Connection, AtRest
  <1> QED  BY <1>14, <1>15, <1>16, <1>17, <1>18

\* A task that leaves the tasks behind it as they are, or void.
LEMMA TaskRun ==
    ASSUME Core, tasks # <<>>,
           tasks' = Tail(tasks) \/ tasks' = Void(Tail(tasks)),
           current' = IF Head(tasks).kind = "user" THEN Head(tasks).user ELSE current,
           UNCHANGED <<running, account, written>>
    PROVE  /\ tasks' \in Seq(Task) /\ Len(tasks') = Len(tasks) - 1
           /\ Head(tasks) = tasks[1] /\ 1 \in 1 .. Len(tasks) /\ Head(tasks) \in Task
           /\ current' = Head(tasks).user /\ current' \in Users
           /\ Turns'
  <1> USE DEF Core
  <1>1. tasks \in Seq(Task) /\ Len(tasks) > 0 /\ 1 \in 1 .. Len(tasks) /\ Head(tasks) = tasks[1]
    BY DEF TypeOK
  <1>2. Head(tasks) \in Task
    BY <1>1
  <1>3. Tail(tasks) \in Seq(Task) /\ Len(Tail(tasks)) = Len(tasks) - 1
        /\ \A i \in 1 .. Len(tasks) - 1 : Tail(tasks)[i] = tasks[i + 1]
    BY <1>1
  <1>4. /\ tasks' \in Seq(Task) /\ Len(tasks') = Len(tasks) - 1
        /\ \A i \in 1 .. Len(tasks') : /\ tasks'[i].kind = tasks[i + 1].kind
                                       /\ tasks'[i].user = tasks[i + 1].user
                                       /\ tasks'[i].n = tasks[i + 1].n
    <2>1. CASE tasks' = Tail(tasks)
      BY <1>3, <2>1
    <2>2. CASE tasks' = Void(Tail(tasks))
      <3> DEFINE rest == Tail(tasks)
      <3>1. rest \in Seq(Task) /\ Len(rest) = Len(tasks) - 1
            /\ \A i \in 1 .. Len(rest) : rest[i] = tasks[i + 1]
        BY <1>1, <1>3
      <3>2. tasks' = Void(rest)
        BY <2>2
      <3> HIDE DEF rest
      <3>3. /\ Void(rest) \in Seq(Task) /\ Len(Void(rest)) = Len(rest)
            /\ \A i \in 1 .. Len(rest) : /\ Void(rest)[i].kind = rest[i].kind
                                         /\ Void(rest)[i].user = rest[i].user
                                         /\ Void(rest)[i].n = rest[i].n
        BY <3>1, Voided
      <3> QED  BY <3>1, <3>2, <3>3
    <2> QED  BY <2>1, <2>2
  <1>5. current' = Head(tasks).user
    <2>1. CASE Head(tasks).kind = "user"
      BY <2>1
    <2>2. CASE Head(tasks).kind # "user"
      BY <1>1, <2>2 DEF Turns, Before
    <2> QED  BY <2>1, <2>2
  <1>6. current' \in Users
    BY <1>2, <1>5 DEF Task
  <1>7. Turns'
    BY <1>1, <1>4, <1>5, TurnsGoOn
  <1> QED  BY <1>1, <1>2, <1>4, <1>5, <1>6, <1>7

LEMMA CoreRunUser == ASSUME Core, RunUser PROVE Core'
  <1> USE DEF Core
  <1> DEFINE u == Head(tasks).user
  <1>1. tasks # <<>> /\ Head(tasks).kind = "user" /\ current' = u
        /\ (u = current => UNCHANGED <<nextId, waits>>)
        /\ (u # current => waits' = {} /\ nextId' \in 1 .. MaxWrites + 1 /\ Follows(nextId'))
        /\ (enabled => RestartNetwork(queue[u]) /\ tasks' = Void(Tail(tasks)))
        /\ (~enabled => tasks' = Tail(tasks) /\ UNCHANGED <<pipeline, stream, wire, answers>>)
    BY DEF RunUser, Runs, remote
  <1>2. UNCHANGED <<queue, account, running, enabled, callbacks, applied, last, stored, toldOk,
                    toldError, awaited, clean, written, trouble>>
    BY DEF RunUser, disk, server, told, bounds
  <1>3. /\ tasks' \in Seq(Task) /\ u \in Users /\ Turns' /\ Tail(tasks) \in Seq(Task)
    <2>1. /\ tasks # <<>>
          /\ tasks' = Tail(tasks) \/ tasks' = Void(Tail(tasks))
          /\ current' = IF Head(tasks).kind = "user" THEN Head(tasks).user ELSE current
          /\ UNCHANGED <<running, account, written>>
      <3>1. (enabled => tasks' = Void(Tail(tasks))) /\ (~enabled => tasks' = Tail(tasks))
        BY <1>1
      <3>2. tasks' = Tail(tasks) \/ tasks' = Void(Tail(tasks))
        BY <3>1, Zenon
      <3> QED  BY <1>1, <1>2, <3>2
    <2>2. tasks' \in Seq(Task) /\ current' \in Users /\ Turns'
      BY <2>1, TaskRun
    <2>3. tasks \in Seq(Task) /\ tasks # <<>>
      BY <2>1 DEF TypeOK
    <2>4. Tail(tasks) \in Seq(Task)
      BY <2>3
    <2> QED  BY <1>1, <2>2, <2>4, Zenon
  <1>4. running
    BY <1>1, Alive
  <1>5. queue[u] \in Seq(Batch) /\ Ascending(queue[u])
    BY <1>3 DEF TypeOK, Queues
  <1> HIDE DEF u
  <1>6. nextId' \in Nat \ {0} /\ waits' \subseteq waits
    BY <1>1, WritesAssumption DEF TypeOK, WritesAssumption
  <1>7. \A v \in Users : \A i \in 1 .. Len(queue[v]) : queue[v][i].id < nextId'
    <2>1. CASE u = current
      <3>1. nextId' = nextId
        BY <1>1, <2>1
      <3> QED  BY <1>4, <3>1 DEF Queues
    <2>2. CASE u # current
      <3>1. Follows(nextId')
        BY <1>1, <2>2
      <3>2. \A v \in Users : \A i \in DOMAIN queue[v] : queue[v][i].id < nextId'
        BY <3>1 DEF Follows
      <3>3. \A v \in Users : DOMAIN queue[v] = 1 .. Len(queue[v])
        BY DEF TypeOK
      <3> QED  BY <3>2, <3>3
    <2> QED  BY <2>1, <2>2
  <1>8. /\ pipeline' \in Seq(Batch) /\ wire' \in Seq(Batch) /\ answers' \in Seq(Batch)
        /\ stream' \in Stream
        /\ Begins(pipeline', queue[u]) /\ Len(pipeline') <= MaxPending
        /\ Connection' /\ Tokens'
    <2>1. CASE enabled
      <3>1. RestartNetwork(queue[u]) /\ tasks' = Void(Tail(tasks))
        BY <1>1, <2>1
      <3>2. /\ pipeline' \in Seq(Batch) /\ wire' \in Seq(Batch) /\ answers' \in Seq(Batch)
            /\ stream' \in Stream /\ stream'.state \in {"initial", "starting"}
            /\ stream'.asking => stream'.state = "starting"
            /\ Begins(pipeline', queue[u]) /\ Len(pipeline') <= MaxPending
            /\ Linked(pipeline', stream', wire', answers')
        BY <1>5, <3>1, Restarts
      <3>3. Connection'
        BY <1>2, <2>1, <3>2 DEF Connection
      <3>4. Tokens'
        BY <1>3, <3>1, <3>2, TokensVoid
      <3> QED  BY <3>2, <3>3, <3>4
    <2>2. CASE ~enabled
      <3>1. tasks' = Tail(tasks) /\ UNCHANGED <<pipeline, stream, wire, answers>>
        BY <1>1, <2>2
      <3>2. pipeline = <<>> /\ stream.state # "open"
        BY <2>2 DEF Connection, IsStarted
      <3>3. Begins(pipeline', queue[u]) /\ Len(pipeline') <= MaxPending
        BY <1>5, <3>1, <3>2 DEF Begins, Queues
      <3>4. Connection'
        BY <1>2, <3>1, <3>2 DEF Connection
      <3>5. Tokens'
        BY <1>1, <3>1, TokensGoOn
      <3> QED  BY <3>1, <3>3, <3>4, <3>5 DEF TypeOK
    <2> QED  BY <2>1, <2>2
  <1>9. TypeOK'
    BY <1>1, <1>2, <1>3, <1>6, <1>8 DEF TypeOK
  <1>10. Queues'
    BY <1>1, <1>2, <1>7, <1>8 DEF Queues
  <1> QED  BY <1>2, <1>3, <1>4, <1>8, <1>9, <1>10 DEF AtRest

\* RunToken and RunTokenFailed: only a token that is still wanted is of use.
LEMMA CoreTokenTask ==
    ASSUME Core, tasks # <<>>, Head(tasks).kind # "user", tasks' = Tail(tasks),
           stream' \in Stream,
           stream' # stream =>
              /\ Head(tasks).live
              /\ ~stream'.idle /\ ~stream'.handshake
              /\ stream'.state = "open" => stream'.user = Head(tasks).user
              /\ stream'.asking => stream'.state = "starting"
              /\ IsStarted(stream') => pipeline # <<>>,
           UNCHANGED <<disk, running, current, nextId, enabled, pipeline, wire, answers, pending,
                       server, stored, told, bounds>>
    PROVE  Core'
  <1> USE DEF Core
  <1>1. UNCHANGED <<queue, account, running, current, nextId, enabled, pipeline, wire, answers,
                    callbacks, waits, applied, last, stored, toldOk, toldError, awaited, clean,
                    written, trouble>>
    BY DEF disk, pending, server, told, bounds
  <1>2. /\ tasks' \in Seq(Task) /\ Turns' /\ current = Head(tasks).user
        /\ Head(tasks) = tasks[1] /\ 1 \in 1 .. Len(tasks)
    BY <1>1, TaskRun
  <1>3. running
    BY Alive
  <1>4. TypeOK'
    BY <1>1, <1>2 DEF TypeOK
  <1>5. Tokens' /\ Connection'
    <2>1. CASE stream' = stream
      BY <1>1, <2>1, Frame, TokensGoOn
    <2>2. CASE stream' # stream
      <3>1. Head(tasks).live /\ stream.state = "starting" /\ ~stream.handshake
        BY <1>2, <2>2 DEF Tokens, Connection, Linked
      <3>2. wire = <<>> /\ answers = <<>> /\ pipeline # <<>> /\ enabled
        BY <3>1 DEF Connection, Linked, IsStarted
      <3>3. Linked(pipeline, stream', wire, answers)
        BY <2>2, <3>2 DEF Linked
      <3>4. Connection'
        BY <1>1, <1>2, <2>2, <3>2, <3>3 DEF Connection
      <3>5. /\ tasks \in Seq(Task) /\ Len(tasks') = Len(tasks) - 1
            /\ \A i \in 1 .. Len(tasks') : tasks'[i] = tasks[i + 1] /\ i + 1 \in 1 .. Len(tasks)
        BY DEF TypeOK
      <3>6. \A j \in 1 .. Len(tasks') : ~tasks'[j].live
        BY <1>2, <3>1, <3>5 DEF Tokens
      <3>7. Tokens'
        BY <2>2, <3>6 DEF Tokens
      <3> QED  BY <3>4, <3>7
    <2> QED  BY <2>1, <2>2
  <1> QED  BY <1>1, <1>2, <1>3, <1>4, <1>5, Frame

LEMMA CoreRunToken == ASSUME Core, RunToken PROVE Core'
  <1>1. tasks # <<>> /\ Head(tasks).kind = "token" /\ Head(tasks) \in Task /\ stream \in Stream
        /\ (Head(tasks).live => pipeline # <<>>)
    <2>1. tasks \in Seq(Task) /\ stream \in Stream
      BY DEF Core, TypeOK
    <2>2. tasks # <<>> /\ Head(tasks).kind = "token"
      BY DEF RunToken, Runs
    <2>3. Head(tasks) \in Task /\ Head(tasks) = tasks[1] /\ 1 \in 1 .. Len(tasks)
      BY <2>1, <2>2
    <2>4. Head(tasks).live => pipeline # <<>>
      BY <2>3 DEF Core, Tokens, Connection, Linked, IsStarted
    <2> QED  BY <2>1, <2>2, <2>3, <2>4
  <1> DEFINE opened == [Closed("open") EXCEPT !.user = Head(tasks).user]
  <1>2. opened \in Stream /\ opened.state = "open" /\ opened.user = Head(tasks).user
        /\ ~opened.idle /\ ~opened.handshake /\ ~opened.asking
    BY <1>1 DEF Closed, Stream, Task
  <1>3. stream' = IF Head(tasks).live THEN opened ELSE stream
    BY DEF RunToken
  <1> HIDE DEF opened
  <1>4. /\ tasks' = Tail(tasks)
        /\ UNCHANGED <<disk, running, current, nextId, enabled, pipeline, wire, answers, pending,
                       server, stored, told, bounds>>
    BY DEF RunToken
  <1> QED  BY <1>1, <1>2, <1>3, <1>4, CoreTokenTask

LEMMA CoreRunTokenFailed == ASSUME Core, RunTokenFailed PROVE Core'
  <1>1. tasks # <<>> /\ Head(tasks).kind = "tokenFailed" /\ stream \in Stream
    BY DEF RunTokenFailed, Runs, Core, TypeOK
  <1> DEFINE failed == StartIfNeeded(pipeline, Closed("error"))
  <1>2. /\ failed \in Stream /\ failed.state \in {"error", "backoff"}
        /\ ~failed.idle /\ ~failed.handshake /\ ~failed.asking
        /\ IsStarted(failed) => pipeline # <<>>
    BY DEF StartIfNeeded, Start, Closed, Stream, IsStarted
  <1>3. stream' = IF Head(tasks).live THEN failed ELSE stream
    BY DEF RunTokenFailed
  <1> HIDE DEF failed
  <1>4. /\ tasks' = Tail(tasks)
        /\ UNCHANGED <<disk, running, current, nextId, enabled, pipeline, wire, answers, pending,
                       server, stored, told, bounds>>
    BY DEF RunTokenFailed
  <1> QED  BY <1>1, <1>2, <1>3, <1>4, CoreTokenTask

LEMMA CoreBackoffElapses == ASSUME Core, BackoffElapses PROVE Core'
  <1> USE DEF Core
  <1>1. UNCHANGED <<queue, account, running, tasks, current, nextId, enabled, pipeline, wire, answers,
                    callbacks, waits, applied, last, stored, toldOk, toldError, awaited, clean,
                    written, trouble>>
    BY DEF BackoffElapses, disk, client, pending, server, told, bounds
  <1>2. stream.state = "backoff" /\ stream' = Start(Closed("initial"))
    BY DEF BackoffElapses
  <1>3. /\ stream' \in Stream /\ stream'.state = "starting" /\ ~stream'.idle /\ ~stream'.handshake
    BY <1>2 DEF Start, Closed, Stream
  <1>4. enabled /\ running /\ ~stream.handshake /\ pipeline # <<>>
    BY <1>2, Alive DEF Connection, Linked, IsStarted
  <1>5. TypeOK'
    BY <1>1, <1>3 DEF TypeOK
  <1>6. Tokens'
    BY <1>1, <1>2, <1>3 DEF Tokens
  <1>7. Connection'
    BY <1>1, <1>3, <1>4 DEF Connection, Linked
  <1> QED  BY <1>1, <1>4, <1>5, <1>6, <1>7, Frame

LEMMA CoreHandshakeCompletes == ASSUME Core, HandshakeCompletes PROVE Core'
  <1> USE DEF Core
  <1>1. UNCHANGED <<queue, account, running, tasks, current, nextId, enabled, pipeline, answers,
                    callbacks, waits, applied, last, stored, toldOk, toldError, awaited, clean,
                    written, trouble>>
    BY DEF HandshakeCompletes, disk, client, pending, server, told, bounds
  <1>2. /\ stream.state = "open" /\ ~stream.handshake /\ wire' = pipeline
        /\ stream' = [stream EXCEPT !.handshake = TRUE, !.idle = FALSE]
    BY DEF HandshakeCompletes
  <1>3. /\ stream' \in Stream /\ stream'.state = "open" /\ ~stream'.idle /\ stream'.handshake
        /\ stream'.user = stream.user /\ stream'.asking = stream.asking
    BY <1>2 DEF TypeOK, Stream
  <1>4. enabled /\ running /\ answers = <<>>
    BY <1>2, Alive DEF Connection, Linked, IsStarted
  <1>5. TypeOK'
    BY <1>1, <1>2, <1>3 DEF TypeOK
  <1>6. Tokens'
    BY <1>1, <1>2, <1>3 DEF Tokens
  <1>7. Linked(pipeline', stream', wire', answers')
    <2>1. Len(pipeline) \in Nat /\ Len(answers) = 0
      BY <1>4 DEF TypeOK
    <2> QED  BY <1>1, <1>2, <1>3, <1>4, <2>1 DEF Linked
  <1>8. Connection'
    BY <1>1, <1>2, <1>3, <1>4, <1>7 DEF Connection
  <1> QED  BY <1>1, <1>4, <1>5, <1>6, <1>8, Frame

LEMMA CoreServerApplies == ASSUME Core, ServerApplies PROVE Core'
  <1> USE DEF Core
  <1> DEFINE b == Head(wire)
  <1>1. UNCHANGED <<queue, account, running, tasks, current, nextId, enabled, pipeline, stream,
                    callbacks, waits, stored, toldOk, toldError, awaited, clean,
                    written, trouble>>
    BY DEF ServerApplies, disk, client, pending, told, bounds
  <1>2. /\ wire # <<>> /\ wire' = Tail(wire) /\ answers' = Append(answers, b)
        /\ applied' = [applied EXCEPT ![b.by] = @ \cup {b.n}]
        /\ last' = [last EXCEPT ![b.by] = b.n]
    BY DEF ServerApplies
  <1>3. wire \in Seq(Batch) /\ answers \in Seq(Batch) /\ pipeline \in Seq(Batch)
    BY DEF TypeOK
  <1>4. b = wire[1] /\ b \in Batch /\ Len(wire) > 0
    BY <1>2, <1>3
  <1> HIDE DEF b
  <1>5. TypeOK'
    <2>1. b.n \in Numbers /\ b.n \in 0 .. MaxWrites
      BY <1>4, WritesAssumption DEF Batch, Numbers, WritesAssumption
    <2>2. applied' \in [Users -> SUBSET Numbers] /\ last' \in [Users -> 0 .. MaxWrites]
      BY <1>2, <2>1 DEF TypeOK
    <2>3. wire' \in Seq(Batch) /\ answers' \in Seq(Batch)
      BY <1>2, <1>3, <1>4
    <2> QED  BY <1>1, <2>2, <2>3 DEF TypeOK
  <1>6. running /\ stream.handshake
    BY <1>2, Alive
  <1>7. /\ Len(pipeline) = Len(answers) + Len(wire)
        /\ \A i \in 1 .. Len(answers) : answers[i] = pipeline[i]
        /\ \A i \in 1 .. Len(wire) : wire[i] = pipeline[Len(answers) + i]
    BY <1>6 DEF Connection, Linked
  <1>8. /\ Len(answers') = Len(answers) + 1 /\ answers'[Len(answers) + 1] = wire[1]
        /\ \A i \in 1 .. Len(answers) : answers'[i] = answers[i]
        /\ Len(wire') = Len(wire) - 1 /\ \A i \in 1 .. Len(wire') : wire'[i] = wire[i + 1]
    BY <1>2, <1>3, <1>4
  <1>9. /\ Len(pipeline) = Len(answers') + Len(wire')
        /\ \A i \in 1 .. Len(answers') : answers'[i] = pipeline[i]
        /\ \A i \in 1 .. Len(wire') : wire'[i] = pipeline[Len(answers') + i]
    <2>1. ASSUME NEW i \in 1 .. Len(answers')  PROVE answers'[i] = pipeline[i]
      <3>1. CASE i = Len(answers) + 1
        BY <1>3, <1>4, <1>7, <1>8, <3>1
      <3>2. CASE i # Len(answers) + 1
        <4>1. i \in 1 .. Len(answers)
          BY <1>3, <1>8, <3>2
        <4> QED  BY <1>7, <1>8, <4>1
      <3> QED  BY <3>1, <3>2
    <2>2. ASSUME NEW i \in 1 .. Len(wire')  PROVE wire'[i] = pipeline[Len(answers') + i]
      <3>1. i + 1 \in 1 .. Len(wire) /\ Len(answers) + (i + 1) = Len(answers') + i
        BY <1>3, <1>8
      <3> QED  BY <1>7, <1>8, <3>1
    <2> QED  BY <1>3, <1>7, <1>8, <2>1, <2>2
  <1>10. Connection'
    BY <1>1, <1>6, <1>9 DEF Connection, Linked
  <1> QED  BY <1>1, <1>5, <1>6, <1>10, Frame

LEMMA CoreWaitForPendingWrites == ASSUME Core, WaitForPendingWrites PROVE Core'
  <1> USE DEF Core
  <1> DEFINE q == queue[current]
             w == [id |-> LastId(q), upto |-> {q[i].n : i \in DOMAIN q}]
  <1>1. UNCHANGED <<queue, account, running, tasks, current, nextId, enabled, pipeline, stream, wire,
                    answers, callbacks, applied, last, stored, toldOk, toldError, awaited, clean,
                    written, trouble>>
    BY DEF WaitForPendingWrites, disk, client, remote, server, told, bounds
  <1>2. running /\ q # <<>> /\ waits' = {w}
    BY DEF WaitForPendingWrites
  <1>3. q \in Seq(Batch)
    BY DEF TypeOK
  <1> HIDE DEF q
  <1>4. LastId(q) \in Nat \ {0}
    <2>1. q[Len(q)] \in Batch
      BY <1>2, <1>3
    <2> QED  BY <1>2, <2>1 DEF LastId, Batch
  <1>5. {q[i].n : i \in DOMAIN q} \subseteq Numbers
    <2>1. \A i \in DOMAIN q : q[i] \in Batch
      BY <1>3
    <2> QED  BY <2>1 DEF Batch
  <1>6. w \in [id : Nat \ {0}, upto : SUBSET Numbers]
    BY <1>4, <1>5
  <1>7. TypeOK'
    BY <1>1, <1>2, <1>6 DEF TypeOK
  <1> QED  BY <1>1, <1>2, <1>7, Frame

\* StreamFails, IdleTimeout and ServerCloses end the stream, and with it all that was on it.
LEMMA CoreStreamEnds ==
    ASSUME Core, running, stream.state = "open",
           wire' = <<>>, answers' = <<>>, stream' \in Stream,
           ~stream'.idle, ~stream'.handshake, ~stream'.asking, stream'.state # "open",
           IsStarted(stream') => pipeline # <<>>,
           trouble' \in 0 .. MaxTrouble,
           UNCHANGED <<disk, client, pipeline, pending, server, stored, told, clean, written>>
    PROVE  Core'
  <1> USE DEF Core
  <1>1. UNCHANGED <<queue, account, running, tasks, current, nextId, enabled, pipeline,
                    callbacks, waits, applied, last, stored, toldOk, toldError, awaited, clean,
                    written>>
    BY DEF disk, client, pending, server, told
  <1>2. TypeOK'
    <2>1. <<>> \in Seq(Batch)
      OBVIOUS
    <2> QED  BY <1>1, <2>1 DEF TypeOK
  <1>3. Tokens'
    BY <1>1 DEF Tokens
  <1>4. enabled
    BY DEF Connection, IsStarted
  <1>5. Connection'
    BY <1>1, <1>4 DEF Connection, Linked
  <1> QED  BY <1>1, <1>2, <1>3, <1>5, Frame

LEMMA CoreStreamFails == ASSUME Core, StreamFails PROVE Core'
  <1> DEFINE failed == StartIfNeeded(pipeline, Closed("error"))
  <1>1. /\ failed \in Stream /\ failed.state # "open"
        /\ ~failed.idle /\ ~failed.handshake /\ ~failed.asking
        /\ IsStarted(failed) => pipeline # <<>>
    BY DEF StartIfNeeded, Start, Closed, Stream, IsStarted
  <1>2. stream.state = "open" /\ stream' = failed /\ wire' = <<>> /\ answers' = <<>>
        /\ trouble < MaxTrouble /\ trouble' = trouble + 1
        /\ UNCHANGED <<disk, client, pipeline, pending, server, stored, told, clean, written>>
    BY DEF StreamFails, Goes
  <1> HIDE DEF failed
  <1>3. running
    BY <1>2, Alive
  <1>4. trouble' \in 0 .. MaxTrouble
    BY <1>2, WritesAssumption DEF Core, TypeOK, WritesAssumption
  <1> QED  BY <1>1, <1>2, <1>3, <1>4, CoreStreamEnds

LEMMA CoreStopsAtRest == ASSUME Core, IdleTimeout \/ ServerCloses PROVE Core'
  <1>1. /\ Closed("initial") \in Stream /\ Closed("initial").state = "initial"
        /\ ~Closed("initial").idle /\ ~Closed("initial").handshake /\ ~Closed("initial").asking
        /\ ~IsStarted(Closed("initial"))
    BY DEF Closed, Stream, IsStarted
  <1>2. /\ stream.idle \/ stream.state = "open"
        /\ stream' = Closed("initial") /\ wire' = <<>> /\ answers' = <<>>
        /\ UNCHANGED <<disk, client, pipeline, pending, server, stored, told, clean, written, trouble>>
    BY DEF IdleTimeout, ServerCloses, bounds
  <1>3. running /\ stream.state = "open"
    BY <1>2, Alive DEF Core, Connection, Linked
  <1>4. trouble' \in 0 .. MaxTrouble
    BY <1>2 DEF Core, TypeOK
  <1> QED  BY <1>1, <1>2, <1>3, <1>4, CoreStreamEnds

LEMMA CoreDisableNetwork == ASSUME Core, DisableNetwork PROVE Core'
  <1> USE DEF Core
  <1>1. UNCHANGED <<queue, account, running, current, nextId, callbacks, waits, applied, last, stored,
                    toldOk, toldError, awaited, clean, written>>
    BY DEF DisableNetwork, disk, pending, server, told, Goes
  <1>2. /\ running /\ enabled' = FALSE /\ tasks' = Void(tasks)
        /\ pipeline' = <<>> /\ wire' = <<>> /\ answers' = <<>>
        /\ stream' = IF IsStarted(stream) THEN Closed("initial") ELSE stream
        /\ trouble < MaxTrouble /\ trouble' = trouble + 1
    BY DEF DisableNetwork, Goes
  <1>3. /\ stream' \in Stream /\ ~IsStarted(stream') /\ ~stream'.asking
        /\ ~stream'.idle /\ ~stream'.handshake /\ stream'.state # "open"
    BY <1>2 DEF Closed, IsStarted, Stream, TypeOK, Connection, Linked, Tokens
  <1>4. tasks \in Seq(Task) /\ tasks' \in Seq(Task)
    BY <1>2, Voided DEF TypeOK
  <1>5. trouble' \in 0 .. MaxTrouble /\ MaxPending \in Nat
    BY <1>2, WritesAssumption DEF TypeOK, WritesAssumption
  <1>6. <<>> \in Seq(Batch) /\ Len(<<>>) = 0
    OBVIOUS
  <1>7. TypeOK'
    BY <1>1, <1>2, <1>3, <1>4, <1>5, <1>6 DEF TypeOK
  <1>8. Queues'
    <2>1. Begins(<<>>, queue[current])
      BY <1>6 DEF Begins, TypeOK
    <2> QED  BY <1>1, <1>2, <1>5, <1>6, <2>1 DEF Queues
  <1>9. Turns'
    BY <1>1, <1>2, TurnsStay
  <1>10. Tokens'
    BY <1>2, <1>3, <1>4, TokensVoid
  <1>11. Connection'
    BY <1>2, <1>3 DEF Connection, Linked
  <1> QED  BY <1>1, <1>2, <1>7, <1>8, <1>9, <1>10, <1>11, Frame

LEMMA CoreEnableNetwork == ASSUME Core, EnableNetwork PROVE Core'
  <1> USE DEF Core
  <1> DEFINE q == queue[current]
  <1>1. UNCHANGED <<queue, account, running, tasks, current, nextId, answers, callbacks, waits, applied,
                    last, stored, toldOk, toldError, awaited, clean, written, trouble>>
    BY DEF EnableNetwork, disk, pending, server, told, bounds
  <1>2. running /\ enabled' = TRUE /\ Fill(pipeline, q, stream, wire)
    BY DEF EnableNetwork
  <1>3. /\ q \in Seq(Batch) /\ pipeline \in Seq(Batch) /\ wire \in Seq(Batch)
        /\ answers \in Seq(Batch) /\ stream \in Stream
        /\ Ascending(q) /\ Begins(pipeline, q) /\ Len(pipeline) <= MaxPending
        /\ Linked(pipeline, stream, wire, answers)
    BY DEF TypeOK, Queues, Connection
  <1> HIDE DEF q
  <1>4. /\ pipeline' \in Seq(Batch) /\ wire' \in Seq(Batch)
        /\ Begins(pipeline', q) /\ Len(pipeline') <= MaxPending
    BY <1>2, <1>3, FillExtends
  <1>5. stream' \in Stream
    BY <1>2, <1>3, FillStarts
  <1>6. /\ Linked(pipeline', stream', wire', answers)
        /\ stream'.state = "open" => stream.state = "open" /\ stream'.user = stream.user
    BY <1>2, <1>3, FillLinks
  <1>7. TypeOK'
    BY <1>1, <1>2, <1>4, <1>5 DEF TypeOK
  <1>8. Queues'
    BY <1>1, <1>4 DEF Queues, q
  <1>9. Tokens'
    BY <1>1, <1>2, <1>3, TokensFill
  <1>10. Connection'
    BY <1>1, <1>2, <1>6 DEF Connection
  <1> QED  BY <1>1, <1>2, <1>7, <1>8, <1>9, <1>10, Frame

LEMMA CoreConnectivityChanges == ASSUME Core, ConnectivityChanges PROVE Core'
  <1> USE DEF Core
  <1> DEFINE q == queue[current]
  <1>1. UNCHANGED <<queue, account, running, current, nextId, enabled, callbacks, waits, applied,
                    last, stored, toldOk, toldError, awaited, clean, written>>
    BY DEF ConnectivityChanges, disk, pending, server, told, Goes
  <1>2. /\ running /\ enabled /\ RestartNetwork(q) /\ tasks' = Void(tasks)
        /\ trouble < MaxTrouble /\ trouble' = trouble + 1
    BY DEF ConnectivityChanges, Goes
  <1>3. q \in Seq(Batch) /\ Ascending(q) /\ tasks \in Seq(Task) /\ tasks' \in Seq(Task)
        /\ current \in Users
    BY <1>2, Voided DEF TypeOK, Queues
  <1> HIDE DEF q
  <1>4. /\ pipeline' \in Seq(Batch) /\ wire' \in Seq(Batch) /\ answers' \in Seq(Batch)
        /\ stream' \in Stream /\ stream'.state \in {"initial", "starting"}
        /\ stream'.asking => stream'.state = "starting"
        /\ Begins(pipeline', q) /\ Len(pipeline') <= MaxPending
        /\ Linked(pipeline', stream', wire', answers')
    BY <1>2, <1>3, Restarts
  <1>5. trouble' \in 0 .. MaxTrouble
    BY <1>2, WritesAssumption DEF TypeOK, WritesAssumption
  <1>6. TypeOK'
    BY <1>1, <1>3, <1>4, <1>5 DEF TypeOK
  <1>7. Queues'
    BY <1>1, <1>4 DEF Queues, q
  <1>8. Turns'
    BY <1>1, <1>2, TurnsStay
  <1>9. Tokens'
    BY <1>2, <1>3, <1>4, TokensVoid
  <1>10. Connection'
    BY <1>1, <1>2, <1>4 DEF Connection
  <1> QED  BY <1>1, <1>2, <1>6, <1>7, <1>8, <1>9, <1>10, Frame

\* What the app may be told is a set of numbers.
LEMMA ToldNumbers ==
    ASSUME TypeOK, NEW b
    PROVE  /\ NumbersTold(b) \subseteq Numbers
           /\ UNION {w.upto : w \in {v \in waits : v.id = b.id}} \subseteq Numbers
           /\ callbacks \ CallbackOf(b) \subseteq [user : Users, id : Nat \ {0}, n : Numbers]
  <1>1. NumbersTold(b) \subseteq Numbers
    BY DEF TypeOK, NumbersTold, CallbackOf
  <1>2. \A w \in waits : w.upto \subseteq Numbers
    BY DEF TypeOK
  <1> QED  BY <1>1, <1>2 DEF TypeOK

LEMMA CoreDie ==
    ASSUME Core, Die, trouble' \in 0 .. MaxTrouble, UNCHANGED <<clean, written>>,
           toldOk' \subseteq Numbers, toldError' \subseteq Numbers, awaited' \subseteq Numbers
    PROVE  Core'
  <1> USE DEF Core
  <1>1. UNCHANGED <<queue, account, current, nextId, applied, last, stored>>
    BY DEF Die, disk, server
  <1>2. /\ running' = FALSE /\ enabled' = FALSE /\ tasks' = <<>>
        /\ pipeline' = <<>> /\ wire' = <<>> /\ answers' = <<>>
        /\ stream' = Closed("initial") /\ callbacks' = {} /\ waits' = {}
    BY DEF Die
  <1>3. /\ stream' \in Stream /\ ~IsStarted(stream') /\ ~stream'.asking
        /\ ~stream'.idle /\ ~stream'.handshake /\ stream'.state # "open"
    BY <1>2 DEF Closed, IsStarted, Stream
  <1>4. <<>> \in Seq(Batch) /\ <<>> \in Seq(Task) /\ Len(<<>>) = 0 /\ 0 <= MaxPending
    BY WritesAssumption DEF WritesAssumption
  <1>5. TypeOK'
    <2>1. running' \in BOOLEAN /\ enabled' \in BOOLEAN
      BY <1>2
    <2>2. /\ tasks' \in Seq(Task) /\ pipeline' \in Seq(Batch) /\ wire' \in Seq(Batch)
          /\ answers' \in Seq(Batch)
      BY <1>2, <1>4
    <2>3. /\ callbacks' \subseteq [user : Users, id : Nat \ {0}, n : Numbers]
          /\ waits' \subseteq [id : Nat \ {0}, upto : SUBSET Numbers]
      BY <1>2
    <2> QED  BY <1>1, <1>3, <2>1, <2>2, <2>3 DEF TypeOK
  <1>6. Queues'
    <2>1. Begins(<<>>, queue[current])
      BY <1>4 DEF Begins, TypeOK
    <2> QED  BY <1>1, <1>2, <1>4, <2>1 DEF Queues
  <1>7. Turns'
    BY <1>2, <1>4 DEF Turns
  <1>8. Tokens'
    BY <1>2, <1>3, <1>4 DEF Tokens
  <1>9. Connection' /\ AtRest'
    BY <1>2, <1>3 DEF Connection, Linked, AtRest
  <1> QED  BY <1>5, <1>6, <1>7, <1>8, <1>9

LEMMA CoreKill == ASSUME Core, Kill PROVE Core'
  <1>1. Die /\ UNCHANGED <<toldOk, toldError, awaited, clean, written>>
        /\ trouble < MaxTrouble /\ trouble' = trouble + 1
    BY DEF Kill, Goes, told
  <1>2. trouble' \in 0 .. MaxTrouble
    BY <1>1, WritesAssumption DEF Core, TypeOK, WritesAssumption
  <1>3. toldOk' \subseteq Numbers /\ toldError' \subseteq Numbers /\ awaited' \subseteq Numbers
    BY <1>1 DEF Core, TypeOK
  <1> QED  BY <1>1, <1>2, <1>3, CoreDie

LEMMA CoreDiesInHandler == ASSUME Core, DiesInHandler PROVE Core'
  <1> DEFINE b == Head(pipeline)
             hit == UNION {w.upto : w \in {v \in waits : v.id = b.id}}
  <1>1. Die /\ UNCHANGED <<toldError, clean, written>>
        /\ trouble < MaxTrouble /\ trouble' = trouble + 1
        /\ toldOk' = toldOk \cup NumbersTold(b) /\ awaited' = awaited \cup hit
    BY DEF DiesInHandler, Goes
  <1>2. trouble' \in 0 .. MaxTrouble
    BY <1>1, WritesAssumption DEF Core, TypeOK, WritesAssumption
  <1>3. NumbersTold(b) \subseteq Numbers /\ hit \subseteq Numbers
    BY ToldNumbers DEF Core
  <1> HIDE DEF b, hit
  <1>4. toldOk' \subseteq Numbers /\ toldError' \subseteq Numbers /\ awaited' \subseteq Numbers
    BY <1>1, <1>3 DEF Core, TypeOK
  <1> QED  BY <1>1, <1>2, <1>4, CoreDie

LEMMA CoreLaunch == ASSUME Core, Launch PROVE Core'
  <1> USE DEF Core
  <1> DEFINE q == queue[account]
  <1>1. UNCHANGED <<queue, account, tasks, callbacks, waits, applied, last, stored, toldOk,
                    toldError, awaited, clean, written, trouble>>
    BY DEF Launch, disk, pending, server, told, bounds
  <1>2. /\ ~running /\ running' = TRUE /\ enabled' = TRUE /\ current' = account
        /\ nextId' \in 1 .. MaxWrites + 1 /\ Follows(nextId') /\ RestartNetwork(q)
    BY DEF Launch
  <1>3. q \in Seq(Batch) /\ Ascending(q) /\ account \in Users /\ tasks = <<>>
    BY <1>2 DEF TypeOK, Queues, AtRest
  <1> HIDE DEF q
  <1>4. /\ pipeline' \in Seq(Batch) /\ wire' \in Seq(Batch) /\ answers' \in Seq(Batch)
        /\ stream' \in Stream /\ stream'.state \in {"initial", "starting"}
        /\ stream'.asking => stream'.state = "starting"
        /\ Begins(pipeline', q) /\ Len(pipeline') <= MaxPending
        /\ Linked(pipeline', stream', wire', answers')
    BY <1>2, <1>3, Restarts
  <1>5. nextId' \in Nat \ {0} /\ current' \in Users /\ running' \in BOOLEAN /\ enabled' \in BOOLEAN
    BY <1>2, <1>3, WritesAssumption DEF WritesAssumption
  <1>6. TypeOK'
    BY <1>1, <1>4, <1>5 DEF TypeOK
  <1>7. Queues'
    <2>1. \A v \in Users : \A i \in 1 .. Len(queue[v]) : queue[v][i].id < nextId'
      BY <1>2 DEF Follows, TypeOK
    <2> QED  BY <1>1, <1>2, <1>4, <2>1 DEF Queues, q
  <1>8. Turns' /\ Tokens'
    BY <1>1, <1>2, <1>3, <1>4 DEF Turns, Tokens, Before
  <1>9. Connection' /\ AtRest'
    BY <1>2, <1>4 DEF Connection, AtRest
  <1> QED  BY <1>6, <1>7, <1>8, <1>9

\* The queues after the front batch has left that of the current user.
LEMMA QueuesOnRemove ==
    ASSUME Core, running, pipeline # <<>>, Remove(Head(pipeline)), UNCHANGED <<running, current, nextId>>,
           pipeline' \in Seq(Batch), Begins(pipeline', queue'[current]), Len(pipeline') <= MaxPending
    PROVE  Queues'
  <1> USE DEF Core
  <1>1. /\ \A u \in Users \ {current} : queue'[u] = queue[u]
        /\ Len(queue'[current]) = Len(queue[current]) - 1
        /\ \A i \in 1 .. Len(queue[current]) - 1 : queue'[current][i] = queue[current][i + 1]
        /\ Ascending(queue'[current])
    BY FrontLeaves
  <1>2. ASSUME NEW i \in 1 .. Len(queue'[current])
        PROVE  queue'[current][i].by = current /\ queue'[current][i].id < nextId
    <2>0. Len(queue[current]) \in Nat
      BY DEF TypeOK
    <2>1. i + 1 \in 1 .. Len(queue[current]) /\ queue'[current][i] = queue[current][i + 1]
      BY <1>1, <2>0
    <2> QED  BY <2>1 DEF Queues, TypeOK
  <1> QED  BY <1>1, <1>2 DEF Queues, TypeOK

LEMMA CoreResultArrives == ASSUME Core, ResultArrives PROVE Core'
  <1> USE DEF Core
  <1> DEFINE b == Head(pipeline)
             p == Tail(pipeline)
             q == queue'[current]
             a == Tail(answers)
  <1>1. UNCHANGED <<account, running, tasks, current, nextId, enabled, applied, last, stored,
                    toldError, clean, written, trouble>>
    BY DEF ResultArrives, client, server, bounds
  <1>2. /\ answers # <<>> /\ answers' = a /\ Fill(p, q, stream, wire) /\ Remove(b)
        /\ toldOk' = toldOk \cup NumbersTold(b) /\ callbacks' = callbacks \ CallbackOf(b)
        /\ awaited' = awaited \cup UNION {w.upto : w \in {v \in waits : v.id = b.id}}
        /\ waits' \subseteq waits
    BY DEF ResultArrives, Trigger
  <1>3. running /\ enabled /\ stream.handshake /\ Len(pipeline) > 0
    BY <1>2, Alive
  <1>4. /\ pipeline \in Seq(Batch) /\ answers \in Seq(Batch) /\ wire \in Seq(Batch)
        /\ stream \in Stream /\ current \in Users
    BY DEF TypeOK
  <1>5. /\ p \in Seq(Batch) /\ Len(p) = Len(pipeline) - 1 /\ \A i \in 1 .. Len(p) : p[i] = pipeline[i + 1]
        /\ a \in Seq(Batch) /\ Len(a) = Len(answers) - 1 /\ \A i \in 1 .. Len(a) : a[i] = answers[i + 1]
    BY <1>2, <1>3, <1>4
  <1>6. /\ queue' \in [Users -> Seq(Batch)] /\ Begins(p, q) /\ Ascending(q)
    BY <1>2, <1>3, FrontLeaves
  <1>7. q \in Seq(Batch) /\ Len(p) <= MaxPending /\ MaxPending \in Nat
    BY <1>4, <1>5, <1>6, WritesAssumption DEF Queues, WritesAssumption
  <1>8. /\ Len(pipeline) = Len(answers) + Len(wire)
        /\ \A i \in 1 .. Len(answers) : answers[i] = pipeline[i]
        /\ \A i \in 1 .. Len(wire) : wire[i] = pipeline[Len(answers) + i]
        /\ stream.state = "open" /\ ~stream.idle
    BY <1>3 DEF Connection, Linked
  <1> HIDE DEF p, q, a
  <1>9. Linked(p, stream, wire, a)
    <2>1. ASSUME NEW i \in 1 .. Len(a)  PROVE a[i] = p[i]
      <3>1. i + 1 \in 1 .. Len(answers) /\ i \in 1 .. Len(p)
        BY <1>4, <1>5, <1>8
      <3> QED  BY <1>5, <1>8, <3>1
    <2>2. ASSUME NEW i \in 1 .. Len(wire)  PROVE wire[i] = p[Len(a) + i]
      <3>1. Len(a) + i \in 1 .. Len(p) /\ (Len(a) + i) + 1 = Len(answers) + i
        BY <1>4, <1>5, <1>8
      <3> QED  BY <1>5, <1>8, <3>1
    <2>3. Len(p) = Len(a) + Len(wire)
      BY <1>4, <1>5, <1>8
    <2> QED  BY <1>3, <1>8, <2>1, <2>2, <2>3 DEF Linked
  <1>10. /\ pipeline' \in Seq(Batch) /\ wire' \in Seq(Batch)
         /\ Begins(pipeline', q) /\ Len(pipeline') <= MaxPending
    BY <1>2, <1>4, <1>5, <1>6, <1>7, FillExtends
  <1>11. stream' \in Stream
    BY <1>2, <1>4, <1>5, FillStarts
  <1>12. /\ Linked(pipeline', stream', wire', a)
         /\ stream'.state = "open" => stream'.user = stream.user
    BY <1>2, <1>4, <1>5, <1>6, <1>7, <1>9, FillLinks
  <1>13. TypeOK'
    <2> DEFINE hit == UNION {w.upto : w \in {v \in waits : v.id = b.id}}
    <2>1. /\ NumbersTold(b) \subseteq Numbers /\ hit \subseteq Numbers
          /\ callbacks \ CallbackOf(b) \subseteq [user : Users, id : Nat \ {0}, n : Numbers]
      BY ToldNumbers
    <2>2. awaited' = awaited \cup hit
      BY <1>2
    <2> HIDE DEF hit
    <2>3. NumbersTold(b) \subseteq Numbers /\ awaited' \subseteq Numbers
          /\ callbacks' \subseteq [user : Users, id : Nat \ {0}, n : Numbers]
      BY <1>2, <2>1, <2>2 DEF TypeOK
    <2>4. toldOk' \subseteq Numbers
      BY <1>2, <2>1 DEF TypeOK
    <2> QED  BY <1>1, <1>2, <1>5, <1>6, <1>10, <1>11, <2>3, <2>4 DEF TypeOK
  <1>14. Queues'
    BY <1>1, <1>2, <1>3, <1>10, QueuesOnRemove DEF q
  <1>15. Tokens'
    BY <1>1, <1>2, <1>5, TokensFill
  <1>16. Connection'
    BY <1>1, <1>2, <1>3, <1>8, <1>12 DEF Connection
  <1> QED  BY <1>1, <1>3, <1>13, <1>14, <1>15, <1>16, Frame

LEMMA CoreRejectFront ==
    ASSUME Core, RejectFront, wire # <<>> \/ answers # <<>> PROVE Core'
  <1> USE DEF Core
  <1> DEFINE b == Head(pipeline)
             p == Tail(pipeline)
             q == queue'[current]
  <1>1. UNCHANGED <<account, running, tasks, current, nextId, enabled, applied, last, stored,
                    toldOk, clean, written, trouble>>
    BY DEF RejectFront, client, server, bounds
  <1>2. /\ answers' = <<>> /\ Fill(p, q, Closed("initial"), <<>>) /\ Remove(b)
        /\ toldError' = toldError \cup NumbersTold(b) /\ callbacks' = callbacks \ CallbackOf(b)
        /\ awaited' = awaited \cup UNION {w.upto : w \in {v \in waits : v.id = b.id}}
        /\ waits' \subseteq waits
    BY DEF RejectFront, Trigger
  <1>3. running /\ enabled /\ pipeline # <<>> /\ stream.state = "open"
    BY Alive DEF Connection, Linked
  <1>4. pipeline \in Seq(Batch) /\ current \in Users
    BY DEF TypeOK
  <1>5. p \in Seq(Batch) /\ Len(p) = Len(pipeline) - 1
    BY <1>3, <1>4
  <1>6. /\ queue' \in [Users -> Seq(Batch)] /\ Begins(p, q) /\ Ascending(q)
    BY <1>2, <1>3, FrontLeaves
  <1>7. q \in Seq(Batch) /\ Len(p) <= MaxPending
    BY <1>4, <1>5, <1>6, WritesAssumption DEF Queues, WritesAssumption
  <1> HIDE DEF p, q
  <1>8. /\ pipeline' \in Seq(Batch) /\ wire' \in Seq(Batch) /\ answers' \in Seq(Batch)
        /\ stream' \in Stream /\ stream'.state \in {"initial", "starting"}
        /\ stream'.asking => stream'.state = "starting"
        /\ Begins(pipeline', q) /\ Len(pipeline') <= MaxPending
        /\ Linked(pipeline', stream', wire', answers')
    BY <1>2, <1>5, <1>6, <1>7, FillAfresh
  <1>9. TypeOK'
    <2> DEFINE hit == UNION {w.upto : w \in {v \in waits : v.id = b.id}}
    <2>1. /\ NumbersTold(b) \subseteq Numbers /\ hit \subseteq Numbers
          /\ callbacks \ CallbackOf(b) \subseteq [user : Users, id : Nat \ {0}, n : Numbers]
      BY ToldNumbers
    <2>2. awaited' = awaited \cup hit
      BY <1>2
    <2> HIDE DEF hit
    <2>3. NumbersTold(b) \subseteq Numbers /\ awaited' \subseteq Numbers
          /\ callbacks' \subseteq [user : Users, id : Nat \ {0}, n : Numbers]
      BY <1>2, <2>1, <2>2 DEF TypeOK
    <2>4. toldError' \subseteq Numbers
      BY <1>2, <2>1 DEF TypeOK
    <2> QED  BY <1>1, <1>2, <1>6, <1>8, <2>3, <2>4 DEF TypeOK
  <1>10. Queues'
    BY <1>1, <1>2, <1>3, <1>8, QueuesOnRemove DEF q
  <1>11. Tokens'
    BY <1>1, <1>3, <1>8 DEF Tokens
  <1>12. Connection'
    BY <1>1, <1>3, <1>8 DEF Connection
  <1> QED  BY <1>1, <1>3, <1>9, <1>10, <1>11, <1>12, Frame

LEMMA CoreStep == ASSUME Core, [Next]_vars PROVE Core'
  <1>1. CASE AppWrites
    BY <1>1, CoreAppWrites
  <1>2. CASE WaitForPendingWrites
    BY <1>2, CoreWaitForPendingWrites
  <1>3. CASE \E u \in Users : AuthChanges(u)
    BY <1>3, CoreAuthChanges
  <1>4. CASE TokenAnswered
    <2>1. TokenComes("token") /\ UNCHANGED <<clean, written, trouble>>
      BY <1>4 DEF TokenAnswered, bounds
    <2> QED  BY <2>1, CoreTokenComes DEF Core, TypeOK
  <1>5. CASE TokenFails
    <2>1. TokenComes("tokenFailed") /\ UNCHANGED <<clean, written>>
          /\ trouble < MaxTrouble /\ trouble' = trouble + 1
      BY <1>5 DEF TokenFails, Goes
    <2>2. trouble' \in 0 .. MaxTrouble
      BY <2>1, WritesAssumption DEF Core, TypeOK, WritesAssumption
    <2> QED  BY <2>1, <2>2, CoreTokenComes
  <1>6. CASE RunWrite
    BY <1>6, CoreRunWrite
  <1>7. CASE RunUser
    BY <1>7, CoreRunUser
  <1>8. CASE RunToken
    BY <1>8, CoreRunToken
  <1>9. CASE RunTokenFailed
    BY <1>9, CoreRunTokenFailed
  <1>10. CASE BackoffElapses
    BY <1>10, CoreBackoffElapses
  <1>11. CASE HandshakeCompletes
    BY <1>11, CoreHandshakeCompletes
  <1>12. CASE ServerApplies
    BY <1>12, CoreServerApplies
  <1>13. CASE ResultArrives
    BY <1>13, CoreResultArrives
  <1>14. CASE RefusalArrives
    BY <1>14, CoreRejectFront DEF RefusalArrives
  <1>15. CASE AnswerUnreadable
    BY <1>15, CoreRejectFront DEF AnswerUnreadable
  <1>16. CASE StreamFails
    BY <1>16, CoreStreamFails
  <1>17. CASE IdleTimeout \/ ServerCloses
    BY <1>17, CoreStopsAtRest
  <1>18. CASE DisableNetwork
    BY <1>18, CoreDisableNetwork
  <1>19. CASE EnableNetwork
    BY <1>19, CoreEnableNetwork
  <1>20. CASE ConnectivityChanges
    BY <1>20, CoreConnectivityChanges
  <1>21. CASE Kill
    BY <1>21, CoreKill
  <1>22. CASE DiesInHandler
    BY <1>22, CoreDiesInHandler
  <1>23. CASE Launch
    BY <1>23, CoreLaunch
  <1>24. CASE UNCHANGED vars
    <2> USE <1>24 DEF vars, disk, client, remote, pending, server, told, bounds, Core
    <2>1. TypeOK'
      BY DEF TypeOK
    <2>2. AtRest'
      BY DEF AtRest
    <2> QED  BY <2>1, <2>2, Frame
  <1> QED  BY <1>1, <1>2, <1>3, <1>4, <1>5, <1>6, <1>7, <1>8, <1>9, <1>10, <1>11, <1>12, <1>13,
              <1>14, <1>15, <1>16, <1>17, <1>18, <1>19, <1>20, <1>21, <1>22, <1>23, <1>24 DEF Next

\* In every state the invariant's core holds.
LEMMA CoreAlways == Spec => []Core
  <1> QED  BY CoreStart, CoreStep, PTL DEF Spec

\* Every variable keeps to its type: the queues on disk, the pipeline, the
\* stream, the tasks and what the app waits for (remote_store.cc, stream.cc,
\* sync_engine.cc, local_store.cc).
THEOREM TypeCorrect == Spec => []TypeOK
  <1>1. Core => TypeOK
    BY DEF Core
  <1> QED  BY <1>1, CoreAlways, PTL

\* The library's own assertions hold.
THEOREM AssertionsNeverFail == Spec => []AssertionsHold
  <1>1. ASSUME Core  PROVE AssertionsHold
    <2> USE <1>1 DEF Core
    <2>1. pipeline \in Seq(Batch) /\ answers \in Seq(Batch) /\ wire \in Seq(Batch)
          /\ queue[current] \in Seq(Batch) /\ tasks \in Seq(Task)
      BY DEF TypeOK
    <2>2. Len(pipeline) <= MaxPending
      BY DEF Queues
    <2>3. Len(answers) <= Len(pipeline) /\ \A i \in DOMAIN answers : answers[i] = pipeline[i]
      <3>1. CASE stream.handshake
        BY <2>1, <3>1 DEF Connection, Linked
      <3>2. CASE ~stream.handshake
        BY <2>1, <3>2 DEF Connection, Linked
      <3> QED  BY <3>1, <3>2
    <2>4. \A i \in DOMAIN pipeline : \E k \in DOMAIN queue[current] : queue[current][k] = pipeline[i]
      BY <2>1 DEF Queues, Begins
    <2>5. stream.idle => pipeline = <<>>
      BY DEF Connection, Linked
    <2>6. \A i \in DOMAIN tasks :
            (tasks[i].kind \in {"token", "tokenFailed"} /\ tasks[i].live) => stream.state = "starting"
      BY <2>1 DEF Tokens
    <2> QED  BY <2>2, <2>3, <2>4, <2>5, <2>6 DEF AssertionsHold
  <1> QED  BY <1>1, CoreAlways, PTL

\* No user's write is kept or sent as another's.
THEOREM NeverAnothersWrite == Spec => []WrittenAsTheirUser
  <1>1. ASSUME Core  PROVE WrittenAsTheirUser
    <2> USE <1>1 DEF Core
    <2>1. \A u \in Users : \A i \in DOMAIN queue[u] : queue[u][i].by = u
      BY DEF Queues, TypeOK
    <2>2. ASSUME NEW i \in DOMAIN wire  PROVE wire[i].by = stream.user
      <3>1. wire # <<>> /\ i \in 1 .. Len(wire) /\ Len(answers) \in Nat /\ Len(wire) \in Nat
        BY DEF TypeOK
      <3>2. stream.handshake /\ Len(pipeline) = Len(answers) + Len(wire)
            /\ wire[i] = pipeline[Len(answers) + i] /\ stream.user = current
        BY <3>1 DEF Connection, Linked
      <3>3. Len(answers) + i \in 1 .. Len(pipeline)
        BY <3>1, <3>2
      <3>4. Len(pipeline) <= Len(queue[current]) /\ Len(queue[current]) \in Nat /\ current \in Users
            /\ pipeline[Len(answers) + i] = queue[current][Len(answers) + i]
        BY <3>3 DEF Queues, Begins, TypeOK
      <3>5. Len(answers) + i \in DOMAIN queue[current]
        BY <3>3, <3>4 DEF TypeOK
      <3> QED  BY <2>1, <3>2, <3>4, <3>5
    <2> QED  BY <2>1, <2>2 DEF WrittenAsTheirUser
  <1> QED  BY <1>1, CoreAlways, PTL

-----------------------------------------------------------------------------
(* Nothing is lost, and what the app is told is true                         *)

\* A step that touches neither the queues nor the server, and may only drop
\* answers, and who waits, owes what was owed.
LEMMA DebtsStay ==
    ASSUME Core, Debts,
           UNCHANGED <<queue, stored, applied, toldOk, toldError, awaited, clean>>,
           answers' = answers \/ answers' = <<>>, callbacks' \subseteq callbacks,
           waits' = {} \/ (waits' = waits /\ current' = current)
    PROVE  Debts'
  <1>1. Applied' = Applied /\ Done' = Done /\ \A u \in Users : Queued(u)' = Queued(u)
    BY DEF Applied, Done, Queued
  <1>2. NothingLost'
    BY <1>1 DEF Debts, NothingLost
  <1>3. \A i \in 1 .. Len(answers') : answers'[i].n \in Applied'
    BY <1>1 DEF Debts
  <1>4. \A c \in callbacks' : \E i \in 1 .. Len(queue'[c.user]) :
           queue'[c.user][i].id = c.id /\ queue'[c.user][i].n = c.n
    BY DEF Debts
  <1>5. \A w \in waits' : w.upto \subseteq Done' \cup Upto(w.id)'
    <2>1. CASE waits' = {}
      BY <2>1
    <2>2. CASE waits' = waits /\ current' = current
      <3>1. \A w \in waits : Upto(w.id)' = Upto(w.id)
        BY <2>2 DEF Upto
      <3> QED  BY <1>1, <2>2, <3>1 DEF Debts
    <2> QED  BY <2>1, <2>2
  <1>6. ToldTruly'
    BY <1>1 DEF Debts, ToldTruly
  <1> QED  BY <1>2, <1>3, <1>4, <1>5, <1>6 DEF Debts

\* When the front batch is done, only its writer is told of it, and who waits
\* for it waits for nothing that is not done.
LEMMA FrontIsDue ==
    ASSUME Core, Debts, pipeline # <<>>
    PROVE  /\ NumbersTold(Head(pipeline)) \subseteq {Head(pipeline).n}
           /\ \A w \in waits : w.id = Head(pipeline).id => w.upto \subseteq Done \cup {Head(pipeline).n}
           /\ current \in Users /\ Head(pipeline) = queue[current][1] /\ 1 \in 1 .. Len(queue[current])
           /\ \A i \in 1 .. Len(queue[current]) :
                 /\ queue[current][i].id = Head(pipeline).id => i = 1
                 /\ queue[current][i].id <= Head(pipeline).id => i = 1
  <1> DEFINE q == queue[current]
             b == Head(pipeline)
  <1>1. /\ current \in Users /\ q \in Seq(Batch) /\ pipeline \in Seq(Batch) /\ Len(pipeline) > 0
        /\ Ascending(q) /\ Begins(pipeline, q)
    BY DEF Core, TypeOK, Queues
  <1>2. b = q[1] /\ 1 \in 1 .. Len(q)
    BY <1>1 DEF Begins
  <1>3. \A i \in 1 .. Len(q) : q[i].id \in Nat
    <2>1. \A i \in 1 .. Len(q) : q[i] \in Batch
      BY <1>1
    <2> QED  BY <2>1 DEF Batch
  <1> HIDE DEF b, q
  <1>4. \A i \in 1 .. Len(q) : (q[i].id = b.id => i = 1) /\ (q[i].id <= b.id => i = 1)
    BY <1>1, <1>2, <1>3 DEF Ascending
  <1>5. NumbersTold(b) \subseteq {b.n}
    <2> SUFFICES ASSUME NEW c \in callbacks, c.user = current, c.id = b.id
                 PROVE  c.n = b.n
      BY DEF NumbersTold, CallbackOf
    <2>1. PICK i \in 1 .. Len(q) : q[i].id = c.id /\ q[i].n = c.n
      BY DEF Debts, q
    <2> QED  BY <1>2, <1>4, <2>1
  <1>6. \A w \in waits : w.id = b.id => w.upto \subseteq Done \cup {b.n}
    <2> SUFFICES ASSUME NEW w \in waits, w.id = b.id  PROVE w.upto \subseteq Done \cup {b.n}
      OBVIOUS
    <2>1. w.upto \subseteq Done \cup Upto(b.id)
      BY DEF Debts
    <2>2. Upto(b.id) \subseteq {b.n}
      BY <1>2, <1>4 DEF Upto, q
    <2> QED  BY <2>1, <2>2
  <1> QED  BY <1>1, <1>2, <1>4, <1>5, <1>6 DEF b, q

\* A front batch that is done may leave.
LEMMA DebtsPaid ==
    ASSUME Core, Debts, pipeline # <<>>, Head(pipeline).n \in Done,
           Remove(Head(pipeline)), Trigger(Head(pipeline)),
           callbacks' = callbacks \ CallbackOf(Head(pipeline)),
           answers' = <<>> \/ (answers # <<>> /\ answers' = Tail(answers)),
           UNCHANGED <<current, applied, stored, clean>>,
           toldOk' \subseteq Applied, clean => toldError' \subseteq Refused
    PROVE  Debts'
  <1> DEFINE q == queue[current]
             b == Head(pipeline)
  <1>1. /\ \A u \in Users \ {current} : queue'[u] = queue[u]
        /\ Len(q) > 0 /\ Len(queue'[current]) = Len(q) - 1
        /\ \A i \in 1 .. Len(q) - 1 : queue'[current][i] = q[i + 1]
        /\ b = q[1]
    BY FrontLeaves DEF Core
  <1>2. /\ \A w \in waits : w.id = b.id => w.upto \subseteq Done \cup {b.n}
        /\ \A i \in 1 .. Len(q) : (q[i].id = b.id => i = 1) /\ (q[i].id <= b.id => i = 1)
        /\ current \in Users
    BY FrontIsDue
  <1>3. b.n \in Done /\ Applied' = Applied /\ Done' = Done
    BY DEF Applied, Done
  <1>4. /\ Len(q) \in Nat /\ queue \in [Users -> Seq(Batch)] /\ queue' \in [Users -> Seq(Batch)]
        /\ answers \in Seq(Batch) /\ \A v \in Users : queue[v] \in Seq(Batch)
    <2>1. queue \in [Users -> Seq(Batch)] /\ answers \in Seq(Batch) /\ current \in Users
      BY DEF Core, TypeOK
    <2>2. queue' \in [Users -> Seq(Batch)]
      BY FrontLeaves DEF Core
    <2>3. Len(q) \in Nat /\ \A v \in Users : queue[v] \in Seq(Batch)
      BY <2>1
    <2> QED  BY <2>1, <2>2, <2>3
  <1>5. \A i \in 1 .. Len(q) : i = 1 \/ (i - 1 \in 1 .. Len(queue'[current]) /\ queue'[current][i - 1] = q[i])
    BY <1>1, <1>4
  <1>6. /\ waits' = waits \ {w \in waits : w.id = b.id}
        /\ awaited' = awaited \cup UNION {w.upto : w \in {v \in waits : v.id = b.id}}
        /\ callbacks' = callbacks \ CallbackOf(b)
    <2>1. waits' = waits \ {w \in waits : w.id = b.id}
      BY DEF Trigger
    <2>2. awaited' = awaited \cup UNION {w.upto : w \in {v \in waits : v.id = b.id}}
      BY Zenon DEF Trigger
    <2> QED  BY <2>1, <2>2
  <1>7. NothingLost'
    <2>1. \A u \in Users : Queued(u) \subseteq Queued(u)' \cup {b.n}
      <3> SUFFICES ASSUME NEW u \in Users, NEW i \in DOMAIN queue[u]
                   PROVE  queue[u][i].n \in Queued(u)' \cup {b.n}
        BY Zenon DEF Queued
      <3> i \in 1 .. Len(queue[u])
        BY <1>4
      <3>1. CASE u = current
        <4>1. CASE i = 1
          BY <1>1, <3>1, <4>1
        <4>2. CASE i # 1
          <5>1. i - 1 \in DOMAIN queue'[u] /\ queue'[u][i - 1] = queue[u][i]
            BY <1>4, <1>5, <3>1, <4>2
          <5> QED  BY <5>1 DEF Queued
        <4> QED  BY <4>1, <4>2
      <3>2. CASE u # current
        <4>1. i \in DOMAIN queue'[u] /\ queue'[u][i] = queue[u][i]
          BY <1>1, <1>4, <3>2
        <4> QED  BY <4>1 DEF Queued
      <3> QED  BY <3>1, <3>2
    <2> QED  BY <1>3, <2>1 DEF Debts, NothingLost, Done
  <1>8. \A i \in 1 .. Len(answers') : answers'[i].n \in Applied'
    <2>1. \A i \in 1 .. Len(answers) : answers[i].n \in Applied
      BY DEF Debts
    <2>2. CASE answers # <<>> /\ answers' = Tail(answers)
      <3>1. \A i \in 1 .. Len(answers') : i + 1 \in 1 .. Len(answers) /\ answers'[i] = answers[i + 1]
        BY <1>4, <2>2
      <3> QED  BY <1>3, <2>1, <3>1
    <2> QED  BY <1>3, <2>2
  <1>9. \A c \in callbacks' : \E i \in 1 .. Len(queue'[c.user]) :
           queue'[c.user][i].id = c.id /\ queue'[c.user][i].n = c.n
    <2> SUFFICES ASSUME NEW c \in callbacks, ~(c.user = current /\ c.id = b.id)
                 PROVE  \E i \in 1 .. Len(queue'[c.user]) :
                           queue'[c.user][i].id = c.id /\ queue'[c.user][i].n = c.n
      BY <1>6 DEF CallbackOf
    <2>1. PICK i \in 1 .. Len(queue[c.user]) : queue[c.user][i].id = c.id /\ queue[c.user][i].n = c.n
      BY DEF Debts
    <2>2. CASE c.user = current
      <3>1. i # 1
        BY <1>1, <2>1, <2>2
      <3> QED  BY <1>5, <2>1, <2>2, <3>1
    <2>3. CASE c.user # current
      <3>1. c.user \in Users
        BY DEF Core, TypeOK
      <3> QED  BY <1>1, <2>1, <2>3, <3>1
    <2> QED  BY <2>2, <2>3
  <1>10. \A w \in waits' : w.upto \subseteq Done' \cup Upto(w.id)'
    <2> SUFFICES ASSUME NEW w \in waits, NEW n \in w.upto, n \notin Done
                 PROVE  n \in Upto(w.id)'
      BY <1>3, <1>6
    <2>1. PICK i \in 1 .. Len(q) : q[i].id <= w.id /\ q[i].n = n
      BY DEF Debts, Upto
    <2>2. i # 1
      BY <1>1, <1>3, <2>1
    <2> QED  BY <1>5, <2>1, <2>2 DEF Upto
  <1>11. ToldTruly'
    <2>1. awaited' \subseteq Done
      BY <1>2, <1>3, <1>6 DEF Debts, ToldTruly, Done
    <2> QED  BY <1>3, <2>1 DEF ToldTruly, Done
  <1> QED  BY <1>7, <1>8, <1>9, <1>10, <1>11 DEF Debts

\* The front of the pipeline is done when its result or its refusal is there.
LEMMA FrontIsDone ==
    ASSUME Core, Debts
    PROVE  /\ answers # <<>> => Head(pipeline).n \in Applied
           /\ answers = <<>> /\ wire # <<>> /\ Head(wire).n \in Refused => Head(pipeline).n \in Refused
  <1>1. ASSUME answers # <<>>  PROVE Head(pipeline).n \in Applied
    <2>1. Head(answers) = Head(pipeline)
      BY <1>1, Alive
    <2>2. 1 \in 1 .. Len(answers) /\ Head(answers) = answers[1]
      <3>1. answers \in Seq(Batch)
        BY DEF Core, TypeOK
      <3> QED  BY <1>1, <3>1
    <2> QED  BY <2>1, <2>2 DEF Debts
  <1>2. answers = <<>> /\ wire # <<>> => Head(wire) = Head(pipeline)
    BY Alive
  <1> QED  BY <1>1, <1>2

\* SyncEngine::WriteMutations: the batch is on disk, and its writer waits.
LEMMA DebtsRunWrite == ASSUME Core, Debts, RunWrite PROVE Debts'
  <1> DEFINE t == Head(tasks)
             b == [id |-> nextId, n |-> t.n, by |-> t.user]
             q == queue[current]
             r == Append(q, b)
  <1>1. /\ queue' = [queue EXCEPT ![current] = r] /\ stored' = stored \cup {t.n}
        /\ callbacks' = callbacks
              \/ callbacks' = callbacks \cup {[user |-> current, id |-> nextId, n |-> t.n]}
    BY DEF RunWrite
  <1>2. UNCHANGED <<current, answers, waits, applied, toldOk, toldError, awaited, clean>>
    BY DEF RunWrite, server, told, bounds
  <1>3. /\ queue \in [Users -> Seq(Batch)] /\ current \in Users /\ q \in Seq(Batch) /\ Len(q) \in Nat
        /\ \A v \in Users : queue[v] \in Seq(Batch)
    BY DEF Core, TypeOK
  <1>4. b.id = nextId /\ b.n = t.n
    OBVIOUS
  <1> HIDE DEF t, b, q
  <1>5. /\ Len(r) = Len(q) + 1 /\ r[Len(q) + 1] = b /\ DOMAIN r = 1 .. Len(q) + 1
        /\ \A i \in 1 .. Len(q) : r[i] = q[i]
    BY <1>3
  <1> HIDE DEF r
  <1>6. /\ queue'[current] = r /\ \A u \in Users : u # current => queue'[u] = queue[u]
    BY <1>1, <1>3
  <1>7. /\ \A u \in Users : \A i \in 1 .. Len(queue[u]) :
              i \in 1 .. Len(queue'[u]) /\ queue'[u][i] = queue[u][i]
        /\ \A u \in Users : DOMAIN queue[u] = 1 .. Len(queue[u]) /\ DOMAIN queue'[u] = 1 .. Len(queue'[u])
    BY <1>3, <1>5, <1>6 DEF q
  <1>8. Applied' = Applied /\ Done' = Done
    BY <1>2 DEF Applied, Done
  <1>9. \A u \in Users : Queued(u) \subseteq Queued(u)'
    <2> SUFFICES ASSUME NEW u \in Users, NEW i \in DOMAIN queue[u]
                 PROVE  queue[u][i].n \in Queued(u)'
      BY Zenon DEF Queued
    <2>1. i \in DOMAIN queue'[u] /\ queue'[u][i] = queue[u][i]
      BY <1>7
    <2> QED  BY <2>1 DEF Queued
  <1>10. t.n \in Queued(current)'
    <2>1. Len(q) + 1 \in DOMAIN queue'[current] /\ queue'[current][Len(q) + 1].n = t.n
      BY <1>3, <1>4, <1>5, <1>6
    <2>2. \E i \in DOMAIN queue'[current] : t.n = queue'[current][i].n
      BY <2>1
    <2> QED  BY <1>2, <2>2, Zenon DEF Queued
  <1>11. NothingLost'
    <2>1. stored \subseteq Applied' \cup Refused \cup UNION {Queued(u)' : u \in Users}
      BY <1>8, <1>9 DEF Debts, NothingLost
    <2>2. t.n \in UNION {Queued(u)' : u \in Users}
      BY <1>3, <1>10, <1>2
    <2> QED  BY <1>1, <2>1, <2>2 DEF NothingLost
  <1>12. \A i \in 1 .. Len(answers') : answers'[i].n \in Applied'
    BY <1>2, <1>8 DEF Debts
  <1>13. \A c \in callbacks' : \E i \in 1 .. Len(queue'[c.user]) :
           queue'[c.user][i].id = c.id /\ queue'[c.user][i].n = c.n
    <2> SUFFICES ASSUME NEW c \in callbacks'
                 PROVE  \E i \in 1 .. Len(queue'[c.user]) :
                           queue'[c.user][i].id = c.id /\ queue'[c.user][i].n = c.n
      OBVIOUS
    <2>1. CASE c \in callbacks
      <3>1. c.user \in Users
        BY <2>1 DEF Core, TypeOK
      <3>2. PICK i \in 1 .. Len(queue[c.user]) : queue[c.user][i].id = c.id /\ queue[c.user][i].n = c.n
        BY <2>1 DEF Debts
      <3> QED  BY <1>7, <3>1, <3>2
    <2>2. CASE c = [user |-> current, id |-> nextId, n |-> t.n]
      <3>1. c.user = current /\ c.id = nextId /\ c.n = t.n
        BY <2>2
      <3>2. Len(q) + 1 \in 1 .. Len(queue'[current])
        BY <1>3, <1>5, <1>6
      <3> QED  BY <1>4, <1>5, <1>6, <3>1, <3>2
    <2> QED  BY <1>1, <2>1, <2>2
  <1>14. \A w \in waits' : w.upto \subseteq Done' \cup Upto(w.id)'
    <2> SUFFICES ASSUME NEW w \in waits, NEW n \in Upto(w.id)  PROVE n \in Upto(w.id)'
      BY <1>2, <1>8 DEF Debts
    <2>1. PICK i \in 1 .. Len(queue[current]) : queue[current][i].id <= w.id /\ queue[current][i].n = n
      BY DEF Upto
    <2>2. i \in 1 .. Len(queue'[current]) /\ queue'[current][i] = queue[current][i]
      BY <1>3, <1>7
    <2> QED  BY <1>2, <2>1, <2>2 DEF Upto
  <1>15. ToldTruly'
    BY <1>2, <1>8 DEF Debts, ToldTruly
  <1> QED  BY <1>11, <1>12, <1>13, <1>14, <1>15 DEF Debts

LEMMA DebtsServerApplies == ASSUME Core, Debts, ServerApplies PROVE Debts'
  <1> DEFINE b == Head(wire)
  <1>1. UNCHANGED <<queue, current, callbacks, waits, stored, toldOk, toldError, awaited, clean>>
    BY DEF ServerApplies, disk, client, pending, told, bounds
  <1>2. /\ wire # <<>> /\ answers' = Append(answers, b)
        /\ applied' = [applied EXCEPT ![b.by] = @ \cup {b.n}]
    BY DEF ServerApplies
  <1>3. wire \in Seq(Batch) /\ answers \in Seq(Batch) /\ applied \in [Users -> SUBSET Numbers]
    BY DEF Core, TypeOK
  <1>4. b.by \in Users
    <2>1. b \in Batch
      BY <1>2, <1>3
    <2> QED  BY <2>1 DEF Batch
  <1> HIDE DEF b
  <1>5. Applied \subseteq Applied' /\ b.n \in Applied'
    <2>1. /\ applied'[b.by] = applied[b.by] \cup {b.n}
          /\ \A u \in Users : applied[u] \subseteq applied'[u]
      BY <1>2, <1>3, <1>4
    <2> QED  BY <1>4, <2>1 DEF Applied
  <1>6. Done \subseteq Done' /\ \A u \in Users : Queued(u)' = Queued(u)
    BY <1>1, <1>5 DEF Done, Queued
  <1>7. NothingLost'
    BY <1>1, <1>5, <1>6 DEF Debts, NothingLost
  <1>8. \A i \in 1 .. Len(answers') : answers'[i].n \in Applied'
    <2>1. /\ Len(answers') = Len(answers) + 1 /\ answers'[Len(answers) + 1] = b
          /\ \A i \in 1 .. Len(answers) : answers'[i] = answers[i]
      BY <1>2, <1>3
    <2> QED  BY <1>3, <1>5, <2>1 DEF Debts
  <1>9. \A w \in waits' : w.upto \subseteq Done' \cup Upto(w.id)'
    <2>1. \A w \in waits : Upto(w.id)' = Upto(w.id)
      BY <1>1 DEF Upto
    <2> QED  BY <1>1, <1>6, <2>1 DEF Debts
  <1>10. ToldTruly'
    BY <1>1, <1>5 DEF Debts, ToldTruly
  <1> QED  BY <1>1, <1>7, <1>8, <1>9, <1>10 DEF Debts

LEMMA DebtsWait == ASSUME Core, Debts, WaitForPendingWrites PROVE Debts'
  <1> DEFINE q == queue[current]
  <1>1. UNCHANGED <<queue, current, answers, callbacks, applied, stored, toldOk, toldError, awaited, clean>>
    BY DEF WaitForPendingWrites, disk, client, remote, server, told, bounds
  <1>2. q # <<>> /\ waits' = {[id |-> LastId(q), upto |-> {q[i].n : i \in DOMAIN q}]}
    BY DEF WaitForPendingWrites
  <1>3. q \in Seq(Batch) /\ Ascending(q)
    BY DEF Core, TypeOK, Queues
  <1>4. \A i \in 1 .. Len(q) : q[i].id <= LastId(q)
    <2>1. \A i \in 1 .. Len(q) : q[i].id \in Nat
      <3>1. \A i \in 1 .. Len(q) : q[i] \in Batch
        BY <1>3
      <3> QED  BY <3>1 DEF Batch
    <2>2. LastId(q) = q[Len(q)].id /\ Len(q) \in 1 .. Len(q)
      BY <1>2, <1>3 DEF LastId
    <2> QED  BY <1>3, <2>1, <2>2 DEF Ascending
  <1> DEFINE w == [id |-> LastId(q), upto |-> {q[i].n : i \in DOMAIN q}]
  <1>5. ASSUME NEW v, v = w  PROVE v.upto \subseteq Upto(v.id)'
    <2>1. v.id = LastId(q) /\ v.upto = {q[i].n : i \in DOMAIN q}
      BY <1>5
    <2> HIDE DEF w
    <2>2. \A i \in DOMAIN q : i \in 1 .. Len(queue'[current']) /\ queue'[current'][i] = q[i] /\ q[i].id <= v.id
      BY <1>1, <1>3, <1>4, <2>1
    <2> QED  BY <2>1, <2>2 DEF Upto
  <1>6. Applied' = Applied /\ Done' = Done /\ \A u \in Users : Queued(u)' = Queued(u)
    BY <1>1 DEF Applied, Done, Queued
  <1>7. \A v \in waits' : v.upto \subseteq Done' \cup Upto(v.id)'
    BY <1>2, <1>5
  <1> QED  BY <1>1, <1>6, <1>7 DEF Debts, NothingLost, ToldTruly

LEMMA DebtsResultArrives == ASSUME Core, Debts, ResultArrives PROVE Debts'
  <1> DEFINE b == Head(pipeline)
  <1>1. /\ answers # <<>> /\ answers' = Tail(answers) /\ Remove(b) /\ Trigger(b)
        /\ toldOk' = toldOk \cup NumbersTold(b) /\ callbacks' = callbacks \ CallbackOf(b)
        /\ UNCHANGED <<current, applied, stored, clean, toldError>>
    BY DEF ResultArrives, client, server, bounds
  <1>2. pipeline # <<>> /\ b.n \in Applied
    BY <1>1, Alive, FrontIsDone
  <1>3. NumbersTold(b) \subseteq {b.n}
    BY <1>2, FrontIsDue
  <1>4. toldOk' \subseteq Applied /\ (clean => toldError' \subseteq Refused) /\ b.n \in Done
    BY <1>1, <1>2, <1>3 DEF Debts, ToldTruly, Done
  <1> QED  BY <1>1, <1>2, <1>4, DebtsPaid

LEMMA DebtsRejectFront ==
    ASSUME Core, Debts, RejectFront, wire # <<>> \/ answers # <<>>,
           Head(pipeline).n \in Done, clean => Head(pipeline).n \in Refused
    PROVE  Debts'
  <1> DEFINE b == Head(pipeline)
  <1>1. /\ answers' = <<>> /\ Remove(b) /\ Trigger(b)
        /\ toldError' = toldError \cup NumbersTold(b) /\ callbacks' = callbacks \ CallbackOf(b)
        /\ UNCHANGED <<current, applied, stored, clean, toldOk>>
    BY DEF RejectFront, client, server, bounds
  <1>2. pipeline # <<>>
    BY Alive
  <1>3. NumbersTold(b) \subseteq {b.n}
    BY <1>2, FrontIsDue
  <1>4. toldOk' \subseteq Applied /\ (clean => toldError' \subseteq Refused)
    BY <1>1, <1>3 DEF Debts, ToldTruly
  <1> QED  BY <1>1, <1>2, <1>4, DebtsPaid

LEMMA DebtsDiesInHandler == ASSUME Core, Debts, DiesInHandler PROVE Debts'
  <1> DEFINE b == Head(pipeline)
             hit == UNION {w.upto : w \in {v \in waits : v.id = b.id}}
  <1>1. /\ answers # <<>> /\ toldOk' = toldOk \cup NumbersTold(b)
        /\ awaited' = awaited \cup hit
        /\ callbacks' = {} /\ waits' = {} /\ answers' = <<>>
        /\ UNCHANGED <<queue, applied, stored, clean, toldError>>
    BY DEF DiesInHandler, Die, Goes, disk, server
  <1>2. pipeline # <<>> /\ b.n \in Applied
    BY <1>1, Alive, FrontIsDone
  <1>3. NumbersTold(b) \subseteq Applied /\ hit \subseteq Done
    BY <1>2, FrontIsDue DEF Done
  <1> HIDE DEF b, hit
  <1>4. Applied' = Applied /\ Done' = Done /\ \A u \in Users : Queued(u)' = Queued(u)
    BY <1>1 DEF Applied, Done, Queued
  <1> QED  BY <1>1, <1>3, <1>4 DEF Debts, NothingLost, ToldTruly, Done

LEMMA DebtsStart == ASSUME Init PROVE Debts
  BY DEF Init, Debts, NothingLost, ToldTruly

LEMMA DebtsStep == ASSUME Core, Debts, [Next]_vars PROVE Debts'
  <1> DEFINE Stays == /\ UNCHANGED <<queue, stored, applied, toldOk, toldError, awaited, clean>>
                      /\ answers' = answers \/ answers' = <<>>
                      /\ callbacks' \subseteq callbacks
                      /\ waits' = {} \/ (waits' = waits /\ current' = current)
  <1>0. Stays => Debts'
    BY DebtsStay
  <1> HIDE DEF Stays
  <1>1. CASE AppWrites \/ (\E u \in Users : AuthChanges(u)) \/ TokenAnswered \/ TokenFails
    <2>1. Stays
      BY <1>1 DEF Stays, AppWrites, AuthChanges, TokenAnswered, TokenFails, TokenComes, Goes, disk,
                  remote, pending, server, told, bounds
    <2> QED  BY <1>0, <2>1
  <1>2. CASE RunUser
    <2>1. Stays
      BY <1>2 DEF Stays, RunUser, RestartNetwork, disk, remote, server, told, bounds
    <2> QED  BY <1>0, <2>1
  <1>3. CASE RunToken \/ RunTokenFailed \/ BackoffElapses \/ HandshakeCompletes
    <2>1. Stays
      BY <1>3 DEF Stays, RunToken, RunTokenFailed, BackoffElapses, HandshakeCompletes, disk, client,
                  pending, server, told, bounds
    <2> QED  BY <1>0, <2>1
  <1>4. CASE StreamFails \/ IdleTimeout \/ ServerCloses \/ DisableNetwork \/ EnableNetwork
             \/ ConnectivityChanges
    <2>1. Stays
      BY <1>4 DEF Stays, StreamFails, IdleTimeout, ServerCloses, DisableNetwork, EnableNetwork, ConnectivityChanges,
                  RestartNetwork, Goes, disk, client, pending, server, told, bounds
    <2> QED  BY <1>0, <2>1
  <1>5. CASE Kill
    <2>1. Stays
      BY <1>5 DEF Stays, Kill, Die, Goes, disk, server, told
    <2> QED  BY <1>0, <2>1
  <1>6. CASE Launch
    <2>1. waits = {}
      BY <1>6 DEF Launch, Core, AtRest
    <2>2. Stays
      BY <1>6, <2>1 DEF Stays, Launch, RestartNetwork, disk, pending, server, told, bounds
    <2> QED  BY <1>0, <2>2
  <1>7. CASE UNCHANGED vars
    <2>1. Stays
      BY <1>7 DEF Stays, vars, disk, client, remote, pending, server, told, bounds
    <2> QED  BY <1>0, <2>1
  <1>8. CASE RefusalArrives
    <2>1. RejectFront /\ wire # <<>> /\ Head(wire).n \in Refused /\ (clean => answers = <<>>)
      BY <1>8 DEF RefusalArrives
    <2>2. Head(pipeline).n \in Done /\ (clean => Head(pipeline).n \in Refused)
      BY <2>1, FrontIsDone DEF Done
    <2> QED  BY <2>1, <2>2, DebtsRejectFront
  <1>9. CASE AnswerUnreadable
    <2>1. RejectFront /\ answers # <<>> /\ ~clean
      BY <1>9 DEF AnswerUnreadable
    <2>2. Head(pipeline).n \in Done
      BY <2>1, FrontIsDone DEF Done
    <2> QED  BY <2>1, <2>2, DebtsRejectFront
  <1>10. CASE RunWrite
    BY <1>10, DebtsRunWrite
  <1>11. CASE ServerApplies
    BY <1>11, DebtsServerApplies
  <1>12. CASE WaitForPendingWrites
    BY <1>12, DebtsWait
  <1>13. CASE ResultArrives
    BY <1>13, DebtsResultArrives
  <1>14. CASE DiesInHandler
    BY <1>14, DebtsDiesInHandler
  <1> QED  BY <1>1, <1>2, <1>3, <1>4, <1>5, <1>6, <1>7, <1>8, <1>9, <1>10, <1>11, <1>12, <1>13,
              <1>14 DEF Next

LEMMA DebtsAlways == Spec => []Debts
  BY DebtsStart, DebtsStep, CoreAlways, PTL DEF Spec

\* Whatever breaks, and whenever the process ends, a write on disk is applied,
\* refused for good, or still queued.
THEOREM NothingIsLost == Spec => []NothingLost
  <1>1. Debts => NothingLost
    BY DEF Debts
  <1> QED  BY <1>1, DebtsAlways, PTL

\* An app that is told of a success, or that has waited for its writes, has
\* them settled.
THEOREM AlwaysToldTruly == Spec => []ToldTruly
  <1>1. Debts => ToldTruly
    BY DEF Debts
  <1> QED  BY <1>1, DebtsAlways, PTL

-----------------------------------------------------------------------------
(* Writes keep their order                                                   *)

\* A step that leaves the writes among the tasks in their order, and adds no
\* number to a queue or to what is applied.
Keeps(k) == \A j \in 1 .. Len(tasks') : tasks'[j].kind = "write" =>
               /\ j + k \in 1 .. Len(tasks)
               /\ tasks[j + k].kind = "write" /\ tasks[j + k].n = tasks'[j].n

LEMMA OrderKept ==
    ASSUME Order, NEW k \in Nat, Keeps(k), written' = written,
           \A u \in Users : Queued(u)' \cup applied'[u] \subseteq Queued(u) \cup applied[u],
           \A u \in Users : \A i, j \in 1 .. Len(queue'[u]) : i < j => queue'[u][i].n < queue'[u][j].n
    PROVE  Order'
  <1>1. ASSUME NEW i \in 1 .. Len(tasks'), NEW j \in 1 .. Len(tasks'), i < j,
               tasks'[i].kind = "write", tasks'[j].kind = "write"
        PROVE  tasks'[i].n < tasks'[j].n
    <2>1. i + k < j + k
      BY <1>1
    <2> QED  BY <1>1, <2>1 DEF Keeps, Order
  <1>2. ASSUME NEW u \in Users, NEW x \in Queued(u)' \cup applied'[u]
        PROVE  /\ x <= written'
               /\ \A j \in 1 .. Len(tasks') : tasks'[j].kind = "write" => x < tasks'[j].n
    <2>1. x \in Queued(u) \cup applied[u]
      OBVIOUS
    <2> QED  BY <2>1 DEF Keeps, Order
  <1> QED  BY <1>1, <1>2 DEF Order

\* The ways in which the list of tasks changes, when no write is put there.
LEMMA TasksKept ==
    ASSUME Core,
           \/ tasks' = tasks \/ tasks' = <<>> \/ tasks' = Void(tasks)
           \/ tasks # <<>> /\ (tasks' = Tail(tasks) \/ tasks' = Void(Tail(tasks)))
           \/ \E t \in Task : t.kind # "write" /\ tasks' = Append(tasks, t)
    PROVE  \E k \in Nat : Keeps(k)
  <1>1. tasks \in Seq(Task) /\ Len(tasks) \in Nat
    BY DEF Core, TypeOK
  <1>2. \A j \in 1 .. Len(tasks) : j + 0 = j
    OBVIOUS
  <1>3. CASE tasks' = tasks
    BY <1>1, <1>2, <1>3 DEF Keeps
  <1>4. CASE tasks' = <<>>
    BY <1>4 DEF Keeps
  <1>5. CASE tasks' = Void(tasks)
    <2>1. Len(tasks') = Len(tasks) /\ \A j \in 1 .. Len(tasks) :
             tasks'[j].kind = tasks[j].kind /\ tasks'[j].n = tasks[j].n
      BY <1>1, <1>5, Voided
    <2> QED  BY <1>1, <1>2, <2>1 DEF Keeps
  <1>6. CASE tasks # <<>> /\ tasks' = Tail(tasks)
    <2>1. \A j \in 1 .. Len(tasks') : j + 1 \in 1 .. Len(tasks) /\ tasks'[j] = tasks[j + 1]
      BY <1>1, <1>6
    <2>2. Keeps(1)
      BY <2>1 DEF Keeps
    <2> QED  BY <2>2
  <1>7. CASE tasks # <<>> /\ tasks' = Void(Tail(tasks))
    <2> DEFINE rest == Tail(tasks)
    <2>1. rest \in Seq(Task) /\ \A j \in 1 .. Len(rest) : j + 1 \in 1 .. Len(tasks) /\ rest[j] = tasks[j + 1]
      BY <1>1, <1>7
    <2>2. tasks' = Void(rest)
      BY <1>7
    <2> HIDE DEF rest
    <2>3. Len(tasks') = Len(rest) /\ \A j \in 1 .. Len(rest) :
             tasks'[j].kind = rest[j].kind /\ tasks'[j].n = rest[j].n
      BY <2>1, <2>2, Voided
    <2>4. Keeps(1)
      BY <2>1, <2>3 DEF Keeps
    <2> QED  BY <2>4
  <1>8. CASE \E t \in Task : t.kind # "write" /\ tasks' = Append(tasks, t)
    <2>1. PICK t \in Task : t.kind # "write" /\ tasks' = Append(tasks, t)
      BY <1>8
    <2>2. /\ Len(tasks') = Len(tasks) + 1 /\ tasks'[Len(tasks) + 1] = t
          /\ \A j \in 1 .. Len(tasks) : tasks'[j] = tasks[j]
      BY <1>1, <2>1
    <2>3. \A j \in 1 .. Len(tasks') : j \in 1 .. Len(tasks) \/ j = Len(tasks) + 1
      BY <1>1, <2>2
    <2>4. Keeps(0)
      <3> SUFFICES ASSUME NEW j \in 1 .. Len(tasks'), tasks'[j].kind = "write"
                   PROVE  j \in 1 .. Len(tasks) /\ tasks[j].kind = "write" /\ tasks[j].n = tasks'[j].n
        BY <1>2 DEF Keeps
      <3>1. j # Len(tasks) + 1
        BY <2>1, <2>2
      <3> QED  BY <2>2, <2>3, <3>1
    <2> QED  BY <2>4
  <1> QED  BY <1>3, <1>4, <1>5, <1>6, <1>7, <1>8

\* The numbers of a queue, seen from its positions.
LEMMA QueuedAt ==
    ASSUME Core, NEW u \in Users
    PROVE  /\ \A i \in 1 .. Len(queue[u]) : queue[u][i].n \in Queued(u)
           /\ \A x \in Queued(u) : \E i \in 1 .. Len(queue[u]) : x = queue[u][i].n
           /\ Queued(u) \subseteq Numbers
  <1>1. queue[u] \in Seq(Batch)
    BY DEF Core, TypeOK
  <1>2. \A i \in 1 .. Len(queue[u]) : queue[u][i] \in Batch
    BY <1>1
  <1> QED  BY <1>1, <1>2 DEF Queued, Batch

\* The first request on the wire is of the current user's queue, and those
\* before it have been answered.
LEMMA HeadOfWire ==
    ASSUME Core, wire # <<>>
    PROVE  /\ Head(wire).by = current /\ current \in Users
           /\ Len(answers) + 1 \in 1 .. Len(queue[current])
           /\ Head(wire) = queue[current][Len(answers) + 1]
           /\ \A i \in 1 .. Len(answers) : answers[i] = queue[current][i]
  <1>1. /\ wire \in Seq(Batch) /\ answers \in Seq(Batch) /\ pipeline \in Seq(Batch)
        /\ current \in Users /\ queue[current] \in Seq(Batch)
    BY DEF Core, TypeOK
  <1>2. stream.handshake
    BY Alive
  <1>3. /\ Len(pipeline) = Len(answers) + Len(wire)
        /\ \A i \in 1 .. Len(answers) : answers[i] = pipeline[i]
        /\ \A i \in 1 .. Len(wire) : wire[i] = pipeline[Len(answers) + i]
        /\ Len(pipeline) <= Len(queue[current])
        /\ \A i \in 1 .. Len(pipeline) : pipeline[i] = queue[current][i]
    BY <1>2 DEF Core, Connection, Linked, Queues, Begins
  <1>4. Head(wire) = wire[1] /\ 1 \in 1 .. Len(wire) /\ Len(answers) + 1 \in 1 .. Len(pipeline)
    BY <1>1, <1>3
  <1>5. Len(answers) + 1 \in 1 .. Len(queue[current])
    BY <1>1, <1>3, <1>4
  <1>6. Head(wire) = queue[current][Len(answers) + 1]
    BY <1>3, <1>4
  <1>7. Head(wire).by = current
    BY <1>1, <1>5, <1>6 DEF Core, Queues
  <1>8. \A i \in 1 .. Len(answers) : i \in 1 .. Len(pipeline)
    BY <1>1, <1>3
  <1> QED  BY <1>1, <1>3, <1>5, <1>6, <1>7, <1>8

LEMMA OrderAppWrites == ASSUME Core, Order, AppWrites PROVE Order'
  <1> DEFINE t == [kind |-> "write", user |-> account, n |-> written + 1, live |-> FALSE]
  <1>1. tasks' = Append(tasks, t) /\ written' = written + 1 /\ UNCHANGED <<queue, applied>>
    BY DEF AppWrites, Enqueue, disk, server
  <1>2. t.n = written + 1
    OBVIOUS
  <1> HIDE DEF t
  <1>3. tasks \in Seq(Task) /\ Len(tasks) \in Nat /\ written \in Nat
    BY WritesAssumption DEF Core, TypeOK, WritesAssumption
  <1>4. /\ Len(tasks') = Len(tasks) + 1 /\ tasks'[Len(tasks) + 1] = t
        /\ \A j \in 1 .. Len(tasks) : tasks'[j] = tasks[j]
        /\ \A j \in 1 .. Len(tasks') : j \in 1 .. Len(tasks) \/ j = Len(tasks) + 1
    BY <1>1, <1>3
  <1>5. ASSUME NEW i \in 1 .. Len(tasks'), NEW j \in 1 .. Len(tasks'), i < j,
               tasks'[i].kind = "write", tasks'[j].kind = "write"
        PROVE  tasks'[i].n < tasks'[j].n
    <2>1. i \in 1 .. Len(tasks) /\ tasks[i].kind = "write"
      BY <1>3, <1>4, <1>5
    <2>2. CASE j \in 1 .. Len(tasks)
      BY <1>4, <1>5, <2>1, <2>2 DEF Order
    <2>3. CASE j = Len(tasks) + 1
      <3>1. tasks[i].n \in 1 .. written
        BY <2>1 DEF Core, Turns
      <3> QED  BY <1>2, <1>3, <1>4, <2>1, <2>3, <3>1
    <2> QED  BY <1>4, <2>2, <2>3
  <1>6. \A u \in Users : Queued(u)' = Queued(u) /\ Queued(u) \subseteq Numbers /\ applied[u] \subseteq Numbers
    <2>1. \A u \in Users : Queued(u)' = Queued(u)
      BY <1>1 DEF Queued
    <2>2. \A u \in Users : Queued(u) \subseteq Numbers
      BY QueuedAt
    <2>3. \A u \in Users : applied[u] \subseteq Numbers
      BY DEF Core, TypeOK
    <2> QED  BY <2>1, <2>2, <2>3
  <1>7. ASSUME NEW u \in Users, NEW x \in Queued(u) \cup applied[u]
        PROVE  /\ x <= written'
               /\ \A j \in 1 .. Len(tasks') : tasks'[j].kind = "write" => x < tasks'[j].n
    <2>1. x \in Nat /\ x <= written
      BY <1>6 DEF Numbers, Order
    <2> QED  BY <1>1, <1>2, <1>3, <1>4, <2>1 DEF Order
  <1> QED  BY <1>1, <1>5, <1>6, <1>7 DEF Order

\* The number of the batch that is written to disk is above all of its user.
LEMMA OrderRunWrite ==
    ASSUME Core, Order, RunWrite
    PROVE  /\ Order'
           /\ Queued(current)' = Queued(current) \cup {Head(tasks).n}
           /\ \A u \in Users : u # current => Queued(u)' = Queued(u)
           /\ \A x \in Queued(current) \cup applied[current] : x < Head(tasks).n
           /\ Head(tasks).n \in Numbers /\ current \in Users
  <1> DEFINE t == Head(tasks)
             b == [id |-> nextId, n |-> t.n, by |-> t.user]
             q == queue[current]
             r == Append(q, b)
  <1>1. /\ queue' = [queue EXCEPT ![current] = r] /\ tasks # <<>> /\ tasks' = Tail(tasks)
        /\ t.kind = "write" /\ UNCHANGED <<current, applied, written>>
    BY DEF RunWrite, Runs, server, bounds
  <1>2. /\ queue \in [Users -> Seq(Batch)] /\ current \in Users /\ q \in Seq(Batch) /\ Len(q) \in Nat
        /\ tasks \in Seq(Task) /\ written \in Nat /\ written <= MaxWrites
    BY WritesAssumption DEF Core, TypeOK, WritesAssumption
  <1>3. b.n = t.n
    OBVIOUS
  <1>4. t = tasks[1] /\ 1 \in 1 .. Len(tasks)
    BY <1>1, <1>2
  <1> HIDE DEF t, b
  <1>5. /\ Len(r) = Len(q) + 1 /\ r[Len(q) + 1] = b /\ DOMAIN r = 1 .. Len(q) + 1
        /\ \A i \in 1 .. Len(q) : r[i] = q[i]
    BY <1>2
  <1> HIDE DEF r
  <1>6. queue'[current] = r /\ \A u \in Users : u # current => queue'[u] = queue[u]
    BY <1>1, <1>2
  <1>7. t.n \in 1 .. written /\ t.n \in Numbers
    <2>1. t.n \in 1 .. written
      BY <1>1, <1>4 DEF Core, Turns
    <2> QED  BY <1>2, <2>1, WritesAssumption DEF Numbers, WritesAssumption
  <1>8. \A x \in Queued(current) \cup applied[current] : x < t.n
    BY <1>1, <1>2, <1>4 DEF Order
  <1>9. \A u \in Users : u # current => Queued(u)' = Queued(u)
    BY <1>6 DEF Queued
  <1>10. Queued(current)' = Queued(current) \cup {t.n}
    <2>1. Queued(current)' = {r[i].n : i \in 1 .. Len(q) + 1}
      BY <1>1, <1>5, <1>6 DEF Queued
    <2>2. Queued(current) = {q[i].n : i \in 1 .. Len(q)}
      BY <1>2 DEF Queued
    <2>3. \A i \in 1 .. Len(q) + 1 : i \in 1 .. Len(q) \/ i = Len(q) + 1
      BY <1>2
    <2>4. Len(q) + 1 \in 1 .. Len(q) + 1 /\ \A i \in 1 .. Len(q) : i \in 1 .. Len(q) + 1
      BY <1>2
    <2> QED  BY <1>3, <1>5, <2>1, <2>2, <2>3, <2>4
  <1>11. \A i \in 1 .. Len(tasks') : i + 1 \in 1 .. Len(tasks) /\ i + 1 > 1 /\ tasks'[i] = tasks[i + 1]
    BY <1>1, <1>2
  <1>12. \A i, j \in 1 .. Len(tasks') :
            i < j /\ tasks'[i].kind = "write" /\ tasks'[j].kind = "write" => tasks'[i].n < tasks'[j].n
    BY <1>11 DEF Order
  <1>13. \A u \in Users : \A i, j \in 1 .. Len(queue'[u]) : i < j => queue'[u][i].n < queue'[u][j].n
    <2> SUFFICES ASSUME NEW i \in 1 .. Len(r), NEW j \in 1 .. Len(r), i < j
                 PROVE  r[i].n < r[j].n
      BY <1>6 DEF Order
    <2>1. i \in 1 .. Len(q)
      BY <1>2, <1>5
    <2>2. CASE j = Len(q) + 1
      <3>1. q[i].n \in Queued(current)
        BY <1>2, <2>1, QueuedAt DEF q
      <3> QED  BY <1>3, <1>5, <1>8, <2>1, <2>2, <3>1
    <2>3. CASE j # Len(q) + 1
      <3>1. j \in 1 .. Len(q)
        BY <1>2, <1>5, <2>3
      <3> QED  BY <1>2, <1>5, <2>1, <3>1 DEF Order, q
    <2> QED  BY <2>2, <2>3
  <1>14. ASSUME NEW u \in Users, NEW x \in Queued(u)' \cup applied'[u]
         PROVE  /\ x <= written'
                /\ \A j \in 1 .. Len(tasks') : tasks'[j].kind = "write" => x < tasks'[j].n
    <2>1. CASE x \in Queued(u) \cup applied[u]
      BY <1>1, <1>11, <2>1 DEF Order
    <2>2. CASE u = current /\ x = t.n
      BY <1>1, <1>2, <1>4, <1>7, <1>11, <2>2 DEF Order
    <2> QED  BY <1>1, <1>9, <1>10, <2>1, <2>2
  <1>15. Order'
    BY <1>12, <1>13, <1>14 DEF Order
  <1> QED  BY <1>2, <1>7, <1>8, <1>9, <1>10, <1>15 DEF t

\* The front batch has the least number of its queue, and leaves the others.
LEMMA OrderRemove ==
    ASSUME Core, Order, pipeline # <<>>, Remove(Head(pipeline)), UNCHANGED <<current, tasks, applied, written>>
    PROVE  /\ Order'
           /\ Queued(current)' = Queued(current) \ {Head(pipeline).n}
           /\ Head(pipeline).n \in Queued(current) /\ current \in Users
           /\ \A x \in Queued(current) : Head(pipeline).n <= x
           /\ \A u \in Users : u # current => Queued(u)' = Queued(u)
  <1> DEFINE q == queue[current]
             r == queue'[current]
             b == Head(pipeline)
  <1>1. /\ queue' \in [Users -> Seq(Batch)] /\ \A u \in Users \ {current} : queue'[u] = queue[u]
        /\ Len(q) > 0 /\ Len(r) = Len(q) - 1
        /\ \A i \in 1 .. Len(q) - 1 : r[i] = q[i + 1]
        /\ b = q[1]
    BY FrontLeaves DEF Core
  <1>2. current \in Users /\ q \in Seq(Batch) /\ Len(q) \in Nat
    BY DEF Core, TypeOK
  <1>3. r \in Seq(Batch)
    BY <1>1, <1>2
  <1>4. \A i \in 1 .. Len(q) : q[i].n \in Nat
    <2>1. \A i \in 1 .. Len(q) : q[i].n \in Queued(current)
      BY <1>2, QueuedAt
    <2>2. Queued(current) \subseteq Numbers
      BY <1>2, QueuedAt
    <2> QED  BY <2>1, <2>2 DEF Numbers
  <1>5. \A i, j \in 1 .. Len(q) : i < j => q[i].n < q[j].n
    BY <1>2 DEF Order
  <1>6. Queued(current)' = {r[i].n : i \in 1 .. Len(r)} /\ Queued(current) = {q[i].n : i \in 1 .. Len(q)}
    BY <1>2, <1>3 DEF Queued
  <1> HIDE DEF q, r, b
  <1>7. \A i \in 1 .. Len(q) : i = 1 \/ (i - 1 \in 1 .. Len(r) /\ r[i - 1] = q[i] /\ b.n < q[i].n)
    <2> SUFFICES ASSUME NEW i \in 1 .. Len(q), i # 1
                 PROVE  i - 1 \in 1 .. Len(r) /\ r[i - 1] = q[i] /\ b.n < q[i].n
      OBVIOUS
    <2>1. i - 1 \in 1 .. Len(q) - 1 /\ (i - 1) + 1 = i /\ 1 \in 1 .. Len(q) /\ 1 < i
      BY <1>2
    <2> QED  BY <1>1, <1>5, <2>1
  <1>8. \A i \in 1 .. Len(r) : i + 1 \in 1 .. Len(q) /\ i + 1 # 1 /\ r[i] = q[i + 1]
    BY <1>1, <1>2
  <1>9. 1 \in 1 .. Len(q) /\ b.n \in Nat
    BY <1>1, <1>2, <1>4
  <1>10. Queued(current)' = Queued(current) \ {b.n}
    <2>1. ASSUME NEW x \in Queued(current)'  PROVE x \in Queued(current) \ {b.n}
      <3>1. PICK i \in 1 .. Len(r) : x = r[i].n
        BY <1>6
      <3> QED  BY <1>4, <1>6, <1>7, <1>8, <1>9, <3>1
    <2>2. ASSUME NEW x \in Queued(current), x # b.n  PROVE x \in Queued(current)'
      <3>1. PICK i \in 1 .. Len(q) : x = q[i].n
        BY <1>6
      <3> QED  BY <1>1, <1>6, <1>7, <2>2, <3>1
    <2> QED  BY <2>1, <2>2
  <1>11. b.n \in Queued(current) /\ \A x \in Queued(current) : b.n <= x
    BY <1>1, <1>4, <1>6, <1>7, <1>9
  <1>12. \A u \in Users : u # current => Queued(u)' = Queued(u)
    BY <1>1 DEF Queued
  <1>13. \A u \in Users : \A i, j \in 1 .. Len(queue'[u]) : i < j => queue'[u][i].n < queue'[u][j].n
    <2>1. \A i, j \in 1 .. Len(r) : i < j => r[i].n < r[j].n
      BY <1>5, <1>8
    <2>2. \A u \in Users : u # current =>
             \A i, j \in 1 .. Len(queue'[u]) : i < j => queue'[u][i].n < queue'[u][j].n
      BY <1>1 DEF Order
    <2> QED  BY <2>1, <2>2 DEF r
  <1>14. \A u \in Users : Queued(u)' \cup applied'[u] \subseteq Queued(u) \cup applied[u]
    BY <1>10, <1>12
  <1>15. Order'
    <2>1. PICK k \in Nat : Keeps(k)
      BY TasksKept
    <2> QED  BY <1>13, <1>14, <2>1, OrderKept
  <1> QED  BY <1>2, <1>10, <1>11, <1>12, <1>15 DEF b

LEMMA OrderServerApplies == ASSUME Core, Order, ServerApplies PROVE Order'
  <1> DEFINE b == Head(wire)
  <1>1. /\ wire # <<>> /\ applied' = [applied EXCEPT ![b.by] = @ \cup {b.n}]
        /\ UNCHANGED <<queue, tasks, written>>
    BY DEF ServerApplies, disk, client, bounds
  <1>2. b.by = current /\ current \in Users /\ b.n \in Queued(current)
    BY <1>1, HeadOfWire, QueuedAt
  <1>3. applied \in [Users -> SUBSET Numbers]
    BY DEF Core, TypeOK
  <1> HIDE DEF b
  <1>4. \A u \in Users : Queued(u)' \cup applied'[u] \subseteq Queued(u) \cup applied[u]
    <2>1. \A u \in Users : Queued(u)' = Queued(u)
      BY <1>1 DEF Queued
    <2> QED  BY <1>1, <1>2, <1>3, <2>1
  <1>5. PICK k \in Nat : Keeps(k)
    BY <1>1, TasksKept
  <1>6. \A u \in Users : \A i, j \in 1 .. Len(queue'[u]) : i < j => queue'[u][i].n < queue'[u][j].n
    BY <1>1 DEF Order
  <1> QED  BY <1>1, <1>4, <1>5, <1>6, OrderKept

LEMMA OrderStart == ASSUME Init PROVE Order
  BY DEF Init, Order, Queued

\* A step that touches neither the queues nor the server, and puts no write.
LEMMA OrderStays ==
    ASSUME Core, Order, UNCHANGED <<queue, applied, written>>,
           \/ tasks' = tasks \/ tasks' = <<>> \/ tasks' = Void(tasks)
           \/ tasks # <<>> /\ (tasks' = Tail(tasks) \/ tasks' = Void(Tail(tasks)))
           \/ \E t \in Task : t.kind # "write" /\ tasks' = Append(tasks, t)
    PROVE  Order'
  <1>1. PICK k \in Nat : Keeps(k)
    BY TasksKept
  <1>2. \A u \in Users : Queued(u)' \cup applied'[u] \subseteq Queued(u) \cup applied[u]
    BY DEF Queued
  <1>3. \A u \in Users : \A i, j \in 1 .. Len(queue'[u]) : i < j => queue'[u][i].n < queue'[u][j].n
    BY DEF Order
  <1> QED  BY <1>1, <1>2, <1>3, OrderKept

LEMMA OrderStep == ASSUME Core, Order, [Next]_vars PROVE Order'
  <1>1. CASE AppWrites
    BY <1>1, OrderAppWrites
  <1>2. CASE RunWrite
    BY <1>2, OrderRunWrite
  <1>3. CASE ServerApplies
    BY <1>3, OrderServerApplies
  <1>4. CASE ResultArrives
    <2>1. pipeline # <<>> /\ Remove(Head(pipeline)) /\ UNCHANGED <<current, tasks, applied, written>>
      BY <1>4, Alive DEF ResultArrives, client, server, bounds
    <2> QED  BY <2>1, OrderRemove
  <1>5. CASE RefusalArrives \/ AnswerUnreadable
    <2>1. pipeline # <<>> /\ Remove(Head(pipeline)) /\ UNCHANGED <<current, tasks, applied, written>>
      BY <1>5, Alive DEF RefusalArrives, AnswerUnreadable, RejectFront, client, server, bounds
    <2> QED  BY <2>1, OrderRemove
  <1>6. CASE \E u \in Users : AuthChanges(u)
    <2>1. PICK u \in Users : AuthChanges(u)
      BY <1>6
    <2> DEFINE t == [kind |-> "user", user |-> u, n |-> 0, live |-> FALSE]
    <2>2. t \in Task /\ t.kind # "write"
      BY WritesAssumption DEF Task, WritesAssumption
    <2>3. tasks' = Append(tasks, t) /\ UNCHANGED <<queue, applied, written>>
      BY <2>1 DEF AuthChanges, Enqueue, Goes, server
    <2> HIDE DEF t
    <2> QED  BY <2>2, <2>3, OrderStays
  <1>7. CASE TokenAnswered \/ TokenFails
    <2>1. PICK kind \in {"token", "tokenFailed"} : TokenComes(kind) /\ written' = written
      BY <1>7 DEF TokenAnswered, TokenFails, bounds, Goes
    <2> DEFINE t == [kind |-> kind, user |-> account, n |-> 0, live |-> TRUE]
    <2>2. t \in Task /\ t.kind # "write"
      BY WritesAssumption DEF Task, WritesAssumption, Core, TypeOK
    <2>3. tasks' = Append(tasks, t) /\ UNCHANGED <<queue, applied, written>>
      BY <2>1 DEF TokenComes, Enqueue, server, disk
    <2> HIDE DEF t
    <2> QED  BY <2>2, <2>3, OrderStays
  <1>8. CASE RunUser
    <2>1. /\ tasks # <<>> /\ (tasks' = Tail(tasks) \/ tasks' = Void(Tail(tasks)))
          /\ UNCHANGED <<queue, applied, written>>
      BY <1>8 DEF RunUser, Runs, disk, server, bounds
    <2> QED  BY <2>1, OrderStays
  <1>9. CASE RunToken \/ RunTokenFailed
    <2>1. tasks # <<>> /\ tasks' = Tail(tasks) /\ UNCHANGED <<queue, applied, written>>
      BY <1>9 DEF RunToken, RunTokenFailed, Runs, disk, server, bounds
    <2> QED  BY <2>1, OrderStays
  <1>10. CASE BackoffElapses \/ HandshakeCompletes \/ StreamFails \/ IdleTimeout \/ ServerCloses
              \/ WaitForPendingWrites \/ EnableNetwork
    <2>1. UNCHANGED <<tasks, queue, applied, written>>
      BY <1>10 DEF BackoffElapses, HandshakeCompletes, StreamFails, IdleTimeout, ServerCloses, WaitForPendingWrites,
                   EnableNetwork, Goes, client, disk, server, bounds
    <2> QED  BY <2>1, OrderStays
  <1>11. CASE DisableNetwork \/ ConnectivityChanges
    <2>1. tasks' = Void(tasks) /\ UNCHANGED <<queue, applied, written>>
      BY <1>11 DEF DisableNetwork, ConnectivityChanges, Goes, disk, server
    <2> QED  BY <2>1, OrderStays
  <1>12. CASE Kill \/ DiesInHandler
    <2>1. tasks' = <<>> /\ UNCHANGED <<queue, applied, written>>
      BY <1>12 DEF Kill, DiesInHandler, Die, Goes, disk, server
    <2> QED  BY <2>1, OrderStays
  <1>13. CASE Launch \/ UNCHANGED vars
    <2>1. UNCHANGED <<tasks, queue, applied, written>>
      BY <1>13 DEF Launch, vars, client, disk, server, bounds
    <2> QED  BY <2>1, OrderStays
  <1> QED  BY <1>1, <1>2, <1>3, <1>4, <1>5, <1>6, <1>7, <1>8, <1>9, <1>10, <1>11, <1>12, <1>13
           DEF Next

LEMMA OrderAlways == Spec => []Order
  BY OrderStart, OrderStep, CoreAlways, PTL DEF Spec

LEMMA BehindStart == ASSUME Init PROVE Behind
  BY DEF Init, Behind, Queued

LEMMA BehindStays ==
    ASSUME Behind, UNCHANGED <<queue, applied, last>>,
           answers' = <<>> \/ (answers' = answers /\ current' = current)
    PROVE  Behind'
  <1>1. \A u \in Users : Queued(u)' = Queued(u)
    BY DEF Queued
  <1>2. CASE answers' = <<>>
    BY <1>1, <1>2 DEF Behind
  <1>3. CASE answers' = answers /\ current' = current
    BY <1>1, <1>3 DEF Behind
  <1> QED  BY <1>2, <1>3

LEMMA BehindRunWrite == ASSUME Core, Order, Behind, RunWrite PROVE Behind'
  <1>1. /\ Queued(current)' = Queued(current) \cup {Head(tasks).n}
        /\ \A u \in Users : u # current => Queued(u)' = Queued(u)
        /\ \A x \in Queued(current) \cup applied[current] : x < Head(tasks).n
    BY OrderRunWrite
  <1>2. UNCHANGED <<current, answers, applied, last>>
    BY DEF RunWrite, server
  <1>3. ASSUME NEW u \in Users, NEW x \in applied'[u] \ Queued(u)'
        PROVE  x <= last'[u] /\ \A y \in Queued(u)' : x < y
    <2>1. x \in applied[u] \ Queued(u) /\ x <= last[u] /\ \A y \in Queued(u) : x < y
      BY <1>1, <1>2, <1>3 DEF Behind
    <2> QED  BY <1>1, <1>2, <2>1
  <1> QED  BY <1>2, <1>3 DEF Behind

LEMMA BehindServerApplies == ASSUME Core, Order, Behind, ServerApplies PROVE Behind'
  <1> DEFINE b == Head(wire)
  <1>1. /\ wire # <<>> /\ applied' = [applied EXCEPT ![b.by] = @ \cup {b.n}]
        /\ last' = [last EXCEPT ![b.by] = b.n] /\ answers' = Append(answers, b)
        /\ b.n \notin Refused /\ UNCHANGED <<queue, current>>
    BY DEF ServerApplies, disk, client
  <1>2. b.by = current /\ current \in Users /\ b.n \in Queued(current)
    BY <1>1, HeadOfWire, QueuedAt
  <1>3. applied \in [Users -> SUBSET Numbers] /\ last \in [Users -> 0 .. MaxWrites]
        /\ answers \in Seq(Batch)
    BY DEF Core, TypeOK
  <1> HIDE DEF b
  <1>4. /\ applied'[current] = applied[current] \cup {b.n} /\ last'[current] = b.n
        /\ \A u \in Users : u # current => applied'[u] = applied[u] /\ last'[u] = last[u]
    BY <1>1, <1>2, <1>3
  <1>5. \A u \in Users : Queued(u)' = Queued(u)
    BY <1>1 DEF Queued
  <1>6. ASSUME NEW u \in Users, NEW x \in applied'[u] \ Queued(u)'
        PROVE  x <= last'[u] /\ \A y \in Queued(u)' : x < y
    <2>1. x \in applied[u] \ Queued(u)
      BY <1>2, <1>4, <1>5
    <2>2. x <= last[u] /\ \A y \in Queued(u) : x < y
      BY <2>1 DEF Behind
    <2>3. CASE u = current
      <3>1. x < b.n /\ x \in Nat /\ b.n \in Nat
        BY <1>2, <1>3, <2>1, <2>2, <2>3, QueuedAt DEF Numbers
      <3> QED  BY <1>4, <1>5, <2>2, <2>3, <3>1
    <2>4. CASE u # current
      BY <1>4, <1>5, <2>2, <2>4
    <2> QED  BY <2>3, <2>4
  <1>7. /\ Len(answers') = Len(answers) + 1 /\ answers'[Len(answers) + 1] = b /\ answers' # <<>>
        /\ \A i \in 1 .. Len(answers) : answers'[i] = answers[i]
        /\ \A i \in 1 .. Len(answers') : i \in 1 .. Len(answers) \/ i = Len(answers) + 1
    BY <1>1, <1>3
  <1>8. \A i \in 1 .. Len(answers') : answers'[i].n \in applied'[current]
    BY <1>4, <1>7 DEF Behind
  <1>9. \A u \in Users : applied'[u] \cap Refused = {}
    BY <1>1, <1>4 DEF Behind
  <1> QED  BY <1>1, <1>4, <1>6, <1>7, <1>8, <1>9 DEF Behind

\* The front batch leaves: it is refused, or it is behind those still queued and
\* not after the last one that has been applied.
LEMMA BehindRemove ==
    ASSUME Core, Order, Behind, pipeline # <<>>, Remove(Head(pipeline)),
           UNCHANGED <<current, tasks, applied, last, written>>,
           answers' = <<>> \/ (answers # <<>> /\ answers' = Tail(answers)),
           answers # <<>> \/ Head(pipeline).n \in Refused
    PROVE  Behind'
  <1> DEFINE b == Head(pipeline)
  <1>1. /\ Queued(current)' = Queued(current) \ {b.n}
        /\ b.n \in Queued(current) /\ current \in Users
        /\ \A x \in Queued(current) : b.n <= x
        /\ \A u \in Users : u # current => Queued(u)' = Queued(u)
    BY OrderRemove
  <1>2. answers \in Seq(Batch) /\ last[current] \in Nat /\ queue[current] \in Seq(Batch)
        /\ pipeline \in Seq(Batch)
    BY <1>1, WritesAssumption DEF Core, TypeOK, WritesAssumption
  <1>3. Queued(current) \subseteq Nat
    BY <1>1, QueuedAt DEF Numbers
  <1>4. b.n \in applied[current] => b.n <= last[current]
    <2> SUFFICES ASSUME b.n \in applied[current]  PROVE b.n <= last[current]
      OBVIOUS
    <2>1. answers # <<>>
      BY <1>1 DEF Behind
    <2>2. last[current] = answers[Len(answers)].n /\ Len(answers) \in 1 .. Len(answers)
      BY <1>2, <2>1 DEF Behind
    <2>3. stream.handshake
      BY <2>1, Alive
    <2>4. /\ Len(answers) <= Len(pipeline) /\ answers[Len(answers)] = pipeline[Len(answers)]
      BY <1>2, <2>2, <2>3 DEF Core, Connection, Linked, TypeOK
    <2>5. Len(answers) \in 1 .. Len(pipeline) /\ Len(pipeline) <= Len(queue[current])
      BY <1>2, <2>2, <2>4 DEF Core, Queues, Begins
    <2>6. pipeline[Len(answers)] = queue[current][Len(answers)] /\ Len(answers) \in 1 .. Len(queue[current])
      BY <1>2, <2>5 DEF Core, Queues, Begins
    <2>7. queue[current][Len(answers)].n \in Queued(current)
      BY <1>1, <2>6, QueuedAt
    <2> QED  BY <1>1, <2>2, <2>4, <2>6, <2>7
  <1>5. ASSUME NEW u \in Users, NEW x \in applied'[u] \ Queued(u)'
        PROVE  x <= last'[u] /\ \A y \in Queued(u)' : x < y
    <2>1. CASE x \in applied[u] \ Queued(u)
      BY <1>1, <2>1 DEF Behind
    <2>2. CASE u = current /\ x = b.n
      <3>1. x <= last[u]
        BY <1>4, <1>5, <2>2
      <3>2. \A y \in Queued(u)' : x <= y /\ x # y /\ x \in Nat /\ y \in Nat
        BY <1>1, <1>3, <2>2
      <3> QED  BY <3>1, <3>2
    <2> QED  BY <1>1, <1>5, <2>1, <2>2
  <1>6. answers' # <<>> => /\ answers'[Len(answers')] = answers[Len(answers)] /\ answers # <<>>
                          /\ \A i \in 1 .. Len(answers') : answers'[i] = answers[i + 1] /\ i + 1 \in 1 .. Len(answers)
    <2> SUFFICES ASSUME answers' # <<>>, answers # <<>>, answers' = Tail(answers)
                 PROVE  /\ answers'[Len(answers')] = answers[Len(answers)]
                        /\ \A i \in 1 .. Len(answers') : answers'[i] = answers[i + 1] /\ i + 1 \in 1 .. Len(answers)
      OBVIOUS
    <2>1. \A i \in 1 .. Len(answers') : answers'[i] = answers[i + 1] /\ i + 1 \in 1 .. Len(answers)
      BY <1>2
    <2>2. Len(answers') \in 1 .. Len(answers') /\ Len(answers') + 1 = Len(answers)
      BY <1>2
    <2> QED  BY <2>1, <2>2
  <1>7. \A i \in 1 .. Len(answers') : answers'[i].n \in applied'[current']
    <2>1. CASE answers' = <<>>
      BY <2>1
    <2>2. CASE answers' # <<>>
      BY <1>6, <2>2 DEF Behind
    <2> QED  BY <2>1, <2>2
  <1> QED  BY <1>5, <1>6, <1>7 DEF Behind

LEMMA BehindStep == ASSUME Core, Order, Behind, [Next]_vars PROVE Behind'
  <1> DEFINE Stays == /\ UNCHANGED <<queue, applied, last>>
                      /\ answers' = <<>> \/ (answers' = answers /\ current' = current)
  <1>0. Stays => Behind'
    BY BehindStays
  <1> HIDE DEF Stays
  <1>1. CASE RunWrite
    BY <1>1, BehindRunWrite
  <1>2. CASE ServerApplies
    BY <1>2, BehindServerApplies
  <1>3. CASE ResultArrives
    <2>1. /\ pipeline # <<>> /\ Remove(Head(pipeline)) /\ answers # <<>> /\ answers' = Tail(answers)
          /\ UNCHANGED <<current, tasks, applied, last, written>>
      BY <1>3, Alive DEF ResultArrives, client, server, bounds
    <2> QED  BY <2>1, BehindRemove
  <1>4. CASE AnswerUnreadable
    <2>1. /\ pipeline # <<>> /\ Remove(Head(pipeline)) /\ answers # <<>> /\ answers' = <<>>
          /\ UNCHANGED <<current, tasks, applied, last, written>>
      BY <1>4, Alive DEF AnswerUnreadable, RejectFront, client, server, bounds
    <2> QED  BY <2>1, BehindRemove
  <1>5. CASE RefusalArrives
    <2>1. /\ pipeline # <<>> /\ Remove(Head(pipeline)) /\ answers' = <<>>
          /\ wire # <<>> /\ Head(wire).n \in Refused
          /\ UNCHANGED <<current, tasks, applied, last, written>>
      BY <1>5, Alive DEF RefusalArrives, RejectFront, client, server, bounds
    <2>2. answers = <<>> => Head(pipeline).n \in Refused
      BY <2>1, Alive
    <2> QED  BY <2>1, <2>2, BehindRemove
  <1>6. CASE RunUser
    <2>1. CASE enabled
      <3>1. Stays
        BY <1>6, <2>1 DEF Stays, RunUser, RestartNetwork, disk, server
      <3> QED  BY <1>0, <3>1
    <2>2. CASE ~enabled
      <3>1. answers = <<>>
        BY <2>2, Alive
      <3>2. Stays
        BY <1>6, <2>2, <3>1 DEF Stays, RunUser, disk, server, remote
      <3> QED  BY <1>0, <3>2
    <2> QED  BY <2>1, <2>2
  <1>7. CASE AppWrites \/ (\E u \in Users : AuthChanges(u)) \/ TokenAnswered \/ TokenFails
    <2>1. Stays
      BY <1>7 DEF Stays, AppWrites, AuthChanges, TokenAnswered, TokenFails, TokenComes, disk, remote, server
    <2> QED  BY <1>0, <2>1
  <1>8. CASE RunToken \/ RunTokenFailed \/ BackoffElapses \/ HandshakeCompletes \/ WaitForPendingWrites
    <2>1. Stays
      BY <1>8 DEF Stays, RunToken, RunTokenFailed, BackoffElapses, HandshakeCompletes,
                  WaitForPendingWrites, disk, client, remote, server
    <2> QED  BY <1>0, <2>1
  <1>9. CASE StreamFails \/ IdleTimeout \/ ServerCloses \/ DisableNetwork \/ EnableNetwork
             \/ ConnectivityChanges
    <2>1. Stays
      BY <1>9 DEF Stays, StreamFails, IdleTimeout, ServerCloses, DisableNetwork, EnableNetwork, ConnectivityChanges,
                  RestartNetwork, disk, client, server
    <2> QED  BY <1>0, <2>1
  <1>10. CASE Kill \/ DiesInHandler \/ Launch
    <2>1. Stays
      BY <1>10 DEF Stays, Kill, DiesInHandler, Launch, Die, RestartNetwork, disk, server
    <2> QED  BY <1>0, <2>1
  <1>11. CASE UNCHANGED vars
    <2>1. Stays
      BY <1>11 DEF Stays, vars, disk, client, remote, server
    <2> QED  BY <1>0, <2>1
  <1> QED  BY <1>1, <1>2, <1>3, <1>4, <1>5, <1>6, <1>7, <1>8, <1>9, <1>10, <1>11 DEF Next

LEMMA BehindAlways == Spec => []Behind
  BY BehindStart, BehindStep, CoreAlways, OrderAlways, PTL DEF Spec

\* When the queue of a user is empty the latest of his writes that were applied
\* was applied last, whatever was applied again.
THEOREM SettledInTheEnd == Spec => []Settled
  <1>1. Behind => Settled
    BY DEF Behind, Settled, Queued
  <1> QED  BY <1>1, BehindAlways, PTL

-----------------------------------------------------------------------------
(* Nothing that waits is forgotten                                           *)

\* While the network is enabled the pipeline is as full as it can be and has its
\* stream; a stream that starts has asked for its token, or the token is in the
\* worker queue, and nothing else in that queue is wanted by a stream.
Filled    == enabled => Len(pipeline) = Least(Len(queue[current]), MaxPending)
UnderWay  == pipeline # <<>> => IsStarted(stream)
Wanted    == stream.state = "starting" =>
                stream.asking \/ \E i \in 1 .. Len(tasks) : tasks[i].live
OnlyTokens == \A i \in 1 .. Len(tasks) :
                tasks[i].live => tasks[i].kind \in {"token", "tokenFailed"}
Busy == Filled /\ UnderWay /\ Wanted /\ OnlyTokens

\* Fill fills the pipeline, has it served, and asks for a token when it starts.
LEMMA FillServes ==
    ASSUME NEW p \in Seq(Batch), NEW q \in Seq(Batch), NEW st \in Stream, NEW w,
           Ascending(q), Begins(p, q), Len(p) <= MaxPending, Fill(p, q, st, w)
    PROVE  /\ Len(pipeline') = Least(Len(q), MaxPending)
           /\ pipeline' # <<>> => IsStarted(stream')
           /\ stream'.state = "starting" => stream'.asking \/ (st.state = "starting" /\ ~st.asking)
  <1>1. Len(pipeline') = Least(Len(q), MaxPending)
    <2>1. PICK k \in 0 .. Len(q) :
            /\ \A i \in DOMAIN q : q[i].id > LastId(p) <=> i > k
            /\ pipeline' = p \o SubSeq(q, k + 1, Least(Len(q), k + MaxPending - Len(p)))
      BY DEF Fill
    <2>2. k = Len(p)
      BY <2>1, Following
    <2> DEFINE m == Least(Len(q), k + MaxPending - Len(p))
    <2>3. m = Least(Len(q), MaxPending)
      BY <2>2, WritesAssumption DEF WritesAssumption
    <2>4. m \in Nat /\ m <= Len(q) /\ k <= m
      BY <2>2, WritesAssumption DEF Least, Begins, WritesAssumption
    <2>5. pipeline' = p \o SubSeq(q, k + 1, m)
      BY <2>1
    <2> HIDE DEF m
    <2>6. SubSeq(q, k + 1, m) \in Seq(Batch) /\ Len(SubSeq(q, k + 1, m)) = m - k
      BY <2>4, PartOf
    <2>7. Len(pipeline') = Len(p) + (m - k)
      BY <2>5, <2>6
    <2> QED  BY <2>2, <2>3, <2>4, <2>7
  <1>2. CASE pipeline' # <<>> /\ ~IsStarted(st)
    <2>1. stream' = Start(st)
      BY <1>2, FillStarts
    <2> QED  BY <1>1, <2>1 DEF Start, Closed, IsStarted
  <1>3. CASE pipeline' = <<>> \/ IsStarted(st)
    <2>1. PICK b \in BOOLEAN : stream' = [st EXCEPT !.idle = b]
      BY <1>3, FillStarts
    <2>2. stream'.state = st.state /\ stream'.asking = st.asking /\ st.asking \in BOOLEAN
      BY <2>1 DEF Stream
    <2> QED  BY <1>1, <1>3, <2>2 DEF IsStarted
  <1> QED  BY <1>2, <1>3

\* The network restarts: what was wanted is not, and what is to be written is.
LEMMA BusyAfresh ==
    ASSUME NEW p \in Seq(Batch), NEW q \in Seq(Batch), Ascending(q), Begins(p, q),
           Len(p) <= MaxPending, Fill(p, q, Closed("initial"), <<>>),
           queue'[current'] = q, OnlyTokens'
    PROVE  Busy'
  <1>1. /\ Closed("initial") \in Stream /\ Closed("initial").state = "initial"
    BY DEF Closed, Stream
  <1>2. /\ Len(pipeline') = Least(Len(q), MaxPending)
        /\ pipeline' # <<>> => IsStarted(stream')
        /\ stream'.state = "starting" => stream'.asking
    BY <1>1, FillServes
  <1> QED  BY <1>2 DEF Busy, Filled, UnderWay, Wanted

LEMMA BusyRestarts ==
    ASSUME NEW q \in Seq(Batch), Ascending(q), RestartNetwork(q), queue'[current'] = q, OnlyTokens'
    PROVE  Busy'
  <1>1. <<>> \in Seq(Batch) /\ Len(<<>>) = 0 /\ 0 <= MaxPending
    BY WritesAssumption DEF WritesAssumption
  <1>2. Begins(<<>>, q)
    BY DEF Begins
  <1> QED  BY <1>1, <1>2, BusyAfresh DEF RestartNetwork

LEMMA VoidWantsNone ==
    ASSUME NEW ts \in Seq(Task), tasks' = Void(ts)
    PROVE  OnlyTokens'
  <1>1. \A i \in 1 .. Len(tasks') : ~tasks'[i].live
    BY Voided
  <1> QED  BY <1>1 DEF OnlyTokens

\* A task that is not wanted leaves, or another comes: what is wanted stays.
LEMMA WantedStay ==
    ASSUME tasks \in Seq(Task), OnlyTokens,
           \/ tasks # <<>> /\ tasks' = Tail(tasks)
           \/ \E t \in Task : tasks' = Append(tasks, t) /\ (t.live => t.kind \in {"token", "tokenFailed"})
           \/ tasks' = tasks
    PROVE  /\ OnlyTokens'
           /\ (tasks' = Tail(tasks) => ~Head(tasks).live) /\ (\E i \in 1 .. Len(tasks) : tasks[i].live)
                 => \E i \in 1 .. Len(tasks') : tasks'[i].live
  <1>1. CASE tasks # <<>> /\ tasks' = Tail(tasks)
    <2>1. /\ Len(tasks') = Len(tasks) - 1 /\ Head(tasks) = tasks[1]
          /\ \A i \in 1 .. Len(tasks') : tasks'[i] = tasks[i + 1] /\ i + 1 \in 1 .. Len(tasks)
      BY <1>1
    <2>2. ASSUME ~Head(tasks).live, NEW i \in 1 .. Len(tasks), tasks[i].live
          PROVE  \E j \in 1 .. Len(tasks') : tasks'[j].live
      <3>1. i # 1
        BY <2>1, <2>2
      <3>2. i - 1 \in 1 .. Len(tasks') /\ i - 1 + 1 = i
        BY <2>1, <3>1
      <3> QED  BY <2>1, <2>2, <3>2
    <2> QED  BY <1>1, <2>1, <2>2 DEF OnlyTokens
  <1>2. ASSUME NEW t \in Task, tasks' = Append(tasks, t), t.live => t.kind \in {"token", "tokenFailed"}
        PROVE  /\ OnlyTokens'
               /\ (\E i \in 1 .. Len(tasks) : tasks[i].live) => \E i \in 1 .. Len(tasks') : tasks'[i].live
    <2>1. /\ Len(tasks') = Len(tasks) + 1 /\ tasks'[Len(tasks) + 1] = t
          /\ \A i \in 1 .. Len(tasks) : tasks'[i] = tasks[i]
      BY <1>2
    <2> QED  BY <1>2, <2>1 DEF OnlyTokens
  <1>3. CASE tasks' = tasks
    BY <1>3 DEF OnlyTokens
  <1> QED  BY <1>1, <1>2, <1>3

LEMMA BusyQuiet ==
    ASSUME Core, Busy, UNCHANGED <<queue, current, enabled, pipeline, stream>>,
           \/ \E t \in Task : tasks' = Append(tasks, t) /\ (t.live => t.kind \in {"token", "tokenFailed"})
           \/ tasks' = tasks
    PROVE  Busy'
  <1>1. tasks \in Seq(Task)
    BY DEF Core, TypeOK
  <1>2. /\ OnlyTokens'
        /\ (\E i \in 1 .. Len(tasks) : tasks[i].live) => \E i \in 1 .. Len(tasks') : tasks'[i].live
    <2>1. CASE \E t \in Task : tasks' = Append(tasks, t) /\ (t.live => t.kind \in {"token", "tokenFailed"})
      <3>1. PICK t \in Task : tasks' = Append(tasks, t) /\ (t.live => t.kind \in {"token", "tokenFailed"})
        BY <2>1
      <3>2. /\ Len(tasks') = Len(tasks) + 1
            /\ \A i \in 1 .. Len(tasks) : tasks'[i] = tasks[i]
        BY <1>1, <3>1
      <3>3. OnlyTokens'
        BY <1>1, <3>1, WantedStay DEF Busy
      <3> QED  BY <1>1, <3>2, <3>3
    <2>2. CASE tasks' = tasks
      BY <2>2 DEF Busy, OnlyTokens
    <2> QED  BY <2>1, <2>2
  <1> QED  BY <1>2 DEF Busy, Filled, UnderWay, Wanted

LEMMA BusyTokenComes ==
    ASSUME Core, Busy, NEW kind \in {"token", "tokenFailed"}, TokenComes(kind)
    PROVE  Busy'
  <1> DEFINE t == [kind |-> kind, user |-> account, n |-> 0, live |-> TRUE]
  <1>1. /\ tasks \in Seq(Task) /\ stream \in Stream /\ account \in Users
        /\ 0 \in 0 .. MaxWrites
    BY WritesAssumption DEF Core, TypeOK, WritesAssumption
  <1>2. t \in Task /\ t.live /\ t.kind = kind
    BY <1>1 DEF Task
  <1>3. tasks' = Append(tasks, t)
    BY DEF TokenComes, Enqueue
  <1> HIDE DEF t
  <1>4. OnlyTokens'
    BY <1>1, <1>2, <1>3, WantedStay DEF Busy
  <1>5. tasks'[Len(tasks')].live /\ Len(tasks') \in 1 .. Len(tasks')
    BY <1>1, <1>2, <1>3
  <1>6. IsStarted(stream') = IsStarted(stream)
    BY <1>1 DEF TokenComes, Stream, IsStarted
  <1>7. UNCHANGED <<queue, current, enabled, pipeline>>
    BY DEF TokenComes, disk
  <1> QED  BY <1>4, <1>5, <1>6, <1>7 DEF Busy, Filled, UnderWay, Wanted

LEMMA BusyRunWrite == ASSUME Core, Busy, RunWrite PROVE Busy'
  <1>1. tasks # <<>> /\ Head(tasks).kind = "write" /\ tasks' = Tail(tasks)
        /\ UNCHANGED <<current, enabled>>
    BY DEF RunWrite, Runs
  <1>2. tasks \in Seq(Task) /\ pipeline \in Seq(Batch) /\ stream \in Stream /\ current \in Users
    BY DEF Core, TypeOK
  <1>3. ~Head(tasks).live
    <2>1. Head(tasks) = tasks[1] /\ 1 \in 1 .. Len(tasks)
      BY <1>1, <1>2
    <2> QED  BY <1>1, <2>1 DEF Busy, OnlyTokens
  <1>4. /\ OnlyTokens'
        /\ (\E i \in 1 .. Len(tasks) : tasks[i].live) => \E i \in 1 .. Len(tasks') : tasks'[i].live
    BY <1>1, <1>2, <1>3, WantedStay DEF Busy
  <1>5. CASE enabled
    <2>1. Core' /\ Len(pipeline) <= MaxPending
      BY CoreRunWrite DEF Core, Queues
    <2>2. queue'[current] \in Seq(Batch) /\ Ascending(queue'[current])
      BY <1>1, <1>2, <2>1 DEF Core, TypeOK, Queues
    <2>3. Fill(pipeline, queue'[current], stream, wire)
      BY <1>5 DEF RunWrite
    <2>4. Begins(pipeline, queue'[current])
      <3> DEFINE b == [id |-> nextId, n |-> Head(tasks).n, by |-> Head(tasks).user]
      <3>1. queue[current] \in Seq(Batch) /\ Begins(pipeline, queue[current])
        BY <1>2 DEF Core, TypeOK, Queues
      <3>2. queue' = [queue EXCEPT ![current] = Append(@, b)]
        BY DEF RunWrite
      <3>3. queue'[current] = Append(queue[current], b)
        BY <1>2, <3>2 DEF Core, TypeOK
      <3> HIDE DEF b
      <3>4. /\ Len(queue'[current]) = Len(queue[current]) + 1
            /\ \A i \in 1 .. Len(queue[current]) : queue'[current][i] = queue[current][i]
        BY <3>1, <3>3
      <3> QED  BY <1>2, <3>1, <3>4 DEF Begins
    <2>5. /\ Len(pipeline') = Least(Len(queue'[current]), MaxPending)
          /\ pipeline' # <<>> => IsStarted(stream')
          /\ stream'.state = "starting" => stream'.asking \/ (stream.state = "starting" /\ ~stream.asking)
      BY <1>2, <2>1, <2>2, <2>3, <2>4, FillServes
    <2> QED  BY <1>1, <1>4, <2>5 DEF Busy, Filled, UnderWay, Wanted
  <1>6. CASE ~enabled
    <2>1. UNCHANGED <<pipeline, stream>>
      BY <1>6 DEF RunWrite
    <2> QED  BY <1>1, <1>4, <1>6, <2>1 DEF Busy, Filled, UnderWay, Wanted
  <1> QED  BY <1>5, <1>6

LEMMA BusyRunUser == ASSUME Core, Busy, RunUser PROVE Busy'
  <1> DEFINE u == Head(tasks).user
  <1>1. tasks # <<>> /\ Head(tasks).kind = "user" /\ current' = u /\ UNCHANGED <<queue, enabled>>
    BY DEF RunUser, Runs, disk
  <1>2. tasks \in Seq(Task) /\ Tail(tasks) \in Seq(Task)
    BY <1>1 DEF Core, TypeOK
  <1>3. Head(tasks) = tasks[1] /\ 1 \in 1 .. Len(tasks) /\ tasks[1] \in Task
    BY <1>1, <1>2
  <1>4. u \in Users /\ ~Head(tasks).live
    BY <1>1, <1>3 DEF Task, Busy, OnlyTokens
  <1> HIDE DEF u
  <1>5. CASE enabled
    <2>1. RestartNetwork(queue[u]) /\ tasks' = Void(Tail(tasks))
      BY <1>5 DEF RunUser, u
    <2>2. queue[u] \in Seq(Batch) /\ Ascending(queue[u])
      BY <1>4 DEF Core, TypeOK, Queues
    <2>3. OnlyTokens'
      BY <1>2, <2>1, VoidWantsNone
    <2> QED  BY <1>1, <2>1, <2>2, <2>3, BusyRestarts
  <1>6. CASE ~enabled
    <2>1. tasks' = Tail(tasks) /\ UNCHANGED <<pipeline, stream>>
      BY <1>6 DEF RunUser, remote
    <2>2. /\ OnlyTokens'
          /\ (\E i \in 1 .. Len(tasks) : tasks[i].live) => \E i \in 1 .. Len(tasks') : tasks'[i].live
      BY <1>1, <1>2, <1>4, <2>1, WantedStay DEF Busy
    <2> QED  BY <1>1, <1>6, <2>1, <2>2 DEF Busy, Filled, UnderWay, Wanted
  <1> QED  BY <1>5, <1>6

\* A token that is not wanted changes nothing; the one that is wanted ends the
\* starting of the stream.
LEMMA BusyTokenTask ==
    ASSUME Core, Busy, tasks # <<>>, tasks' = Tail(tasks),
           UNCHANGED <<queue, current, enabled, pipeline>>,
           IF Head(tasks).live
           THEN stream'.state # "starting" /\ (pipeline # <<>> => IsStarted(stream'))
           ELSE stream' = stream
    PROVE  Busy'
  <1>1. tasks \in Seq(Task)
    BY DEF Core, TypeOK
  <1>2. /\ OnlyTokens'
        /\ ~Head(tasks).live /\ (\E i \in 1 .. Len(tasks) : tasks[i].live)
              => \E i \in 1 .. Len(tasks') : tasks'[i].live
    BY <1>1, WantedStay DEF Busy
  <1> QED  BY <1>2 DEF Busy, Filled, UnderWay, Wanted

LEMMA BusyRunToken == ASSUME Core, Busy, RunToken PROVE Busy'
  <1>1. tasks # <<>> /\ tasks' = Tail(tasks) /\ UNCHANGED <<queue, current, enabled, pipeline>>
    BY DEF RunToken, Runs, disk
  <1>2. Head(tasks).live => stream' = [Closed("open") EXCEPT !.user = Head(tasks).user]
    BY DEF RunToken
  <1>3. Head(tasks).live => stream'.state = "open"
    BY <1>2 DEF Closed
  <1>4. ~Head(tasks).live => stream' = stream
    BY DEF RunToken
  <1> QED  BY <1>1, <1>3, <1>4, BusyTokenTask DEF IsStarted

LEMMA BusyRunTokenFailed == ASSUME Core, Busy, RunTokenFailed PROVE Busy'
  <1>1. tasks # <<>> /\ tasks' = Tail(tasks) /\ UNCHANGED <<queue, current, enabled, pipeline>>
    BY DEF RunTokenFailed, Runs, disk
  <1>2. Head(tasks).live => stream' = StartIfNeeded(pipeline, Closed("error"))
    BY DEF RunTokenFailed
  <1>3. Head(tasks).live => stream'.state # "starting" /\ (pipeline # <<>> => IsStarted(stream'))
    BY <1>2 DEF StartIfNeeded, Start, Closed, IsStarted
  <1>4. ~Head(tasks).live => stream' = stream
    BY DEF RunTokenFailed
  <1> QED  BY <1>1, <1>3, <1>4, BusyTokenTask

\* The stream goes on to another state of its own.
LEMMA BusyStream ==
    ASSUME Core, Busy, UNCHANGED <<queue, current, enabled, pipeline, tasks>>,
           pipeline # <<>> => IsStarted(stream'), stream'.state = "starting" => stream'.asking
    PROVE  Busy'
  BY DEF Busy, Filled, UnderWay, Wanted, OnlyTokens

LEMMA BusyStreams ==
    ASSUME Core, Busy,
           BackoffElapses \/ HandshakeCompletes \/ StreamFails \/ IdleTimeout \/ ServerCloses
    PROVE  Busy'
  <1>1. stream \in Stream
    BY DEF Core, TypeOK
  <1>2. UNCHANGED <<queue, current, enabled, pipeline, tasks>>
    BY DEF BackoffElapses, HandshakeCompletes, StreamFails, IdleTimeout, ServerCloses, disk, client
  <1>3. CASE BackoffElapses
    BY <1>2, <1>3, BusyStream DEF BackoffElapses, Start, Closed, IsStarted
  <1>4. CASE HandshakeCompletes
    BY <1>1, <1>2, <1>4, BusyStream DEF HandshakeCompletes, Stream, IsStarted
  <1>5. CASE StreamFails
    BY <1>2, <1>5, BusyStream DEF StreamFails, StartIfNeeded, Start, Closed, IsStarted
  <1>6. CASE IdleTimeout \/ ServerCloses
    <2>1. pipeline = <<>> /\ stream'.state = "initial"
      BY <1>6 DEF IdleTimeout, ServerCloses, Core, Connection, Linked, Closed
    <2> QED  BY <1>2, <2>1, BusyStream
  <1> QED  BY <1>3, <1>4, <1>5, <1>6

LEMMA BusyResultArrives == ASSUME Core, Busy, ResultArrives PROVE Busy'
  <1>1. answers # <<>> /\ Remove(Head(pipeline)) /\ Fill(Tail(pipeline), queue'[current], stream, wire)
        /\ UNCHANGED <<current, enabled, tasks>>
    BY DEF ResultArrives, client
  <1>2. /\ Len(pipeline) > 0 /\ TypeOK /\ Queues
        /\ pipeline \in Seq(Batch) /\ stream \in Stream /\ current \in Users /\ MaxPending \in Nat
    BY <1>1, Alive, WritesAssumption DEF Core, TypeOK, WritesAssumption
  <1>3. /\ queue' \in [Users -> Seq(Batch)]
        /\ Begins(Tail(pipeline), queue'[current]) /\ Ascending(queue'[current])
    BY <1>1, <1>2, FrontLeaves
  <1>4. Tail(pipeline) \in Seq(Batch) /\ Len(Tail(pipeline)) <= MaxPending
    BY <1>2 DEF Queues
  <1>5. /\ Len(pipeline') = Least(Len(queue'[current]), MaxPending)
        /\ pipeline' # <<>> => IsStarted(stream')
        /\ stream'.state = "starting" => stream'.asking \/ (stream.state = "starting" /\ ~stream.asking)
    BY <1>1, <1>2, <1>3, <1>4, FillServes
  <1> QED  BY <1>1, <1>5 DEF Busy, Filled, UnderWay, Wanted, OnlyTokens

LEMMA BusyRejectFront == ASSUME Core, Busy, pipeline # <<>>, RejectFront PROVE Busy'
  <1>1. Remove(Head(pipeline)) /\ Fill(Tail(pipeline), queue'[current], Closed("initial"), <<>>)
        /\ UNCHANGED <<current, enabled, tasks>>
    BY DEF RejectFront, client
  <1>2. TypeOK /\ Queues /\ pipeline \in Seq(Batch) /\ current \in Users /\ MaxPending \in Nat
    BY WritesAssumption DEF Core, TypeOK, WritesAssumption
  <1>3. /\ queue' \in [Users -> Seq(Batch)]
        /\ Begins(Tail(pipeline), queue'[current]) /\ Ascending(queue'[current])
    BY <1>1, <1>2, FrontLeaves
  <1>4. Tail(pipeline) \in Seq(Batch) /\ Len(Tail(pipeline)) <= MaxPending
    BY <1>2 DEF Queues
  <1>5. OnlyTokens'
    BY <1>1 DEF Busy, OnlyTokens
  <1> QED  BY <1>1, <1>2, <1>3, <1>4, <1>5, BusyAfresh

LEMMA BusyEnableNetwork == ASSUME Core, Busy, EnableNetwork PROVE Busy'
  <1>1. Fill(pipeline, queue[current], stream, wire) /\ UNCHANGED <<queue, current, tasks>>
    BY DEF EnableNetwork, disk
  <1>2. /\ pipeline \in Seq(Batch) /\ stream \in Stream /\ queue[current] \in Seq(Batch)
        /\ Ascending(queue[current]) /\ Begins(pipeline, queue[current]) /\ Len(pipeline) <= MaxPending
    BY DEF Core, TypeOK, Queues
  <1>3. /\ Len(pipeline') = Least(Len(queue[current]), MaxPending)
        /\ pipeline' # <<>> => IsStarted(stream')
        /\ stream'.state = "starting" => stream'.asking \/ (stream.state = "starting" /\ ~stream.asking)
    BY <1>1, <1>2, FillServes
  <1> QED  BY <1>1, <1>3 DEF Busy, Filled, UnderWay, Wanted, OnlyTokens

LEMMA BusyRestart == ASSUME Core, Busy, ConnectivityChanges \/ Launch PROVE Busy'
  <1>1. /\ tasks \in Seq(Task) /\ account \in Users /\ current \in Users
        /\ \A u \in Users : queue[u] \in Seq(Batch) /\ Ascending(queue[u])
    BY DEF Core, TypeOK, Queues
  <1>2. CASE ConnectivityChanges
    <2>1. RestartNetwork(queue[current]) /\ tasks' = Void(tasks) /\ UNCHANGED <<queue, current>>
      BY <1>2 DEF ConnectivityChanges, disk
    <2>2. OnlyTokens'
      BY <1>1, <2>1, VoidWantsNone
    <2> QED  BY <1>1, <2>1, <2>2, BusyRestarts
  <1>3. CASE Launch
    <2>1. RestartNetwork(queue[account]) /\ current' = account /\ UNCHANGED <<queue, tasks>>
      BY <1>3 DEF Launch, disk
    <2>2. OnlyTokens'
      BY <2>1 DEF Busy, OnlyTokens
    <2> QED  BY <1>1, <2>1, <2>2, BusyRestarts
  <1> QED  BY <1>2, <1>3

\* With the network or the process everything that was to be served goes.
LEMMA BusyEnds == ASSUME Core, Busy, DisableNetwork \/ Kill \/ DiesInHandler PROVE Busy'
  <1>1. tasks \in Seq(Task)
    BY DEF Core, TypeOK
  <1>2. ~enabled' /\ pipeline' = <<>> /\ (tasks' = Void(tasks) \/ tasks' = <<>>)
    BY DEF DisableNetwork, Kill, DiesInHandler, Die
  <1>3. OnlyTokens'
    <2>1. CASE tasks' = <<>>
      BY <2>1 DEF OnlyTokens
    <2> QED  BY <1>1, <1>2, <2>1, VoidWantsNone
  <1>4. stream'.state # "starting"
    BY DEF DisableNetwork, Kill, DiesInHandler, Die, Closed, IsStarted
  <1> QED  BY <1>2, <1>3, <1>4 DEF Busy, Filled, UnderWay, Wanted

LEMMA BusyStart == ASSUME Init PROVE Busy
  BY DEF Init, Closed, Busy, Filled, UnderWay, Wanted, OnlyTokens

LEMMA BusyStep == ASSUME Core, Busy, [Next]_vars PROVE Busy'
  <1>1. CASE AppWrites
    <2> DEFINE t == [kind |-> "write", user |-> account, n |-> written + 1, live |-> FALSE]
    <2>1. tasks' = Append(tasks, t) /\ UNCHANGED <<queue, current, enabled, pipeline, stream>>
      BY <1>1 DEF AppWrites, Enqueue, disk, remote
    <2>2. t \in Task /\ ~t.live
      BY <1>1, WritesAssumption DEF AppWrites, Task, Core, TypeOK, WritesAssumption
    <2> HIDE DEF t
    <2> QED  BY <2>1, <2>2, BusyQuiet
  <1>2. CASE \E u \in Users : AuthChanges(u)
    <2>1. PICK u \in Users : AuthChanges(u)
      BY <1>2
    <2> DEFINE t == [kind |-> "user", user |-> u, n |-> 0, live |-> FALSE]
    <2>2. tasks' = Append(tasks, t) /\ UNCHANGED <<queue, current, enabled, pipeline, stream>>
      BY <2>1 DEF AuthChanges, Enqueue, remote
    <2>3. t \in Task /\ ~t.live
      BY WritesAssumption DEF Task, WritesAssumption
    <2> HIDE DEF t
    <2> QED  BY <2>2, <2>3, BusyQuiet
  <1>3. CASE TokenAnswered \/ TokenFails
    BY <1>3, BusyTokenComes DEF TokenAnswered, TokenFails
  <1>4. CASE WaitForPendingWrites \/ ServerApplies \/ UNCHANGED vars
    <2>1. UNCHANGED <<queue, current, enabled, pipeline, stream, tasks>>
      BY <1>4 DEF WaitForPendingWrites, ServerApplies, vars, disk, client, remote
    <2> QED  BY <2>1, BusyQuiet
  <1>5. CASE RunWrite
    BY <1>5, BusyRunWrite
  <1>6. CASE RunUser
    BY <1>6, BusyRunUser
  <1>7. CASE RunToken
    BY <1>7, BusyRunToken
  <1>8. CASE RunTokenFailed
    BY <1>8, BusyRunTokenFailed
  <1>9. CASE BackoffElapses \/ HandshakeCompletes \/ StreamFails \/ IdleTimeout \/ ServerCloses
    BY <1>9, BusyStreams
  <1>10. CASE ResultArrives
    BY <1>10, BusyResultArrives
  <1>11. CASE RefusalArrives \/ AnswerUnreadable
    <2>1. RejectFront /\ pipeline # <<>>
      BY <1>11, Alive DEF RefusalArrives, AnswerUnreadable
    <2> QED  BY <2>1, BusyRejectFront
  <1>12. CASE EnableNetwork
    BY <1>12, BusyEnableNetwork
  <1>13. CASE ConnectivityChanges \/ Launch
    BY <1>13, BusyRestart
  <1>14. CASE DisableNetwork \/ Kill \/ DiesInHandler
    BY <1>14, BusyEnds
  <1> QED  BY <1>1, <1>2, <1>3, <1>4, <1>5, <1>6, <1>7, <1>8, <1>9, <1>10, <1>11, <1>12, <1>13,
              <1>14 DEF Next

\* Until the queue of another user is opened his task is there: the first task
\* that is not by the current user is the one that brings its user.
LEMMA UserIsComing ==
    ASSUME Core, running, current # account
    PROVE  \E i \in 1 .. Len(tasks) : tasks[i].kind = "user"
  <1> DEFINE others == {j \in 1 .. Len(tasks) : tasks[j].user # current}
  <1>1. Len(tasks) \in Nat /\ account = Before(Len(tasks) + 1)
    BY DEF Core, TypeOK, Turns
  <1>2. Len(tasks) \in others
    BY <1>1 DEF Before
  <1>3. others \subseteq Nat /\ others # {}
    BY <1>1, <1>2
  <1>4. PICK j \in others : \A m \in others : <<m, j>> \notin OpToRel(<, Nat)
    <2> HIDE DEF others
    <2> QED  BY <1>3, NatLessThanWellFounded, WFMin
  <1>5. \A m \in others : ~(m < j)
    <2> HIDE DEF others
    <2> QED  BY <1>3, <1>4, Zenon DEF OpToRel
  <1>6. Before(j) = current
    <2>1. CASE j = 1
      BY <2>1 DEF Before
    <2>2. CASE j # 1
      <3>1. j - 1 \in 1 .. Len(tasks) /\ j - 1 < j
        BY <1>1, <2>2
      <3>2. j - 1 \notin others
        BY <1>5, <3>1
      <3> QED  BY <2>2, <3>1, <3>2 DEF Before
    <2> QED  BY <2>1, <2>2
  <1>7. j \in 1 .. Len(tasks) /\ tasks[j].user # Before(j)
    BY <1>6
  <1> QED  BY <1>7 DEF Core, Turns

\* Whatever waits for the server has a step on its way that serves it, for any
\* users, writes and troubles (remote_store.cc 384-541, stream.cc 95-175).
THEOREM NothingStalls == Spec => []NeverStalls
  <1>1. ASSUME Core, Busy  PROVE NeverStalls
    <2> SUFFICES ASSUME enabled  PROVE NeverStalls
      BY DEF NeverStalls
    <2>1. /\ running /\ tasks \in Seq(Task)
          /\ pipeline \in Seq(Batch) /\ wire \in Seq(Batch) /\ answers \in Seq(Batch)
      BY <1>1, Alive DEF Core, TypeOK
    <2>2. Len(pipeline) = Least(Len(queue[current]), MaxPending)
      BY <1>1 DEF Busy, Filled
    <2>3. pipeline # <<>> => IsStarted(stream)
      BY <1>1 DEF Busy, UnderWay
    <2>4. stream.state = "starting" => stream.asking \/ \E i \in DOMAIN tasks : tasks[i].live
      BY <1>1, <2>1 DEF Busy, Wanted
    <2>5. pipeline # <<>> /\ stream.handshake => wire # <<>> \/ answers # <<>>
      <3>1. stream.handshake => Len(pipeline) = Len(answers) + Len(wire)
        BY <1>1 DEF Core, Connection, Linked
      <3> QED  BY <2>1, <3>1
    <2>6. current # account => \E i \in DOMAIN tasks : tasks[i].kind = "user"
      BY <1>1, <2>1, UserIsComing
    <2> QED  BY <2>2, <2>3, <2>4, <2>5, <2>6 DEF NeverStalls
  <1>2. Spec => []Busy
    BY BusyStart, BusyStep, CoreAlways, PTL DEF Spec
  <1> QED  BY <1>1, <1>2, CoreAlways, PTL

-----------------------------------------------------------------------------
(* No handler looks in vain                                                  *)

\* The id of a batch does not exceed the number of its write, nor the next id the
\* number of any write that is to come: ids begin anew where numbers do not.
Lag ==
    /\ \A u \in Users : \A i \in 1 .. Len(queue[u]) : queue[u][i].id <= queue[u][i].n
    /\ running => nextId <= written + 1
    /\ \A j \in 1 .. Len(tasks) : tasks[j].kind = "write" => nextId <= tasks[j].n

\* What the handlers look for is there: where the queue goes on after the
\* pipeline, before a write and after it; the front batch in the queue, and where
\* the rest goes on without it; and an id that follows every batch on disk, which
\* the number of writes bounds (remote_store.cc 384-404; leveldb_mutation_queue.cc
\* 58-139, 160-166, 188-204, 353-374).
CanFill(p, q) == \E k \in 0 .. Len(q) : \A i \in DOMAIN q : q[i].id > LastId(p) <=> i > k
Without(q, k) == SubSeq(q, 1, k - 1) \o SubSeq(q, k + 1, Len(q))
SearchesSucceed ==
    /\ \A u \in Users : CanFill(<<>>, queue[u])
    /\ CanFill(pipeline, queue[current])
    /\ Runs("write") =>
          CanFill(pipeline, Append(queue[current],
                                   [id |-> nextId, n |-> Head(tasks).n, by |-> Head(tasks).user]))
    /\ pipeline # <<>> =>
          \E k \in DOMAIN queue[current] :
             /\ queue[current][k].id = Head(pipeline).id
             /\ CanFill(Tail(pipeline), Without(queue[current], k))
    /\ \E id \in 1 .. MaxWrites + 1 : Follows(id)

LEMMA LagStays ==
    ASSUME Core, Lag, UNCHANGED <<queue, written, nextId>>, running' => running,
           \/ tasks' = tasks \/ tasks' = <<>> \/ tasks' = Void(tasks)
           \/ tasks # <<>> /\ (tasks' = Tail(tasks) \/ tasks' = Void(Tail(tasks)))
           \/ \E t \in Task : t.kind # "write" /\ tasks' = Append(tasks, t)
    PROVE  Lag'
  <1>1. PICK k \in Nat : Keeps(k)
    BY TasksKept
  <1>2. \A j \in 1 .. Len(tasks') : tasks'[j].kind = "write" => nextId <= tasks'[j].n
    BY <1>1 DEF Keeps, Lag
  <1> QED  BY <1>2 DEF Lag

LEMMA LagAppWrites == ASSUME Core, Lag, AppWrites PROVE Lag'
  <1> DEFINE t == [kind |-> "write", user |-> account, n |-> written + 1, live |-> FALSE]
  <1>1. /\ running /\ tasks' = Append(tasks, t) /\ written' = written + 1
        /\ UNCHANGED <<queue, nextId, running>>
    BY DEF AppWrites, Enqueue, disk
  <1>2. t.n = written + 1
    OBVIOUS
  <1> HIDE DEF t
  <1>3. tasks \in Seq(Task) /\ written \in Nat /\ nextId \in Nat /\ nextId <= written + 1
    BY <1>1, WritesAssumption DEF Core, TypeOK, Lag, WritesAssumption
  <1>4. \A j \in 1 .. Len(tasks') : tasks'[j].kind = "write" => nextId <= tasks'[j].n
    <2>1. /\ Len(tasks') = Len(tasks) + 1 /\ tasks'[Len(tasks) + 1] = t
          /\ \A j \in 1 .. Len(tasks) : tasks'[j] = tasks[j]
          /\ \A j \in 1 .. Len(tasks') : j \in 1 .. Len(tasks) \/ j = Len(tasks) + 1
      BY <1>1, <1>3
    <2> QED  BY <1>2, <1>3, <2>1 DEF Lag
  <1> QED  BY <1>1, <1>3, <1>4 DEF Lag

LEMMA LagRunWrite == ASSUME Core, Order, Lag, RunWrite PROVE Lag'
  <1> DEFINE t == Head(tasks)
             b == [id |-> nextId, n |-> t.n, by |-> t.user]
             q == queue[current]
             r == Append(q, b)
  <1>1. /\ queue' = [queue EXCEPT ![current] = r] /\ tasks # <<>> /\ tasks' = Tail(tasks)
        /\ t.kind = "write" /\ nextId' = nextId + 1 /\ UNCHANGED <<running, written>>
    BY DEF RunWrite, Runs, bounds
  <1>2. /\ queue \in [Users -> Seq(Batch)] /\ current \in Users /\ q \in Seq(Batch)
        /\ tasks \in Seq(Task) /\ nextId \in Nat /\ written \in Nat
    BY WritesAssumption DEF Core, TypeOK, WritesAssumption
  <1>3. t = tasks[1] /\ 1 \in 1 .. Len(tasks)
    BY <1>1, <1>2
  <1>4. b.id = nextId /\ b.n = t.n
    OBVIOUS
  <1> HIDE DEF t, b
  <1>5. nextId <= t.n /\ t.n \in 1 .. written
    BY <1>1, <1>3 DEF Lag, Core, Turns
  <1>6. \A i \in 1 .. Len(r) : (i \in 1 .. Len(q) /\ r[i] = q[i]) \/ r[i] = b
    BY <1>2
  <1> HIDE DEF q, r
  <1>7. ASSUME NEW u \in Users, NEW i \in 1 .. Len(queue'[u])
        PROVE  queue'[u][i].id <= queue'[u][i].n
    <2>1. CASE u = current
      <3>1. queue'[u] = r
        BY <1>1, <1>2, <2>1
      <3> QED  BY <1>4, <1>5, <1>6, <2>1, <3>1 DEF Lag, q
    <2>2. CASE u # current
      <3>1. queue'[u] = queue[u]
        BY <1>1, <1>2, <2>2
      <3> QED  BY <3>1 DEF Lag
    <2> QED  BY <2>1, <2>2
  <1>8. ASSUME NEW j \in 1 .. Len(tasks'), tasks'[j].kind = "write"
        PROVE  nextId' <= tasks'[j].n
    <2>1. j + 1 \in 1 .. Len(tasks) /\ 1 < j + 1 /\ tasks'[j] = tasks[j + 1]
      BY <1>1, <1>2
    <2>2. t.n < tasks[j + 1].n /\ tasks[j + 1].n \in 1 .. written
      BY <1>1, <1>3, <1>8, <2>1 DEF Order, Core, Turns
    <2> QED  BY <1>1, <1>2, <1>5, <2>1, <2>2
  <1> QED  BY <1>1, <1>2, <1>5, <1>7, <1>8 DEF Lag

\* The next id is read anew from the queues on disk.
LEMMA LagFollows ==
    ASSUME Core, Order, Lag, nextId' \in Nat, Follows(nextId'), UNCHANGED <<queue, written>>,
           \/ tasks' = tasks
           \/ tasks # <<>> /\ (tasks' = Tail(tasks) \/ tasks' = Void(Tail(tasks)))
    PROVE  Lag'
  <1>1. PICK k \in Nat : Keeps(k)
    BY TasksKept
  <1>2. written \in Nat /\ \A j \in 1 .. Len(tasks) : tasks[j].kind = "write" => tasks[j].n \in 1 .. written
    BY WritesAssumption DEF Core, TypeOK, Turns, WritesAssumption
  <1>3. nextId' <= written + 1 /\ \A j \in 1 .. Len(tasks) : tasks[j].kind = "write" => nextId' <= tasks[j].n
    <2>1. CASE nextId' = 1
      BY <1>2, <2>1
    <2>2. CASE nextId' # 1
      <3>1. PICK u \in Users : \E i \in DOMAIN queue[u] : queue[u][i].id + 1 = nextId'
        BY <2>2 DEF Follows
      <3>2. PICK i \in DOMAIN queue[u] : queue[u][i].id + 1 = nextId'
        BY <3>1
      <3>3. queue[u] \in Seq(Batch) /\ i \in 1 .. Len(queue[u])
        BY DEF Core, TypeOK
      <3>4. queue[u][i].n \in Queued(u) /\ queue[u][i].id \in Nat /\ queue[u][i].n \in Nat
        <4>1. queue[u][i] \in Batch
          BY <3>3
        <4> QED  BY <4>1 DEF Queued, Batch, Numbers
      <3>5. queue[u][i].id <= queue[u][i].n
        BY <3>3 DEF Lag
      <3>6. /\ queue[u][i].n <= written
            /\ \A j \in 1 .. Len(tasks) : tasks[j].kind = "write" => queue[u][i].n < tasks[j].n
        BY <3>4 DEF Order
      <3> QED  BY <1>2, <3>2, <3>4, <3>5, <3>6
    <2> QED  BY <2>1, <2>2
  <1>4. \A j \in 1 .. Len(tasks') : tasks'[j].kind = "write" => nextId' <= tasks'[j].n
    BY <1>1, <1>3 DEF Keeps
  <1> QED  BY <1>3, <1>4 DEF Lag

LEMMA LagRemove ==
    ASSUME Core, Lag, pipeline # <<>>, Remove(Head(pipeline)),
           UNCHANGED <<current, tasks, running, nextId, written>>
    PROVE  Lag'
  <1>1. /\ \A u \in Users \ {current} : queue'[u] = queue[u]
        /\ Len(queue[current]) > 0 /\ Len(queue'[current]) = Len(queue[current]) - 1
        /\ \A i \in 1 .. Len(queue[current]) - 1 : queue'[current][i] = queue[current][i + 1]
    BY FrontLeaves DEF Core
  <1>2. queue[current] \in Seq(Batch) /\ current \in Users
    BY DEF Core, TypeOK
  <1>3. ASSUME NEW u \in Users, NEW i \in 1 .. Len(queue'[u])
        PROVE  queue'[u][i].id <= queue'[u][i].n
    <2>1. CASE u = current
      <3>1. i + 1 \in 1 .. Len(queue[current]) /\ queue'[u][i] = queue[u][i + 1]
        BY <1>1, <1>2, <2>1
      <3> QED  BY <2>1, <3>1 DEF Lag
    <2>2. CASE u # current
      BY <1>1, <2>2 DEF Lag
    <2> QED  BY <2>1, <2>2
  <1> QED  BY <1>3 DEF Lag

LEMMA LagStart == ASSUME Init PROVE Lag
  BY DEF Init, Lag

LEMMA LagStep == ASSUME Core, Order, Lag, [Next]_vars PROVE Lag'
  <1>1. CASE AppWrites
    BY <1>1, LagAppWrites
  <1>2. CASE RunWrite
    BY <1>2, LagRunWrite
  <1>3. CASE ResultArrives \/ RefusalArrives \/ AnswerUnreadable
    <2>1. pipeline # <<>> /\ Remove(Head(pipeline)) /\ UNCHANGED <<current, tasks, running, nextId, written>>
      BY <1>3, Alive DEF ResultArrives, RefusalArrives, AnswerUnreadable, RejectFront, client, bounds
    <2> QED  BY <2>1, LagRemove
  <1>4. CASE RunUser
    <2>1. /\ tasks # <<>> /\ (tasks' = Tail(tasks) \/ tasks' = Void(Tail(tasks)))
          /\ UNCHANGED <<queue, written, running>>
          /\ nextId' = nextId \/ (nextId' \in 1 .. MaxWrites + 1 /\ Follows(nextId'))
      BY <1>4 DEF RunUser, Runs, disk, bounds
    <2>2. CASE nextId' = nextId
      BY <2>1, <2>2, LagStays
    <2>3. CASE nextId' \in 1 .. MaxWrites + 1 /\ Follows(nextId')
      BY <2>1, <2>3, LagFollows
    <2> QED  BY <2>1, <2>2, <2>3
  <1>5. CASE Launch
    <2>1. nextId' \in Nat /\ Follows(nextId') /\ UNCHANGED <<tasks, queue, written>>
      BY <1>5 DEF Launch, disk, bounds
    <2> QED  BY <2>1, LagFollows
  <1>6. CASE \E u \in Users : AuthChanges(u)
    <2>1. PICK u \in Users : AuthChanges(u)
      BY <1>6
    <2> DEFINE t == [kind |-> "user", user |-> u, n |-> 0, live |-> FALSE]
    <2>2. t \in Task /\ t.kind # "write"
      BY WritesAssumption DEF Task, WritesAssumption
    <2>3. tasks' = Append(tasks, t) /\ UNCHANGED <<queue, written, nextId, running>>
      BY <2>1 DEF AuthChanges, Enqueue, Goes
    <2> HIDE DEF t
    <2> QED  BY <2>2, <2>3, LagStays
  <1>7. CASE TokenAnswered \/ TokenFails
    <2>1. PICK kind \in {"token", "tokenFailed"} : TokenComes(kind) /\ written' = written
      BY <1>7 DEF TokenAnswered, TokenFails, bounds, Goes
    <2> DEFINE t == [kind |-> kind, user |-> account, n |-> 0, live |-> TRUE]
    <2>2. t \in Task /\ t.kind # "write"
      BY WritesAssumption DEF Task, WritesAssumption, Core, TypeOK
    <2>3. tasks' = Append(tasks, t) /\ UNCHANGED <<queue, written, nextId, running>>
      BY <2>1 DEF TokenComes, Enqueue, disk
    <2> HIDE DEF t
    <2> QED  BY <2>2, <2>3, LagStays
  <1>8. CASE RunToken \/ RunTokenFailed
    <2>1. tasks # <<>> /\ tasks' = Tail(tasks) /\ UNCHANGED <<queue, written, nextId, running>>
      BY <1>8 DEF RunToken, RunTokenFailed, Runs, disk, bounds
    <2> QED  BY <2>1, LagStays
  <1>9. CASE BackoffElapses \/ HandshakeCompletes \/ ServerApplies \/ StreamFails \/ IdleTimeout
             \/ ServerCloses \/ WaitForPendingWrites \/ EnableNetwork \/ UNCHANGED vars
    <2>1. UNCHANGED <<tasks, queue, written, nextId, running>>
      BY <1>9 DEF BackoffElapses, HandshakeCompletes, ServerApplies, StreamFails, IdleTimeout, ServerCloses,
                  WaitForPendingWrites, EnableNetwork, Goes, vars, client, disk, bounds
    <2> QED  BY <2>1, LagStays
  <1>10. CASE DisableNetwork \/ ConnectivityChanges
    <2>1. tasks' = Void(tasks) /\ UNCHANGED <<queue, written, nextId, running>>
      BY <1>10 DEF DisableNetwork, ConnectivityChanges, Goes, disk
    <2> QED  BY <2>1, LagStays
  <1>11. CASE Kill \/ DiesInHandler
    <2>1. tasks' = <<>> /\ ~running' /\ UNCHANGED <<queue, written, nextId>>
      BY <1>11 DEF Kill, DiesInHandler, Die, Goes, disk
    <2> QED  BY <2>1, LagStays
  <1> QED  BY <1>1, <1>2, <1>3, <1>4, <1>5, <1>6, <1>7, <1>8, <1>9, <1>10, <1>11 DEF Next

\* The queue goes on where the pipeline ends.
LEMMA GoesOnAfter ==
    ASSUME NEW p \in Seq(Batch), NEW q \in Seq(Batch), Ascending(q), Begins(p, q)
    PROVE  CanFill(p, q)
  <1>1. \A i \in 1 .. Len(q) : q[i].id \in Nat /\ q[i].id > 0
    <2>1. \A i \in 1 .. Len(q) : q[i] \in Batch
      OBVIOUS
    <2> QED  BY <2>1 DEF Batch
  <1>2. CASE p = <<>>
    <2>1. 0 \in 0 .. Len(q) /\ \A i \in DOMAIN q : q[i].id > LastId(p) <=> i > 0
      BY <1>1, <1>2 DEF LastId
    <2> QED  BY <2>1 DEF CanFill
  <1>3. CASE p # <<>>
    <2>1. Len(p) \in 1 .. Len(q) /\ LastId(p) = q[Len(p)].id
      BY <1>3 DEF LastId, Begins
    <2>2. \A i \in 1 .. Len(q) : q[i].id > q[Len(p)].id <=> i > Len(p)
      BY <1>1, <2>1 DEF Ascending
    <2>3. Len(p) \in 0 .. Len(q) /\ \A i \in DOMAIN q : q[i].id > LastId(p) <=> i > Len(p)
      BY <2>1, <2>2
    <2> QED  BY <2>3 DEF CanFill
  <1> QED  BY <1>2, <1>3

\* Among numbers of at most m there is a greatest.
LEMMA Greatest ==
    ASSUME NEW m \in Nat, NEW S \in SUBSET (0 .. m), S # {}
    PROVE  \E x \in S : \A y \in S : y <= x
  <1> DEFINE T == {m - x : x \in S}
  <1>1. T \subseteq Nat /\ T # {}
    OBVIOUS
  <1>2. PICK least \in T : \A t \in T : <<t, least>> \notin OpToRel(<, Nat)
    <2> HIDE DEF T
    <2> QED  BY <1>1, NatLessThanWellFounded, WFMin
  <1>3. \A t \in T : ~(t < least)
    <2> HIDE DEF T
    <2> QED  BY <1>1, <1>2, Zenon DEF OpToRel
  <1>4. PICK x \in S : least = m - x
    OBVIOUS
  <1>5. ASSUME NEW y \in S  PROVE y <= x
    <2>1. m - y \in T
      OBVIOUS
    <2>2. ~(m - y < m - x)
      BY <1>3, <1>4, <2>1
    <2> QED  BY <2>2
  <1> QED  BY <1>5

\* One more than the greatest id on disk follows them all.
LEMMA AnIdFollows == ASSUME Core, Lag PROVE \E id \in 1 .. MaxWrites + 1 : Follows(id)
  <1> DEFINE ids == UNION {{queue[u][i].id : i \in 1 .. Len(queue[u])} : u \in Users}
  <1>1. \A u \in Users : queue[u] \in Seq(Batch) /\ DOMAIN queue[u] = 1 .. Len(queue[u])
    BY DEF Core, TypeOK
  <1>2. ASSUME NEW u \in Users, NEW i \in 1 .. Len(queue[u])
        PROVE  queue[u][i].id \in 1 .. MaxWrites
    <2>1. queue[u][i] \in Batch
      BY <1>1
    <2>2. queue[u][i].id <= queue[u][i].n
      BY DEF Lag
    <2> QED  BY <2>1, <2>2, WritesAssumption DEF Batch, Numbers, WritesAssumption
  <1>3. MaxWrites \in Nat /\ ids \in SUBSET (0 .. MaxWrites)
    BY <1>2, WritesAssumption DEF WritesAssumption
  <1>4. CASE ids = {}
    <2>1. \A u \in Users : \A i \in 1 .. Len(queue[u]) : queue[u][i].id \in ids
      OBVIOUS
    <2>2. \A u \in Users : DOMAIN queue[u] = {}
      BY <1>1, <1>4, <2>1
    <2>3. Follows(1)
      BY <2>2 DEF Follows
    <2> QED  BY <1>3, <2>3
  <1>5. CASE ids # {}
    <2>1. PICK x \in ids : \A y \in ids : y <= x
      <3> HIDE DEF ids
      <3> QED  BY <1>3, <1>5, Greatest
    <2>2. PICK u \in Users : \E i \in 1 .. Len(queue[u]) : x = queue[u][i].id
      BY <2>1
    <2>3. x \in 1 .. MaxWrites
      BY <1>2, <2>2
    <2>4. \A v \in Users : \A j \in DOMAIN queue[v] : queue[v][j].id < x + 1
      <3> SUFFICES ASSUME NEW v \in Users, NEW j \in 1 .. Len(queue[v])
                   PROVE  queue[v][j].id < x + 1
        BY <1>1
      <3>1. queue[v][j].id \in ids /\ queue[v][j].id \in 1 .. MaxWrites
        BY <1>2
      <3> HIDE DEF ids
      <3> QED  BY <2>1, <2>3, <3>1
    <2>5. \E v \in Users : \E j \in DOMAIN queue[v] : queue[v][j].id + 1 = x + 1
      BY <1>1, <2>2
    <2>6. Follows(x + 1) /\ x + 1 \in 1 .. MaxWrites + 1
      BY <1>3, <2>3, <2>4, <2>5 DEF Follows
    <2> QED  BY <2>6
  <1> QED  BY <1>4, <1>5

\* A handler never stops for want of what it looks for: the runs miss no step of
\* the library, and the bound on the numbers of writes bounds the ids as well.
THEOREM SearchesAlwaysSucceed == Spec => []SearchesSucceed
  <1>1. ASSUME Core, Lag  PROVE SearchesSucceed
    <2> DEFINE q == queue[current]
               b == [id |-> nextId, n |-> Head(tasks).n, by |-> Head(tasks).user]
    <2>1. /\ current \in Users /\ pipeline \in Seq(Batch) /\ nextId \in Nat \ {0}
          /\ \A u \in Users : queue[u] \in Seq(Batch) /\ Ascending(queue[u])
          /\ Begins(pipeline, q)
      BY <1>1 DEF Core, TypeOK, Queues
    <2>2. ASSUME NEW u \in Users  PROVE CanFill(<<>>, queue[u])
      <3>1. <<>> \in Seq(Batch) /\ Begins(<<>>, queue[u])
        BY <2>1 DEF Begins
      <3> QED  BY <2>1, <3>1, GoesOnAfter
    <2>3. CanFill(pipeline, q)
      BY <2>1, GoesOnAfter
    <2>4. ASSUME Runs("write")  PROVE CanFill(pipeline, Append(q, b))
      <3>1. /\ tasks # <<>> /\ Head(tasks) = tasks[1] /\ tasks[1] \in Task /\ 1 \in 1 .. Len(tasks)
            /\ tasks[1].kind = "write" /\ running
        <4>1. tasks # <<>> /\ tasks \in Seq(Task) /\ Head(tasks).kind = "write" /\ running
          BY <1>1, <2>4, Alive DEF Runs, Core, TypeOK
        <4> QED  BY <4>1
      <3>2. b \in Batch /\ b.id = nextId
        <4>1. tasks[1].n \in 1 .. written /\ tasks[1].user \in Users
          BY <1>1, <3>1 DEF Core, Turns, Task
        <4> QED  BY <1>1, <2>1, <3>1, <4>1, WritesAssumption
                 DEF Batch, Numbers, Core, TypeOK, WritesAssumption
      <3>3. \A i \in 1 .. Len(q) : q[i].id < nextId
        BY <1>1, <2>1, <3>1 DEF Core, Queues
      <3> HIDE DEF q, b
      <3>4. q \in Seq(Batch) /\ Ascending(q)
        BY <2>1 DEF q
      <3>5. /\ Append(q, b) \in Seq(Batch) /\ Len(Append(q, b)) = Len(q) + 1
            /\ Append(q, b)[Len(q) + 1] = b /\ \A i \in 1 .. Len(q) : Append(q, b)[i] = q[i]
        BY <3>2, <3>4
      <3>6. Begins(pipeline, Append(q, b))
        BY <2>1, <3>4, <3>5 DEF Begins
      <3>7. Ascending(Append(q, b))
        <4> SUFFICES ASSUME NEW i \in 1 .. Len(q) + 1, NEW j \in 1 .. Len(q) + 1, i < j
                     PROVE  Append(q, b)[i].id < Append(q, b)[j].id
          BY <3>5 DEF Ascending
        <4>1. i \in 1 .. Len(q)
          BY <3>4
        <4>2. CASE j = Len(q) + 1
          BY <3>2, <3>3, <3>5, <4>1, <4>2
        <4>3. CASE j # Len(q) + 1
          <5>1. j \in 1 .. Len(q)
            BY <3>4, <4>3
          <5> QED  BY <3>4, <3>5, <4>1, <5>1 DEF Ascending
        <4> QED  BY <4>2, <4>3
      <3> QED  BY <2>1, <3>5, <3>6, <3>7, GoesOnAfter
    <2>5. ASSUME pipeline # <<>>
          PROVE  \E k \in DOMAIN q : q[k].id = Head(pipeline).id /\ CanFill(Tail(pipeline), Without(q, k))
      <3> HIDE DEF q
      <3>1. q \in Seq(Batch) /\ Ascending(q)
        BY <2>1 DEF q
      <3>2. Len(pipeline) > 0 /\ Len(q) > 0 /\ 1 \in DOMAIN q /\ q[1] = Head(pipeline)
        BY <2>1, <2>5, <3>1 DEF Begins
      <3> DEFINE r == Without(q, 1)
      <3>3. r \in Seq(Batch) /\ Len(r) = Len(q) - 1 /\ \A i \in 1 .. Len(q) - 1 : r[i] = q[i + 1]
        <4>1. SubSeq(q, 1, 0) = <<>>
          BY <3>1
        <4>2. /\ SubSeq(q, 2, Len(q)) \in Seq(Batch) /\ Len(SubSeq(q, 2, Len(q))) = Len(q) - 1
              /\ \A i \in 1 .. Len(q) - 1 : SubSeq(q, 2, Len(q))[i] = q[i + 1]
          BY <3>1, <3>2, RestOf
        <4> QED  BY <4>1, <4>2 DEF Without
      <3> HIDE DEF r
      <3>4. Ascending(r)
        <4> SUFFICES ASSUME NEW i \in 1 .. Len(r), NEW j \in 1 .. Len(r), i < j
                     PROVE  r[i].id < r[j].id
          BY DEF Ascending
        <4>1. i + 1 \in 1 .. Len(q) /\ j + 1 \in 1 .. Len(q) /\ i + 1 < j + 1
          BY <3>1, <3>3
        <4> QED  BY <3>1, <3>3, <4>1 DEF Ascending
      <3>5. Tail(pipeline) \in Seq(Batch) /\ Begins(Tail(pipeline), r)
        <4>1. /\ Tail(pipeline) \in Seq(Batch) /\ Len(Tail(pipeline)) = Len(pipeline) - 1
              /\ \A i \in 1 .. Len(pipeline) - 1 :
                    i + 1 \in 1 .. Len(pipeline) /\ Tail(pipeline)[i] = pipeline[i + 1]
          BY <2>1, <3>2
        <4> QED  BY <2>1, <3>1, <3>3, <4>1 DEF Begins
      <3>6. CanFill(Tail(pipeline), r)
        BY <3>3, <3>4, <3>5, GoesOnAfter
      <3> QED  BY <3>2, <3>6 DEF r
    <2>6. \E id \in 1 .. MaxWrites + 1 : Follows(id)
      BY <1>1, AnIdFollows
    <2> QED  BY <2>2, <2>3, <2>4, <2>5, <2>6 DEF SearchesSucceed
  <1>2. Spec => []Lag
    BY LagStart, LagStep, CoreAlways, OrderAlways, PTL DEF Spec
  <1> QED  BY <1>1, <1>2, CoreAlways, PTL

-----------------------------------------------------------------------------
(* The library implements an outbox                                          *)

\* A step that changes no queue and applies nothing is not seen.
LEMMA Unseen == ASSUME UNCHANGED <<queue, applied>> PROVE UNCHANGED <<Waiting, applied>>
  BY DEF Waiting, Queued

\* A batch leaves its queue once it has been delivered, or is refused.
LEMMA SettlesFront ==
    ASSUME Core, Order, Behind, pipeline # <<>>, Remove(Head(pipeline)),
           UNCHANGED <<current, tasks, applied, written>>,
           answers # <<>> \/ Head(pipeline).n \in Refused
    PROVE  Box!Next
  <1> DEFINE n == Head(pipeline).n
  <1>1. /\ Queued(current)' = Queued(current) \ {n} /\ n \in Queued(current) /\ current \in Users
        /\ \A x \in Queued(current) : n <= x
        /\ \A u \in Users : u # current => Queued(u)' = Queued(u)
    BY OrderRemove
  <1>2. n \in Numbers
    BY <1>1, QueuedAt
  <1>3. n \in applied[current] \cup Refused
    <2>1. CASE answers # <<>>
      <3>1. Head(answers) = Head(pipeline) /\ answers \in Seq(Batch)
        BY <2>1, Alive DEF Core, TypeOK
      <3>2. Head(answers) = answers[1] /\ 1 \in 1 .. Len(answers)
        BY <2>1, <3>1
      <3> QED  BY <3>1, <3>2 DEF Behind
    <2> QED  BY <2>1
  <1> HIDE DEF n
  <1>4. Waiting' = [Waiting EXCEPT ![current] = @ \ {n}]
    BY <1>1 DEF Waiting
  <1>5. Waiting[current] = Queued(current)
    BY <1>1 DEF Waiting
  <1>6. Box!Settle(current, n)
    BY <1>1, <1>3, <1>4, <1>5 DEF Box!Settle, Box!Least
  <1> QED  BY <1>1, <1>2, <1>6 DEF Box!Next

LEMMA PutsWrite == ASSUME Core, Order, RunWrite PROVE Box!Next
  <1> DEFINE n == Head(tasks).n
  <1>1. /\ Queued(current)' = Queued(current) \cup {n}
        /\ \A u \in Users : u # current => Queued(u)' = Queued(u)
        /\ \A x \in Queued(current) \cup applied[current] : x < n
        /\ n \in Numbers /\ current \in Users
    BY OrderRunWrite
  <1>2. applied' = applied /\ current' = current
    BY DEF RunWrite, server
  <1> HIDE DEF n
  <1>3. Queued(current) \subseteq Nat /\ applied[current] \subseteq Nat /\ n \in Nat
    <2>1. applied[current] \subseteq Numbers
      BY <1>1 DEF Core, TypeOK
    <2> QED  BY <1>1, <2>1, QueuedAt DEF Numbers
  <1>4. n \notin applied[current] /\ \A m \in Queued(current) : n > m
    BY <1>1, <1>3
  <1>5. Waiting[current] = Queued(current)
    BY <1>1 DEF Waiting
  <1>6. Waiting' = [Waiting EXCEPT ![current] = @ \cup {n}]
    BY <1>1, <1>2 DEF Waiting
  <1>7. Box!Put(current, n)
    BY <1>2, <1>4, <1>5, <1>6 DEF Box!Put
  <1> QED  BY <1>1, <1>7 DEF Box!Next

LEMMA DeliversHead == ASSUME Core, Order, Behind, ServerApplies PROVE Box!Next
  <1> DEFINE b == Head(wire)
  <1>1. /\ wire # <<>> /\ applied' = [applied EXCEPT ![b.by] = @ \cup {b.n}]
        /\ b.n \notin Refused /\ UNCHANGED queue
    BY DEF ServerApplies, disk
  <1>2. /\ b.by = current /\ current \in Users
        /\ Len(answers) + 1 \in 1 .. Len(queue[current])
        /\ b = queue[current][Len(answers) + 1]
        /\ \A i \in 1 .. Len(answers) : answers[i] = queue[current][i]
    BY <1>1, HeadOfWire
  <1>3. b.n \in Queued(current) /\ Queued(current) \subseteq Numbers
    BY <1>2, QueuedAt
  <1>4. Len(answers) \in Nat /\ Len(queue[current]) \in Nat
    BY <1>2 DEF Core, TypeOK
  <1> HIDE DEF b
  <1>5. ASSUME NEW m \in Queued(current), m < b.n
        PROVE  m \in applied[current]
    <2>1. PICK i \in 1 .. Len(queue[current]) : m = queue[current][i].n
      BY <1>2, QueuedAt
    <2>2. m \in Nat /\ b.n \in Nat
      BY <1>3 DEF Numbers
    <2>3. ~(Len(answers) + 1 < i) /\ i # Len(answers) + 1
      <3>1. i # Len(answers) + 1
        BY <1>2, <1>5, <2>1, <2>2
      <3>2. ASSUME Len(answers) + 1 < i  PROVE FALSE
        <4>1. queue[current][Len(answers) + 1].n < queue[current][i].n
          BY <1>2, <2>1, <3>2 DEF Order
        <4> QED  BY <1>2, <1>5, <2>1, <2>2, <4>1
      <3> QED  BY <3>1, <3>2
    <2>4. i \in 1 .. Len(answers)
      BY <1>4, <2>1, <2>3
    <2> QED  BY <1>2, <2>1, <2>4 DEF Behind
  <1>6. Waiting' = Waiting /\ Waiting[current] = Queued(current)
    BY <1>1, <1>2 DEF Waiting, Queued
  <1>7. Box!Deliver(current, b.n)
    BY <1>1, <1>2, <1>3, <1>5, <1>6 DEF Box!Deliver
  <1> QED  BY <1>2, <1>3, <1>7 DEF Box!Next

LEMMA StepOfTheBox == ASSUME Core, Order, Behind, [Next]_vars PROVE [Box!Next]_<<Waiting, applied>>
  <1>1. CASE RunWrite
    BY <1>1, PutsWrite
  <1>2. CASE ServerApplies
    BY <1>2, DeliversHead
  <1>3. CASE ResultArrives
    <2>1. /\ pipeline # <<>> /\ Remove(Head(pipeline)) /\ answers # <<>>
          /\ UNCHANGED <<current, tasks, applied, written>>
      BY <1>3, Alive DEF ResultArrives, client, server, bounds
    <2> QED  BY <2>1, SettlesFront
  <1>4. CASE RefusalArrives \/ AnswerUnreadable
    <2>1. /\ pipeline # <<>> /\ Remove(Head(pipeline))
          /\ answers # <<>> \/ (wire # <<>> /\ Head(wire).n \in Refused)
          /\ UNCHANGED <<current, tasks, applied, written>>
      BY <1>4, Alive DEF RefusalArrives, AnswerUnreadable, RejectFront, client, server, bounds
    <2>2. answers # <<>> \/ Head(pipeline).n \in Refused
      BY <2>1, Alive
    <2> QED  BY <2>1, <2>2, SettlesFront
  <1>5. CASE AppWrites \/ (\E u \in Users : AuthChanges(u)) \/ TokenAnswered \/ TokenFails \/ RunUser
    <2>1. UNCHANGED <<queue, applied>>
      BY <1>5 DEF AppWrites, AuthChanges, TokenAnswered, TokenFails, TokenComes, RunUser, disk, server
    <2> QED  BY <2>1, Unseen
  <1>6. CASE RunToken \/ RunTokenFailed \/ BackoffElapses \/ HandshakeCompletes \/ WaitForPendingWrites
    <2>1. UNCHANGED <<queue, applied>>
      BY <1>6 DEF RunToken, RunTokenFailed, BackoffElapses, HandshakeCompletes, WaitForPendingWrites,
                  disk, server
    <2> QED  BY <2>1, Unseen
  <1>7. CASE StreamFails \/ IdleTimeout \/ ServerCloses \/ DisableNetwork \/ EnableNetwork
             \/ ConnectivityChanges
    <2>1. UNCHANGED <<queue, applied>>
      BY <1>7 DEF StreamFails, IdleTimeout, ServerCloses, DisableNetwork, EnableNetwork, ConnectivityChanges, disk, server
    <2> QED  BY <2>1, Unseen
  <1>8. CASE Kill \/ DiesInHandler \/ Launch \/ UNCHANGED vars
    <2>1. UNCHANGED <<queue, applied>>
      BY <1>8 DEF Kill, DiesInHandler, Launch, Die, vars, disk, server
    <2> QED  BY <2>1, Unseen
  <1> QED  BY <1>1, <1>2, <1>3, <1>4, <1>5, <1>6, <1>7, <1>8 DEF Next

\* The library is an outbox: through breaks, kills and changes of user each
\* write of a user waits until it is delivered, or refused, and in its order.
THEOREM IsAnOutbox == Spec => ImplementsOutbox
  <1>1. Init => Box!Init
    BY DEF Init, Box!Init, Waiting, Queued
  <1>2. Core /\ Order /\ Behind /\ [Next]_vars => [Box!Next]_<<Waiting, applied>>
    BY StepOfTheBox
  <1> QED  BY <1>1, <1>2, CoreAlways, OrderAlways, BehindAlways, PTL DEF Spec, ImplementsOutbox, Box!Spec
=============================================================================
