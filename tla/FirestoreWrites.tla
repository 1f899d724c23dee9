--------------------------- MODULE FirestoreWrites ---------------------------
(* The writes of one installation of an app, in the Firestore library that    *)
(* InstaCloneFirebase and SnapChatClone carry: the queue of each user on disk *)
(* (local/), the pipeline and the stream to the server (remote/), the tasks   *)
(* of the worker queue and what the app is told (core/).  The app is any app; *)
(* of the sign-in library only the user and the token it hands over count, and *)
(* the server is external.                                                    *)
(*                                                                            *)
(* The server has done with a stream before it takes the handshake of the     *)
(* next one, so a write that was on a broken stream is applied before the     *)
(* break or never.  It always refuses the same writes.                        *)
EXTENDS Naturals, Sequences

CONSTANTS Users,       \* whoever writes, the user without an account included
          MaxPending,  \* kMaxPendingWrites
          Refused,     \* the numbers of the writes that the rules refuse
          NoToken,
          MaxWrites,   \* bound: writes of the app
          MaxTasks,    \* bound: tasks in the worker queue
          MaxTrouble   \* bound: breaks, kills, switches of user or of network

ASSUME WritesAssumption ==
    /\ MaxPending \in Nat \ {0}
    /\ MaxWrites \in Nat /\ MaxTasks \in Nat /\ MaxTrouble \in Nat
    /\ Refused \subseteq Nat
    /\ NoToken \notin Users

VARIABLES
    queue,      \* on disk: of each user the batches, in the order of their ids
    account,    \* the user of the credentials provider; survives the process
    running,    \* is there a process?
    tasks,      \* worker queue
    current,    \* current_user_: whose queue is in use
    nextId,     \* next_batch_id_
    enabled,    \* is_network_enabled_
    pipeline,   \* write_pipeline_
    stream,     \* the write stream
    wire,       \* requests the server has not processed
    answers,    \* batches whose results the client has not read
    callbacks,  \* mutation_callbacks_
    waits,      \* pending_writes_callbacks_
    clean,      \* whether every result is read, and before the end of its stream
    written,    \* how many writes the app has made; they are numbered
    trouble,    \* how much has gone wrong, for the bound
    stored,         \* history: numbers written to disk
    applied, last,  \* history: of each user, those the server has applied, and
                    \* the one it has applied last
    toldOk, toldError, awaited  \* history: what the app has been told of them

disk    == <<queue, account>>
client  == <<running, tasks, current, nextId, enabled>>
remote  == <<pipeline, stream, wire, answers>>
pending == <<callbacks, waits>>
server  == <<applied, last>>
told    == <<toldOk, toldError, awaited>>
bounds  == <<clean, written, trouble>>
vars    == <<disk, client, remote, pending, server, stored, told, bounds>>

Numbers == 1 .. MaxWrites
Batch == [id : Nat \ {0}, n : Numbers, by : Users]
Task == [kind : {"write", "user", "token", "tokenFailed"}, user : Users,
         n : 0 .. MaxWrites, live : BOOLEAN]
Stream == [state : {"initial", "starting", "open", "error", "backoff"},
           asking : BOOLEAN,             \* is a token awaited?
           user : Users \cup {NoToken},  \* of the token it was opened with
           handshake : BOOLEAN,          \* handshake_complete_
           idle : BOOLEAN]               \* does the idle timer run?

TypeOK ==
    /\ queue \in [Users -> Seq(Batch)]
    /\ account \in Users /\ current \in Users
    /\ running \in BOOLEAN /\ enabled \in BOOLEAN /\ clean \in BOOLEAN
    /\ tasks \in Seq(Task)
    /\ nextId \in Nat \ {0}
    /\ pipeline \in Seq(Batch) /\ wire \in Seq(Batch) /\ answers \in Seq(Batch)
    /\ stream \in Stream
    /\ callbacks \subseteq [user : Users, id : Nat \ {0}, n : Numbers]
    /\ waits \subseteq [id : Nat \ {0}, upto : SUBSET Numbers]
    /\ written \in 0 .. MaxWrites /\ trouble \in 0 .. MaxTrouble
    /\ stored \subseteq Numbers /\ applied \in [Users -> SUBSET Numbers]
    /\ last \in [Users -> 0 .. MaxWrites]
    /\ toldOk \subseteq Numbers /\ toldError \subseteq Numbers /\ awaited \subseteq Numbers

Closed(s) == [state |-> s, asking |-> FALSE, user |-> NoToken,
              handshake |-> FALSE, idle |-> FALSE]

Init ==
    /\ queue = [u \in Users |-> <<>>]
    /\ account \in Users /\ current = account
    /\ running = FALSE /\ enabled = FALSE
    /\ tasks = <<>>
    /\ nextId = 1
    /\ pipeline = <<>> /\ wire = <<>> /\ answers = <<>>
    /\ stream = Closed("initial")
    /\ callbacks = {} /\ waits = {}
    /\ clean \in BOOLEAN
    /\ written = 0 /\ trouble = 0
    /\ stored = {} /\ applied = [u \in Users |-> {}] /\ last = [u \in Users |-> 0]
    /\ toldOk = {} /\ toldError = {} /\ awaited = {}

Goes == trouble < MaxTrouble /\ trouble' = trouble + 1 /\ UNCHANGED <<clean, written>>

-----------------------------------------------------------------------------
(* The stream and the pipeline                                               *)

IsStarted(st) == st.state \in {"starting", "open", "backoff"}

\* Stream::Start: after an error it backs off first.
Start(st) == IF st.state = "error" THEN Closed("backoff")
             ELSE [Closed("starting") EXCEPT !.asking = TRUE]

\* Variant: a stream that has failed is left as it is.
StartIfFresh(p, st) == IF p # <<>> /\ st.state = "initial" THEN Start(st) ELSE st

StartIfNeeded(p, st) == IF p # <<>> /\ ~IsStarted(st) THEN Start(st) ELSE st

Least(a, b) == IF a <= b THEN a ELSE b

\* Variant: the batch after the next is retrieved.
LastIdTooHigh(p) == IF p = <<>> THEN 1 ELSE p[Len(p)].id

LastId(p) == IF p = <<>> THEN 0 ELSE p[Len(p)].id

\* Variant: a batch is written as soon as the stream is open.
FillBeforeHandshake(p, q, st, w) ==
    \E k \in 0 .. Len(q) :
        /\ \A i \in DOMAIN q : q[i].id > LastId(p) <=> i > k
        /\ LET new == SubSeq(q, k + 1, Least(Len(q), k + MaxPending - Len(p)))
               sent == st.state = "open" /\ new # <<>>
           IN  /\ pipeline' = p \o new
               /\ wire' = IF sent THEN w \o new ELSE w
               /\ stream' = StartIfNeeded(p \o new,
                     [st EXCEPT !.idle = ~sent /\ (@ \/ (p \o new = <<>> /\ st.state = "open"))])

\* Variant: a write does not stop the idle timer.
FillKeepingTimer(p, q, st, w) ==
    \E k \in 0 .. Len(q) :
        /\ \A i \in DOMAIN q : q[i].id > LastId(p) <=> i > k
        /\ LET new == SubSeq(q, k + 1, Least(Len(q), k + MaxPending - Len(p)))
           IN  /\ pipeline' = p \o new
               /\ wire' = IF st.handshake THEN w \o new ELSE w
               /\ stream' = StartIfNeeded(p \o new,
                     [st EXCEPT !.idle = @ \/ (p \o new = <<>> /\ st.state = "open")])

\* FillWritePipeline, of the pipeline p, the queue q, the stream st and what is
\* on its wire, w: the batches of the queue after the last in the pipeline
\* follow it, are written when the stream can take them, and start it when it
\* has not been.  With nothing to write the idle timer runs; a write stops it.
Fill(p, q, st, w) ==
    \E k \in 0 .. Len(q) :
        /\ \A i \in DOMAIN q : q[i].id > LastId(p) <=> i > k
        /\ LET new == SubSeq(q, k + 1, Least(Len(q), k + MaxPending - Len(p)))
               sent == st.handshake /\ new # <<>>
           IN  /\ pipeline' = p \o new
               /\ wire' = IF sent THEN w \o new ELSE w
               /\ stream' = StartIfNeeded(p \o new,
                     [st EXCEPT !.idle = ~sent /\ (@ \/ (p \o new = <<>> /\ st.state = "open"))])

\* Stopping or failing invalidates whatever the stream is waiting for.
Void(ts) == [i \in DOMAIN ts |-> [ts[i] EXCEPT !.live = FALSE]]

\* DisableNetworkInternal, InhibitBackoff and EnableNetwork, on the queue q.
RestartNetwork(q) ==
    /\ Fill(<<>>, q, Closed("initial"), <<>>)
    /\ answers' = <<>>

\* LoadNextBatchIdFromDb: one more than the greatest id of any user's batches.
Follows(id) ==
    /\ \A u \in Users : \A i \in DOMAIN queue[u] : queue[u][i].id < id
    /\ id = 1 \/ \E u \in Users : \E i \in DOMAIN queue[u] : queue[u][i].id + 1 = id

-----------------------------------------------------------------------------
(* The app and the sign-in library                                           *)

\* AsyncQueue: tasks run one at a time, in the order they came in.
Enqueue(t) == Len(tasks) < MaxTasks /\ tasks' = Append(tasks, t)

\* FirestoreClient::WriteMutations
AppWrites ==
    /\ running
    /\ written < MaxWrites
    /\ written' = written + 1
    /\ Enqueue([kind |-> "write", user |-> account, n |-> written + 1, live |-> FALSE])
    /\ UNCHANGED <<disk, running, current, nextId, enabled, remote, pending, server, stored,
                   told, clean, trouble>>

\* The sign-in library tells the provider's listener of a new user, and nobody
\* can read the one without the task of the other: the listener holds its lock.
AuthChanges(u) ==
    /\ running
    /\ Goes
    /\ account' = u
    /\ Enqueue([kind |-> "user", user |-> u, n |-> 0, live |-> FALSE])
    /\ UNCHANGED <<queue, running, current, nextId, enabled, remote, pending, server, stored, told>>

\* GetToken answers for the user of that moment: it asks again when another has
\* come since.  The stream that asks may be stopped before the task is run.
TokenComes(kind) ==
    /\ stream.asking
    /\ Enqueue([kind |-> kind, user |-> account, n |-> 0, live |-> TRUE])
    /\ stream' = [stream EXCEPT !.asking = FALSE]
    /\ UNCHANGED <<disk, running, current, nextId, enabled, pipeline, wire, answers, pending,
                   server, stored, told>>

TokenAnswered == TokenComes("token") /\ UNCHANGED bounds
TokenFails    == TokenComes("tokenFailed") /\ Goes

-----------------------------------------------------------------------------
(* The tasks of the worker queue                                             *)

Runs(kind) == tasks # <<>> /\ Head(tasks).kind = kind

\* SyncEngine::WriteMutations: a batch of the current user, whoever wrote; the
\* callback of an id that has one already is not kept.
RunWrite ==
    /\ Runs("write")
    /\ LET b == [id |-> nextId, n |-> Head(tasks).n, by |-> Head(tasks).user]
       IN  /\ queue' = [queue EXCEPT ![current] = Append(@, b)]
           /\ callbacks' =
                IF \E c \in callbacks : c.user = current /\ c.id = nextId THEN callbacks
                ELSE callbacks \cup {[user |-> current, id |-> nextId, n |-> b.n]}
           /\ stored' = stored \cup {b.n}
    /\ nextId' = nextId + 1
    /\ IF enabled THEN Fill(pipeline, queue'[current], stream, wire)
                  ELSE UNCHANGED <<pipeline, stream, wire>>
    /\ tasks' = Tail(tasks)
    /\ UNCHANGED <<account, running, current, enabled, answers, waits, server, told, bounds>>

\* Variant: the remote store does not hear of the change.
RunUserKeepingStream ==
    /\ Runs("user")
    /\ LET u == Head(tasks).user IN
       /\ current' = u
       /\ IF u = current THEN UNCHANGED <<nextId, waits>>
          ELSE /\ waits' = {}
               /\ nextId' \in 1 .. MaxWrites + 1 /\ Follows(nextId')
    /\ tasks' = Tail(tasks)
    /\ UNCHANGED <<disk, running, enabled, remote, callbacks, server, stored, told, bounds>>

\* SyncEngine::HandleCredentialChange.  Another user's queue is opened, and who
\* waited for the writes of the last one waits no more; in any case the network
\* restarts, unless it is disabled.
RunUser ==
    /\ Runs("user")
    /\ LET u == Head(tasks).user IN
       /\ current' = u
       /\ IF u = current THEN UNCHANGED <<nextId, waits>>
          ELSE /\ waits' = {}
               /\ nextId' \in 1 .. MaxWrites + 1 /\ Follows(nextId')
       /\ IF enabled
          THEN RestartNetwork(queue[u]) /\ tasks' = Void(Tail(tasks))
          ELSE tasks' = Tail(tasks) /\ UNCHANGED remote
    /\ UNCHANGED <<disk, running, enabled, callbacks, server, stored, told, bounds>>

\* ResumeStartWithCredentials: the stream opens and the handshake is written.
\* A stream that has been stopped since it asked does nothing.
RunToken ==
    /\ Runs("token")
    /\ stream' = IF Head(tasks).live
                 THEN [Closed("open") EXCEPT !.user = Head(tasks).user] ELSE stream
    /\ tasks' = Tail(tasks)
    /\ UNCHANGED <<disk, running, current, nextId, enabled, pipeline, wire, answers, pending,
                   server, stored, told, bounds>>

\* Variant: nobody starts the stream again.
TokenFailureIsFinal ==
    /\ Runs("tokenFailed")
    /\ stream' = IF Head(tasks).live THEN Closed("error") ELSE stream
    /\ tasks' = Tail(tasks)
    /\ UNCHANGED <<disk, running, current, nextId, enabled, pipeline, wire, answers, pending,
                   server, stored, told, bounds>>

RunTokenFailed ==
    /\ Runs("tokenFailed")
    /\ stream' = IF Head(tasks).live THEN StartIfNeeded(pipeline, Closed("error")) ELSE stream
    /\ tasks' = Tail(tasks)
    /\ UNCHANGED <<disk, running, current, nextId, enabled, pipeline, wire, answers, pending,
                   server, stored, told, bounds>>

\* Variant: the first batch is waited for.
WaitForTheFirst ==
    /\ running /\ queue[current] # <<>> /\ waits = {}
    /\ waits' = {[id |-> queue[current][1].id,
                  upto |-> {queue[current][i].n : i \in DOMAIN queue[current]}]}
    /\ UNCHANGED <<disk, client, remote, callbacks, server, stored, told, bounds>>

\* RegisterPendingWritesCallback, for the last batch of the current user.  With
\* none the app is called back at once.
WaitForPendingWrites ==
    /\ running /\ queue[current] # <<>> /\ waits = {}
    /\ waits' = {[id |-> LastId(queue[current]),
                  upto |-> {queue[current][i].n : i \in DOMAIN queue[current]}]}
    /\ UNCHANGED <<disk, client, remote, callbacks, server, stored, told, bounds>>

-----------------------------------------------------------------------------
(* The server and its answers                                                *)

BackoffElapses ==
    /\ stream.state = "backoff"
    /\ stream' = Start(Closed("initial"))
    /\ UNCHANGED <<disk, client, pipeline, wire, answers, pending, server, stored, told, bounds>>

\* OnWriteStreamHandshakeComplete: the whole pipeline is written.
HandshakeCompletes ==
    /\ stream.state = "open" /\ ~stream.handshake
    /\ stream' = [stream EXCEPT !.handshake = TRUE, !.idle = FALSE]
    /\ wire' = pipeline
    /\ UNCHANGED <<disk, client, pipeline, answers, pending, server, stored, told, bounds>>

ServerApplies ==
    /\ wire # <<>> /\ Head(wire).n \notin Refused
    /\ applied' = [applied EXCEPT ![Head(wire).by] = @ \cup {Head(wire).n}]
    /\ last' = [last EXCEPT ![Head(wire).by] = Head(wire).n]
    /\ wire' = Tail(wire)
    /\ answers' = Append(answers, Head(wire))
    /\ UNCHANGED <<disk, client, pipeline, stream, pending, stored, told, bounds>>

\* NotifyUser and TriggerPendingWriteCallbacks, of the batch b.
CallbackOf(b) == {c \in callbacks : c.user = current /\ c.id = b.id}
NumbersTold(b) == {c.n : c \in CallbackOf(b)}
Trigger(b) ==
    LET hit == {w \in waits : w.id = b.id}
    IN  awaited' = awaited \cup UNION {w.upto : w \in hit} /\ waits' = waits \ hit

\* RemoveMutationBatch: the batch of that id in the queue of the current user.
Remove(b) ==
    \E k \in DOMAIN queue[current] :
        /\ queue[current][k].id = b.id
        /\ queue' = [queue EXCEPT ![current] =
                        SubSeq(@, 1, k - 1) \o SubSeq(@, k + 1, Len(@))]

\* OnWriteStreamMutationResult: the result is that of the front batch.
ResultArrives ==
    /\ answers # <<>>
    /\ toldOk' = toldOk \cup NumbersTold(Head(pipeline))
    /\ callbacks' = callbacks \ CallbackOf(Head(pipeline))
    /\ Trigger(Head(pipeline))
    /\ Remove(Head(pipeline))
    /\ Fill(Tail(pipeline), queue'[current], stream, wire)
    /\ answers' = Tail(answers)
    /\ UNCHANGED <<account, client, server, stored, toldError, bounds>>

\* HandleWriteError, of a permanent error: the front batch is rejected, and the
\* stream starts anew at once when there is more to write.
RejectFront ==
    /\ Remove(Head(pipeline))
    /\ toldError' = toldError \cup NumbersTold(Head(pipeline))
    /\ callbacks' = callbacks \ CallbackOf(Head(pipeline))
    /\ Trigger(Head(pipeline))
    /\ Fill(Tail(pipeline), queue'[current], Closed("initial"), <<>>)
    /\ answers' = <<>>
    /\ UNCHANGED <<account, client, server, stored, toldOk, bounds>>

\* The stream ends with the refusal of the next request.  A failed write may be
\* noticed before a result that is there to read; it cancels the read.
RefusalArrives ==
    /\ wire # <<>> /\ Head(wire).n \in Refused
    /\ clean => answers = <<>>
    /\ RejectFront

\* A result that does not parse closes the stream with a permanent error.
AnswerUnreadable ==
    /\ ~clean /\ answers # <<>>
    /\ RejectFront

\* Variant: results of the broken stream are read after it.
StreamFailsKeepingAnswers ==
    /\ stream.state = "open"
    /\ Goes
    /\ stream' = StartIfNeeded(pipeline, Closed("error"))
    /\ wire' = <<>>
    /\ UNCHANGED <<disk, client, pipeline, answers, pending, server, stored, told>>

\* A transient error, before the handshake or after: all is sent again.
StreamFails ==
    /\ stream.state = "open"
    /\ Goes
    /\ stream' = StartIfNeeded(pipeline, Closed("error"))
    /\ wire' = <<>> /\ answers' = <<>>
    /\ UNCHANGED <<disk, client, pipeline, pending, server, stored, told>>

IdleTimeout ==
    /\ stream.idle
    /\ stream' = Closed("initial")
    /\ wire' = <<>> /\ answers' = <<>>
    /\ UNCHANGED <<disk, client, pipeline, pending, server, stored, told, bounds>>

\* The server ends the stream with status OK, as it does when it owes the client
\* nothing.  With a write outstanding the assertion of remote_store.cc 470 would
\* end the process, which is a Kill.
ServerCloses ==
    /\ stream.state = "open" /\ pipeline = <<>>
    /\ stream' = Closed("initial")
    /\ wire' = <<>> /\ answers' = <<>>
    /\ UNCHANGED <<disk, client, pipeline, pending, server, stored, told, bounds>>

-----------------------------------------------------------------------------
(* The network switch and the process                                        *)

\* An error that is not being retried outlives the switch.
DisableNetwork ==
    /\ running /\ enabled
    /\ Goes
    /\ enabled' = FALSE
    /\ pipeline' = <<>> /\ wire' = <<>> /\ answers' = <<>>
    /\ stream' = IF IsStarted(stream) THEN Closed("initial") ELSE stream
    /\ tasks' = Void(tasks)
    /\ UNCHANGED <<disk, running, current, nextId, pending, server, stored, told>>

EnableNetwork ==
    /\ running
    /\ enabled' = TRUE
    /\ Fill(pipeline, queue[current], stream, wire)
    /\ UNCHANGED <<disk, running, tasks, current, nextId, answers, pending, server, stored,
                   told, bounds>>

ConnectivityChanges ==
    /\ running /\ enabled
    /\ Goes
    /\ RestartNetwork(queue[current])
    /\ tasks' = Void(tasks)
    /\ UNCHANGED <<disk, running, current, nextId, enabled, pending, server, stored, told>>

Die ==
    /\ running' = FALSE /\ enabled' = FALSE
    /\ tasks' = <<>>
    /\ pipeline' = <<>> /\ wire' = <<>> /\ answers' = <<>>
    /\ stream' = Closed("initial")
    /\ callbacks' = {} /\ waits' = {}
    /\ UNCHANGED <<disk, current, nextId, server, stored>>

Kill == running /\ Goes /\ Die /\ UNCHANGED told

\* The process ends after the app has been told of a result and before the
\* batch is off the disk.
DiesInHandler ==
    /\ answers # <<>>
    /\ Goes
    /\ toldOk' = toldOk \cup NumbersTold(Head(pipeline))
    /\ awaited' = awaited \cup UNION {w.upto : w \in {v \in waits : v.id = Head(pipeline).id}}
    /\ Die
    /\ UNCHANGED toldError

\* FirestoreClient::Initialize, the first task there is.
Launch ==
    /\ ~running
    /\ running' = TRUE /\ enabled' = TRUE
    /\ current' = account
    /\ nextId' \in 1 .. MaxWrites + 1 /\ Follows(nextId')
    /\ RestartNetwork(queue[account])
    /\ UNCHANGED <<disk, tasks, pending, server, stored, told, bounds>>

Next ==
    \/ AppWrites \/ WaitForPendingWrites
    \/ \E u \in Users : AuthChanges(u)
    \/ TokenAnswered \/ TokenFails
    \/ RunWrite \/ RunUser \/ RunToken \/ RunTokenFailed
    \/ BackoffElapses \/ HandshakeCompletes \/ ServerApplies
    \/ ResultArrives \/ RefusalArrives \/ AnswerUnreadable
    \/ StreamFails \/ IdleTimeout \/ ServerCloses
    \/ DisableNetwork \/ EnableNetwork \/ ConnectivityChanges
    \/ Kill \/ DiesInHandler \/ Launch

Spec == Init /\ [][Next]_vars

\* The worker runs its tasks; tokens, timers and the server come back in the end.
Fairness ==
    /\ WF_vars(RunWrite \/ RunUser \/ RunToken \/ RunTokenFailed)
    /\ WF_vars(TokenAnswered)
    /\ WF_vars(BackoffElapses)
    /\ WF_vars(HandshakeCompletes)
    /\ WF_vars(ServerApplies)
    /\ WF_vars(ResultArrives \/ RefusalArrives)

FairSpec == Spec /\ Fairness

-----------------------------------------------------------------------------
\* What the library asserts of itself.  The results on their way are those of
\* the front of the pipeline, in its order, for they carry no id; each batch of
\* the pipeline can be removed from the current user's queue; a stream that is
\* about to stop for idleness is not needed; a token that is still wanted finds
\* the stream starting (remote_store.cc 451, 470, 475; local_store.cc 297;
\* stream.cc 171; leveldb_mutation_queue.cc 197-202).
AssertionsHold ==
    /\ Len(pipeline) <= MaxPending
    /\ Len(answers) <= Len(pipeline)
    /\ \A i \in DOMAIN answers : answers[i] = pipeline[i]
    /\ \A i \in DOMAIN pipeline : \E k \in DOMAIN queue[current] : queue[current][k] = pipeline[i]
    /\ stream.idle => pipeline = <<>>
    /\ \A i \in DOMAIN tasks :
          (tasks[i].kind \in {"token", "tokenFailed"} /\ tasks[i].live) => stream.state = "starting"

\* What one user of the phone wrote never leaves under the name of another,
\* however sign-ins race the worker queue and the answers of GetToken: it is
\* kept in that user's queue and sent with that user's token (sync_engine.cc
\* 207-217, 263-279; stream.cc 145-156; remote_store.cc 573-581).
WrittenAsTheirUser ==
    /\ \A u \in Users : \A i \in DOMAIN queue[u] : queue[u][i].by = u
    /\ \A i \in DOMAIN wire : wire[i].by = stream.user

\* Nothing that reached the disk is lost, whatever breaks and whenever the
\* process ends: it is applied, refused for good, or still in its user's queue
\* (local_store.cc 252-307, remote_store.cc 446-541).
Queued(u) == {queue[u][i].n : i \in DOMAIN queue[u]}
Applied == UNION {applied[u] : u \in Users}
NothingLost == stored \subseteq Applied \cup Refused \cup UNION {Queued(u) : u \in Users}

\* An app that is told that a write succeeded has it on the server; where
\* results are read before the stream's end, one that is told of an error has
\* it refused; and waitForPendingWrites comes back for writes that are settled
\* (sync_engine.cc 361-398, 438-464).
ToldTruly ==
    /\ toldOk \subseteq Applied
    /\ clean => toldError \subseteq Refused
    /\ awaited \subseteq Applied \cup Refused

\* When the queue of a user is empty the last of his writes that the server has
\* applied is the latest of them, although a broken stream has earlier ones
\* applied again (remote_store.cc 384-404, 436-444).
Settled == \A u \in Users : queue[u] = <<>> => \A n \in applied[u] : n <= last[u]

\* Nothing that waits is forgotten, through failing tokens, broken streams and
\* users that come and go: while the network is enabled as many batches as fit
\* are in the pipeline, the pipeline has a stream under way, a stream that
\* starts has its token on the way, and what it has sent is with the server or
\* answered; a user the queue does not belong to is on the way to it.  A task, a
\* token, a timer or an answer is then always due (remote_store.cc 384-434,
\* 446-541; stream.cc 95-175; sync_engine.cc 263-279).
NeverStalls ==
    enabled =>
        /\ Len(pipeline) = Least(Len(queue[current]), MaxPending)
        /\ pipeline # <<>> => IsStarted(stream)
        /\ stream.state = "starting" => stream.asking \/ \E i \in DOMAIN tasks : tasks[i].live
        /\ pipeline # <<>> /\ stream.handshake => wire # <<>> \/ answers # <<>>
        /\ current # account => \E i \in DOMAIN tasks : tasks[i].kind = "user"

Waiting == [u \in Users |-> Queued(u)]
Box == INSTANCE Outbox WITH outbox <- Waiting, delivered <- applied

\* The library is an Outbox (see there) through breaks, kills and users that
\* come and go: writes are delivered in the order of each user, none is jumped.
ImplementsOutbox == Box!Spec

\* Once the troubles end, what a user has written gets through, as long as he
\* stays signed in, the network is enabled and the process goes on.
WritesGetThrough ==
    \A u \in Users : queue[u] # <<>> ~>
        (queue[u] = <<>> \/ account # u \/ ~enabled)
=============================================================================
