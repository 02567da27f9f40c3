------------------------------- MODULE Daemon -------------------------------
(***************************************************************************)
(* The threads of tilemaxsimd around the engine: the main thread that      *)
(* accepts connections, one reader per connection that admits its request, *)
(* the scheduler that runs admitted requests quantum by quantum, and the   *)
(* status server; with signals, deadlines, clients that leave, failing     *)
(* reads and kernels, and shutdown.                                        *)
(*                                                                         *)
(* Each connection carries one request.  RequestQueue says which request   *)
(* pop takes, and Engine what a quantum does; here pop takes any of them   *)
(* and a quantum succeeds or fails.  A deadline passes at any time, once.  *)
(* SIGHUP is left out: the reload that the scheduler then does before a    *)
(* turn of its loop touches only the engine's index of shards.             *)
(***************************************************************************)
EXTENDS Integers, Sequences, FiniteSets, Functions

CONSTANTS
    Conns, Tenants,
    BytesOf, QuantaOf,                  \* the request of each connection
    Settings                            \* the limits; whose the connections are; bounds: whose
                                        \* client may leave, whose deadline may pass
ASSUME DaemonAssumption ==
    /\ IsFiniteSet(Conns)
    /\ BytesOf \in [Conns -> Nat \ {0}]
    /\ QuantaOf \in [Conns -> Nat \ {0}]
    /\ Settings \subseteq [connections : Nat \ {0}, queued : Nat \ {0}, tenant : Nat \ {0},
                     bytes : Nat, of : [Conns -> Tenants], leavers : SUBSET Conns, hasty : SUBSET Conns]

VARIABLES
    main,               \* where the main thread is
    shutdown,           \* SHUTDOWN_REQUESTED
    term,               \* SIGTERM was received
    ready,              \* metrics.ready
    broken,             \* why main stops, if not for a signal: scheduler_failed, status_failed, fatal_error
    status,             \* the status server: "serving", "handling", "exited" or "died"
    sched,              \* where the scheduler is
    channel_open,
    fatal,              \* a CUDA failure has stopped the scheduler
    reader,             \* the reader of each connection
    conn,               \* where each connection is
    gone, expired,      \* clients that left, deadlines that passed
    setting,            \* --max-connections, --max-queued-requests, --max-tenant-queued-requests,
                        \* --max-inflight-request-gb; the tenant of each connection
    left,               \* quanta that a request still needs
    answers,            \* the responses written to each connection
    channel, queue,     \* admitted requests
    draining,           \* expired requests taken out of the queue
    active_connections, pending_total, pending_tenants, used

flags == <<shutdown, term, ready, broken>>
threads == <<main, status, flags>>
scheduler == <<sched, channel_open, fatal>>
clients == <<gone, expired, setting>>
admission == <<active_connections, pending_total, pending_tenants, used>>
work == <<conn, left, answers, channel, queue, draining>>
vars == <<threads, scheduler, reader, clients, work, admission>>

Init ==
    /\ main = "top" /\ shutdown = FALSE /\ term = FALSE /\ ready = TRUE /\ broken = {}
    /\ status = "serving" /\ sched = "top" /\ channel_open = TRUE /\ fatal = FALSE
    /\ reader = [c \in Conns |-> "none"] /\ conn = [c \in Conns |-> "none"]
    /\ setting \in Settings /\ gone = {} /\ expired = {} /\ left = QuantaOf
    /\ answers = [c \in Conns |-> <<>>]
    /\ channel = <<>> /\ queue = {} /\ draining = {}
    /\ active_connections = 0 /\ pending_total = 0 /\ used = 0
    /\ pending_tenants = [t \in Tenants |-> 0]

Listening == main \in {"top", "check", "accept"}

write_response(c, r) == answers' = [answers EXCEPT ![c] = Append(@, r)]

-----------------------------------------------------------------------------
(* Clients, signals and time.                                              *)

Connect(c) ==
    /\ conn[c] = "none" /\ Listening
    /\ conn' = [conn EXCEPT ![c] = "backlog"]
    /\ UNCHANGED <<threads, scheduler, reader, clients, left, answers, channel, queue, draining, admission>>

Leave(c) ==
    /\ c \in setting.leavers \ gone /\ conn[c] \notin {"none", "closed"}
    /\ gone' = gone \cup {c}
    /\ UNCHANGED <<threads, scheduler, reader, expired, setting, work, admission>>

Expire(c) ==
    /\ c \in setting.hasty \ expired /\ reader[c] # "none" /\ conn[c] # "closed"
    /\ expired' = expired \cup {c}
    /\ UNCHANGED <<threads, scheduler, reader, gone, setting, work, admission>>

Terminate ==
    /\ ~term
    /\ term' = TRUE /\ shutdown' = TRUE
    /\ UNCHANGED <<main, ready, broken, status, scheduler, reader, clients, work, admission>>

-----------------------------------------------------------------------------
(* The main thread.                                                        *)

MainTop ==
    /\ main = "top"
    /\ main' = IF shutdown THEN "stop" ELSE "check"
    /\ UNCHANGED <<flags, status, scheduler, reader, clients, work, admission>>

Break(why) ==
    /\ broken' = broken \cup {why} /\ ready' = FALSE /\ shutdown' = TRUE /\ main' = "stop"

MainCheck ==
    /\ main = "check"
    /\ IF sched = "finished" THEN Break("scheduler")
       ELSE IF status \in {"exited", "died"} THEN Break("status")
       ELSE main' = "accept" /\ UNCHANGED <<broken, ready, shutdown>>
    /\ UNCHANGED <<term, status, scheduler, reader, clients, work, admission>>

NoConnection ==
    /\ main = "accept" /\ \A c \in Conns : conn[c] # "backlog"
    /\ main' = "top"
    /\ UNCHANGED <<flags, status, scheduler, reader, clients, work, admission>>

AcceptFails ==
    /\ main = "accept"
    /\ Break("accept")
    /\ UNCHANGED <<term, status, scheduler, reader, clients, work, admission>>

try_acquire_reader == active_connections < setting.connections

\* One turn takes one connection from each listener.
Accept(c) ==
    /\ main = "accept" /\ conn[c] = "backlog"
    /\ main' \in {"accept", "top"}
    /\ IF ~shutdown /\ try_acquire_reader
       THEN /\ active_connections' = active_connections + 1
            /\ reader' = [reader EXCEPT ![c] = "header"]
            /\ conn' = [conn EXCEPT ![c] = "reader"]
       ELSE /\ conn' = [conn EXCEPT ![c] = "closed"]
            /\ UNCHANGED <<active_connections, reader>>
    /\ UNCHANGED <<flags, status, scheduler, clients, left, answers, channel, queue, draining, pending_total, pending_tenants, used>>

\* The thread cannot be spawned.
SpawnFails(c) ==
    /\ main = "accept" /\ conn[c] = "backlog" /\ ~shutdown /\ try_acquire_reader
    /\ conn' = [conn EXCEPT ![c] = "closed"]
    /\ Break("spawn")
    /\ UNCHANGED <<term, status, scheduler, reader, clients, left, answers, channel, queue, draining, admission>>

\* The listeners are closed.
MainStop ==
    /\ main = "stop"
    /\ main' = "join" /\ shutdown' = TRUE
    /\ conn' = [c \in Conns |-> IF conn[c] = "backlog" THEN "closed" ELSE conn[c]]
    /\ UNCHANGED <<term, ready, broken, status, scheduler, reader, clients, left, answers, channel, queue, draining, admission>>

Readers == {c \in Conns : reader[c] \notin {"none", "exited"}}

\* Mutant: the scheduler is joined while main still holds a sender.
JoinScheduler ==
    /\ main = "join" /\ Readers = {} /\ sched = "finished"
    /\ main' = "wait" /\ ready' = FALSE
    /\ UNCHANGED <<shutdown, term, broken, status, scheduler, reader, clients, work, admission>>

MainJoin ==
    /\ main = "join" /\ Readers = {}
    /\ main' = "wait" /\ ready' = FALSE
    /\ UNCHANGED <<shutdown, term, broken, status, scheduler, reader, clients, work, admission>>

MainExit ==
    /\ main = "wait" /\ sched = "finished" /\ status \in {"exited", "died"}
    /\ main' = IF broken # {} \/ fatal THEN "failed" ELSE "exited"
    /\ UNCHANGED <<flags, status, scheduler, reader, clients, work, admission>>

-----------------------------------------------------------------------------
(* The status server: GET /healthz.                                        *)

StatusAccept ==
    /\ status = "serving"
    /\ status' = IF shutdown THEN "exited" ELSE "handling"
    /\ UNCHANGED <<main, flags, scheduler, reader, clients, work, admission>>

StatusAnswer ==
    /\ status = "handling"
    /\ status' = "serving"
    /\ UNCHANGED <<main, flags, scheduler, reader, clients, work, admission>>

StatusDies ==
    /\ status = "serving"
    /\ status' = "died"
    /\ UNCHANGED <<main, flags, scheduler, reader, clients, work, admission>>

-----------------------------------------------------------------------------
(* Readers: read_and_enqueue.                                              *)

Moves(c, from, to) == reader[c] = from /\ reader' = [reader EXCEPT ![c] = to]

\* The reader answers with a failure and returns.
Refuse(c, from, to) ==
    /\ Moves(c, from, to)
    /\ write_response(c, "failure")
    /\ UNCHANGED <<threads, scheduler, clients, conn, left, channel, queue, draining, admission>>

\* The header cannot be read in time, or the frame is too long.
HeaderFails(c) == Refuse(c, "header", "returned")

\* ByteAdmission::try_acquire for the whole frame.
try_acquire_bytes(c) == used + BytesOf[c] <= setting.bytes

ReadHeader(c) ==
    IF try_acquire_bytes(c)
    THEN /\ Moves(c, "header", "body")
         /\ used' = used + BytesOf[c]
         /\ UNCHANGED <<threads, scheduler, clients, work, active_connections, pending_total,
                        pending_tenants>>
    ELSE Refuse(c, "header", "returned")

\* The body cannot be read, or it is not a valid request.
BodyFails(c) == Refuse(c, "body", "refused")

\* PendingAdmission::try_acquire
try_acquire_pending(c) ==
    pending_total < setting.queued /\ pending_tenants[setting.of[c]] < setting.tenant

\* The deadline is checked first.
Admit(c) ==
    IF c \notin expired /\ try_acquire_pending(c)
    THEN /\ Moves(c, "body", "admitted")
         /\ pending_total' = pending_total + 1
         /\ pending_tenants' = [pending_tenants EXCEPT ![setting.of[c]] = @ + 1]
         /\ UNCHANGED <<threads, scheduler, clients, work, active_connections, used>>
    ELSE Refuse(c, "body", "refused")

\* The bytes of the frames of some connections.
FrameBytes(some) == UNION {{c} \X (1 .. BytesOf[c]) : c \in some}

\* Drop of the permits of a request: BytePermit, PendingPermit.
release_bytes(done) == used' = used - Cardinality(FrameBytes(done))

\* Mutant: the count of the tenant stays.
ReleaseTotal(done) ==
    /\ pending_total' = pending_total - Cardinality(done)
    /\ UNCHANGED pending_tenants

release_pending(done) ==
    /\ pending_total' = pending_total - Cardinality(done)
    /\ pending_tenants' = [t \in Tenants |->
           pending_tenants[t] - Cardinality({c \in done : setting.of[c] = t})]

\* Requests are dropped: their connections are closed, their permits returned.
Drop(done) ==
    /\ conn' = [c \in Conns |-> IF c \in done THEN "closed" ELSE conn[c]]
    /\ release_bytes(done) /\ release_pending(done)

\* try_send: without room, or without a scheduler, the request comes back and fails.
try_send(c) ==
    /\ Moves(c, "admitted", "returned")
    /\ IF sched # "finished" /\ Len(channel) < setting.queued
       THEN /\ channel' = Append(channel, c)
            /\ conn' = [conn EXCEPT ![c] = "work"]
            /\ UNCHANGED <<answers, pending_total, pending_tenants, used>>
       ELSE /\ write_response(c, "failure")
            /\ Drop({c})
            /\ UNCHANGED channel
    /\ UNCHANGED <<threads, scheduler, clients, left, queue, draining, active_connections>>

\* The frame of a refused request is dropped.
DropFrame(c) ==
    /\ Moves(c, "refused", "returned")
    /\ release_bytes({c})
    /\ UNCHANGED <<threads, scheduler, clients, work, active_connections, pending_total,
                   pending_tenants>>

\* ReaderPermit is dropped and the thread ends.
ReaderExit(c) ==
    /\ Moves(c, "returned", "exited")
    /\ active_connections' = active_connections - 1
    /\ conn' = [conn EXCEPT ![c] = IF @ = "reader" THEN "closed" ELSE @]
    /\ UNCHANGED <<threads, scheduler, clients, left, answers, channel, queue, draining,
                   pending_total, pending_tenants, used>>

-----------------------------------------------------------------------------
(* The scheduler: run_scheduler.                                           *)

\* The loop ends when no sender is left and the queue is empty.
SchedTop ==
    /\ sched = "top"
    /\ sched' = CASE queue # {} -> "receive"
                 [] queue = {} /\ channel_open -> "wait"
                 [] OTHER -> "finished"
    /\ UNCHANGED <<threads, channel_open, fatal, reader, clients, work, admission>>

\* The senders: main's, until it has joined the readers, and those of the readers.
Disconnected == main \in {"wait", "exited", "failed"} /\ Readers = {} /\ channel = <<>>

\* enqueue_work: waiting for the first request, or within the batch window.
Receive ==
    /\ sched \in {"wait", "receive"} /\ channel_open /\ channel # <<>>
    /\ queue' = queue \cup {Head(channel)} /\ channel' = Tail(channel)
    /\ sched' = "receive"
    /\ UNCHANGED <<threads, channel_open, fatal, reader, clients, conn, left, answers, draining,
                   admission>>

\* Mutant: a shutdown ends the wait for requests.
HangUpAtShutdown ==
    /\ sched \in {"wait", "receive"} /\ channel_open /\ shutdown
    /\ channel_open' = FALSE /\ sched' = "drain"
    /\ UNCHANGED <<threads, fatal, reader, clients, work, admission>>

HangUp ==
    /\ sched \in {"wait", "receive"} /\ channel_open /\ Disconnected
    /\ channel_open' = FALSE /\ sched' = "drain"
    /\ UNCHANGED <<threads, fatal, reader, clients, work, admission>>

\* The wait for the first request, or the batch window, ends.
TimesOut ==
    /\ sched \in {"wait", "receive"}
    /\ sched = "wait" => channel = <<>> /\ ~Disconnected
    /\ sched' = IF sched = "wait" THEN "top" ELSE "drain"
    /\ UNCHANGED <<threads, channel_open, fatal, reader, clients, work, admission>>

drain_expired ==
    /\ sched = "drain"
    /\ draining' = queue \cap expired /\ queue' = queue \ expired
    /\ sched' = "pop"
    /\ UNCHANGED <<threads, channel_open, fatal, reader, clients, conn, left, answers, channel,
                   admission>>

AnswerExpired(c) ==
    /\ sched = "pop" /\ c \in draining
    /\ draining' = draining \ {c}
    /\ write_response(c, "failure")
    /\ Drop({c})
    /\ UNCHANGED <<threads, scheduler, reader, clients, left, channel, queue, active_connections>>

NothingToPop ==
    /\ sched = "pop" /\ draining = {} /\ queue = {}
    /\ sched' = "top"
    /\ UNCHANGED <<threads, channel_open, fatal, reader, clients, work, admission>>

\* The client has left: nobody to answer.
PopGone(c) ==
    /\ sched = "pop" /\ draining = {} /\ c \in queue \cap gone
    /\ queue' = queue \ {c} /\ sched' = "top"
    /\ Drop({c})
    /\ UNCHANGED <<threads, channel_open, fatal, reader, clients, left, answers, channel, draining,
                   active_connections>>

\* The request is answered and dropped.
Respond(c, r) ==
    /\ sched' = "top"
    /\ queue' = queue \ {c}
    /\ write_response(c, r)
    /\ Drop({c})
    /\ UNCHANGED <<threads, channel_open, fatal, reader, clients, channel, draining,
                   active_connections>>

\* Its deadline has passed since, or the engine fails.
PopFails(c) ==
    /\ sched = "pop" /\ draining = {} /\ c \in queue
    /\ Respond(c, "failure")
    /\ UNCHANGED left

\* Mutant: a request whose deadline passes in its first quantum is answered with what it has.
QuantumPartial(c) ==
    /\ sched = "pop" /\ draining = {} /\ c \in queue \ gone
    /\ left' = [left EXCEPT ![c] = @ - 1]
    /\ IF c \in expired \/ left[c] = 1 THEN Respond(c, "success")
       ELSE /\ sched' = "top"
            /\ UNCHANGED <<threads, channel_open, fatal, reader, clients, conn, answers, channel,
                           queue, draining, admission>>

\* A quantum runs; the request fails, goes on in the queue, or is done.
Quantum(c) ==
    /\ sched = "pop" /\ draining = {} /\ c \in queue \ gone
    /\ left' = [left EXCEPT ![c] = @ - 1]
    /\ IF c \in expired THEN Respond(c, "failure")
       ELSE IF left[c] = 1 THEN Respond(c, "success")
       ELSE /\ sched' = "top"
            /\ UNCHANGED <<threads, channel_open, fatal, reader, clients, conn, answers, channel,
                           queue, draining, admission>>

\* is_fatal_cuda_diagnostic: the scheduler stops after it has answered.
FatalFailure(c) ==
    /\ sched = "pop" /\ draining = {} /\ c \in queue \ gone
    /\ fatal' = TRUE /\ ready' = FALSE /\ sched' = "dying"
    /\ write_response(c, "failure")
    /\ UNCHANGED <<main, status, shutdown, term, broken, channel_open, reader, clients, conn, left,
                   channel, queue, draining, admission>>

\* The queue and the channel are dropped with the requests in them.
SchedulerDies ==
    /\ sched = "dying"
    /\ sched' = "finished" /\ queue' = {} /\ channel' = <<>>
    /\ Drop(queue \cup Range(channel))
    /\ UNCHANGED <<threads, channel_open, fatal, reader, clients, left, answers, draining,
                   active_connections>>

-----------------------------------------------------------------------------
MainNext ==
    \/ MainTop \/ MainCheck \/ NoConnection \/ AcceptFails \/ MainStop \/ MainJoin \/ MainExit
    \/ \E c \in Conns : Accept(c) \/ SpawnFails(c)

StatusNext == StatusAccept \/ StatusAnswer \/ StatusDies

ReaderNext(c) ==
    \/ HeaderFails(c) \/ ReadHeader(c) \/ BodyFails(c) \/ Admit(c) \/ try_send(c)
    \/ DropFrame(c) \/ ReaderExit(c)

SchedulerNext ==
    \/ SchedTop \/ Receive \/ HangUp \/ TimesOut \/ drain_expired \/ NothingToPop \/ SchedulerDies
    \/ \E c \in Conns : \/ AnswerExpired(c) \/ PopGone(c) \/ PopFails(c) \/ Quantum(c)
                        \/ FatalFailure(c)

Finished == main \in {"exited", "failed"} /\ UNCHANGED vars

Next ==
    \/ MainNext \/ StatusNext \/ SchedulerNext \/ Terminate
    \/ \E c \in Conns : ReaderNext(c) \/ Connect(c) \/ Leave(c) \/ Expire(c)
    \/ Finished

Spec == Init /\ [][Next]_vars

\* Each thread runs; reads and writes end, for sockets have timeouts.
FairSpec ==
    /\ Spec
    /\ WF_vars(MainNext) /\ WF_vars(StatusNext) /\ WF_vars(SchedulerNext)
    /\ \A c \in Conns : WF_vars(ReaderNext(c))

-----------------------------------------------------------------------------
\* Every variable has its type; connections, frame bytes and the requests of a tenant
\* stay within their limits.
TypeOK ==
    /\ main \in {"top", "check", "accept", "stop", "join", "wait", "exited", "failed"}
    /\ status \in {"serving", "handling", "exited", "died"}
    /\ sched \in {"top", "wait", "receive", "drain", "pop", "dying", "finished"}
    /\ shutdown \in BOOLEAN /\ term \in BOOLEAN /\ ready \in BOOLEAN
    /\ channel_open \in BOOLEAN /\ fatal \in BOOLEAN
    /\ broken \subseteq {"scheduler", "status", "accept", "spawn"}
    /\ reader \in [Conns -> {"none", "header", "body", "admitted", "refused", "returned", "exited"}]
    /\ conn \in [Conns -> {"none", "backlog", "reader", "work", "closed"}]
    /\ gone \subseteq Conns /\ expired \subseteq Conns
    /\ left \in [Conns -> Nat] /\ answers \in [Conns -> Seq({"success", "failure"})]
    /\ channel \in Seq(Conns) /\ queue \subseteq Conns /\ draining \subseteq Conns
    /\ active_connections \in 0 .. setting.connections /\ pending_total \in Nat
    /\ pending_tenants \in [Tenants -> 0 .. setting.tenant] /\ used \in 0 .. setting.bytes

InWork == {c \in Conns : conn[c] = "work"}
HoldsPending == InWork \cup {c \in Conns : reader[c] = "admitted"}
HoldsBytes == HoldsPending \cup {c \in Conns : reader[c] \in {"body", "refused"}}

\* No permit is lost or returned twice, on any path of a request through the threads:
\* the counters are the readers, the admitted requests and their bytes, within their
\* limits, and an admitted request is in one place: the channel, the queue or among the
\* expired ones.
PermitsConserved ==
    /\ TypeOK
    /\ InWork = Range(channel) \cup queue \cup draining
    /\ Cardinality(InWork) = Len(channel) + Cardinality(queue) + Cardinality(draining)
    /\ active_connections = Cardinality(Readers)
    /\ pending_total = Cardinality(HoldsPending)
    /\ \A t \in Tenants :
           pending_tenants[t] = Cardinality({c \in HoldsPending : setting.of[c] = t})
    /\ used = Cardinality(FrameBytes(HoldsBytes))

\* A request is answered once, with success only after all of its quanta; a connection
\* that had a reader is closed without an answer only if its client has left or the
\* scheduler died on a CUDA failure.
AnsweredOnce ==
    \A c \in Conns :
        /\ Len(answers[c]) <= 1
        /\ "success" \in Range(answers[c]) => left[c] = 0
        /\ (conn[c] = "closed" /\ reader[c] # "none" /\ answers[c] = <<>>) => c \in gone \/ fatal

\* The daemon exits with nothing in flight: all readers joined, all requests answered
\* or dropped, all permits returned.
ExitsEmpty ==
    main \in {"exited", "failed"} =>
        /\ Readers = {} /\ InWork = {} /\ used = 0 /\ pending_total = 0
        /\ \A c \in Conns : conn[c] \in {"none", "closed"}

AcceptedCloses == \A c \in Conns : (reader[c] # "none") ~> (conn[c] = "closed")
ShutdownEnds == shutdown ~> (main \in {"exited", "failed"})
FatalEnds == fatal ~> (main = "failed")

\* Every connection that gets a reader is closed in the end; a shutdown ends, whatever is
\* in flight and whoever holds what; and the daemon does not outlive its scheduler: a
\* fatal CUDA failure makes it fail.
EverythingEnds == AcceptedCloses /\ ShutdownEnds /\ FatalEnds
=============================================================================
