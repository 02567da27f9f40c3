---------------------------- MODULE DaemonProofs ----------------------------
(***************************************************************************)
(* The requests and the permits of the daemon, for any number of           *)
(* connections and tenants and any limits: a request is answered once, no  *)
(* permit is lost or returned twice, and the daemon exits with nothing in  *)
(* flight.                                                                 *)
(*                                                                         *)
(* The inductive invariant says where a connection can be while its reader *)
(* is at each place (Links), that an admitted request is in exactly one of *)
(* channel, queue and draining (Placed), what the scheduler and the main   *)
(* thread have left behind at each phase of their shutdown (Phases), and   *)
(* who has been answered (Answered).  On top of it permits are counted:    *)
(* the counters are the sizes of three sets, the readers, the requests     *)
(* that hold a pending permit and those that hold the bytes of a frame.    *)
(***************************************************************************)
EXTENDS Daemon, FiniteSetTheorems, TLAPS

Joined == {"wait", "exited", "failed"}

\* Where a connection is while its reader is at some place.
Links ==
    \A c \in Conns :
        /\ reader[c] = "none" => conn[c] \in {"none", "backlog", "closed"}
        /\ reader[c] \in {"header", "body", "admitted", "refused"} => conn[c] = "reader"
        /\ reader[c] = "returned" => conn[c] \in {"reader", "work", "closed"}
        /\ reader[c] = "exited" => conn[c] \in {"work", "closed"}

\* An admitted request is in one place.
OnePlace(channelled) ==
    /\ InWork = channelled \cup queue \cup draining
    /\ channelled \cap queue = {} /\ channelled \cap draining = {} /\ queue \cap draining = {}

Distinct == \A i, j \in DOMAIN channel : channel[i] = channel[j] => i = j

Placed == OnePlace(Range(channel)) /\ Distinct

\* What the scheduler and the main thread have left behind.
Phases ==
    /\ draining # {} => sched = "pop"
    /\ sched = "finished" => channel = <<>> /\ queue = {}
    /\ sched = "dying" => fatal
    /\ ~channel_open => main \in Joined /\ channel = <<>>
    /\ main \in Joined => Readers = {}
    /\ main \in Joined \cup {"join"} => \A c \in Conns : conn[c] # "backlog"
    /\ main \in {"exited", "failed"} => sched = "finished"

\* Who has been answered, and who still needs quanta.
Unanswered == {"none", "header", "body", "admitted"}

AnsweredFor(c) ==
    /\ answers[c] \in {<<>>, <<"failure">>} \/ (answers[c] = <<"success">> /\ left[c] = 0)
    /\ reader[c] \in Unanswered => answers[c] = <<>>
    /\ reader[c] = "refused" \/ (reader[c] = "returned" /\ conn[c] = "reader") =>
           answers[c] # <<>>
    /\ conn[c] = "work" /\ sched # "dying" => answers[c] = <<>>
    /\ reader[c] \in Unanswered \/ conn[c] = "work" => left[c] > 0
    /\ (conn[c] = "closed" /\ reader[c] # "none" /\ answers[c] = <<>>) => c \in gone \/ fatal

Answered == \A c \in Conns : AnsweredFor(c)

\* TypeOK without the limits.
Switches ==
    /\ shutdown \in BOOLEAN /\ term \in BOOLEAN /\ ready \in BOOLEAN
    /\ channel_open \in BOOLEAN /\ fatal \in BOOLEAN

Threads ==
    /\ main \in {"top", "check", "accept", "stop", "join", "wait", "exited", "failed"}
    /\ status \in {"serving", "handling", "exited", "died"}
    /\ sched \in {"top", "wait", "receive", "drain", "pop", "dying", "finished"}
    /\ broken \subseteq {"scheduler", "status", "accept", "spawn"}

Requests ==
    /\ reader \in [Conns -> {"none", "header", "body", "admitted", "refused", "returned", "exited"}]
    /\ conn \in [Conns -> {"none", "backlog", "reader", "work", "closed"}]
    /\ gone \subseteq Conns /\ expired \subseteq Conns /\ setting \in Settings
    /\ left \in [Conns -> Nat] /\ answers \in [Conns -> Seq({"success", "failure"})]
    /\ channel \in Seq(Conns) /\ queue \subseteq Conns /\ draining \subseteq Conns

Shapes == Switches /\ Threads /\ Requests

PInv == Shapes /\ Links /\ Placed /\ Phases /\ Answered

-----------------------------------------------------------------------------
(* The steps that move no connection and touch no permit.                  *)

Quiet ==
    \/ MainTop \/ MainCheck \/ NoConnection \/ AcceptFails \/ MainJoin \/ MainExit
    \/ StatusNext \/ SchedTop \/ HangUp \/ TimesOut \/ NothingToPop \/ Terminate
    \/ (\E c \in Conns : Leave(c) \/ Expire(c)) \/ Finished

LEMMA QuietKeeps ==
    ASSUME Quiet PROVE UNCHANGED <<reader, setting, work, admission>>
<1>1. CASE MainTop \/ MainCheck \/ NoConnection \/ AcceptFails
  BY <1>1, Zenon DEF MainTop, MainCheck, NoConnection, AcceptFails, clients
<1>2. CASE MainJoin \/ MainExit \/ Terminate
  BY <1>2, Zenon DEF MainJoin, MainExit, Terminate, clients
<1>3. CASE StatusNext
  BY <1>3, Zenon DEF StatusNext, StatusAccept, StatusAnswer, StatusDies, clients
<1>4. CASE SchedTop \/ HangUp \/ TimesOut \/ NothingToPop
  BY <1>4, Zenon DEF SchedTop, HangUp, TimesOut, NothingToPop, clients
<1>5. CASE (\E c \in Conns : Leave(c) \/ Expire(c)) \/ Finished
  BY <1>5, Zenon DEF Leave, Expire, Finished, clients, vars
<1> QED BY <1>1, <1>2, <1>3, <1>4, <1>5, Zenon DEF Quiet

\* The branches of the handlers that move a connection or touch a permit.
TakesBytes(c) ==
    /\ try_acquire_bytes(c) /\ Moves(c, "header", "body") /\ used' = used + BytesOf[c]
    /\ UNCHANGED <<threads, scheduler, clients, work, active_connections, pending_total, pending_tenants>>

TakesPending(c) ==
    /\ try_acquire_pending(c) /\ Moves(c, "body", "admitted")
    /\ pending_total' = pending_total + 1
    /\ pending_tenants' = [pending_tenants EXCEPT ![setting.of[c]] = @ + 1]
    /\ UNCHANGED <<threads, scheduler, clients, work, active_connections, used>>

Sends(c) ==
    /\ Moves(c, "admitted", "returned") /\ sched # "finished"
    /\ channel' = Append(channel, c) /\ conn' = [conn EXCEPT ![c] = "work"]
    /\ UNCHANGED <<threads, scheduler, clients, left, answers, queue, draining, admission>>

SendFails(c) ==
    /\ Moves(c, "admitted", "returned") /\ write_response(c, "failure") /\ Drop({c})
    /\ UNCHANGED <<threads, scheduler, clients, left, channel, queue, draining, active_connections>>

ReaderStep(c) ==
    \/ Refuse(c, "header", "returned") \/ Refuse(c, "body", "refused")
    \/ TakesBytes(c) \/ TakesPending(c) \/ Sends(c) \/ SendFails(c) \/ DropFrame(c) \/ ReaderExit(c)

\* A quantum after which the request stays in the queue.
GoesOn(c) ==
    /\ sched = "pop" /\ draining = {} /\ c \in queue /\ left[c] # 1
    /\ left' = [left EXCEPT ![c] = @ - 1] /\ sched' = "top"
    /\ UNCHANGED <<threads, channel_open, fatal, reader, clients, conn, answers, channel, queue,
                   draining, admission>>

\* A request leaves the scheduler.
Ends(c) ==
    /\ sched = "pop" /\ c \in queue \cup draining
    /\ queue' = queue \ {c} /\ draining' = draining \ {c}
    /\ sched' \in {"pop", "top"} /\ (draining' # {} => sched' = "pop")
    /\ Drop({c})
    /\ \/ c \in gone /\ UNCHANGED <<left, answers>>
       \/ write_response(c, "failure") /\ left' = left
       \/ write_response(c, "failure") /\ left' = [left EXCEPT ![c] = @ - 1]
       \/ write_response(c, "success") /\ left[c] = 1 /\ left' = [left EXCEPT ![c] = @ - 1]
    /\ UNCHANGED <<threads, channel_open, fatal, reader, clients, channel, active_connections>>

LEMMA ReaderCases ==
    ASSUME NEW c \in Conns, ReaderNext(c) PROVE ReaderStep(c)
<1>1. CASE HeaderFails(c) \/ BodyFails(c)
  BY <1>1, Zenon DEF HeaderFails, BodyFails, ReaderStep
<1>2. CASE ReadHeader(c)
  BY <1>2, Zenon DEF ReadHeader, ReaderStep, TakesBytes
<1>3. CASE Admit(c)
  BY <1>3, Zenon DEF Admit, ReaderStep, TakesPending
<1>4. CASE try_send(c)
  BY <1>4, Zenon DEF try_send, ReaderStep, Sends, SendFails, admission
<1> QED BY <1>1, <1>2, <1>3, <1>4, Zenon DEF ReaderNext, ReaderStep

LEMMA PopCases ==
    ASSUME NEW c \in Conns, Placed,
           AnswerExpired(c) \/ PopGone(c) \/ PopFails(c) \/ Quantum(c)
    PROVE  Ends(c) \/ GoesOn(c)
<1>1. CASE AnswerExpired(c)
  <2>1. queue \ {c} = queue
    BY <1>1 DEF AnswerExpired, Placed, OnePlace
  <2> QED BY <1>1, <2>1 DEF AnswerExpired, Ends, scheduler
<1>2. CASE PopGone(c)
  BY <1>2 DEF PopGone, Ends
<1>3. CASE PopFails(c)
  BY <1>3 DEF PopFails, Respond, Ends
<1>4. CASE Quantum(c)
  <2>1. CASE c \in expired
    BY <1>4, <2>1 DEF Quantum, Respond, Ends
  <2>2. CASE c \notin expired /\ left[c] = 1
    BY <1>4, <2>2 DEF Quantum, Respond, Ends
  <2>3. CASE c \notin expired /\ left[c] # 1
    BY <1>4, <2>3 DEF Quantum, GoesOn
  <2> QED BY <2>1, <2>2, <2>3
<1> QED BY <1>1, <1>2, <1>3, <1>4

LEMMA Cases ==
    ASSUME Next, Placed
    PROVE  \/ Quiet \/ MainStop \/ Receive \/ drain_expired \/ SchedulerDies
           \/ \E c \in Conns : \/ Connect(c) \/ Accept(c) \/ SpawnFails(c) \/ ReaderStep(c)
                              \/ Ends(c) \/ GoesOn(c) \/ FatalFailure(c)
BY ReaderCases, PopCases, Zenon DEF Next, MainNext, SchedulerNext, Quiet

-----------------------------------------------------------------------------
(* Where connections and requests are.                                     *)

LEMMA LinksStep ==
    ASSUME Shapes, Links, Placed, Next PROVE Links'
<1> USE DEF Links, Shapes, Threads, Requests
<1>1. CASE Quiet
  BY <1>1, QuietKeeps DEF work
<1>2. CASE MainStop
  BY <1>2 DEF MainStop
<1>3. CASE Receive \/ drain_expired
  BY <1>3 DEF Receive, drain_expired
<1>4. CASE SchedulerDies
  <2>1. \A c \in queue \cup Range(channel) : conn[c] = "work"
    BY DEF Placed, OnePlace, InWork
  <2> QED BY <1>4, <2>1 DEF SchedulerDies, Drop
<1>5. ASSUME NEW c \in Conns, Connect(c) \/ SpawnFails(c) PROVE Links'
  BY <1>5, Zenon DEF Connect, SpawnFails
<1>6. ASSUME NEW c \in Conns, Accept(c) PROVE Links'
  <2>1. CASE reader' = [reader EXCEPT ![c] = "header"] /\ conn' = [conn EXCEPT ![c] = "reader"]
    BY <2>1
  <2>2. CASE reader' = reader /\ conn' = [conn EXCEPT ![c] = "closed"] /\ reader[c] = "none"
    BY <2>2
  <2>3. reader[c] = "none"
    BY <1>6, Zenon DEF Accept
  <2> QED BY <1>6, <2>1, <2>2, <2>3, Zenon DEF Accept
<1>7. ASSUME NEW c \in Conns, ReaderStep(c) PROVE Links'
  <2>1. CASE Refuse(c, "header", "returned") \/ Refuse(c, "body", "refused")
    BY <2>1 DEF Refuse, Moves
  <2>2. CASE TakesBytes(c) \/ TakesPending(c) \/ DropFrame(c)
    BY <2>2 DEF TakesBytes, TakesPending, DropFrame, Moves, work
  <2>3. CASE Sends(c)
    BY <2>3 DEF Sends, Moves
  <2>4. CASE SendFails(c)
    BY <2>4 DEF SendFails, Moves, Drop
  <2>5. CASE ReaderExit(c)
    BY <2>5 DEF ReaderExit, Moves
  <2> QED BY <1>7, <2>1, <2>2, <2>3, <2>4, <2>5, Zenon DEF ReaderStep
<1>8. ASSUME NEW c \in Conns, Ends(c) PROVE Links'
  <2>1. conn[c] = "work"
    BY <1>8 DEF Ends, Placed, OnePlace, InWork
  <2> QED BY <1>8, <2>1 DEF Ends, Drop
<1>9. ASSUME NEW c \in Conns, GoesOn(c) \/ FatalFailure(c) PROVE Links'
  BY <1>9 DEF GoesOn, FatalFailure
<1> QED BY <1>1, <1>2, <1>3, <1>4, <1>5, <1>6, <1>7, <1>8, <1>9, Cases, Zenon

LEMMA SeqOps ==
    ASSUME NEW S, NEW s \in Seq(S)
    PROVE  /\ \A x \in S : Append(s, x) \in Seq(S)
           /\ <<>> \in Seq(S)
           /\ s # <<>> => Tail(s) \in Seq(S) /\ Head(s) \in S
OBVIOUS

\* Sending and receiving move one request.
LEMMA RangeAppend ==
    ASSUME NEW s \in Seq(Conns), NEW c \in Conns, \A i, j \in DOMAIN s : s[i] = s[j] => i = j,
           c \notin Range(s)
    PROVE  /\ Range(Append(s, c)) = Range(s) \cup {c}
           /\ \A i, j \in DOMAIN Append(s, c) : Append(s, c)[i] = Append(s, c)[j] => i = j
<1> DEFINE t == Append(s, c)
<1>1. /\ DOMAIN s = 1 .. Len(s) /\ DOMAIN t = 1 .. (Len(s) + 1) /\ Len(s) \in Nat
      /\ t[Len(s) + 1] = c
  OBVIOUS
<1>2. \A i \in DOMAIN s : t[i] = s[i] /\ s[i] # c
  BY DEF Range
<1> HIDE DEF t
<1>3. \A i \in DOMAIN t : i \in DOMAIN s \/ i = Len(s) + 1
  BY <1>1
<1>4. Range(t) = Range(s) \cup {c}
  <2>1. ASSUME NEW x \in Range(t) PROVE x \in Range(s) \cup {c}
    BY <1>1, <1>2, <1>3 DEF Range
  <2>2. ASSUME NEW x \in Range(s) PROVE x \in Range(t)
    <3>1. PICK i \in DOMAIN s : x = s[i]
      BY DEF Range
    <3>2. i \in DOMAIN t
      BY <1>1
    <3> QED BY <1>2, <3>1, <3>2 DEF Range
  <2>3. c \in Range(t)
    <3>1. Len(s) + 1 \in DOMAIN t
      BY <1>1
    <3> QED BY <1>1, <3>1 DEF Range
  <2> QED BY <2>1, <2>2, <2>3
<1>5. ASSUME NEW i \in DOMAIN t, NEW j \in DOMAIN t, t[i] = t[j] PROVE i = j
  BY <1>1, <1>2, <1>3, <1>5
<1> QED BY <1>4, <1>5, Zenon DEF t

LEMMA RangeTail ==
    ASSUME NEW s \in Seq(Conns), s # <<>>, \A i, j \in DOMAIN s : s[i] = s[j] => i = j
    PROVE  /\ Range(Tail(s)) = Range(s) \ {Head(s)} /\ Head(s) \in Range(s)
           /\ \A i, j \in DOMAIN Tail(s) : Tail(s)[i] = Tail(s)[j] => i = j
<1>1. DOMAIN s = 1 .. Len(s) /\ DOMAIN Tail(s) = 1 .. (Len(s) - 1) /\ Len(s) \in Nat \ {0}
  BY DEF Range
<1>2. \A i \in DOMAIN Tail(s) : Tail(s)[i] = s[i + 1]
  OBVIOUS
<1>3. Head(s) = s[1]
  OBVIOUS
<1>4. ASSUME NEW x \in Range(s) \ {Head(s)} PROVE x \in Range(Tail(s))
  <2>1. PICK i \in 1 .. Len(s) : x = s[i]
    BY <1>1 DEF Range
  <2>2. i - 1 \in DOMAIN Tail(s) /\ Tail(s)[i - 1] = x
    BY <1>1, <1>2, <1>3, <1>4, <2>1
  <2> QED BY <2>2, Zenon DEF Range
<1>5. ASSUME NEW x \in Range(Tail(s)) PROVE x \in Range(s) /\ x # Head(s)
  <2>1. PICK i \in DOMAIN Tail(s) : x = Tail(s)[i]
    BY DEF Range
  <2>2. i + 1 \in DOMAIN s /\ s[i + 1] = x /\ 1 \in DOMAIN s /\ i + 1 # 1
    BY <1>1, <1>2, <2>1
  <2> QED BY <1>3, <2>2 DEF Range
<1>6. Head(s) \in Range(s)
  BY <1>1, <1>3 DEF Range
<1>7. ASSUME NEW i \in DOMAIN Tail(s), NEW j \in DOMAIN Tail(s), Tail(s)[i] = Tail(s)[j] PROVE i = j
  BY <1>1, <1>2, <1>7
<1> QED BY <1>4, <1>5, <1>6, <1>7, Zenon

LEMMA RangePrime == Range(channel)' = Range(channel')
BY Zenon DEF Range

LEMMA RangeEmpty == Range(<<>>) = {} /\ DOMAIN <<>> = {}
<1>1. DOMAIN <<>> = {}
  OBVIOUS
<1> QED BY <1>1, Zenon DEF Range

\* The requests in work follow the connections.
LEMMA PlacedStep ==
    ASSUME Shapes, Links, Placed, Phases, Next PROVE Placed'
<1> USE DEF Shapes, Switches, Threads, Requests, Placed, OnePlace, Distinct
<1>1. CASE Quiet
  BY <1>1, QuietKeeps DEF InWork, work
<1>2. CASE MainStop
  <2>1. InWork' = InWork
    BY <1>2 DEF MainStop, InWork
  <2> QED BY <1>2, <2>1 DEF MainStop
<1>3. CASE Receive
  <2>1. InWork' = InWork
    BY <1>3 DEF Receive, InWork
  <2>2. /\ Range(channel') = Range(channel) \ {Head(channel)} /\ Head(channel) \in Range(channel)
        /\ \A i, j \in DOMAIN channel' : channel'[i] = channel'[j] => i = j
    BY <1>3, RangeTail, Zenon DEF Receive
  <2>3. queue' = queue \cup {Head(channel)} /\ draining' = draining
    BY <1>3 DEF Receive
  <2> HIDE DEF Shapes, Distinct, Placed
  <2>4. OnePlace(Range(channel))
    BY DEF Placed
  <2>5. OnePlace(Range(channel))'
    BY <2>1, <2>2, <2>3, <2>4, RangePrime DEF OnePlace
  <2> USE DEF Shapes, Switches, Threads, Requests, Distinct, Placed
  <2> QED BY <2>2, <2>5
<1>4. CASE drain_expired
  <2>1. InWork' = InWork
    BY <1>4 DEF drain_expired, InWork
  <2>2. draining = {} /\ draining' = queue \cap expired /\ queue' = queue \ expired /\ channel' = channel
    BY <1>4 DEF drain_expired, Phases
  <2>3. OnePlace(Range(channel))'
    BY <2>1, <2>2
  <2> QED BY <2>2, <2>3
<1>5. CASE SchedulerDies
  <2>1. InWork' = InWork \ (queue \cup Range(channel))
    BY <1>5 DEF SchedulerDies, Drop, InWork
  <2>2. channel' = <<>> /\ queue' = {} /\ draining' = draining
    BY <1>5 DEF SchedulerDies
  <2>3. Range(channel)' = {}
    BY <2>2, RangeEmpty, RangePrime, Zenon
  <2>4. OnePlace(Range(channel))'
    BY <2>1, <2>2, <2>3
  <2>5. Distinct'
    <3>1. DOMAIN channel' = {}
      BY <2>2, RangeEmpty, Zenon
    <3> QED BY <3>1, Zenon
  <2> QED BY <2>4, <2>5
<1>6. ASSUME NEW c \in Conns, Connect(c) \/ SpawnFails(c) PROVE Placed'
  <2>1. InWork' = InWork
    BY <1>6 DEF Connect, SpawnFails, InWork
  <2> QED BY <1>6, <2>1 DEF Connect, SpawnFails
<1>7. ASSUME NEW c \in Conns, Accept(c) PROVE Placed'
  <2>1. InWork' = InWork
    BY <1>7 DEF Accept, InWork
  <2> QED BY <1>7, <2>1 DEF Accept
<1>8. ASSUME NEW c \in Conns, ReaderStep(c) PROVE Placed'
  <2>1. CASE Refuse(c, "header", "returned") \/ Refuse(c, "body", "refused")
    BY <2>1 DEF Refuse, InWork
  <2>2. CASE TakesBytes(c) \/ TakesPending(c) \/ DropFrame(c)
    BY <2>2 DEF TakesBytes, TakesPending, DropFrame, work, InWork
  <2>3. CASE Sends(c)
    <3>1. conn[c] = "reader"
      BY <2>3 DEF Sends, Moves, Links
    <3>2. c \notin InWork
      BY <3>1 DEF InWork
    <3> HIDE DEF Placed, OnePlace, Distinct
    <3>3. InWork' = InWork \cup {c}
      BY <2>3 DEF Sends, InWork
    <3> USE DEF Placed, OnePlace, Distinct
    <3>4. channel' = Append(channel, c) /\ queue' = queue /\ draining' = draining
      BY <2>3 DEF Sends
    <3>5. /\ Range(channel') = Range(channel) \cup {c}
          /\ \A i, j \in DOMAIN channel' : channel'[i] = channel'[j] => i = j
      BY <3>2, <3>4, RangeAppend, Zenon
    <3>6. Range(channel)' = Range(channel')
      BY DEF Range
    <3>7. OnePlace(Range(channel))'
      BY <3>2, <3>3, <3>4, <3>5, <3>6
    <3>8. Distinct'
      BY <3>5, Zenon
    <3> QED BY <3>7, <3>8, Zenon
  <2>4. CASE SendFails(c)
    <3>1. conn[c] = "reader"
      BY <2>4 DEF SendFails, Moves, Links
    <3>2. InWork' = InWork
      BY <2>4, <3>1 DEF SendFails, Drop, InWork
    <3> QED BY <2>4, <3>2 DEF SendFails
  <2>5. CASE ReaderExit(c)
    <3>1. InWork' = InWork
      BY <2>5 DEF ReaderExit, InWork
    <3> QED BY <2>5, <3>1 DEF ReaderExit
  <2> QED BY <1>8, <2>1, <2>2, <2>3, <2>4, <2>5, Zenon DEF ReaderStep
<1>9. ASSUME NEW c \in Conns, Ends(c) PROVE Placed'
  <2>1. InWork' = InWork \ {c}
    BY <1>9 DEF Ends, Drop, InWork
  <2>2. /\ c \in queue \cup draining /\ queue' = queue \ {c} /\ draining' = draining \ {c}
        /\ channel' = channel
    BY <1>9 DEF Ends
  <2>3. OnePlace(Range(channel))'
    BY <2>1, <2>2
  <2> QED BY <2>2, <2>3
<1>10. ASSUME NEW c \in Conns, GoesOn(c) \/ FatalFailure(c) PROVE Placed'
  BY <1>10 DEF GoesOn, FatalFailure, InWork
<1> QED BY <1>1, <1>2, <1>3, <1>4, <1>5, <1>6, <1>7, <1>8, <1>9, <1>10, Cases, Zenon

\* What the threads have left behind stays left behind.
LEMMA PhasesStep ==
    ASSUME Shapes, Links, Placed, Phases, Next PROVE Phases'
<1> USE DEF Shapes, Switches, Threads, Requests, Phases, Joined, Readers
<1>1. CASE MainTop \/ MainCheck \/ NoConnection \/ AcceptFails
  BY <1>1 DEF MainTop, MainCheck, NoConnection, AcceptFails, Break, flags, scheduler, work
<1>2. CASE MainStop
  BY <1>2 DEF MainStop, scheduler
<1>3. CASE MainJoin \/ MainExit
  BY <1>3 DEF MainJoin, MainExit, scheduler, work
<1>4. CASE StatusNext \/ Terminate
  BY <1>4 DEF StatusNext, StatusAccept, StatusAnswer, StatusDies, Terminate, scheduler, work
<1>5. CASE SchedTop \/ TimesOut \/ NothingToPop
  BY <1>5 DEF SchedTop, TimesOut, NothingToPop, threads, work
<1>6. CASE HangUp
  BY <1>6 DEF HangUp, Disconnected, threads, work
<1>7. CASE Receive
  BY <1>7 DEF Receive, threads
<1>8. CASE drain_expired
  BY <1>8 DEF drain_expired, threads
<1>9. CASE SchedulerDies
  BY <1>9 DEF SchedulerDies, Drop, threads
<1>10. ASSUME NEW c \in Conns, Leave(c) \/ Expire(c) PROVE Phases'
  BY <1>10 DEF Leave, Expire, threads, scheduler, work
<1>11. CASE Finished
  BY <1>11 DEF Finished, vars, threads, scheduler, work
<1>12. ASSUME NEW c \in Conns, Connect(c) PROVE Phases'
  BY <1>12 DEF Connect, Listening, threads, scheduler
<1>13. ASSUME NEW c \in Conns, SpawnFails(c) PROVE Phases'
  BY <1>13 DEF SpawnFails, Break, scheduler
<1>14. ASSUME NEW c \in Conns, Accept(c) PROVE Phases'
  BY <1>14 DEF Accept, scheduler
<1>15. ASSUME NEW c \in Conns, ReaderStep(c) PROVE Phases'
  <2>1. reader[c] \in {"header", "body", "admitted", "refused", "returned"}
    BY <1>15 DEF ReaderStep, Refuse, TakesBytes, TakesPending, Sends, SendFails, DropFrame, ReaderExit, Moves
  <2>2. main \notin Joined /\ channel_open = TRUE
    BY <2>1, Zenon
  <2>3. CASE Refuse(c, "header", "returned") \/ Refuse(c, "body", "refused")
    BY <2>2, <2>3, Zenon DEF Refuse, threads, scheduler
  <2>4. CASE TakesBytes(c) \/ TakesPending(c) \/ DropFrame(c)
    BY <2>2, <2>4, Zenon DEF TakesBytes, TakesPending, DropFrame, threads, scheduler, work
  <2>5. CASE Sends(c)
    BY <2>2, <2>5 DEF Sends, threads, scheduler
  <2>6. CASE SendFails(c)
    BY <2>2, <2>6 DEF SendFails, Drop, threads, scheduler
  <2>7. CASE ReaderExit(c)
    BY <2>2, <2>7 DEF ReaderExit, threads, scheduler
  <2> QED BY <1>15, <2>3, <2>4, <2>5, <2>6, <2>7, Zenon DEF ReaderStep
<1>16. ASSUME NEW c \in Conns, Ends(c) PROVE Phases'
  BY <1>16 DEF Ends, Drop, threads
<1>17. ASSUME NEW c \in Conns, GoesOn(c) PROVE Phases'
  BY <1>17 DEF GoesOn, threads
<1>18. ASSUME NEW c \in Conns, FatalFailure(c) PROVE Phases'
  BY <1>18 DEF FatalFailure
<1>19. CASE Quiet
  BY <1>1, <1>3, <1>4, <1>5, <1>6, <1>10, <1>11, <1>19, Zenon DEF Quiet
<1> QED BY <1>2, <1>7, <1>8, <1>9, <1>12, <1>13, <1>14, <1>15, <1>16, <1>17, <1>18, <1>19, Cases, Zenon

-----------------------------------------------------------------------------
(* Answers.                                                                *)

\* A quiet step may only record a client that left or a deadline, or move the scheduler.
LEMMA QuietAnswers ==
    ASSUME Quiet, Shapes
    PROVE  /\ UNCHANGED <<reader, conn, left, answers, fatal>> /\ gone \subseteq gone'
           /\ sched # "dying" => sched' # "dying"
           /\ sched = "dying" => sched' = "dying"
<1>1. CASE MainTop \/ MainCheck \/ NoConnection \/ AcceptFails
  BY <1>1 DEF MainTop, MainCheck, NoConnection, AcceptFails, scheduler, clients, work
<1>2. CASE MainJoin \/ MainExit \/ StatusNext \/ Terminate
  BY <1>2 DEF MainJoin, MainExit, Terminate, StatusNext, StatusAccept, StatusAnswer, StatusDies,
              scheduler, clients, work
<1>3. CASE SchedTop \/ HangUp \/ TimesOut \/ NothingToPop
  BY <1>3 DEF SchedTop, HangUp, TimesOut, NothingToPop, clients, work
<1>4. CASE (\E c \in Conns : Leave(c) \/ Expire(c)) \/ Finished
  BY <1>4, Zenon DEF Leave, Expire, Finished, vars, scheduler, work, clients
<1> QED BY <1>1, <1>2, <1>3, <1>4, Zenon DEF Quiet

LEMMA Countdown ==
    ASSUME Shapes, NEW c \in Conns, left' = [left EXCEPT ![c] = @ - 1]
    PROVE  /\ left[c] = 1 => left'[c] = 0
           /\ left[c] > 0 /\ left[c] # 1 => left'[c] > 0
           /\ left[c] > 0 => left' \in [Conns -> Nat]
           /\ \A x \in Conns : x # c => left'[x] = left[x]
<1>1. left \in [Conns -> Nat]
  BY DEF Shapes, Switches, Threads, Requests
<1> QED BY <1>1

LEMMA FirstAnswer ==
    ASSUME Shapes, NEW c \in Conns, NEW r, write_response(c, r), answers[c] = <<>>
    PROVE  /\ answers'[c] = <<r>> /\ <<r>> # <<>>
           /\ \A x \in Conns : x # c => answers'[x] = answers[x]
<1>1. Append(<<>>, r) = <<r>> /\ <<r>> # <<>>
  OBVIOUS
<1> QED BY <1>1 DEF Shapes, Switches, Threads, Requests, write_response

LEMMA AnsweredStep ==
    ASSUME Shapes, Links, Placed, Phases, Answered, Next PROVE Answered'
<1> SUFFICES ASSUME NEW x \in Conns PROVE AnsweredFor(x)'
  BY Zenon DEF Answered
<1>0. AnsweredFor(x)
  BY DEF Answered
<1> USE <1>0 DEF Shapes, Switches, Threads, Requests, AnsweredFor, Unanswered
<1>1. CASE Quiet
  BY <1>1, QuietAnswers
<1>2. CASE MainStop
  BY <1>2 DEF MainStop, Links, scheduler, clients
<1>3. CASE Receive \/ drain_expired
  BY <1>3 DEF Receive, drain_expired, clients
<1>4. CASE SchedulerDies
  <2>1. fatal' = TRUE /\ sched' = "finished"
    BY <1>4 DEF SchedulerDies, Phases
  <2>2. conn'[x] = "closed" \/ (conn'[x] = conn[x] /\ conn[x] # "work")
    BY <1>4 DEF SchedulerDies, Drop, Placed, OnePlace, InWork, Phases
  <2> QED BY <1>4, <2>1, <2>2 DEF SchedulerDies
<1>5. ASSUME NEW c \in Conns, Connect(c) \/ SpawnFails(c) PROVE AnsweredFor(x)'
  BY <1>5 DEF Connect, SpawnFails, Links, scheduler, clients
<1>6. ASSUME NEW c \in Conns, Accept(c) PROVE AnsweredFor(x)'
  BY <1>6 DEF Accept, Links, scheduler, clients
<1>7. ASSUME NEW c \in Conns, ReaderStep(c) PROVE AnsweredFor(x)'
  <2>1. CASE Refuse(c, "header", "returned") \/ Refuse(c, "body", "refused")
    <3>1. answers[c] = <<>> /\ conn[c] = "reader" /\ write_response(c, "failure")
      BY <2>1 DEF Refuse, Moves, Links, Answered
    <3>2. /\ answers'[c] = <<"failure">> /\ <<"failure">> # <<>>
          /\ x # c => answers'[x] = answers[x]
      BY <3>1, FirstAnswer
    <3> QED BY <2>1, <3>1, <3>2, Zenon DEF Refuse, Moves, scheduler, clients
  <2>2. CASE TakesBytes(c) \/ TakesPending(c)
    BY <2>2 DEF TakesBytes, TakesPending, Moves, scheduler, clients, work
  <2>3. CASE DropFrame(c)
    BY <2>3 DEF DropFrame, Moves, Links, scheduler, clients, work
  <2>4. CASE Sends(c)
    BY <2>4 DEF Sends, Moves, scheduler, clients
  <2>5. CASE SendFails(c)
    <3>1. answers[c] = <<>> /\ write_response(c, "failure")
      BY <2>5 DEF SendFails, Moves, Answered
    <3>2. /\ answers'[c] = <<"failure">> /\ <<"failure">> # <<>>
          /\ x # c => answers'[x] = answers[x]
      BY <3>1, FirstAnswer
    <3> QED BY <2>5, <3>1, <3>2, Zenon DEF SendFails, Moves, Drop, scheduler, clients
  <2>6. CASE ReaderExit(c)
    BY <2>6 DEF ReaderExit, Moves, scheduler, clients
  <2> QED BY <1>7, <2>1, <2>2, <2>3, <2>4, <2>5, <2>6, Zenon DEF ReaderStep
<1>8. ASSUME NEW c \in Conns, Ends(c) PROVE AnsweredFor(x)'
  <2>1. conn[c] = "work" /\ sched = "pop" /\ sched' \in {"pop", "top"} /\ answers[c] = <<>> /\ left[c] > 0
    BY <1>8 DEF Ends, Placed, OnePlace, InWork, Answered
  <2>2. reader[c] \in {"returned", "exited"}
    BY <2>1, Zenon DEF Links
  <2>3. /\ conn' = [y \in Conns |-> IF y \in {c} THEN "closed" ELSE conn[y]]
        /\ UNCHANGED <<reader, gone, fatal>>
    BY <1>8 DEF Ends, Drop, clients
  <2>4. CASE c \in gone /\ UNCHANGED <<left, answers>>
    BY <2>1, <2>2, <2>3, <2>4
  <2>5. CASE /\ write_response(c, "failure")
             /\ left' = left \/ left' = [left EXCEPT ![c] = @ - 1]
    <3>1. /\ answers'[c] = <<"failure">> /\ <<"failure">> # <<>>
          /\ x # c => answers'[x] = answers[x] /\ left'[x] = left[x]
      BY <2>1, <2>5, FirstAnswer
    <3> QED BY <2>1, <2>2, <2>3, <3>1, Zenon
  <2>6. CASE write_response(c, "success") /\ left[c] = 1 /\ left' = [left EXCEPT ![c] = @ - 1]
    <3>1. /\ answers'[c] = <<"success">> /\ <<"success">> # <<>>
          /\ x # c => answers'[x] = answers[x] /\ left'[x] = left[x]
      BY <2>1, <2>6, FirstAnswer
    <3>2. left'[c] = 0
      BY <2>6, Countdown, Zenon
    <3> QED BY <2>1, <2>2, <2>3, <3>1, <3>2, Zenon
  <2> QED BY <1>8, <2>4, <2>5, <2>6, Zenon DEF Ends
<1>9. ASSUME NEW c \in Conns, GoesOn(c) PROVE AnsweredFor(x)'
  <2>1. conn[c] = "work" /\ answers[c] = <<>> /\ left[c] > 0
    BY <1>9 DEF GoesOn, Placed, OnePlace, InWork, Answered
  <2>2. left'[c] > 0 /\ (x # c => left'[x] = left[x])
    BY <1>9, <2>1, Countdown, Zenon DEF GoesOn
  <2> QED BY <1>9, <2>1, <2>2 DEF GoesOn, clients
<1>10. ASSUME NEW c \in Conns, FatalFailure(c) PROVE AnsweredFor(x)'
  <2>1. conn[c] = "work" /\ answers[c] = <<>> /\ write_response(c, "failure")
    BY <1>10 DEF FatalFailure, Placed, OnePlace, InWork, Answered
  <2>2. reader[c] \in {"returned", "exited"}
    BY <2>1, Zenon DEF Links
  <2>3. /\ answers'[c] = <<"failure">> /\ <<"failure">> # <<>>
        /\ x # c => answers'[x] = answers[x]
    BY <2>1, FirstAnswer
  <2>4. fatal' = TRUE
    BY <1>10 DEF FatalFailure
  <2> QED BY <1>10, <2>1, <2>2, <2>3, <2>4, Zenon DEF FatalFailure, clients
<1> QED BY <1>1, <1>2, <1>3, <1>4, <1>5, <1>6, <1>7, <1>8, <1>9, <1>10, Cases, Zenon

-----------------------------------------------------------------------------
\* What a step does to the flags and to the threads.
LEMMA SwitchesStep ==
    ASSUME Switches, Next PROVE Switches'
<1> USE DEF Switches
<1>1. CASE MainNext
  BY <1>1, Zenon DEF MainNext, MainTop, MainCheck, NoConnection, AcceptFails, MainStop, MainJoin,
                     MainExit, Accept, SpawnFails, Break, flags, scheduler
<1>2. CASE StatusNext \/ Terminate \/ Finished
  BY <1>2, Zenon DEF StatusNext, StatusAccept, StatusAnswer, StatusDies, Terminate, Finished, flags,
                     scheduler, vars, threads
<1>3. CASE SchedulerNext
  <2>1. CASE SchedTop \/ Receive \/ HangUp \/ TimesOut \/ drain_expired \/ NothingToPop
    BY <2>1, Zenon DEF SchedTop, Receive, HangUp, TimesOut, drain_expired, NothingToPop, threads, flags
  <2>2. CASE SchedulerDies
    BY <2>2, Zenon DEF SchedulerDies, threads, flags
  <2>3. ASSUME NEW c \in Conns, AnswerExpired(c) \/ PopGone(c) \/ PopFails(c) \/ Quantum(c)
        PROVE  Switches'
    BY <2>3, Zenon DEF AnswerExpired, PopGone, PopFails, Quantum, Respond, threads, flags, scheduler
  <2>4. ASSUME NEW c \in Conns, FatalFailure(c) PROVE Switches'
    BY <2>4, Zenon DEF FatalFailure
  <2> QED BY <1>3, <2>1, <2>2, <2>3, <2>4, Zenon DEF SchedulerNext
<1>4. ASSUME NEW c \in Conns, ReaderStep(c) PROVE Switches'
  BY <1>4, Zenon DEF ReaderStep, Refuse, TakesBytes, TakesPending, Sends, SendFails, DropFrame,
                     ReaderExit, threads, flags, scheduler
<1>5. ASSUME NEW c \in Conns, Connect(c) \/ Leave(c) \/ Expire(c) PROVE Switches'
  BY <1>5, Zenon DEF Connect, Leave, Expire, threads, flags, scheduler
<1> QED BY <1>1, <1>2, <1>3, <1>4, <1>5, ReaderCases, Zenon DEF Next

LEMMA ThreadsStep ==
    ASSUME Threads, Placed, Next PROVE Threads'
<1> USE DEF Threads
<1>1. CASE MainTop \/ NoConnection \/ MainStop \/ MainJoin \/ MainExit
  BY <1>1, Zenon DEF MainTop, NoConnection, MainStop, MainJoin, MainExit, flags, scheduler
<1>2. CASE MainCheck \/ AcceptFails
  BY <1>2, Zenon DEF MainCheck, AcceptFails, Break, scheduler
<1>3. CASE StatusNext \/ Terminate
  BY <1>3, Zenon DEF StatusNext, StatusAccept, StatusAnswer, StatusDies, Terminate, flags, scheduler
<1>4. CASE SchedTop \/ HangUp \/ TimesOut \/ NothingToPop
  BY <1>4 DEF SchedTop, HangUp, TimesOut, NothingToPop, threads, flags
<1>5. CASE Receive \/ drain_expired \/ SchedulerDies
  BY <1>5, Zenon DEF Receive, drain_expired, SchedulerDies, threads, flags
<1>6. CASE Finished
  BY <1>6 DEF Finished, vars, threads, flags, scheduler
<1>7. ASSUME NEW c \in Conns, Connect(c) \/ Leave(c) \/ Expire(c) PROVE Threads'
  BY <1>7, Zenon DEF Connect, Leave, Expire, threads, flags, scheduler
<1>8. ASSUME NEW c \in Conns, Accept(c) \/ SpawnFails(c) PROVE Threads'
  BY <1>8, Zenon DEF Accept, SpawnFails, Break, flags, scheduler
<1>9. ASSUME NEW c \in Conns, ReaderStep(c) PROVE Threads'
  <2>1. UNCHANGED <<main, status, sched, broken>>
    <3>1. UNCHANGED <<threads, scheduler>>
      BY <1>9, Zenon DEF ReaderStep, Refuse, TakesBytes, TakesPending, Sends, SendFails, DropFrame,
                         ReaderExit
    <3> QED BY <3>1, Zenon DEF threads, flags, scheduler
  <2> QED BY <2>1, Zenon
<1>10. ASSUME NEW c \in Conns, Ends(c) \/ GoesOn(c) \/ FatalFailure(c) PROVE Threads'
  BY <1>10, Zenon DEF Ends, GoesOn, FatalFailure, threads, flags
<1>11. CASE Quiet
  BY <1>1, <1>2, <1>3, <1>4, <1>6, <1>7, <1>11, Zenon DEF Quiet
<1> QED BY <1>1, <1>5, <1>7, <1>8, <1>9, <1>10, <1>11, Cases, Zenon

LEMMA RequestsStep ==
    ASSUME Shapes, Placed, Answered, Next PROVE Requests'
<1>0. Requests
  BY DEF Shapes
<1> USE <1>0 DEF Requests
<1>1. CASE Quiet
  <2>1. gone' \subseteq Conns /\ expired' \subseteq Conns
    <3>1. CASE \E c \in Conns : Leave(c) \/ Expire(c)
      BY <3>1 DEF Leave, Expire
    <3>2. CASE UNCHANGED <<gone, expired>>
      BY <3>2
    <3> QED BY <1>1, <3>1, <3>2, Zenon DEF Quiet, MainTop, MainCheck, NoConnection, AcceptFails, MainJoin,
            MainExit, StatusNext, StatusAccept, StatusAnswer, StatusDies, SchedTop, HangUp, TimesOut,
            NothingToPop, Terminate, Finished, vars, clients
  <2> QED BY <1>1, <2>1, QuietKeeps DEF work
<1>2. CASE MainStop
  BY <1>2 DEF MainStop, clients
<1>3. CASE Receive \/ drain_expired
  <2>1. channel' \in Seq(Conns) /\ queue' \subseteq Conns
    BY <1>3, SeqOps, Zenon DEF Receive, drain_expired
  <2> QED BY <1>3, <2>1 DEF Receive, drain_expired, clients
<1>4. CASE SchedulerDies
  <2>1. channel' \in Seq(Conns)
    BY <1>4, SeqOps DEF SchedulerDies
  <2> QED BY <1>4, <2>1 DEF SchedulerDies, Drop, clients
<1>5. ASSUME NEW c \in Conns, Connect(c) \/ SpawnFails(c) \/ Accept(c) PROVE Requests'
  BY <1>5, Zenon DEF Connect, SpawnFails, Accept, clients
\* A connection gets another answer.
<1>6. ASSUME NEW c \in Conns, NEW r \in {"success", "failure"}, write_response(c, r)
      PROVE  answers' \in [Conns -> Seq({"success", "failure"})]
  <2>1. Append(answers[c], r) \in Seq({"success", "failure"})
    BY SeqOps, Zenon
  <2> QED BY <1>6, <2>1 DEF write_response
<1>7. ASSUME NEW c \in Conns, ReaderStep(c) PROVE Requests'
  <2>1. CASE Refuse(c, "header", "returned") \/ Refuse(c, "body", "refused")
    BY <1>6, <2>1, Zenon DEF Refuse, Moves, clients
  <2>2. CASE TakesBytes(c) \/ TakesPending(c) \/ DropFrame(c)
    BY <2>2, Zenon DEF TakesBytes, TakesPending, DropFrame, Moves, clients, work
  <2>3. CASE Sends(c)
    <3>1. channel' \in Seq(Conns)
      BY <2>3, SeqOps DEF Sends
    <3> QED BY <2>3, <3>1 DEF Sends, Moves, clients
  <2>4. CASE SendFails(c)
    BY <1>6, <2>4 DEF SendFails, Moves, Drop, clients
  <2>5. CASE ReaderExit(c)
    BY <2>5 DEF ReaderExit, Moves, clients
  <2> QED BY <1>7, <2>1, <2>2, <2>3, <2>4, <2>5, Zenon DEF ReaderStep
\* A request in the scheduler needs another quantum.
<1>8. ASSUME NEW c \in Conns, c \in queue \cup draining, left' = [left EXCEPT ![c] = @ - 1]
      PROVE  left' \in [Conns -> Nat]
  <2>1. left[c] > 0
    BY <1>8 DEF Placed, OnePlace, InWork, Answered, AnsweredFor
  <2> QED BY <1>8, <2>1, Countdown, Zenon
<1>9. ASSUME NEW c \in Conns, Ends(c) PROVE Requests'
  <2>1. left' \in [Conns -> Nat]
    <3>1. left' = left \/ left' = [left EXCEPT ![c] = @ - 1]
      BY <1>9, Zenon DEF Ends
    <3>2. c \in queue \cup draining
      BY <1>9, Zenon DEF Ends
    <3> QED BY <1>8, <3>1, <3>2, Zenon
  <2>2. answers' \in [Conns -> Seq({"success", "failure"})]
    BY <1>6, <1>9 DEF Ends
  <2> QED BY <1>9, <2>1, <2>2 DEF Ends, Drop, clients
<1>10. ASSUME NEW c \in Conns, GoesOn(c) PROVE Requests'
  <2>1. left' \in [Conns -> Nat]
    BY <1>8, <1>10, Zenon DEF GoesOn
  <2> QED BY <1>10, <2>1 DEF GoesOn, clients
<1>11. ASSUME NEW c \in Conns, FatalFailure(c) PROVE Requests'
  BY <1>6, <1>11 DEF FatalFailure, clients
<1> QED BY <1>1, <1>2, <1>3, <1>4, <1>5, <1>7, <1>9, <1>10, <1>11, Cases, Zenon

LEMMA InitPlaces == ASSUME Init PROVE PInv
<1> USE DEF Init
<1>1. Shapes
  <2>1. Switches
    BY Zenon DEF Switches
  <2>2. Threads
    BY DEF Threads
  <2>3. Requests
    BY DaemonAssumption DEF Requests
  <2> QED BY <2>1, <2>2, <2>3 DEF Shapes
<1>2. Links
  BY DEF Links
<1>3. Placed
  <2>1. InWork = {} /\ Range(<<>>) = {} /\ DOMAIN <<>> = {}
    BY RangeEmpty DEF InWork
  <2>2. Distinct
    BY <2>1, Zenon DEF Distinct
  <2> QED BY <2>1, <2>2 DEF Placed, OnePlace
<1>4. Phases
  BY DEF Phases, Joined
<1>5. Answered
  BY DaemonAssumption DEF Answered, AnsweredFor, Unanswered
<1> QED BY <1>1, <1>2, <1>3, <1>4, <1>5 DEF PInv

LEMMA StepPlaces == ASSUME PInv, [Next]_vars PROVE PInv'
<1>1. CASE Next
  BY <1>1, SwitchesStep, ThreadsStep, RequestsStep, LinksStep, PlacedStep, PhasesStep, AnsweredStep, Zenon
     DEF PInv, Shapes
<1>2. CASE UNCHANGED vars
  <2>1. UNCHANGED <<threads, scheduler, reader, clients, work, admission>>
    BY <1>2, Zenon DEF vars
  <2>2. Switches'
    BY <2>1, Zenon DEF PInv, Shapes, Switches, threads, flags, scheduler
  <2>3. Threads' /\ Requests'
    BY <2>1, Zenon DEF PInv, Shapes, Threads, Requests, threads, flags, scheduler, clients, work
  <2>4. Links' /\ Answered'
    BY <2>1, Zenon DEF PInv, Links, Answered, AnsweredFor, clients, scheduler, work
  <2>5. Placed'
    BY <2>1, Zenon DEF PInv, Placed, OnePlace, Distinct, InWork, work
  <2>6. Phases'
    BY <2>1, Zenon DEF PInv, Phases, Readers, threads, scheduler, work
  <2> QED BY <2>2, <2>3, <2>4, <2>5, <2>6, Zenon DEF PInv, Shapes
<1> QED BY <1>1, <1>2, Zenon

\* Where requests are: the invariant of the threads' hand-overs holds of every reachable
\* state, for any connections, tenants, frame sizes, quanta and limits.
THEOREM PlacesInvariant == Spec => []PInv
BY InitPlaces, StepPlaces, PTL DEF Spec

\* Every request is answered at most once, with success only after its last quantum, and a
\* connection that got a reader is closed without an answer only after its client left or the
\* scheduler died on a CUDA failure.
THEOREM AnsweredOnceHolds == Spec => []AnsweredOnce
<1>1. ASSUME PInv PROVE AnsweredOnce
  <2> SUFFICES ASSUME NEW c \in Conns
               PROVE  /\ Len(answers[c]) <= 1
                      /\ "success" \in Range(answers[c]) => left[c] = 0
                      /\ (conn[c] = "closed" /\ reader[c] # "none" /\ answers[c] = <<>>) =>
                             c \in gone \/ fatal
    BY Zenon DEF AnsweredOnce
  <2>1. AnsweredFor(c)
    BY <1>1 DEF PInv, Answered
  <2>2. Len(<<>>) = 0 /\ Len(<<"failure">>) = 1 /\ Len(<<"success">>) = 1
    OBVIOUS
  <2>3. "success" \notin Range(<<>>) /\ "success" \notin Range(<<"failure">>)
    BY DEF Range
  <2>4. Len(answers[c]) <= 1
    <3>1. Len(answers[c]) = 0 \/ Len(answers[c]) = 1
      BY <2>1, <2>2, Zenon DEF AnsweredFor
    <3>2. 0 <= 1 /\ 1 <= 1
      OBVIOUS
    <3> QED BY <3>1, <3>2, Zenon
  <2>5. "success" \in Range(answers[c]) => left[c] = 0
    BY <2>1, <2>3, Zenon DEF AnsweredFor
  <2> QED BY <2>1, <2>4, <2>5, Zenon DEF AnsweredFor
<1> QED BY <1>1, PlacesInvariant, PTL

-----------------------------------------------------------------------------
(* Permits: the proof follows who is in the three sets, given where        *)
(* requests are (PInv).                                                    *)

\* The counters are the sizes of the sets.
Counted ==
    /\ active_connections = Cardinality(Readers)
    /\ pending_total = Cardinality(HoldsPending)
    /\ \A t \in Tenants :
           pending_tenants[t] = Cardinality({c \in HoldsPending : setting.of[c] = t})
    /\ used = Cardinality(FrameBytes(HoldsBytes))

Limits ==
    /\ active_connections \in 0 .. setting.connections /\ pending_total \in Nat
    /\ pending_tenants \in [Tenants -> 0 .. setting.tenant] /\ used \in 0 .. setting.bytes

IInv == PInv /\ Limits /\ Counted

-----------------------------------------------------------------------------
(* Sizes of sets.                                                          *)

\* What is taken out of a set is taken off its size.
LEMMA SizeWithout ==
    ASSUME NEW S, IsFiniteSet(S), NEW T \in SUBSET S
    PROVE  /\ IsFiniteSet(S \ T) /\ IsFiniteSet(T)
           /\ Cardinality(S \ T) = Cardinality(S) - Cardinality(T)
           /\ Cardinality(S) \in Nat /\ Cardinality(T) \in Nat
           /\ Cardinality(T) <= Cardinality(S)
<1>1. S \cap T = T
  OBVIOUS
<1>2. IsFiniteSet(T) /\ Cardinality(T) <= Cardinality(S)
  BY FS_Subset, Zenon
<1>3. IsFiniteSet(S \ T) /\ Cardinality(S \ T) = Cardinality(S) - Cardinality(S \cap T)
  BY FS_Difference, Zenon
<1>4. Cardinality(S) \in Nat /\ Cardinality(T) \in Nat
  BY <1>2, FS_CardinalityType, Zenon
<1> QED BY <1>1, <1>2, <1>3, <1>4, Zenon

LEMMA SizeWith ==
    ASSUME NEW S, IsFiniteSet(S), NEW x, x \notin S
    PROVE  Cardinality(S \cup {x}) = Cardinality(S) + 1 /\ Cardinality(S) \in Nat
BY FS_AddElement, FS_CardinalityType

LEMMA ConnsFinite ==
    ASSUME NEW S \in SUBSET Conns PROVE IsFiniteSet(S) /\ Cardinality(S) \in Nat
BY DaemonAssumption, FS_Subset, FS_CardinalityType

\* The bytes of one frame are as many as its length says.
LEMMA OneFrame ==
    ASSUME NEW c \in Conns
    PROVE  IsFiniteSet({c} \X (1 .. BytesOf[c])) /\ Cardinality({c} \X (1 .. BytesOf[c])) = BytesOf[c]
<1>1. BytesOf[c] \in Nat \ {0}
  BY DaemonAssumption
<1>2. IsFiniteSet(1 .. BytesOf[c]) /\ Cardinality(1 .. BytesOf[c]) = BytesOf[c]
  <2>1. ASSUME NEW n \in Nat PROVE IsFiniteSet(1 .. n) /\ Cardinality(1 .. n) = n
    BY FS_Interval
  <2> QED BY <1>1, <2>1
<1>3. IsFiniteSet({c}) /\ Cardinality({c}) = 1
  BY FS_Singleton
<1> DEFINE B == 1 .. BytesOf[c]
           C == {c}
<1> HIDE DEF B, C
<1>4. IsFiniteSet(C \X B) /\ Cardinality(C \X B) = Cardinality(C) * Cardinality(B)
  BY <1>2, <1>3, FS_Product, Zenon DEF B, C
<1>5. Cardinality(C) * Cardinality(B) = BytesOf[c]
  BY <1>1, <1>2, <1>3 DEF B, C
<1> QED BY <1>4, <1>5 DEF B, C

LEMMA FramesFinite ==
    ASSUME NEW S \in SUBSET Conns PROVE IsFiniteSet(FrameBytes(S))
<1> DEFINE F == [c \in S |-> {c} \X (1 .. BytesOf[c])]
           T == {{c} \X (1 .. BytesOf[c]) : c \in S}
<1>1. F \in Surjection(S, T)
  BY Zenon DEF Surjection
<1>2. IsFiniteSet(T)
  BY <1>1, ConnsFinite, FS_Surjection
<1>3. \A U \in T : IsFiniteSet(U)
  BY OneFrame
<1> QED BY <1>2, <1>3, FS_UNION, Zenon DEF FrameBytes

\* Another frame adds its length.
LEMMA FramesWith ==
    ASSUME NEW S \in SUBSET Conns, NEW c \in Conns, c \notin S
    PROVE  /\ Cardinality(FrameBytes(S \cup {c})) = Cardinality(FrameBytes(S)) + BytesOf[c]
           /\ Cardinality(FrameBytes(S)) \in Nat
<1> DEFINE F == {c} \X (1 .. BytesOf[c])
<1>1. FrameBytes(S \cup {c}) = FrameBytes(S) \cup F
  BY Zenon DEF FrameBytes
<1>2. FrameBytes(S) \cap F = {}
  BY DEF FrameBytes
<1>3. IsFiniteSet(FrameBytes(S)) /\ IsFiniteSet(F) /\ Cardinality(F) = BytesOf[c]
  BY FramesFinite, OneFrame
<1> HIDE DEF F
<1>4. /\ Cardinality(FrameBytes(S) \cup F) = Cardinality(FrameBytes(S)) + Cardinality(F) - Cardinality({})
      /\ Cardinality(FrameBytes(S)) \in Nat /\ Cardinality(F) \in Nat
  BY <1>2, <1>3, FS_Union, FS_CardinalityType
<1>5. Cardinality({}) = 0
  BY FS_EmptySet
<1>6. Cardinality(FrameBytes(S) \cup F) = Cardinality(FrameBytes(S)) + BytesOf[c]
  BY <1>3, <1>4, <1>5
<1> QED BY <1>1, <1>4, <1>6, Zenon

\* The frames of some requests of a set are part of its bytes.
LEMMA FramesWithout ==
    ASSUME NEW S \in SUBSET Conns, NEW T \in SUBSET S
    PROVE  /\ Cardinality(FrameBytes(S \ T)) = Cardinality(FrameBytes(S)) - Cardinality(FrameBytes(T))
           /\ Cardinality(FrameBytes(T)) <= Cardinality(FrameBytes(S))
           /\ Cardinality(FrameBytes(S)) \in Nat /\ Cardinality(FrameBytes(T)) \in Nat
<1>1. FrameBytes(T) \in SUBSET FrameBytes(S)
  BY Zenon DEF FrameBytes
<1>2. FrameBytes(S \ T) = FrameBytes(S) \ FrameBytes(T)
  <2>1. ASSUME NEW b \in FrameBytes(S \ T) PROVE b \in FrameBytes(S) /\ b \notin FrameBytes(T)
    BY DEF FrameBytes
  <2>2. ASSUME NEW b \in FrameBytes(S), b \notin FrameBytes(T) PROVE b \in FrameBytes(S \ T)
    BY <2>2, Zenon DEF FrameBytes
  <2> QED BY <2>1, <2>2, Zenon
<1> QED BY <1>1, <1>2, FramesFinite, SizeWithout, Zenon

-----------------------------------------------------------------------------
(* Permits.                                                                *)

LEMMA HoldersAreConns ==
    /\ InWork \in SUBSET Conns /\ Readers \in SUBSET Conns
    /\ HoldsPending \in SUBSET Conns /\ HoldsBytes \in SUBSET Conns
    /\ HoldsPending \in SUBSET HoldsBytes
BY Zenon DEF InWork, Readers, HoldsPending, HoldsBytes

LEMMA CountedSame ==
    ASSUME Counted, UNCHANGED <<Readers, HoldsPending, HoldsBytes, setting, admission>>
    PROVE  Counted'
BY Zenon DEF Counted, admission

LEMMA CountedPending ==
    ASSUME Counted, UNCHANGED <<HoldsPending, setting, pending_total, pending_tenants>>,
           active_connections' = Cardinality(Readers'), used' = Cardinality(FrameBytes(HoldsBytes'))
    PROVE  Counted'
<1>1. pending_total' = Cardinality(HoldsPending')
  BY Zenon DEF Counted
<1>2. ASSUME NEW t \in Tenants
      PROVE  pending_tenants'[t] = Cardinality({c \in HoldsPending' : setting'.of[c] = t})
  BY Zenon DEF Counted
<1> QED BY <1>1, <1>2, Zenon DEF Counted, FrameBytes

\* Dropping requests gives back exactly what they hold.
LEMMA CountedDrop ==
    ASSUME Counted, NEW D \in SUBSET HoldsPending, Drop(D),
           UNCHANGED <<Readers, active_connections, setting>>,
           HoldsPending' = HoldsPending \ D, HoldsBytes' = HoldsBytes \ D
    PROVE  Counted'
<1>1. active_connections' = Cardinality(Readers')
  BY DEF Counted
<1>2. pending_total' = Cardinality(HoldsPending')
  <2>1. pending_total' = pending_total - Cardinality(D) /\ pending_total = Cardinality(HoldsPending)
    BY DEF Counted, Drop, release_pending
  <2>2. Cardinality(HoldsPending \ D) = Cardinality(HoldsPending) - Cardinality(D)
    BY HoldersAreConns, ConnsFinite, SizeWithout, Zenon
  <2> QED BY <2>1, <2>2
<1>3. ASSUME NEW t \in Tenants
      PROVE  pending_tenants'[t] = Cardinality({c \in HoldsPending' : setting'.of[c] = t})
  <2>1. /\ pending_tenants'[t] = pending_tenants[t] - Cardinality({c \in D : setting.of[c] = t})
        /\ pending_tenants[t] = Cardinality({c \in HoldsPending : setting.of[c] = t})
    <3>1. pending_tenants' = [u \in Tenants |->
              pending_tenants[u] - Cardinality({c \in D : setting.of[c] = u})]
      BY Zenon DEF Drop, release_pending
    <3>2. pending_tenants[t] = Cardinality({c \in HoldsPending : setting.of[c] = t})
      BY Zenon DEF Counted
    <3> QED BY <3>1, <3>2, Zenon
  <2>2. {c \in HoldsPending' : setting'.of[c] = t} =
            {c \in HoldsPending : setting.of[c] = t} \ {c \in D : setting.of[c] = t}
    BY Zenon
  <2>3. /\ IsFiniteSet({c \in HoldsPending : setting.of[c] = t})
        /\ {c \in D : setting.of[c] = t} \in SUBSET {c \in HoldsPending : setting.of[c] = t}
    <3>1. {c \in HoldsPending : setting.of[c] = t} \in SUBSET Conns
      BY HoldersAreConns
    <3> QED BY <3>1, ConnsFinite
  <2>4. Cardinality({c \in HoldsPending : setting.of[c] = t} \ {c \in D : setting.of[c] = t}) =
            Cardinality({c \in HoldsPending : setting.of[c] = t})
                - Cardinality({c \in D : setting.of[c] = t})
    BY <2>3, SizeWithout, Zenon
  <2> QED BY <2>1, <2>2, <2>4, Zenon
<1>4. used' = Cardinality(FrameBytes(HoldsBytes'))
  <2>1. used' = used - Cardinality(FrameBytes(D)) /\ used = Cardinality(FrameBytes(HoldsBytes))
    BY DEF Counted, Drop, release_bytes
  <2>2. Cardinality(FrameBytes(HoldsBytes \ D)) =
            Cardinality(FrameBytes(HoldsBytes)) - Cardinality(FrameBytes(D))
    BY HoldersAreConns, FramesWithout
  <2> QED BY <2>1, <2>2, Zenon
<1> QED BY <1>1, <1>2, <1>3, <1>4, Zenon DEF Counted, FrameBytes

\* Requests in the scheduler hold both permits, and nobody else's change.
LEMMA DropSets ==
    ASSUME Shapes, Links, NEW D \in SUBSET InWork, Drop(D), reader' = reader
    PROVE  /\ Readers' = Readers /\ D \in SUBSET HoldsPending
           /\ HoldsPending' = HoldsPending \ D /\ HoldsBytes' = HoldsBytes \ D
<1>1. \A c \in D : c \in Conns /\ conn[c] = "work" /\ reader[c] \in {"returned", "exited"}
  BY Zenon DEF InWork, Links, Shapes, Switches, Threads, Requests
<1>2. \A c \in Conns : conn'[c] = IF c \in D THEN "closed" ELSE conn[c]
  BY DEF Drop
<1>3. Readers' = Readers
  BY Zenon DEF Readers
<1>4. InWork' = InWork \ D
  BY <1>2 DEF InWork
<1>5. HoldsPending' = HoldsPending \ D
  BY <1>1, <1>4 DEF HoldsPending
<1>6. HoldsBytes' = HoldsBytes \ D
  BY <1>1, <1>5 DEF HoldsBytes
<1> QED BY <1>3, <1>5, <1>6, Zenon DEF HoldsPending

LEMMA CountedStep ==
    ASSUME Shapes, Limits, Links, Placed, Phases, Counted, Next PROVE Counted'
<1> USE DEF Shapes, Switches, Threads, Requests
<1>1. CASE Quiet
  <2>1. UNCHANGED <<reader, conn, setting, admission>>
    BY <1>1, QuietKeeps, Zenon DEF work
  <2>2. UNCHANGED <<Readers, HoldsPending, HoldsBytes>>
    BY <2>1, Zenon DEF Readers, HoldsPending, HoldsBytes, InWork
  <2> QED BY <2>1, <2>2, CountedSame, Zenon
<1>2. CASE MainStop
  <2>1. UNCHANGED <<reader, setting, admission>>
    BY <1>2, Zenon DEF MainStop, clients
  <2>2. InWork' = InWork
    BY <1>2 DEF MainStop, InWork
  <2>3. UNCHANGED <<Readers, HoldsPending, HoldsBytes>>
    BY <2>1, <2>2, Zenon DEF Readers, HoldsPending, HoldsBytes
  <2> QED BY <2>1, <2>3, CountedSame, Zenon
<1>3. CASE Receive \/ drain_expired
  <2>1. UNCHANGED <<reader, conn, setting, admission>>
    BY <1>3, Zenon DEF Receive, drain_expired, clients
  <2>2. UNCHANGED <<Readers, HoldsPending, HoldsBytes>>
    BY <2>1, Zenon DEF Readers, HoldsPending, HoldsBytes, InWork
  <2> QED BY <2>1, <2>2, CountedSame, Zenon
<1>4. CASE SchedulerDies
  <2>1. queue \cup Range(channel) \in SUBSET InWork
    BY DEF Placed, OnePlace
  <2>2. Drop(queue \cup Range(channel)) /\ UNCHANGED <<reader, setting, active_connections>>
    BY <1>4, Zenon DEF SchedulerDies, clients
  <2> QED BY <2>1, <2>2, DropSets, CountedDrop, Zenon
<1>5. ASSUME NEW c \in Conns, Connect(c) \/ SpawnFails(c) PROVE Counted'
  <2>1. UNCHANGED <<reader, setting, admission>>
    BY <1>5, Zenon DEF Connect, SpawnFails, clients
  <2>2. InWork' = InWork
    BY <1>5 DEF Connect, SpawnFails, InWork
  <2>3. UNCHANGED <<Readers, HoldsPending, HoldsBytes>>
    BY <2>1, <2>2, Zenon DEF Readers, HoldsPending, HoldsBytes
  <2> QED BY <2>1, <2>3, CountedSame, Zenon
<1>6. ASSUME NEW c \in Conns, Accept(c) PROVE Counted'
  <2>1. reader[c] = "none" /\ UNCHANGED <<setting, pending_total, pending_tenants, used>>
    BY <1>6, Zenon DEF Accept, Links, clients
  <2>2. InWork' = InWork
    BY <1>6 DEF Accept, InWork
  <2>3. HoldsPending' = HoldsPending
    BY <1>6, <2>1, <2>2 DEF Accept, HoldsPending
  <2>4. HoldsBytes' = HoldsBytes
    BY <1>6, <2>1, <2>3 DEF Accept, HoldsBytes
  <2>5. active_connections' = Cardinality(Readers')
    <3>1. CASE UNCHANGED <<active_connections, reader>>
      BY <3>1, Zenon DEF Readers, Counted
    <3>2. CASE /\ active_connections' = active_connections + 1
               /\ reader' = [reader EXCEPT ![c] = "header"]
      <4>1. c \notin Readers /\ Readers' = Readers \cup {c}
        BY <2>1, <3>2 DEF Readers
      <4> QED BY <3>2, <4>1, SizeWith, HoldersAreConns, ConnsFinite DEF Counted
    <3> QED BY <1>6, <3>1, <3>2, Zenon DEF Accept
  <2>6. used' = Cardinality(FrameBytes(HoldsBytes'))
    BY <2>1, <2>4, Zenon DEF Counted
  <2> QED BY <2>1, <2>3, <2>5, <2>6, CountedPending, Zenon
<1>7. ASSUME NEW c \in Conns, ReaderStep(c) PROVE Counted'
  <2>1. CASE Refuse(c, "header", "returned") \/ Refuse(c, "body", "refused")
    <3>1. UNCHANGED <<conn, setting, admission>>
      BY <2>1, Zenon DEF Refuse, clients
    <3>2. InWork' = InWork
      BY <3>1, Zenon DEF InWork
    <3>3. UNCHANGED <<Readers, HoldsPending, HoldsBytes>>
      BY <2>1, <3>2 DEF Refuse, Moves, Readers, HoldsPending, HoldsBytes
    <3> QED BY <3>1, <3>3, CountedSame, Zenon
  <2>2. CASE TakesBytes(c)
    <3>1. /\ UNCHANGED <<conn, setting, active_connections, pending_total, pending_tenants>>
          /\ reader[c] = "header" /\ reader' = [reader EXCEPT ![c] = "body"]
          /\ used' = used + BytesOf[c]
      BY <2>2, Zenon DEF TakesBytes, Moves, clients, work
    <3>2. conn[c] = "reader" /\ InWork' = InWork
      BY <3>1 DEF Links, InWork
    <3>3. Readers' = Readers /\ HoldsPending' = HoldsPending
      BY <3>1, <3>2 DEF Readers, HoldsPending
    <3>4. c \notin HoldsPending
      BY <3>1, <3>2, Zenon DEF HoldsPending, InWork
    <3>5. c \notin HoldsBytes /\ HoldsBytes' = HoldsBytes \cup {c}
      BY <3>1, <3>3, <3>4 DEF HoldsBytes
    <3>6. used' = Cardinality(FrameBytes(HoldsBytes'))
      <4>1. Cardinality(FrameBytes(HoldsBytes \cup {c})) = Cardinality(FrameBytes(HoldsBytes)) + BytesOf[c]
        BY <3>5, FramesWith, HoldersAreConns
      <4> QED BY <3>1, <3>5, <4>1, Zenon DEF Counted
    <3>7. active_connections' = Cardinality(Readers')
      BY <3>1, <3>3, Zenon DEF Counted
    <3> QED BY <3>1, <3>3, <3>6, <3>7, CountedPending, Zenon
  <2>3. CASE TakesPending(c)
    <3>1. /\ UNCHANGED <<conn, setting, active_connections, used>>
          /\ reader[c] = "body" /\ reader' = [reader EXCEPT ![c] = "admitted"]
          /\ pending_total' = pending_total + 1
          /\ pending_tenants' = [pending_tenants EXCEPT ![setting.of[c]] = @ + 1]
      BY <2>3, Zenon DEF TakesPending, Moves, clients, work
    <3>2. conn[c] = "reader" /\ InWork' = InWork
      BY <3>1 DEF Links, InWork
    <3>3. Readers' = Readers /\ HoldsBytes' = HoldsBytes
      BY <3>1, <3>2 DEF Readers, HoldsPending, HoldsBytes
    <3>4. c \notin HoldsPending /\ HoldsPending' = HoldsPending \cup {c}
      BY <3>1, <3>2 DEF HoldsPending, InWork
    <3>5. pending_total' = Cardinality(HoldsPending')
      BY <3>1, <3>4, SizeWith, HoldersAreConns, ConnsFinite, Zenon DEF Counted
    <3>6. ASSUME NEW t \in Tenants
          PROVE  pending_tenants'[t] = Cardinality({x \in HoldsPending' : setting'.of[x] = t})
      <4> DEFINE Of == {x \in HoldsPending : setting.of[x] = t}
      <4>0. pending_tenants[t] = Cardinality(Of) /\ Of \in SUBSET Conns
        BY HoldersAreConns, Zenon DEF Counted
      <4>1. CASE setting.of[c] = t
        <5>1. c \notin Of /\ {x \in HoldsPending' : setting'.of[x] = t} = Of \cup {c}
          BY <3>1, <3>4, <4>1
        <5>2. Cardinality(Of \cup {c}) = Cardinality(Of) + 1
          BY <4>0, <5>1, SizeWith, ConnsFinite, Zenon
        <5>3. pending_tenants'[t] = pending_tenants[t] + 1
          BY <3>1, <4>1 DEF Limits
        <5> QED BY <4>0, <5>1, <5>2, <5>3, Zenon
      <4>2. CASE setting.of[c] # t
        <5>1. {x \in HoldsPending' : setting'.of[x] = t} = Of
          BY <3>1, <3>4, <4>2
        <5>2. pending_tenants'[t] = pending_tenants[t]
          BY <3>1, <4>2 DEF Limits
        <5> QED BY <4>0, <5>1, <5>2, Zenon
      <4> QED BY <4>1, <4>2
    <3> QED BY <3>1, <3>3, <3>5, <3>6, Zenon DEF Counted, FrameBytes
  <2>4. CASE Sends(c)
    <3>1. /\ UNCHANGED <<setting, admission>> /\ conn' = [conn EXCEPT ![c] = "work"]
          /\ reader[c] = "admitted" /\ reader' = [reader EXCEPT ![c] = "returned"]
      BY <2>4, Zenon DEF Sends, Moves, clients
    <3>2. Readers' = Readers /\ HoldsPending' = HoldsPending
      BY <3>1 DEF Readers, HoldsPending, InWork
    <3>3. HoldsBytes' = HoldsBytes
      BY <3>1, <3>2 DEF HoldsBytes
    <3> QED BY <3>1, <3>2, <3>3, CountedSame, Zenon
  <2>5. CASE SendFails(c)
    <3>1. /\ UNCHANGED <<setting, active_connections>> /\ Drop({c})
          /\ reader[c] = "admitted" /\ reader' = [reader EXCEPT ![c] = "returned"]
      BY <2>5, Zenon DEF SendFails, Moves, clients
    <3>2. conn[c] = "reader" /\ {c} \in SUBSET HoldsPending
      BY <3>1 DEF Links, HoldsPending
    <3>3. InWork' = InWork
      BY <3>1, <3>2 DEF Drop, InWork
    <3>4. Readers' = Readers
      BY <3>1 DEF Readers
    <3>5. HoldsPending' = HoldsPending \ {c}
      BY <3>1, <3>2, <3>3 DEF HoldsPending, InWork
    <3>6. HoldsBytes' = HoldsBytes \ {c}
      BY <3>1, <3>5 DEF HoldsBytes
    <3> QED BY <3>1, <3>2, <3>4, <3>5, <3>6, CountedDrop, Zenon
  <2>6. CASE DropFrame(c)
    <3>1. /\ UNCHANGED <<conn, setting, active_connections, pending_total, pending_tenants>>
          /\ reader[c] = "refused" /\ reader' = [reader EXCEPT ![c] = "returned"]
          /\ used' = used - Cardinality(FrameBytes({c}))
      BY <2>6, Zenon DEF DropFrame, Moves, clients, work, release_bytes
    <3>2. conn[c] = "reader" /\ InWork' = InWork
      BY <3>1 DEF Links, InWork
    <3>3. Readers' = Readers /\ HoldsPending' = HoldsPending /\ c \notin HoldsPending
      BY <3>1, <3>2 DEF Readers, HoldsPending, InWork
    <3>4. c \in HoldsBytes /\ HoldsBytes' = HoldsBytes \ {c}
      BY <3>1, <3>2, <3>3 DEF HoldsBytes
    <3>5. used' = Cardinality(FrameBytes(HoldsBytes'))
      <4>1. Cardinality(FrameBytes(HoldsBytes \ {c})) =
                Cardinality(FrameBytes(HoldsBytes)) - Cardinality(FrameBytes({c}))
        BY <3>4, FramesWithout, HoldersAreConns, Zenon
      <4> QED BY <3>1, <3>4, <4>1, Zenon DEF Counted
    <3>6. active_connections' = Cardinality(Readers')
      BY <3>1, <3>3, Zenon DEF Counted
    <3> QED BY <3>1, <3>3, <3>5, <3>6, CountedPending, Zenon
  <2>7. CASE ReaderExit(c)
    <3>1. /\ UNCHANGED <<setting, pending_total, pending_tenants, used>>
          /\ reader[c] = "returned" /\ reader' = [reader EXCEPT ![c] = "exited"]
          /\ active_connections' = active_connections - 1
      BY <2>7, Zenon DEF ReaderExit, Moves, clients
    <3>2. InWork' = InWork
      BY <2>7 DEF ReaderExit, InWork
    <3>3. HoldsPending' = HoldsPending
      BY <3>1, <3>2 DEF HoldsPending
    <3>4. HoldsBytes' = HoldsBytes
      BY <3>1, <3>3 DEF HoldsBytes
    <3>5. {c} \in SUBSET Readers /\ Readers' = Readers \ {c}
      BY <3>1 DEF Readers
    <3>6. Cardinality(Readers \ {c}) = Cardinality(Readers) - 1
      <4>1. IsFiniteSet(Readers) /\ Cardinality({c}) = 1
        BY HoldersAreConns, ConnsFinite, FS_Singleton, Zenon
      <4>2. Cardinality(Readers \ {c}) = Cardinality(Readers) - Cardinality({c})
        BY <3>5, <4>1, SizeWithout, Zenon
      <4> QED BY <4>1, <4>2, Zenon
    <3>7. active_connections' = Cardinality(Readers')
      BY <3>1, <3>5, <3>6, Zenon DEF Counted
    <3>8. used' = Cardinality(FrameBytes(HoldsBytes'))
      BY <3>1, <3>4, Zenon DEF Counted
    <3> QED BY <3>1, <3>3, <3>7, <3>8, CountedPending, Zenon
  <2> QED BY <1>7, <2>1, <2>2, <2>3, <2>4, <2>5, <2>6, <2>7, Zenon DEF ReaderStep
<1>8. ASSUME NEW c \in Conns, Ends(c) PROVE Counted'
  <2>1. {c} \in SUBSET InWork
    BY <1>8 DEF Ends, Placed, OnePlace
  <2>2. Drop({c}) /\ UNCHANGED <<reader, setting, active_connections>>
    BY <1>8, Zenon DEF Ends, clients
  <2> QED BY <2>1, <2>2, DropSets, CountedDrop, Zenon
<1>9. ASSUME NEW c \in Conns, GoesOn(c) \/ FatalFailure(c) PROVE Counted'
  <2>1. UNCHANGED <<reader, conn, setting, admission>>
    BY <1>9, Zenon DEF GoesOn, FatalFailure, clients
  <2>2. UNCHANGED <<Readers, HoldsPending, HoldsBytes>>
    BY <2>1, Zenon DEF Readers, HoldsPending, HoldsBytes, InWork
  <2> QED BY <2>1, <2>2, CountedSame, Zenon
<1> QED BY <1>1, <1>2, <1>3, <1>4, <1>5, <1>6, <1>7, <1>8, <1>9, Cases, Zenon

\* The counters grow only under their guards.
LEMMA LimitsStep ==
    ASSUME Shapes, Limits, Placed, Next, Counted' PROVE Limits'
<1>0. setting \in [connections : Nat \ {0}, queued : Nat \ {0}, tenant : Nat \ {0}, bytes : Nat,
                  of : [Conns -> Tenants], leavers : SUBSET Conns, hasty : SUBSET Conns]
  BY DaemonAssumption DEF Shapes, Switches, Threads, Requests
<1>1. /\ active_connections' \in Nat /\ pending_total' \in Nat /\ used' \in Nat
      /\ \A t \in Tenants : pending_tenants'[t] \in Nat
  <2>1. /\ Readers' \in SUBSET Conns /\ HoldsPending' \in SUBSET Conns /\ HoldsBytes' \in SUBSET Conns
        /\ \A t \in Tenants : {c \in HoldsPending' : setting'.of[c] = t} \in SUBSET Conns
    BY Zenon DEF Readers, HoldsPending, HoldsBytes, InWork
  <2>2. IsFiniteSet(FrameBytes(HoldsBytes'))
    BY <2>1, FramesFinite, Zenon
  <2>3. Cardinality(FrameBytes(HoldsBytes')) \in Nat
    BY <2>2, FS_CardinalityType, Zenon
  <2>4. used' = Cardinality(FrameBytes(HoldsBytes'))
    BY Zenon DEF Counted, FrameBytes
  <2>5. \A t \in Tenants : pending_tenants'[t] \in Nat
    BY <2>1, ConnsFinite, Zenon DEF Counted
  <2> QED BY <2>1, <2>3, <2>4, <2>5, ConnsFinite, Zenon DEF Counted
<1> DEFINE Within == /\ active_connections' <= setting.connections /\ used' <= setting.bytes
                     /\ pending_tenants' = [t \in Tenants |-> pending_tenants'[t]]
                     /\ \A t \in Tenants : pending_tenants'[t] <= setting.tenant
<1>2. ASSUME Within, setting' = setting PROVE Limits'
  BY <1>0, <1>1, <1>2 DEF Limits
<1>3. ASSUME UNCHANGED <<setting, admission>> PROVE Limits'
  BY <1>3 DEF Limits, admission
\* Dropped requests have no negative size.
<1>4. ASSUME NEW D \in SUBSET Conns, Drop(D), UNCHANGED <<setting, active_connections>> PROVE Limits'
  <2>1. Cardinality(FrameBytes(D)) \in Nat
    BY FramesFinite, FS_CardinalityType
  <2>2. \A t \in Tenants : Cardinality({c \in D : setting.of[c] = t}) \in Nat
    <3>1. \A t \in Tenants : {c \in D : setting.of[c] = t} \in SUBSET Conns
      OBVIOUS
    <3> QED BY <3>1, ConnsFinite, Zenon
  <2>3. used' <= setting.bytes /\ active_connections' <= setting.connections
    BY <1>0, <1>4, <2>1 DEF Drop, release_bytes, Limits
  <2>4. \A t \in Tenants : pending_tenants'[t] <= setting.tenant
    BY <1>0, <1>4, <2>2 DEF Drop, release_pending, Limits
  <2>5. pending_tenants' = [t \in Tenants |-> pending_tenants'[t]]
    BY <1>4 DEF Drop, release_pending
  <2> QED BY <1>2, <1>4, <2>3, <2>4, <2>5
<1> HIDE DEF Within
<1>5. CASE Quiet \/ MainStop \/ Receive \/ drain_expired
  <2>1. UNCHANGED <<setting, admission>>
    BY <1>5, QuietKeeps, Zenon DEF MainStop, Receive, drain_expired, clients
  <2> QED BY <1>3, <2>1
<1>6. CASE SchedulerDies
  <2>1. /\ Drop(queue \cup Range(channel)) /\ UNCHANGED <<setting, active_connections>>
        /\ queue \cup Range(channel) \in SUBSET Conns
    BY <1>6 DEF SchedulerDies, clients, Placed, OnePlace, InWork
  <2> QED BY <1>4, <2>1, Zenon
<1>7. ASSUME NEW c \in Conns, Connect(c) \/ SpawnFails(c) \/ GoesOn(c) \/ FatalFailure(c) PROVE Limits'
  <2>1. UNCHANGED <<setting, admission>>
    BY <1>7, Zenon DEF Connect, SpawnFails, GoesOn, FatalFailure, clients
  <2> QED BY <1>3, <2>1
<1>8. ASSUME NEW c \in Conns, Accept(c) PROVE Limits'
  <2>1. Within /\ setting' = setting
    BY <1>0, <1>8 DEF Accept, Within, Limits, try_acquire_reader, clients
  <2> QED BY <1>2, <2>1, Zenon
<1>9. ASSUME NEW c \in Conns, ReaderStep(c) PROVE Limits'
  <2>1. CASE Refuse(c, "header", "returned") \/ Refuse(c, "body", "refused") \/ Sends(c)
    BY <1>3, <2>1, Zenon DEF Refuse, Sends, clients
  <2>2. CASE TakesBytes(c)
    <3>1. Within /\ setting' = setting
      BY <1>0, <2>2 DEF TakesBytes, Within, Limits, try_acquire_bytes, clients
    <3> QED BY <1>2, <3>1, Zenon
  <2>3. CASE TakesPending(c)
    <3>1. setting.of[c] \in Tenants
      BY <1>0
    <3>2. /\ UNCHANGED <<setting, active_connections, used>>
          /\ pending_tenants[setting.of[c]] < setting.tenant
          /\ pending_tenants' = [pending_tenants EXCEPT ![setting.of[c]] = @ + 1]
      BY <2>3, Zenon DEF TakesPending, try_acquire_pending, clients
    <3>3. \A t \in Tenants : pending_tenants[t] \in 0 .. setting.tenant
      BY DEF Limits
    <3>4. /\ \A t \in Tenants : pending_tenants'[t] <= setting.tenant
          /\ pending_tenants' = [t \in Tenants |-> pending_tenants'[t]]
      <4>1. pending_tenants \in [Tenants -> 0 .. setting.tenant]
        BY DEF Limits
      <4>2. pending_tenants' \in [Tenants -> 0 .. setting.tenant]
        BY <1>0, <3>1, <3>2, <4>1
      <4> QED BY <1>0, <4>2
    <3>5. active_connections' <= setting.connections /\ used' <= setting.bytes
      BY <1>0, <3>2 DEF Limits
    <3> QED BY <1>2, <3>2, <3>4, <3>5, Zenon DEF Within
  <2>4. CASE SendFails(c)
    <3>1. Drop({c}) /\ UNCHANGED <<setting, active_connections>> /\ {c} \in SUBSET Conns
      BY <2>4, Zenon DEF SendFails, clients
    <3> QED BY <1>4, <3>1, Zenon
  <2>5. CASE DropFrame(c)
    <3>1. Cardinality(FrameBytes({c})) \in Nat
      BY FramesFinite, FS_CardinalityType
    <3>2. /\ UNCHANGED <<setting, active_connections, pending_tenants>>
          /\ used' = used - Cardinality(FrameBytes({c}))
      BY <2>5, Zenon DEF DropFrame, release_bytes, clients
    <3>3. used' <= setting.bytes /\ active_connections' <= setting.connections
      BY <1>0, <3>1, <3>2 DEF Limits
    <3>4. /\ \A t \in Tenants : pending_tenants'[t] <= setting.tenant
          /\ pending_tenants' = [t \in Tenants |-> pending_tenants'[t]]
      BY <1>0, <3>2 DEF Limits
    <3> QED BY <1>2, <3>2, <3>3, <3>4, Zenon DEF Within
  <2>6. CASE ReaderExit(c)
    <3>1. Within /\ setting' = setting
      BY <1>0, <2>6 DEF ReaderExit, Within, Limits, clients
    <3> QED BY <1>2, <3>1, Zenon
  <2> QED BY <1>9, <2>1, <2>2, <2>3, <2>4, <2>5, <2>6, Zenon DEF ReaderStep
<1>10. ASSUME NEW c \in Conns, Ends(c) PROVE Limits'
  <2>1. Drop({c}) /\ UNCHANGED <<setting, active_connections>> /\ {c} \in SUBSET Conns
    BY <1>10, Zenon DEF Ends, clients
  <2> QED BY <1>4, <2>1, Zenon
<1> QED BY <1>5, <1>6, <1>7, <1>8, <1>9, <1>10, Cases, Zenon

LEMMA InitPermits == ASSUME Init PROVE Limits /\ Counted
<1> USE DEF Init
<1>1. Limits
  BY DaemonAssumption DEF Limits
<1>2. Readers = {} /\ HoldsPending = {} /\ HoldsBytes = {}
  BY DEF InWork, Readers, HoldsPending, HoldsBytes
<1>3. FrameBytes(HoldsBytes) = {} /\ Cardinality({}) = 0
  BY <1>2, FS_EmptySet, Zenon DEF FrameBytes
<1>4. \A t \in Tenants : {c \in HoldsPending : setting.of[c] = t} = {}
  BY <1>2, Zenon
<1> QED BY <1>1, <1>2, <1>3, <1>4, Zenon DEF Counted

LEMMA StepPermits == ASSUME PInv, Limits, Counted, [Next]_vars PROVE (Limits /\ Counted)'
<1>1. CASE Next
  BY <1>1, LimitsStep, CountedStep, Zenon DEF PInv
<1>2. CASE UNCHANGED vars
  <2>1. UNCHANGED <<reader, conn, setting, admission>>
    BY <1>2, Zenon DEF vars, clients, work
  <2>2. Limits'
    BY <2>1, Zenon DEF Limits, admission
  <2>3. UNCHANGED <<Readers, HoldsPending, HoldsBytes>>
    BY <2>1, Zenon DEF Readers, HoldsPending, HoldsBytes, InWork
  <2> QED BY <2>1, <2>2, <2>3, CountedSame, Zenon
<1> QED BY <1>1, <1>2, Zenon

\* The counters are the sizes of the sets of holders, within their limits, in every reachable
\* state.
THEOREM Invariance == Spec => []IInv
<1>1. Init => Limits /\ Counted
  BY InitPermits
<1>2. PInv /\ (Limits /\ Counted) /\ [Next]_vars => (Limits /\ Counted)'
  BY StepPermits
<1>3. PInv /\ Limits /\ Counted => IInv
  BY DEF IInv
<1> QED BY <1>1, <1>2, <1>3, PlacesInvariant, PTL DEF Spec

LEMMA ChannelSize ==
    ASSUME Shapes, Distinct
    PROVE  Cardinality(Range(channel)) = Len(channel) /\ IsFiniteSet(Range(channel))
<1>1. channel \in Seq(Conns)
  BY DEF Shapes, Requests
<1>2. DOMAIN channel = 1 .. Len(channel) /\ Len(channel) \in Nat
  BY <1>1
<1>3. channel \in Bijection(1 .. Len(channel), Range(channel))
  <2>1. channel \in [1 .. Len(channel) -> Range(channel)]
    BY <1>1, <1>2 DEF Range
  <2>2. channel \in Injection(1 .. Len(channel), Range(channel))
    BY <1>2, <2>1, Zenon DEF Injection, IsInjective, Distinct
  <2>3. channel \in Surjection(1 .. Len(channel), Range(channel))
    BY <1>2, <2>1 DEF Surjection, Range
  <2> QED BY <2>2, <2>3, Zenon DEF Bijection
<1>4. IsFiniteSet(1 .. Len(channel)) /\ Cardinality(1 .. Len(channel)) = Len(channel)
  <2>1. ASSUME NEW n \in Nat PROVE IsFiniteSet(1 .. n) /\ Cardinality(1 .. n) = n
    BY FS_Interval
  <2> QED BY <1>2, <2>1, Zenon
<1>5. ExistsBijection(1 .. Len(channel), Range(channel))
  BY <1>3, Zenon DEF ExistsBijection
<1> QED BY <1>4, <1>5, FS_Bijection, Zenon

\* No permit is lost or returned twice on any path of a request through the threads of
\* tilemaxsimd, whatever the numbers of connections and tenants and the limits: the counters
\* are the readers, the admitted requests and the bytes of their frames, within the limits.
THEOREM PermitsConservedHolds == Spec => []PermitsConserved
<1>1. ASSUME IInv PROVE PermitsConserved
  <2>1. TypeOK
    BY <1>1, Zenon DEF IInv, PInv, Shapes, Switches, Threads, Requests, Limits, TypeOK
  <2>2. InWork = Range(channel) \cup queue \cup draining
    BY <1>1, Zenon DEF IInv, PInv, Placed, OnePlace
  <2>3. Cardinality(InWork) = Len(channel) + Cardinality(queue) + Cardinality(draining)
    <3>1. /\ Range(channel) \in SUBSET Conns /\ queue \in SUBSET Conns /\ draining \in SUBSET Conns
          /\ Range(channel) \cap queue = {} /\ (Range(channel) \cup queue) \cap draining = {}
      BY <1>1, <2>2 DEF IInv, PInv, Placed, OnePlace, InWork
    <3>2. /\ IsFiniteSet(Range(channel)) /\ IsFiniteSet(queue) /\ IsFiniteSet(draining)
          /\ Cardinality(queue) \in Nat /\ Cardinality(draining) \in Nat
          /\ Cardinality(Range(channel)) \in Nat
      BY <3>1, ConnsFinite, Zenon
    <3>3. Cardinality(Range(channel)) = Len(channel)
      BY <1>1, ChannelSize, Zenon DEF IInv, PInv, Placed
    <3>4. Cardinality({}) = 0
      BY FS_EmptySet
    <3>5. /\ IsFiniteSet(Range(channel) \cup queue)
          /\ Cardinality(Range(channel) \cup queue) = Cardinality(Range(channel)) + Cardinality(queue) - Cardinality({})
      BY <3>1, <3>2, FS_Union, Zenon
    <3>6. Cardinality((Range(channel) \cup queue) \cup draining) =
              Cardinality(Range(channel) \cup queue) + Cardinality(draining) - Cardinality({})
      BY <3>1, <3>2, <3>5, FS_Union
    <3>7. Cardinality((Range(channel) \cup queue) \cup draining) =
              Len(channel) + Cardinality(queue) + Cardinality(draining)
      BY <3>2, <3>3, <3>4, <3>5, <3>6
    <3> QED BY <2>2, <3>7, Zenon
  <2> QED BY <1>1, <2>1, <2>2, <2>3, Zenon DEF IInv, Counted, PermitsConserved
<1> QED BY <1>1, Invariance, PTL

\* When main returns, nothing is in flight: every reader has been joined, no request is in the
\* scheduler, every permit is back and every connection is closed.
THEOREM ExitsEmptyHolds == Spec => []ExitsEmpty
<1>1. ASSUME IInv, main \in {"exited", "failed"}
      PROVE  /\ Readers = {} /\ InWork = {} /\ used = 0 /\ pending_total = 0
             /\ \A c \in Conns : conn[c] \in {"none", "closed"}
  <2>1. /\ Readers = {} /\ channel = <<>> /\ queue = {} /\ draining = {}
        /\ \A c \in Conns : conn[c] # "backlog"
    BY <1>1 DEF IInv, PInv, Phases, Joined
  <2>2. InWork = {}
    BY <1>1, <2>1, RangeEmpty DEF IInv, PInv, Placed, OnePlace
  <2>3. \A c \in Conns : reader[c] \in {"none", "exited"}
    BY <2>1, Zenon DEF Readers
  <2>4. HoldsPending = {} /\ HoldsBytes = {}
    BY <2>2, <2>3 DEF HoldsPending, HoldsBytes
  <2>5. FrameBytes(HoldsBytes) = {}
    BY <2>4, Zenon DEF FrameBytes
  <2>6. used = 0 /\ pending_total = 0
    BY <1>1, <2>4, <2>5, FS_EmptySet, Zenon DEF IInv, Counted
  <2>7. \A c \in Conns : conn[c] \in {"none", "closed"}
    BY <1>1, <2>1, <2>2, <2>3 DEF IInv, PInv, Links, Shapes, Requests, InWork
  <2> QED BY <2>1, <2>2, <2>6, <2>7
<1>2. IInv => ExitsEmpty
  BY <1>1, Zenon DEF ExitsEmpty
<1> QED BY <1>2, Invariance, PTL
=============================================================================
