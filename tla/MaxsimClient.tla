--------------------------- MODULE MaxsimClient ---------------------------
(* src/index/vchordrq/scanners/maxsim/: a PostgreSQL backend has the exact   *)
(* MaxSim distances of a query's candidates computed by the GPU daemon.      *)
(* search.rs ("search") and exact.rs ("rerank") send descriptors of tensors  *)
(* in bounded batches and keep the k best; an ordinary scan with the gpu or  *)
(* the auto backend (maxsim.rs) sends all tensors in one request.  gpu.rs    *)
(* has the batches, the frames and the transport.                            *)
EXTENDS Integers, Sequences, FiniteSets, Functions

CONSTANTS Keys,          \* rows of the table; a key is also the public identifier
          Distance,      \* the distance of each row from the query
          Rows,          \* the tokens of each tensor
          RefBytes,      \* the length of each tensor reference
          QueryRows, ScalarBytes, ContractBytes, TenantBytes,
          MaxTokens, MaxBytes, MaxCandidates,
          Timeout, MaxTime,
          MaxChanges,    \* bound on the rows that other transactions change
          Asked          \* the queries: [mode, k, limit, candidates, fresh]

Query == [mode : {"search", "rerank", "gpu", "auto"}, k : Int, limit : Int,
          candidates : Seq(Keys), fresh : BOOLEAN]
\* A distance from 1000 stands for one that is not finite.
Finite(d) == d < 1000
Distinct(s) == \A i, j \in DOMAIN s : s[i] = s[j] => i = j
\* The candidates of an index are distinct; a caller may name one twice.
ASSUME MaxsimAssumption ==
    /\ Keys \subseteq Int /\ IsFiniteSet(Keys)
    /\ Distance \in [Keys -> Int] /\ \A key \in Keys : Finite(Distance[key])
    /\ Rows \in [Keys -> Nat] /\ RefBytes \in [Keys -> Nat]
    /\ QueryRows \in Nat /\ ScalarBytes \in Nat /\ ContractBytes \in Nat /\ TenantBytes \in Nat
    /\ MaxTokens \in Nat /\ MaxBytes \in Nat /\ MaxCandidates \in Nat \ {0}
    /\ Timeout \in Nat \ {0} /\ MaxTime \in Nat /\ MaxChanges \in Nat
    /\ \A q \in Asked : q \in Query /\ (q.mode # "rerank" => Distinct(q.candidates))

VARIABLES pc, query, live, seen, todo, pending, batch, sizes, results, best, now, deadline, conn, answer
vars == <<pc, query, live, seen, todo, pending, batch, sizes, results, best, now, deadline, conn, answer>>
request == <<query, seen>>
iteration == <<todo, pending, batch, sizes, results, best>>

NoConn == [id |-> 0, keys |-> <<>>, deadline |-> 0, sent |-> FALSE, parts |-> 0, closed |-> FALSE,
           reply |-> [id |-> 0, status |-> 0, long |-> FALSE, results |-> <<>>]]
NoAnswer == [ok |-> TRUE, rows |-> <<>>, why |-> "none"]
Failed(why) == [ok |-> FALSE, rows |-> <<>>, why |-> why]
NoSizes == [tokens |-> 0, declared |-> 0, frame |-> 0]
External == query.mode \in {"search", "rerank"}

Init ==
    /\ pc = "idle"
    /\ query = [mode |-> "none", k |-> 0, limit |-> 0, candidates |-> <<>>, fresh |-> FALSE]
    /\ live = Keys /\ seen = {}
    /\ todo = <<>> /\ pending = <<>> /\ batch = <<>> /\ sizes = NoSizes /\ results = {} /\ best = {}
    /\ now = 0 /\ deadline = 0 /\ conn = NoConn /\ answer = NoAnswer

----------------------------------------------------------------------------
(* Sizes, as they are reckoned beforehand and as the frame is written.       *)
tensor_bytes(rows) == rows * ScalarBytes
ChecksumBytes == 71
\* Mutant: the scheduling fields of a request with a tenant are forgotten.
BaseWithoutIdentity == 44 + ContractBytes + TenantBytes + tensor_bytes(QueryRows)
external_request_base_bytes ==
    (IF TenantBytes > 0 THEN 56 ELSE 44) + ContractBytes + TenantBytes + tensor_bytes(QueryRows)
descriptor_frame_bytes(key) == 16 + RefBytes[key] + ChecksumBytes

HeaderLen == 24
Sum(size, keys) ==
    LET sum[n \in 0 .. Len(keys)] == IF n = 0 THEN 0 ELSE sum[n - 1] + size[keys[n]]
    IN  sum[Len(keys)]
Identity == IF TenantBytes > 0 THEN 4 + 4 + 4 ELSE 0
ExternalFrame(keys) ==
    HeaderLen + (4 + 4 + 4 + 1 + 1 + 2 + 4) + Identity + ContractBytes + TenantBytes
        + tensor_bytes(QueryRows)
        + Sum([key \in Keys |-> 4 + 4 + 4 + 4 + RefBytes[key] + ChecksumBytes], keys)
TensorFrame(keys) ==
    HeaderLen + (4 + 4 + 4 + 1 + 1 + 2) + tensor_bytes(QueryRows)
        + Sum([key \in Keys |-> 4 + 4 + tensor_bytes(Rows[key])], keys)
TokensOf(keys) == QueryRows + Sum(Rows, keys)
DeclaredOf(keys) ==
    tensor_bytes(QueryRows) + Sum([key \in Keys |-> tensor_bytes(Rows[key])], keys)

\* Refused frames: the limits are on the tokens, on the bytes the tensors will
\* take and on the bytes of the frame.
encode_external_descriptors(keys) ==
    /\ TokensOf(keys) <= MaxTokens /\ DeclaredOf(keys) <= MaxBytes
    /\ ExternalFrame(keys) <= MaxBytes /\ Len(keys) <= MaxCandidates
encode_request(keys) == TokensOf(keys) <= MaxTokens /\ TensorFrame(keys) <= MaxBytes

----------------------------------------------------------------------------
(* A batch is filled until the next descriptor would not fit; that one stays *)
(* in `pending` for the next batch.                                          *)
NoRoom(s) == s.tokens > MaxTokens \/ s.declared > MaxBytes \/ s.frame > MaxBytes
Base ==
    [tokens |-> QueryRows, declared |-> tensor_bytes(QueryRows),
     frame |-> external_request_base_bytes]
Larger(s, key) ==
    [tokens |-> s.tokens + Rows[key], declared |-> s.declared + tensor_bytes(Rows[key]),
     frame |-> s.frame + descriptor_frame_bytes(key)]

Less(a, b) == a.distance < b.distance \/ (a.distance = b.distance /\ a.id < b.id)
retain_top_k(kept, limit, row) ==
    LET worst == CHOOSE a \in kept : \A b \in kept : ~Less(a, b)
    IN  IF limit = 0 THEN kept
        ELSE IF Cardinality(kept) < limit THEN kept \cup {row}
        ELSE IF Less(row, worst) THEN (kept \ {worst}) \cup {row}
        ELSE kept
\* Rows have distinct identifiers, so that a row is sorted to the place that as
\* many are less than.
Place(row, R) == Cardinality({r \in R : Less(r, row)})
SortRows(R) ==
    [i \in 1 .. Cardinality(R) |-> (CHOOSE row \in R : Place(row, R) = i - 1).id]
Visible(keys, snapshot) ==
    LET resolved[n \in 0 .. Len(keys)] ==
            IF n = 0 THEN <<>>
            ELSE IF keys[n] \in snapshot THEN Append(resolved[n - 1], keys[n])
            ELSE resolved[n - 1]
    IN  resolved[Len(keys)]

\* An error ends the query, except that an ordinary scan with the auto backend
\* falls back to the processor.
Error(why) ==
    /\ pc' = IF query.mode = "auto" /\ pc # "begin" THEN "cpu" ELSE "idle"
    /\ answer' = IF pc' = "idle" THEN Failed(why) ELSE answer
    /\ conn' = NoConn /\ now' = 0 /\ deadline' = 0
    /\ todo' = IF pc' = "idle" THEN <<>> ELSE todo
    /\ pending' = <<>> /\ batch' = <<>> /\ sizes' = NoSizes /\ results' = {} /\ best' = {}
    /\ UNCHANGED <<live, request>>
Success(sorted) ==
    /\ pc' = "idle" /\ answer' = [ok |-> TRUE, rows |-> sorted, why |-> "none"]
    /\ conn' = NoConn /\ now' = 0 /\ deadline' = 0
    /\ todo' = <<>> /\ pending' = <<>> /\ batch' = <<>> /\ sizes' = NoSizes /\ results' = {}
    /\ best' = {}
    /\ UNCHANGED <<live, request>>
Continue(p) == pc' = p /\ UNCHANGED <<live, request, answer>>

----------------------------------------------------------------------------
(* Before the daemon is asked.                                               *)
Begin ==
    /\ pc = "idle" /\ pc' = "begin"
    /\ query' \in Asked /\ seen' = live /\ answer' = NoAnswer
    /\ UNCHANGED <<live, iteration, now, deadline, conn>>

validate_search_limits == query.limit >= 1 /\ query.k > 0 /\ query.k <= query.limit
validate_top_k ==
    /\ Distinct(query.candidates) /\ query.candidates # <<>>
    /\ query.k > 0 /\ query.k <= Len(query.candidates)

\* Candidates of the index are looked up with the snapshot of the query; those
\* that a caller names are looked up with their descriptors.
Prepare ==
    /\ pc = "begin"
    /\ \/ /\ query.mode = "search" => validate_search_limits
          /\ query.mode = "rerank" => validate_top_k
          /\ todo' = IF query.mode = "rerank" THEN query.candidates
                     ELSE Visible(query.candidates, seen)
          /\ Continue(IF External THEN "load" ELSE "encode")
          /\ UNCHANGED <<pending, batch, sizes, results, best, now, deadline, conn>>
       \/ Error("refused")

\* The descriptors are read by a query of its own, with a snapshot of its own
\* if the transaction has written before.
load_visible_descriptors ==
    /\ pc = "load"
    /\ \/ /\ todo' = Visible(todo, IF query.fresh THEN live ELSE seen)
          /\ deadline' = now + Timeout
          /\ Continue("collect")
          /\ UNCHANGED <<pending, batch, sizes, results, best, now, conn>>
       \/ Error("descriptor")

----------------------------------------------------------------------------
(* rerank_batches.                                                           *)
collect_external_batch ==
    /\ pc = "collect"
    /\ IF NoRoom(Base) THEN Error("too_large")
       ELSE /\ sizes' = Base /\ Continue("fill")
            /\ UNCHANGED <<todo, pending, batch, results, best, now, deadline, conn>>
\* No room for another descriptor, or none left.
FillEnds ==
    /\ pc = "fill" /\ (Len(batch) >= MaxCandidates \/ (pending = <<>> /\ todo = <<>>))
    /\ IF batch = <<>> THEN Success(SortRows(best))
       ELSE Continue("request") /\ UNCHANGED <<iteration, now, deadline, conn>>
\* Mutant: the descriptor that does not fit is lost.
FillDropsPending ==
    /\ pc = "fill" /\ Len(batch) < MaxCandidates /\ (pending # <<>> \/ todo # <<>>)
    /\ LET key == IF pending # <<>> THEN pending[1] ELSE todo[1]
       IN  IF ~NoRoom(Larger(sizes, key))
           THEN /\ batch' = Append(batch, key) /\ sizes' = Larger(sizes, key) /\ pending' = <<>>
                /\ todo' = IF pending # <<>> THEN todo ELSE Tail(todo)
                /\ Continue("fill") /\ UNCHANGED <<results, best, now, deadline, conn>>
           ELSE IF batch = <<>> THEN Error("too_large")
           ELSE /\ pending' = <<>> /\ todo' = IF pending # <<>> THEN todo ELSE Tail(todo)
                /\ Continue("request") /\ UNCHANGED <<batch, sizes, results, best, now, deadline, conn>>
Fill ==
    /\ pc = "fill" /\ Len(batch) < MaxCandidates /\ (pending # <<>> \/ todo # <<>>)
    /\ LET key == IF pending # <<>> THEN pending[1] ELSE todo[1]
       IN  IF ~NoRoom(Larger(sizes, key))
           THEN /\ batch' = Append(batch, key) /\ sizes' = Larger(sizes, key) /\ pending' = <<>>
                /\ todo' = IF pending # <<>> THEN todo ELSE Tail(todo)
                /\ Continue("fill") /\ UNCHANGED <<results, best, now, deadline, conn>>
           ELSE IF batch = <<>> THEN Error("too_large")
           ELSE /\ pending' = <<key>> /\ todo' = IF pending # <<>> THEN todo ELSE Tail(todo)
                /\ Continue("request") /\ UNCHANGED <<batch, sizes, results, best, now, deadline, conn>>

Opened(keys, until) ==
    conn' = [NoConn EXCEPT !.id = (conn.id % 3) + 1, !.keys = keys, !.deadline = until]

\* Mutant: every batch has the whole timeout.
TimeoutPerBatch ==
    /\ pc = "request"
    /\ IF now >= deadline THEN Error("time")
       ELSE IF ~encode_external_descriptors(batch) THEN Error("too_large")
       ELSE /\ Opened(batch, now + Timeout)
            /\ Continue("connect")
            /\ UNCHANGED <<iteration, now, deadline>>
\* What remains until the deadline of the whole query is the timeout of the
\* round trip.
rerank_batches ==
    /\ pc = "request"
    /\ IF now >= deadline THEN Error("time")
       ELSE IF ~encode_external_descriptors(batch) THEN Error("too_large")
       ELSE /\ Opened(batch, now + (deadline - now))
            /\ Continue("connect")
            /\ UNCHANGED <<iteration, now, deadline>>

\* The single request of an ordinary scan, of the rows that it sees.
GpuRerank ==
    /\ pc = "encode"
    /\ IF ~encode_request(todo) THEN Error("too_large")
       ELSE IF todo = <<>> THEN Success(<<>>)
       ELSE /\ Opened(todo, now + Timeout)
            /\ deadline' = now + Timeout
            /\ Continue("connect")
            /\ UNCHANGED <<iteration, now>>

CpuRerank ==
    /\ pc = "cpu"
    /\ Success(SortRows({[distance |-> Distance[key], id |-> key] : key \in Range(todo)}))

----------------------------------------------------------------------------
(* The transport: every wait is cut into polls, after each of which the      *)
(* deadline and interrupts are looked at.                                    *)
TimedOut == now >= conn.deadline
Polling == {"connect", "write", "header", "body"}

\* The socket becomes writable, or the connection is refused.
connect_interruptible ==
    /\ pc = "connect"
    /\ \/ ~TimedOut /\ Continue("write") /\ UNCHANGED <<iteration, now, deadline, conn>>
       \/ Error("transport")

\* The daemon has taken all of the request.
write_interruptible ==
    /\ pc = "write" /\ ~TimedOut /\ ~conn.closed
    /\ conn' = [conn EXCEPT !.sent = TRUE]
    /\ Continue("header") /\ UNCHANGED <<iteration, now, deadline>>

\* The first part of an answer is its header, the second its body.
ReadPart(part, next) ==
    /\ conn.parts >= part /\ ~TimedOut
    /\ Continue(next) /\ UNCHANGED <<iteration, now, deadline, conn>>
read_header ==
    /\ pc = "header"
    /\ IF conn.parts >= 1 /\ conn.reply.long /\ ~TimedOut THEN Error("protocol")
       ELSE ReadPart(1, "body")
read_body == pc = "body" /\ ReadPart(2, "decode")

Missing == (pc = "write") \/ (pc = "header" /\ conn.parts < 1) \/ (pc = "body" /\ conn.parts < 2)
Interrupted ==
    /\ pc \in Polling /\ (TimedOut \/ (conn.closed /\ Missing))
    /\ Error("transport")

decode_response ==
    /\ conn.reply.id = conn.id /\ conn.reply.status = 0
    /\ Len(conn.reply.results) = Len(conn.keys)
    /\ \A i \in DOMAIN conn.reply.results :
          /\ conn.reply.results[i].candidate \in DOMAIN conn.keys
          /\ Finite(conn.reply.results[i].distance)
          /\ \A j \in 1..(i - 1) :
                conn.reply.results[j].candidate # conn.reply.results[i].candidate
Decoded ==
    {[distance |-> conn.reply.results[i].distance,
      id |-> conn.keys[conn.reply.results[i].candidate]] : i \in DOMAIN conn.reply.results}
Decode ==
    /\ pc = "decode"
    /\ IF ~decode_response THEN Error("protocol")
       ELSE IF ~External THEN Success(SortRows(Decoded))
       ELSE /\ results' = Decoded /\ batch' = <<>> /\ sizes' = NoSizes
            /\ conn' = [NoConn EXCEPT !.id = conn.id]
            /\ Continue("consume")
            /\ UNCHANGED <<todo, pending, best, now, deadline>>
\* The results come nearest first, those at one distance in any order.
Consume ==
    /\ pc = "consume"
    /\ \/ /\ results = {} /\ Continue("collect")
          /\ UNCHANGED <<iteration, now, deadline, conn>>
       \/ \E row \in results :
             /\ \A r \in results : row.distance <= r.distance
             /\ best' = retain_top_k(best, query.k, row) /\ results' = results \ {row}
             /\ Continue("consume")
             /\ UNCHANGED <<todo, pending, batch, sizes, now, deadline, conn>>

\* An interrupt is not an error that a scan could fall back from.
Cancel ==
    /\ pc \in Polling \cup {"begin"}
    /\ pc' = "idle" /\ answer' = Failed("cancelled") /\ conn' = NoConn /\ now' = 0 /\ deadline' = 0
    /\ todo' = <<>> /\ pending' = <<>> /\ batch' = <<>> /\ sizes' = NoSizes /\ results' = {}
    /\ best' = {}
    /\ UNCHANGED <<live, request>>

----------------------------------------------------------------------------
(* The surroundings: other transactions, the daemon, the clock.              *)
Touch ==
    /\ pc # "idle" /\ Cardinality(Keys \ live) < MaxChanges
    /\ \E key \in live : live' = live \ {key}
    /\ UNCHANGED <<pc, request, iteration, now, deadline, conn, answer>>

Scores(keys) == [i \in 1 .. Len(keys) |-> [candidate |-> i, distance |-> Distance[keys[i]]]]
\* Right answers in another order, and wrong ones: one is missing, one is for a
\* candidate that was not asked for or that has one, one is not finite.
Backwards(s) == [i \in 1 .. Len(s) |-> s[Len(s) + 1 - i]]
Misplaced(s) ==
    [s EXCEPT ![Len(s)] = [candidate |-> 1 + (Len(s) % 2) * Len(s), distance |-> @.distance]]
NotFinite(s) == [s EXCEPT ![1] = [candidate |-> @.candidate, distance |-> 1000]]
ReplyWith(id, status, long, scores) ==
    [id |-> id, status |-> status, long |-> long, results |-> scores]
Replies(c) ==
    LET s == Scores(c.keys)
    IN  {ReplyWith(c.id, 0, FALSE, scores) :
            scores \in {s, Backwards(s), Tail(s), Misplaced(s), NotFinite(s)}}
        \cup {ReplyWith((c.id % 3) + 2, 0, FALSE, s), ReplyWith(c.id, 1, FALSE, s),
              ReplyWith(c.id, 0, TRUE, s)}
Reply ==
    /\ conn.sent /\ conn.parts = 0 /\ ~conn.closed
    /\ conn' \in {[conn EXCEPT !.parts = 1, !.reply = r] : r \in Replies(conn)}
    /\ UNCHANGED <<pc, live, request, iteration, now, deadline, answer>>
ReplyBody ==
    /\ conn.parts = 1 /\ ~conn.closed /\ conn' = [conn EXCEPT !.parts = 2]
    /\ UNCHANGED <<pc, live, request, iteration, now, deadline, answer>>
Close ==
    /\ pc \in {"write", "header", "body"} /\ ~conn.closed /\ conn' = [conn EXCEPT !.closed = TRUE]
    /\ UNCHANGED <<pc, live, request, iteration, now, deadline, answer>>
Tick ==
    /\ deadline > 0 /\ now < MaxTime /\ now' = now + 1
    /\ UNCHANGED <<pc, live, request, iteration, deadline, conn, answer>>

\* Waiting for the daemon ends at the deadline at the latest, and the clock goes
\* on; that the daemon takes a request or answers it is not assumed.
Client ==
    \/ Prepare \/ load_visible_descriptors \/ collect_external_batch \/ Fill \/ FillEnds
    \/ rerank_batches \/ GpuRerank \/ CpuRerank
    \/ read_header \/ read_body \/ Interrupted \/ Decode \/ Consume
Next ==
    \/ Begin \/ Client \/ connect_interruptible \/ write_interruptible \/ Cancel
    \/ Touch \/ Reply \/ ReplyBody \/ Close \/ Tick
Spec == Init /\ [][Next]_vars /\ WF_vars(Client) /\ WF_vars(Tick)

----------------------------------------------------------------------------
Service ==
    INSTANCE TopKService WITH
        phase <- IF pc = "idle" THEN "idle" ELSE "asked",
        asked <- [candidates |-> Range(query.candidates), seen |-> seen,
                  k |-> IF query.mode \in {"gpu", "auto"} THEN Cardinality(Keys) ELSE query.k],
        answer <- [ok |-> answer.ok, rows |-> answer.rows]

\* A query keeps the promise of TopKService: however its candidates are split
\* into batches (rerank_batches), whatever the daemon answers, whichever rows
\* change meanwhile, and whether or not a scan falls back to the processor, it
\* ends, and what it returns are the nearest of all its candidates.
KeepsPromise == Service!Spec

\* gpu.rs, rerank_batches: "`self.timeout` is a deadline for the whole logical
\* query, rather than a fresh timeout for each IPC request": no answer of the
\* daemon is taken later than that, whichever batch it is for.
OneDeadline == [][pc = "body" /\ pc' = "decode" => now < deadline]_vars

\* A query of descriptors is refused as too large only if the query alone or
\* one descriptor with it exceeds the limits: what collect_external_batch puts
\* together is never refused by encode_external_descriptors, which measures the
\* frame that it has written.
RefusedOnlyIfTooLarge ==
    pc = "idle" /\ answer.why = "too_large" /\ External =>
        \/ ~encode_external_descriptors(<<>>)
        \/ \E key \in Range(query.candidates) : ~encode_external_descriptors(<<key>>)
=============================================================================
