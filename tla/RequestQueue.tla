---------------------------- MODULE RequestQueue ----------------------------
(***************************************************************************)
(* The queue of GPU work of tilemaxsimd (RequestQueue) as run_scheduler    *)
(* uses it: requests are pushed as they arrive, expired ones are drained,  *)
(* the best one is popped, runs for a quantum and is pushed again while    *)
(* candidates are left.                                                    *)
(*                                                                         *)
(* Service is counted in integers: a tenant with weight w is charged       *)
(* cost * Unit / w.                                                        *)
(***************************************************************************)
EXTENDS Integers, Sequences, FiniteSets, FiniteSetsExt

CONSTANTS
    Tenants,
    Policies,           \* the policies to look at: "fair", "priority", "fair-priority"
    Aging,              \* priority_aging in ticks; 0: none
    Band,               \* priority_band
    Weight,             \* [Tenants -> weight]
    Unit,               \* the charge for cost 1 at weight 1; the weights divide it
    Workload,           \* policy -> what may be asked for:
                        \* [tenant, priority, cost, quanta, patience]
    MaxRequests,        \* bound: requests
    MaxTime             \* bound: policy -> the last time of the clock

\* Priorities: what parse_request accepts.
Request == [tenant : Tenants, priority : -100 .. 100, cost : Nat \ {0}, quanta : Nat \ {0},
            patience : Nat]

ASSUME QueueAssumption ==
    /\ Policies \subseteq {"fair", "priority", "fair-priority"}
    /\ DOMAIN Workload = Policies /\ MaxTime \in [Policies -> Nat]
    /\ \A p \in Policies : Workload[p] \subseteq Request /\ IsFiniteSet(Workload[p])
    /\ Aging \in Nat /\ Band \in Nat
    /\ Weight \in [Tenants -> Nat \ {0}] /\ Unit \in Nat \ {0}
    /\ \A t \in Tenants : Unit % Weight[t] = 0

VARIABLES
    policy,             \* set when the queue is made
    pending,            \* the queued items, in the order of the vector
    virtual_runtime,    \* the charges of tenants that were pushed since the queue was empty
    next_sequence,
    now,
    running             \* the item that was popped, until its quantum ends: {} or {item}

vars == <<policy, pending, virtual_runtime, next_sequence, now, running>>

Charge(item) == item.cost * (Unit \div Weight[item.tenant])
Requests == Workload[policy]
runtime(t) == IF t \in DOMAIN virtual_runtime THEN virtual_runtime[t] ELSE 0

Init ==
    /\ policy \in Policies
    /\ pending = <<>> /\ virtual_runtime = [t \in {} |-> 0] /\ next_sequence = 0
    /\ now = 0 /\ running = {}

-----------------------------------------------------------------------------
\* Mutant: a tenant that comes back keeps the credit it had when it left.
PushKeepsCredit(item) ==
    LET kept == IF pending = <<>> THEN [t \in {} |-> 0] ELSE virtual_runtime
    IN  /\ virtual_runtime' = [t \in DOMAIN kept \cup {item.tenant} |->
                                  IF t \in DOMAIN kept THEN kept[t] ELSE 0]
        /\ pending' = Append(pending, [item EXCEPT !.sequence = next_sequence])
        /\ next_sequence' = next_sequence + 1

push(item) ==
    LET kept == IF pending = <<>> THEN [t \in {} |-> 0] ELSE virtual_runtime
        active == \E i \in Range(pending) : i.tenant = item.tenant
        baseline == IF pending = <<>> THEN 0 ELSE Min({kept[i.tenant] : i \in Range(pending)})
        old == IF item.tenant \in DOMAIN kept THEN kept[item.tenant] ELSE baseline
    IN  /\ virtual_runtime' = [t \in DOMAIN kept \cup {item.tenant} |->
                                  IF t # item.tenant THEN kept[t]
                                  ELSE IF active \/ old >= baseline THEN old ELSE baseline]
        /\ pending' = Append(pending, [item EXCEPT !.sequence = next_sequence])
        /\ next_sequence' = next_sequence + 1

\* A request is received from the channel, some time after it was accepted.
enqueue_work(r, accepted_at) ==
    /\ running = {} /\ next_sequence < MaxRequests
    /\ push([tenant |-> r.tenant, priority |-> r.priority, cost |-> r.cost, left |-> r.quanta,
             enqueued_at |-> accepted_at, deadline |-> accepted_at + r.patience, sequence |-> 0])
    /\ UNCHANGED <<now, running>>

Tick ==
    /\ now < MaxTime[policy]
    /\ now' = now + 1
    /\ UNCHANGED <<pending, virtual_runtime, next_sequence, running>>

swap_remove(v, i) == [j \in 1 .. Len(v) - 1 |-> IF j = i THEN v[Len(v)] ELSE v[j]]

\* The loop of drain_expired: each turn removes the item at index or passes it.
turn(loop) ==
    IF loop.left[loop.index].deadline <= now
    THEN [left |-> swap_remove(loop.left, loop.index), index |-> loop.index]
    ELSE [left |-> loop.left, index |-> loop.index + 1]
drained[n \in 0 .. Len(pending)] ==
    IF n = 0 THEN [left |-> pending, index |-> 1] ELSE turn(drained[n - 1])

drain_expired ==
    /\ running = {}
    /\ \E i \in Range(pending) : i.deadline <= now
    /\ pending' = drained[Len(pending)].left
    /\ UNCHANGED <<virtual_runtime, next_sequence, now, running>>

-----------------------------------------------------------------------------
\* Mutant: waiting counts for nothing.
PriorityWithoutAging(i) == i.priority

\* 100: the ceiling of priorities; 200: the most steps that waiting is worth.
effective_priority(i) ==
    IF Aging = 0 THEN i.priority
    ELSE Min({100, i.priority + Min({200, (now - i.enqueued_at) \div Aging})})

Highest == Max({effective_priority(i) : i \in Range(pending)})
Eligible(i) == effective_priority(i) >= Highest - Band

ByPriority(l, r) ==
    \/ effective_priority(l) > effective_priority(r)
    \/ effective_priority(l) = effective_priority(r) /\ l.sequence < r.sequence

\* Mutant: items that are too far below the highest priority compete with the others.
BetterIgnoresBand(l, r) ==
    \/ runtime(l.tenant) < runtime(r.tenant)
    \/ runtime(l.tenant) = runtime(r.tenant) /\ ByPriority(l, r)

better(l, r) ==
    CASE policy = "fair" ->
             \/ runtime(l.tenant) < runtime(r.tenant)
             \/ runtime(l.tenant) = runtime(r.tenant) /\ l.sequence < r.sequence
      [] policy = "priority" -> ByPriority(l, r)
      [] OTHER ->
             \/ Eligible(l) /\ ~Eligible(r)
             \/ /\ Eligible(l) <=> Eligible(r)
                /\ IF ~Eligible(l) \/ l.tenant = r.tenant THEN ByPriority(l, r)
                   ELSE \/ runtime(l.tenant) < runtime(r.tenant)
                        \/ runtime(l.tenant) = runtime(r.tenant) /\ ByPriority(l, r)

\* The loop of pop: the best of the first n items.
best[n \in 1 .. Len(pending)] ==
    IF n = 1 THEN 1
    ELSE LET current == best[n - 1] IN IF better(pending[n], pending[current]) THEN n ELSE current

pop ==
    /\ running = {} /\ pending # <<>>
    /\ LET chosen == best[Len(pending)]
           item == pending[chosen]
       IN  /\ pending' = swap_remove(pending, chosen)
           /\ virtual_runtime' = [t \in DOMAIN virtual_runtime \cup {item.tenant} |->
                  IF t = item.tenant THEN runtime(t) + Charge(item) ELSE virtual_runtime[t]]
           /\ running' = {item}
    /\ UNCHANGED <<next_sequence, now>>

\* The quantum ends with candidates left, in time: the work is pushed again.
Requeue ==
    /\ \E item \in running :
           /\ item.left > 1 /\ now < item.deadline
           /\ push([item EXCEPT !.left = @ - 1])
    /\ running' = {}
    /\ UNCHANGED now

\* It was the last one, or the deadline has passed, or it failed.
Respond ==
    /\ running # {}
    /\ running' = {}
    /\ UNCHANGED <<pending, virtual_runtime, next_sequence, now>>

Next ==
    /\ \/ \E r \in Requests, accepted_at \in 0 .. now : enqueue_work(r, accepted_at)
       \/ Tick \/ drain_expired \/ pop \/ Requeue \/ Respond
    /\ UNCHANGED policy

Spec == Init /\ [][Next]_vars

-----------------------------------------------------------------------------
Item == [tenant : Tenants, priority : -100 .. 100, cost : Nat \ {0}, left : Nat,
         enqueued_at : Nat, deadline : Nat, sequence : Nat]

\* Every variable has its type; at most one item runs.
TypeOK ==
    /\ policy \in Policies /\ now \in 0 .. MaxTime[policy] /\ next_sequence \in Nat
    /\ pending \in Seq(Item) /\ running \subseteq Item /\ \A i, j \in running : i = j
    /\ virtual_runtime \in [DOMAIN virtual_runtime -> Nat]

\* The request that the policies promise next, stated without the scan: of the items
\* in the highest priority band the tenant with the least service goes first, of its
\* items the most urgent, of these the oldest.
Promised ==
    LET band == CASE policy = "fair" -> Range(pending)
                  [] policy = "priority" -> {i \in Range(pending) : effective_priority(i) = Highest}
                  [] OTHER -> {i \in Range(pending) : Eligible(i)}
        served == IF policy = "priority" THEN band
                  ELSE {i \in band : \A j \in band : runtime(i.tenant) <= runtime(j.tenant)}
        urgent == IF policy = "fair" THEN served
                  ELSE {i \in served :
                           \A j \in served : effective_priority(i) >= effective_priority(j)}
    IN  CHOOSE i \in urgent : \A j \in urgent : i.sequence <= j.sequence

\* pop takes the request that the policy promises, in whatever order earlier removals
\* have left the vector: comparing pairs with better gives no cycle.
PopsPromised == [][running = {} /\ running' # {} => running' = {Promised}]_vars

\* Under the priority policy with aging, and below the ceiling of priorities, a request
\* is overtaken only by requests that were accepted at most Aging times the difference
\* of their priorities (and one step) after it: no stream of urgent requests starves it.
AgingBounds ==
    [][(policy = "priority" /\ Aging > 0 /\ running = {}) =>
          \A item \in running', i \in Range(pending') :
              effective_priority(i) < 100 =>
                  item.enqueued_at <= i.enqueued_at + Aging * (item.priority - i.priority + 1)]_vars

MaxCharge == Max({0} \cup {Charge(r) : r \in Requests})

\* Under the fair policy no queued tenant is ahead of another by more than one quantum
\* of charges: a tenant that joins, or comes back, neither saves up credit nor is held
\* back by what it used before.
LagBounded ==
    policy = "fair" =>
        \A i, j \in Range(pending) : runtime(i.tenant) <= runtime(j.tenant) + MaxCharge
=============================================================================
