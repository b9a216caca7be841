------------------------------ MODULE RouterCore ------------------------------
(***************************************************************************)
(* The threaded router core, python/router_core.py: threads call route,    *)
(* route_race and health_check_all, and register and unregister providers, *)
(* while the executor runs the racers.  An action is what a thread does    *)
(* between two accesses that another thread may come between.  Three pairs *)
(* of accesses are one: a loop's next entry and its status, the two        *)
(* lookups of a name, and the two readings of failure_rate that grade.     *)
(***************************************************************************)
EXTENDS Lists, SequencesExt, FiniteSets

CONSTANTS
  Providers,   \* the Provider objects
  Threads,     \* the callers
  Nobody,      \* what is no thread and no provider
  Strategies,  \* the strategies that a router may be configured with
  Workers,     \* max_workers of the executor
  MaxNames,    \* bound on the provider_names of a race
  MaxCalls     \* bound on the calls of route, route_race and health_check_all

Statuses == {"healthy", "degraded", "unhealthy", "disabled"}

ASSUME RouterCoreAssumption ==
  /\ Nobody \notin Providers \cup Threads
  /\ Strategies \subseteq {"round_robin", "other"}
  /\ Workers \in Nat \ {0} /\ MaxNames \in Nat /\ MaxCalls \in Nat

VARIABLES
  strategy,  \* config.strategy: round robin, or one of those that compare
  registry,  \* _providers, in the order of registration
  provider,  \* of each: status, total_requests and failed_requests
  total,     \* _total_requests
  failures,  \* _total_failures
  rr_index,
  lock,      \* who has _lock
  job,       \* the future for each provider of a call of route_race
  thread,    \* where each thread is, and its local variables
  calls      \* the calls begun so far

counts == <<provider, total, failures>>
vars   == <<strategy, registry, counts, rr_index, lock, job, thread, calls>>

\* race: the number of the call of route_race, or 0 in route.  ok: what
\* _execute did.  seen: the counts that += has read.  list: the providers that
\* a loop has still to look at.  size: of the dictionary, when the loop began.
\* found: the available providers.
Idle(result) ==
  [pc |-> "idle", race |-> 0, chosen |-> Nobody, ok |-> FALSE,
   seen |-> <<0, 0, 0, 0>>, list |-> <<>>, size |-> 0, found |-> <<>>,
   grade |-> "healthy", result |-> result]

NoJobs == [p \in Providers |-> "none"]

Init ==
  /\ strategy \in Strategies
  /\ registry = <<>>
  /\ provider = [p \in Providers |-> [status |-> "healthy", total |-> 0, failed |-> 0]]
  /\ total = 0 /\ failures = 0 /\ rr_index = 0
  /\ lock = Nobody
  /\ job = [c \in 1 .. MaxCalls |-> NoJobs]
  /\ thread = [t \in Threads |-> Idle("none")]
  /\ calls = 0

At(t, pc)    == thread[t].pc = pc
Go(t, pc)    == thread' = [thread EXCEPT ![t].pc = pc]
Return(t, r) == thread' = [thread EXCEPT ![t] = Idle(r)]

IsAvailable(p) == provider[p].status \in {"healthy", "degraded"}

-----------------------------------------------------------------------------
(* register_provider and unregister_provider                               *)

Register(t, p) ==
  /\ At(t, "idle") /\ ~Contains(registry, p)
  /\ registry' = Append(registry, p)
  /\ UNCHANGED <<strategy, counts, rr_index, lock, job, thread, calls>>

Unregister(t, p) ==
  /\ At(t, "idle") /\ Contains(registry, p)
  /\ registry' = Kept(registry, Providers \ {p})
  /\ UNCHANGED <<strategy, counts, rr_index, lock, job, thread, calls>>

-----------------------------------------------------------------------------
(* The list of available providers                                         *)

Begin == calls < MaxCalls /\ calls' = calls + 1

\* What a caller may give as provider_names; nobody names a provider twice.
NameLists == {names \in UNION {[1 .. n -> Providers] : n \in 1 .. MaxNames} : IsInjective(names)}

\* A loop over the dictionary begins.  It raises when the dictionary's size has
\* changed since; with one provider gone and one come it goes on as it began.
Loop(t, pc, race) ==
  thread' = [thread EXCEPT ![t] = [Idle("none") EXCEPT
    !.pc = pc, !.race = race, !.list = registry, !.size = Len(registry)]]

\* route, and route_race without names, loop over _providers.values().
StartSelect(t) ==
  /\ At(t, "idle") /\ Begin /\ Loop(t, "select", 0)
  /\ UNCHANGED <<strategy, registry, counts, rr_index, lock, job>>

StartGather(t) ==
  /\ At(t, "idle") /\ Begin /\ Loop(t, "gather", calls')
  /\ UNCHANGED <<strategy, registry, counts, rr_index, lock, job>>

\* With names route_race looks each of them up.
StartNames(t) ==
  /\ At(t, "idle") /\ Begin
  /\ \E names \in NameLists :
       thread' = [thread EXCEPT ![t] = [Idle("none") EXCEPT
         !.pc = "name", !.race = calls', !.list = names]]
  /\ UNCHANGED <<strategy, registry, counts, rr_index, lock, job>>

\* The next of the list is found if it is available.
Find(t, pc) ==
  LET p == Head(thread[t].list) IN
  thread' = [thread EXCEPT ![t].pc = pc, ![t].list = Tail(thread[t].list),
                           ![t].found = IF IsAvailable(p) THEN Append(@, p) ELSE @]

Resized(t) == Len(registry) # thread[t].size

Gather(t, pc) ==
  /\ At(t, pc)
  /\ \/ Resized(t) /\ Return(t, "raised")
     \/ ~Resized(t) /\ thread[t].list # <<>> /\ Find(t, pc)
  /\ UNCHANGED <<strategy, registry, counts, rr_index, lock, job, calls>>

\* "n in self._providers", and then self._providers[n]: a KeyError when the
\* name has gone in between.
Name(t) ==
  /\ At(t, "name") /\ thread[t].list # <<>>
  /\ IF Contains(registry, Head(thread[t].list)) THEN Go(t, "lookup")
     ELSE thread' = [thread EXCEPT ![t].list = Tail(thread[t].list)]
  /\ UNCHANGED <<strategy, registry, counts, rr_index, lock, job, calls>>

Lookup(t) ==
  /\ At(t, "lookup")
  /\ IF Contains(registry, Head(thread[t].list)) THEN Find(t, "name") ELSE Return(t, "raised")
  /\ UNCHANGED <<strategy, registry, counts, rr_index, lock, job, calls>>

-----------------------------------------------------------------------------
(* route                                                                   *)

\* Of the available providers every strategy but round robin takes one at
\* once; so does the preferred provider.
Select(t) ==
  LET found == thread[t].found IN
  /\ At(t, "select") /\ thread[t].list = <<>> /\ ~Resized(t)
  /\ \/ /\ found = <<>>
        /\ Return(t, "none available")
     \/ \E p \in ToSet(found) :
          thread' = [thread EXCEPT ![t] = [Idle("none") EXCEPT !.pc = "execute", !.chosen = p]]
     \/ /\ strategy = "round_robin" /\ found # <<>>
        /\ thread' = [thread EXCEPT ![t] = [Idle("none") EXCEPT !.pc = "round robin", !.found = found]]
  /\ UNCHANGED <<strategy, registry, counts, rr_index, lock, job, calls>>

RoundRobin(t) ==
  LET found == thread[t].found IN
  /\ At(t, "round robin") /\ lock = Nobody
  /\ rr_index' = rr_index + 1
  /\ thread' = [thread EXCEPT ![t].pc = "execute", ![t].found = <<>>,
                              ![t].chosen = found[(rr_index % Len(found)) + 1]]
  /\ UNCHANGED <<strategy, registry, counts, lock, job, calls>>

\* _execute returns or raises.
Execute(t) ==
  /\ At(t, "execute")
  /\ \E ok \in BOOLEAN : thread' = [thread EXCEPT ![t].pc = "record", ![t].ok = ok]
  /\ UNCHANGED <<strategy, registry, counts, rr_index, lock, job, calls>>

\* Fault: the counts are read without the lock.
RecordUnlocked(t) ==
  LET s == provider[thread[t].chosen] IN
  /\ At(t, "record")
  /\ lock' = t
  /\ thread' = [thread EXCEPT ![t].pc = "count", ![t].seen = <<total, failures, s.total, s.failed>>]
  /\ UNCHANGED <<strategy, registry, counts, rr_index, job, calls>>

\* "with self._lock", and the counts that the increments read.
Record(t) ==
  LET s == provider[thread[t].chosen] IN
  /\ At(t, "record") /\ lock = Nobody
  /\ lock' = t
  /\ thread' = [thread EXCEPT ![t].pc = "count", ![t].seen = <<total, failures, s.total, s.failed>>]
  /\ UNCHANGED <<strategy, registry, counts, rr_index, job, calls>>

\* Who has recorded a result goes on: a race looks at its next one or has its
\* winner, a failed route looks at the failure rate, another one returns.
Recorded(t) ==
  IF thread[t].ok THEN Return(t, "ok")
  ELSE Go(t, IF thread[t].race # 0 THEN "race" ELSE "rate")

\* The winner of a race cancels what the executor has not started.
CancelQueued(t) ==
  job' = IF thread[t].race # 0 /\ thread[t].ok
         THEN [job EXCEPT ![thread[t].race] = [p \in Providers |-> IF @[p] = "queued" THEN "cancelled" ELSE @[p]]]
         ELSE job

\* Fault: a failure is not a request of the provider.
CountOnlySuccesses(t) ==
  LET seen == thread[t].seen IN
  /\ At(t, "count")
  /\ total' = seen[1] + 1
  /\ provider' = IF thread[t].ok
                 THEN [provider EXCEPT ![thread[t].chosen].total = seen[3] + 1] ELSE provider
  /\ IF thread[t].ok
     THEN failures' = failures /\ lock' = Nobody /\ Recorded(t) /\ CancelQueued(t)
     ELSE failures' = seen[2] + 1 /\ Go(t, "count failed") /\ UNCHANGED <<lock, job>>
  /\ UNCHANGED <<strategy, registry, rr_index, calls>>

\* The totals and the provider's requests; a success is then recorded.
Count(t) ==
  LET seen == thread[t].seen IN
  /\ At(t, "count")
  /\ total' = seen[1] + 1
  /\ provider' = [provider EXCEPT ![thread[t].chosen].total = seen[3] + 1]
  /\ IF thread[t].ok
     THEN failures' = failures /\ lock' = Nobody /\ Recorded(t) /\ CancelQueued(t)
     ELSE failures' = seen[2] + 1 /\ Go(t, "count failed") /\ UNCHANGED <<lock, job>>
  /\ UNCHANGED <<strategy, registry, rr_index, calls>>

\* Fault: the lock is kept.
CountFailedHolding(t) ==
  /\ At(t, "count failed")
  /\ provider' = [provider EXCEPT ![thread[t].chosen].failed = thread[t].seen[4] + 1]
  /\ Recorded(t)
  /\ UNCHANGED <<strategy, registry, total, failures, rr_index, lock, job, calls>>

\* The provider's failures come last.
CountFailed(t) ==
  /\ At(t, "count failed")
  /\ provider' = [provider EXCEPT ![thread[t].chosen].failed = thread[t].seen[4] + 1]
  /\ lock' = Nobody
  /\ Recorded(t)
  /\ UNCHANGED <<strategy, registry, total, failures, rr_index, job, calls>>

\* failure_rate > n/10, where a provider without requests has rate zero.
RateAbove(p, n) == provider[p].failed * 10 > provider[p].total * n

\* After a failure, and after the lock: is it the failover threshold's turn?
ReadRate(t) ==
  /\ At(t, "rate")
  /\ IF RateAbove(thread[t].chosen, 5) THEN Go(t, "degrade") ELSE Return(t, "failed")
  /\ UNCHANGED <<strategy, registry, counts, rr_index, lock, job, calls>>

Degrade(t) ==
  /\ At(t, "degrade")
  /\ provider' = [provider EXCEPT ![thread[t].chosen].status = "degraded"]
  /\ Return(t, "failed")
  /\ UNCHANGED <<strategy, registry, total, failures, rr_index, lock, job, calls>>

-----------------------------------------------------------------------------
(* route_race                                                              *)

\* The jobs of the available providers.
StartRace(t) ==
  LET found == thread[t].found
      race  == thread[t].race
  IN /\ (At(t, "gather") /\ ~Resized(t)) \/ At(t, "name")
     /\ thread[t].list = <<>>
     /\ \/ found = <<>> /\ Return(t, "none available") /\ UNCHANGED job
        \/ /\ found # <<>>
           /\ job' = [job EXCEPT ![race] =
                [p \in Providers |-> IF p \in ToSet(found) THEN "queued" ELSE "none"]]
           /\ thread' = [thread EXCEPT ![t] = [Idle("none") EXCEPT !.pc = "race", !.race = race]]
     /\ UNCHANGED <<strategy, registry, counts, rr_index, lock, calls>>

Jobs(state) == {cp \in (1 .. MaxCalls) \X Providers : job[cp[1]][cp[2]] = state}

\* Fault: more jobs than workers.
StartJobAtOnce(c, p) ==
  /\ job[c][p] = "queued"
  /\ job' = [job EXCEPT ![c][p] = "running"]
  /\ UNCHANGED <<strategy, registry, counts, rr_index, lock, thread, calls>>

\* A worker of the executor takes a job, and ends it.
StartJob(c, p) ==
  /\ job[c][p] = "queued" /\ Cardinality(Jobs("running")) < Workers
  /\ job' = [job EXCEPT ![c][p] = "running"]
  /\ UNCHANGED <<strategy, registry, counts, rr_index, lock, thread, calls>>

EndJob(c, p) ==
  /\ job[c][p] = "running"
  /\ \E result \in {"ok", "raised"} : job' = [job EXCEPT ![c][p] = result]
  /\ UNCHANGED <<strategy, registry, counts, rr_index, lock, thread, calls>>

\* as_completed yields each finished future once, to be recorded.
TakeResult(t) ==
  \E p \in Providers :
    LET c == thread[t].race IN
    /\ At(t, "race") /\ job[c][p] \in {"ok", "raised"}
    /\ job' = [job EXCEPT ![c][p] = IF @ = "ok" THEN "won" ELSE "lost"]
    /\ thread' = [thread EXCEPT ![t].pc = "record", ![t].chosen = p, ![t].ok = job[c][p] = "ok"]
    /\ UNCHANGED <<strategy, registry, counts, rr_index, lock, calls>>

Pending(c) == {p \in Providers : job[c][p] \in {"queued", "running", "ok", "raised"}}

\* Fault: the race is over with its first failure.
RaceOverTooEarly(t) ==
  /\ At(t, "race") /\ \E p \in Providers : job[thread[t].race][p] = "lost"
  /\ Return(t, "all failed")
  /\ UNCHANGED <<strategy, registry, counts, rr_index, lock, job, calls>>

RaceOver(t) ==
  /\ At(t, "race") /\ Pending(thread[t].race) = {}
  /\ Return(t, "all failed")
  /\ UNCHANGED <<strategy, registry, counts, rr_index, lock, job, calls>>

\* The TimeoutError of as_completed, which looks at the time before it looks
\* at what has finished, leaves route_race; nothing is cancelled.
RaceTimeout(t) ==
  /\ At(t, "race") /\ Pending(thread[t].race) # {}
  /\ Return(t, "timeout")
  /\ UNCHANGED <<strategy, registry, counts, rr_index, lock, job, calls>>

-----------------------------------------------------------------------------
(* health_check_all                                                        *)

StartCheck(t) ==
  /\ At(t, "idle") /\ registry # <<>> /\ Begin /\ Loop(t, "visit", 0)
  /\ UNCHANGED <<strategy, registry, counts, rr_index, lock, job>>

Grade(p) ==
  IF RateAbove(p, 8) THEN "unhealthy" ELSE IF RateAbove(p, 3) THEN "degraded" ELSE "healthy"

Visit(t) ==
  LET list == thread[t].list IN
  /\ At(t, "visit")
  /\ IF Resized(t) THEN Return(t, "raised")
     ELSE IF list = <<>> THEN Return(t, "checked")
     ELSE thread' = [thread EXCEPT ![t].pc = "grade", ![t].chosen = Head(list),
                                   ![t].list = Tail(list), ![t].grade = Grade(Head(list))]
  /\ UNCHANGED <<strategy, registry, counts, rr_index, lock, job, calls>>

SetStatus(t) ==
  /\ At(t, "grade")
  /\ provider' = [provider EXCEPT ![thread[t].chosen].status = thread[t].grade]
  /\ Go(t, "visit")
  /\ UNCHANGED <<strategy, registry, total, failures, rr_index, lock, job, calls>>

-----------------------------------------------------------------------------
CallStep(t) ==
  \/ Gather(t, "select") \/ Gather(t, "gather") \/ Name(t) \/ Lookup(t)
  \/ Select(t) \/ StartRace(t) \/ RoundRobin(t) \/ Execute(t)
  \/ Record(t) \/ Count(t) \/ CountFailed(t) \/ ReadRate(t) \/ Degrade(t)
  \/ TakeResult(t) \/ RaceOver(t) \/ RaceTimeout(t)
  \/ Visit(t) \/ SetStatus(t)

Next ==
  \/ \E t \in Threads : \/ StartSelect(t) \/ StartGather(t) \/ StartNames(t) \/ StartCheck(t)
                        \/ CallStep(t)
                        \/ \E p \in Providers : Register(t, p) \/ Unregister(t, p)
  \/ \E c \in 1 .. MaxCalls, p \in Providers : StartJob(c, p) \/ EndJob(c, p)

Spec == Init /\ [][Next]_vars

\* Threads are scheduled.  Jobs may hang: the timeout of as_completed is what
\* ends a race.
FairSpec == Spec /\ \A t \in Threads : WF_vars(CallStep(t))

-----------------------------------------------------------------------------
(* Properties                                                              *)

Results == {"none", "none available", "ok", "failed", "all failed", "timeout",
            "checked", "raised"}

ThreadPcs == {"idle", "select", "gather", "name", "lookup", "round robin", "execute", "record",
              "count", "count failed", "rate", "degrade", "race", "visit", "grade"}

ThreadType ==
  [pc : ThreadPcs, race : 0 .. MaxCalls, chosen : Providers \cup {Nobody},
   ok : BOOLEAN, seen : Nat \X Nat \X Nat \X Nat, list : Seq(Providers),
   size : Nat, found : Seq(Providers), grade : Statuses, result : Results]

\* Every variable has its type, and the executor runs at most its workers.
TypeOK ==
  /\ strategy \in Strategies
  /\ registry \in Seq(Providers) /\ IsInjective(registry)
  /\ provider \in [Providers -> [status : Statuses, total : Nat, failed : Nat]]
  /\ total \in Nat /\ failures \in Nat /\ rr_index \in Nat
  /\ lock \in Threads \cup {Nobody}
  /\ job \in [1 .. MaxCalls -> [Providers ->
       {"none", "queued", "running", "ok", "raised", "won", "lost", "cancelled"}]]
  /\ thread \in [Threads -> ThreadType]
  /\ calls \in 0 .. MaxCalls
  /\ Cardinality(Jobs("running")) <= Workers

\* One element for each request, and for each failure, that a provider counts.
Requests == UNION {{p} \X (1 .. provider[p].total) : p \in Providers}
Failures == UNION {{p} \X (1 .. provider[p].failed) : p \in Providers}

\* Whenever nobody holds the lock, the router's totals are the sums of its
\* providers' counts: no result of route or route_race is counted twice, or
\* lost between the reading and the writing of another thread's +=.
CountersAddUp ==
  lock = Nobody => total = Cardinality(Requests) /\ failures = Cardinality(Failures)

\* No reader, with or without the lock, sees more failures than requests:
\* failure_rate, which health checks and failover read unlocked in the middle
\* of a recording, never exceeds one and never ignores a failure as "no
\* requests yet".
RateAtMostOne == \A p \in Providers : provider[p].failed <= provider[p].total

\* route_race reports that all participants failed only when each of them ran
\* and raised; what had not been looked at, or was cancelled, does not count.
RaceVerdict ==
  [][\A t \in Threads :
       At(t, "race") /\ thread'[t].result = "all failed" =>
         \A p \in Providers : job[thread[t].race][p] \in {"none", "lost"}]_vars

\* Every call returns, with a result or with an exception: the lock is given
\* back on every path, and a race ends even when its jobs hang.
EveryCallReturns == \A t \in Threads : ~At(t, "idle") ~> At(t, "idle")

\* "Check if failover needed": a failure may take a provider out of use, but
\* never brings one back that a health check has taken out.
FailureNeverRevives ==
  [][\A p \in Providers :
       ~IsAvailable(p) /\ IsAvailable(p)' => \E t \in Threads : At(t, "grade")]_vars
=============================================================================
