----------------------------- MODULE ModelRouter -----------------------------
(***************************************************************************)
(* The asyncio model router, python_router_core.py: several requests race  *)
(* their candidates, retry, fall back, and are charged to one hourly       *)
(* budget.  A coroutine runs undisturbed from one await to the next, so an *)
(* action is what a coroutine does between two awaits; the charge alone    *)
(* runs in an executor thread.  The awaits of one HTTP exchange are one.   *)
(*                                                                         *)
(* A candidate "provider/model" is a number, its place in the list, and    *)
(* stands for its provider as well.                                        *)
(***************************************************************************)
EXTENDS Naturals, FiniteSets

CONSTANTS
  Requests,        \* the calls of route
  CandidateCount,  \* len(config.candidates)
  Configs,         \* the configurations a router may be given
  Estimates,       \* the values _estimate_cost can take
  MaxHours         \* bound on the hours that pass

Candidates == 1 .. CandidateCount
Own        == 0    \* the call that route makes itself, without a race
Seconds    == (CandidateCount + 1) .. (2 * CandidateCount)  \* of a fallback's race
Slots      == Candidates \cup {Own} \cup Seconds
Strategies == {"race", "smart", "uniform"}
Errors     == {"timeout", "rate_limit", "server_error"}

\* RoutingConfig, and of the providers which candidates' providers are in
\* self.providers, for which get_model_config finds the model, and which have
\* a score above zero.  No weights name an unregistered provider here, since
\* _smart_route skips those.
ConfigType ==
  [strategy : Strategies, fallback : Strategies \cup {"none"},
   registered : SUBSET Candidates, known : SUBSET Candidates,
   weighted : SUBSET Candidates, retries : Nat, retry_on : SUBSET Errors,
   budget : Nat]

ASSUME RouterAssumption ==
  /\ CandidateCount \in Nat \ {0}
  /\ Configs \subseteq ConfigType
  /\ \A c \in Configs : c.weighted \subseteq c.registered
  /\ Estimates \subseteq Nat /\ MaxHours \in Nat

\* The defaults of RoutingConfig, which a fallback router is left with.
DefaultRetries == 2
DefaultRetryOn == Errors

VARIABLES
  config,    \* self.config, and self.providers
  session,   \* self.session: "open" after start, as init_router leaves it
  total,     \* stats["total_requests"]
  wins,      \* stats["race_wins"]
  spent,     \* cost_tracker.hourly_spent
  hour,      \* the hours begun so far; a tracker's hour starts at hour_start
  hour_start,
  request,   \* where each request is, and its answer
  call,      \* the _call_provider coroutine in each slot of a request
  charge     \* the _charge_sync job of that coroutine

ledger == <<spent, hour, hour_start>>
vars   == <<config, session, total, wins, ledger, request, call, charge>>

NoCall   == [pc |-> "unused", provider |-> Own, attempt |-> 0, result |-> "none"]
NoCharge == [state |-> "none", cost |-> 0, account |-> "router", hour |-> 0]

Init ==
  /\ config \in Configs
  /\ session = "open"
  /\ total = 0
  /\ wins = [c \in Candidates |-> 0]
  /\ spent = 0 /\ hour = 0 /\ hour_start = 0
  /\ request = [r \in Requests |-> [state |-> "new", answer |-> "none", winner |-> Own]]
  /\ call = [r \in Requests |-> [s \in Slots |-> NoCall]]
  /\ charge = [r \in Requests |-> [s \in Slots |-> NoCharge]]

Ended(r, c, result) == call[r][c].pc = "done" /\ call[r][c].result = result
Racing(r)           == request[r].state = "racing"
FallenBack(r)       == request[r].state = "fallback"
RacingAgain(r)      == FallenBack(r) /\ config.fallback = "race"

\* The slots of the candidates C in a race whose slots follow the n-th.
After(n, C) == {n + c : c \in C}

\* The slots of the race that a request is in.
Racers(r) == After(IF Racing(r) THEN 0 ELSE CandidateCount, config.registered)

Answer(r, a, w) ==
  request' = [request EXCEPT ![r] = [state |-> "answered", answer |-> a, winner |-> w]]

-----------------------------------------------------------------------------
(* route, _race, _smart_route and _uniform_route                           *)

\* Round robin: the n-th request of a router goes to candidate n mod len.
InTurn(n) == (n % CandidateCount) + 1

\* Any provider with a score may be drawn; without one, round robin.
Draws(strategy) == strategy = "smart" /\ config.weighted # {}

Chosen(strategy, n) == IF Draws(strategy) THEN config.weighted ELSE {InTurn(n)}

\* _call_provider up to its first await, in the slots that ask names a
\* provider for: those that find the model wait for their charge, the others
\* return an error.
Begin(r, ask, found, account) ==
  \E cost \in [DOMAIN ask -> Estimates] :
    /\ call' = [call EXCEPT ![r] = [s \in Slots |->
         IF s \notin DOMAIN ask THEN @[s]
         ELSE [provider |-> ask[s], attempt |-> 0,
               pc     |-> IF s \in found THEN "charging" ELSE "done",
               result |-> IF s \in found THEN "none" ELSE "error"]]]
    /\ charge' = [charge EXCEPT ![r] = [s \in Slots |->
         IF s \notin found THEN @[s]
         ELSE [state |-> "queued", cost |-> cost[s], account |-> account, hour |-> 0]]]

\* A call outside a race, by this router ("calling") or by the fallback
\* router; for a provider that is not registered it raises KeyError.  What
\* _smart_route draws is asked for the request's own model, which that
\* provider may or may not have.
StartOwn(r, strategy, n, state, account) ==
  \E p \in Chosen(strategy, n) :
    \/ /\ p \in config.registered
       /\ request' = [request EXCEPT ![r].state = state]
       /\ \E found \in SUBSET {Own} :
            /\ Draws(strategy) \/ (Own \in found <=> p \in config.known)
            /\ Begin(r, [s \in {Own} |-> p], found, account)
    \/ /\ p \notin config.registered
       /\ Answer(r, "raised", Own)
       /\ UNCHANGED <<call, charge>>

\* The tasks are created, and all start before any of them waits.
StartRace(r, n, state, account) ==
  /\ request' = [request EXCEPT ![r].state = state]
  /\ Begin(r, [s \in After(n, config.registered) |-> s - n],
           After(n, config.registered \cap config.known), account)

Route(r) ==
  /\ request[r].state = "new"
  /\ total' = total + 1
  /\ IF config.strategy = "race" THEN StartRace(r, 0, "racing", "router")
     ELSE StartOwn(r, config.strategy, total', "calling", "router")
  /\ UNCHANGED <<config, session, wins, ledger>>

\* The winner is counted by its router; a fallback's counts die with it.
CountWin(r, p) == wins' = IF Racing(r) THEN [wins EXCEPT ![p] = @ + 1] ELSE wins

\* Fault: the losers keep running.
RaceWonLettingLosersRun(r) ==
  /\ Racing(r) \/ RacingAgain(r)
  /\ \E w \in Racers(r) :
       /\ Ended(r, w, "ok")
       /\ Answer(r, "ok", call[r][w].provider)
       /\ CountWin(r, call[r][w].provider)
  /\ UNCHANGED <<config, session, total, ledger, call, charge>>

\* The wait returns with a success among the finished tasks.  The pending
\* ones are cancelled; a charge that has not started may be cancelled too.
RaceWon(r) ==
  /\ Racing(r) \/ RacingAgain(r)
  /\ \E w \in Racers(r) :
       /\ Ended(r, w, "ok")
       /\ Answer(r, "ok", call[r][w].provider)
       /\ CountWin(r, call[r][w].provider)
  /\ call' = [call EXCEPT ![r] = [s \in Slots |->
       IF s \in Racers(r) /\ @[s].pc # "done" THEN [@[s] EXCEPT !.pc = "cancelled"] ELSE @[s]]]
  /\ \E dropped \in SUBSET {s \in Racers(r) : charge[r][s].state = "queued"} :
       charge' = [charge EXCEPT ![r] = [s \in Slots |-> IF s \in dropped THEN NoCharge ELSE @[s]]]
  /\ UNCHANGED <<config, session, total, ledger>>

\* Fault: gives the race up at the first failure.
RaceLostTooEarly(r) ==
  /\ Racing(r) /\ \E c \in config.registered : Ended(r, c, "error")
  /\ Answer(r, "error", Own)
  /\ UNCHANGED <<config, session, total, wins, ledger, call, charge>>

\* All tasks have failed: a new router takes over, which falls back no
\* further, or the error is returned.
RaceLost(r) ==
  /\ Racing(r) \/ RacingAgain(r)
  /\ \A s \in Racers(r) : Ended(r, s, "error")
  /\ \/ /\ RacingAgain(r) \/ config.fallback = "none"
        /\ Answer(r, "error", Own)
        /\ UNCHANGED <<call, charge>>
     \/ /\ Racing(r) /\ config.fallback = "race"
        /\ StartRace(r, CandidateCount, "fallback", "fallback")
     \/ /\ Racing(r) /\ config.fallback \in {"smart", "uniform"}
        /\ StartOwn(r, config.fallback, 1, "fallback", "fallback")
  /\ UNCHANGED <<config, session, total, wins, ledger>>

OwnEnds(r) ==
  /\ request[r].state \in {"calling", "fallback"}
  /\ call[r][Own].pc = "done"
  /\ Answer(r, call[r][Own].result, call[r][Own].provider)
  /\ UNCHANGED <<config, session, total, wins, ledger, call, charge>>

-----------------------------------------------------------------------------
(* _call_provider from its charge on                                       *)

At(r, s, pc) == call[r][s].pc = pc

Finish(r, s, result) ==
  call' = [call EXCEPT ![r][s].pc = "done", ![r][s].result = result]

\* This call runs in a fallback router.
Delegated(r, s) == FallenBack(r) /\ s \notin Candidates

\* Fault: a new hour does not clear the account.
OnAccountKept == spent

\* What the tracker has on its account when a charge arrives.
OnAccount == IF hour > hour_start THEN 0 ELSE spent

\* What the tracker of a fallback router, which starts with nothing, has on
\* its account: one element for each unit that it granted within this hour.
OnFallbackAccount(r) ==
  LET granted == {s \in Slots : /\ charge[r][s].state = "granted"
                                /\ charge[r][s].account = "fallback"
                                /\ charge[r][s].hour = hour}
  IN Cardinality(UNION {{s} \X (1 .. charge[r][s].cost) : s \in granted})

\* _charge_sync in the executor, under the lock of the router's tracker or of
\* the fallback's.
ChargeSync(r, s) ==
  LET cost == charge[r][s].cost IN
  /\ charge[r][s].state = "queued"
  /\ \/ /\ charge[r][s].account = "fallback"
        /\ charge' = [charge EXCEPT ![r][s].state =
               IF OnFallbackAccount(r) + cost > config.budget THEN "refused" ELSE "granted",
             ![r][s].hour = hour]
        /\ UNCHANGED ledger
     \/ /\ charge[r][s].account = "router"
        /\ hour_start' = hour
        /\ \/ /\ OnAccount + cost > config.budget
              /\ spent' = OnAccount
              /\ charge' = [charge EXCEPT ![r][s].state = "refused", ![r][s].hour = hour]
           \/ /\ OnAccount + cost <= config.budget
              /\ spent' = OnAccount + cost
              /\ charge' = [charge EXCEPT ![r][s].state = "granted", ![r][s].hour = hour]
        /\ UNCHANGED hour
  /\ UNCHANGED <<config, session, total, wins, request, call>>

\* Fault: a refusal is not looked at.
ChargedUnread(r, s) ==
  /\ At(r, s, "charging") /\ charge[r][s].state \in {"granted", "refused"}
  /\ call' = [call EXCEPT ![r][s].pc = "posting"]
  /\ UNCHANGED <<config, session, total, wins, ledger, request, charge>>

Charged(r, s) ==
  /\ At(r, s, "charging")
  /\ \/ /\ charge[r][s].state = "granted"
        /\ call' = [call EXCEPT ![r][s].pc = "posting"]
     \/ /\ charge[r][s].state = "refused"
        /\ Finish(r, s, "error")
  /\ UNCHANGED <<config, session, total, wins, ledger, request, charge>>

\* start() is never called on the fallback router.
CanPost(r, s) == session = "open" /\ ~Delegated(r, s)

PostSucceeds(r, s) ==
  /\ At(r, s, "posting") /\ CanPost(r, s)
  /\ Finish(r, s, "ok")
  /\ UNCHANGED <<config, session, total, wins, ledger, request, charge>>

\* A status that is not retried.
PostRejected(r, s) ==
  /\ At(r, s, "posting") /\ CanPost(r, s)
  /\ Finish(r, s, "error")
  /\ UNCHANGED <<config, session, total, wins, ledger, request, charge>>

RetryCount(r, s) == IF Delegated(r, s) THEN DefaultRetries ELSE config.retries
RetryOn(r, s)    == IF Delegated(r, s) THEN DefaultRetryOn ELSE config.retry_on

\* A timeout, a rate limit, or an exception, which counts as a server error:
\* the only one when there is no session to post with.
PostFails(r, s) ==
  /\ At(r, s, "posting")
  /\ \E e \in IF CanPost(r, s) THEN Errors ELSE {"server_error"} :
       IF e \in RetryOn(r, s) /\ call[r][s].attempt < RetryCount(r, s)
       THEN call' = [call EXCEPT ![r][s].pc = "pausing"]
       ELSE Finish(r, s, "error")
  /\ UNCHANGED <<config, session, total, wins, ledger, request, charge>>

\* Fault: a retry does not count.
RetryUncounted(r, s) ==
  /\ At(r, s, "pausing")
  /\ call' = [call EXCEPT ![r][s].pc = "posting"]
  /\ UNCHANGED <<config, session, total, wins, ledger, request, charge>>

\* Fault: a retry counts before it is compared.
RetryTwice(r, s) ==
  /\ At(r, s, "pausing")
  /\ call' = [call EXCEPT ![r][s].pc = "posting", ![r][s].attempt = @ + 2]
  /\ UNCHANGED <<config, session, total, wins, ledger, request, charge>>

\* The sleep before a retry ends.
Retry(r, s) ==
  /\ At(r, s, "pausing")
  /\ call' = [call EXCEPT ![r][s].pc = "posting", ![r][s].attempt = @ + 1]
  /\ UNCHANGED <<config, session, total, wins, ledger, request, charge>>

-----------------------------------------------------------------------------
(* stop, and the clock                                                     *)

Stop ==
  /\ session = "open"
  /\ session' = "closed"
  /\ UNCHANGED <<config, total, wins, ledger, request, call, charge>>

HourPasses ==
  /\ hour < MaxHours
  /\ hour' = hour + 1
  /\ UNCHANGED <<config, session, total, wins, spent, hour_start, request, call, charge>>

-----------------------------------------------------------------------------
CallStep(r, s) ==
  \/ ChargeSync(r, s)
  \/ Charged(r, s)
  \/ PostSucceeds(r, s)
  \/ PostRejected(r, s)
  \/ PostFails(r, s)
  \/ Retry(r, s)

RequestStep(r) == RaceWon(r) \/ RaceLost(r) \/ OwnEnds(r)

Next ==
  \/ \E r \in Requests :
       \/ Route(r)
       \/ RequestStep(r)
       \/ \E s \in Slots : CallStep(r, s)
  \/ Stop
  \/ HourPasses

Spec == Init /\ [][Next]_vars

\* The event loop runs what is ready, the executor its jobs, a sleep ends,
\* and the session's total timeout ends every exchange: a request always goes on
\* somewhere, in whichever of its tasks.
FairSpec ==
  /\ Spec
  /\ \A r \in Requests : WF_vars(RequestStep(r) \/ \E s \in Slots : CallStep(r, s))

-----------------------------------------------------------------------------
(* Properties                                                              *)

CallPcs == {"unused", "charging", "posting", "pausing", "done", "cancelled"}

CallType ==
  [pc : CallPcs, provider : Slots, attempt : Nat, result : {"none", "ok", "error"}]

ChargeType ==
  [state : {"none", "queued", "granted", "refused"}, cost : Estimates \cup {0},
   account : {"router", "fallback"}, hour : 0 .. MaxHours]

RequestType ==
  [state : {"new", "racing", "calling", "fallback", "answered"},
   answer : {"none", "ok", "error", "raised"}, winner : Slots]

\* Every variable has its type, and no call makes more attempts than
\* retry_count + 1, the range of _call_provider's loop.
TypeOK ==
  /\ config \in Configs
  /\ session \in {"open", "closed"}
  /\ total \in Nat /\ wins \in [Candidates -> Nat]
  /\ spent \in Nat /\ hour \in 0 .. MaxHours /\ hour_start \in 0 .. MaxHours
  /\ request \in [Requests -> RequestType]
  /\ call \in [Requests -> [Slots -> CallType]]
  /\ charge \in [Requests -> [Slots -> ChargeType]]
  /\ \A r \in Requests, s \in Slots :
       At(r, s, "posting") => call[r][s].attempt <= RetryCount(r, s)

\* The charges that the tracker granted since its hour began.
ThisHour ==
  {rs \in Requests \X Slots :
     LET c == charge[rs[1]][rs[2]] IN
     c.state = "granted" /\ c.account = "router" /\ c.hour = hour_start}

\* One element for each unit of cost that these charges put on the account.
UnitsSpent == UNION {{rs} \X (1 .. charge[rs[1]][rs[2]].cost) : rs \in ThisHour}

\* The account is what was granted since the tracker's hour began, whoever
\* asked and whatever became of the call, and stays within the budget:
\* _charge_sync against racing tasks, cancellation and the turn of the hour.
AccountBalances ==
  /\ spent <= config.budget
  /\ spent = Cardinality(UnitsSpent)

\* A call talks to its provider only after the budget was charged for it,
\* in a race, after a retry and in a fallback: the check in _call_provider.
PostsArePaid ==
  \A r \in Requests, s \in Slots :
    At(r, s, "posting") \/ At(r, s, "pausing") \/ Ended(r, s, "ok") =>
      charge[r][s].state = "granted"

\* A request gets an error or an exception only when all of its calls ended
\* without a success, and a success only from a call that had one: _race
\* between the wait, the late success and the fallback.
NoAnswerDropped ==
  \A r \in Requests : request[r].state = "answered" =>
    IF request[r].answer = "ok"
    THEN \E s \in Slots : Ended(r, s, "ok") /\ call[r][s].provider = request[r].winner
    ELSE \A s \in Slots : call[r][s].pc \in {"unused", "done"} /\ ~Ended(r, s, "ok")

\* Once a request is answered none of its calls goes on: the losers of a race
\* post nothing, retry nothing and answer nothing after _race cancels them.
LosersStop ==
  [][\A r \in Requests : request[r].state = "answered" => UNCHANGED call[r]]_vars

\* Every request gets its answer: timeouts, retries, a refused budget, a
\* closed session and the fallback all end, and the race's wait with them.
EveryRequestAnswered ==
  \A r \in Requests : request[r].state # "new" ~> request[r].state = "answered"

\* "If all fail, trigger fallback strategy": as long as the router itself can
\* post, so can a call that falls back.
FallbackReachesProvider ==
  \A r \in Requests, s \in Slots :
    Delegated(r, s) /\ At(r, s, "posting") /\ session = "open" => CanPost(r, s)
=============================================================================
