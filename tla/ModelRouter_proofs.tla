-------------------------- MODULE ModelRouter_proofs --------------------------
(***************************************************************************)
(* Proofs about the model router, for any number of requests, candidates,  *)
(* retries and hours, and for every configuration.                         *)
(***************************************************************************)
EXTENDS ModelRouter, FiniteSetTheorems, TLAPS

\* A call that is under way.
Live == {"charging", "posting", "pausing"}

\* What the attempt counter is at each point of the loop of _call_provider.
Attempts ==
  \A r \in Requests, s \in Slots :
    /\ At(r, s, "charging") => call[r][s].attempt = 0
    /\ At(r, s, "posting") => call[r][s].attempt <= RetryCount(r, s)
    /\ At(r, s, "pausing") => call[r][s].attempt < RetryCount(r, s)

\* A call has a result when it is done, and only then.
ResultsWhenDone ==
  \A r \in Requests, s \in Slots : At(r, s, "done") <=> call[r][s].result # "none"

\* The slots whose calls a request in this state waits for.
Working(state) ==
  IF state = "racing" THEN After(0, config.registered)
  ELSE IF state = "fallback" /\ config.fallback = "race"
       THEN After(CandidateCount, config.registered)
  ELSE IF state \in {"calling", "fallback"} THEN {Own} ELSE {}

\* Which calls of a request may be under way, by the state of the request.
CallsOf(r) ==
  /\ \A s \in Working(request[r].state) : call[r][s].pc \in Live \cup {"done"}
  /\ \A s \in Slots \ Working(request[r].state) :
       \/ At(r, s, "unused")
       \/ FallenBack(r) /\ s \in Candidates /\ Ended(r, s, "error")
       \/ request[r].state = "answered" /\ call[r][s].pc \in {"done", "cancelled"}

CallsInOrder == \A r \in Requests : CallsOf(r)

IInv ==
  /\ TypeOK /\ Attempts /\ ResultsWhenDone /\ CallsInOrder
  /\ PostsArePaid /\ NoAnswerDropped

-----------------------------------------------------------------------------
(* Constants and types                                                     *)

\* The slots, and what a configuration is made of.
LEMMA ConfigFacts ==
  ASSUME config \in Configs
  PROVE  /\ config.registered \subseteq Candidates /\ config.known \subseteq Candidates
         /\ config.weighted \subseteq Candidates
         /\ config.retries \in Nat /\ config.budget \in Nat
         /\ config.strategy \in Strategies
         /\ config.fallback \in Strategies \cup {"none"}
         /\ Own \notin Candidates /\ Candidates \subseteq Slots /\ Own \in Slots
         /\ Slots = Candidates \cup {Own} \cup Seconds
BY RouterAssumption DEF ConfigType, Candidates, Slots, Own

\* The slots of the two races, and of the call outside of them.
LEMMA SlotFacts ==
  ASSUME config \in Configs
  PROVE  /\ \A state : Working(state) \subseteq Slots
         /\ Own \notin After(0, config.registered)
         /\ Own \notin After(CandidateCount, config.registered)
         /\ After(0, config.registered) \subseteq Candidates
         /\ After(CandidateCount, config.registered) \subseteq Seconds
         /\ \A s \in After(0, config.registered) : s - 0 \in Slots
         /\ \A s \in After(CandidateCount, config.registered) : s - CandidateCount \in Slots
         /\ Seconds \cap Candidates = {}
         /\ \A r : Racing(r) \/ RacingAgain(r) => Racers(r) = Working(request[r].state)
<1>1. config.registered \subseteq Candidates /\ CandidateCount \in Nat
  BY ConfigFacts, RouterAssumption
<1>2. /\ Own \notin After(0, config.registered)
      /\ Own \notin After(CandidateCount, config.registered)
      /\ After(0, config.registered) \subseteq Candidates
      /\ After(CandidateCount, config.registered) \subseteq Seconds
      /\ \A s \in After(0, config.registered) : s - 0 \in Candidates
      /\ \A s \in After(CandidateCount, config.registered) : s - CandidateCount \in Candidates
      /\ Seconds \cap Candidates = {}
  BY <1>1 DEF After, Candidates, Seconds, Own
<1>3. \A state : Working(state) \subseteq Slots
  BY <1>2 DEF Working, Slots
<1>4. \A r : Racing(r) \/ RacingAgain(r) => Racers(r) = Working(request[r].state)
  BY DEF Racing, RacingAgain, FallenBack, Racers, Working
<1> QED BY <1>2, <1>3, <1>4 DEF Slots

\* The number of retries is a natural number.
LEMMA RetryCountType ==
  ASSUME config \in Configs, NEW r, NEW s
  PROVE  RetryCount(r, s) \in Nat
BY ConfigFacts DEF RetryCount, DefaultRetries

\* The initial state satisfies the invariant.
LEMMA Start == Init => IInv
<1> SUFFICES ASSUME Init PROVE IInv
  OBVIOUS
<1>1. config \in Configs /\ Own \in Slots
  BY DEF Init, Slots
<1>2. /\ \A r \in Requests, s \in Slots : call[r][s] = NoCall
      /\ \A r \in Requests : request[r].state = "new"
  BY DEF Init
<1>3. TypeOK
  <2>1. NoCall \in CallType /\ NoCharge \in ChargeType
    BY <1>1, RouterAssumption DEF NoCall, NoCharge, CallType, ChargeType, CallPcs
  <2>2. request \in [Requests -> RequestType]
    BY <1>1 DEF Init, RequestType
  <2> QED BY <1>1, <1>2, <2>1, <2>2, RouterAssumption DEF Init, TypeOK, NoCall, At
<1>4. Attempts /\ ResultsWhenDone /\ PostsArePaid
  BY <1>2 DEF Attempts, ResultsWhenDone, PostsArePaid, At, Ended, NoCall
<1>5. CallsInOrder /\ NoAnswerDropped
  BY <1>2 DEF CallsInOrder, CallsOf, Working, NoAnswerDropped, At, NoCall
<1> QED BY <1>3, <1>4, <1>5 DEF IInv
-----------------------------------------------------------------------------
(* A call that goes on                                                     *)

\* One call under way takes a step of _call_provider: what the step has to
\* respect for the invariant to hold again.
LEMMA CallGoesOn ==
  ASSUME IInv, NEW r \in Requests, NEW s \in Slots, NEW c \in CallType,
         call[r][s].pc \in Live,
         call' = [call EXCEPT ![r][s] = c],
         UNCHANGED <<config, session, total, wins, ledger, request, charge>>,
         c.provider = call[r][s].provider,
         c.pc \in {"posting", "pausing", "done"},
         c.pc = "done" <=> c.result # "none",
         c.pc = "posting" => c.attempt <= RetryCount(r, s),
         c.pc = "pausing" => c.attempt < RetryCount(r, s),
         c.pc \in {"posting", "pausing"} \/ c.result = "ok" => charge[r][s].state = "granted"
  PROVE  IInv'
<1>1. /\ call \in [Requests -> [Slots -> CallType]]
      /\ request \in [Requests -> RequestType]
      /\ config \in Configs
  BY DEF IInv, TypeOK
<1>2. \A q \in Requests, u \in Slots :
        call'[q][u] = IF q = r /\ u = s THEN c ELSE call[q][u]
  BY <1>1
<1>3. call' \in [Requests -> [Slots -> CallType]]
  BY <1>1
<1>4. \A q, u : RetryCount(q, u)' = RetryCount(q, u)
  BY DEF RetryCount, Delegated, FallenBack, DefaultRetries
<1>5. s \in Working(request[r].state) /\ request[r].state # "answered"
  <2>1. CallsOf(r)
    BY DEF IInv, CallsInOrder
  <2>2. s \in Working(request[r].state)
    BY <2>1 DEF CallsOf, At, Ended, Live
  <2> QED BY <2>2 DEF Working
<1>6. TypeOK'
  <2>1. \A q \in Requests, u \in Slots :
          At(q, u, "posting")' => call'[q][u].attempt <= RetryCount(q, u)'
    BY <1>2, <1>4 DEF IInv, TypeOK, At
  <2> QED BY <1>3, <2>1 DEF IInv, TypeOK, ledger
<1>7. Attempts'
  BY <1>2, <1>4 DEF IInv, Attempts, At
<1>8. ResultsWhenDone'
  BY <1>2 DEF IInv, ResultsWhenDone, At
<1>9. CallsInOrder'
  <2> SUFFICES ASSUME NEW q \in Requests PROVE CallsOf(q)'
    BY DEF CallsInOrder
  <2>1. /\ CallsOf(q) /\ Working(request[q].state)' = Working(request[q].state)
        /\ Working(request[q].state) \subseteq Slots
    BY <1>1, SlotFacts DEF IInv, CallsInOrder, Working
  <2>2. c.pc \in Live \cup {"done"}
    BY DEF Live
  <2>3. \A u \in Working(request[q].state) : call'[q][u].pc \in Live \cup {"done"}
    BY <1>2, <2>1, <2>2 DEF CallsOf
  <2>4. \A u \in Slots \ Working(request[q].state) : call'[q][u] = call[q][u]
    BY <1>2, <1>5
  <2> QED BY <2>1, <2>3, <2>4 DEF CallsOf, At, Ended, FallenBack
<1>10. PostsArePaid'
  BY <1>2 DEF IInv, PostsArePaid, At, Ended
<1>11. NoAnswerDropped'
  <2> SUFFICES ASSUME NEW q \in Requests, request[q].state = "answered"
               PROVE  IF request[q].answer = "ok"
                      THEN \E u \in Slots : Ended(q, u, "ok")' /\ call'[q][u].provider = request[q].winner
                      ELSE \A u \in Slots : call'[q][u].pc \in {"unused", "done"} /\ ~Ended(q, u, "ok")'
    BY DEF NoAnswerDropped
  <2>1. \A u \in Slots : call'[q][u] = call[q][u]
    BY <1>2, <1>5
  <2> QED BY <2>1 DEF IInv, NoAnswerDropped, Ended
<1> QED BY <1>6, <1>7, <1>8, <1>9, <1>10, <1>11 DEF IInv

\* The awaits of _call_provider keep the invariant.
LEMMA CallSteps ==
  ASSUME IInv, NEW r \in Requests, NEW s \in Slots,
         Charged(r, s) \/ PostSucceeds(r, s) \/ PostRejected(r, s) \/ PostFails(r, s) \/ Retry(r, s)
  PROVE  IInv'
<1> DEFINE old == call[r][s]
<1>1. /\ call \in [Requests -> [Slots -> CallType]]
      /\ config \in Configs
      /\ old \in CallType
      /\ RetryCount(r, s) \in Nat
  BY RetryCountType DEF IInv, TypeOK
<1>2. /\ old.pc = "charging" => old.attempt = 0
      /\ old.pc = "posting" => old.attempt <= RetryCount(r, s)
      /\ old.pc = "pausing" => old.attempt < RetryCount(r, s)
      /\ old.pc = "done" <=> old.result # "none"
      /\ old.pc \in {"posting", "pausing"} => charge[r][s].state = "granted"
  BY DEF IInv, Attempts, ResultsWhenDone, PostsArePaid, At
<1>3. \A x : Finish(r, s, x) => call' = [call EXCEPT ![r][s] = [old EXCEPT !.pc = "done", !.result = x]]
  BY <1>1 DEF Finish, CallType
<1>4. \A p : call' = [call EXCEPT ![r][s].pc = p] => call' = [call EXCEPT ![r][s] = [old EXCEPT !.pc = p]]
  BY <1>1
<1>5. ASSUME NEW x \in {"ok", "error"}, Finish(r, s, x), old.pc \in Live,
             x = "ok" => charge[r][s].state = "granted",
             UNCHANGED <<config, session, total, wins, ledger, request, charge>>
      PROVE  IInv'
  <2> DEFINE c == [old EXCEPT !.pc = "done", !.result = x]
  <2>1. c \in CallType /\ c.provider = old.provider /\ c.pc = "done" /\ c.result = x
    BY <1>1, <1>5 DEF CallType, CallPcs
  <2>2. call' = [call EXCEPT ![r][s] = c]
    BY <1>3, <1>5
  <2> HIDE DEF c
  <2> QED BY <1>5, <2>1, <2>2, CallGoesOn
<1>6. ASSUME NEW p \in {"posting", "pausing"}, NEW n \in Nat, old.pc \in Live,
             call' = [call EXCEPT ![r][s] = [old EXCEPT !.pc = p, !.attempt = n]],
             p = "posting" => n <= RetryCount(r, s), p = "pausing" => n < RetryCount(r, s),
             charge[r][s].state = "granted",
             UNCHANGED <<config, session, total, wins, ledger, request, charge>>
      PROVE  IInv'
  <2> DEFINE c == [old EXCEPT !.pc = p, !.attempt = n]
  <2>1. /\ c \in CallType /\ c.provider = old.provider /\ c.pc = p /\ c.attempt = n
        /\ c.result = old.result
    BY <1>1, <1>6 DEF CallType, CallPcs
  <2>2. c.result = "none" /\ call' = [call EXCEPT ![r][s] = c]
    BY <1>2, <1>6, <2>1 DEF Live
  <2> HIDE DEF c
  <2> QED BY <1>6, <2>1, <2>2, CallGoesOn
<1>7. old.attempt \in Nat
  BY <1>1 DEF CallType
<1>8. CASE Charged(r, s)
  <2>1. CASE charge[r][s].state = "granted" /\ call' = [call EXCEPT ![r][s].pc = "posting"]
    <3>1. call' = [call EXCEPT ![r][s] = [old EXCEPT !.pc = "posting", !.attempt = 0]]
      BY <1>1, <1>2, <1>8, <2>1 DEF Charged, At, CallType
    <3>2. old.pc \in Live /\ UNCHANGED <<config, session, total, wins, ledger, request, charge>>
      BY <1>8 DEF Charged, At, Live
    <3>3. 0 \in Nat /\ 0 <= RetryCount(r, s)
      BY <1>1
    <3> QED BY <1>6, <2>1, <3>1, <3>2, <3>3
  <2>2. CASE Finish(r, s, "error")
    BY <1>5, <1>8, <2>2 DEF Charged, At, Live
  <2> QED BY <1>8, <2>1, <2>2 DEF Charged
<1>9. CASE PostSucceeds(r, s)
  BY <1>2, <1>5, <1>9 DEF PostSucceeds, At, Live
<1>10. CASE PostRejected(r, s)
  BY <1>2, <1>5, <1>10 DEF PostRejected, At, Live
<1>11. CASE PostFails(r, s)
  <2>1. CASE Finish(r, s, "error")
    BY <1>5, <1>11, <2>1 DEF PostFails, At, Live
  <2>2. CASE call[r][s].attempt < RetryCount(r, s) /\ call' = [call EXCEPT ![r][s].pc = "pausing"]
    <3>1. call' = [call EXCEPT ![r][s] = [old EXCEPT !.pc = "pausing", !.attempt = old.attempt]]
      BY <1>1, <1>7, <2>2 DEF CallType
    <3> QED BY <1>2, <1>6, <1>7, <1>11, <2>2, <3>1 DEF PostFails, At, Live
  <2> QED BY <1>11, <2>1, <2>2 DEF PostFails
<1>12. CASE Retry(r, s)
  <2>1. call' = [call EXCEPT ![r][s] = [old EXCEPT !.pc = "posting", !.attempt = old.attempt + 1]]
    BY <1>1, <1>12 DEF Retry, CallType
  <2>2. old.attempt + 1 \in Nat /\ old.attempt + 1 <= RetryCount(r, s)
    BY <1>1, <1>2, <1>7, <1>12 DEF Retry, At
  <2> QED BY <1>2, <1>6, <1>12, <2>1, <2>2 DEF Retry, At, Live
<1> QED BY <1>8, <1>9, <1>10, <1>11, <1>12
-----------------------------------------------------------------------------
(* Charges, answers and the clock                                          *)

\* What the invariant says beyond the types depends on these four variables
\* alone, and on the charges only by which of them were granted.
LEMMA Untouched ==
  ASSUME IInv, TypeOK', UNCHANGED <<config, request, call>>,
         \A r \in Requests, s \in Slots :
           charge[r][s].state = "granted" => charge'[r][s].state = "granted"
  PROVE  IInv'
<1>1. /\ \A r, s : RetryCount(r, s)' = RetryCount(r, s)
      /\ \A r, s, p : At(r, s, p)' <=> At(r, s, p)
      /\ \A r, s, x : Ended(r, s, x)' <=> Ended(r, s, x)
  BY DEF RetryCount, Delegated, FallenBack, DefaultRetries, At, Ended
<1>2. Attempts' /\ ResultsWhenDone'
  BY <1>1 DEF IInv, Attempts, ResultsWhenDone
<1>3. CallsInOrder'
  BY <1>1 DEF IInv, CallsInOrder, CallsOf, Working, FallenBack
<1>4. PostsArePaid'
  BY <1>1 DEF IInv, PostsArePaid
<1>5. NoAnswerDropped'
  BY <1>1 DEF IInv, NoAnswerDropped
<1> QED BY <1>2, <1>3, <1>4, <1>5 DEF IInv

\* A charge in the executor, the closing of the session and the hour keep the
\* invariant.
LEMMA BackgroundSteps ==
  ASSUME IInv,
         (\E r \in Requests, s \in Slots : ChargeSync(r, s)) \/ Stop \/ HourPasses
  PROVE  IInv'
<1>1. TypeOK /\ UNCHANGED <<config, total, wins, request, call>>
  BY DEF IInv, ChargeSync, Stop, HourPasses
<1>2. ASSUME charge' \in [Requests -> [Slots -> ChargeType]], session' \in {"open", "closed"},
             spent' \in Nat, hour' \in 0 .. MaxHours, hour_start' \in 0 .. MaxHours
      PROVE  TypeOK'
  <2>1. \A r, s : RetryCount(r, s)' = RetryCount(r, s) /\ (At(r, s, "posting")' <=> At(r, s, "posting"))
    BY <1>1 DEF RetryCount, Delegated, FallenBack, DefaultRetries, At
  <2> QED BY <1>1, <1>2, <2>1 DEF TypeOK
<1>3. CASE Stop
  <2>1. TypeOK'
    BY <1>1, <1>2, <1>3 DEF Stop, TypeOK, ledger
  <2> QED BY <1>1, <1>3, <2>1, Untouched DEF Stop
<1>4. CASE HourPasses
  <2>1. TypeOK'
    BY <1>1, <1>2, <1>4, RouterAssumption DEF HourPasses, TypeOK
  <2> QED BY <1>1, <1>4, <2>1, Untouched DEF HourPasses
<1>5. ASSUME NEW r \in Requests, NEW s \in Slots, ChargeSync(r, s)
      PROVE  IInv'
  <2>1. /\ charge \in [Requests -> [Slots -> ChargeType]]
        /\ charge[r][s] \in ChargeType /\ charge[r][s].cost \in Nat
        /\ spent \in Nat /\ hour \in 0 .. MaxHours /\ hour_start \in 0 .. MaxHours
    <3>1. /\ charge \in [Requests -> [Slots -> ChargeType]]
          /\ spent \in Nat /\ hour \in 0 .. MaxHours /\ hour_start \in 0 .. MaxHours
      BY <1>1 DEF TypeOK
    <3>2. charge[r][s] \in ChargeType
      BY <3>1
    <3>3. Estimates \subseteq Nat
      BY RouterAssumption
    <3>4. charge[r][s].cost \in Estimates \cup {0}
      BY <3>2 DEF ChargeType
    <3>5. charge[r][s].cost \in Nat
      BY <3>3, <3>4
    <3> QED BY <3>1, <3>2, <3>5
  <2>2. \E x \in {"granted", "refused"}, h \in 0 .. MaxHours :
          charge' = [charge EXCEPT ![r][s].state = x, ![r][s].hour = h]
    <3>1. CASE charge[r][s].account = "fallback"
      BY <1>5, <2>1, <3>1 DEF ChargeSync
    <3>2. CASE charge[r][s].account = "router"
      BY <1>5, <2>1, <3>2 DEF ChargeSync
    <3> QED BY <2>1, <3>1, <3>2 DEF ChargeType
  <2>3. PICK x \in {"granted", "refused"}, h \in 0 .. MaxHours :
          charge' = [charge EXCEPT ![r][s].state = x, ![r][s].hour = h]
    BY <2>2
  <2>4. charge' \in [Requests -> [Slots -> ChargeType]]
    BY <2>1, <2>3 DEF ChargeType
  <2>5. spent' \in Nat /\ hour' \in 0 .. MaxHours /\ hour_start' \in 0 .. MaxHours
    BY <1>5, <2>1 DEF ChargeSync, OnAccount, ledger
  <2>6. TypeOK'
    BY <1>1, <1>2, <1>5, <2>4, <2>5 DEF ChargeSync, TypeOK
  <2>7. \A q \in Requests, u \in Slots :
          charge[q][u].state = "granted" => charge'[q][u].state = "granted"
    <3>1. charge[r][s].state = "queued"
      BY <1>5 DEF ChargeSync
    <3> QED BY <2>1, <2>3, <3>1
  <2> QED BY <1>1, <2>6, <2>7, Untouched
<1> QED BY <1>3, <1>4, <1>5

\* An answer that leaves the calls alone keeps the invariant, when no call is
\* under way and the answer is the right one.
LEMMA AnswerKeeps ==
  ASSUME IInv, NEW r \in Requests, NEW a \in {"ok", "error", "raised"}, NEW w \in Slots,
         Answer(r, a, w), UNCHANGED <<config, session, wins, ledger, call, charge>>,
         total' \in Nat,
         \A s \in Slots : call[r][s].pc \in {"unused", "done"},
         IF a = "ok" THEN \E s \in Slots : Ended(r, s, "ok") /\ call[r][s].provider = w
                     ELSE \A s \in Slots : ~Ended(r, s, "ok")
  PROVE  IInv'
<1>1. /\ request \in [Requests -> RequestType]
      /\ \A q \in Requests : q # r => request'[q] = request[q]
      /\ request'[r] = [state |-> "answered", answer |-> a, winner |-> w]
      /\ request' \in [Requests -> RequestType]
  BY DEF IInv, TypeOK, Answer, RequestType
<1>2. \A q \in Requests, s \in Slots :
        /\ RetryCount(q, s)' = RetryCount(q, s) \/ (q = r /\ call[q][s].pc \in {"unused", "done"})
        /\ \A p : At(q, s, p)' <=> At(q, s, p)
        /\ \A x : Ended(q, s, x)' <=> Ended(q, s, x)
  BY <1>1 DEF RetryCount, Delegated, FallenBack, DefaultRetries, At, Ended
<1>3. TypeOK'
  BY <1>1, <1>2 DEF IInv, TypeOK, At, ledger
<1>4. Attempts' /\ ResultsWhenDone' /\ PostsArePaid'
  BY <1>2 DEF IInv, Attempts, ResultsWhenDone, PostsArePaid, At
<1>5. CallsInOrder'
  <2> SUFFICES ASSUME NEW q \in Requests PROVE CallsOf(q)'
    BY DEF CallsInOrder
  <2>1. CASE q = r
    BY <1>1, <2>1 DEF CallsOf, Working, At
  <2>2. CASE q # r
    BY <1>1, <1>2, <2>2 DEF IInv, CallsInOrder, CallsOf, Working, FallenBack, At, Ended
  <2> QED BY <2>1, <2>2
<1>6. NoAnswerDropped'
  BY <1>1, <1>2 DEF IInv, NoAnswerDropped
<1> QED BY <1>3, <1>4, <1>5, <1>6 DEF IInv
-----------------------------------------------------------------------------
(* Calls that begin, and races that are won                                *)

\* Calls that begin leave the invariant true, when no other call of the
\* request is under way and they are the ones the new state goes with.
LEMMA BeginKeeps ==
  ASSUME IInv, NEW r \in Requests, NEW state \in {"racing", "calling", "fallback"},
         NEW ask, NEW found, NEW account \in {"router", "fallback"},
         Begin(r, ask, found, account),
         DOMAIN ask = Working(state), \A s \in DOMAIN ask : ask[s] \in Slots,
         found \subseteq DOMAIN ask,
         request' = [request EXCEPT ![r].state = state],
         UNCHANGED <<config, session, wins, ledger>>, total' \in Nat,
         \A s \in Slots \ DOMAIN ask :
           At(r, s, "unused") \/ (state = "fallback" /\ s \in Candidates /\ Ended(r, s, "error"))
  PROVE  IInv'
<1> DEFINE asked == DOMAIN ask
<1>1. /\ call \in [Requests -> [Slots -> CallType]]
      /\ charge \in [Requests -> [Slots -> ChargeType]]
      /\ request \in [Requests -> RequestType]
      /\ config \in Configs
      /\ asked \subseteq Slots
      /\ \A s \in Slots \ asked : call[r][s].pc \in {"unused", "done"}
  BY SlotFacts DEF IInv, TypeOK, At, Ended
<1>2. PICK cost \in [DOMAIN ask -> Estimates] :
        /\ call' = [call EXCEPT ![r] = [s \in Slots |->
             IF s \notin DOMAIN ask THEN @[s]
             ELSE [provider |-> ask[s], attempt |-> 0,
                   pc     |-> IF s \in found THEN "charging" ELSE "done",
                   result |-> IF s \in found THEN "none" ELSE "error"]]]
        /\ charge' = [charge EXCEPT ![r] = [s \in Slots |->
             IF s \notin found THEN @[s]
             ELSE [state |-> "queued", cost |-> cost[s], account |-> account, hour |-> 0]]]
  BY DEF Begin
<1> DEFINE begun(s) == [provider |-> ask[s], attempt |-> 0,
                        pc     |-> IF s \in found THEN "charging" ELSE "done",
                        result |-> IF s \in found THEN "none" ELSE "error"]
           queued(s) == [state |-> "queued", cost |-> cost[s], account |-> account, hour |-> 0]
           calls     == [s \in Slots |-> IF s \notin DOMAIN ask THEN call[r][s] ELSE begun(s)]
           charges   == [s \in Slots |-> IF s \notin found THEN charge[r][s] ELSE queued(s)]
<1>3. /\ \A q \in Requests : q # r => call'[q] = call[q] /\ charge'[q] = charge[q]
      /\ \A s \in Slots \ asked : call'[r][s] = call[r][s] /\ charge'[r][s] = charge[r][s]
      /\ \A s \in asked : /\ call'[r][s].provider = ask[s]
                          /\ call'[r][s].attempt = 0
                          /\ \/ call'[r][s].pc = "charging" /\ call'[r][s].result = "none"
                             \/ call'[r][s].pc = "done" /\ call'[r][s].result = "error"
      /\ call' \in [Requests -> [Slots -> CallType]]
      /\ charge' \in [Requests -> [Slots -> ChargeType]]
  <2>1. \A s \in asked :
          /\ begun(s) \in CallType /\ begun(s).provider = ask[s] /\ begun(s).attempt = 0
          /\ \/ begun(s).pc = "charging" /\ begun(s).result = "none"
             \/ begun(s).pc = "done" /\ begun(s).result = "error"
    BY DEF CallType, CallPcs
  <2>2. \A s \in found : queued(s) \in ChargeType
    BY <1>1, RouterAssumption DEF ChargeType
  <2>3. call' = [call EXCEPT ![r] = calls] /\ charge' = [charge EXCEPT ![r] = charges]
    BY <1>2
  <2> HIDE DEF begun, queued
  <2>4. /\ \A s \in Slots : calls[s] = IF s \notin asked THEN call[r][s] ELSE begun(s)
        /\ \A s \in Slots : charges[s] = IF s \notin found THEN charge[r][s] ELSE queued(s)
        /\ calls \in [Slots -> CallType] /\ charges \in [Slots -> ChargeType]
    BY <1>1, <2>1, <2>2
  <2> HIDE DEF calls, charges
  <2>5. /\ call'[r] = calls /\ charge'[r] = charges
        /\ \A q \in Requests : q # r => call'[q] = call[q] /\ charge'[q] = charge[q]
    BY <1>1, <2>3
  <2>6. /\ call' \in [Requests -> [Slots -> CallType]]
        /\ charge' \in [Requests -> [Slots -> ChargeType]]
    BY <1>1, <2>3, <2>4
  <2> QED BY <1>1, <2>1, <2>4, <2>5, <2>6
<1>4. /\ \A q \in Requests : q # r => request'[q] = request[q]
      /\ request'[r].state = state
      /\ request' \in [Requests -> RequestType]
  <2>1. request[r] \in RequestType /\ state \in {"new", "racing", "calling", "fallback", "answered"}
    BY <1>1
  <2>2. [request[r] EXCEPT !.state = state] \in RequestType /\ [request[r] EXCEPT !.state = state].state = state
    BY <2>1 DEF RequestType
  <2>3. request' = [request EXCEPT ![r] = [request[r] EXCEPT !.state = state]]
    OBVIOUS
  <2> QED BY <1>1, <2>2, <2>3
<1>5. \A q, s : RetryCount(q, s)' \in Nat /\ (q \in Requests \ {r} => RetryCount(q, s)' = RetryCount(q, s))
  BY <1>1, <1>4, ConfigFacts DEF RetryCount, Delegated, FallenBack, DefaultRetries
<1>6. Attempts' /\ ResultsWhenDone' /\ PostsArePaid'
  <2> SUFFICES ASSUME NEW q \in Requests, NEW s \in Slots
               PROVE  /\ At(q, s, "charging")' => call'[q][s].attempt = 0
                      /\ At(q, s, "posting")' => call'[q][s].attempt <= RetryCount(q, s)'
                      /\ At(q, s, "pausing")' => call'[q][s].attempt < RetryCount(q, s)'
                      /\ At(q, s, "done")' <=> call'[q][s].result # "none"
                      /\ At(q, s, "posting")' \/ At(q, s, "pausing")' \/ Ended(q, s, "ok")' =>
                           charge'[q][s].state = "granted"
    BY DEF Attempts, ResultsWhenDone, PostsArePaid
  <2>1. CASE q # r
    BY <1>3, <1>5, <2>1 DEF IInv, Attempts, ResultsWhenDone, PostsArePaid, At, Ended
  <2>2. CASE q = r /\ s \in asked
    BY <1>3, <2>2 DEF At, Ended
  <2>3. CASE q = r /\ s \notin asked
    BY <1>3, <2>3 DEF IInv, ResultsWhenDone, PostsArePaid, At, Ended
  <2> QED BY <2>1, <2>2, <2>3
<1>7. TypeOK'
  BY <1>1, <1>3, <1>4, <1>6 DEF IInv, TypeOK, Attempts, ledger
<1>8. CallsInOrder'
  <2> SUFFICES ASSUME NEW q \in Requests PROVE CallsOf(q)'
    BY DEF CallsInOrder
  <2>1. \A x : Working(x)' = Working(x) /\ Working(x) \subseteq Slots
    BY <1>1, SlotFacts DEF Working
  <2>2. CASE q # r
    <3>1. call'[q] = call[q] /\ request'[q] = request[q] /\ CallsOf(q)
      BY <1>3, <1>4, <2>2 DEF IInv, CallsInOrder
    <3> QED BY <2>1, <3>1 DEF CallsOf, At, Ended, FallenBack
  <2>3. CASE q = r
    <3>1. \A s \in asked : call'[r][s].pc \in Live \cup {"done"}
      BY <1>3 DEF Live
    <3>2. \A s \in Slots \ asked :
            At(r, s, "unused")' \/ (FallenBack(r)' /\ s \in Candidates /\ Ended(r, s, "error")')
      BY <1>3, <1>4 DEF At, Ended, FallenBack
    <3> QED BY <1>4, <2>1, <2>3, <3>1, <3>2 DEF CallsOf
  <2> QED BY <2>2, <2>3
<1>9. NoAnswerDropped'
  BY SMTT(30), <1>3, <1>4 DEF IInv, NoAnswerDropped, Ended
<1> QED BY <1>6, <1>7, <1>8, <1>9 DEF IInv

\* The end of a race with a winner keeps the invariant.
LEMMA RaceWonKeeps ==
  ASSUME IInv, NEW r \in Requests, RaceWon(r)
  PROVE  IInv'
<1>1. /\ call \in [Requests -> [Slots -> CallType]]
      /\ charge \in [Requests -> [Slots -> ChargeType]]
      /\ request \in [Requests -> RequestType]
      /\ wins \in [Candidates -> Nat] /\ config \in Configs
  BY DEF IInv, TypeOK
<1>2. PICK c \in Racers(r) :
        /\ Ended(r, c, "ok")
        /\ Answer(r, "ok", call[r][c].provider)
        /\ CountWin(r, call[r][c].provider)
  BY DEF RaceWon
<1>3. PICK dropped \in SUBSET {s \in Racers(r) : charge[r][s].state = "queued"} :
        charge' = [charge EXCEPT ![r] = [s \in Slots |-> IF s \in dropped THEN NoCharge ELSE @[s]]]
  BY DEF RaceWon
<1> DEFINE cancelled(s) == [call[r][s] EXCEPT !.pc = "cancelled"]
           calls   == [s \in Slots |->
             IF s \in Racers(r) /\ call[r][s].pc # "done" THEN cancelled(s) ELSE call[r][s]]
           charges == [s \in Slots |-> IF s \in dropped THEN NoCharge ELSE charge[r][s]]
<1>4. /\ \A q \in Requests : q # r => call'[q] = call[q] /\ charge'[q] = charge[q]
      /\ \A s \in Slots :
           /\ call'[r][s].result = call[r][s].result /\ call'[r][s].provider = call[r][s].provider
           /\ \/ call'[r][s].pc = call[r][s].pc
                 /\ ~(s \in Racers(r) /\ call[r][s].pc # "done")
              \/ call[r][s].pc # "done" /\ call'[r][s].pc = "cancelled"
           /\ charge[r][s].state # "queued" => charge'[r][s] = charge[r][s]
      /\ call' \in [Requests -> [Slots -> CallType]]
      /\ charge' \in [Requests -> [Slots -> ChargeType]]
  <2>1. \A s \in Slots : /\ cancelled(s) \in CallType /\ cancelled(s).pc = "cancelled"
                         /\ cancelled(s).result = call[r][s].result
                         /\ cancelled(s).provider = call[r][s].provider
    <3> SUFFICES ASSUME NEW s \in Slots
                 PROVE  /\ cancelled(s) \in CallType /\ cancelled(s).pc = "cancelled"
                        /\ cancelled(s).result = call[r][s].result
                        /\ cancelled(s).provider = call[r][s].provider
      OBVIOUS
    <3>1. call[r][s] \in CallType
      BY <1>1
    <3> QED BY <3>1 DEF CallType, CallPcs
  <2>2. NoCharge \in ChargeType
    BY RouterAssumption DEF NoCharge, ChargeType
  <2>3. call' = [call EXCEPT ![r] = calls] /\ charge' = [charge EXCEPT ![r] = charges]
    BY <1>3 DEF RaceWon
  <2> HIDE DEF cancelled
  <2>4. /\ \A s \in Slots : calls[s] =
             IF s \in Racers(r) /\ call[r][s].pc # "done" THEN cancelled(s) ELSE call[r][s]
        /\ \A s \in Slots : charge[r][s].state # "queued" => charges[s] = charge[r][s]
        /\ calls \in [Slots -> CallType] /\ charges \in [Slots -> ChargeType]
    BY <1>1, <2>1, <2>2
  <2> HIDE DEF calls, charges
  <2>5. /\ call'[r] = calls /\ charge'[r] = charges
        /\ \A q \in Requests : q # r => call'[q] = call[q] /\ charge'[q] = charge[q]
    BY <1>1, <2>3
  <2>6. /\ call' \in [Requests -> [Slots -> CallType]]
        /\ charge' \in [Requests -> [Slots -> ChargeType]]
    BY <1>1, <2>3, <2>4
  <2> QED BY <2>1, <2>4, <2>5, <2>6
<1>5. /\ c \in Slots /\ call[r][c].provider \in Slots
      /\ UNCHANGED <<config, session, total, ledger>>
      /\ \A s \in Slots : s \notin Racers(r) => call[r][s].pc \in {"unused", "done"}
      /\ \A s \in Slots : call'[r][s].pc \in {"unused", "done", "cancelled"}
  <2>1. CallsOf(r) /\ Racers(r) = Working(request[r].state) /\ Racers(r) \subseteq Slots
    BY <1>1, SlotFacts DEF IInv, CallsInOrder, RaceWon
  <2>2. request[r].state # "answered"
    BY DEF RaceWon, Racing, RacingAgain, FallenBack
  <2>3. \A s \in Slots : s \notin Racers(r) => call[r][s].pc \in {"unused", "done"}
    BY <2>1, <2>2 DEF CallsOf, At, Ended
  <2>4. call[r][c] \in CallType
    BY <1>1, <2>1
  <2> QED BY <1>4, <2>1, <2>3, <2>4 DEF RaceWon, CallType
<1>6. /\ \A q \in Requests : q # r => request'[q] = request[q]
      /\ request'[r] = [state |-> "answered", answer |-> "ok", winner |-> call[r][c].provider]
      /\ request' \in [Requests -> RequestType]
      /\ wins' \in [Candidates -> Nat]
  <2>1. ASSUME NEW p PROVE [wins EXCEPT ![p] = @ + 1] \in [Candidates -> Nat]
    <3>1. CASE p \in Candidates
      <4>1. wins[p] + 1 \in Nat
        BY <1>1, <3>1
      <4> QED BY <1>1, <4>1
    <3>2. CASE p \notin Candidates
      BY <1>1, <3>2
    <3> QED BY <3>1, <3>2
  <2>2. wins' \in [Candidates -> Nat]
    BY <1>1, <1>2, <2>1 DEF CountWin
  <2> QED BY <1>1, <1>2, <1>5, <2>2 DEF Answer, RequestType
<1>7. \A q \in Requests, s \in Slots : q # r => RetryCount(q, s)' = RetryCount(q, s)
  BY <1>5, <1>6 DEF RetryCount, Delegated, FallenBack, DefaultRetries
<1>8. Attempts' /\ ResultsWhenDone' /\ PostsArePaid'
  <2> SUFFICES ASSUME NEW q \in Requests, NEW s \in Slots
               PROVE  /\ At(q, s, "charging")' => call'[q][s].attempt = 0
                      /\ At(q, s, "posting")' => call'[q][s].attempt <= RetryCount(q, s)'
                      /\ At(q, s, "pausing")' => call'[q][s].attempt < RetryCount(q, s)'
                      /\ At(q, s, "done")' <=> call'[q][s].result # "none"
                      /\ At(q, s, "posting")' \/ At(q, s, "pausing")' \/ Ended(q, s, "ok")' =>
                           charge'[q][s].state = "granted"
    BY DEF Attempts, ResultsWhenDone, PostsArePaid
  <2>1. CASE q # r
    BY <1>4, <1>7, <2>1 DEF IInv, Attempts, ResultsWhenDone, PostsArePaid, At, Ended
  <2>2. CASE q = r
    BY SMTT(30), <1>4, <1>5, <2>2 DEF IInv, ResultsWhenDone, PostsArePaid, At, Ended
  <2> QED BY <2>1, <2>2
<1>9. TypeOK'
  BY <1>1, <1>2, <1>4, <1>5, <1>6, <1>8 DEF IInv, TypeOK, Attempts, ledger
<1>10. CallsInOrder'
  <2> SUFFICES ASSUME NEW q \in Requests PROVE CallsOf(q)'
    BY DEF CallsInOrder
  <2>1. \A x : Working(x)' = Working(x) /\ Working(x) \subseteq Slots
    BY <1>1, <1>5, SlotFacts DEF Working
  <2>2. CASE q # r
    <3>1. call'[q] = call[q] /\ request'[q] = request[q] /\ CallsOf(q)
      BY <1>4, <1>6, <2>2 DEF IInv, CallsInOrder
    <3> QED BY <2>1, <3>1 DEF CallsOf, At, Ended, FallenBack
  <2>3. CASE q = r
    BY <1>5, <1>6, <2>3 DEF CallsOf, Working, At
  <2> QED BY <2>2, <2>3
<1>11. NoAnswerDropped'
  <2>1. Ended(r, c, "ok")' /\ call'[r][c].provider = call[r][c].provider
    BY <1>2, <1>4, <1>5 DEF Ended
  <2> QED BY SMTT(30), <1>4, <1>5, <1>6, <2>1 DEF IInv, NoAnswerDropped, Ended
<1> QED BY <1>8, <1>9, <1>10, <1>11 DEF IInv
-----------------------------------------------------------------------------
(* The steps of a request, and the theorems                                *)

\* A call that route makes itself keeps the invariant: for a new request, or
\* after a race that every candidate lost.
LEMMA StartOwnKeeps ==
  ASSUME IInv, NEW r \in Requests, NEW strategy, NEW n,
         NEW state \in {"calling", "fallback"}, NEW account \in {"router", "fallback"},
         StartOwn(r, strategy, n, state, account),
         UNCHANGED <<config, session, wins, ledger>>, total' \in Nat,
         state = "fallback" => config.fallback # "race",
         \A s \in Slots :
           At(r, s, "unused") \/ (state = "fallback" /\ s \in Candidates /\ Ended(r, s, "error"))
  PROVE  IInv'
<1>1. config \in Configs /\ config.registered \subseteq Candidates /\ Candidates \subseteq Slots /\ Own \in Slots
  BY ConfigFacts DEF IInv, TypeOK
<1>2. PICK p \in Chosen(strategy, n) :
        \/ /\ p \in config.registered
           /\ request' = [request EXCEPT ![r].state = state]
           /\ \E found \in SUBSET {Own} :
                Begin(r, [s \in {Own} |-> p], found, account)
        \/ /\ Answer(r, "raised", Own)
           /\ UNCHANGED <<call, charge>>
  BY DEF StartOwn
<1>3. CASE Answer(r, "raised", Own) /\ UNCHANGED <<call, charge>>
  <2>1. \A s \in Slots : call[r][s].pc \in {"unused", "done"} /\ ~Ended(r, s, "ok")
    BY DEF At, Ended
  <2> QED BY <1>1, <1>3, <2>1, AnswerKeeps
<1>4. ASSUME p \in config.registered, request' = [request EXCEPT ![r].state = state],
             NEW found \in SUBSET {Own}, Begin(r, [s \in {Own} |-> p], found, account)
      PROVE  IInv'
  <2> DEFINE ask == [s \in {Own} |-> p]
  <2>1. /\ DOMAIN ask = Working(state) /\ found \subseteq DOMAIN ask
        /\ \A s \in DOMAIN ask : ask[s] \in Slots
        /\ Begin(r, ask, found, account)
        /\ \A s \in Slots \ DOMAIN ask :
             At(r, s, "unused") \/ (state = "fallback" /\ s \in Candidates /\ Ended(r, s, "error"))
        /\ state \in {"racing", "calling", "fallback"}
    BY <1>1, <1>4 DEF Working
  <2> HIDE DEF ask
  <2> QED BY <1>4, <2>1, BeginKeeps
<1> QED BY <1>2, <1>3, <1>4

\* A race keeps the invariant: of a new request, or of a fallback.
LEMMA StartRaceKeeps ==
  ASSUME IInv, NEW r \in Requests, NEW n \in {0, CandidateCount},
         NEW state \in {"racing", "fallback"}, NEW account \in {"router", "fallback"},
         StartRace(r, n, state, account),
         UNCHANGED <<config, session, wins, ledger>>, total' \in Nat,
         Working(state) = After(n, config.registered),
         \A s \in Slots :
           At(r, s, "unused") \/ (state = "fallback" /\ s \in Candidates /\ Ended(r, s, "error"))
  PROVE  IInv'
<1> DEFINE ask   == [s \in After(n, config.registered) |-> s - n]
           found == After(n, config.registered \cap config.known)
<1>1. config \in Configs
  BY DEF IInv, TypeOK
<1>2. \A s \in DOMAIN ask : ask[s] \in Slots
  BY <1>1, SlotFacts
<1>3. /\ DOMAIN ask = Working(state) /\ found \subseteq DOMAIN ask
      /\ Begin(r, ask, found, account)
      /\ request' = [request EXCEPT ![r].state = state]
      /\ state \in {"racing", "calling", "fallback"}
  BY DEF StartRace, After
<1> HIDE DEF ask, found
<1> QED BY <1>2, <1>3, BeginKeeps

\* What route, _race and the end of a call do to a request keeps the invariant.
LEMMA RequestSteps ==
  ASSUME IInv, NEW r \in Requests, Route(r) \/ RaceWon(r) \/ RaceLost(r) \/ OwnEnds(r)
  PROVE  IInv'
<1>1. /\ config \in Configs /\ config.registered \subseteq Candidates /\ Candidates \subseteq Slots
      /\ Own \in Slots /\ total \in Nat
      /\ call \in [Requests -> [Slots -> CallType]]
      /\ CallsOf(r)
  BY ConfigFacts DEF IInv, TypeOK, CallsInOrder
<1>2. CASE Route(r)
  <2>1. /\ \A s \in Slots : At(r, s, "unused")
        /\ total' \in Nat /\ UNCHANGED <<config, session, wins, ledger>>
    BY <1>1, <1>2 DEF Route, CallsOf, Working, FallenBack
  <2>2. CASE StartOwn(r, config.strategy, total', "calling", "router")
    BY <2>1, <2>2, StartOwnKeeps
  <2>3. CASE StartRace(r, 0, "racing", "router")
    BY <2>1, <2>3, StartRaceKeeps DEF Working
  <2> QED BY <1>2, <2>2, <2>3 DEF Route
<1>3. CASE RaceWon(r)
  BY <1>3, RaceWonKeeps
<1>4. CASE RaceLost(r)
  <2>1. /\ Racers(r) = Working(request[r].state)
        /\ total' \in Nat /\ UNCHANGED <<config, session, wins, ledger>>
        /\ Racing(r) \/ RacingAgain(r)
        /\ \A s \in Racers(r) : Ended(r, s, "error")
    BY <1>1, <1>4, SlotFacts DEF RaceLost
  <2>2. \A s \in Slots : At(r, s, "unused") \/ Ended(r, s, "error")
    BY <1>1, <2>1 DEF CallsOf, Racing, RacingAgain, FallenBack
  <2>3. Racing(r) => \A s \in Slots :
          At(r, s, "unused") \/ (s \in Candidates /\ Ended(r, s, "error"))
    BY <1>1, <2>1, <2>2, SlotFacts DEF CallsOf, Working, Racing, FallenBack
  <2>4. CASE Answer(r, "error", Own) /\ UNCHANGED <<call, charge>>
    <3>1. \A s \in Slots : call[r][s].pc \in {"unused", "done"} /\ ~Ended(r, s, "ok")
      BY <2>2 DEF At, Ended
    <3> QED BY <1>1, <2>1, <2>4, <3>1, AnswerKeeps
  <2>5. CASE Racing(r) /\ config.fallback = "race" /\ StartRace(r, CandidateCount, "fallback", "fallback")
    BY <2>1, <2>3, <2>5, StartRaceKeeps DEF Working
  <2>6. CASE /\ Racing(r) /\ config.fallback \in {"smart", "uniform"}
             /\ StartOwn(r, config.fallback, 1, "fallback", "fallback")
    BY <2>1, <2>3, <2>6, StartOwnKeeps
  <2> QED BY <1>4, <2>4, <2>5, <2>6 DEF RaceLost
<1>5. CASE OwnEnds(r)
  <2> DEFINE own == call[r][Own]
  <2>1. /\ own.pc = "done" /\ own.result \in {"ok", "error"} /\ own.provider \in Slots
        /\ Answer(r, own.result, own.provider)
        /\ total' \in Nat /\ UNCHANGED <<config, session, wins, ledger, call, charge>>
    BY <1>1, <1>5 DEF OwnEnds, IInv, ResultsWhenDone, At, CallType
  <2>2. Own \in Working(request[r].state)
    BY <1>1, <1>5, <2>1, ConfigFacts DEF OwnEnds, CallsOf, At
  <2>3. \A s \in Slots : s = Own \/ At(r, s, "unused") \/ Ended(r, s, "error")
    BY <1>1, <1>5, <2>2, SlotFacts DEF OwnEnds, CallsOf, Working
  <2>4. \A s \in Slots : call[r][s].pc \in {"unused", "done"}
    BY <2>1, <2>3 DEF At, Ended
  <2>5. IF own.result = "ok"
        THEN \E s \in Slots : Ended(r, s, "ok") /\ call[r][s].provider = own.provider
        ELSE \A s \in Slots : ~Ended(r, s, "ok")
    BY <1>1, <2>1, <2>3 DEF At, Ended
  <2> HIDE DEF own
  <2> QED BY <2>1, <2>4, <2>5, AnswerKeeps
<1> QED BY <1>2, <1>3, <1>4, <1>5

\* Every step keeps the invariant, and so it always holds.
THEOREM InductiveInvariant == Spec => []IInv
<1>1. IInv /\ [Next]_vars => IInv'
  <2> SUFFICES ASSUME IInv, [Next]_vars PROVE IInv'
    OBVIOUS
  <2>1. CASE UNCHANGED vars
    <3>1. TypeOK'
      BY <2>1 DEF vars, ledger, IInv, TypeOK, At, RetryCount, Delegated, FallenBack, DefaultRetries
    <3> QED BY <2>1, <3>1, Untouched DEF vars
  <2>2. ASSUME NEW r \in Requests, Route(r) \/ RequestStep(r) PROVE IInv'
    BY <2>2, RequestSteps DEF RequestStep
  <2>3. ASSUME NEW r \in Requests, NEW s \in Slots, CallStep(r, s) PROVE IInv'
    BY <2>3, CallSteps, BackgroundSteps DEF CallStep
  <2>4. CASE Stop \/ HourPasses
    BY <2>4, BackgroundSteps
  <2> QED BY <2>1, <2>2, <2>3, <2>4 DEF Next
<1> QED BY Start, <1>1, PTL DEF Spec

\* The variables of the router keep their types, and no call makes more
\* attempts than its router's retry_count allows.
THEOREM TypeCorrect == Spec => []TypeOK
<1>1. IInv => TypeOK
  BY DEF IInv
<1> QED BY InductiveInvariant, <1>1, PTL

\* No call talks to a provider before the budget was charged for it: the check
\* of the charge in _call_provider.
THEOREM PaidBeforePost == Spec => []PostsArePaid
<1>1. IInv => PostsArePaid
  BY DEF IInv
<1> QED BY InductiveInvariant, <1>1, PTL

\* A request is told of a failure only when none of its calls succeeded, and of
\* a success only when one did: _race and the fallback after it.
THEOREM NoneDropped == Spec => []NoAnswerDropped
<1>1. IInv => NoAnswerDropped
  BY DEF IInv
<1> QED BY InductiveInvariant, <1>1, PTL

\* The calls of an answered request are over: the cancellation in _race.
THEOREM LosersStopped == Spec => LosersStop
<1> DEFINE Frozen == \A r \in Requests : request[r].state = "answered" => UNCHANGED call[r]
<1>1. IInv /\ [Next]_vars => [Frozen]_vars
  <2> SUFFICES ASSUME IInv, [Next]_vars, NEW q \in Requests, request[q].state = "answered"
               PROVE  call'[q] = call[q]
    OBVIOUS
  <2>1. /\ call \in [Requests -> [Slots -> CallType]]
        /\ \A s \in Slots : call[q][s].pc \in {"unused", "done", "cancelled"}
    BY DEF IInv, TypeOK, CallsInOrder, CallsOf, Working, FallenBack, At
  <2>2. ASSUME NEW r \in Requests, NEW s \in Slots, CallStep(r, s) PROVE call'[q] = call[q]
    <3>1. CASE ChargeSync(r, s)
      BY <3>1 DEF ChargeSync
    <3>2. CASE call[r][s].pc \in Live
      <4>1. r # q
        BY <2>1, <3>2 DEF Live
      <4> QED BY <2>1, <2>2, <4>1
              DEF CallStep, ChargeSync, Charged, PostSucceeds, PostRejected, PostFails, Retry, Finish
    <3> QED BY <2>2, <3>1, <3>2
            DEF CallStep, Charged, PostSucceeds, PostRejected, PostFails, Retry, At, Live
  <2>3. ASSUME NEW r \in Requests, request[r].state # "answered",
               UNCHANGED call \/ \E ask, found, account : Begin(r, ask, found, account)
        PROVE  call'[q] = call[q]
    BY <2>1, <2>3 DEF Begin
  <2>4. ASSUME NEW r \in Requests, Route(r) \/ RaceLost(r) PROVE call'[q] = call[q]
    <3>1. request[r].state # "answered"
      BY <2>4 DEF Route, RaceLost, Racing, RacingAgain, FallenBack
    <3> QED BY <2>3, <2>4, <3>1 DEF Route, RaceLost, StartRace, StartOwn
  <2>5. ASSUME NEW r \in Requests, RaceWon(r) PROVE call'[q] = call[q]
    BY <2>1, <2>5 DEF RaceWon, Racing, RacingAgain, FallenBack
  <2>6. ASSUME NEW r \in Requests, OwnEnds(r) PROVE call'[q] = call[q]
    BY <2>6 DEF OwnEnds
  <2>7. CASE Stop \/ HourPasses \/ UNCHANGED vars
    BY <2>7 DEF Stop, HourPasses, vars
  <2> QED BY <2>2, <2>4, <2>5, <2>6, <2>7 DEF Next, RequestStep
<1> QED BY InductiveInvariant, <1>1, PTL DEF Spec, LosersStop

-----------------------------------------------------------------------------
(* The hourly account                                                      *)

\* A charge that the tracker of the router granted.
OnBooks(c) == c.state = "granted" /\ c.account = "router"

\* The units of cost of one charge.
Block(rs, cost) == {rs} \X (1 .. cost)

\* The units that the charges ch put on the account in the hour h.
Units(ch, h) ==
  UNION {Block(rs, ch[rs[1]][rs[2]].cost) :
           rs \in {q \in Requests \X Slots : OnBooks(ch[q[1]][q[2]]) /\ ch[q[1]][q[2]].hour = h}}

\* A unit of a charge on the books.
Paid(ch, h, u) ==
  \E r \in Requests, s \in Slots :
    /\ OnBooks(ch[r][s]) /\ ch[r][s].hour = h
    /\ u \in Block(<<r, s>>, ch[r][s].cost)

\* What the tracker's account relies on: the granted charges belong to hours
\* that have begun, and a slot that was never used has no charge.
BooksInOrder ==
  /\ hour_start <= hour
  /\ \A r \in Requests, s \in Slots :
       /\ OnBooks(charge[r][s]) => charge[r][s].hour <= hour_start
       /\ At(r, s, "unused") => charge[r][s].state = "none"

\* The account balances, and the units on it are finitely many.
Balance == IsFiniteSet(UnitsSpent) /\ AccountBalances

AInv == BooksInOrder /\ Balance

-----------------------------------------------------------------------------
(* The units                                                               *)

\* A unit is on the account when its charge is, and it is within the cost.
LEMMA UnitOnAccount ==
  ASSUME NEW ch, NEW h, NEW u
  PROVE  u \in Units(ch, h) <=> Paid(ch, h, u)
<1> DEFINE granted == {q \in Requests \X Slots : OnBooks(ch[q[1]][q[2]]) /\ ch[q[1]][q[2]].hour = h}
<1>1. ASSUME u \in Units(ch, h)
      PROVE  \E r \in Requests, s \in Slots :
               /\ OnBooks(ch[r][s]) /\ ch[r][s].hour = h
               /\ u \in Block(<<r, s>>, ch[r][s].cost)
  <2>1. PICK rs \in granted : u \in Block(rs, ch[rs[1]][rs[2]].cost)
    BY <1>1 DEF Units
  <2>2. PICK r \in Requests, s \in Slots : rs = <<r, s>>
    BY <2>1
  <2>3. rs[1] = r /\ rs[2] = s
    BY <2>2
  <2> QED BY <2>1, <2>2, <2>3
<1>2. ASSUME NEW r \in Requests, NEW s \in Slots,
             OnBooks(ch[r][s]), ch[r][s].hour = h, u \in Block(<<r, s>>, ch[r][s].cost)
      PROVE  u \in Units(ch, h)
  <2>1. <<r, s>> \in granted
    BY <1>2
  <2>2. Block(<<r, s>>, ch[r][s].cost) \in {Block(rs, ch[rs[1]][rs[2]].cost) : rs \in granted}
    BY <2>1
  <2> QED BY <1>2, <2>2 DEF Units
<1> QED BY <1>1, <1>2 DEF Paid

\* These are the units that the account is compared with.
LEMMA UnitsOfTheHour ==
  /\ UnitsSpent = Units(charge, hour_start)
  /\ UnitsSpent' = Units(charge', hour_start')
BY DEF UnitsSpent, ThisHour, Units, Block, OnBooks

\* A charge puts as many units on the account as it costs.
LEMMA BlockSize ==
  ASSUME NEW rs, NEW cost \in Nat
  PROVE  IsFiniteSet(Block(rs, cost)) /\ Cardinality(Block(rs, cost)) = cost
<1> DEFINE one   == {rs}
           range == 1 .. cost
<1>1. IsFiniteSet(one) /\ Cardinality(one) = 1
  BY FS_Singleton
<1>2. IsFiniteSet(range) /\ Cardinality(range) = cost
  BY FS_Interval
<1>3. Block(rs, cost) = one \X range
  BY DEF Block
<1> HIDE DEF one, range
<1>4. IsFiniteSet(one \X range)
  BY <1>1, <1>2, FS_Product
<1>5. Cardinality(one \X range) = 1 * cost
  BY <1>1, <1>2, FS_Product
<1> QED BY <1>3, <1>4, <1>5

\* A charge that comes onto the account adds its cost to it.
LEMMA OneChargeMore ==
  ASSUME NEW U, NEW W, NEW rs, NEW cost \in Nat,
         IsFiniteSet(U), U \cap Block(rs, cost) = {}, W = U \cup Block(rs, cost)
  PROVE  IsFiniteSet(W) /\ Cardinality(W) = Cardinality(U) + cost
<1> DEFINE B == Block(rs, cost)
<1>1. IsFiniteSet(B) /\ Cardinality(B) = cost
  BY BlockSize
<1>2. U \cap B = {} /\ W = U \cup B
  OBVIOUS
<1> HIDE DEF B
<1>3. /\ IsFiniteSet(U \cup B)
      /\ Cardinality(U \cup B) = Cardinality(U) + Cardinality(B) - Cardinality(U \cap B)
  BY <1>1, FS_Union
<1>4. Cardinality(U \cap B) = 0 /\ Cardinality(U) \in Nat
  BY <1>2, FS_EmptySet, FS_CardinalityType
<1>5. Cardinality(U \cup B) = Cardinality(U) + cost
  BY <1>1, <1>3, <1>4
<1> QED BY <1>2, <1>3, <1>5

-----------------------------------------------------------------------------
(* Steps that grant nothing                                                *)

\* The account depends on the granted charges and the tracker's hour only.
LEMMA SameBooks ==
  ASSUME AInv, UNCHANGED <<config, spent, hour_start>>, hour_start <= hour',
         \A r \in Requests, s \in Slots :
           /\ OnBooks(charge[r][s]) \/ OnBooks(charge'[r][s]) => charge'[r][s] = charge[r][s]
           /\ At(r, s, "unused")' => charge'[r][s].state = "none"
  PROVE  AInv'
<1>1. BooksInOrder'
  BY DEF AInv, BooksInOrder
<1>2. ASSUME NEW u PROVE u \in Units(charge, hour_start) <=> u \in Units(charge', hour_start')
  <2>1. Paid(charge, hour_start, u) <=> Paid(charge', hour_start', u)
    BY DEF Paid
  <2> QED BY <2>1, UnitOnAccount
<1>3. UnitsSpent' = UnitsSpent
  BY <1>2, UnitsOfTheHour
<1>4. Balance'
  BY <1>3 DEF AInv, Balance, AccountBalances
<1> QED BY <1>1, <1>4 DEF AInv

\* Calls that begin have nothing on the books yet.
LEMMA BeginBooks ==
  ASSUME IInv, AInv, NEW r \in Requests, NEW ask, NEW found, NEW account,
         Begin(r, ask, found, account), found \subseteq DOMAIN ask,
         \A s \in found : s \in Slots /\ At(r, s, "unused"),
         UNCHANGED <<config, ledger>>
  PROVE  AInv'
<1>1. /\ call \in [Requests -> [Slots -> CallType]]
      /\ charge \in [Requests -> [Slots -> ChargeType]]
      /\ UNCHANGED <<config, spent, hour_start>> /\ hour_start <= hour'
      /\ \A q \in Requests, s \in Slots : At(q, s, "unused") => charge[q][s].state = "none"
  BY DEF IInv, TypeOK, AInv, BooksInOrder, ledger
<1>2. PICK cost \in [DOMAIN ask -> Estimates] :
        /\ call' = [call EXCEPT ![r] = [s \in Slots |->
             IF s \notin DOMAIN ask THEN @[s]
             ELSE [provider |-> ask[s], attempt |-> 0,
                   pc     |-> IF s \in found THEN "charging" ELSE "done",
                   result |-> IF s \in found THEN "none" ELSE "error"]]]
        /\ charge' = [charge EXCEPT ![r] = [s \in Slots |->
             IF s \notin found THEN @[s]
             ELSE [state |-> "queued", cost |-> cost[s], account |-> account, hour |-> 0]]]
  BY DEF Begin
<1>3. \A q \in Requests, s \in Slots :
        charge'[q][s] = charge[q][s] \/ (q = r /\ s \in found /\ charge'[q][s].state = "queued")
  BY <1>1, <1>2
<1>4. \A q \in Requests, s \in Slots :
        At(q, s, "unused")' => At(q, s, "unused") /\ ~ (q = r /\ s \in found)
  BY <1>1, <1>2 DEF At
<1>5. ASSUME NEW q \in Requests, NEW s \in Slots
      PROVE  /\ OnBooks(charge[q][s]) \/ OnBooks(charge'[q][s]) => charge'[q][s] = charge[q][s]
             /\ At(q, s, "unused")' => charge'[q][s].state = "none"
  BY <1>1, <1>3, <1>4 DEF OnBooks
<1> QED BY <1>1, <1>5, SameBooks

\* A call that route makes itself has nothing on the books.
LEMMA StartOwnBooks ==
  ASSUME IInv, AInv, NEW r \in Requests, NEW strategy, NEW n, NEW state, NEW account,
         StartOwn(r, strategy, n, state, account), At(r, Own, "unused"),
         UNCHANGED <<config, ledger>>
  PROVE  AInv'
<1>1. CASE UNCHANGED <<call, charge>>
  BY <1>1, SameBooks DEF AInv, BooksInOrder, At, ledger
<1>2. ASSUME NEW p, NEW found \in SUBSET {Own}, Begin(r, [s \in {Own} |-> p], found, account)
      PROVE  AInv'
  <2> DEFINE ask == [s \in {Own} |-> p]
  <2>1. /\ found \subseteq DOMAIN ask /\ Begin(r, ask, found, account)
        /\ \A s \in found : s \in Slots /\ At(r, s, "unused")
    BY <1>2 DEF Slots
  <2> HIDE DEF ask
  <2> QED BY <2>1, BeginBooks
<1> QED BY <1>1, <1>2 DEF StartOwn

\* Nor have the racers, those of a fallback included.
LEMMA StartRaceBooks ==
  ASSUME IInv, AInv, NEW r \in Requests, NEW n, NEW state, NEW account,
         StartRace(r, n, state, account),
         \A s \in After(n, config.registered) : s \in Slots /\ At(r, s, "unused"),
         UNCHANGED <<config, ledger>>
  PROVE  AInv'
<1> DEFINE ask   == [s \in After(n, config.registered) |-> s - n]
           found == After(n, config.registered \cap config.known)
<1>1. /\ found \subseteq DOMAIN ask /\ Begin(r, ask, found, account)
      /\ \A s \in found : s \in Slots /\ At(r, s, "unused")
  BY DEF StartRace, After
<1> HIDE DEF ask, found
<1> QED BY <1>1, BeginBooks

\* What does not reach the executor leaves the account as it is.
LEMMA OtherSteps ==
  ASSUME IInv, AInv, NEW r \in Requests,
         Route(r) \/ RequestStep(r)
  PROVE  AInv'
<1>1. /\ config \in Configs /\ config.registered \subseteq Candidates /\ Candidates \subseteq Slots
      /\ Own \in Slots /\ Own \notin Candidates
      /\ call \in [Requests -> [Slots -> CallType]]
      /\ charge \in [Requests -> [Slots -> ChargeType]]
      /\ CallsOf(r)
  BY ConfigFacts DEF IInv, TypeOK, CallsInOrder
<1>2. /\ hour_start <= hour
      /\ \A q \in Requests, s \in Slots : At(q, s, "unused") => charge[q][s].state = "none"
  BY DEF AInv, BooksInOrder
<1>3. CASE UNCHANGED <<config, ledger, call, charge>>
  BY <1>2, <1>3, SameBooks DEF At, ledger
<1>4. CASE Route(r)
  <2>1. /\ \A s \in Slots : At(r, s, "unused")
        /\ UNCHANGED <<config, ledger>>
    BY <1>1, <1>4 DEF Route, CallsOf, Working, FallenBack
  <2>2. CASE StartOwn(r, config.strategy, total', "calling", "router")
    BY <1>1, <2>1, <2>2, StartOwnBooks
  <2>3. CASE StartRace(r, 0, "racing", "router")
    BY <1>1, <2>1, <2>3, SlotFacts, StartRaceBooks
  <2> QED BY <1>4, <2>2, <2>3 DEF Route
<1>5. CASE RaceLost(r)
  <2>1. CASE UNCHANGED <<call, charge>>
    BY <1>3, <1>5, <2>1 DEF RaceLost
  <2>2. /\ UNCHANGED <<config, ledger>>
        /\ Racing(r) => \A s \in Slots \ Candidates : At(r, s, "unused")
    BY <1>1, <1>5, SlotFacts DEF RaceLost, CallsOf, Working, Racing, FallenBack
  <2>3. CASE Racing(r) /\ StartOwn(r, config.fallback, 1, "fallback", "fallback")
    BY <1>1, <2>2, <2>3, StartOwnBooks
  <2>4. CASE Racing(r) /\ StartRace(r, CandidateCount, "fallback", "fallback")
    <3>1. \A s \in After(CandidateCount, config.registered) : s \in Slots /\ At(r, s, "unused")
      BY <1>1, <2>2, <2>4, SlotFacts DEF Slots
    <3> QED BY <2>2, <2>4, <3>1, StartRaceBooks
  <2> QED BY <1>5, <2>1, <2>3, <2>4 DEF RaceLost
<1>6. CASE RaceWon(r)
  <2>1. PICK dropped \in SUBSET {s \in Racers(r) : charge[r][s].state = "queued"} :
          charge' = [charge EXCEPT ![r] = [s \in Slots |-> IF s \in dropped THEN NoCharge ELSE @[s]]]
    BY <1>6 DEF RaceWon
  <2>2. call' = [call EXCEPT ![r] = [s \in Slots |->
          IF s \in Racers(r) /\ @[s].pc # "done" THEN [@[s] EXCEPT !.pc = "cancelled"] ELSE @[s]]]
    BY <1>6 DEF RaceWon
  <2>3. ASSUME NEW q \in Requests, NEW s \in Slots
        PROVE  charge'[q][s] = charge[q][s] \/ (charge[q][s].state = "queued" /\ charge'[q][s] = NoCharge)
    BY <1>1, <2>1
  <2>4. ASSUME NEW q \in Requests, NEW s \in Slots, At(q, s, "unused")'
        PROVE  At(q, s, "unused")
    <3>1. call[q][s] \in CallType
      BY <1>1
    <3> QED BY <1>1, <2>2, <2>4, <3>1 DEF At, CallType
  <2>5. ASSUME NEW q \in Requests, NEW s \in Slots
        PROVE  /\ OnBooks(charge[q][s]) \/ OnBooks(charge'[q][s]) => charge'[q][s] = charge[q][s]
               /\ At(q, s, "unused")' => charge'[q][s].state = "none"
    BY <1>2, <2>3, <2>4 DEF OnBooks, NoCharge
  <2>6. UNCHANGED <<config, spent, hour_start>> /\ hour_start <= hour'
    BY <1>2, <1>6 DEF RaceWon, ledger
  <2> QED BY <2>5, <2>6, SameBooks
<1>7. CASE OwnEnds(r)
  BY <1>3, <1>7 DEF OwnEnds
<1> QED BY <1>4, <1>5, <1>6, <1>7 DEF RequestStep

\* The awaits of a call leave the account as it is.
LEMMA AwaitSteps ==
  ASSUME IInv, AInv, NEW r \in Requests, NEW s \in Slots,
         Charged(r, s) \/ PostSucceeds(r, s) \/ PostRejected(r, s) \/ PostFails(r, s) \/ Retry(r, s)
  PROVE  AInv'
<1>1. /\ call \in [Requests -> [Slots -> CallType]]
      /\ hour_start <= hour
      /\ \A q \in Requests, u \in Slots : At(q, u, "unused") => charge[q][u].state = "none"
      /\ UNCHANGED <<config, spent, hour, hour_start, charge>>
  BY DEF IInv, TypeOK, AInv, BooksInOrder, Charged, PostSucceeds, PostRejected, PostFails, Retry, ledger
<1>2. \E p \in {"posting", "pausing", "done"} :
        /\ call'[r][s].pc = p
        /\ \A q \in Requests, u \in Slots : ~ (q = r /\ u = s) => call'[q][u] = call[q][u]
  <2>1. call[r] \in [Slots -> CallType] /\ call[r][s] \in CallType
    BY <1>1
  <2>2. ASSUME NEW x, Finish(r, s, x)
        PROVE  /\ call'[r][s].pc = "done"
               /\ \A q \in Requests, u \in Slots : ~ (q = r /\ u = s) => call'[q][u] = call[q][u]
    BY <1>1, <2>1, <2>2 DEF Finish, CallType
  <2>3. ASSUME NEW p \in {"posting", "pausing"}, call' = [call EXCEPT ![r][s].pc = p]
        PROVE  /\ call'[r][s].pc = p
               /\ \A q \in Requests, u \in Slots : ~ (q = r /\ u = s) => call'[q][u] = call[q][u]
    BY <1>1, <2>1, <2>3 DEF CallType
  <2>4. CASE Retry(r, s)
    BY <1>1, <2>1, <2>4 DEF Retry, CallType
  <2>5. CASE Charged(r, s)
    BY <2>2, <2>3, <2>5 DEF Charged
  <2>6. CASE PostFails(r, s)
    BY <2>2, <2>3, <2>6 DEF PostFails
  <2>7. CASE PostSucceeds(r, s) \/ PostRejected(r, s)
    BY <2>2, <2>7 DEF PostSucceeds, PostRejected
  <2> QED BY <2>4, <2>5, <2>6, <2>7
<1>3. ASSUME NEW q \in Requests, NEW u \in Slots, At(q, u, "unused")'
      PROVE  At(q, u, "unused")
  BY <1>2, <1>3 DEF At
<1> QED BY <1>1, <1>3, SameBooks

-----------------------------------------------------------------------------
(* The charge in the executor                                              *)

\* A charge keeps the books in order and the account balanced: the turn of
\* the hour clears it, a grant adds the cost, a refusal adds nothing.
LEMMA ChargeBooks ==
  ASSUME IInv, AInv, NEW r \in Requests, NEW s \in Slots, ChargeSync(r, s)
  PROVE  AInv'
<1> DEFINE c    == charge[r][s]
           cost == c.cost
           U    == Units(charge, hour)
<1>1. /\ charge \in [Requests -> [Slots -> ChargeType]] /\ charge[r] \in [Slots -> ChargeType]
      /\ c \in ChargeType /\ c.state = "queued"
      /\ spent \in Nat /\ hour \in Nat /\ hour_start \in Nat
      /\ config \in Configs /\ config.budget \in Nat
      /\ UNCHANGED <<config, call>>
  <2>1. charge \in [Requests -> [Slots -> ChargeType]]
    BY DEF IInv, TypeOK
  <2>2. hour \in Nat /\ hour_start \in Nat /\ spent \in Nat /\ config \in Configs
    BY RouterAssumption DEF IInv, TypeOK
  <2>3. c.state = "queued" /\ UNCHANGED <<config, call>>
    BY DEF ChargeSync
  <2> QED BY <2>1, <2>2, <2>3, ConfigFacts
<1>2. cost \in Nat
  <2>1. Estimates \subseteq Nat
    BY RouterAssumption
  <2>2. cost \in Estimates \cup {0}
    BY <1>1 DEF ChargeType
  <2> HIDE DEF cost
  <2> QED BY <2>1, <2>2
<1>3. /\ hour_start <= hour
      /\ \A q \in Requests, u \in Slots :
           /\ OnBooks(charge[q][u]) => charge[q][u].hour <= hour_start
           /\ At(q, u, "unused") => charge[q][u].state = "none"
      /\ \A q \in Requests, u \in Slots : charge[q][u].hour \in Nat
  <2>1. \A q \in Requests, u \in Slots : charge[q][u] \in ChargeType
    BY <1>1
  <2>2. \A q \in Requests, u \in Slots : charge[q][u].hour \in Nat
    BY <2>1, RouterAssumption DEF ChargeType
  <2> QED BY <2>2 DEF AInv, BooksInOrder
<1>4. ASSUME c.account = "fallback" PROVE AInv'
  <2>1. UNCHANGED <<config, spent, hour, hour_start>>
    BY <1>1, <1>4 DEF ChargeSync, ledger
  <2>2. PICK x : charge' = [charge EXCEPT ![r][s].state = x, ![r][s].hour = hour]
    BY <1>1, <1>4 DEF ChargeSync
  <2>3. /\ \A q \in Requests, u \in Slots : ~ (q = r /\ u = s) => charge'[q][u] = charge[q][u]
        /\ charge'[r][s].account = "fallback"
    BY <1>1, <1>4, <2>2 DEF ChargeType
  <2>4. ~ At(r, s, "unused") /\ \A q, u : At(q, u, "unused")' <=> At(q, u, "unused")
    BY <1>1, <1>3 DEF At
  <2>5. ASSUME NEW q \in Requests, NEW u \in Slots
        PROVE  /\ OnBooks(charge[q][u]) \/ OnBooks(charge'[q][u]) => charge'[q][u] = charge[q][u]
               /\ At(q, u, "unused")' => charge'[q][u].state = "none"
    BY <1>1, <1>3, <1>4, <2>4, <2>3 DEF OnBooks
  <2> QED BY <1>3, <2>1, <2>5, SameBooks
<1>5. ASSUME c.account = "router", hour_start' = hour, UNCHANGED hour,
             NEW x \in {"granted", "refused"}, NEW n \in Nat,
             charge' = [charge EXCEPT ![r][s].state = x, ![r][s].hour = hour],
             spent' = OnAccount + n, OnAccount + n <= config.budget,
             x = "granted" => n = cost, x = "refused" => n = 0
      PROVE  AInv'
  <2>1. /\ \A q \in Requests, u \in Slots : ~ (q = r /\ u = s) => charge'[q][u] = charge[q][u]
        /\ charge'[r][s].state = x /\ charge'[r][s].hour = hour
        /\ charge'[r][s].account = "router" /\ charge'[r][s].cost = cost
    BY <1>1, <1>5 DEF ChargeType
  <2>2. BooksInOrder'
    BY <1>1, <1>3, <1>5, <2>1 DEF BooksInOrder, OnBooks, At
  <2>3. IsFiniteSet(U) /\ Cardinality(U) = OnAccount
    <3>1. CASE hour = hour_start
      BY <1>1, <3>1, UnitsOfTheHour DEF AInv, Balance, AccountBalances, OnAccount
    <3>2. CASE hour > hour_start
      <4>1. ASSUME NEW u PROVE u \notin U
        <5>1. \A q \in Requests, v \in Slots : ~ (OnBooks(charge[q][v]) /\ charge[q][v].hour = hour)
          BY <1>1, <1>3, <3>2
        <5>2. ~ Paid(charge, hour, u)
          BY <5>1 DEF Paid
        <5> QED BY <5>2, UnitOnAccount
      <4> HIDE DEF U
      <4>2. U = {}
        BY <4>1
      <4> QED BY <3>2, <4>2, FS_EmptySet DEF OnAccount
    <3> QED BY <1>1, <1>3, <3>1, <3>2
  <2>4. ASSUME NEW u
        PROVE  u \in UnitsSpent' <=> u \in U \/ (x = "granted" /\ u \in Block(<<r, s>>, cost))
    <3>1. UnitsSpent' = Units(charge', hour)
      BY <1>5, UnitsOfTheHour
    <3>2. u \in Units(charge', hour) <=> Paid(charge', hour, u)
      BY UnitOnAccount
    <3>3. u \in U <=> Paid(charge, hour, u)
      BY UnitOnAccount
    <3>4. ~ OnBooks(charge[r][s]) /\ (OnBooks(charge'[r][s]) <=> x = "granted")
      BY <1>1, <2>1 DEF OnBooks
    <3> HIDE DEF U
    <3> QED BY <2>1, <3>1, <3>2, <3>3, <3>4 DEF Paid
  <2>5. IsFiniteSet(UnitsSpent') /\ Cardinality(UnitsSpent') = OnAccount + n
    <3>1. CASE x = "refused"
      <4> HIDE DEF U
      <4>1. UnitsSpent' = U
        BY <2>4, <3>1
      <4> QED BY <1>5, <1>1, <2>3, <3>1, <4>1 DEF OnAccount
    <3>2. CASE x = "granted"
      <4>1. ASSUME NEW u, u \in U, u \in Block(<<r, s>>, cost) PROVE FALSE
        <5>1. PICK q \in Requests, v \in Slots :
                OnBooks(charge[q][v]) /\ u \in Block(<<q, v>>, charge[q][v].cost)
          BY <4>1, UnitOnAccount DEF Paid
        <5>2. <<q, v>> # <<r, s>>
          BY <1>1, <5>1 DEF OnBooks
        <5> QED BY <4>1, <5>1, <5>2 DEF Block
      <4> HIDE DEF U
      <4>2. UnitsSpent' = U \cup Block(<<r, s>>, cost) /\ U \cap Block(<<r, s>>, cost) = {}
        BY <2>4, <3>2, <4>1
      <4> HIDE DEF cost
      <4>3. IsFiniteSet(UnitsSpent') /\ Cardinality(UnitsSpent') = Cardinality(U) + cost
        BY <1>2, <2>3, <4>2, OneChargeMore
      <4> QED BY <1>5, <2>3, <3>2, <4>3
    <3> QED BY <1>5, <3>1, <3>2
  <2>6. Balance'
    BY <1>1, <1>5, <2>5 DEF Balance, AccountBalances
  <2> QED BY <2>2, <2>6 DEF AInv
<1>6. OnAccount \in Nat /\ OnAccount <= config.budget
  BY <1>1 DEF OnAccount, AInv, Balance, AccountBalances
<1>7. CASE c.account = "router"
  <2>1. hour_start' = hour /\ UNCHANGED hour
    BY <1>1, <1>7 DEF ChargeSync
  <2>2. CASE spent' = OnAccount /\ charge' = [charge EXCEPT ![r][s].state = "refused", ![r][s].hour = hour]
    <3>1. 0 \in Nat /\ spent' = OnAccount + 0 /\ OnAccount + 0 <= config.budget
      BY <1>6, <2>2
    <3> QED BY <1>5, <1>7, <2>1, <2>2, <3>1
  <2>3. CASE /\ OnAccount + cost <= config.budget /\ spent' = OnAccount + cost
             /\ charge' = [charge EXCEPT ![r][s].state = "granted", ![r][s].hour = hour]
    BY <1>2, <1>5, <1>7, <2>1, <2>3
  <2> QED BY <1>1, <1>7, <2>2, <2>3 DEF ChargeSync
<1> QED BY <1>1, <1>4, <1>7 DEF ChargeSync

\* The hour's account is what was granted since the tracker's hour began, and
\* never more than the budget: _charge_sync against racing tasks, cancelled
\* calls, retries, fallbacks and the turn of the hour.
THEOREM AccountAddsUp == Spec => []AccountBalances
<1>1. Init => AInv
  <2> SUFFICES ASSUME Init PROVE AInv
    OBVIOUS
  <2>1. \A r \in Requests, s \in Slots : charge[r][s].state = "none"
    BY DEF Init, NoCharge
  <2>2. BooksInOrder
    BY <2>1 DEF Init, BooksInOrder, OnBooks
  <2>3. ASSUME NEW u PROVE u \notin Units(charge, hour_start)
    BY <2>1, UnitOnAccount DEF Paid, OnBooks
  <2>4. UnitsSpent = {}
    BY <2>3, UnitsOfTheHour
  <2>5. config.budget \in Nat /\ spent = 0
    BY ConfigFacts DEF Init
  <2> QED BY <2>2, <2>4, <2>5, FS_EmptySet DEF AInv, Balance, AccountBalances
<1>2. IInv /\ AInv /\ [Next]_vars => AInv'
  <2> SUFFICES ASSUME IInv, AInv, [Next]_vars PROVE AInv'
    OBVIOUS
  <2>1. ASSUME UNCHANGED <<config, spent, hour_start, call, charge>>, hour' \in {hour, hour + 1} PROVE AInv'
    <3>1. hour \in Nat /\ hour_start \in Nat
      BY RouterAssumption DEF IInv, TypeOK
    <3>2. hour_start <= hour'
      BY <2>1, <3>1 DEF AInv, BooksInOrder
    <3> QED BY <2>1, <3>2, SameBooks DEF AInv, BooksInOrder, At
  <2>2. hour \in Nat
    BY RouterAssumption DEF IInv, TypeOK
  <2>3. CASE Stop \/ UNCHANGED vars
    BY <2>1, <2>2, <2>3 DEF Stop, vars, ledger
  <2>4. CASE HourPasses
    BY <2>1, <2>2, <2>4 DEF HourPasses
  <2>5. ASSUME NEW r \in Requests, Route(r) \/ RequestStep(r) PROVE AInv'
    BY <2>5, OtherSteps
  <2>6. ASSUME NEW r \in Requests, NEW s \in Slots, CallStep(r, s) PROVE AInv'
    BY <2>6, AwaitSteps, ChargeBooks DEF CallStep
  <2> QED BY <2>3, <2>4, <2>5, <2>6 DEF Next
<1>3. AInv => AccountBalances
  BY DEF AInv, Balance
<1> QED BY InductiveInvariant, <1>1, <1>2, <1>3, PTL DEF Spec

=============================================================================
