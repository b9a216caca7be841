------------------------- MODULE RouterCounts_proofs -------------------------
(***************************************************************************)
(* More about the threaded router core, for any number of threads,         *)
(* providers, workers and calls: the types of its variables, the lists of  *)
(* providers among them, and its counters, which add up.                   *)
(***************************************************************************)
EXTENDS RouterCore_proofs, CommonLemmas

-----------------------------------------------------------------------------
(* The types                                                               *)

\* Where a thread has chosen a provider.
Choosing == {"execute", "record", "count", "count failed", "rate", "degrade", "grade"}

ThreadOK ==
  /\ thread \in [Threads -> ThreadType]
  /\ \A t \in Threads :
       /\ thread[t].pc \in Choosing => thread[t].chosen \in Providers
       /\ thread[t].pc = "round robin" => thread[t].found # << >>
       /\ thread[t].pc = "lookup" => thread[t].list # << >>

ListOK == registry \in Seq(Providers) /\ IsInjective(registry)

NumbersOK ==
  /\ strategy \in Strategies /\ lock \in Threads \cup {Nobody}
  /\ total \in Nat /\ failures \in Nat /\ rr_index \in Nat

RunningOK == IsFiniteSet(Jobs("running")) /\ Cardinality(Jobs("running")) <= Workers

TInv == ThreadOK /\ ListOK /\ NumbersOK /\ RunningOK

\* What a thread's locals may become.
FitLocals(new) ==
  /\ new \in ThreadType
  /\ new.pc \in Choosing => new.chosen \in Providers
  /\ new.pc = "round robin" => new.found # << >>
  /\ new.pc = "lookup" => new.list # << >>

\* One thread's locals are replaced by others of their type.
LEMMA SetThread ==
  ASSUME ThreadOK, NEW t \in Threads, NEW new, FitLocals(new), thread' = [thread EXCEPT ![t] = new]
  PROVE  ThreadOK'
<1>1. \A u \in Threads : thread'[u] = IF u = t THEN new ELSE thread[u]
  BY DEF ThreadOK
<1>2. thread' \in [Threads -> ThreadType]
  <2> HIDE DEF ThreadType
  <2> QED BY DEF ThreadOK, FitLocals
<1> QED BY <1>1, <1>2 DEF ThreadOK, FitLocals

\* A thread goes elsewhere with the locals that it has.
LEMMA GoThread ==
  ASSUME ThreadOK, NEW t \in Threads, NEW pc \in ThreadPcs \ {"round robin", "lookup"}, Go(t, pc),
         pc \in Choosing => thread[t].chosen \in Providers
  PROVE  ThreadOK'
<1>1. PICK r \in ThreadType : r = thread[t]
  BY DEF ThreadOK
<1> DEFINE new == [r EXCEPT !.pc = pc]
<1>2. new \in ThreadType /\ new.pc = pc /\ new.chosen = r.chosen
  BY <1>1 DEF ThreadType
<1>3. thread' = [thread EXCEPT ![t] = new]
  BY <1>1 DEF Go
<1> HIDE DEF new
<1> QED BY <1>1, <1>2, <1>3, SetThread DEF FitLocals

\* The locals of an idle thread.
LEMMA IdleLocals ==
  ASSUME NEW r \in Results
  PROVE  Idle(r) \in ThreadType /\ Idle(r).pc = "idle"
BY RouterCoreAssumption DEF Idle, ThreadType, ThreadPcs, Statuses

\* A call is over.
LEMMA ReturnThread ==
  ASSUME ThreadOK, NEW t \in Threads, NEW r \in Results, Return(t, r)
  PROVE  ThreadOK'
<1>1. FitLocals(Idle(r))
  BY IdleLocals DEF FitLocals, Choosing
<1>2. thread' = [thread EXCEPT ![t] = Idle(r)]
  BY DEF Return
<1> QED BY <1>1, <1>2, SetThread

\* The locals with which calls begin, and go on, have their types.
LEMMA FreshLocals ==
  /\ \A p \in Providers : FitLocals([Idle("none") EXCEPT !.pc = "execute", !.chosen = p])
  /\ \A found \in Seq(Providers) : found # << >> =>
       FitLocals([Idle("none") EXCEPT !.pc = "round robin", !.found = found])
  /\ \A n \in 0 .. MaxCalls : FitLocals([Idle("none") EXCEPT !.pc = "race", !.race = n])
  /\ \A pc \in {"select", "gather", "visit"}, n \in 0 .. MaxCalls, list \in Seq(Providers), k \in Nat :
       FitLocals([Idle("none") EXCEPT !.pc = pc, !.race = n, !.list = list, !.size = k])
  /\ \A n \in 0 .. MaxCalls, list \in Seq(Providers) :
       FitLocals([Idle("none") EXCEPT !.pc = "name", !.race = n, !.list = list])
<1>1. PICK r : r = Idle("none")
  OBVIOUS
<1>2. r \in ThreadType
  BY <1>1, IdleLocals DEF Results
<1>3. ASSUME NEW p \in Providers PROVE FitLocals([r EXCEPT !.pc = "execute", !.chosen = p])
  BY <1>2 DEF FitLocals, ThreadType, ThreadPcs
<1>4. ASSUME NEW found \in Seq(Providers), found # << >>
      PROVE  FitLocals([r EXCEPT !.pc = "round robin", !.found = found])
  BY <1>2, <1>4 DEF FitLocals, ThreadType, ThreadPcs, Choosing
<1>5. ASSUME NEW n \in 0 .. MaxCalls
      PROVE  FitLocals([r EXCEPT !.pc = "race", !.race = n])
  BY <1>2 DEF FitLocals, ThreadType, ThreadPcs, Choosing
<1>6. ASSUME NEW pc \in {"select", "gather", "visit"}, NEW n \in 0 .. MaxCalls,
             NEW list \in Seq(Providers), NEW k \in Nat
      PROVE  FitLocals([r EXCEPT !.pc = pc, !.race = n, !.list = list, !.size = k])
  BY <1>2 DEF FitLocals, ThreadType, ThreadPcs, Choosing
<1>7. ASSUME NEW n \in 0 .. MaxCalls, NEW list \in Seq(Providers)
      PROVE  FitLocals([r EXCEPT !.pc = "name", !.race = n, !.list = list])
  BY <1>2 DEF FitLocals, ThreadType, ThreadPcs, Choosing
<1> QED BY <1>1, <1>3, <1>4, <1>5, <1>6, <1>7

\* What a caller names is a list of providers.
LEMMA NamesList == NameLists \subseteq Seq(Providers)
<1>1. ASSUME NEW n \in 1 .. MaxNames, NEW names \in [1 .. n -> Providers]
      PROVE  names \in Seq(Providers)
  <2>1. n \in Nat
    BY RouterCoreAssumption
  <2> QED BY <2>1
<1> QED BY <1>1 DEF NameLists

\* What a call begins with has its type.
LEMMA BeginThread ==
  ASSUME IInv, TInv, NEW t \in Threads,
         StartSelect(t) \/ StartGather(t) \/ StartNames(t) \/ StartCheck(t)
  PROVE  ThreadOK'
<1>1. ThreadOK /\ ListOK
  BY DEF TInv
<1>2. ASSUME NEW new, FitLocals(new), thread' = [thread EXCEPT ![t] = new]
      PROVE  ThreadOK'
  BY <1>1, <1>2, SetThread
<1>3. calls' \in 0 .. MaxCalls /\ 0 \in 0 .. MaxCalls
  <2>1. Begin
    BY DEF StartSelect, StartGather, StartNames, StartCheck
  <2> QED BY <2>1, BeginCounts, RouterCoreAssumption
<1>4. ASSUME NEW pc \in {"select", "gather", "visit"}, NEW n \in 0 .. MaxCalls, Loop(t, pc, n)
      PROVE  ThreadOK'
  <2>1. registry \in Seq(Providers) /\ Len(registry) \in Nat
    BY <1>1 DEF ListOK
  <2>2. FitLocals([Idle("none") EXCEPT !.pc = pc, !.race = n, !.list = registry, !.size = Len(registry)])
    BY <2>1, FreshLocals
  <2> QED BY <1>2, <1>4, <2>2 DEF Loop
<1>5. CASE StartNames(t)
  <2>1. PICK names \in Seq(Providers) :
          thread' = [thread EXCEPT ![t] = [Idle("none") EXCEPT
            !.pc = "name", !.race = calls', !.list = names]]
    BY <1>5, NamesList DEF StartNames
  <2>2. FitLocals([Idle("none") EXCEPT !.pc = "name", !.race = calls', !.list = names])
    BY <1>3, FreshLocals
  <2> QED BY <1>2, <2>1, <2>2
<1> QED BY <1>3, <1>4, <1>5 DEF StartSelect, StartGather, StartCheck

\* So has what the search for available providers makes of it.
LEMMA FindThread ==
  ASSUME TInv, NEW t \in Threads, NEW pc \in {"select", "gather", "name"}, Find(t, pc),
         thread[t].list # << >>
  PROVE  ThreadOK'
<1>1. ThreadOK
  BY DEF TInv
<1>2. PICK r \in ThreadType : r = thread[t]
  BY <1>1 DEF ThreadOK
<1>3. r.list \in Seq(Providers) /\ r.list # << >> /\ r.found \in Seq(Providers)
  BY <1>2 DEF ThreadType
<1>4. Head(r.list) \in Providers /\ Tail(r.list) \in Seq(Providers)
  <2>1. ASSUME NEW list \in Seq(Providers), list # << >>
        PROVE  Head(list) \in Providers /\ Tail(list) \in Seq(Providers)
    BY <2>1
  <2> QED BY <1>3, <2>1
<1>5. PICK rest \in Seq(Providers) : rest = Tail(r.list)
  BY <1>4
<1>6. PICK found \in Seq(Providers) :
        found = IF IsAvailable(Head(r.list)) THEN Append(r.found, Head(r.list)) ELSE r.found
  <2>1. PICK f \in Seq(Providers), p \in Providers : f = r.found /\ p = Head(r.list)
    BY <1>3, <1>4
  <2>2. Append(f, p) \in Seq(Providers)
    OBVIOUS
  <2> QED BY <2>1, <2>2
<1> DEFINE new == [r EXCEPT !.pc = pc, !.list = rest, !.found = found]
<1>7. FitLocals(new)
  BY <1>2 DEF FitLocals, ThreadType, ThreadPcs, Choosing
<1>8. thread' = [thread EXCEPT ![t] = new]
  BY <1>2, <1>5, <1>6 DEF Find
<1> HIDE DEF new
<1> QED BY <1>1, <1>7, <1>8, SetThread

\* And what the walk over the providers or the names does.
LEMMA WalkThread ==
  ASSUME TInv, NEW t \in Threads,
         Gather(t, "select") \/ Gather(t, "gather") \/ Name(t) \/ Lookup(t)
  PROVE  ThreadOK'
<1>1. ThreadOK
  BY DEF TInv
<1>2. ASSUME Return(t, "raised") PROVE ThreadOK'
  BY <1>1, <1>2, ReturnThread DEF Results
<1>3. CASE Gather(t, "select") \/ Gather(t, "gather")
  BY <1>2, <1>3, FindThread DEF Gather
<1>4. CASE Lookup(t)
  <2>1. thread[t].list # << >>
    BY <1>1, <1>4 DEF ThreadOK, Lookup, At
  <2> QED BY <1>2, <1>4, <2>1, FindThread DEF Lookup
<1>5. CASE Name(t)
  <2>1. PICK r \in ThreadType : r = thread[t]
    BY <1>1 DEF ThreadOK
  <2>2. r.list \in Seq(Providers) /\ r.list # << >> /\ r.pc = "name"
    BY <1>5, <2>1 DEF ThreadType, Name, At
  <2>3. ASSUME Go(t, "lookup") PROVE ThreadOK'
    <3> DEFINE new == [r EXCEPT !.pc = "lookup"]
    <3>1. FitLocals(new)
      BY <2>1, <2>2 DEF FitLocals, ThreadType, ThreadPcs, Choosing
    <3>2. thread' = [thread EXCEPT ![t] = new]
      BY <2>1, <2>3 DEF Go
    <3> HIDE DEF new
    <3> QED BY <1>1, <3>1, <3>2, SetThread
  <2>4. ASSUME thread' = [thread EXCEPT ![t].list = Tail(thread[t].list)] PROVE ThreadOK'
    <3>1. PICK rest \in Seq(Providers) : rest = Tail(r.list)
      <4>1. ASSUME NEW list \in Seq(Providers), list # << >> PROVE Tail(list) \in Seq(Providers)
        BY <4>1
      <4> QED BY <2>2, <4>1
    <3> DEFINE new == [r EXCEPT !.list = rest]
    <3>2. FitLocals(new)
      BY <2>1, <2>2 DEF FitLocals, ThreadType, Choosing
    <3>3. thread' = [thread EXCEPT ![t] = new]
      BY <2>1, <2>4, <3>1
    <3> HIDE DEF new
    <3> QED BY <1>1, <3>2, <3>3, SetThread
  <2> QED BY <1>5, <2>3, <2>4 DEF Name
<1> QED BY <1>3, <1>4, <1>5

\* And what is done with the providers that were found.
LEMMA FoundThread ==
  ASSUME TInv, NEW t \in Threads, Select(t) \/ StartRace(t)
  PROVE  ThreadOK'
<1>1. ThreadOK /\ thread[t] \in ThreadType
  BY DEF TInv, ThreadOK
<1>2. ASSUME NEW new, FitLocals(new), thread' = [thread EXCEPT ![t] = new]
      PROVE  ThreadOK'
  BY <1>1, <1>2, SetThread
<1>3. ASSUME Return(t, "none available") PROVE ThreadOK'
  BY <1>1, <1>3, ReturnThread DEF Results
<1>4. PICK found \in Seq(Providers) : found = thread[t].found
  BY <1>1 DEF ThreadType
<1>5. CASE Select(t)
  <2>1. ASSUME NEW p \in ToSet(found),
               thread' = [thread EXCEPT ![t] = [Idle("none") EXCEPT !.pc = "execute", !.chosen = p]]
        PROVE  ThreadOK'
    <3>1. p \in Providers
      BY DEF ToSet
    <3>2. FitLocals([Idle("none") EXCEPT !.pc = "execute", !.chosen = p])
      BY <3>1, FreshLocals
    <3> QED BY <1>2, <2>1, <3>2
  <2>2. ASSUME found # << >>,
               thread' = [thread EXCEPT ![t] = [Idle("none") EXCEPT !.pc = "round robin", !.found = found]]
        PROVE  ThreadOK'
    <3>1. FitLocals([Idle("none") EXCEPT !.pc = "round robin", !.found = found])
      BY <2>2, FreshLocals
    <3> QED BY <1>2, <2>2, <3>1
  <2> QED BY <1>3, <1>4, <1>5, <2>1, <2>2 DEF Select
<1>6. CASE StartRace(t)
  <2>1. PICK n \in 0 .. MaxCalls : n = thread[t].race
    BY <1>1 DEF ThreadType
  <2>2. FitLocals([Idle("none") EXCEPT !.pc = "race", !.race = n])
    BY FreshLocals
  <2> QED BY <1>2, <1>3, <1>6, <2>1, <2>2 DEF StartRace
<1> QED BY <1>5, <1>6

\* A number modulo the length of a list is a place in the list.
LEMMA InTurn ==
  ASSUME NEW n \in Nat, NEW k \in Nat \ {0} PROVE (n % k) + 1 \in 1 .. k
<1>1. n % k \in 0 .. k - 1
  OBVIOUS
<1> QED BY <1>1

\* So has what round robin picks, and what a race or a health check visits.
LEMMA PickThread ==
  ASSUME TInv, NEW t \in Threads, RoundRobin(t) \/ TakeResult(t) \/ Visit(t)
  PROVE  ThreadOK'
<1>1. ThreadOK
  BY DEF TInv
<1>2. PICK r \in ThreadType : r = thread[t]
  BY <1>1 DEF ThreadOK
<1>3. r.list \in Seq(Providers) /\ r.found \in Seq(Providers)
  BY <1>2 DEF ThreadType
<1>4. ASSUME NEW new, FitLocals(new), thread' = [thread EXCEPT ![t] = new]
      PROVE  ThreadOK'
  BY <1>1, <1>4, SetThread
<1>5. CASE RoundRobin(t)
  <2> DEFINE i == (rr_index % Len(r.found)) + 1
  <2>1. r.found # << >>
    BY <1>1, <1>2, <1>5 DEF ThreadOK, RoundRobin, At
  <2>2. Len(r.found) \in Nat \ {0} /\ rr_index \in Nat
    BY <1>3, <2>1 DEF TInv, NumbersOK
  <2>3. i \in 1 .. Len(r.found)
    BY <2>2, InTurn
  <2> HIDE DEF i
  <2>4. PICK p \in Providers : p = r.found[i]
    BY <1>3, <2>3
  <2>4a. PICK nothing \in Seq(Providers) : nothing = << >>
    <3>1. << >> \in Seq(Providers)
      OBVIOUS
    <3> QED BY <3>1
  <2> DEFINE new == [r EXCEPT !.pc = "execute", !.found = nothing, !.chosen = p]
  <2>5. FitLocals(new)
    BY <1>2 DEF FitLocals, ThreadType, ThreadPcs
  <2>6. thread' = [thread EXCEPT ![t] = new]
    BY <1>2, <1>5, <2>4, <2>4a DEF RoundRobin, i
  <2> HIDE DEF new
  <2> QED BY <1>4, <2>5, <2>6
<1>6. CASE TakeResult(t)
  <2>1. PICK p \in Providers :
          thread' = [thread EXCEPT ![t].pc = "record", ![t].chosen = p,
                                   ![t].ok = job[thread[t].race][p] = "ok"]
    BY <1>6 DEF TakeResult
  <2>2. PICK ok \in BOOLEAN : ok = (job[thread[t].race][p] = "ok")
    OBVIOUS
  <2> DEFINE new == [r EXCEPT !.pc = "record", !.chosen = p, !.ok = ok]
  <2>3. FitLocals(new)
    BY <1>2 DEF FitLocals, ThreadType, ThreadPcs
  <2>4. thread' = [thread EXCEPT ![t] = new]
    BY <1>2, <2>1, <2>2
  <2> HIDE DEF new
  <2> QED BY <1>4, <2>3, <2>4
<1>7. CASE Visit(t)
  <2>1. ASSUME Return(t, "raised") \/ Return(t, "checked") PROVE ThreadOK'
    BY <1>1, <2>1, ReturnThread DEF Results
  <2>2. ASSUME r.list # << >>,
               thread' = [thread EXCEPT ![t].pc = "grade", ![t].chosen = Head(r.list),
                                        ![t].list = Tail(r.list), ![t].grade = Grade(Head(r.list))]
        PROVE  ThreadOK'
    <3>1. PICK p \in Providers : p = Head(r.list)
      BY <1>3, <2>2
    <3>2. PICK rest \in Seq(Providers) : rest = Tail(r.list)
      <4>1. ASSUME NEW list \in Seq(Providers), list # << >> PROVE Tail(list) \in Seq(Providers)
        BY <4>1
      <4> QED BY <1>3, <2>2, <4>1
    <3>3. PICK g \in Statuses : g = Grade(Head(r.list))
      BY DEF Grade, Statuses
    <3> DEFINE new == [r EXCEPT !.pc = "grade", !.chosen = p, !.list = rest, !.grade = g]
    <3>4. FitLocals(new)
      BY <1>2 DEF FitLocals, ThreadType, ThreadPcs
    <3>5. thread' = [thread EXCEPT ![t] = new]
      BY <1>2, <2>2, <3>1, <3>2, <3>3
    <3> HIDE DEF new
    <3> QED BY <1>4, <3>4, <3>5
  <2> QED BY <1>2, <1>7, <2>1, <2>2 DEF Visit
<1> QED BY <1>5, <1>6, <1>7

\* And what is read before a count.
LEMMA RecordThread ==
  ASSUME IInv, TInv, NEW t \in Threads, Record(t) \/ Execute(t) PROVE ThreadOK'
<1>1. ThreadOK /\ total \in Nat /\ failures \in Nat
      /\ provider \in [Providers -> [status : Statuses, total : Nat, failed : Nat]]
  BY DEF TInv, NumbersOK, IInv, Types
<1>2. PICK r \in ThreadType : r = thread[t]
  BY <1>1 DEF ThreadOK
<1>3. ASSUME NEW new, FitLocals(new), thread' = [thread EXCEPT ![t] = new]
      PROVE  ThreadOK'
  BY <1>1, <1>3, SetThread
<1>4. r.chosen \in Providers
  BY <1>1, <1>2 DEF ThreadOK, Record, Execute, At, Choosing
<1>5. CASE Record(t)
  <2> DEFINE counted == provider[r.chosen]
             now == <<total, failures, counted.total, counted.failed>>
  <2>1. now \in Nat \X Nat \X Nat \X Nat
    BY <1>1, <1>4
  <2>2. thread' = [thread EXCEPT ![t].pc = "count", ![t].seen = now]
    BY <1>2, <1>5 DEF Record
  <2> HIDE DEF now
  <2> DEFINE new == [r EXCEPT !.pc = "count", !.seen = now]
  <2>3. FitLocals(new)
    BY <1>2, <1>4, <2>1 DEF FitLocals, ThreadType, ThreadPcs
  <2>4. thread' = [thread EXCEPT ![t] = new]
    BY <1>2, <2>2
  <2> HIDE DEF new
  <2> QED BY <1>3, <2>3, <2>4
<1>6. CASE Execute(t)
  <2>1. PICK ok \in BOOLEAN : thread' = [thread EXCEPT ![t].pc = "record", ![t].ok = ok]
    BY <1>6 DEF Execute
  <2> DEFINE new == [r EXCEPT !.pc = "record", !.ok = ok]
  <2>2. FitLocals(new)
    BY <1>2, <1>4 DEF FitLocals, ThreadType, ThreadPcs
  <2>3. thread' = [thread EXCEPT ![t] = new]
    BY <1>2, <2>1
  <2> HIDE DEF new
  <2> QED BY <1>3, <2>2, <2>3
<1> QED BY <1>5, <1>6

\* And so have the locals of a thread that goes on or ends its call.
LEMMA GoOnThread ==
  ASSUME TInv, NEW t \in Threads,
         \/ Count(t) \/ CountFailed(t) \/ ReadRate(t) \/ Degrade(t)
         \/ RaceOver(t) \/ RaceTimeout(t) \/ SetStatus(t)
  PROVE  ThreadOK'
<1>1. ThreadOK
  BY DEF TInv
<1>2. ASSUME NEW pc \in ThreadPcs \ {"round robin", "lookup"}, Go(t, pc),
             thread[t].pc \in Choosing \/ pc \notin Choosing
      PROVE  ThreadOK'
  <2>1. pc \in Choosing => thread[t].chosen \in Providers
    BY <1>1, <1>2 DEF ThreadOK
  <2> QED BY <1>1, <1>2, <2>1, GoThread
<1>3. ASSUME NEW r \in Results, Return(t, r) PROVE ThreadOK'
  BY <1>1, <1>3, ReturnThread
<1>4. ASSUME thread[t].pc \in Choosing, Recorded(t) PROVE ThreadOK'
  <2>1. CASE Return(t, "ok")
    BY <1>3, <2>1 DEF Results
  <2>2. ASSUME NEW pc \in {"race", "rate"}, Go(t, pc) PROVE ThreadOK'
    BY <1>2, <1>4, <2>2 DEF ThreadPcs
  <2> QED BY <1>4, <2>1, <2>2 DEF Recorded
<1>5. CASE Count(t)
  <2>1. thread[t].pc \in Choosing
    BY <1>5 DEF Count, At, Choosing
  <2>2. ASSUME Go(t, "count failed") PROVE ThreadOK'
    BY <1>2, <2>1, <2>2 DEF ThreadPcs
  <2> QED BY <1>4, <1>5, <2>1, <2>2 DEF Count
<1>6. CASE CountFailed(t)
  BY <1>4, <1>6 DEF CountFailed, At, Choosing
<1>7. CASE ReadRate(t)
  <2>1. thread[t].pc \in Choosing
    BY <1>7 DEF ReadRate, At, Choosing
  <2>2. ASSUME Go(t, "degrade") PROVE ThreadOK'
    BY <1>2, <2>1, <2>2 DEF ThreadPcs
  <2>3. "failed" \in Results
    BY DEF Results
  <2> QED BY <1>3, <1>7, <2>2, <2>3 DEF ReadRate
<1>8. CASE Degrade(t) \/ RaceOver(t) \/ RaceTimeout(t)
  BY <1>3, <1>8 DEF Degrade, RaceOver, RaceTimeout, Results
<1>9. CASE SetStatus(t)
  <2>1. "visit" \in ThreadPcs \ {"round robin", "lookup"} /\ "visit" \notin Choosing
    BY DEF ThreadPcs, Choosing
  <2> QED BY <1>2, <1>9, <2>1 DEF SetStatus
<1> QED BY <1>5, <1>6, <1>7, <1>8, <1>9

\* Threads keep their types.
LEMMA ThreadsFit ==
  ASSUME IInv, TInv, [Next]_vars PROVE ThreadOK'
<1>1. ASSUME thread' = thread PROVE ThreadOK'
  BY <1>1 DEF TInv, ThreadOK
<1>2. ASSUME NEW t \in Threads, CallStep(t) PROVE ThreadOK'
  BY <1>2, WalkThread, FoundThread, PickThread, RecordThread, GoOnThread DEF CallStep
<1>3. ASSUME NEW t \in Threads, NEW p \in Providers, Register(t, p) \/ Unregister(t, p)
      PROVE  thread' = thread
  BY <1>3 DEF Register, Unregister
<1>4. ASSUME NEW c \in 1 .. MaxCalls, NEW p \in Providers, StartJob(c, p) \/ EndJob(c, p)
      PROVE  thread' = thread
  BY <1>4 DEF StartJob, EndJob
<1>5. CASE UNCHANGED vars
  BY <1>1, <1>5 DEF vars
<1> QED BY <1>1, <1>2, <1>3, <1>4, <1>5, BeginThread DEF Next

\* Who registers and who unregisters keeps the list of providers one without
\* repetitions; nobody else changes it.
LEMMA ListFits ==
  ASSUME TInv, [Next]_vars PROVE ListOK'
<1>1. ListOK
  BY DEF TInv
<1>2. ASSUME registry' = registry PROVE ListOK'
  BY <1>1, <1>2 DEF ListOK
<1>3. ASSUME NEW t \in Threads, NEW p \in Providers, Register(t, p) PROVE ListOK'
  <2>1. registry' = Append(registry, p) /\ ~Contains(registry, p)
    BY <1>3 DEF Register
  <2>2. PICK s \in Seq(Providers) : s = registry
    BY <1>1 DEF ListOK
  <2>3. \A i, j \in 1 .. Len(s) : s[i] = s[j] => i = j
    BY <1>1, <2>2 DEF ListOK, IsInjective
  <2>4. \A i \in 1 .. Len(s) : s[i] # p
    BY <2>1, <2>2 DEF Contains
  <2>5. PICK r : r = Append(s, p)
    OBVIOUS
  <2>6. /\ r \in Seq(Providers) /\ Len(r) = Len(s) + 1 /\ r[Len(s) + 1] = p
        /\ \A i \in 1 .. Len(s) : r[i] = s[i]
    BY <2>5
  <2>7. ASSUME NEW i \in 1 .. Len(r) PROVE i \in 1 .. Len(s) \/ i = Len(s) + 1
    BY <2>6
  <2>8. ASSUME NEW i \in 1 .. Len(r), NEW j \in 1 .. Len(r), r[i] = r[j] PROVE i = j
    BY <2>3, <2>4, <2>6, <2>7, <2>8
  <2>9. DOMAIN r = 1 .. Len(r)
    BY <2>6
  <2>10. IsInjective(r)
    BY <2>8, <2>9 DEF IsInjective
  <2> QED BY <2>1, <2>2, <2>5, <2>6, <2>10 DEF ListOK
<1>4. ASSUME NEW t \in Threads, NEW p \in Providers, Unregister(t, p) PROVE ListOK'
  <2>1. registry' = Kept(registry, Providers \ {p})
    BY <1>4 DEF Unregister
  <2>2. registry \in Seq(Providers) /\ Unrepeated(registry)
    BY <1>1 DEF ListOK, IsInjective, Unrepeated
  <2>3. registry' \in Seq(Providers) /\ Unrepeated(registry')
    BY <2>1, <2>2, KeptTyped, KeptUnrepeated
  <2> QED BY <2>3 DEF ListOK, IsInjective, Unrepeated
<1>5. ASSUME NEW t \in Threads,
             StartSelect(t) \/ StartGather(t) \/ StartNames(t) \/ StartCheck(t)
      PROVE  registry' = registry
  BY <1>5 DEF StartSelect, StartGather, StartNames, StartCheck
<1>6. ASSUME NEW t \in Threads, CallStep(t) PROVE registry' = registry
  BY <1>6 DEF CallStep, Gather, Name, Lookup, Select, StartRace, RoundRobin, Execute, Record,
              Count, CountFailed, ReadRate, Degrade, TakeResult, RaceOver, RaceTimeout, Visit,
              SetStatus
<1>7. ASSUME NEW c \in 1 .. MaxCalls, NEW p \in Providers, StartJob(c, p) \/ EndJob(c, p)
      PROVE  registry' = registry
  BY <1>7 DEF StartJob, EndJob
<1>8. CASE UNCHANGED vars
  BY <1>2, <1>8 DEF vars
<1> QED BY <1>2, <1>3, <1>4, <1>5, <1>6, <1>7, <1>8 DEF Next

\* The counters stay numbers.
LEMMA NumbersFit ==
  ASSUME TInv, [Next]_vars PROVE NumbersOK'
<1>1. NumbersOK
  BY DEF TInv
<1>2. ASSUME UNCHANGED <<strategy, total, failures, rr_index, lock>> PROVE NumbersOK'
  BY <1>1, <1>2 DEF NumbersOK
<1>3. ASSUME NEW t \in Threads, RoundRobin(t) PROVE NumbersOK'
  <2>1. rr_index' = rr_index + 1 /\ UNCHANGED <<strategy, total, failures, lock>>
    BY <1>3 DEF RoundRobin, counts
  <2> QED BY <1>1, <2>1 DEF NumbersOK
<1>4. ASSUME NEW t \in Threads, Record(t) PROVE NumbersOK'
  BY <1>1, <1>4 DEF NumbersOK, Record, counts
<1>5. ASSUME NEW t \in Threads, Count(t) PROVE NumbersOK'
  <2>1. PICK seen \in Nat \X Nat \X Nat \X Nat : seen = thread[t].seen
    BY DEF TInv, ThreadOK, ThreadType
  <2>2. seen[1] + 1 \in Nat /\ seen[2] + 1 \in Nat
    BY <2>1
  <2>3. /\ total' = seen[1] + 1 /\ failures' \in {failures, seen[2] + 1}
        /\ lock' \in {lock, Nobody} /\ strategy' = strategy /\ rr_index' = rr_index
    BY <1>5, <2>1 DEF Count
  <2> QED BY <1>1, <2>2, <2>3 DEF NumbersOK
<1>6. ASSUME NEW t \in Threads, CountFailed(t) PROVE NumbersOK'
  BY <1>1, <1>6 DEF NumbersOK, CountFailed
<1>7. ASSUME NEW t \in Threads,
             \/ Gather(t, "select") \/ Gather(t, "gather") \/ Name(t) \/ Lookup(t)
             \/ Select(t) \/ StartRace(t)
             \/ Execute(t) \/ ReadRate(t) \/ Degrade(t) \/ TakeResult(t)
             \/ RaceOver(t) \/ RaceTimeout(t) \/ Visit(t) \/ SetStatus(t)
      PROVE  NumbersOK'
  BY <1>2, <1>7 DEF Gather, Name, Lookup, Select, StartRace, Execute, ReadRate, Degrade,
                    TakeResult, RaceOver, RaceTimeout, Visit, SetStatus, counts
<1>8. ASSUME NEW t \in Threads,
             StartSelect(t) \/ StartGather(t) \/ StartNames(t) \/ StartCheck(t)
      PROVE  NumbersOK'
  BY <1>2, <1>8 DEF StartSelect, StartGather, StartNames, StartCheck, counts
<1>9. ASSUME NEW t \in Threads, NEW p \in Providers, Register(t, p) \/ Unregister(t, p)
      PROVE  NumbersOK'
  BY <1>2, <1>9 DEF Register, Unregister, counts
<1>10. ASSUME NEW c \in 1 .. MaxCalls, NEW p \in Providers, StartJob(c, p) \/ EndJob(c, p)
       PROVE  NumbersOK'
  BY <1>2, <1>10 DEF StartJob, EndJob, counts
<1>11. CASE UNCHANGED vars
  BY <1>2, <1>11 DEF vars, counts
<1> QED BY <1>3, <1>4, <1>5, <1>6, <1>7, <1>8, <1>9, <1>10, <1>11 DEF Next, CallStep

\* No more jobs run than before.
LEMMA FewerRunning ==
  ASSUME RunningOK,
         \A c \in 1 .. MaxCalls, p \in Providers : job'[c][p] = "running" => job[c][p] = "running"
  PROVE  RunningOK'
<1>1. Jobs("running")' \subseteq Jobs("running")
  BY DEF Jobs
<1>2. Jobs("running")' \in SUBSET Jobs("running") /\ IsFiniteSet(Jobs("running"))
  BY <1>1 DEF RunningOK
<1>3. IsFiniteSet(Jobs("running")') /\ Cardinality(Jobs("running")') <= Cardinality(Jobs("running"))
  <2> HIDE DEF Jobs
  <2> QED BY <1>2, FS_Subset
<1>4. Cardinality(Jobs("running")) \in Nat /\ Cardinality(Jobs("running")') \in Nat /\ Workers \in Nat
  <2> HIDE DEF Jobs
  <2> QED BY <1>2, <1>3, FS_CardinalityType, RouterCoreAssumption
<1> QED BY <1>3, <1>4 DEF RunningOK

\* A worker takes a job only when it is free.
LEMMA StartJobRuns ==
  ASSUME IInv, RunningOK, NEW c \in 1 .. MaxCalls, NEW p \in Providers, StartJob(c, p)
  PROVE  RunningOK'
<1>1. job' = [job EXCEPT ![c][p] = "running"] /\ Cardinality(Jobs("running")) < Workers
  BY DEF StartJob
<1>2. job \in [1 .. MaxCalls -> [Providers -> JobStates]]
  BY DEF IInv, Types
<1>3. Jobs("running")' \subseteq Jobs("running") \cup {<<c, p>>}
  <2>1. \A d \in 1 .. MaxCalls, q \in Providers :
          job'[d][q] = "running" => job[d][q] = "running" \/ (d = c /\ q = p)
    BY <1>1, <1>2
  <2> QED BY <2>1 DEF Jobs
<1> DEFINE J == Jobs("running")
           K == J \cup {<<c, p>>}
<1>4. IsFiniteSet(J)
  BY DEF RunningOK
<1>5. Cardinality(J) \in Nat /\ Cardinality(J) < Workers /\ Workers \in Nat
  BY <1>1, <1>4, FS_CardinalityType, RouterCoreAssumption
<1>6. IsFiniteSet(K) /\ Cardinality(K) <= Cardinality(J) + 1
  <2> HIDE DEF J
  <2>1. /\ IsFiniteSet(K)
        /\ Cardinality(K) = IF <<c, p>> \in J THEN Cardinality(J) ELSE Cardinality(J) + 1
    BY <1>4, FS_AddElement
  <2> QED BY <1>5, <2>1
<1>7. IsFiniteSet(J') /\ Cardinality(J') <= Cardinality(K)
  <2>1. J' \in SUBSET K
    BY <1>3
  <2> HIDE DEF J, K
  <2> QED BY <1>6, <2>1, FS_Subset
<1>8. Cardinality(J') \in Nat /\ Cardinality(K) \in Nat
  <2> HIDE DEF J, K
  <2> QED BY <1>6, <1>7, FS_CardinalityType
<1>9. Cardinality(J') <= Workers
  BY <1>5, <1>6, <1>7, <1>8
<1> QED BY <1>7, <1>9 DEF RunningOK

\* The executor never runs more jobs than it has workers: a race that begins
\* only queues its jobs, and one that ends cancels or leaves them.
LEMMA RunningFits ==
  ASSUME IInv, TInv, [Next]_vars PROVE RunningOK'
<1>1. RunningOK /\ job \in [1 .. MaxCalls -> [Providers -> JobStates]]
  BY DEF TInv, IInv, Types
<1>2. ASSUME job' = job PROVE RunningOK'
  BY <1>1, <1>2, FewerRunning
<1>3. ASSUME NEW t \in Threads, StartRace(t) PROVE RunningOK'
  <2>1. ASSUME NEW race, NEW racers,
               job' = [job EXCEPT ![race] = [p \in Providers |-> IF p \in racers THEN "queued" ELSE "none"]]
        PROVE  RunningOK'
    <3>1. \A c \in 1 .. MaxCalls, p \in Providers : job'[c][p] = "running" => job[c][p] = "running"
      BY <1>1, <2>1
    <3> QED BY <1>1, <3>1, FewerRunning
  <2>2. PICK race, racers : race = thread[t].race /\ racers = ToSet(thread[t].found)
    OBVIOUS
  <2>3. \/ job' = job
        \/ job' = [job EXCEPT ![race] = [p \in Providers |-> IF p \in racers THEN "queued" ELSE "none"]]
    BY <1>3, <2>2 DEF StartRace
  <2> QED BY <1>2, <2>1, <2>3
<1>4. ASSUME NEW t \in Threads, Count(t) PROVE RunningOK'
  <2>1. \A c \in 1 .. MaxCalls, p \in Providers : job'[c][p] = "running" => job[c][p] = "running"
    <3>1. CASE job' = job
      BY <3>1
    <3>2. CASE CancelQueued(t)
      BY <1>1, <3>2 DEF CancelQueued
    <3> QED BY <1>4, <3>1, <3>2 DEF Count
  <2> QED BY <1>1, <2>1, FewerRunning
<1>5. ASSUME NEW t \in Threads, TakeResult(t) PROVE RunningOK'
  <2>1. \A c \in 1 .. MaxCalls, p \in Providers : job'[c][p] = "running" => job[c][p] = "running"
    BY <1>1, <1>5 DEF TakeResult
  <2> QED BY <1>1, <2>1, FewerRunning
<1>6. ASSUME NEW c \in 1 .. MaxCalls, NEW p \in Providers, EndJob(c, p) PROVE RunningOK'
  <2>1. \A d \in 1 .. MaxCalls, q \in Providers : job'[d][q] = "running" => job[d][q] = "running"
    BY <1>1, <1>6 DEF EndJob
  <2> QED BY <1>1, <2>1, FewerRunning
<1>7. ASSUME NEW t \in Threads,
             \/ StartSelect(t) \/ StartGather(t) \/ StartNames(t) \/ StartCheck(t)
             \/ Gather(t, "select") \/ Gather(t, "gather") \/ Name(t) \/ Lookup(t) \/ Select(t)
             \/ RoundRobin(t) \/ Execute(t) \/ Record(t) \/ CountFailed(t) \/ ReadRate(t)
             \/ Degrade(t) \/ RaceOver(t) \/ RaceTimeout(t) \/ Visit(t) \/ SetStatus(t)
      PROVE  job' = job
  BY <1>7 DEF StartSelect, StartGather, StartNames, StartCheck, Gather, Name, Lookup, Select,
              RoundRobin, Execute, Record, CountFailed, ReadRate, Degrade, RaceOver,
              RaceTimeout, Visit, SetStatus
<1>8. ASSUME NEW t \in Threads, NEW p \in Providers, Register(t, p) \/ Unregister(t, p)
      PROVE  job' = job
  BY <1>8 DEF Register, Unregister
<1>9. CASE UNCHANGED vars
  BY <1>2, <1>9 DEF vars
<1> QED BY <1>1, <1>2, <1>3, <1>4, <1>5, <1>6, <1>7, <1>8, <1>9, StartJobRuns DEF Next, CallStep

\* The types are those of the initial state,
LEMMA InitFits == Init => TInv
<1> SUFFICES ASSUME Init PROVE TInv
  OBVIOUS
<1>1. ThreadOK
  <2>1. Idle("none") \in ThreadType /\ Idle("none").pc = "idle"
    BY IdleLocals DEF Results
  <2>2. PICK r : r = Idle("none")
    OBVIOUS
  <2>3. thread = [t \in Threads |-> r]
    BY <2>2 DEF Init
  <2> QED BY <2>1, <2>2, <2>3 DEF ThreadOK, Choosing
<1>2. ListOK
  <2>1. registry = << >>
    BY DEF Init
  <2> QED BY <2>1 DEF ListOK, IsInjective
<1>3. NumbersOK
  BY DEF Init, NumbersOK
<1>4. RunningOK
  <2>1. job = [c \in 1 .. MaxCalls |-> NoJobs]
    BY DEF Init
  <2>2. Jobs("running") = {}
    BY <2>1 DEF Jobs, NoJobs
  <2>3. IsFiniteSet({}) /\ Cardinality({}) = 0 /\ 0 <= Workers
    BY FS_EmptySet, RouterCoreAssumption
  <2> QED BY <2>2, <2>3 DEF RunningOK
<1> QED BY <1>1, <1>2, <1>3, <1>4 DEF TInv

\* and every step keeps them.
LEMMA Fit == Spec => [](IInv /\ TInv)
<1>1. Init => IInv /\ TInv
  BY InitInv, InitFits
<1>2. IInv /\ TInv /\ [Next]_vars => (IInv /\ TInv)'
  BY StepInv, ThreadsFit, ListFits, NumbersFit, RunningFits DEF TInv
<1> QED BY <1>1, <1>2, PTL DEF Spec

\* Every variable has its type, whatever the threads do to the dictionary of
\* providers while others route, race and check: a round robin finds an entry
\* at its index, a health check the provider that it visits, and the executor
\* never runs more jobs than max_workers.
THEOREM TypesHold == Spec => []TypeOK
<1>1. IInv /\ TInv => TypeOK
  BY DEF IInv, TInv, Types, ThreadOK, ListOK, NumbersOK, RunningOK, TypeOK, JobStates
<1> QED BY <1>1, Fit, PTL

-----------------------------------------------------------------------------
(* The counters                                                            *)

\* Elements for n of each provider's requests or failures.
Units(n) == UNION {{p} \X (1 .. n[p]) : p \in Providers}

\* One more of one provider is one element more.
LEMMA OneUnitMore ==
  ASSUME NEW n \in [Providers -> Nat], NEW m, NEW p \in Providers,
         m = [n EXCEPT ![p] = @ + 1], IsFiniteSet(Units(n))
  PROVE  IsFiniteSet(Units(m)) /\ Cardinality(Units(m)) = Cardinality(Units(n)) + 1
<1>1. m[p] = n[p] + 1 /\ \A q \in Providers : q # p => m[q] = n[q]
  OBVIOUS
<1>2. ASSUME NEW q \in Providers, NEW k
      PROVE  k \in 1 .. m[q] <=> k \in 1 .. n[q] \/ (q = p /\ k = n[p] + 1)
  <2>1. CASE q = p
    BY <1>1, <2>1
  <2>2. CASE q # p
    BY <1>1, <2>2
  <2> QED BY <2>1, <2>2
<1>3. Units(m) = Units(n) \cup {<<p, n[p] + 1>>}
  BY <1>2 DEF Units
<1>4. <<p, n[p] + 1>> \notin Units(n)
  BY DEF Units
<1> QED
  <2> DEFINE U == Units(n)
             x == <<p, n[p] + 1>>
  <2>1. IsFiniteSet(U) /\ x \notin U /\ Units(m) = U \cup {x}
    BY <1>3, <1>4
  <2> HIDE DEF U, x
  <2>2. IsFiniteSet(U \cup {x})
    BY <2>1, FS_AddElement
  <2>3. Cardinality(U \cup {x}) = Cardinality(U) + 1
    BY <2>1, FS_AddElement
  <2> QED BY <2>1, <2>2, <2>3 DEF U

\* The providers' counts, one function for each.
TotalOf  == [p \in Providers |-> provider[p].total]
FailedOf == [p \in Providers |-> provider[p].failed]

\* What the counters are compared with, by these functions.
LEMMA UnitsOfCounts == Requests = Units(TotalOf) /\ Failures = Units(FailedOf)
BY DEF Requests, Failures, Units, TotalOf, FailedOf

\* Whoever records has read the totals, which add up, and has written its
\* own additions to the totals before it writes them to its provider.
Adding ==
  /\ IsFiniteSet(Requests) /\ IsFiniteSet(Failures)
  /\ CountersAddUp
  /\ \A t \in Threads :
       /\ thread[t].pc = "count" =>
            /\ total = Cardinality(Requests) /\ failures = Cardinality(Failures)
            /\ thread[t].seen[1] = total /\ thread[t].seen[2] = failures
       /\ thread[t].pc = "count failed" =>
            total = Cardinality(Requests) /\ failures = Cardinality(Failures) + 1

\* The locals that a step of another thread leaves alone.
SameOrNotRecording ==
  \A t \in Threads : thread'[t] = thread[t] \/ thread'[t].pc \notin {"count", "count failed"}

\* A step that counts nothing and does not record afterwards.
LEMMA CountsNothing ==
  ASSUME Adding, SameCounts, total' = total, failures' = failures, lock' = lock,
         SameOrNotRecording
  PROVE  Adding'
<1>1. Requests' = Requests /\ Failures' = Failures
  BY DEF SameCounts, Requests, Failures
<1> HIDE DEF Requests, Failures
<1> QED BY <1>1 DEF Adding, CountersAddUp, SameOrNotRecording

\* The lock is taken, and the totals are read.
LEMMA RecordAdds ==
  ASSUME IInv, TInv, Adding, NEW t \in Threads, Record(t) PROVE Adding'
<1>1. /\ lock = Nobody /\ lock' = t /\ total' = total /\ failures' = failures
      /\ provider' = provider
  BY DEF Record, counts
<1>2. PICK now : now = <<total, failures, provider[thread[t].chosen].total,
                         provider[thread[t].chosen].failed>>
  OBVIOUS
<1>3. thread' = [thread EXCEPT ![t].pc = "count", ![t].seen = now]
  BY <1>2 DEF Record
<1>4. now[1] = total /\ now[2] = failures
  BY <1>2
<1>5. /\ thread'[t].pc = "count" /\ thread'[t].seen = now
      /\ \A u \in Threads \ {t} : thread'[u] = thread[u]
  <2>1. thread \in [Threads -> ThreadType]
    BY DEF TInv, ThreadOK
  <2> QED BY <1>3, <2>1 DEF ThreadType
<1>6. Requests' = Requests /\ Failures' = Failures
  BY <1>1 DEF Requests, Failures
<1>7. t # Nobody
  BY RouterCoreAssumption
<1> HIDE DEF Requests, Failures
<1>8. CountersAddUp'
  BY <1>1, <1>7 DEF CountersAddUp
<1>9. total = Cardinality(Requests) /\ failures = Cardinality(Failures)
  BY <1>1 DEF Adding, CountersAddUp
<1> QED BY <1>1, <1>4, <1>5, <1>6, <1>8, <1>9 DEF Adding

\* Where Recorded goes on, nobody records.
LEMMA RecordedGoesOn ==
  ASSUME IInv, NEW t \in Threads, Recorded(t)
  PROVE  thread'[t].pc \notin {"count", "count failed"} /\ Others(t)
<1>1. Shaped
  BY DEF IInv, Types
<1>2. CASE Return(t, "ok")
  BY <1>1, <1>2, ReturnLocals DEF Results, Others
<1>3. ASSUME NEW pc \in {"race", "rate"}, Go(t, pc)
      PROVE  thread'[t].pc \notin {"count", "count failed"} /\ Others(t)
  <2>1. pc \in ThreadPcs
    BY DEF ThreadPcs
  <2> QED BY <1>1, <1>3, <2>1, GoLocals DEF Others
<1> QED BY <1>2, <1>3 DEF Recorded

\* Only one thread records at a time.
LEMMA OneRecords ==
  ASSUME IInv, NEW t \in Threads, NEW u \in Threads \ {t},
         thread[t].pc \in {"count", "count failed"}
  PROVE  thread[u].pc \notin {"count", "count failed"} /\ lock = t
BY DEF IInv, Recording, At

\* The totals and the provider's requests, and a failure's total, go up.
LEMMA CountAdds ==
  ASSUME IInv, TInv, Adding, NEW t \in Threads, Count(t) PROVE Adding'
<1>1. thread[t].pc = "count" /\ thread \in [Threads -> ThreadType]
  BY DEF Count, At, TInv, ThreadOK
<1>2. PICK p \in Providers : p = thread[t].chosen
  BY <1>1 DEF TInv, ThreadOK, Choosing
<1>3. /\ total = Cardinality(Requests) /\ failures = Cardinality(Failures)
      /\ thread[t].seen[1] = total /\ thread[t].seen[2] = failures
  BY <1>1 DEF Adding
<1>4. thread[t].seen[3] = provider[p].total
  BY <1>1, <1>2 DEF IInv, Recording, At
<1>5. /\ total' = total + 1
      /\ provider' = [provider EXCEPT ![p].total = provider[p].total + 1]
  BY <1>2, <1>3, <1>4 DEF Count
<1>6. provider \in [Providers -> [status : Statuses, total : Nat, failed : Nat]]
  BY DEF IInv, Types
<1>7. TotalOf \in [Providers -> Nat] /\ TotalOf' = [TotalOf EXCEPT ![p] = @ + 1]
      /\ FailedOf' = FailedOf
  BY <1>5, <1>6 DEF TotalOf, FailedOf
<1>8. IsFiniteSet(Units(TotalOf)) /\ IsFiniteSet(Units(FailedOf))
  BY UnitsOfCounts DEF Adding
<1>9. /\ IsFiniteSet(Units(TotalOf')) /\ Cardinality(Units(TotalOf')) = Cardinality(Units(TotalOf)) + 1
  <2>1. PICK n \in [Providers -> Nat] : n = TotalOf
    BY <1>7
  <2>2. PICK m : m = TotalOf'
    OBVIOUS
  <2>3. m = [n EXCEPT ![p] = @ + 1] /\ IsFiniteSet(Units(n))
    BY <1>7, <1>8, <2>1, <2>2
  <2>4. IsFiniteSet(Units(m)) /\ Cardinality(Units(m)) = Cardinality(Units(n)) + 1
    BY <2>3, OneUnitMore
  <2> QED BY <2>1, <2>2, <2>4
<1>10. Requests' = Units(TotalOf') /\ Failures' = Units(FailedOf')
  BY DEF Requests, Failures, Units, TotalOf, FailedOf
<1>11. /\ IsFiniteSet(Requests') /\ IsFiniteSet(Failures') /\ Failures' = Failures
       /\ total' = Cardinality(Requests')
  <2> HIDE DEF Requests, Failures
  <2> QED BY <1>3, <1>5, <1>7, <1>8, <1>9, <1>10, UnitsOfCounts
<1>12. CASE thread[t].ok
  <2>1. failures' = failures /\ lock' = Nobody /\ Recorded(t)
    BY <1>12 DEF Count
  <2>2. \A u \in Threads : thread'[u].pc \notin {"count", "count failed"}
    BY <1>1, <2>1, RecordedGoesOn, OneRecords DEF Others
  <2> HIDE DEF Requests, Failures
  <2> QED BY <1>3, <1>11, <2>1, <2>2 DEF Adding, CountersAddUp
<1>13. CASE ~thread[t].ok
  <2>1. failures' = failures + 1 /\ lock' = lock /\ Go(t, "count failed")
    BY <1>3, <1>13 DEF Count
  <2>2. thread'[t].pc = "count failed" /\ \A u \in Threads \ {t} : thread'[u] = thread[u]
    BY <1>1, <2>1 DEF Go, ThreadType
  <2>3. \A u \in Threads \ {t} : thread'[u].pc \notin {"count", "count failed"}
    BY <1>1, <2>2, OneRecords
  <2>4. t # Nobody /\ lock' = t
    BY <1>1, <2>1, RouterCoreAssumption DEF IInv, Recording, At
  <2> HIDE DEF Requests, Failures
  <2> QED BY <1>3, <1>11, <2>1, <2>2, <2>3, <2>4 DEF Adding, CountersAddUp
<1> QED BY <1>12, <1>13

\* The provider's failures follow, and the lock is given back.
LEMMA CountFailedAdds ==
  ASSUME IInv, TInv, Adding, NEW t \in Threads, CountFailed(t) PROVE Adding'
<1>1. thread[t].pc = "count failed"
  BY DEF CountFailed, At
<1>2. PICK p \in Providers : p = thread[t].chosen
  BY <1>1 DEF TInv, ThreadOK, Choosing
<1>3. total = Cardinality(Requests) /\ failures = Cardinality(Failures) + 1
  BY <1>1 DEF Adding
<1>4. thread[t].seen[4] = provider[p].failed
  BY <1>1, <1>2 DEF IInv, Recording, At
<1>5. /\ provider' = [provider EXCEPT ![p].failed = provider[p].failed + 1]
      /\ total' = total /\ failures' = failures /\ lock' = Nobody /\ Recorded(t)
  BY <1>2, <1>4 DEF CountFailed
<1>6. provider \in [Providers -> [status : Statuses, total : Nat, failed : Nat]]
  BY DEF IInv, Types
<1>7. FailedOf \in [Providers -> Nat] /\ FailedOf' = [FailedOf EXCEPT ![p] = @ + 1]
      /\ TotalOf' = TotalOf
  BY <1>5, <1>6 DEF TotalOf, FailedOf
<1>8. IsFiniteSet(Units(TotalOf)) /\ IsFiniteSet(Units(FailedOf))
  BY UnitsOfCounts DEF Adding
<1>9. IsFiniteSet(Units(FailedOf')) /\ Cardinality(Units(FailedOf')) = Cardinality(Units(FailedOf)) + 1
  <2>1. PICK n \in [Providers -> Nat] : n = FailedOf
    BY <1>7
  <2>2. PICK m : m = FailedOf'
    OBVIOUS
  <2>3. m = [n EXCEPT ![p] = @ + 1] /\ IsFiniteSet(Units(n))
    BY <1>7, <1>8, <2>1, <2>2
  <2>4. IsFiniteSet(Units(m)) /\ Cardinality(Units(m)) = Cardinality(Units(n)) + 1
    BY <2>3, OneUnitMore
  <2> QED BY <2>1, <2>2, <2>4
<1>10. Requests' = Units(TotalOf') /\ Failures' = Units(FailedOf')
  BY DEF Requests, Failures, Units, TotalOf, FailedOf
<1>11. /\ IsFiniteSet(Requests') /\ IsFiniteSet(Failures')
       /\ total' = Cardinality(Requests') /\ failures' = Cardinality(Failures')
  <2> HIDE DEF Requests, Failures
  <2> QED BY <1>3, <1>5, <1>7, <1>8, <1>9, <1>10, UnitsOfCounts
<1>12. \A u \in Threads : thread'[u].pc \notin {"count", "count failed"}
  BY <1>1, <1>5, RecordedGoesOn, OneRecords DEF Others
<1> HIDE DEF Requests, Failures
<1> QED BY <1>11, <1>12 DEF Adding, CountersAddUp

\* A thread's new locals are not those of a recording.
LEMMA NotRecording ==
  ASSUME TInv, NEW t \in Threads, NEW new, new.pc \notin {"count", "count failed"},
         thread' = [thread EXCEPT ![t] = new]
  PROVE  SameOrNotRecording
BY DEF TInv, ThreadOK, SameOrNotRecording

\* Nor are those of a call that is over.
LEMMA ReturnNotRecording ==
  ASSUME TInv, NEW t \in Threads, NEW r \in Results, Return(t, r) PROVE SameOrNotRecording
<1>1. Idle(r).pc \notin {"count", "count failed"}
  BY IdleLocals
<1> QED BY <1>1, NotRecording DEF Return

\* The steps of a call outside its recording.
LEMMA QuietCallAdds ==
  ASSUME IInv, TInv, Adding, NEW t \in Threads,
         \/ RoundRobin(t) \/ Execute(t) \/ ReadRate(t) \/ Degrade(t) \/ TakeResult(t)
         \/ RaceOver(t) \/ RaceTimeout(t) \/ Visit(t) \/ SetStatus(t)
  PROVE  Adding'
<1>1. thread \in [Threads -> ThreadType]
  BY DEF TInv, ThreadOK
<1>2. total' = total /\ failures' = failures /\ lock' = lock
  BY DEF RoundRobin, Execute, ReadRate, Degrade, TakeResult, RaceOver, RaceTimeout, Visit,
         SetStatus, counts
<1>3. SameCounts
  <2>1. CASE Degrade(t)
    BY <2>1, StatusStays DEF Degrade, Statuses
  <2>2. CASE SetStatus(t)
    <3>1. thread[t].grade \in Statuses
      BY <1>1 DEF ThreadType
    <3> QED BY <2>2, <3>1, StatusStays DEF SetStatus
  <2>3. CASE provider' = provider
    BY <2>3, CountsStay
  <2> QED BY <2>1, <2>2, <2>3
        DEF RoundRobin, Execute, ReadRate, TakeResult, RaceOver, RaceTimeout, Visit, counts
<1>4. CallStep(t)
  BY DEF CallStep
<1>5. \A u \in Threads \ {t} : thread'[u] = thread[u]
  BY <1>4, OwnLocals
<1>6. thread'[t].pc \notin {"count", "count failed"}
  <2>1. CASE RoundRobin(t)
    BY <1>1, <2>1 DEF RoundRobin, ThreadType
  <2>2. CASE Execute(t)
    BY <1>1, <2>2 DEF Execute, ThreadType
  <2>3. CASE TakeResult(t)
    <3>1. PICK p, ok : thread' = [thread EXCEPT ![t].pc = "record", ![t].chosen = p, ![t].ok = ok]
      BY <2>3 DEF TakeResult
    <3> QED BY <1>1, <3>1 DEF ThreadType
  <2>4. ASSUME NEW r \in Results, Return(t, r) PROVE thread'[t].pc \notin {"count", "count failed"}
    BY <1>1, <2>4, IdleLocals DEF Return
  <2>5. ASSUME NEW pc \in {"degrade", "visit"}, Go(t, pc)
        PROVE  thread'[t].pc \notin {"count", "count failed"}
    BY <1>1, <2>5 DEF Go, ThreadType
  <2>6. CASE Visit(t)
    <3>1. ASSUME NEW p, NEW list, NEW g,
                 thread' = [thread EXCEPT ![t].pc = "grade", ![t].chosen = p, ![t].list = list,
                                          ![t].grade = g]
          PROVE  thread'[t].pc \notin {"count", "count failed"}
      BY <1>1, <3>1 DEF ThreadType
    <3>2. PICK p, list, g : p = Head(thread[t].list) /\ list = Tail(thread[t].list)
                            /\ g = Grade(Head(thread[t].list))
      OBVIOUS
    <3>3. \/ Return(t, "raised") \/ Return(t, "checked")
          \/ thread' = [thread EXCEPT ![t].pc = "grade", ![t].chosen = p, ![t].list = list,
                                      ![t].grade = g]
      BY <2>6, <3>2 DEF Visit
    <3> QED BY <2>4, <3>1, <3>3 DEF Results
  <2>7. CASE ReadRate(t)
    BY <2>4, <2>5, <2>7 DEF ReadRate, Results
  <2>8. CASE Degrade(t) \/ RaceOver(t) \/ RaceTimeout(t)
    BY <2>4, <2>8 DEF Degrade, RaceOver, RaceTimeout, Results
  <2>9. CASE SetStatus(t)
    BY <2>5, <2>9 DEF SetStatus
  <2> QED BY <2>1, <2>2, <2>3, <2>6, <2>7, <2>8, <2>9
<1> QED BY <1>2, <1>3, <1>5, <1>6, CountsNothing DEF SameOrNotRecording

\* A call begins.
LEMMA BeginAdds ==
  ASSUME IInv, TInv, Adding, NEW t \in Threads,
         StartSelect(t) \/ StartGather(t) \/ StartNames(t) \/ StartCheck(t)
  PROVE  Adding'
<1>1. total' = total /\ failures' = failures /\ lock' = lock /\ provider' = provider
  BY DEF StartSelect, StartGather, StartNames, StartCheck, counts
<1>2. PICK r \in ThreadType : r = Idle("none")
  BY IdleLocals DEF Results
<1>3. ASSUME NEW new, new.pc \notin {"count", "count failed"}, thread' = [thread EXCEPT ![t] = new]
      PROVE  SameOrNotRecording
  BY <1>3, NotRecording
<1>4. ASSUME NEW pc \in {"select", "gather", "visit"}, NEW n, NEW list, NEW size,
             thread' = [thread EXCEPT ![t] =
               [r EXCEPT !.pc = pc, !.race = n, !.list = list, !.size = size]]
      PROVE  SameOrNotRecording
  <2>1. PICK new : new = [r EXCEPT !.pc = pc, !.race = n, !.list = list, !.size = size]
    OBVIOUS
  <2>2. new.pc \notin {"count", "count failed"}
    BY <1>2, <2>1 DEF ThreadType
  <2> QED BY <1>3, <1>4, <2>1, <2>2
<1>5. ASSUME NEW n, NEW list,
             thread' = [thread EXCEPT ![t] = [r EXCEPT !.pc = "name", !.race = n, !.list = list]]
      PROVE  SameOrNotRecording
  <2>1. PICK new : new = [r EXCEPT !.pc = "name", !.race = n, !.list = list]
    OBVIOUS
  <2>2. new.pc \notin {"count", "count failed"}
    BY <1>2, <2>1 DEF ThreadType
  <2> QED BY <1>3, <1>5, <2>1, <2>2
<1>6. ASSUME NEW pc \in {"select", "gather", "visit"}, NEW n, Loop(t, pc, n)
      PROVE  SameOrNotRecording
  <2>1. PICK list, size : list = registry /\ size = Len(registry)
    OBVIOUS
  <2>2. thread' = [thread EXCEPT ![t] =
          [r EXCEPT !.pc = pc, !.race = n, !.list = list, !.size = size]]
    BY <1>2, <1>6, <2>1 DEF Loop
  <2> QED BY <1>4, <2>2
<1>7. SameOrNotRecording
  <2>1. CASE StartNames(t)
    <3>1. PICK n : n = calls'
      OBVIOUS
    <3>2. PICK list :
            thread' = [thread EXCEPT ![t] = [r EXCEPT !.pc = "name", !.race = n, !.list = list]]
      BY <1>2, <2>1, <3>1 DEF StartNames
    <3> QED BY <1>5, <3>2
  <2>2. CASE StartSelect(t) \/ StartGather(t) \/ StartCheck(t)
    BY <1>6, <2>2 DEF StartSelect, StartGather, StartCheck
  <2> QED BY <2>1, <2>2
<1> QED BY <1>1, <1>7, CountsNothing, CountsStay

\* A call that looks for providers, and goes on with what it has found,
\* records nothing.
LEMMA WalkNotRecording ==
  ASSUME TInv, NEW t \in Threads,
         \/ Gather(t, "select") \/ Gather(t, "gather") \/ Name(t) \/ Lookup(t)
         \/ Select(t) \/ StartRace(t)
  PROVE  SameOrNotRecording
<1>1. PICK i \in ThreadType : i = Idle("none")
  BY IdleLocals DEF Results
<1>2. PICK r \in ThreadType : r = thread[t]
  BY DEF TInv, ThreadOK
<1>3. ASSUME NEW new, new.pc \notin {"count", "count failed"}, thread' = [thread EXCEPT ![t] = new]
      PROVE  SameOrNotRecording
  BY <1>3, NotRecording
<1>4. ASSUME NEW result \in Results, Return(t, result) PROVE SameOrNotRecording
  BY <1>4, ReturnNotRecording
<1>5. "raised" \in Results /\ "none available" \in Results
  BY DEF Results
<1>6. ASSUME NEW pc \in {"select", "gather", "name"}, Find(t, pc) PROVE SameOrNotRecording
  <2>1. PICK l, f : thread' = [thread EXCEPT ![t].pc = pc, ![t].list = l, ![t].found = f]
    BY <1>6 DEF Find
  <2>2. PICK new : new = [r EXCEPT !.pc = pc, !.list = l, !.found = f]
    OBVIOUS
  <2>3. new.pc \notin {"count", "count failed"}
    BY <2>2 DEF ThreadType
  <2>4. thread' = [thread EXCEPT ![t] = new]
    BY <1>2, <2>1, <2>2
  <2> QED BY <1>3, <2>3, <2>4
<1>7. CASE Gather(t, "select") \/ Gather(t, "gather")
  BY <1>4, <1>5, <1>6, <1>7 DEF Gather
<1>8. CASE Lookup(t)
  BY <1>4, <1>5, <1>6, <1>8 DEF Lookup
<1>9. CASE Name(t)
  <2>1. r.pc = "name"
    BY <1>2, <1>9 DEF Name, At
  <2>2. PICK l : l = Tail(thread[t].list)
    OBVIOUS
  <2>3. PICK goes, skips : goes = [r EXCEPT !.pc = "lookup"] /\ skips = [r EXCEPT !.list = l]
    OBVIOUS
  <2>4. goes.pc \notin {"count", "count failed"} /\ skips.pc \notin {"count", "count failed"}
    BY <2>1, <2>3 DEF ThreadType
  <2>5. thread' = [thread EXCEPT ![t] = goes] \/ thread' = [thread EXCEPT ![t] = skips]
    BY <1>2, <1>9, <2>2, <2>3 DEF Name, Go
  <2> QED BY <1>3, <2>4, <2>5
<1>10. CASE Select(t)
  <2>1. ASSUME NEW p, thread' = [thread EXCEPT ![t] = [i EXCEPT !.pc = "execute", !.chosen = p]]
        PROVE  SameOrNotRecording
    <3>1. PICK new : new = [i EXCEPT !.pc = "execute", !.chosen = p]
      OBVIOUS
    <3>2. new.pc \notin {"count", "count failed"}
      BY <3>1 DEF ThreadType
    <3> QED BY <1>3, <2>1, <3>1, <3>2
  <2>2. ASSUME NEW f, thread' = [thread EXCEPT ![t] = [i EXCEPT !.pc = "round robin", !.found = f]]
        PROVE  SameOrNotRecording
    <3>1. PICK new : new = [i EXCEPT !.pc = "round robin", !.found = f]
      OBVIOUS
    <3>2. new.pc \notin {"count", "count failed"}
      BY <3>1 DEF ThreadType
    <3> QED BY <1>3, <2>2, <3>1, <3>2
  <2> QED BY <1>1, <1>4, <1>5, <1>10, <2>1, <2>2 DEF Select
<1>11. CASE StartRace(t)
  <2>1. ASSUME NEW n, thread' = [thread EXCEPT ![t] = [i EXCEPT !.pc = "race", !.race = n]]
        PROVE  SameOrNotRecording
    <3>1. PICK new : new = [i EXCEPT !.pc = "race", !.race = n]
      OBVIOUS
    <3>2. new.pc \notin {"count", "count failed"}
      BY <3>1 DEF ThreadType
    <3> QED BY <1>3, <2>1, <3>1, <3>2
  <2> QED BY <1>1, <1>4, <1>5, <1>11, <2>1 DEF StartRace
<1> QED BY <1>7, <1>8, <1>9, <1>10, <1>11

\* So the counters still add up.
LEMMA WalkAdds ==
  ASSUME IInv, TInv, Adding, NEW t \in Threads,
         \/ Gather(t, "select") \/ Gather(t, "gather") \/ Name(t) \/ Lookup(t)
         \/ Select(t) \/ StartRace(t)
  PROVE  Adding'
<1>1. total' = total /\ failures' = failures /\ lock' = lock /\ provider' = provider
  BY DEF Gather, Name, Lookup, Select, StartRace, counts
<1> QED BY <1>1, WalkNotRecording, CountsNothing, CountsStay

\* Every step keeps the counters in agreement.
LEMMA StepAdds ==
  ASSUME IInv, TInv, Adding, [Next]_vars PROVE Adding'
<1>1. ASSUME UNCHANGED <<provider, total, failures, lock, thread>> PROVE Adding'
  BY <1>1, CountsNothing, CountsStay DEF SameOrNotRecording
<1>2. ASSUME NEW t \in Threads, CallStep(t) PROVE Adding'
  BY <1>2, RecordAdds, CountAdds, CountFailedAdds, QuietCallAdds, WalkAdds DEF CallStep
<1>3. ASSUME NEW t \in Threads, NEW p \in Providers, Register(t, p) \/ Unregister(t, p)
      PROVE  Adding'
  BY <1>1, <1>3 DEF Register, Unregister, counts
<1>4. ASSUME NEW c \in 1 .. MaxCalls, NEW p \in Providers, StartJob(c, p) \/ EndJob(c, p)
      PROVE  Adding'
  BY <1>1, <1>4 DEF StartJob, EndJob, counts
<1>5. CASE UNCHANGED vars
  BY <1>1, <1>5 DEF vars, counts
<1> QED BY <1>2, <1>3, <1>4, <1>5, BeginAdds DEF Next

\* Nothing has been counted at first.
LEMMA InitAdds == Init => Adding
<1> SUFFICES ASSUME Init PROVE Adding
  OBVIOUS
<1>1. provider = [p \in Providers |-> [status |-> "healthy", total |-> 0, failed |-> 0]]
      /\ total = 0 /\ failures = 0
  BY DEF Init
<1>2. Requests = {} /\ Failures = {}
  BY <1>1 DEF Requests, Failures
<1>3. \A t \in Threads : thread[t].pc = "idle"
  <2>1. PICK r : r = Idle("none")
    OBVIOUS
  <2>2. r.pc = "idle" /\ thread = [t \in Threads |-> r]
    BY <2>1, IdleLocals DEF Init, Results
  <2> QED BY <2>2
<1> QED BY <1>1, <1>2, <1>3, FS_EmptySet DEF Adding, CountersAddUp

\* Whenever the lock is free the router's totals are the sums of its
\* providers' counts: no interleaving of _record_result with itself, with the
\* races, the health checks and the changes of the dictionary counts a result
\* twice or loses one.
THEOREM TotalsAddUp == Spec => []CountersAddUp
<1>1. Init => IInv /\ TInv /\ Adding
  BY InitInv, InitFits, InitAdds
<1>2. IInv /\ TInv /\ Adding /\ [Next]_vars => (IInv /\ TInv /\ Adding)'
  BY StepInv, ThreadsFit, ListFits, NumbersFit, RunningFits, StepAdds DEF TInv
<1>3. Adding => CountersAddUp
  BY DEF Adding
<1> QED BY <1>1, <1>2, <1>3, PTL DEF Spec

=============================================================================
