-------------------------- MODULE RouterCore_proofs --------------------------
(***************************************************************************)
(* Proofs about the threaded router core, for any number of threads,       *)
(* providers, workers and calls.                                           *)
(***************************************************************************)
EXTENDS RouterCore, TLAPS

\* The locals of a thread, with sets for those that the proof says nothing of:
\* lists of providers, and what was taken from one.
Locals(C, S, L, Z) ==
  [pc : ThreadPcs, race : 0 .. MaxCalls, chosen : C, ok : BOOLEAN, seen : S, list : L,
   size : Z, found : L, grade : Statuses, result : Results]

IsLocals(r) == \E C, S, L, Z : r \in Locals(C, S, L, Z)

Shaped == \E C, S, L, Z : thread \in [Threads -> Locals(C, S, L, Z)]

JobStates == {"none", "queued", "running", "ok", "raised", "won", "lost", "cancelled"}

Types ==
  /\ Shaped
  /\ provider \in [Providers -> [status : Statuses, total : Nat, failed : Nat]]
  /\ job \in [1 .. MaxCalls -> [Providers -> JobStates]]
  /\ calls \in 0 .. MaxCalls

\* Who writes counts has the lock, and what it has read of its provider's
\* counts is what they are.
Recording ==
  \A t \in Threads :
    LET p == thread[t].chosen IN
    /\ At(t, "count") \/ At(t, "count failed") => lock = t
    /\ At(t, "count") /\ p \in Providers =>
         thread[t].seen[3] = provider[p].total /\ thread[t].seen[4] = provider[p].failed
    /\ At(t, "count failed") /\ p \in Providers =>
         thread[t].seen[4] = provider[p].failed /\ provider[p].failed < provider[p].total

\* Where route_race looks for the racers.
Walks == {"gather", "name", "lookup"}

\* A race belongs to one call, and from the submission of its jobs until that
\* call has found a winner none of them has won or was cancelled.
Races ==
  /\ \A t \in Threads :
       /\ thread[t].race <= calls
       /\ ~At(t, "idle") => thread[t].result = "none"
       /\ At(t, "race") => thread[t].race # 0 /\ ~thread[t].ok
       /\ thread[t].pc \in Walks => thread[t].race # 0 /\ ~thread[t].ok
       /\ thread[t].pc \in {"select", "round robin", "execute"} => thread[t].race = 0
       /\ thread[t].race # 0 /\ ~thread[t].ok /\ thread[t].pc \notin Walks =>
            \A p \in Providers : job[thread[t].race][p] \notin {"won", "cancelled"}
  /\ \A t, u \in Threads : t # u /\ thread[t].race # 0 => thread[t].race # thread[u].race

IInv == Types /\ Recording /\ Races /\ RateAtMostOne

-----------------------------------------------------------------------------
(* What the actions do to the locals                                       *)

\* What is not zero numbers a call.
LEMMA NumbersACall ==
  ASSUME NEW n \in 0 .. MaxCalls, n # 0 PROVE n \in 1 .. MaxCalls
BY RouterCoreAssumption

\* One thread's locals are replaced.
LEMMA SetLocals ==
  ASSUME Shaped, NEW t \in Threads, NEW new, IsLocals(new),
         thread' = [thread EXCEPT ![t] = new]
  PROVE  Shaped' /\ thread'[t] = new /\ \A u \in Threads \ {t} : thread'[u] = thread[u]
<1>1. PICK C, S, L, Z : thread \in [Threads -> Locals(C, S, L, Z)]
  BY DEF Shaped
<1>1a. PICK C1, S1, L1, Z1 : new \in Locals(C1, S1, L1, Z1)
  BY DEF IsLocals
<1> DEFINE More == Locals(C \cup C1, S \cup S1, L \cup L1, Z \cup Z1)
<1>2. Locals(C, S, L, Z) \subseteq More /\ new \in More
  BY <1>1a DEF Locals
<1>3. thread' \in [Threads -> More]
  <2> HIDE DEF More
  <2> QED BY <1>1, <1>2
<1>4. Shaped'
  BY <1>3 DEF Shaped
<1>5. thread'[t] = new /\ \A u \in Threads \ {t} : thread'[u] = thread[u]
  BY <1>1
<1> QED BY <1>4, <1>5

\* A thread's locals are those of its record.
LEMMA HasLocals ==
  ASSUME Shaped, NEW t \in Threads
  PROVE  /\ thread[t] = [pc |-> thread[t].pc, race |-> thread[t].race,
              chosen |-> thread[t].chosen, ok |-> thread[t].ok, seen |-> thread[t].seen,
              list |-> thread[t].list, size |-> thread[t].size, found |-> thread[t].found,
              grade |-> thread[t].grade, result |-> thread[t].result]
         /\ thread[t].pc \in ThreadPcs /\ thread[t].race \in 0 .. MaxCalls
         /\ thread[t].ok \in BOOLEAN /\ thread[t].grade \in Statuses
         /\ thread[t].result \in Results
BY DEF Shaped, Locals

\* Go sets the program counter and nothing else.
LEMMA GoLocals ==
  ASSUME Shaped, NEW t \in Threads, NEW pc \in ThreadPcs, Go(t, pc)
  PROVE  /\ Shaped'
         /\ thread'[t].pc = pc /\ thread'[t].race = thread[t].race
         /\ thread'[t].chosen = thread[t].chosen /\ thread'[t].ok = thread[t].ok
         /\ thread'[t].seen = thread[t].seen /\ thread'[t].result = thread[t].result
         /\ \A u \in Threads \ {t} : thread'[u] = thread[u]
<1>1. PICK C, S, L, Z : thread \in [Threads -> Locals(C, S, L, Z)]
  BY DEF Shaped
<1>2. /\ thread' \in [Threads -> Locals(C, S, L, Z)]
      /\ thread'[t].pc = pc /\ thread'[t].race = thread[t].race
      /\ thread'[t].chosen = thread[t].chosen /\ thread'[t].ok = thread[t].ok
      /\ thread'[t].seen = thread[t].seen /\ thread'[t].result = thread[t].result
      /\ \A u \in Threads \ {t} : thread'[u] = thread[u]
  BY <1>1 DEF Go, Locals
<1> QED BY <1>2 DEF Shaped

\* Return makes the thread idle, with a result and no race.
LEMMA ReturnLocals ==
  ASSUME Shaped, NEW t \in Threads, NEW r \in Results, Return(t, r)
  PROVE  /\ Shaped'
         /\ thread'[t].pc = "idle" /\ thread'[t].race = 0 /\ thread'[t].result = r
         /\ \A u \in Threads \ {t} : thread'[u] = thread[u]
<1>1. Idle(r) \in Locals({Nobody}, {<<0, 0, 0, 0>>}, {<< >>}, {0})
  BY RouterCoreAssumption DEF Idle, Locals, ThreadPcs, Statuses
<1>2. Idle(r).pc = "idle" /\ Idle(r).race = 0 /\ Idle(r).result = r
  BY DEF Idle
<1>3. thread' = [thread EXCEPT ![t] = Idle(r)]
  BY DEF Return
<1>4. IsLocals(Idle(r))
  BY <1>1 DEF IsLocals
<1> QED BY <1>2, <1>3, <1>4, SetLocals

-----------------------------------------------------------------------------
(* What keeps the parts of the invariant                                   *)

Others(t) == \A u \in Threads \ {t} : thread'[u] = thread[u]

\* A step of a thread that starts no race.
RaceLocals(t) ==
  /\ thread'[t].race \in {0, thread[t].race}
  /\ thread'[t].pc # "idle" => thread'[t].result = "none"
  /\ thread'[t].pc = "race" => thread'[t].race # 0 /\ ~thread'[t].ok
  /\ thread'[t].pc \in Walks => thread'[t].race # 0 /\ ~thread'[t].ok
  /\ thread'[t].pc \in {"select", "round robin", "execute"} => thread'[t].race = 0
  /\ thread'[t].race # 0 /\ ~thread'[t].ok => ~thread[t].ok

\* A step that submits no jobs.
SubmitsNone(t) ==
  thread'[t].race # 0 /\ thread'[t].pc \notin Walks => thread[t].pc \notin Walks

\* No job wins or is cancelled in a race that has no winner yet.
NoNewWinners ==
  \A u \in Threads : \A p \in Providers :
    /\ thread'[u].race # 0 /\ ~thread'[u].ok /\ thread'[u].pc \notin Walks
    /\ job'[thread'[u].race][p] \in {"won", "cancelled"}
    => job[thread'[u].race][p] \in {"won", "cancelled"} /\ thread[u].pc \notin Walks

\* Races is kept by a step that starts no race and decides none.
LEMMA RacesKept ==
  ASSUME Types, Types', Races, NEW t \in Threads, RaceLocals(t), Others(t),
         calls' >= calls, NoNewWinners
  PROVE  Races'
<1>1. \A u \in Threads : thread'[u].race \in {0, thread[u].race}
  BY DEF Others, RaceLocals
<1>2. \A u \in Threads : thread[u].race \in 0 .. MaxCalls /\ thread'[u].race \in 0 .. MaxCalls
  BY HasLocals DEF Types, Shaped, Locals
<1>3. ASSUME NEW u \in Threads
      PROVE  /\ thread'[u].race <= calls'
             /\ thread'[u].pc # "idle" => thread'[u].result = "none"
             /\ thread'[u].pc = "race" => thread'[u].race # 0 /\ ~thread'[u].ok
             /\ thread'[u].pc \in Walks => thread'[u].race # 0 /\ ~thread'[u].ok
             /\ thread'[u].pc \in {"select", "round robin", "execute"} => thread'[u].race = 0
  <2>1. thread'[u].race <= calls'
    <3>1. calls \in Nat /\ calls' \in Nat
      BY RouterCoreAssumption DEF Types
    <3>2. thread[u].race <= calls
      BY DEF Races
    <3> QED BY <1>1, <1>2, <3>1, <3>2
  <2>2. CASE u = t
    BY <2>1, <2>2 DEF RaceLocals
  <2>3. CASE u # t
    BY <2>1, <2>3 DEF Others, Races, At
  <2> QED BY <2>2, <2>3
<1>4. ASSUME NEW u \in Threads, thread'[u].race # 0, ~thread'[u].ok,
             thread'[u].pc \notin Walks, NEW p \in Providers
      PROVE  job'[thread'[u].race][p] \notin {"won", "cancelled"}
  <2>1. thread'[u].race = thread[u].race /\ ~thread[u].ok
    BY <1>1, <1>4 DEF Others, RaceLocals
  <2>2. thread[u].pc \notin Walks => job[thread'[u].race][p] \notin {"won", "cancelled"}
    BY <1>4, <2>1 DEF Races
  <2> QED BY <1>4, <2>2 DEF NoNewWinners
<1>5. \A u, v \in Threads : u # v /\ thread'[u].race # 0 => thread'[u].race # thread'[v].race
  BY <1>1 DEF Races
<1> QED BY <1>3, <1>4, <1>5 DEF Races, At

\* The counts of every provider.
SameCounts ==
  \A p \in Providers :
    provider'[p].total = provider[p].total /\ provider'[p].failed = provider[p].failed

\* Recording is kept by a step of a thread that is not recording afterwards.
LEMMA RecordingKept ==
  ASSUME Recording, NEW t \in Threads, Others(t), lock' = lock, SameCounts,
         thread'[t].pc \notin {"count", "count failed"}
  PROVE  Recording'
<1>1. ASSUME NEW u \in Threads \ {t}
      PROVE  LET p == thread'[u].chosen IN
             /\ thread'[u].pc \in {"count", "count failed"} => lock' = u
             /\ thread'[u].pc = "count" /\ p \in Providers =>
                  thread'[u].seen[3] = provider'[p].total /\ thread'[u].seen[4] = provider'[p].failed
             /\ thread'[u].pc = "count failed" /\ p \in Providers =>
                  thread'[u].seen[4] = provider'[p].failed /\ provider'[p].failed < provider'[p].total
  BY DEF Others, Recording, At, SameCounts
<1> QED BY <1>1 DEF Recording, At

\* A step that decides and counts nothing keeps the invariant.
LEMMA QuietStep ==
  ASSUME IInv, NEW t \in Threads, Shaped', RaceLocals(t), SubmitsNone(t), Others(t),
         thread'[t].pc \notin {"count", "count failed"},
         provider' \in [Providers -> [status : Statuses, total : Nat, failed : Nat]],
         SameCounts, lock' = lock, job' = job, calls' \in 0 .. MaxCalls, calls' >= calls
  PROVE  IInv'
<1>1. Types'
  BY DEF IInv, Types
<1>2. Races'
  <2>1. NoNewWinners
    BY DEF NoNewWinners, SubmitsNone, Others
  <2> QED BY <1>1, <2>1, RacesKept DEF IInv
<1>3. Recording'
  BY RecordingKept DEF IInv
<1>4. RateAtMostOne'
  BY DEF IInv, RateAtMostOne, SameCounts
<1> QED BY <1>1, <1>2, <1>3, <1>4 DEF IInv

-----------------------------------------------------------------------------
(* The actions                                                             *)

\* What the invariant says of one thread's locals.
LEMMA ThreadInv ==
  ASSUME IInv, NEW t \in Threads
  PROVE  /\ Shaped /\ IsLocals(thread[t])
         /\ ~At(t, "idle") => thread[t].result = "none"
         /\ At(t, "race") => thread[t].race # 0 /\ ~thread[t].ok
         /\ thread[t].pc \in Walks => thread[t].race # 0 /\ ~thread[t].ok
         /\ thread[t].pc \in {"select", "round robin", "execute"} => thread[t].race = 0
BY DEF IInv, Types, Races, Shaped, IsLocals

\* Return ends a call of route, route_race or health_check_all.
LEMMA ReturnKeeps ==
  ASSUME IInv, NEW t \in Threads, NEW r \in Results, Return(t, r),
         provider' \in [Providers -> [status : Statuses, total : Nat, failed : Nat]],
         SameCounts, lock' = lock, job' = job, calls' \in 0 .. MaxCalls, calls' >= calls
  PROVE  IInv'
<1>1. /\ Shaped' /\ Others(t)
      /\ thread'[t].pc = "idle" /\ thread'[t].race = 0
  BY ThreadInv, ReturnLocals DEF Others
<1>2. RaceLocals(t) /\ SubmitsNone(t)
  BY <1>1 DEF RaceLocals, SubmitsNone, Walks
<1> QED BY <1>1, <1>2, QuietStep

\* Go to a place where nothing is counted, raced or executed.
LEMMA GoKeeps ==
  ASSUME IInv, NEW t \in Threads, NEW pc \in {"rate", "degrade", "visit"}, Go(t, pc),
         ~At(t, "idle"), thread[t].pc \notin Walks,
         provider' \in [Providers -> [status : Statuses, total : Nat, failed : Nat]],
         SameCounts, lock' = lock, job' = job, calls' = calls
  PROVE  IInv'
<1>1. pc \in ThreadPcs
  BY DEF ThreadPcs
<1>2. /\ Shaped' /\ Others(t)
      /\ thread'[t].pc = pc /\ thread'[t].race = thread[t].race /\ thread'[t].ok = thread[t].ok
      /\ thread'[t].result = "none"
  BY <1>1, ThreadInv, GoLocals DEF Others
<1>3. RaceLocals(t) /\ SubmitsNone(t)
  BY <1>2 DEF RaceLocals, SubmitsNone, Walks
<1>4. calls \in 0 .. MaxCalls /\ calls >= calls
  BY RouterCoreAssumption DEF IInv, Types
<1> QED BY <1>2, <1>3, <1>4, QuietStep

\* What stays when nothing is said of the counts.
LEMMA CountsStay ==
  ASSUME IInv, provider' = provider
  PROVE  /\ provider' \in [Providers -> [status : Statuses, total : Nat, failed : Nat]]
         /\ SameCounts
BY DEF IInv, Types, SameCounts

\* A new status is no new count.
LEMMA StatusStays ==
  ASSUME IInv, NEW p, NEW s \in Statuses, provider' = [provider EXCEPT ![p].status = s]
  PROVE  /\ provider' \in [Providers -> [status : Statuses, total : Nat, failed : Nat]]
         /\ SameCounts
BY DEF IInv, Types, SameCounts

\* A call that begins is counted within the bound.
LEMMA BeginCounts ==
  ASSUME IInv, Begin
  PROVE  /\ calls' \in 1 .. MaxCalls /\ calls' = calls + 1 /\ calls \in Nat
         /\ calls' \in 0 .. MaxCalls /\ calls' >= calls
<1>1. calls \in 0 .. MaxCalls /\ MaxCalls \in Nat
  BY RouterCoreAssumption DEF IInv, Types
<1> QED BY <1>1 DEF Begin

\* Locals without a race replace those of a thread.
LEMMA RacelessKeeps ==
  ASSUME IInv, NEW t \in Threads, NEW new, IsLocals(new), thread' = [thread EXCEPT ![t] = new],
         new.pc \in {"select", "execute", "round robin", "visit"}, new.race = 0,
         new.result = "none", provider' = provider, lock' = lock, job' = job,
         calls' \in 0 .. MaxCalls, calls' >= calls
  PROVE  IInv'
<1>1. Shaped' /\ thread'[t] = new /\ Others(t)
  BY ThreadInv, SetLocals DEF Others
<1>2. RaceLocals(t) /\ SubmitsNone(t) /\ thread'[t].pc \notin {"count", "count failed"}
  BY <1>1 DEF RaceLocals, SubmitsNone, Walks
<1> QED BY <1>1, <1>2, CountsStay, QuietStep

\* The locals of an idle thread.
LEMMA IdleIsLocals ==
  /\ Idle("none") \in Locals({Nobody}, {<<0, 0, 0, 0>>}, {<< >>}, {0})
  /\ Idle("none").race = 0 /\ ~Idle("none").ok /\ Idle("none").result = "none"
BY RouterCoreAssumption DEF Idle, Locals, ThreadPcs, Statuses, Results

\* The locals of a thread that goes on with what it has found.
LEMMA IdleWith ==
  ASSUME NEW x
  PROVE  /\ LET new == [Idle("none") EXCEPT !.pc = "execute", !.chosen = x] IN
            IsLocals(new) /\ new.pc = "execute" /\ new.race = 0 /\ new.result = "none"
         /\ LET new == [Idle("none") EXCEPT !.pc = "round robin", !.found = x] IN
            IsLocals(new) /\ new.pc = "round robin" /\ new.race = 0 /\ new.result = "none"
<1> DEFINE r == Idle("none")
           executes == [r EXCEPT !.pc = "execute", !.chosen = x]
           turns    == [r EXCEPT !.pc = "round robin", !.found = x]
<1>1. r \in Locals({Nobody}, {<<0, 0, 0, 0>>}, {<< >>}, {0}) /\ r.race = 0 /\ r.result = "none"
  BY IdleIsLocals
<1> HIDE DEF r
<1>2. PICK C, S, L, Z : r \in Locals(C, S, L, Z)
  BY <1>1
<1>3. /\ executes \in Locals(C \cup {x}, S, L, Z)
      /\ executes.pc = "execute" /\ executes.race = 0 /\ executes.result = "none"
  BY <1>1, <1>2 DEF Locals, ThreadPcs
<1>4. /\ turns \in Locals(C, S, L \cup {x}, Z)
      /\ turns.pc = "round robin" /\ turns.race = 0 /\ turns.result = "none"
  BY <1>1, <1>2 DEF Locals, ThreadPcs
<1> HIDE DEF executes, turns
<1>5. IsLocals(executes) /\ IsLocals(turns)
  BY <1>3, <1>4 DEF IsLocals
<1> QED BY <1>3, <1>4, <1>5 DEF executes, turns, r

\* The locals with which a loop over the dictionary begins.
LEMMA LoopLocals ==
  ASSUME NEW t \in Threads, NEW pc \in {"select", "gather", "visit"}, NEW c \in 0 .. MaxCalls,
         Loop(t, pc, c)
  PROVE  \E new : /\ IsLocals(new) /\ new.pc = pc /\ new.race = c
                  /\ ~new.ok /\ new.result = "none"
                  /\ thread' = [thread EXCEPT ![t] = new]
<1>1. PICK r, x, y : r = Idle("none") /\ x = registry /\ y = Len(registry)
  OBVIOUS
<1>2. PICK C, S, L, Z : r \in Locals(C, S, L, Z)
  BY <1>1, IdleIsLocals
<1>3. ~r.ok /\ r.result = "none"
  BY <1>1, IdleIsLocals
<1> DEFINE new == [r EXCEPT !.pc = pc, !.race = c, !.list = x, !.size = y]
<1>4. /\ new \in Locals(C, S, L \cup {x}, Z \cup {y})
      /\ new.pc = pc /\ new.race = c /\ ~new.ok /\ new.result = "none"
  BY <1>2, <1>3 DEF Locals, ThreadPcs
<1>5. thread' = [thread EXCEPT ![t] = new]
  BY <1>1 DEF Loop
<1> HIDE DEF new
<1>6. IsLocals(new)
  BY <1>4 DEF IsLocals
<1> QED BY <1>4, <1>5, <1>6

\* The locals with which the loop over names begins.
LEMMA NamesLocals ==
  ASSUME NEW t \in Threads, NEW c \in 0 .. MaxCalls, c = calls', StartNames(t)
  PROVE  \E new : /\ IsLocals(new) /\ new.pc = "name" /\ new.race = c
                  /\ ~new.ok /\ new.result = "none"
                  /\ thread' = [thread EXCEPT ![t] = new]
<1>1. PICK r : r = Idle("none")
  OBVIOUS
<1>2. PICK names :
         thread' = [thread EXCEPT ![t] = [r EXCEPT !.pc = "name", !.race = c, !.list = names]]
  BY <1>1 DEF StartNames
<1>3. PICK C, S, L, Z : r \in Locals(C, S, L, Z)
  BY <1>1, IdleIsLocals
<1>4. ~r.ok /\ r.result = "none"
  BY <1>1, IdleIsLocals
<1> DEFINE new == [r EXCEPT !.pc = "name", !.race = c, !.list = names]
<1>5. /\ new \in Locals(C, S, L \cup {names}, Z)
      /\ new.pc = "name" /\ new.race = c /\ ~new.ok /\ new.result = "none"
  BY <1>3, <1>4 DEF Locals, ThreadPcs
<1>6. thread' = [thread EXCEPT ![t] = new]
  BY <1>2
<1> HIDE DEF new
<1>7. IsLocals(new)
  BY <1>5 DEF IsLocals
<1> QED BY <1>5, <1>6, <1>7

\* A call of route or health_check_all begins.
LEMMA LoopKeeps ==
  ASSUME IInv, NEW t \in Threads, StartSelect(t) \/ StartCheck(t) PROVE IInv'
<1>1. Begin /\ provider' = provider /\ lock' = lock /\ job' = job
  BY DEF StartSelect, StartCheck, counts
<1>2. PICK pc \in {"select", "visit"} : Loop(t, pc, 0)
  BY DEF StartSelect, StartCheck
<1>3. calls' \in 0 .. MaxCalls /\ calls' >= calls
  BY <1>1, BeginCounts
<1>4. 0 \in 0 .. MaxCalls
  BY RouterCoreAssumption
<1>5. PICK new : /\ IsLocals(new) /\ new.pc = pc /\ new.race = 0 /\ new.result = "none"
                 /\ thread' = [thread EXCEPT ![t] = new]
  BY <1>2, <1>4, LoopLocals
<1> QED BY <1>1, <1>3, <1>5, RacelessKeeps

\* route: the choice of a provider.
LEMMA SelectKeeps ==
  ASSUME IInv, NEW t \in Threads, Select(t) PROVE IInv'
<1>1. provider' = provider /\ lock' = lock /\ job' = job /\ calls' = calls
  BY DEF Select, counts
<1>2. calls' \in 0 .. MaxCalls /\ calls' >= calls
  BY <1>1, RouterCoreAssumption DEF IInv, Types
<1>3. CASE Return(t, "none available")
  <2>1. "none available" \in Results
    BY DEF Results
  <2> QED BY <1>1, <1>2, <1>3, <2>1, CountsStay, ReturnKeeps
<1>4. ASSUME NEW p, thread' = [thread EXCEPT ![t] = [Idle("none") EXCEPT !.pc = "execute", !.chosen = p]]
      PROVE  IInv'
  BY <1>1, <1>2, <1>4, IdleWith, RacelessKeeps
<1>5. ASSUME NEW l, thread' = [thread EXCEPT ![t] = [Idle("none") EXCEPT !.pc = "round robin", !.found = l]]
      PROVE  IInv'
  BY <1>1, <1>2, <1>5, IdleWith, RacelessKeeps
<1> QED BY <1>3, <1>4, <1>5 DEF Select

\* A loop passes an entry, or the loop over names finds its next one.
LEMMA WalkKeeps ==
  ASSUME IInv, NEW t \in Threads, NEW new, IsLocals(new), thread' = [thread EXCEPT ![t] = new],
         thread[t].pc \in {"select", "gather", "name", "lookup"},
         new.pc \in {"select", "gather", "name", "lookup"},
         new.pc = "select" <=> thread[t].pc = "select",
         new.race = thread[t].race, new.ok = thread[t].ok, new.result = thread[t].result,
         provider' = provider, lock' = lock, job' = job, calls' = calls
  PROVE  IInv'
<1>1. Shaped' /\ thread'[t] = new /\ Others(t)
  BY ThreadInv, SetLocals DEF Others
<1>2. thread[t].result = "none"
  BY ThreadInv DEF At
<1>3. /\ thread[t].pc \in Walks => thread[t].race # 0 /\ ~thread[t].ok
      /\ thread[t].pc = "select" => thread[t].race = 0
  BY ThreadInv
<1>4. RaceLocals(t) /\ SubmitsNone(t) /\ thread'[t].pc \notin {"count", "count failed"}
  BY <1>1, <1>2, <1>3 DEF RaceLocals, SubmitsNone, Walks
<1>5. calls' \in 0 .. MaxCalls /\ calls' >= calls
  BY RouterCoreAssumption DEF IInv, Types
<1> QED BY <1>1, <1>4, <1>5, CountsStay, QuietStep

\* What Find makes of the locals.
LEMMA FindLocals ==
  ASSUME IInv, NEW t \in Threads, NEW pc \in {"select", "gather", "name"}, Find(t, pc)
  PROVE  \E new : /\ IsLocals(new) /\ new.pc = pc /\ new.race = thread[t].race
                  /\ new.ok = thread[t].ok /\ new.result = thread[t].result
                  /\ thread' = [thread EXCEPT ![t] = new]
<1>1. PICK C, S, L, Z : thread \in [Threads -> Locals(C, S, L, Z)]
  BY ThreadInv DEF Shaped
<1>2. PICK l, f : thread' = [thread EXCEPT ![t].pc = pc, ![t].list = l, ![t].found = f]
  BY DEF Find
<1>3. PICK r : r = thread[t]
  OBVIOUS
<1> DEFINE new == [r EXCEPT !.pc = pc, !.list = l, !.found = f]
<1>4. r \in Locals(C, S, L, Z)
  BY <1>1, <1>3
<1>5. /\ new \in Locals(C, S, L \cup {l, f}, Z)
      /\ new.pc = pc /\ new.race = r.race /\ new.ok = r.ok /\ new.result = r.result
  BY <1>4 DEF Locals, ThreadPcs
<1>6. thread' = [thread EXCEPT ![t] = new]
  BY <1>2, <1>3
<1> HIDE DEF new
<1>7. IsLocals(new)
  BY <1>5 DEF IsLocals
<1> QED BY <1>3, <1>5, <1>6, <1>7

\* What passing over a name makes of them.
LEMMA SkipLocals ==
  ASSUME IInv, NEW t \in Threads, NEW l, thread' = [thread EXCEPT ![t].list = l]
  PROVE  \E new : /\ IsLocals(new) /\ new.pc = thread[t].pc /\ new.race = thread[t].race
                  /\ new.ok = thread[t].ok /\ new.result = thread[t].result
                  /\ thread' = [thread EXCEPT ![t] = new]
<1>1. PICK C, S, L, Z : thread \in [Threads -> Locals(C, S, L, Z)]
  BY ThreadInv DEF Shaped
<1>2. PICK r : r = thread[t]
  OBVIOUS
<1> DEFINE new == [r EXCEPT !.list = l]
<1>3. r \in Locals(C, S, L, Z)
  BY <1>1, <1>2
<1>4. /\ new \in Locals(C, S, L \cup {l}, Z)
      /\ new.pc = r.pc /\ new.race = r.race /\ new.ok = r.ok /\ new.result = r.result
  BY <1>3 DEF Locals
<1>5. thread' = [thread EXCEPT ![t] = new]
  BY <1>2
<1> HIDE DEF new
<1>6. IsLocals(new)
  BY <1>4 DEF IsLocals
<1> QED BY <1>2, <1>4, <1>5, <1>6

\* route and route_race: the list of available providers.
LEMMA GatherKeeps ==
  ASSUME IInv, NEW t \in Threads,
         Gather(t, "select") \/ Gather(t, "gather") \/ Name(t) \/ Lookup(t)
  PROVE  IInv'
<1>1. provider' = provider /\ lock' = lock /\ job' = job /\ calls' = calls
  BY DEF Gather, Name, Lookup, counts
<1>2. calls' \in 0 .. MaxCalls /\ calls' >= calls
  BY <1>1, RouterCoreAssumption DEF IInv, Types
<1>3. thread[t].pc \in {"select", "gather", "name", "lookup"}
  BY DEF Gather, Name, Lookup, At
<1>4. CASE Return(t, "raised")
  <2>1. "raised" \in Results
    BY DEF Results
  <2> QED BY <1>1, <1>2, <1>4, <2>1, CountsStay, ReturnKeeps
<1>5. ASSUME NEW pc \in {"select", "gather", "name"}, Find(t, pc),
             pc = "select" <=> thread[t].pc = "select"
      PROVE  IInv'
  <2>1. PICK new : /\ IsLocals(new) /\ new.pc = pc /\ new.race = thread[t].race
                   /\ new.ok = thread[t].ok /\ new.result = thread[t].result
                   /\ thread' = [thread EXCEPT ![t] = new]
    BY <1>5, FindLocals
  <2> QED BY <1>1, <1>3, <1>5, <2>1, WalkKeeps
<1>6. ASSUME NEW l, thread' = [thread EXCEPT ![t].list = l]
      PROVE  IInv'
  <2>1. PICK new : /\ IsLocals(new) /\ new.pc = thread[t].pc /\ new.race = thread[t].race
                   /\ new.ok = thread[t].ok /\ new.result = thread[t].result
                   /\ thread' = [thread EXCEPT ![t] = new]
    BY <1>6, SkipLocals
  <2> QED BY <1>1, <1>3, <2>1, WalkKeeps
<1>7. ASSUME Go(t, "lookup"), At(t, "name")
      PROVE  IInv'
  <2>1. PICK r : r = thread[t]
    OBVIOUS
  <2>2. PICK C, S, L, Z : thread \in [Threads -> Locals(C, S, L, Z)]
    BY ThreadInv DEF Shaped
  <2> DEFINE new == [r EXCEPT !.pc = "lookup"]
  <2>3. r \in Locals(C, S, L, Z)
    BY <2>1, <2>2
  <2>4. /\ new \in Locals(C, S, L, Z) /\ new.pc = "lookup" /\ new.race = r.race
        /\ new.ok = r.ok /\ new.result = r.result
    BY <2>3 DEF Locals, ThreadPcs
  <2>5. thread' = [thread EXCEPT ![t] = new]
    BY <1>7, <2>1 DEF Go
  <2> HIDE DEF new
  <2>6. IsLocals(new)
    BY <2>4 DEF IsLocals
  <2> QED BY <1>1, <1>3, <1>7, <2>1, <2>4, <2>5, <2>6, WalkKeeps DEF At
<1>8. CASE Gather(t, "select") \/ Gather(t, "gather")
  BY <1>4, <1>5, <1>8 DEF Gather, At
<1>9. CASE Name(t)
  BY <1>6, <1>7, <1>9 DEF Name
<1>10. CASE Lookup(t)
  BY <1>4, <1>5, <1>10 DEF Lookup, At
<1> QED BY <1>8, <1>9, <1>10

\* RoundRobin and Execute leave the race and the result of a route alone.
LEMMA RouteKeeps ==
  ASSUME IInv, NEW t \in Threads, RoundRobin(t) \/ Execute(t) PROVE IInv'
<1>1a. provider' = provider /\ lock' = lock /\ job' = job /\ calls' = calls
  BY DEF RoundRobin, Execute, counts
<1>1b. calls \in 0 .. MaxCalls /\ calls >= calls
  BY RouterCoreAssumption DEF IInv, Types
<1>1. calls' \in 0 .. MaxCalls /\ calls' >= calls
  BY <1>1a, <1>1b
<1>2. PICK C, S, L, Z : thread \in [Threads -> Locals(C, S, L, Z)]
  BY ThreadInv DEF Shaped
<1>3. thread[t].result = "none" /\ thread[t].race = 0
  BY ThreadInv DEF RoundRobin, Execute, At
<1>4. CASE RoundRobin(t)
  <2> DEFINE p == thread[t].found[(rr_index % Len(thread[t].found)) + 1]
             l == << >>
  <2>1. thread' = [thread EXCEPT ![t].pc = "execute", ![t].found = l, ![t].chosen = p]
    BY <1>4 DEF RoundRobin
  <2> HIDE DEF p, l
  <2>2. PICK r : r = thread[t]
    OBVIOUS
  <2> DEFINE new == [r EXCEPT !.pc = "execute", !.found = l, !.chosen = p]
  <2>3. r \in Locals(C, S, L, Z) /\ r.result = "none" /\ r.race = 0
    BY <1>2, <1>3, <2>2
  <2>3a. /\ new \in Locals(C \cup {p}, S, L \cup {l}, Z)
         /\ new.pc = "execute" /\ new.race = 0 /\ new.result = "none"
    BY <2>3 DEF Locals, ThreadPcs
  <2>3b. thread' = [thread EXCEPT ![t] = new]
    BY <2>1, <2>2
  <2> HIDE DEF new
  <2>3c. IsLocals(new)
    BY <2>3a DEF IsLocals
  <2>3d. Shaped' /\ thread'[t] = new /\ Others(t)
    BY <2>3b, <2>3c, ThreadInv, SetLocals DEF Others
  <2>4. RaceLocals(t) /\ SubmitsNone(t)
    BY <2>3a, <2>3d DEF RaceLocals, SubmitsNone, Walks
  <2> QED BY <1>1, <1>1a, <2>3a, <2>3d, <2>4, CountsStay, QuietStep
<1>5. CASE Execute(t)
  <2>1. PICK ok \in BOOLEAN : thread' = [thread EXCEPT ![t].pc = "record", ![t].ok = ok]
    BY <1>5 DEF Execute
  <2>2. PICK r : r = thread[t]
    OBVIOUS
  <2> DEFINE new == [r EXCEPT !.pc = "record", !.ok = ok]
  <2>3. r \in Locals(C, S, L, Z) /\ r.result = "none" /\ r.race = 0
    BY <1>2, <1>3, <2>2
  <2>4. new \in Locals(C, S, L, Z)
    BY <2>3 DEF Locals, ThreadPcs
  <2>5. new.pc = "record" /\ new.race = 0 /\ new.result = "none"
    BY <2>3 DEF Locals
  <2>6. thread' = [thread EXCEPT ![t] = new]
    BY <2>1, <2>2
  <2> HIDE DEF new
  <2>7. IsLocals(new)
    BY <2>4 DEF IsLocals
  <2>8. Shaped' /\ thread'[t] = new /\ Others(t)
    BY <2>6, <2>7, ThreadInv, SetLocals DEF Others
  <2>9. RaceLocals(t) /\ SubmitsNone(t)
    BY <2>5, <2>8 DEF RaceLocals, SubmitsNone, Walks
  <2> QED BY <1>1, <1>1a, <2>5, <2>8, <2>9, CountsStay, QuietStep
<1> QED BY <1>4, <1>5

\* The failover that follows a failure, and the end of a race.
LEMMA EndingsKeep ==
  ASSUME IInv, NEW t \in Threads,
         ReadRate(t) \/ Degrade(t) \/ RaceOver(t) \/ RaceTimeout(t)
  PROVE  IInv'
<1>1. /\ {"failed", "all failed", "timeout"} \subseteq Results /\ "degraded" \in Statuses
      /\ calls \in 0 .. MaxCalls /\ calls >= calls
  BY RouterCoreAssumption DEF Results, Statuses, IInv, Types
<1>2. CASE ReadRate(t)
  <2>1. /\ provider' = provider /\ lock' = lock /\ job' = job /\ calls' = calls
        /\ Go(t, "degrade") \/ Return(t, "failed")
        /\ ~At(t, "idle") /\ thread[t].pc \notin Walks
    BY <1>2 DEF ReadRate, counts, At, Walks
  <2>2. CASE Go(t, "degrade")
    BY <2>1, <2>2, CountsStay, GoKeeps
  <2>3. CASE Return(t, "failed")
    BY <1>1, <2>1, <2>3, CountsStay, ReturnKeeps
  <2> QED BY <2>1, <2>2, <2>3
<1>3. CASE Degrade(t)
  <2>1. /\ lock' = lock /\ job' = job /\ calls' = calls /\ Return(t, "failed")
        /\ provider' = [provider EXCEPT ![thread[t].chosen].status = "degraded"]
    BY <1>3 DEF Degrade
  <2>2. /\ provider' \in [Providers -> [status : Statuses, total : Nat, failed : Nat]]
        /\ SameCounts
    BY <1>1, <2>1, StatusStays
  <2> QED BY <1>1, <2>1, <2>2, ReturnKeeps
<1>4. CASE RaceOver(t)
  <2>1. /\ provider' = provider /\ lock' = lock /\ job' = job /\ calls' = calls
        /\ Return(t, "all failed")
    BY <1>4 DEF RaceOver, counts
  <2> QED BY <1>1, <2>1, CountsStay, ReturnKeeps
<1>5. CASE RaceTimeout(t)
  <2>1. /\ provider' = provider /\ lock' = lock /\ job' = job /\ calls' = calls
        /\ Return(t, "timeout")
    BY <1>5 DEF RaceTimeout, counts
  <2> QED BY <1>1, <2>1, CountsStay, ReturnKeeps
<1> QED BY <1>2, <1>3, <1>4, <1>5

\* A grade is a status.
LEMMA GradeIsStatus == ASSUME NEW p PROVE Grade(p) \in Statuses
BY DEF Grade, Statuses

\* health_check_all: the next provider.
LEMMA VisitKeeps ==
  ASSUME IInv, NEW t \in Threads, Visit(t) PROVE IInv'
<1>1. provider' = provider /\ lock' = lock /\ job' = job /\ calls' = calls
  BY DEF Visit, counts
<1>2. calls \in 0 .. MaxCalls /\ calls >= calls
  BY RouterCoreAssumption DEF IInv, Types
<1>3. thread[t].result = "none"
  BY ThreadInv DEF Visit, At
<1>3a. thread[t].pc \notin Walks
  BY DEF Visit, At, Walks
<1>4. {"raised", "checked"} \subseteq Results
  BY DEF Results
<1>5. ASSUME NEW r \in {"raised", "checked"}, Return(t, r)
      PROVE  IInv'
  BY <1>1, <1>2, <1>4, <1>5, CountsStay, ReturnKeeps
<1>6. ASSUME NEW p, NEW l, NEW g \in Statuses,
             thread' = [thread EXCEPT ![t].pc = "grade", ![t].chosen = p, ![t].list = l, ![t].grade = g]
      PROVE  IInv'
  <2>1. PICK C, S, L, Z : thread \in [Threads -> Locals(C, S, L, Z)]
    BY ThreadInv DEF Shaped
  <2>2. PICK r : r = thread[t]
    OBVIOUS
  <2> DEFINE new == [r EXCEPT !.pc = "grade", !.chosen = p, !.list = l, !.grade = g]
  <2>3. r \in Locals(C, S, L, Z) /\ r.result = "none"
    BY <1>3, <2>1, <2>2
  <2>4. /\ new \in Locals(C \cup {p}, S, L \cup {l}, Z)
        /\ new.pc = "grade" /\ new.race = r.race /\ new.ok = r.ok /\ new.result = "none"
    BY <2>3 DEF Locals, ThreadPcs
  <2>5. thread' = [thread EXCEPT ![t] = new]
    BY <1>6, <2>2
  <2> HIDE DEF new
  <2>6. IsLocals(new)
    BY <2>4 DEF IsLocals
  <2>7. Shaped' /\ thread'[t] = new /\ Others(t)
    BY <2>5, <2>6, ThreadInv, SetLocals DEF Others
  <2>8. RaceLocals(t) /\ SubmitsNone(t)
    BY <1>3a, <2>2, <2>4, <2>7 DEF RaceLocals, SubmitsNone, Walks
  <2> QED BY <1>1, <1>2, <2>4, <2>7, <2>8, CountsStay, QuietStep
<1> QED BY <1>5, <1>6, GradeIsStatus DEF Visit

\* health_check_all: a provider's new status.
LEMMA SetStatusKeeps ==
  ASSUME IInv, NEW t \in Threads, SetStatus(t) PROVE IInv'
<1>1. /\ lock' = lock /\ job' = job /\ calls' = calls /\ Go(t, "visit") /\ ~At(t, "idle")
      /\ thread[t].pc \notin Walks
      /\ provider' = [provider EXCEPT ![thread[t].chosen].status = thread[t].grade]
  BY DEF SetStatus, At, Walks
<1>2. thread[t].grade \in Statuses
  BY ThreadInv, HasLocals
<1>3. /\ provider' \in [Providers -> [status : Statuses, total : Nat, failed : Nat]]
      /\ SameCounts
  BY <1>1, <1>2, StatusStays
<1> QED BY <1>1, <1>3, GoKeeps

\* What the invariant reads has not changed.
LEMMA StaysPut ==
  ASSUME IInv, UNCHANGED <<provider, lock, job, thread, calls>> PROVE IInv'
BY DEF IInv, Types, Shaped, Recording, Races, RateAtMostOne, At

\* Recording is kept by who has the lock, or takes it, and is not recording
\* afterwards.
LEMMA RecordingAlone ==
  ASSUME Recording, NEW t \in Threads, Others(t), lock = t \/ lock = Nobody,
         thread'[t].pc \notin {"count", "count failed"}
  PROVE  Recording'
<1>1. \A u \in Threads \ {t} : thread'[u].pc \notin {"count", "count failed"}
  <2>1. \A u \in Threads : thread[u].pc \in {"count", "count failed"} => lock = u
    BY DEF Recording, At
  <2>2. Nobody \notin Threads
    BY RouterCoreAssumption
  <2> QED BY <2>1, <2>2 DEF Others
<1> QED BY <1>1 DEF Recording, At

\* The lock is taken and the counts are read.
LEMMA RecordKeeps ==
  ASSUME IInv, NEW t \in Threads, Record(t) PROVE IInv'
<1>1. provider' = provider /\ job' = job /\ calls' = calls /\ lock = Nobody /\ lock' = t
  BY DEF Record, counts
<1>2. calls \in 0 .. MaxCalls /\ calls >= calls
  BY RouterCoreAssumption DEF IInv, Types
<1>3. thread[t].result = "none" /\ thread[t].pc \notin Walks
  BY ThreadInv DEF Record, At, Walks
<1> DEFINE p == thread[t].chosen
           seen == <<total, failures, provider[p].total, provider[p].failed>>
<1>4. thread' = [thread EXCEPT ![t].pc = "count", ![t].seen = seen]
  BY DEF Record
<1>5. seen[3] = provider[p].total /\ seen[4] = provider[p].failed
  OBVIOUS
<1> HIDE DEF p, seen
<1>6. PICK C, S, L, Z : thread \in [Threads -> Locals(C, S, L, Z)]
  BY ThreadInv DEF Shaped
<1>7. PICK r : r = thread[t]
  OBVIOUS
<1> DEFINE new == [r EXCEPT !.pc = "count", !.seen = seen]
<1>7a. r \in Locals(C, S, L, Z) /\ r.result = "none"
  BY <1>3, <1>6, <1>7
<1>7b. new \in Locals(C, S \cup {seen}, L, Z)
  BY <1>7a DEF Locals, ThreadPcs
<1>7c. /\ new.pc = "count" /\ new.seen = seen /\ new.chosen = r.chosen
       /\ new.race = r.race /\ new.ok = r.ok /\ new.result = "none"
  BY <1>7a DEF Locals
<1>7d. thread' = [thread EXCEPT ![t] = new]
  BY <1>4, <1>7
<1> HIDE DEF new
<1>7e. IsLocals(new)
  BY <1>7b DEF IsLocals
<1>7f. Shaped' /\ thread'[t] = new /\ Others(t)
  BY <1>7d, <1>7e, ThreadInv, SetLocals DEF Others
<1>8. RaceLocals(t) /\ SameCounts
  BY <1>1, <1>7, <1>7c, <1>7f DEF RaceLocals, SameCounts, Walks
<1>9. Types'
  BY <1>1, <1>7f DEF IInv, Types
<1>10. Races'
  <2>1. NoNewWinners
    BY <1>1, <1>3, <1>7f DEF NoNewWinners, Others
  <2> QED BY <1>1, <1>2, <1>7f, <1>8, <1>9, <2>1, RacesKept DEF IInv
<1>11. Recording'
  <2>1. \A u \in Threads \ {t} : thread'[u].pc \notin {"count", "count failed"}
    BY <1>1, <1>7f, RouterCoreAssumption DEF IInv, Others, Recording, At
  <2>2. thread'[t].seen[3] = provider'[p].total /\ thread'[t].seen[4] = provider'[p].failed
    BY <1>1, <1>5, <1>7c, <1>7f
  <2>3. thread'[t].chosen = p
    BY <1>7, <1>7c, <1>7f DEF p
  <2>4. thread'[t].pc = "count"
    BY <1>7c, <1>7f
  <2> QED BY <1>1, <2>1, <2>2, <2>3, <2>4 DEF Recording, At
<1>12. RateAtMostOne'
  BY <1>1 DEF IInv, RateAtMostOne
<1> QED BY <1>9, <1>10, <1>11, <1>12 DEF IInv

\* What the thread that has recorded a result does next.
LEMMA RecordedLocals ==
  ASSUME IInv, NEW t \in Threads, ~At(t, "idle"), Recorded(t)
  PROVE  /\ Shaped' /\ Others(t) /\ RaceLocals(t)
         /\ thread'[t].pc \notin {"count", "count failed"}
         /\ thread[t].ok => thread'[t].race = 0
<1>1. CASE thread[t].ok
  <2>1. Return(t, "ok") /\ "ok" \in Results
    BY <1>1 DEF Recorded, Results
  <2>2. /\ Shaped' /\ Others(t)
        /\ thread'[t].pc = "idle" /\ thread'[t].race = 0
    BY <2>1, ThreadInv, ReturnLocals DEF Others
  <2> QED BY <2>2 DEF RaceLocals, Walks
<1>2. CASE ~thread[t].ok
  <2>1. PICK pc \in {"race", "rate"} : Go(t, pc) /\ (pc = "race" => thread[t].race # 0)
    BY <1>2 DEF Recorded
  <2>2. pc \in ThreadPcs
    BY DEF ThreadPcs
  <2>3. /\ Shaped' /\ Others(t)
        /\ thread'[t].pc = pc /\ thread'[t].race = thread[t].race /\ thread'[t].ok = thread[t].ok
        /\ thread'[t].result = thread[t].result
    BY <2>1, <2>2, ThreadInv, GoLocals DEF Others
  <2>4. thread[t].result = "none"
    BY ThreadInv
  <2> QED BY <1>2, <2>1, <2>3, <2>4 DEF RaceLocals, Walks
<1> QED BY <1>1, <1>2

\* The provider's failures are counted and the lock is given back.
LEMMA CountFailedKeeps ==
  ASSUME IInv, NEW t \in Threads, CountFailed(t) PROVE IInv'
<1>1. /\ job' = job /\ calls' = calls /\ lock' = Nobody /\ Recorded(t) /\ ~At(t, "idle")
      /\ thread[t].pc \notin Walks
      /\ provider' = [provider EXCEPT ![thread[t].chosen].failed = thread[t].seen[4] + 1]
  BY DEF CountFailed, At, Walks
<1>2. calls \in 0 .. MaxCalls /\ calls >= calls
  BY RouterCoreAssumption DEF IInv, Types
<1>3. lock = t
  BY DEF CountFailed, IInv, Recording
<1> DEFINE p == thread[t].chosen
<1>4. p \in Providers => thread[t].seen[4] = provider[p].failed /\ provider[p].failed < provider[p].total
  BY DEF CountFailed, IInv, Recording
<1>5. PICK n : n = thread[t].seen[4]
  OBVIOUS
<1>6. provider \in [Providers -> [status : Statuses, total : Nat, failed : Nat]]
  BY DEF IInv, Types
<1>7. /\ provider' \in [Providers -> [status : Statuses, total : Nat, failed : Nat]]
      /\ \A q \in Providers : provider'[q].failed <= provider'[q].total
  <2>1. CASE p \notin Providers
    BY <1>1, <1>6, <2>1 DEF IInv, RateAtMostOne
  <2>2. CASE p \in Providers
    <3>1. n \in Nat /\ n + 1 \in Nat /\ n + 1 <= provider[p].total
      BY <1>4, <1>5, <1>6, <2>2
    <3>2. provider' = [provider EXCEPT ![p].failed = n + 1]
      BY <1>1, <1>5
    <3> HIDE DEF p
    <3> QED BY <1>6, <2>2, <3>1, <3>2 DEF IInv, RateAtMostOne
  <2> QED BY <2>1, <2>2
<1>8. /\ Shaped' /\ Others(t) /\ RaceLocals(t)
      /\ thread'[t].pc \notin {"count", "count failed"}
  BY <1>1, RecordedLocals
<1>9. Types'
  BY <1>1, <1>7, <1>8 DEF IInv, Types
<1>10. Races'
  <2>1. NoNewWinners
    BY <1>1, <1>8 DEF NoNewWinners, Others
  <2> QED BY <1>1, <1>2, <1>8, <1>9, <2>1, RacesKept DEF IInv
<1>11. Recording'
  BY <1>3, <1>8, RecordingAlone DEF IInv
<1> QED BY <1>7, <1>9, <1>10, <1>11 DEF IInv, RateAtMostOne

\* Cancelling touches the jobs of the thread's own race only.
LEMMA CancelsOwn ==
  ASSUME IInv, NEW t \in Threads, CancelQueued(t)
  PROVE  /\ job' \in [1 .. MaxCalls -> [Providers -> JobStates]]
         /\ ~thread[t].ok => job' = job
         /\ \A c \in 1 .. MaxCalls : c # thread[t].race => job'[c] = job[c]
<1>1. job \in [1 .. MaxCalls -> [Providers -> JobStates]]
  BY DEF IInv, Types
<1>2. CASE thread[t].race # 0 /\ thread[t].ok
  <2>1. PICK c : c = thread[t].race
    OBVIOUS
  <2>1a. Shaped /\ MaxCalls \in Nat
    BY RouterCoreAssumption DEF IInv, Types
  <2>1b. c \in 0 .. MaxCalls /\ c # 0
    BY <1>2, <2>1, <2>1a, HasLocals
  <2>2. c \in 1 .. MaxCalls
    BY <2>1a, <2>1b
  <2> DEFINE js == [q \in Providers |-> IF job[c][q] = "queued" THEN "cancelled" ELSE job[c][q]]
  <2>3. job' = [job EXCEPT ![c] = js]
    BY <1>1, <1>2, <2>1, <2>2 DEF CancelQueued
  <2>4. js \in [Providers -> JobStates]
    BY <1>1, <2>2 DEF JobStates
  <2> HIDE DEF js
  <2> QED BY <1>1, <1>2, <2>1, <2>3, <2>4
<1>3. CASE ~(thread[t].race # 0 /\ thread[t].ok)
  BY <1>1, <1>3 DEF CancelQueued
<1> QED BY <1>2, <1>3

\* The races of two threads are different ones.
LEMMA OtherRace ==
  ASSUME IInv, NEW t \in Threads, NEW u \in Threads \ {t}, thread[u].race # 0
  PROVE  thread[u].race # thread[t].race /\ thread[u].race \in 1 .. MaxCalls
<1>1. thread[u].race # thread[t].race
  BY DEF IInv, Races
<1>2. thread[u].race \in 0 .. MaxCalls
  BY ThreadInv, HasLocals
<1> QED BY <1>1, <1>2, RouterCoreAssumption

\* The totals and the provider's requests are counted.
LEMMA CountKeeps ==
  ASSUME IInv, NEW t \in Threads, Count(t) PROVE IInv'
<1> DEFINE p == thread[t].chosen
<1>1. /\ calls' = calls /\ lock = t /\ ~At(t, "idle") /\ At(t, "count")
      /\ thread[t].pc \notin Walks
  BY DEF Count, At, IInv, Recording, Walks
<1>2. provider' = [provider EXCEPT ![p].total = thread[t].seen[3] + 1]
  BY DEF Count
<1>3. calls \in 0 .. MaxCalls /\ calls >= calls
  BY RouterCoreAssumption DEF IInv, Types
<1>4. PICK n : n = thread[t].seen[3]
  OBVIOUS
<1>5. provider \in [Providers -> [status : Statuses, total : Nat, failed : Nat]]
  BY DEF IInv, Types
<1>6. /\ provider' \in [Providers -> [status : Statuses, total : Nat, failed : Nat]]
      /\ \A q \in Providers : provider'[q].failed <= provider'[q].total
      /\ p \in Providers => /\ thread[t].seen[4] = provider'[p].failed
                            /\ provider'[p].failed < provider'[p].total
  <2>1. CASE p \notin Providers
    BY <1>2, <1>5, <2>1 DEF IInv, RateAtMostOne
  <2>2. CASE p \in Providers
    <3>1. n = provider[p].total /\ thread[t].seen[4] = provider[p].failed
      BY <1>1, <1>4, <2>2 DEF IInv, Recording
    <3>2. n \in Nat /\ n + 1 \in Nat /\ provider[p].failed < n + 1
      BY <1>5, <2>2, <3>1 DEF IInv, RateAtMostOne
    <3>3. provider' = [provider EXCEPT ![p].total = n + 1]
      BY <1>2, <1>4
    <3> HIDE DEF p
    <3> QED BY <1>5, <2>2, <3>1, <3>2, <3>3 DEF IInv, RateAtMostOne
  <2> QED BY <2>1, <2>2
<1>7. CASE thread[t].ok
  <2>1. lock' = Nobody /\ Recorded(t) /\ CancelQueued(t)
    BY <1>7 DEF Count
  <2>2. /\ Shaped' /\ Others(t) /\ RaceLocals(t) /\ thread'[t].race = 0
        /\ thread'[t].pc \notin {"count", "count failed"}
    BY <1>1, <1>7, <2>1, RecordedLocals
  <2>3. Types'
    BY <1>1, <1>6, <2>1, <2>2, CancelsOwn DEF IInv, Types
  <2>4. NoNewWinners
    <3>1. ASSUME NEW u \in Threads, thread'[u].race # 0
          PROVE  job'[thread'[u].race] = job[thread'[u].race] /\ thread'[u] = thread[u]
      <4>1. u \in Threads \ {t} /\ thread'[u] = thread[u]
        BY <2>2, <3>1 DEF Others
      <4> QED BY <2>1, <3>1, <4>1, OtherRace, CancelsOwn
    <3> QED BY <3>1 DEF NoNewWinners
  <2>5. Races'
    BY <1>1, <1>3, <2>2, <2>3, <2>4, RacesKept DEF IInv
  <2>6. Recording'
    BY <1>1, <2>2, RecordingAlone DEF IInv
  <2> QED BY <1>6, <2>3, <2>5, <2>6 DEF IInv, RateAtMostOne
<1>8. CASE ~thread[t].ok
  <2>1. Go(t, "count failed") /\ lock' = lock /\ job' = job
    BY <1>8 DEF Count
  <2>2. /\ Shaped' /\ Others(t)
        /\ thread'[t].pc = "count failed" /\ thread'[t].race = thread[t].race
        /\ thread'[t].chosen = thread[t].chosen /\ thread'[t].ok = thread[t].ok
        /\ thread'[t].seen = thread[t].seen /\ thread'[t].result = "none"
    BY <1>1, <2>1, ThreadInv, GoLocals DEF Others, ThreadPcs
  <2>3. RaceLocals(t)
    BY <2>2 DEF RaceLocals, Walks
  <2>4. Types'
    BY <1>1, <1>6, <2>1, <2>2 DEF IInv, Types
  <2>5. Races'
    <3>1. NoNewWinners
      BY <1>1, <2>1, <2>2 DEF NoNewWinners, Others
    <3> QED BY <1>1, <1>3, <2>1, <2>2, <2>3, <2>4, <3>1, RacesKept DEF IInv
  <2>6. Recording'
    <3>1. \A u \in Threads \ {t} : thread'[u].pc \notin {"count", "count failed"}
      BY <1>1, <2>2 DEF IInv, Others, Recording, At
    <3> QED BY <1>1, <1>6, <2>1, <2>2, <3>1 DEF Recording, At
  <2> QED BY <1>6, <2>4, <2>5, <2>6 DEF IInv, RateAtMostOne
<1> QED BY <1>7, <1>8

\* A race gets a number of its own.
LEMMA RaceBegins ==
  ASSUME IInv, NEW t \in Threads, NEW new, IsLocals(new), Begin,
         new.pc \in Walks, new.race = calls', ~new.ok, new.result = "none",
         thread' = [thread EXCEPT ![t] = new],
         provider' = provider, lock' = lock, job' = job
  PROVE  IInv'
<1>1. calls' \in 1 .. MaxCalls /\ calls' = calls + 1 /\ calls \in Nat
  BY BeginCounts
<1>2. Shaped' /\ thread'[t] = new /\ Others(t)
  BY ThreadInv, SetLocals DEF Others
<1>3. Types'
  BY <1>1, <1>2, BeginCounts, CountsStay DEF IInv, Types
<1>4. Recording' /\ RateAtMostOne'
  BY <1>2, RecordingKept DEF IInv, SameCounts, RateAtMostOne, Walks
<1>5. ASSUME NEW u \in Threads \ {t}
      PROVE  /\ thread'[u] = thread[u] /\ thread[u].race \in 0 .. MaxCalls
             /\ thread[u].race <= calls' /\ thread[u].race # calls'
  <2>1. thread[u].race \in 0 .. MaxCalls
    BY ThreadInv, HasLocals
  <2>2. thread[u].race <= calls
    BY DEF IInv, Races
  <2> QED BY <1>1, <1>2, <2>1, <2>2, RouterCoreAssumption DEF Others
<1>6. calls' # 0 /\ calls' <= calls'
  BY <1>1, RouterCoreAssumption
<1>7. ASSUME NEW u \in Threads
       PROVE  /\ thread'[u].race <= calls'
              /\ ~At(u, "idle")' => thread'[u].result = "none"
              /\ At(u, "race")' => thread'[u].race # 0 /\ ~thread'[u].ok
              /\ thread'[u].pc \in Walks => thread'[u].race # 0 /\ ~thread'[u].ok
              /\ thread'[u].pc \in {"select", "round robin", "execute"} => thread'[u].race = 0
              /\ thread'[u].race # 0 /\ ~thread'[u].ok /\ thread'[u].pc \notin Walks =>
                   \A p \in Providers : job'[thread'[u].race][p] \notin {"won", "cancelled"}
  <2>1. CASE u = t
    BY <1>2, <1>6, <2>1 DEF At, Walks
  <2>2. CASE u # t
    BY <1>5, <2>2 DEF IInv, Races, At
  <2> QED BY <2>1, <2>2
<1>8. ASSUME NEW u \in Threads, NEW v \in Threads, u # v, thread'[u].race # 0
       PROVE  thread'[u].race # thread'[v].race
  <2>1. CASE u = t
    BY <1>2, <1>5, <1>8, <2>1
  <2>2. CASE v = t
    BY <1>2, <1>5, <1>8, <2>2
  <2>3. CASE u # t /\ v # t
    <3>1. thread'[u] = thread[u] /\ thread'[v] = thread[v]
      BY <1>5, <2>3
    <3> QED BY <1>8, <3>1 DEF IInv, Races
  <2> QED BY <2>1, <2>2, <2>3
<1>9. Races'
  BY <1>7, <1>8 DEF Races
<1> QED BY <1>3, <1>4, <1>9 DEF IInv

\* The locals with which a race begins.
LEMMA RaceLocalsOf ==
  ASSUME NEW c \in 0 .. MaxCalls
  PROVE  LET new == [Idle("none") EXCEPT !.pc = "race", !.race = c] IN
         IsLocals(new) /\ new.pc = "race" /\ new.race = c /\ ~new.ok /\ new.result = "none"
<1> DEFINE r == Idle("none")
           new == [r EXCEPT !.pc = "race", !.race = c]
<1>1. r \in Locals({Nobody}, {<<0, 0, 0, 0>>}, {<< >>}, {0}) /\ ~r.ok /\ r.result = "none"
  BY IdleIsLocals
<1> HIDE DEF r
<1>2. PICK C, S, L, Z : r \in Locals(C, S, L, Z)
  BY <1>1
<1>3. /\ new \in Locals(C, S, L, Z)
      /\ new.pc = "race" /\ new.race = c /\ ~new.ok /\ new.result = "none"
  BY <1>1, <1>2 DEF Locals, ThreadPcs
<1> HIDE DEF new
<1>4. IsLocals(new)
  BY <1>3 DEF IsLocals
<1> QED BY <1>3, <1>4 DEF new, r

\* A call of route_race begins.
LEMMA RaceLoopKeeps ==
  ASSUME IInv, NEW t \in Threads, StartGather(t) \/ StartNames(t) PROVE IInv'
<1>1. Begin /\ provider' = provider /\ lock' = lock /\ job' = job
  BY DEF StartGather, StartNames, counts
<1>2. PICK c : c = calls'
  OBVIOUS
<1>3. c \in 0 .. MaxCalls
  BY <1>1, <1>2, BeginCounts
<1>4. PICK new :
        /\ IsLocals(new) /\ new.pc \in {"gather", "name"} /\ new.race = c /\ ~new.ok /\ new.result = "none"
        /\ thread' = [thread EXCEPT ![t] = new]
  <2>1. CASE Loop(t, "gather", c)
    BY <1>3, <2>1, LoopLocals
  <2>2. CASE StartNames(t)
    BY <1>2, <1>3, <2>2, NamesLocals
  <2> QED BY <1>2, <2>1, <2>2 DEF StartGather
<1>5. new.pc \in Walks
  BY <1>4 DEF Walks
<1> QED BY <1>1, <1>2, <1>4, <1>5, RaceBegins

\* Its jobs are queued, and none has won or was cancelled.
LEMMA JobsSubmitted ==
  ASSUME IInv, NEW t \in Threads, NEW new, IsLocals(new), thread[t].pc \in Walks,
         new.pc = "race", new.race = thread[t].race, ~new.ok, new.result = "none",
         thread' = [thread EXCEPT ![t] = new],
         NEW js \in [Providers -> {"queued", "none"}],
         job' = [job EXCEPT ![thread[t].race] = js],
         provider' = provider, lock' = lock, calls' = calls
  PROVE  IInv'
<1>1. Shaped' /\ thread'[t] = new /\ Others(t)
  BY ThreadInv, SetLocals DEF Others
<1>2. PICK c : c = thread[t].race
  OBVIOUS
<1>3. thread[t].race # 0 /\ ~thread[t].ok
  BY ThreadInv
<1>4. c \in 1 .. MaxCalls
  <2>1. thread[t].race \in 0 .. MaxCalls
    BY ThreadInv, HasLocals
  <2> QED BY <1>2, <1>3, <2>1, NumbersACall
<1>5. /\ job \in [1 .. MaxCalls -> [Providers -> JobStates]]
      /\ js \in [Providers -> JobStates]
  BY DEF IInv, Types, JobStates
<1>6. /\ job' \in [1 .. MaxCalls -> [Providers -> JobStates]]
      /\ job'[c] = js
      /\ \A d \in 1 .. MaxCalls : d # c => job'[d] = job[d]
  BY <1>2, <1>4, <1>5
<1>7. Types'
  BY <1>1, <1>6, CountsStay DEF IInv, Types
<1>8. Recording' /\ RateAtMostOne'
  BY <1>1, RecordingKept DEF IInv, SameCounts, RateAtMostOne
<1>9. RaceLocals(t)
  BY <1>1, <1>3 DEF RaceLocals, Walks
<1>10. NoNewWinners
  <2>1. ASSUME NEW u \in Threads, NEW p \in Providers, thread'[u].race # 0,
               thread'[u].pc \notin Walks, job'[thread'[u].race][p] \in {"won", "cancelled"}
        PROVE  job[thread'[u].race][p] \in {"won", "cancelled"} /\ thread[u].pc \notin Walks
    <3>1. CASE u = t
      <4>1. job'[thread'[u].race][p] \in {"queued", "none"}
        BY <1>1, <1>2, <1>6, <3>1
      <4> QED BY <2>1, <4>1
    <3>2. CASE u # t
      <4>1. thread'[u] = thread[u] /\ thread[u].race \in 1 .. MaxCalls /\ thread[u].race # c
        BY <1>1, <1>2, <2>1, <3>2, OtherRace DEF Others
      <4> QED BY <1>6, <2>1, <4>1
    <3> QED BY <3>1, <3>2
  <2> QED BY <2>1 DEF NoNewWinners
<1>11. calls' >= calls
  BY RouterCoreAssumption DEF IInv, Types
<1>12. Races'
  BY <1>1, <1>7, <1>9, <1>10, <1>11, RacesKept DEF IInv
<1> QED BY <1>7, <1>8, <1>12 DEF IInv

\* route_race: the jobs are submitted.
LEMMA StartRaceKeeps ==
  ASSUME IInv, NEW t \in Threads, StartRace(t) PROVE IInv'
<1>1. provider' = provider /\ lock' = lock /\ calls' = calls /\ thread[t].pc \in Walks
  BY DEF StartRace, counts, At, Walks
<1>2. CASE Return(t, "none available") /\ job' = job
  <2>1. "none available" \in Results
    BY DEF Results
  <2>2. calls' \in 0 .. MaxCalls /\ calls' >= calls
    BY <1>1, RouterCoreAssumption DEF IInv, Types
  <2> QED BY <1>1, <1>2, <2>1, <2>2, CountsStay, ReturnKeeps
<1>3. ASSUME NEW racers,
             job' = [job EXCEPT ![thread[t].race] =
                       [p \in Providers |-> IF p \in racers THEN "queued" ELSE "none"]],
             thread' = [thread EXCEPT ![t] = [Idle("none") EXCEPT !.pc = "race", !.race = thread[t].race]]
      PROVE  IInv'
  <2> DEFINE js == [p \in Providers |-> IF p \in racers THEN "queued" ELSE "none"]
  <2>1. js \in [Providers -> {"queued", "none"}]
    OBVIOUS
  <2>2. job' = [job EXCEPT ![thread[t].race] = js]
    BY <1>3
  <2> HIDE DEF js
  <2>3. PICK c : c = thread[t].race
    OBVIOUS
  <2> DEFINE new == [Idle("none") EXCEPT !.pc = "race", !.race = c]
  <2>4. c \in 0 .. MaxCalls
    BY <2>3, ThreadInv, HasLocals
  <2>5. IsLocals(new) /\ new.pc = "race" /\ new.race = c /\ ~new.ok /\ new.result = "none"
    BY <2>4, RaceLocalsOf
  <2>6. thread' = [thread EXCEPT ![t] = new]
    BY <1>3, <2>3
  <2> HIDE DEF new
  <2> QED BY <1>1, <2>1, <2>2, <2>3, <2>5, <2>6, JobsSubmitted
<1> QED BY <1>2, <1>3 DEF StartRace

\* One job of a race gets a new state.
LEMMA OneJob ==
  ASSUME IInv, NEW c \in 1 .. MaxCalls, NEW p \in Providers, NEW s \in JobStates,
         job' = [job EXCEPT ![c][p] = s]
  PROVE  /\ job' \in [1 .. MaxCalls -> [Providers -> JobStates]]
         /\ job'[c][p] = s
         /\ \A q \in Providers : q # p => job'[c][q] = job[c][q]
         /\ \A d \in 1 .. MaxCalls : d # c => job'[d] = job[d]
BY DEF IInv, Types

\* route_race: as_completed yields a finished job.
LEMMA TakeResultKeeps ==
  ASSUME IInv, NEW t \in Threads, TakeResult(t) PROVE IInv'
<1> DEFINE c == thread[t].race
<1>1. PICK p \in Providers :
        /\ At(t, "race") /\ job[c][p] \in {"ok", "raised"}
        /\ job' = [job EXCEPT ![c][p] = IF @ = "ok" THEN "won" ELSE "lost"]
        /\ thread' = [thread EXCEPT ![t].pc = "record", ![t].chosen = p, ![t].ok = job[c][p] = "ok"]
        /\ UNCHANGED <<strategy, registry, counts, rr_index, lock, calls>>
  BY DEF TakeResult
<1>2. provider' = provider /\ lock' = lock /\ calls' = calls
  BY <1>1 DEF counts
<1>3. calls \in 0 .. MaxCalls /\ calls >= calls
  BY RouterCoreAssumption DEF IInv, Types
<1>4. c # 0 /\ ~thread[t].ok /\ thread[t].result = "none" /\ thread[t].pc \notin Walks
  BY <1>1, ThreadInv DEF At, Walks
<1>4a. Shaped /\ MaxCalls \in Nat
  BY RouterCoreAssumption DEF IInv, Types
<1>4b. c \in 0 .. MaxCalls
  BY <1>4a, HasLocals
<1>5. c \in 1 .. MaxCalls
  BY <1>4, <1>4a, <1>4b
<1>6. PICK ok \in BOOLEAN : ok = (job[c][p] = "ok")
  OBVIOUS
<1>7. thread' = [thread EXCEPT ![t].pc = "record", ![t].chosen = p, ![t].ok = ok]
  BY <1>1, <1>6
<1>8. PICK s \in {"won", "lost"} : s = (IF job[c][p] = "ok" THEN "won" ELSE "lost")
  OBVIOUS
<1>9. job' = [job EXCEPT ![c][p] = s]
  BY <1>1, <1>8
<1> HIDE DEF c
<1>10. /\ job' \in [1 .. MaxCalls -> [Providers -> JobStates]]
       /\ job'[c][p] = s
       /\ \A q \in Providers : q # p => job'[c][q] = job[c][q]
       /\ \A d \in 1 .. MaxCalls : d # c => job'[d] = job[d]
  BY <1>5, <1>9, OneJob DEF JobStates
<1>11. ~ok => s = "lost"
  BY <1>6, <1>8
<1>12. PICK C, S, L, Z : thread \in [Threads -> Locals(C, S, L, Z)]
  BY ThreadInv DEF Shaped
<1>13. /\ Shaped' /\ Others(t)
       /\ thread'[t].pc = "record" /\ thread'[t].ok = ok
       /\ thread'[t].race = thread[t].race /\ thread'[t].result = "none"
  <2>1. PICK r : r = thread[t]
    OBVIOUS
  <2> DEFINE new == [r EXCEPT !.pc = "record", !.chosen = p, !.ok = ok]
  <2>2. r \in Locals(C, S, L, Z) /\ r.result = "none"
    BY <1>4, <1>12, <2>1
  <2>3. /\ new \in Locals(C \cup {p}, S, L, Z)
        /\ new.pc = "record" /\ new.ok = ok /\ new.race = r.race /\ new.result = "none"
    BY <2>2 DEF Locals, ThreadPcs
  <2>4. thread' = [thread EXCEPT ![t] = new]
    BY <1>7, <2>1
  <2> HIDE DEF new
  <2>5. IsLocals(new)
    BY <2>3 DEF IsLocals
  <2> QED BY <2>1, <2>3, <2>4, <2>5, ThreadInv, SetLocals DEF Others
<1>14. RaceLocals(t) /\ SameCounts
  BY <1>2, <1>4, <1>13 DEF RaceLocals, SameCounts, Walks
<1>15. Types'
  BY <1>2, <1>10, <1>13 DEF IInv, Types
<1>16. NoNewWinners
  <2>1. ASSUME NEW u \in Threads, NEW q \in Providers, thread'[u].race # 0, ~thread'[u].ok,
               thread'[u].pc \notin Walks, job'[thread'[u].race][q] \in {"won", "cancelled"}
        PROVE  job[thread'[u].race][q] \in {"won", "cancelled"} /\ thread[u].pc \notin Walks
    <3>1. CASE u = t
      BY <1>4, <1>10, <1>11, <1>13, <2>1, <3>1 DEF c
    <3>2. CASE u # t
      <4>1. thread'[u] = thread[u] /\ thread[u].race \in 1 .. MaxCalls
            /\ thread[u].race # c
        BY <1>13, <2>1, <3>2, OtherRace DEF Others, c
      <4> QED BY <1>10, <2>1, <4>1
    <3> QED BY <3>1, <3>2
  <2> QED BY <2>1 DEF NoNewWinners
<1>17. Races'
  BY <1>2, <1>3, <1>13, <1>14, <1>15, <1>16, RacesKept DEF IInv
<1>18. Recording' /\ RateAtMostOne'
  BY <1>2, <1>13, <1>14, RecordingKept DEF IInv, RateAtMostOne
<1> QED BY <1>15, <1>17, <1>18 DEF IInv

\* The executor starts or ends a job.
LEMMA JobKeeps ==
  ASSUME IInv, NEW c \in 1 .. MaxCalls, NEW p \in Providers, StartJob(c, p) \/ EndJob(c, p)
  PROVE  IInv'
<1>1. provider' = provider /\ lock' = lock /\ calls' = calls /\ thread' = thread
  BY DEF StartJob, EndJob, counts
<1>2. PICK s \in {"running", "ok", "raised"} : job' = [job EXCEPT ![c][p] = s]
  BY DEF StartJob, EndJob
<1>3. /\ job' \in [1 .. MaxCalls -> [Providers -> JobStates]]
      /\ job'[c][p] = s
      /\ \A q \in Providers : q # p => job'[c][q] = job[c][q]
      /\ \A d \in 1 .. MaxCalls : d # c => job'[d] = job[d]
  BY <1>2, OneJob DEF JobStates
<1>4. Types' /\ Recording' /\ RateAtMostOne'
  BY <1>1, <1>3 DEF IInv, Types, Shaped, Recording, RateAtMostOne, At
<1>5. ASSUME NEW u \in Threads, thread[u].race # 0, ~thread[u].ok, thread[u].pc \notin Walks,
             NEW q \in Providers
      PROVE  job'[thread[u].race][q] \notin {"won", "cancelled"}
  <2>1. job[thread[u].race][q] \notin {"won", "cancelled"}
    BY <1>5 DEF IInv, Races
  <2>2. Shaped /\ MaxCalls \in Nat
    BY RouterCoreAssumption DEF IInv, Types
  <2>3. thread[u].race \in 0 .. MaxCalls
    BY <2>2, HasLocals
  <2>4. thread[u].race \in 1 .. MaxCalls
    BY <1>5, <2>2, <2>3
  <2>5. s \notin {"won", "cancelled"}
    OBVIOUS
  <2> QED BY <1>3, <2>1, <2>4, <2>5
<1>6. Races'
  BY <1>1, <1>5 DEF IInv, Races, At
<1> QED BY <1>4, <1>6 DEF IInv

-----------------------------------------------------------------------------
(* The invariant                                                           *)

\* It holds at first.
LEMMA InitInv == Init => IInv
<1> SUFFICES ASSUME Init PROVE IInv
  OBVIOUS
<1> DEFINE r == Idle("none")
<1>1. r \in Locals({Nobody}, {<<0, 0, 0, 0>>}, {<< >>}, {0})
      /\ r.pc = "idle" /\ r.race = 0
  BY RouterCoreAssumption DEF Idle, Locals, ThreadPcs, Statuses, Results
<1>2. thread = [t \in Threads |-> r]
  BY DEF Init
<1> HIDE DEF r
<1>3. thread \in [Threads -> Locals({Nobody}, {<<0, 0, 0, 0>>}, {<< >>}, {0})]
  BY <1>1, <1>2
<1>4. \A t \in Threads : thread[t].pc = "idle" /\ thread[t].race = 0
  BY <1>1, <1>2
<1>5. /\ provider = [p \in Providers |-> [status |-> "healthy", total |-> 0, failed |-> 0]]
      /\ job = [c \in 1 .. MaxCalls |-> NoJobs] /\ calls = 0
  BY DEF Init
<1>6. /\ provider \in [Providers -> [status : Statuses, total : Nat, failed : Nat]]
      /\ \A p \in Providers : provider[p].failed <= provider[p].total
  BY <1>5 DEF Statuses
<1>7. job \in [1 .. MaxCalls -> [Providers -> JobStates]]
  BY <1>5 DEF NoJobs, JobStates
<1>8. calls \in 0 .. MaxCalls
  BY <1>5, RouterCoreAssumption
<1>9. Types
  BY <1>3, <1>6, <1>7, <1>8 DEF Types, Shaped
<1>10. Recording
  BY <1>4 DEF Recording, At
<1>11. Races
  <2>1. \A t \in Threads : thread[t].race <= calls
    BY <1>4, <1>5
  <2> QED BY <1>4, <2>1 DEF Races, At, Walks
<1> QED BY <1>6, <1>9, <1>10, <1>11 DEF IInv, RateAtMostOne

\* A step of a call keeps the invariant.
LEMMA CallStepKeeps ==
  ASSUME IInv, NEW t \in Threads, CallStep(t) PROVE IInv'
<1>1. CASE RoundRobin(t) \/ Execute(t)
  BY <1>1, RouteKeeps
<1>2. CASE ReadRate(t) \/ Degrade(t) \/ RaceOver(t) \/ RaceTimeout(t)
  BY <1>2, EndingsKeep
<1>3. CASE Record(t)
  BY <1>3, RecordKeeps
<1>4. CASE Count(t)
  BY <1>4, CountKeeps
<1>5. CASE CountFailed(t)
  BY <1>5, CountFailedKeeps
<1>6. CASE TakeResult(t)
  BY <1>6, TakeResultKeeps
<1>7. CASE Visit(t)
  BY <1>7, VisitKeeps
<1>8. CASE SetStatus(t)
  BY <1>8, SetStatusKeeps
<1>9. CASE Gather(t, "select") \/ Gather(t, "gather") \/ Name(t) \/ Lookup(t)
  BY <1>9, GatherKeeps
<1>10. CASE Select(t) \/ StartRace(t)
  BY <1>10, SelectKeeps, StartRaceKeeps
<1> QED BY <1>1, <1>2, <1>3, <1>4, <1>5, <1>6, <1>7, <1>8, <1>9, <1>10 DEF CallStep

\* Every step keeps it.
LEMMA StepInv == IInv /\ [Next]_vars => IInv'
<1> SUFFICES ASSUME IInv, [Next]_vars PROVE IInv'
  OBVIOUS
<1>1. ASSUME NEW t \in Threads,
             StartSelect(t) \/ StartGather(t) \/ StartNames(t) \/ StartCheck(t) \/ CallStep(t)
      PROVE  IInv'
  BY <1>1, LoopKeeps, RaceLoopKeeps, CallStepKeeps
<1>2. ASSUME NEW t \in Threads, NEW p \in Providers, Register(t, p) \/ Unregister(t, p)
      PROVE  IInv'
  <2>1. UNCHANGED <<provider, lock, job, thread, calls>>
    BY <1>2 DEF Register, Unregister, counts
  <2> QED BY <2>1, StaysPut
<1>3. ASSUME NEW c \in 1 .. MaxCalls, NEW p \in Providers, StartJob(c, p) \/ EndJob(c, p)
      PROVE  IInv'
  BY <1>3, JobKeeps
<1>4. CASE UNCHANGED vars
  <2>1. UNCHANGED <<provider, lock, job, thread, calls>>
    BY <1>4 DEF vars, counts
  <2> QED BY <2>1, StaysPut
<1> QED BY <1>1, <1>2, <1>3, <1>4 DEF Next

\* The invariant holds in every state.
LEMMA Invariance == Spec => []IInv
<1> QED BY InitInv, StepInv, PTL DEF Spec

\* A step of one thread leaves the locals of the others alone.
LEMMA OwnLocals ==
  ASSUME IInv, NEW u \in Threads, CallStep(u), NEW t \in Threads \ {u}
  PROVE  thread'[t] = thread[t]
<1>1. PICK C, S, L, Z : thread \in [Threads -> Locals(C, S, L, Z)]
  BY DEF IInv, Types, Shaped
<1>2. ASSUME NEW new, thread' = [thread EXCEPT ![u] = new]
      PROVE  thread'[t] = thread[t]
  BY <1>1, <1>2
<1>3. ASSUME NEW pc, Go(u, pc)
      PROVE  thread'[t] = thread[t]
  BY <1>1, <1>3 DEF Go
<1>4. ASSUME NEW r, Return(u, r)
      PROVE  thread'[t] = thread[t]
  BY <1>2, <1>4 DEF Return
<1>5. CASE RoundRobin(u) \/ Execute(u)
  BY <1>1, <1>5 DEF RoundRobin, Execute
<1>6. CASE Record(u) \/ TakeResult(u)
  BY <1>1, <1>6 DEF Record, TakeResult
<1>7. CASE Count(u) \/ CountFailed(u)
  BY <1>3, <1>4, <1>7 DEF Count, CountFailed, Recorded
<1>8. CASE ReadRate(u) \/ Degrade(u) \/ RaceOver(u) \/ RaceTimeout(u) \/ SetStatus(u)
  BY <1>3, <1>4, <1>8 DEF ReadRate, Degrade, RaceOver, RaceTimeout, SetStatus
<1>9. CASE Visit(u)
  BY <1>1, <1>4, <1>9 DEF Visit
<1>10. CASE Gather(u, "select") \/ Gather(u, "gather") \/ Name(u) \/ Lookup(u)
  BY <1>1, <1>3, <1>4, <1>10 DEF Gather, Name, Lookup, Find
<1>11. CASE Select(u) \/ StartRace(u)
  BY <1>2, <1>4, <1>11 DEF Select, StartRace
<1> QED BY <1>5, <1>6, <1>7, <1>8, <1>9, <1>10, <1>11 DEF CallStep

\* A thread that races reports a total failure only by ending its race.
LEMMA OnlyRaceOver ==
  ASSUME IInv, Next, NEW t \in Threads, At(t, "race"), thread'[t].result = "all failed"
  PROVE  Pending(thread[t].race) = {}
<1>1. thread[t].result = "none" /\ Shaped
  BY ThreadInv DEF At
<1>2. thread'[t] # thread[t]
  BY <1>1
<1>3. ASSUME NEW u \in Threads, StartSelect(u) \/ StartGather(u) \/ StartNames(u) \/ StartCheck(u)
      PROVE  FALSE
  <2>1. At(u, "idle") /\ u # t
    BY <1>3 DEF StartSelect, StartGather, StartNames, StartCheck, At
  <2>2. PICK C, S, L, Z : thread \in [Threads -> Locals(C, S, L, Z)]
    BY <1>1 DEF Shaped
  <2>3. PICK new : thread' = [thread EXCEPT ![u] = new]
    BY <1>3 DEF StartSelect, StartGather, StartNames, StartCheck, Loop
  <2> QED BY <1>2, <2>1, <2>2, <2>3
<1>4. ASSUME NEW u \in Threads, CallStep(u)
      PROVE  u = t /\ RaceOver(t)
  <2>1. u = t
    BY <1>2, <1>4, OwnLocals
  <2>2. CASE TakeResult(t)
    <3>1. PICK C, S, L, Z : thread \in [Threads -> Locals(C, S, L, Z)]
      BY <1>1 DEF Shaped
    <3>2. ASSUME NEW p, NEW ok,
                 thread' = [thread EXCEPT ![t].pc = "record", ![t].chosen = p, ![t].ok = ok]
          PROVE  thread'[t].result = thread[t].result
      BY <3>1, <3>2 DEF Locals
    <3>3. PICK p : thread' = [thread EXCEPT ![t].pc = "record", ![t].chosen = p,
                                            ![t].ok = job[thread[t].race][p] = "ok"]
      BY <2>2 DEF TakeResult
    <3>4. PICK ok \in BOOLEAN : ok = (job[thread[t].race][p] = "ok")
      OBVIOUS
    <3>5. thread' = [thread EXCEPT ![t].pc = "record", ![t].chosen = p, ![t].ok = ok]
      BY <3>3, <3>4
    <3>6. thread'[t].result = thread[t].result
      BY <3>2, <3>5
    <3> QED BY <1>1, <3>6
  <2>3. CASE RaceTimeout(t)
    <3>1. Return(t, "timeout") /\ "timeout" \in Results
      BY <2>3 DEF RaceTimeout, Results
    <3> QED BY <1>1, <3>1, ReturnLocals
  <2> QED BY <1>4, <2>1, <2>2, <2>3
        DEF CallStep, At, Gather, Name, Lookup, Select, StartRace, RoundRobin, Execute, Record,
            Count, CountFailed, ReadRate, Degrade, Visit, SetStatus
<1>5. ASSUME NEW u \in Threads, NEW p \in Providers, Register(u, p) \/ Unregister(u, p)
      PROVE  FALSE
  BY <1>2, <1>5 DEF Register, Unregister
<1>6. ASSUME NEW c \in 1 .. MaxCalls, NEW p \in Providers, StartJob(c, p) \/ EndJob(c, p)
      PROVE  FALSE
  BY <1>2, <1>6 DEF StartJob, EndJob
<1> QED BY <1>3, <1>4, <1>5, <1>6 DEF Next, RaceOver

-----------------------------------------------------------------------------
(* The theorems                                                            *)

\* Nobody who reads a provider's counts, with the lock or without it, ever
\* sees more failures than requests: Provider.failure_rate is at most one in
\* the middle of _record_result too, because the requests are counted before
\* the failures and all under _lock.
THEOREM RateBounded == Spec => []RateAtMostOne
<1>1. IInv => RateAtMostOne
  BY DEF IInv
<1> QED BY <1>1, Invariance, PTL

\* route_race raises "All participants failed" only when every one of its
\* jobs ran, raised and was recorded: it never reports a loss while a winner,
\* or a job that another call's winner cancelled, is among its own.
THEOREM RaceVerdictHolds == Spec => RaceVerdict
<1> DEFINE Verdict ==
      \A t \in Threads :
        At(t, "race") /\ thread'[t].result = "all failed" =>
          \A p \in Providers : job[thread[t].race][p] \in {"none", "lost"}
<1>1. IInv /\ [Next]_vars => [Verdict]_vars
  <2> SUFFICES ASSUME IInv, Next, NEW t \in Threads, At(t, "race"),
                      thread'[t].result = "all failed", NEW p \in Providers
               PROVE  job[thread[t].race][p] \in {"none", "lost"}
    OBVIOUS
  <2>1. job[thread[t].race][p] \notin {"queued", "running", "ok", "raised"}
    BY OnlyRaceOver DEF Pending
  <2>2. thread[t].race # 0 /\ ~thread[t].ok
    BY ThreadInv
  <2>3. job[thread[t].race][p] \notin {"won", "cancelled"}
    BY <2>2 DEF IInv, Races, At, Walks
  <2>4. Shaped /\ MaxCalls \in Nat
    BY RouterCoreAssumption DEF IInv, Types
  <2>5. thread[t].race \in 0 .. MaxCalls
    BY <2>4, HasLocals
  <2>5a. thread[t].race # 0
    BY <2>2
  <2>6. thread[t].race \in 1 .. MaxCalls
    BY <2>5, <2>5a, NumbersACall
  <2>7. job[thread[t].race][p] \in JobStates
    BY <2>6 DEF IInv, Types
  <2> QED BY <2>1, <2>3, <2>7 DEF JobStates
<1>2. Spec => [][Verdict]_vars
  BY <1>1, Invariance, PTL DEF Spec
<1> QED BY <1>2 DEF RaceVerdict

=============================================================================
