------------------------ MODULE StationThreadsProofs ------------------------
(***************************************************************************)
(* Theorems about StationThreads, for any number of request threads: its   *)
(* types, how far the automatic retries can exceed their policy when       *)
(* commands interleave, and what a clean shutdown leaves in state.json.    *)
(***************************************************************************)
EXTENDS StationThreads, SequenceTheorems, TLAPS

-----------------------------------------------------------------------------
(* Threads.                                                                *)

\* The conjuncts of TypeOK that speak of the threads.
ThreadsTyped ==
    /\ thread \in [Threads -> ThreadStates]
    /\ \A t \in Threads : thread[t].proc # NoPlayer =>
                             Working(t) /\ Head(thread[t].todo) = "waiting"
    /\ \A t \in Threads :
          thread[t].todo \in Seq(AccessesOf(t)) \/ Attempting(t)

\* What most steps do to the attempts that threads have worked out, and to a
\* supervisor that has found a retry due: nothing but drop them.
Kept ==
    \A u \in Threads :
        /\ thread'[u].attempt \in {0, thread[u].attempt}
        /\ thread'[u].todo \in Seq(AccessesOf(u)) \/ thread'[u].todo = thread[u].todo

LEMMA IdleTyped ==
    /\ Idle \in ThreadStates /\ Idle.proc = NoPlayer /\ Idle.attempt = 0
    /\ \A t \in Threads : Idle.todo \in Seq(AccessesOf(t))
BY DEF Idle, Unknown, Stopped, ThreadStates, RuntimeStates

\* All accesses of a thread are accesses.
LEMMA OwnAccesses ==
    ASSUME NEW t \in Threads
    PROVE  /\ AccessesOf(t) \subseteq Accesses
           /\ Seq(AccessesOf(t)) \subseteq Seq(Accesses)
           /\ <<"attempt">> \in Seq(Accesses)
           /\ <<"attempt">> \notin Seq(AccessesOf(t))
<1>1. AccessesOf(t) \subseteq Accesses /\ "attempt" \notin AccessesOf(t)
  BY DEF AccessesOf, Accesses, TickAccesses, CommandAccesses
<1>2. "attempt" \in Accesses
  BY DEF Accesses
<1>3. <<"attempt">> \notin Seq(AccessesOf(t))
  <2>1. ASSUME <<"attempt">> \in Seq(AccessesOf(t)) PROVE FALSE
    <3>1. Head(<<"attempt">>) \in AccessesOf(t)
      BY <2>1
    <3> QED
      BY <1>1, <3>1
  <2> QED
    BY <2>1
<1> QED
  BY <1>1, <1>2, <1>3

\* Only the supervisor's thread is ever at an access of a tick.
LEMMA OnlyTicks ==
    ASSUME NEW t \in Threads, ThreadsTyped,
           \/ At(t, "tick") \/ At(t, "poll") \/ At(t, "retry") \/ At(t, "attempt")
           \/ At(t, "count")
    PROVE  t = Supervisor /\ AccessesOf(t) = TickAccesses
<1>1. SUFFICES ASSUME t # Supervisor PROVE FALSE
  BY DEF AccessesOf
<1>2. thread[t].todo \in Seq(CommandAccesses) /\ thread[t].todo # <<>>
  BY <1>1 DEF ThreadsTyped, AccessesOf, Attempting, At, Working
<1>3. Head(thread[t].todo) \in CommandAccesses
  BY <1>2
<1> QED
  BY <1>3 DEF CommandAccesses, At

\* What a working thread has in mind after its access.
LEMMA TailTyped ==
    ASSUME NEW t \in Threads, ThreadsTyped, Working(t)
    PROVE  Tail(thread[t].todo) \in Seq(AccessesOf(t))
<1>1. CASE Attempting(t)
  <2>1. Tail(<<"attempt">>) = <<>>
    OBVIOUS
  <2> QED
    BY <1>1, <2>1 DEF Attempting
<1>2. CASE thread[t].todo \in Seq(AccessesOf(t))
  BY <1>2 DEF Working
<1> QED
  BY <1>1, <1>2 DEF ThreadsTyped

\* A thread that changes its record, and waits or is done waiting.
LEMMA RecordTyped ==
    ASSUME NEW t \in Threads, ThreadsTyped, NEW record \in ThreadStates,
           record.proc # NoPlayer =>
              record.todo # <<>> /\ Head(record.todo) = "waiting",
           \/ record.todo \in Seq(AccessesOf(t))
           \/ t = Supervisor /\ record.todo = <<"attempt">>,
           thread' = [thread EXCEPT ![t] = record]
    PROVE  /\ ThreadsTyped'
           /\ \A u \in Threads : thread'[u] = IF u = t THEN record ELSE thread[u]
<1>1. \A u \in Threads : thread'[u] = IF u = t THEN record ELSE thread[u]
  BY DEF ThreadsTyped
<1>2. thread' \in [Threads -> ThreadStates]
  BY DEF ThreadsTyped
<1>3. \A u \in Threads : thread'[u].proc # NoPlayer =>
                             thread'[u].todo # <<>> /\ Head(thread'[u].todo) = "waiting"
  BY <1>1 DEF ThreadsTyped, Working
<1>4. \A u \in Threads : \/ thread'[u].todo \in Seq(AccessesOf(u))
                         \/ u = Supervisor /\ thread'[u].todo = <<"attempt">>
  BY <1>1 DEF ThreadsTyped, Attempting
<1> QED
  BY <1>1, <1>2, <1>3, <1>4 DEF ThreadsTyped, Working, Attempting

\* The same, for a thread that keeps or drops its attempt.
LEMMA RecordKept ==
    ASSUME NEW t \in Threads, ThreadsTyped, NEW record \in ThreadStates,
           record.proc # NoPlayer =>
              record.todo # <<>> /\ Head(record.todo) = "waiting",
           record.todo \in Seq(AccessesOf(t)),
           record.attempt \in {0, thread[t].attempt},
           thread' = [thread EXCEPT ![t] = record]
    PROVE  ThreadsTyped' /\ Kept
<1>1. ThreadsTyped'
      /\ \A u \in Threads : thread'[u] = IF u = t THEN record ELSE thread[u]
  BY RecordTyped
<1> QED
  BY <1>1 DEF Kept

\* A command that returns, or ends in an exception, leaves its thread idle.
LEMMA ReturnTyped ==
    ASSUME NEW t \in Threads, ThreadsTyped, Return(t)
    PROVE  ThreadsTyped' /\ Kept
BY IdleTyped, RecordKept DEF Return

\* A thread that goes on with other accesses than a wait stays well typed.
LEMMA ContinueTyped ==
    ASSUME NEW t \in Threads, ThreadsTyped, Working(t),
           Head(thread[t].todo) # "waiting",
           NEW s \in RuntimeStates, NEW first \in Seq(AccessesOf(t)),
           ContinueWith(t, s, first)
    PROVE  ThreadsTyped' /\ Kept
<1> DEFINE todo == first \o Tail(thread[t].todo)
           next == IF todo = <<>> THEN Idle
                   ELSE [thread[t] EXCEPT !.todo = todo, !.st = s]
<1>1. thread[t] \in ThreadStates /\ thread[t].proc = NoPlayer
  BY DEF ThreadsTyped
<1>2. todo \in Seq(AccessesOf(t)) /\ todo \in Seq(Accesses)
  BY TailTyped, OwnAccesses
<1>3. thread' = [thread EXCEPT ![t] = next]
  BY DEF ContinueWith
<1>4. next \in ThreadStates /\ next.proc = NoPlayer
      /\ next.todo \in Seq(AccessesOf(t))
      /\ next.attempt \in {0, thread[t].attempt}
  <2> HIDE DEF todo
  <2> QED
    BY <1>1, <1>2, IdleTyped DEF ThreadStates
<1> HIDE DEF next
<1> QED
  BY <1>3, <1>4, RecordKept

\* Continue is ContinueWith of the thread's own copy.
LEMMA ContinueOwnTyped ==
    ASSUME NEW t \in Threads, ThreadsTyped, Working(t),
           Head(thread[t].todo) # "waiting",
           NEW first \in Seq(AccessesOf(t)), Continue(t, first)
    PROVE  ThreadsTyped' /\ Kept
<1>1. thread[t].st \in RuntimeStates
  BY DEF ThreadsTyped, ThreadStates
<1>2. ContinueWith(t, thread[t].st, first)
  BY DEF Continue
<1> QED
  BY <1>1, <1>2, ContinueTyped

\* What the commands still have to do after their loads are accesses that every
\* thread may make.
LEMMA PlansTyped ==
    ASSUME NEW t \in Threads
    PROVE  /\ <<>> \in Seq(AccessesOf(t))
           /\ CommandAccesses \subseteq AccessesOf(t)
           /\ \A a \in CommandAccesses : <<a>> \in Seq(AccessesOf(t))
           /\ PlayEpisode \in Seq(AccessesOf(t))
           /\ PlaySelected \in Seq(AccessesOf(t))
           /\ PlaySelected \o <<"save">> \in Seq(AccessesOf(t))
           /\ <<"terminate", "stopped", "reset">> \o PlayEpisode
                 \o <<"judge_once", "save">> \in Seq(AccessesOf(t))
           /\ <<"terminate", "paused", "save">> \in Seq(AccessesOf(t))
           /\ <<"terminate", "stopped", "reset", "save">> \in Seq(AccessesOf(t))
           /\ <<"reset", "save">> \in Seq(AccessesOf(t))
           /\ <<"schedule", "save">> \in Seq(AccessesOf(t))
           /\ <<"set_volume", "save">> \in Seq(AccessesOf(t))
           /\ <<"save">> \in Seq(AccessesOf(t))
           /\ <<"reset">> \in Seq(AccessesOf(t))
           /\ <<"schedule">> \in Seq(AccessesOf(t))
<1>0. CommandAccesses \subseteq AccessesOf(t)
  BY DEF AccessesOf, TickAccesses
<1> DEFINE S == AccessesOf(t)
<1>1. /\ "switch" \in S /\ "launch" \in S /\ "judge" \in S /\ "save" \in S
      /\ "judge_once" \in S /\ "terminate" \in S /\ "stopped" \in S /\ "reset" \in S
      /\ "paused" \in S /\ "schedule" \in S /\ "set_volume" \in S
  BY <1>0 DEF CommandAccesses
<1> HIDE DEF S
<1>2. <<"switch", "launch">> \in Seq(S) /\ <<"judge">> \in Seq(S)
      /\ <<"save">> \in Seq(S) /\ <<"judge_once", "save">> \in Seq(S)
      /\ <<"terminate", "stopped", "reset">> \in Seq(S)
      /\ <<"reset">> \in Seq(S) /\ <<"schedule">> \in Seq(S)
  BY <1>1
<1>3. PlayEpisode \in Seq(S) /\ PlaySelected \in Seq(S)
  BY <1>2 DEF PlayEpisode, PlaySelected
<1>4. PlaySelected \o <<"save">> \in Seq(S)
  BY <1>2, <1>3
<1>5. <<"terminate", "stopped", "reset">> \o PlayEpisode \o <<"judge_once", "save">>
         \in Seq(S)
  BY <1>2, <1>3
<1>6. /\ <<"terminate", "paused", "save">> \in Seq(S)
      /\ <<"terminate", "stopped", "reset", "save">> \in Seq(S)
      /\ <<"reset", "save">> \in Seq(S) /\ <<"schedule", "save">> \in Seq(S)
      /\ <<"set_volume", "save">> \in Seq(S)
  BY <1>1
<1>7. <<>> \in Seq(S) /\ \A a \in CommandAccesses : <<a>> \in Seq(S)
  BY <1>0 DEF S
<1> QED
  BY <1>0, <1>2, <1>3, <1>4, <1>5, <1>6, <1>7 DEF S

\* What a tick may go on with.
LEMMA TickPlansTyped ==
    /\ <<"retry">> \in Seq(TickAccesses) /\ <<"poll">> \in Seq(TickAccesses)
    /\ <<"terminate", "stopped", "count">> \o PlaySelected \o <<"save">>
          \in Seq(TickAccesses)
<1>1. Supervisor \in Threads /\ AccessesOf(Supervisor) = TickAccesses
  BY DEF Threads, AccessesOf
<1>2. PlaySelected \in Seq(TickAccesses) /\ <<"save">> \in Seq(TickAccesses)
  BY <1>1, PlansTyped
<1>3. /\ "retry" \in TickAccesses /\ "poll" \in TickAccesses /\ "count" \in TickAccesses
      /\ "terminate" \in TickAccesses /\ "stopped" \in TickAccesses
  BY DEF TickAccesses, CommandAccesses
<1>4. <<"terminate", "stopped", "count">> \in Seq(TickAccesses)
  BY <1>3
<1> QED
  BY <1>2, <1>3, <1>4

\* The copies that commands make up are runtime states.
LEMMA CopiesTyped ==
    /\ Stopped \in RuntimeStates /\ Unknown \in RuntimeStates
    /\ Blocked \in RuntimeStates
    /\ [status |-> "playing", error |-> FALSE] \in RuntimeStates
BY DEF Stopped, Unknown, Blocked, RuntimeStates

\* The beginnings of commands keep the threads well typed.
LEMMA LoadsTyped ==
    ASSUME NEW t \in Threads, TypeOK, Loads(t)
    PROVE  ThreadsTyped' /\ Kept
<1>0. ThreadsTyped /\ st \in RuntimeStates
  BY DEF TypeOK, ThreadsTyped
<1>1. CASE LoadPlay(t)
  <2>1. Working(t) /\ Head(thread[t].todo) # "waiting" /\ ContinueWith(t, st, <<"compare">>)
    BY <1>1 DEF LoadPlay, At
  <2>2. <<"compare">> \in Seq(AccessesOf(t))
    BY PlansTyped DEF CommandAccesses
  <2> QED
    BY <1>0, <2>1, <2>2, ContinueTyped
<1>2. CASE Compare(t)
  <2>1. Working(t) /\ Head(thread[t].todo) # "waiting"
    BY <1>2 DEF Compare, At
  <2>2. <<"save">> \in Seq(AccessesOf(t))
    BY PlansTyped DEF CommandAccesses
  <2>3. Continue(t, <<"save">>) \/ ContinueWith(t, Unknown, PlaySelected \o <<"save">>)
    BY <1>2 DEF Compare
  <2> QED
    BY <1>0, <2>1, <2>2, <2>3, ContinueTyped, ContinueOwnTyped, PlansTyped, CopiesTyped
<1>3. CASE LoadNext(t)
  <2>1. Working(t) /\ Head(thread[t].todo) # "waiting"
        /\ Continue(t, PlaySelected \o <<"save">>)
    BY <1>3 DEF LoadNext, At
  <2> QED
    BY <1>0, <2>1, ContinueOwnTyped, PlansTyped
<1>4. CASE LoadPause(t)
  <2> DEFINE s == [st EXCEPT !.status = "paused"]
             first == IF st.status = "paused" THEN <<"save">>
                      ELSE <<"terminate", "paused", "save">>
  <2>1. Working(t) /\ Head(thread[t].todo) # "waiting" /\ ContinueWith(t, s, first)
    BY <1>4 DEF LoadPause, At
  <2>2. s \in RuntimeStates
    BY <1>0 DEF RuntimeStates
  <2>3. first \in Seq(AccessesOf(t))
    BY PlansTyped DEF CommandAccesses
  <2> HIDE DEF s, first
  <2> QED
    BY <1>0, <2>1, <2>2, <2>3, ContinueTyped
<1>5. CASE LoadToggle(t)
  <2> DEFINE first == IF st.status = "playing" THEN <<"pause">> ELSE <<"play">>
  <2>1. Working(t) /\ Head(thread[t].todo) # "waiting" /\ Continue(t, first)
    BY <1>5 DEF LoadToggle, At
  <2>2. first \in Seq(AccessesOf(t))
    BY PlansTyped DEF CommandAccesses
  <2> HIDE DEF first
  <2> QED
    BY <1>0, <2>1, <2>2, ContinueOwnTyped
<1>6. CASE LoadStop(t)
  <2> DEFINE first == IF st.status # "stopped"
                      THEN <<"terminate", "stopped", "reset", "save">>
                      ELSE IF st.error THEN <<"reset", "save">>
                      ELSE <<"save">>
  <2>1. Working(t) /\ Head(thread[t].todo) # "waiting" /\ ContinueWith(t, Stopped, first)
    BY <1>6 DEF LoadStop, At
  <2>2. first \in Seq(AccessesOf(t))
    BY PlansTyped DEF CommandAccesses
  <2> HIDE DEF first
  <2> QED
    BY <1>0, <2>1, <2>2, ContinueTyped, CopiesTyped
<1>7. CASE LoadVolume(t)
  <2>1. Working(t) /\ Head(thread[t].todo) # "waiting"
        /\ ContinueWith(t, st, <<"set_volume", "save">>)
    BY <1>7 DEF LoadVolume, At
  <2> QED
    BY <1>0, <2>1, ContinueTyped, PlansTyped
<1>8. CASE LoadRecover(t)
  <2>1. Working(t) /\ Head(thread[t].todo) # "waiting"
        /\ ContinueWith(t, st, <<"recoverable">>)
    BY <1>8 DEF LoadRecover, At
  <2>2. <<"recoverable">> \in Seq(AccessesOf(t))
    BY PlansTyped DEF CommandAccesses
  <2> QED
    BY <1>0, <2>1, <2>2, ContinueTyped
<1>9. CASE Recoverable(t)
  <2>1. Working(t) /\ Head(thread[t].todo) # "waiting"
    BY <1>9 DEF Recoverable, At
  <2>2. \/ ContinueWith(t, Unknown, <<"terminate", "stopped", "reset">>
                                      \o PlayEpisode \o <<"judge_once", "save">>)
        \/ Return(t)
    BY <1>9 DEF Recoverable
  <2> QED
    BY <1>0, <2>1, <2>2, ContinueTyped, PlansTyped, CopiesTyped, ReturnTyped
<1>10. CASE LoadTick(t)
  <2>1. Working(t) /\ Head(thread[t].todo) # "waiting"
    BY <1>10 DEF LoadTick, At
  <2>2. <<"retry">> \in Seq(AccessesOf(t)) /\ <<"poll">> \in Seq(AccessesOf(t))
    <3>1. AccessesOf(t) = TickAccesses
      BY <1>0, <1>10, OnlyTicks DEF LoadTick
    <3> QED
      BY <3>1, TickPlansTyped
  <2>3. \/ ContinueWith(t, st, <<"retry">>)
        \/ ContinueWith(t, st, <<"poll">>)
        \/ Return(t)
    BY <1>10 DEF LoadTick
  <2> QED
    BY <1>0, <2>1, <2>2, <2>3, ContinueTyped, ReturnTyped
<1> QED
  BY <1>1, <1>2, <1>3, <1>4, <1>5, <1>6, <1>7, <1>8, <1>9, <1>10 DEF Loads

-----------------------------------------------------------------------------
(* The output.                                                             *)

PlayersTyped ==
    players \in [Players -> {"running", "ending", "completed", "failed", "killed"}]

\* Telling a player to end, waiting for it, and what the exception of a wait
\* that took too long leaves.
LEMMA WaitsTyped ==
    ASSUME NEW t \in Threads, TypeOK, Terminate(t) \/ Waited(t) \/ WaitTimesOut(t)
    PROVE  /\ ThreadsTyped' /\ Kept /\ out' \in Backends /\ PlayersTyped'
           /\ phase' \in {phase, "ended"} /\ alone' \in BOOLEAN
           /\ UNCHANGED <<st, retry, loop, races>>
<1>0. ThreadsTyped /\ out \in Backends /\ PlayersTyped /\ alone \in BOOLEAN
      /\ thread[t] \in ThreadStates
  BY DEF TypeOK, ThreadsTyped, PlayersTyped
<1>1. CASE Terminate(t)
  <2>1. Working(t) /\ Head(thread[t].todo) # "waiting"
    BY <1>1 DEF Terminate, At
  <2>2. out' \in Backends
    BY <1>0, <1>1 DEF Terminate, Backends
  <2>3. CASE out.proc = NoPlayer
    <3>1. Continue(t, <<>>) /\ UNCHANGED players
      BY <1>1, <2>3 DEF Terminate
    <3>2. ThreadsTyped' /\ Kept
      BY <1>0, <2>1, <3>1, ContinueOwnTyped, PlansTyped
    <3> QED
      BY <1>0, <1>1, <2>2, <3>1, <3>2 DEF Terminate, PlayersTyped
  <2>4. CASE out.proc # NoPlayer
    <3> DEFINE todo == <<"waiting">> \o Tail(thread[t].todo)
               record == [thread[t] EXCEPT !.todo = todo, !.proc = out.proc]
    <3>1. thread' = [thread EXCEPT ![t] = record]
      BY <1>1, <2>4 DEF Terminate
    <3>2. /\ todo \in Seq(AccessesOf(t)) /\ todo \in Seq(Accesses)
          /\ Head(todo) = "waiting" /\ todo # <<>>
      <4>1. Tail(thread[t].todo) \in Seq(AccessesOf(t))
        BY <1>0, <2>1, TailTyped
      <4>2. <<"waiting">> \in Seq(AccessesOf(t))
        BY PlansTyped DEF CommandAccesses
      <4> QED
        BY <4>1, <4>2, OwnAccesses
    <3>3. out.proc \in Players \cup {NoPlayer}
      BY <1>0 DEF Backends
    <3> HIDE DEF todo
    <3>4. /\ record \in ThreadStates /\ record.attempt = thread[t].attempt
          /\ record.todo # <<>> /\ Head(record.todo) = "waiting"
          /\ record.todo \in Seq(AccessesOf(t))
      BY <1>0, <3>2, <3>3 DEF ThreadStates
    <3> HIDE DEF record
    <3>5. ThreadsTyped' /\ Kept
      BY <1>0, <3>1, <3>4, RecordKept
    <3>6. PlayersTyped'
      BY <1>0, <1>1, <2>4, <3>3 DEF Terminate, PlayersTyped
    <3> QED
      BY <1>0, <1>1, <2>2, <3>5, <3>6 DEF Terminate
  <2> QED
    BY <2>3, <2>4
<1>2. CASE Waited(t)
  <2> DEFINE todo == Tail(thread[t].todo)
             record == [thread[t] EXCEPT !.todo = todo, !.proc = NoPlayer]
  <2>1. thread' = [thread EXCEPT ![t] = record]
    BY <1>2 DEF Waited
  <2>2. todo \in Seq(AccessesOf(t)) /\ todo \in Seq(Accesses)
    BY <1>0, <1>2, TailTyped, OwnAccesses DEF Waited, At
  <2> HIDE DEF todo
  <2>3. record \in ThreadStates /\ record.proc = NoPlayer
        /\ record.attempt = thread[t].attempt /\ record.todo \in Seq(AccessesOf(t))
    BY <1>0, <2>2 DEF ThreadStates
  <2> HIDE DEF record
  <2>4. ThreadsTyped' /\ Kept
    BY <1>0, <2>1, <2>3, RecordKept
  <2>5. out' \in Backends
    BY <1>0, <1>2 DEF Waited, Backends
  <2> QED
    BY <1>0, <1>2, <2>4, <2>5 DEF Waited, PlayersTyped
<1>3. CASE WaitTimesOut(t)
  <2>1. Return(t)
    BY <1>3 DEF WaitTimesOut, Raise, Return
  <2>2. out' \in Backends
    BY <1>0, <1>3 DEF WaitTimesOut, Backends
  <2> QED
    BY <1>0, <1>3, <2>1, <2>2, ReturnTyped DEF WaitTimesOut, Raise, PlayersTyped
<1> QED
  BY <1>1, <1>2, <1>3

\* The other calls of the output, and what the supervisor's poll finds.
LEMMA CallsTyped ==
    ASSUME NEW t \in Threads, TypeOK,
           \/ SetPaused(t) \/ SetStopped(t) \/ Launch(t) \/ LaunchFails(t)
           \/ SetVolume(t) \/ PollNothing(t) \/ PollCompletion(t) \/ PollFailure(t)
    PROVE  /\ ThreadsTyped' /\ Kept /\ out' \in Backends /\ PlayersTyped'
           /\ UNCHANGED <<st, retry, loop, phase, races, alone>>
<1>0. ThreadsTyped /\ out \in Backends /\ PlayersTyped
  BY DEF TypeOK, ThreadsTyped, PlayersTyped
<1>1. Working(t) /\ Head(thread[t].todo) # "waiting"
  BY DEF SetPaused, SetStopped, Launch, LaunchFails, SetVolume, PollNothing,
         PollCompletion, PollFailure, At
<1>2. CASE SetPaused(t) \/ SetStopped(t) \/ Launch(t) \/ LaunchFails(t)
  <2>1. Continue(t, <<>>)
    BY <1>2 DEF SetPaused, SetStopped, Launch, LaunchFails
  <2>2. out' \in Backends
    BY <1>0, <1>2 DEF SetPaused, SetStopped, Launch, LaunchFails, FreePlayers, Backends
  <2>3. PlayersTyped'
    BY <1>0, <1>2 DEF SetPaused, SetStopped, Launch, LaunchFails, FreePlayers,
                      PlayersTyped
  <2>4. UNCHANGED <<st, retry, loop, phase, races, alone>>
    BY <1>2 DEF SetPaused, SetStopped, Launch, LaunchFails
  <2>5. ThreadsTyped' /\ Kept
    BY <1>0, <1>1, <2>1, ContinueOwnTyped, PlansTyped
  <2> QED
    BY <2>2, <2>3, <2>4, <2>5
<1>3. CASE SetVolume(t)
  <2> DEFINE first == IF out.episode /\ out.state = "playing" THEN PlayEpisode ELSE <<>>
  <2>1. Continue(t, first)
    BY <1>3 DEF SetVolume
  <2>2. first \in Seq(AccessesOf(t))
    BY PlansTyped
  <2> HIDE DEF first
  <2>3. ThreadsTyped' /\ Kept
    BY <1>0, <1>1, <2>1, <2>2, ContinueOwnTyped
  <2> QED
    BY <1>0, <1>3, <2>3 DEF SetVolume, PlayersTyped
<1>4. CASE PollNothing(t)
  BY <1>0, <1>4, ReturnTyped DEF PollNothing, PlayersTyped
<1>5. CASE PollCompletion(t)
  <2>1. out' \in Backends
    BY <1>0, <1>5 DEF PollCompletion, Backends
  <2>2. ContinueWith(t, Unknown, PlaySelected \o <<"save">>)
    BY <1>5 DEF PollCompletion
  <2>3. ThreadsTyped' /\ Kept
    BY <1>0, <1>1, <2>2, ContinueTyped, PlansTyped, CopiesTyped
  <2> QED
    BY <1>0, <1>5, <2>1, <2>3 DEF PollCompletion, PlayersTyped
<1>6. CASE PollFailure(t)
  <2>1. out' \in Backends
    BY <1>0, <1>6 DEF PollFailure, Backends
  <2>2. ContinueWith(t, Blocked, <<"schedule", "save">>)
    BY <1>6 DEF PollFailure
  <2>3. ThreadsTyped' /\ Kept
    BY <1>0, <1>1, <2>2, ContinueTyped, PlansTyped, CopiesTyped
  <2> QED
    BY <1>0, <1>6, <2>1, <2>3 DEF PollFailure, PlayersTyped
<1> QED
  BY <1>2, <1>3, <1>4, <1>5, <1>6

-----------------------------------------------------------------------------
(* The retry policy.                                                       *)

\* The inductive invariant: types, RetryBounded with the attempts that threads
\* have worked out and not yet written, and that a supervisor which has found a
\* retry due has an attempt left, whatever the other threads do meanwhile.
AttemptLeft == Attempting(Supervisor) => retry.attempts < MaxAttempts + races

ThreadsInv == TypeOK /\ RetryBounded /\ AttemptLeft

\* RetryBounded, of a retry state under a bound.
Bounded(r, bound) ==
    /\ r.attempts <= bound
    /\ r.next # "none" => r.attempts < bound

\* The invariant's second part, spelled out.
PolicyHolds(r, bound) ==
    /\ Bounded(r, bound)
    /\ \A u \in Threads : thread[u].attempt <= bound
    /\ thread[Supervisor].todo = <<"attempt">> => r.attempts < bound

LEMMA PolicySpelled ==
    /\ RetryBounded /\ AttemptLeft <=> PolicyHolds(retry, MaxAttempts + races)
    /\ (RetryBounded /\ AttemptLeft)' <=>
          /\ Bounded(retry', MaxAttempts + races')
          /\ \A u \in Threads : thread'[u].attempt <= MaxAttempts + races'
          /\ thread'[Supervisor].todo = <<"attempt">> =>
                retry'.attempts < MaxAttempts + races'
BY DEF RetryBounded, AttemptLeft, PolicyHolds, Bounded, Attempting

\* The bound and what is compared with it are numbers.
LEMMA PolicyNumbers ==
    ASSUME TypeOK
    PROVE  /\ MaxAttempts + races \in Nat /\ races \in Nat
           /\ retry.attempts \in Nat /\ retry \in RetryStates
           /\ \A u \in Threads : thread[u].attempt \in Nat
BY ThreadsAssumption DEF TypeOK, RetryStates, ThreadStates

\* A step that keeps the attempts, and leaves the count and schedule alone or
\* starts them again, keeps the policy.
LEMMA PolicyKept ==
    ASSUME ThreadsInv, Kept, races' = races,
           \/ /\ retry'.attempts = retry.attempts
              /\ retry.next = "none" => retry'.next = "none"
           \/ retry' = NoRetry
    PROVE  (RetryBounded /\ AttemptLeft)'
<1>0. /\ TypeOK /\ PolicyHolds(retry, MaxAttempts + races)
      /\ Supervisor \in Threads
  BY PolicySpelled DEF ThreadsInv, Threads
<1> DEFINE K == MaxAttempts + races
<1>1. K \in Nat /\ retry.attempts \in Nat /\ \A u \in Threads : thread[u].attempt \in Nat
  BY <1>0, PolicyNumbers
<1>2. Bounded(retry, K) /\ \A u \in Threads : thread[u].attempt <= K
  BY <1>0 DEF PolicyHolds
<1>3. thread'[Supervisor].todo = <<"attempt">> => retry.attempts < K
  <2>1. <<"attempt">> \notin Seq(AccessesOf(Supervisor))
    BY <1>0, OwnAccesses
  <2>2. thread'[Supervisor].todo = <<"attempt">> => thread[Supervisor].todo = <<"attempt">>
    BY <1>0, <2>1 DEF Kept
  <2> QED
    BY <1>0, <2>2 DEF PolicyHolds
<1>4. MaxAttempts + races' = K
  OBVIOUS
<1> HIDE DEF K
<1>5. \A u \in Threads : thread'[u].attempt <= K
  BY <1>1, <1>2 DEF Kept
<1>6. Bounded(retry', K)
      /\ (thread'[Supervisor].todo = <<"attempt">> => retry'.attempts < K)
  BY <1>1, <1>2, <1>3 DEF Bounded, NoRetry
<1> QED
  BY <1>4, <1>5, <1>6, PolicySpelled

-----------------------------------------------------------------------------
(* The service: the retry state and the end of a command.                  *)

\* The steps that leave the retry state alone or start it again.
LEMMA ServiceTyped ==
    ASSUME NEW t \in Threads, TypeOK, Judge(t) \/ Reset(t) \/ Save(t)
    PROVE  /\ ThreadsTyped' /\ Kept /\ st' \in RuntimeStates
           /\ retry' \in {retry, NoRetry} /\ retry' \in RetryStates
           /\ UNCHANGED <<out, players, loop, phase, races, alone>>
<1>0. ThreadsTyped /\ st \in RuntimeStates /\ thread[t] \in ThreadStates
      /\ retry \in RetryStates /\ NoRetry \in RetryStates
  BY DEF TypeOK, ThreadsTyped, NoRetry, RetryStates
<1>1. Working(t) /\ Head(thread[t].todo) # "waiting"
  BY DEF Judge, Reset, Save, At
<1>2. CASE Judge(t)
  <2> DEFINE first == IF At(t, "judge") THEN <<"schedule">> ELSE <<>>
  <2>1. \/ ContinueWith(t, Blocked, first)
        \/ ContinueWith(t, [status |-> "playing", error |-> FALSE], <<"reset">>)
    BY <1>2 DEF Judge
  <2>2. first \in Seq(AccessesOf(t))
    BY PlansTyped
  <2> HIDE DEF first
  <2>3. ThreadsTyped' /\ Kept
    BY <1>0, <1>1, <2>1, <2>2, ContinueTyped, PlansTyped, CopiesTyped
  <2> QED
    BY <1>0, <1>2, <2>3 DEF Judge
<1>3. CASE Reset(t)
  <2>1. Continue(t, <<>>)
    BY <1>3 DEF Reset
  <2>2. ThreadsTyped' /\ Kept
    BY <1>0, <1>1, <2>1, ContinueOwnTyped, PlansTyped
  <2> QED
    BY <1>0, <1>3, <2>2 DEF Reset
<1>4. CASE Save(t)
  <2>1. Continue(t, <<>>)
    BY <1>4 DEF Save
  <2>2. ThreadsTyped' /\ Kept
    BY <1>0, <1>1, <2>1, ContinueOwnTyped, PlansTyped
  <2>3. st' \in RuntimeStates
    BY <1>0, <1>4 DEF Save, ThreadStates
  <2> QED
    BY <1>0, <1>4, <2>2, <2>3 DEF Save
<1> QED
  BY <1>2, <1>3, <1>4

\* _schedule_retry works out an attempt that the policy allows.
LEMMA ScheduleKeeps ==
    ASSUME NEW t \in Threads, ThreadsInv, Schedule(t)
    PROVE  ThreadsTyped' /\ (RetryBounded /\ AttemptLeft)'
<1>0. /\ TypeOK /\ ThreadsTyped /\ thread[t] \in ThreadStates
      /\ Working(t) /\ Head(thread[t].todo) # "waiting"
      /\ retry' = retry /\ races' = races
  BY DEF ThreadsInv, TypeOK, ThreadsTyped, Schedule, At
<1>1. CASE retry.next = "none" /\ retry.attempts < MaxAttempts
  <2> DEFINE todo == <<"postpone">> \o Tail(thread[t].todo)
             number == retry.attempts + 1
             record == [thread[t] EXCEPT !.todo = todo, !.attempt = number]
  <2>1. thread' = [thread EXCEPT ![t] = record]
    BY <1>1 DEF Schedule
  <2>2. todo \in Seq(AccessesOf(t)) /\ todo \in Seq(Accesses)
    <3>1. Tail(thread[t].todo) \in Seq(AccessesOf(t))
      BY <1>0, TailTyped
    <3>2. <<"postpone">> \in Seq(AccessesOf(t))
      BY PlansTyped DEF CommandAccesses
    <3> QED
      BY <3>1, <3>2, OwnAccesses
  <2>3. retry.attempts \in Nat /\ number \in Nat
    BY <1>0, PolicyNumbers
  <2> HIDE DEF todo, number
  <2>4. /\ record \in ThreadStates /\ record.proc = NoPlayer
        /\ record.todo \in Seq(AccessesOf(t)) /\ record.attempt = number
    BY <1>0, <2>2, <2>3 DEF ThreadStates, ThreadsTyped
  <2> HIDE DEF record
  <2>5. ThreadsTyped' /\ \A u \in Threads : thread'[u] = IF u = t THEN record ELSE thread[u]
    BY <1>0, <2>1, <2>4, RecordTyped
  <2>6. (RetryBounded /\ AttemptLeft)'
    <3> DEFINE K == MaxAttempts + races
    <3>1. /\ K \in Nat /\ PolicyHolds(retry, K) /\ MaxAttempts \in Nat /\ races \in Nat
          /\ Supervisor \in Threads
      BY <1>0, PolicyNumbers, PolicySpelled, ThreadsAssumption DEF ThreadsInv, Threads
    <3>2. record.attempt <= K
      BY <1>1, <2>3, <2>4, <3>1 DEF number
    <3>3. thread'[Supervisor].todo = <<"attempt">> => retry.attempts < K
      <4>1. record.todo # <<"attempt">>
        BY <2>4, OwnAccesses
      <4> QED
        BY <2>5, <3>1, <4>1 DEF PolicyHolds
    <3>4. \A u \in Threads : thread'[u].attempt <= K
      BY <2>5, <3>1, <3>2 DEF PolicyHolds
    <3>5. MaxAttempts + races' = K /\ Bounded(retry', K)
      BY <1>0, <3>1 DEF PolicyHolds
    <3> HIDE DEF K
    <3> QED
      BY <1>0, <3>3, <3>4, <3>5, PolicySpelled
  <2> QED
    BY <2>5, <2>6
<1>2. CASE ~(retry.next = "none" /\ retry.attempts < MaxAttempts)
  <2>1. Continue(t, <<>>)
    BY <1>2 DEF Schedule
  <2>2. ThreadsTyped' /\ Kept
    BY <1>0, <2>1, ContinueOwnTyped, PlansTyped
  <2> QED
    BY <1>0, <2>2, PolicyKept
<1> QED
  BY <1>1, <1>2

\* What a thread that drops its attempt leaves of its own.
LEMMA DropTyped ==
    ASSUME NEW t \in Threads, ThreadsTyped, Working(t),
           Head(thread[t].todo) # "waiting",
           thread' = [thread EXCEPT ![t].todo = Tail(@), ![t].attempt = 0]
    PROVE  /\ ThreadsTyped' /\ Kept
           /\ thread'[t].todo \in Seq(AccessesOf(t))
<1> DEFINE todo == Tail(thread[t].todo)
           record == [thread[t] EXCEPT !.todo = todo, !.attempt = 0]
<1>1. thread' = [thread EXCEPT ![t] = record]
  OBVIOUS
<1>2. todo \in Seq(AccessesOf(t)) /\ todo \in Seq(Accesses)
  BY TailTyped, OwnAccesses
<1> HIDE DEF todo
<1>3. record \in ThreadStates /\ record.proc = NoPlayer /\ record.attempt = 0
      /\ record.todo \in Seq(AccessesOf(t))
  BY <1>2 DEF ThreadStates, ThreadsTyped
<1> HIDE DEF record
<1> QED
  BY <1>1, <1>3, RecordKept DEF ThreadsTyped

\* Here an overtaken schedule is paid for: when the retry state is no longer the
\* one that was looked at, the bound moves by one; when it still is, an attempt
\* was left under it.
LEMMA PostponeKeeps ==
    ASSUME NEW t \in Threads, ThreadsInv, Postpone(t)
    PROVE  /\ ThreadsTyped' /\ (RetryBounded /\ AttemptLeft)'
           /\ retry' \in RetryStates /\ races' \in Nat
<1>0. /\ TypeOK /\ ThreadsTyped
      /\ Working(t) /\ Head(thread[t].todo) # "waiting"
      /\ thread' = [thread EXCEPT ![t].todo = Tail(@), ![t].attempt = 0]
  BY DEF ThreadsInv, TypeOK, ThreadsTyped, Postpone, At
<1>1. ThreadsTyped' /\ Kept
  BY <1>0, DropTyped
<1> DEFINE K == MaxAttempts + races
           L == MaxAttempts + races'
<1>2. /\ K \in Nat /\ races \in Nat /\ MaxAttempts \in Nat /\ retry \in RetryStates
      /\ retry.attempts \in Nat /\ PolicyHolds(retry, K) /\ Supervisor \in Threads
      /\ \A u \in Threads : thread[u].attempt \in Nat
  BY <1>0, PolicyNumbers, PolicySpelled, ThreadsAssumption DEF ThreadsInv, Threads
<1>3. retry' \in RetryStates /\ retry'.attempts = retry.attempts /\ retry'.next = "later"
  BY <1>2 DEF Postpone, RetryStates
<1>4. races' \in Nat /\ L \in Nat /\ K <= L /\ retry.attempts < L
  <2>1. CASE Overtaken(t)
    <3>1. races' = races + 1
      BY <2>1 DEF Postpone
    <3>2. retry.attempts <= K
      BY <1>2 DEF PolicyHolds, Bounded
    <3> QED
      BY <1>2, <3>1, <3>2
  <2>2. CASE ~Overtaken(t)
    <3>1. races' = races
      BY <2>2 DEF Postpone
    <3>2. retry.attempts + 1 = thread[t].attempt /\ thread[t].attempt <= K
      BY <1>2, <2>2 DEF Overtaken, PolicyHolds
    <3> QED
      BY <1>2, <3>1, <3>2
  <2> QED
    BY <2>1, <2>2
<1> HIDE DEF K, L
<1>5. \A u \in Threads : thread'[u].attempt <= L
  BY <1>1, <1>2, <1>4 DEF Kept, PolicyHolds
<1>6. Bounded(retry', L) /\ retry'.attempts < L
  BY <1>2, <1>3, <1>4 DEF Bounded
<1> QED
  BY <1>1, <1>3, <1>4, <1>5, <1>6, PolicySpelled DEF L

\* A supervisor that finds a retry due finds an attempt left with it.
LEMMA RetryKeeps ==
    ASSUME NEW t \in Threads, ThreadsInv, Retry(t)
    PROVE  ThreadsTyped' /\ (RetryBounded /\ AttemptLeft)'
<1>0. /\ TypeOK /\ ThreadsTyped /\ thread[t] \in ThreadStates
      /\ Working(t) /\ Head(thread[t].todo) # "waiting"
      /\ retry' = retry /\ races' = races /\ t = Supervisor
  BY OnlyTicks DEF ThreadsInv, TypeOK, ThreadsTyped, Retry, At
<1>1. CASE retry.next = "due"
  <2> DEFINE todo == <<"attempt">>
             record == [thread[t] EXCEPT !.todo = todo]
  <2>1. thread' = [thread EXCEPT ![t] = record]
    BY <1>1 DEF Retry
  <2>2. todo \in Seq(Accesses)
    BY OwnAccesses
  <2> HIDE DEF todo
  <2>3. /\ record \in ThreadStates /\ record.proc = NoPlayer
        /\ record.todo = todo /\ record.attempt = thread[t].attempt
    BY <1>0, <2>2 DEF ThreadStates, ThreadsTyped
  <2> HIDE DEF record
  <2>4. ThreadsTyped' /\ \A u \in Threads : thread'[u] = IF u = t THEN record ELSE thread[u]
    BY <1>0, <2>1, <2>3, RecordTyped DEF todo
  <2>5. (RetryBounded /\ AttemptLeft)'
    <3> DEFINE K == MaxAttempts + races
    <3>1. PolicyHolds(retry, K)
      BY PolicySpelled DEF ThreadsInv
    <3>2. retry.attempts < K
      BY <1>1, <3>1 DEF PolicyHolds, Bounded
    <3>3. \A u \in Threads : thread'[u].attempt <= K
      BY <2>3, <2>4, <3>1 DEF PolicyHolds
    <3>4. MaxAttempts + races' = K /\ Bounded(retry', K) /\ retry'.attempts < K
      BY <1>0, <3>1, <3>2 DEF PolicyHolds
    <3> HIDE DEF K
    <3> QED
      BY <3>3, <3>4, PolicySpelled
  <2> QED
    BY <2>4, <2>5
<1>2. CASE retry.next # "due"
  <2>1. Continue(t, <<"save">>)
    BY <1>2 DEF Retry
  <2>2. ThreadsTyped' /\ Kept
    BY <1>0, <2>1, ContinueOwnTyped, PlansTyped
  <2> QED
    BY <1>0, <2>2, PolicyKept
<1> QED
  BY <1>1, <1>2

\* The number of the attempt is within the bound, and stays so until Count
\* writes it, whatever the other threads do to the count meanwhile.
LEMMA AttemptKeeps ==
    ASSUME NEW t \in Threads, ThreadsInv, Attempt(t)
    PROVE  ThreadsTyped' /\ (RetryBounded /\ AttemptLeft)'
<1>0. /\ TypeOK /\ ThreadsTyped /\ thread[t] \in ThreadStates
      /\ Working(t) /\ Head(thread[t].todo) = "attempt"
      /\ retry' = retry /\ races' = races /\ t = Supervisor
      /\ AccessesOf(t) = TickAccesses
  BY OnlyTicks DEF ThreadsInv, TypeOK, ThreadsTyped, Attempt, At
<1>1. thread[Supervisor].todo = <<"attempt">>
  <2>1. CASE thread[t].todo \in Seq(AccessesOf(t))
    <3>1. Head(thread[t].todo) \in AccessesOf(t)
      BY <1>0, <2>1 DEF Working
    <3> QED
      BY <1>0, <3>1 DEF TickAccesses, CommandAccesses
  <2> QED
    BY <1>0, <2>1 DEF ThreadsTyped, Attempting
<1> DEFINE todo == <<"terminate", "stopped", "count">> \o PlaySelected \o <<"save">>
           number == retry.attempts + 1
           record == [thread[t] EXCEPT !.todo = todo, !.st = Unknown,
                                       !.attempt = number]
<1>2. thread' = [thread EXCEPT ![t] = record]
  BY DEF Attempt
<1>3. todo \in Seq(AccessesOf(t)) /\ todo \in Seq(Accesses) /\ retry.attempts \in Nat
      /\ number \in Nat
  BY <1>0, TickPlansTyped, OwnAccesses, PolicyNumbers
<1> HIDE DEF todo, number
<1>4. /\ record \in ThreadStates /\ record.proc = NoPlayer
      /\ record.todo \in Seq(AccessesOf(t)) /\ record.attempt = number
  BY <1>0, <1>3, CopiesTyped DEF ThreadStates, ThreadsTyped
<1> HIDE DEF record
<1>5. ThreadsTyped' /\ \A u \in Threads : thread'[u] = IF u = t THEN record ELSE thread[u]
  BY <1>0, <1>2, <1>4, RecordTyped
<1>6. (RetryBounded /\ AttemptLeft)'
  <2> DEFINE K == MaxAttempts + races
  <2>1. K \in Nat /\ PolicyHolds(retry, K)
    BY <1>0, PolicyNumbers, PolicySpelled DEF ThreadsInv
  <2>2. record.attempt <= K
    BY <1>1, <1>3, <1>4, <2>1 DEF PolicyHolds, number
  <2>3. \A u \in Threads : thread'[u].attempt <= K
    BY <1>5, <2>1, <2>2 DEF PolicyHolds
  <2>4. thread'[Supervisor].todo # <<"attempt">>
    BY <1>0, <1>4, <1>5, OwnAccesses
  <2>5. MaxAttempts + races' = K /\ Bounded(retry', K)
    BY <1>0, <2>1 DEF PolicyHolds
  <2> HIDE DEF K
  <2> QED
    BY <2>3, <2>4, <2>5, PolicySpelled
<1> QED
  BY <1>5, <1>6

LEMMA CountKeeps ==
    ASSUME NEW t \in Threads, ThreadsInv, Count(t)
    PROVE  ThreadsTyped' /\ (RetryBounded /\ AttemptLeft)' /\ retry' \in RetryStates
<1>0. /\ TypeOK /\ ThreadsTyped
      /\ Working(t) /\ Head(thread[t].todo) # "waiting"
      /\ thread' = [thread EXCEPT ![t].todo = Tail(@), ![t].attempt = 0]
      /\ races' = races /\ t = Supervisor
      /\ retry' = [attempts |-> thread[t].attempt, next |-> "none"]
  BY OnlyTicks DEF ThreadsInv, TypeOK, ThreadsTyped, Count, At
<1>1. ThreadsTyped' /\ Kept /\ thread'[t].todo \in Seq(AccessesOf(t))
  BY <1>0, DropTyped
<1> DEFINE K == MaxAttempts + races
<1>2. /\ K \in Nat /\ PolicyHolds(retry, K)
      /\ \A u \in Threads : thread[u].attempt \in Nat
  BY <1>0, PolicyNumbers, PolicySpelled DEF ThreadsInv
<1>3. retry' \in RetryStates /\ retry'.attempts = thread[t].attempt
      /\ retry'.next = "none"
  BY <1>0, <1>2 DEF RetryStates
<1>4. MaxAttempts + races' = K
  BY <1>0
<1> HIDE DEF K
<1>5. Bounded(retry', K)
  BY <1>2, <1>3 DEF Bounded, PolicyHolds
<1>6. \A u \in Threads : thread'[u].attempt <= K
  BY <1>1, <1>2 DEF Kept, PolicyHolds
<1>7. thread'[Supervisor].todo # <<"attempt">>
  BY <1>0, <1>1, OwnAccesses
<1> QED
  BY <1>1, <1>3, <1>4, <1>5, <1>6, <1>7, PolicySpelled

-----------------------------------------------------------------------------
(* The loop, the main thread, the server and the world.                    *)

\* An idle thread that is given something to do.
LEMMA BegunTyped ==
    ASSUME NEW t \in Threads, ThreadsTyped, ~Working(t), NEW a \in AccessesOf(t),
           thread' = [thread EXCEPT ![t].todo = <<a>>]
    PROVE  ThreadsTyped' /\ Kept
<1> DEFINE todo == <<a>>
           record == [thread[t] EXCEPT !.todo = todo]
<1>1. thread[t] \in ThreadStates /\ thread[t].proc = NoPlayer
  BY DEF ThreadsTyped
<1>2. todo \in Seq(AccessesOf(t)) /\ todo \in Seq(Accesses)
  BY OwnAccesses
<1>3. thread' = [thread EXCEPT ![t] = record]
  OBVIOUS
<1> HIDE DEF todo
<1>4. record \in ThreadStates /\ record.proc = NoPlayer
      /\ record.attempt = thread[t].attempt /\ record.todo \in Seq(AccessesOf(t))
  BY <1>1, <1>2 DEF ThreadStates
<1> HIDE DEF record
<1> QED
  BY <1>3, <1>4, RecordKept

LEMMA UntouchedKept == ThreadsTyped /\ UNCHANGED thread => ThreadsTyped' /\ Kept
BY DEF ThreadsTyped, Kept, Working, Attempting

\* Nothing round the service touches the retry attempts, and the clock only
\* makes a scheduled retry due.
LEMMA WorldTyped ==
    ASSUME TypeOK,
           \/ RunLoop \/ Serve \/ Interrupt \/ Joined \/ JoinTimesOut \/ Exit
           \/ RetryFallsDue
           \/ \E r \in Requests, c \in Commands : Request(r, c)
           \/ \E p \in Players : PlayerExits(p)
    PROVE  /\ TypeOK' /\ Kept /\ races' = races
           /\ retry'.attempts = retry.attempts
           /\ retry.next = "none" => retry'.next = "none"
<1>0. ThreadsTyped
  BY DEF TypeOK, ThreadsTyped
<1>1. CASE RunLoop
  <2>1. CASE loop = "asked"
    BY <1>0, <1>1, <2>1, UntouchedKept DEF RunLoop, TypeOK, ThreadsTyped
  <2>2. CASE loop # "asked"
    <3>1. "tick" \in AccessesOf(Supervisor) /\ Supervisor \in Threads
      BY DEF AccessesOf, TickAccesses, Threads
    <3>2. ThreadsTyped' /\ Kept
      BY <1>0, <1>1, <2>2, <3>1, BegunTyped DEF RunLoop
    <3> QED
      BY <1>1, <2>2, <3>2 DEF RunLoop, TypeOK, ThreadsTyped
  <2> QED
    BY <2>1, <2>2
<1>2. CASE Serve \/ Interrupt \/ Exit
  <2>1. UNCHANGED <<st, out, retry, players, thread, races, alone>>
    BY <1>2 DEF Serve, Interrupt, Exit
  <2>2. loop' \in {"running", "asked", "ended"}
        /\ phase' \in {"starting", "serving", "joining", "stopping", "ended"}
    BY <1>2 DEF Serve, Interrupt, Exit, TypeOK
  <2> QED
    BY <1>0, <2>1, <2>2, UntouchedKept DEF TypeOK, ThreadsTyped
<1>3. CASE Joined \/ JoinTimesOut
  <2>1. Main \in Threads /\ "stop" \in AccessesOf(Main)
    BY PlansTyped DEF Threads, CommandAccesses
  <2>2. \E b \in BOOLEAN : StopStation(b)
    BY <1>3 DEF Joined, JoinTimesOut
  <2>3. ~Working(Main) /\ thread' = [thread EXCEPT ![Main].todo = <<"stop">>]
    BY <2>2 DEF StopStation
  <2>4. ThreadsTyped' /\ Kept
    BY <1>0, <2>1, <2>3, BegunTyped
  <2> QED
    BY <2>2, <2>4 DEF StopStation, TypeOK, ThreadsTyped
<1>4. CASE RetryFallsDue
  <2>1. retry' \in RetryStates /\ retry'.attempts = retry.attempts
        /\ (retry.next = "none" => retry'.next = "none")
    BY <1>4 DEF RetryFallsDue, TypeOK, RetryStates
  <2> QED
    BY <1>0, <1>4, <2>1, UntouchedKept DEF RetryFallsDue, TypeOK, ThreadsTyped
<1>5. CASE \E r \in Requests, c \in Commands : Request(r, c)
  <2>1. PICK r \in Requests, c \in Commands : Request(r, c)
    BY <1>5
  <2>2. r \in Threads /\ c \in AccessesOf(r)
    BY ThreadsAssumption, PlansTyped DEF Threads, CommandAccesses
  <2>3. ThreadsTyped' /\ Kept
    BY <1>0, <2>1, <2>2, BegunTyped DEF Request
  <2> QED
    BY <2>1, <2>3 DEF Request, TypeOK, ThreadsTyped
<1>6. CASE \E p \in Players : PlayerExits(p)
  BY <1>0, <1>6, UntouchedKept DEF PlayerExits, TypeOK, ThreadsTyped
<1> QED
  BY <1>1, <1>2, <1>3, <1>4, <1>5, <1>6

-----------------------------------------------------------------------------
(* Theorems.                                                               *)

LEMMA InitThreads == Init => ThreadsInv
<1> SUFFICES ASSUME Init PROVE ThreadsInv
  OBVIOUS
<1>0. Main \in Threads /\ Main # Supervisor
  BY ThreadsAssumption DEF Threads
<1> DEFINE todo == <<"play">>
           begun == [Idle EXCEPT !.todo = todo]
<1>1. todo \in Seq(AccessesOf(Main)) /\ todo \in Seq(Accesses)
  BY <1>0, PlansTyped, OwnAccesses DEF CommandAccesses
<1>a. thread = [t \in Threads |-> IF t = Main /\ StartOnBoot THEN begun ELSE Idle]
  BY DEF Init
<1> HIDE DEF todo
<1>2. begun \in ThreadStates /\ begun.proc = NoPlayer /\ begun.attempt = 0
      /\ begun.todo = todo
  BY <1>1, IdleTyped DEF ThreadStates
<1> HIDE DEF begun
<1>3. /\ thread \in [Threads -> ThreadStates]
      /\ \A u \in Threads : /\ thread[u].proc = NoPlayer /\ thread[u].attempt = 0
                            /\ thread[u].todo \in Seq(AccessesOf(u))
  BY <1>a, <1>1, <1>2, IdleTyped
<1>4. out \in Backends
  BY DEF Init, Backends
<1>5. TypeOK
  BY <1>3, <1>4 DEF Init, TypeOK, NoRetry, RetryStates
<1>6. RetryBounded
  BY <1>3, ThreadsAssumption DEF Init, RetryBounded, NoRetry
<1>7. AttemptLeft
  <2>1. Supervisor \in Threads
    BY DEF Threads
  <2> QED
    BY <1>3, <2>1, OwnAccesses DEF AttemptLeft, Attempting
<1> QED
  BY <1>5, <1>6, <1>7 DEF ThreadsInv

LEMMA NextThreads == ThreadsInv /\ [Next]_vars => ThreadsInv'
<1> SUFFICES ASSUME ThreadsInv, [Next]_vars PROVE ThreadsInv'
  OBVIOUS
<1>0. TypeOK /\ ThreadsTyped /\ PlayersTyped
  BY DEF ThreadsInv, TypeOK, ThreadsTyped, PlayersTyped
<1>1. ASSUME NEW t \in Threads, Step(t) PROVE ThreadsInv'
  <2>1. CASE Loads(t)
    <3>1. ThreadsTyped' /\ Kept
      BY <1>0, <2>1, LoadsTyped
    <3>2. UNCHANGED <<st, out, retry, players, loop, phase, races, alone>>
      BY <2>1 DEF Loads
    <3>3. TypeOK'
      BY <1>0, <3>1, <3>2 DEF TypeOK, ThreadsTyped
    <3> QED
      BY <3>1, <3>2, <3>3, PolicyKept DEF ThreadsInv
  <2>2. CASE Terminate(t) \/ Waited(t) \/ WaitTimesOut(t)
    <3>1. /\ ThreadsTyped' /\ Kept /\ out' \in Backends /\ PlayersTyped'
          /\ phase' \in {phase, "ended"} /\ alone' \in BOOLEAN
          /\ UNCHANGED <<st, retry, loop, races>>
      BY <1>0, <2>2, WaitsTyped
    <3>2. TypeOK'
      BY <1>0, <3>1 DEF TypeOK, ThreadsTyped, PlayersTyped
    <3> QED
      BY <3>1, <3>2, PolicyKept DEF ThreadsInv
  <2>3. CASE \/ SetPaused(t) \/ SetStopped(t) \/ Launch(t) \/ LaunchFails(t)
             \/ SetVolume(t) \/ PollNothing(t) \/ PollCompletion(t) \/ PollFailure(t)
    <3>1. /\ ThreadsTyped' /\ Kept /\ out' \in Backends /\ PlayersTyped'
          /\ UNCHANGED <<st, retry, loop, phase, races, alone>>
      BY <1>0, <2>3, CallsTyped
    <3>2. TypeOK'
      BY <1>0, <3>1 DEF TypeOK, ThreadsTyped, PlayersTyped
    <3> QED
      BY <3>1, <3>2, PolicyKept DEF ThreadsInv
  <2>4. CASE Judge(t) \/ Reset(t) \/ Save(t)
    <3>1. /\ ThreadsTyped' /\ Kept /\ st' \in RuntimeStates
          /\ retry' \in {retry, NoRetry} /\ retry' \in RetryStates
          /\ UNCHANGED <<out, players, loop, phase, races, alone>>
      BY <1>0, <2>4, ServiceTyped
    <3>2. TypeOK'
      BY <1>0, <3>1 DEF TypeOK, ThreadsTyped
    <3> QED
      BY <3>1, <3>2, PolicyKept DEF ThreadsInv
  <2>5. CASE Schedule(t) \/ Retry(t) \/ Attempt(t)
    <3>1. ThreadsTyped' /\ (RetryBounded /\ AttemptLeft)'
      BY <2>5, ScheduleKeeps, RetryKeeps, AttemptKeeps
    <3>2. UNCHANGED <<st, out, retry, players, loop, phase, races, alone>>
      BY <2>5 DEF Schedule, Retry, Attempt
    <3>3. TypeOK'
      BY <1>0, <3>1, <3>2 DEF TypeOK, ThreadsTyped
    <3> QED
      BY <3>1, <3>3 DEF ThreadsInv
  <2>6. CASE Postpone(t)
    <3>1. /\ ThreadsTyped' /\ (RetryBounded /\ AttemptLeft)'
          /\ retry' \in RetryStates /\ races' \in Nat
      BY <2>6, PostponeKeeps
    <3>2. UNCHANGED <<st, out, players, loop, phase, alone>>
      BY <2>6 DEF Postpone
    <3>3. TypeOK'
      BY <1>0, <3>1, <3>2 DEF TypeOK, ThreadsTyped
    <3> QED
      BY <3>1, <3>3 DEF ThreadsInv
  <2>7. CASE Count(t)
    <3>1. ThreadsTyped' /\ (RetryBounded /\ AttemptLeft)' /\ retry' \in RetryStates
      BY <2>7, CountKeeps
    <3>2. UNCHANGED <<st, out, players, loop, phase, races, alone>>
      BY <2>7 DEF Count
    <3>3. TypeOK'
      BY <1>0, <3>1, <3>2 DEF TypeOK, ThreadsTyped
    <3> QED
      BY <3>1, <3>3 DEF ThreadsInv
  <2> QED
    BY <1>1, <2>1, <2>2, <2>3, <2>4, <2>5, <2>6, <2>7 DEF Step, Output, Service
<1>2. ASSUME \/ RunLoop \/ Serve \/ Interrupt \/ Joined \/ JoinTimesOut \/ Exit
             \/ RetryFallsDue
             \/ \E r \in Requests, c \in Commands : Request(r, c)
             \/ \E p \in Players : PlayerExits(p)
      PROVE  ThreadsInv'
  <2>1. /\ TypeOK' /\ Kept /\ races' = races
        /\ retry'.attempts = retry.attempts
        /\ retry.next = "none" => retry'.next = "none"
    BY <1>0, <1>2, WorldTyped
  <2> QED
    BY <2>1, PolicyKept DEF ThreadsInv
<1>3. CASE UNCHANGED vars
  <2>1. ThreadsTyped' /\ Kept
    BY <1>0, <1>3, UntouchedKept DEF vars
  <2>2. TypeOK'
    BY <1>0, <1>3, <2>1 DEF vars, TypeOK, ThreadsTyped
  <2> QED
    BY <1>3, <2>1, <2>2, PolicyKept DEF ThreadsInv, vars
<1> QED
  BY <1>1, <1>2, <1>3 DEF Next, Lifecycle

\* Type correctness of the threads for any number of them, any players and any
\* set of commands.
THEOREM ThreadsTyping == Spec => []TypeOK
<1>1. ThreadsInv => TypeOK
  BY DEF ThreadsInv
<1> QED
  BY <1>1, InitThreads, NextThreads, PTL DEF Spec

\* However commands, ticks and failures interleave, the automatic retries exceed
\* max_attempts by no more than the schedules that were overtaken between their
\* check and their write (service.py:488-507).
THEOREM RetriesBoundedUnderThreads == Spec => []RetryBounded
<1>1. ThreadsInv => RetryBounded
  BY DEF ThreadsInv
<1> QED
  BY <1>1, InitThreads, NextThreads, PTL DEF Spec

-----------------------------------------------------------------------------
(* The clean shutdown.                                                     *)

\* What the main thread's stop still has to do, once it has loaded the state.
StopPlans ==
    {<<"terminate", "stopped", "reset", "save">>,
     <<"waiting", "stopped", "reset", "save">>,
     <<"stopped", "reset", "save">>,
     <<"reset", "save">>,
     <<"save">>}

\* The stop is about to load the state, has made up what it will save, or has
\* saved it.
StopUnderWay ==
    \/ thread[Main].todo = <<"stop">>
    \/ thread[Main].todo \in StopPlans /\ thread[Main].st = Stopped
    \/ thread[Main].todo = <<>> /\ st = Stopped

\* CleanShutdown, strengthened by where the main thread's stop is and by the
\* supervisor's thread being gone once its loop has ended.
ShutdownInv ==
    /\ loop = "ended" => ~Working(Supervisor)
    /\ alone =>
          /\ loop = "ended"
          /\ \A r \in Requests : ~Working(r)
          /\ phase \in {"stopping", "ended"}
          /\ StopUnderWay
          /\ phase = "ended" => ~Working(Main)

\* A step of a thread leaves the other threads and the loop alone.
LEMMA StepFrame ==
    ASSUME NEW t \in Threads, ThreadsTyped, alone \in BOOLEAN, Step(t)
    PROVE  /\ Working(t) /\ phase # "ended"
           /\ \A u \in Threads \ {t} : thread'[u] = thread[u]
           /\ loop' = loop /\ phase' \in {phase, "ended"} /\ alone' \in {alone, FALSE}
           /\ t # Main => phase' = phase /\ alone' = alone
           /\ alone' => phase' = phase
<1>1. Working(t) /\ phase # "ended"
  <2>1. Loads(t) => Working(t) /\ phase # "ended"
    BY DEF Loads, LoadPlay, Compare, LoadNext, LoadPause, LoadToggle, LoadStop,
           LoadVolume, LoadRecover, Recoverable, LoadTick, At
  <2>2. Output(t) => Working(t) /\ phase # "ended"
    BY DEF Output, Terminate, Waited, WaitTimesOut, SetPaused, SetStopped, Launch,
           LaunchFails, SetVolume, PollNothing, PollCompletion, PollFailure, At
  <2>3. Service(t) => Working(t) /\ phase # "ended"
    BY DEF Service, Judge, Schedule, Postpone, Reset, Retry, Attempt, Count, Save, At
  <2> QED
    BY <2>1, <2>2, <2>3 DEF Step
<1>2. \E record : thread' = [thread EXCEPT ![t] = record]
  <2>1. ASSUME NEW s, NEW first, ContinueWith(t, s, first)
        PROVE  \E record : thread' = [thread EXCEPT ![t] = record]
    <3> DEFINE todo == first \o Tail(thread[t].todo)
               record == IF todo = <<>> THEN Idle
                         ELSE [thread[t] EXCEPT !.todo = todo, !.st = s]
    <3>1. thread' = [thread EXCEPT ![t] = record]
      BY <2>1 DEF ContinueWith
    <3> HIDE DEF record
    <3> QED
      BY <3>1
  <2>2. ASSUME NEW first, Continue(t, first)
        PROVE  \E record : thread' = [thread EXCEPT ![t] = record]
    BY <2>1, <2>2 DEF Continue
  <2>3. ASSUME Return(t) \/ Raise(t)
        PROVE  \E record : thread' = [thread EXCEPT ![t] = record]
    BY <2>3 DEF Return, Raise
  <2>4. Loads(t) => \E record : thread' = [thread EXCEPT ![t] = record]
    BY <2>1, <2>2, <2>3
       DEF Loads, LoadPlay, Compare, LoadNext, LoadPause, LoadToggle, LoadStop,
           LoadVolume, LoadRecover, Recoverable, LoadTick
  <2>5. Output(t) => \E record : thread' = [thread EXCEPT ![t] = record]
    <3>1. Terminate(t) => \E record : thread' = [thread EXCEPT ![t] = record]
      <4> DEFINE record == [thread[t] EXCEPT !.todo = <<"waiting">> \o Tail(thread[t].todo),
                                             !.proc = out.proc]
      <4>1. Terminate(t) => Continue(t, <<>>) \/ thread' = [thread EXCEPT ![t] = record]
        BY DEF Terminate
      <4> HIDE DEF record
      <4> QED
        BY <4>1, <2>2
    <3>2. Waited(t) => \E record : thread' = [thread EXCEPT ![t] = record]
      <4> DEFINE record == [thread[t] EXCEPT !.todo = Tail(thread[t].todo), !.proc = NoPlayer]
      <4>1. Waited(t) => thread' = [thread EXCEPT ![t] = record]
        BY DEF Waited
      <4> HIDE DEF record
      <4> QED
        BY <4>1
    <3>3. WaitTimesOut(t) => Raise(t)
      BY DEF WaitTimesOut
    <3>4. \/ SetPaused(t) \/ SetStopped(t) \/ Launch(t) \/ LaunchFails(t)
          \/ SetVolume(t) \/ PollNothing(t) \/ PollCompletion(t) \/ PollFailure(t)
          => \E record : thread' = [thread EXCEPT ![t] = record]
      BY <2>1, <2>2, <2>3 DEF SetPaused, SetStopped, Launch, LaunchFails, SetVolume,
         PollNothing, PollCompletion, PollFailure
    <3> QED
      BY <3>1, <3>2, <3>3, <3>4, <2>3 DEF Output
  <2>6. Service(t) => \E record : thread' = [thread EXCEPT ![t] = record]
    <3>1. Judge(t) \/ Reset(t) \/ Save(t)
          => \E record : thread' = [thread EXCEPT ![t] = record]
      BY <2>1, <2>2 DEF Judge, Reset, Save
    <3>2. Retry(t) => \E record : thread' = [thread EXCEPT ![t] = record]
      <4> DEFINE record == [thread[t] EXCEPT !.todo = <<"attempt">>]
      <4>1. Retry(t) => Continue(t, <<"save">>) \/ thread' = [thread EXCEPT ![t] = record]
        BY DEF Retry
      <4> HIDE DEF record
      <4> QED
        BY <4>1, <2>2
    <3>3. Attempt(t) => \E record : thread' = [thread EXCEPT ![t] = record]
      <4> DEFINE todo == <<"terminate", "stopped", "count">> \o PlaySelected \o <<"save">>
                 record == [thread[t] EXCEPT !.todo = todo, !.st = Unknown,
                                             !.attempt = retry.attempts + 1]
      <4>1. Attempt(t) => thread' = [thread EXCEPT ![t] = record]
        BY DEF Attempt
      <4> HIDE DEF record
      <4> QED
        BY <4>1
    <3>4. Schedule(t) => \E record : thread' = [thread EXCEPT ![t] = record]
      <4> DEFINE record == [thread[t] EXCEPT !.todo = <<"postpone">> \o Tail(thread[t].todo),
                                             !.attempt = retry.attempts + 1]
      <4>1. Schedule(t) => Continue(t, <<>>) \/ thread' = [thread EXCEPT ![t] = record]
        BY DEF Schedule
      <4> HIDE DEF record
      <4> QED
        BY <4>1, <2>2
    <3>5. Postpone(t) \/ Count(t) => \E record : thread' = [thread EXCEPT ![t] = record]
      <4> DEFINE record == [thread[t] EXCEPT !.todo = Tail(thread[t].todo), !.attempt = 0]
      <4>1. Postpone(t) \/ Count(t) => thread' = [thread EXCEPT ![t] = record]
        BY DEF Postpone, Count
      <4> HIDE DEF record
      <4> QED
        BY <4>1
    <3> QED
      BY <3>1, <3>2, <3>3, <3>4, <3>5 DEF Service
  <2> QED
    BY <2>4, <2>5, <2>6 DEF Step
<1>3. \A u \in Threads \ {t} : thread'[u] = thread[u]
  BY <1>2 DEF ThreadsTyped
<1>4. \/ UNCHANGED <<loop, phase, alone>>
      \/ Raise(t)
  <2>1. Loads(t) => UNCHANGED <<loop, phase, alone>>
    BY DEF Loads
  <2>2. Output(t) => UNCHANGED <<loop, phase, alone>> \/ Raise(t)
    BY DEF Output, Terminate, Waited, WaitTimesOut, SetPaused, SetStopped, Launch,
           LaunchFails, SetVolume, PollNothing, PollCompletion, PollFailure
  <2>3. Service(t) => UNCHANGED <<loop, phase, alone>>
    BY DEF Service, Judge, Schedule, Postpone, Reset, Retry, Attempt, Count, Save
  <2> QED
    BY <2>1, <2>2, <2>3 DEF Step
<1>5. Raise(t) => /\ loop' = loop /\ phase' \in {phase, "ended"}
                  /\ t # Main => phase' = phase
                  /\ t # Main => alone' = alone
                  /\ t = Main => alone' = FALSE
  <2>1. CASE alone = TRUE
    BY <2>1 DEF Raise
  <2>2. CASE alone = FALSE
    BY <2>2 DEF Raise
  <2> QED
    BY <2>1, <2>2
<1> QED
  BY <1>1, <1>3, <1>4, <1>5

LEMMA NothingFirst ==
    ASSUME NEW q \in Seq(Accesses)
    PROVE  <<>> \o q = q /\ q \o <<>> = q
OBVIOUS

LEMMA PlansNotEmpty ==
    /\ <<"stopped", "reset", "save">> # <<>>
    /\ <<"reset", "save">> # <<>>
    /\ <<"save">> # <<>>
OBVIOUS

LEMMA LengthOfBoth ==
    ASSUME NEW p \in Seq(Accesses), NEW q \in Seq(Accesses)
    PROVE  p \o q \in Seq(Accesses) /\ Len(p \o q) = Len(p) + Len(q)
BY ConcatProperties

LEMMA WaitingFirst ==
    <<"waiting">> \o <<"stopped", "reset", "save">>
        = <<"waiting", "stopped", "reset", "save">>
<1> DEFINE whole == <<"waiting">> \o <<"stopped", "reset", "save">>
           plan == <<"waiting", "stopped", "reset", "save">>
<1>1. whole \in Seq(Accesses) /\ plan \in Seq(Accesses) /\ Len(whole) = 4 /\ Len(plan) = 4
  <2> DEFINE one == <<"waiting">>
             rest == <<"stopped", "reset", "save">>
  <2>1. one \in Seq(Accesses) /\ rest \in Seq(Accesses)
    BY DEF Accesses, TickAccesses, CommandAccesses
  <2>2. Len(one) = 1 /\ Len(rest) = 3
    OBVIOUS
  <2>3. plan \in Seq(Accesses)
    BY DEF Accesses, TickAccesses, CommandAccesses
  <2>4. Len(plan) = 4
    OBVIOUS
  <2> HIDE DEF one, rest, plan
  <2>5. one \o rest \in Seq(Accesses) /\ Len(one \o rest) = 4
    <3>1. one \o rest \in Seq(Accesses) /\ Len(one \o rest) = Len(one) + Len(rest)
      BY <2>1, LengthOfBoth, Zenon
    <3>2. Len(one \o rest) = 1 + 3
      BY <2>2, <3>1, Zenon
    <3>3. 1 + 3 = 4
      OBVIOUS
    <3> QED
      BY <3>1, <3>2, <3>3, Zenon
  <2> QED
    BY <2>3, <2>4, <2>5 DEF one, rest
<1>2. \A i \in 1 .. 4 : whole[i] = plan[i]
  <2>1. whole[1] = plan[1]
    OBVIOUS
  <2>2. whole[2] = plan[2]
    OBVIOUS
  <2>3. whole[3] = plan[3]
    OBVIOUS
  <2>4. whole[4] = plan[4]
    OBVIOUS
  <2> QED
    BY <2>1, <2>2, <2>3, <2>4
<1> HIDE DEF whole, plan
<1>3. whole = plan
  BY <1>1, <1>2, SeqEqual
<1> QED
  BY <1>3 DEF whole, plan

\* The main thread's stop makes up the stopped state when it loads, keeps it
\* through the calls, and saves it, unless one of them raises.
LEMMA StopProceeds ==
    ASSUME ThreadsTyped, StopUnderWay, Step(Main), alone', alone \in BOOLEAN
    PROVE  StopUnderWay'
<1> DEFINE todo == thread[Main].todo
<1>0. Main \in Threads /\ thread[Main] \in ThreadStates /\ todo \in Seq(Accesses)
  BY DEF Threads, ThreadsTyped, ThreadStates
<1>1. Working(Main)
  BY <1>0, StepFrame
<1>2. ASSUME NEW s, NEW first, ContinueWith(Main, s, first)
      PROVE  /\ first \o Tail(todo) = <<>> => thread'[Main].todo = <<>>
             /\ first \o Tail(todo) # <<>> =>
                   thread'[Main].todo = first \o Tail(todo) /\ thread'[Main].st = s
  <2> DEFINE rest == first \o Tail(todo)
  <2>1. CASE rest = <<>>
    <3>1. thread' = [thread EXCEPT ![Main] = Idle]
      BY <1>2, <2>1 DEF ContinueWith
    <3> QED
      BY <1>0, <2>1, <3>1 DEF ThreadsTyped, Idle
  <2>2. CASE rest # <<>>
    <3> DEFINE record == [thread[Main] EXCEPT !.todo = rest, !.st = s]
    <3>1. thread' = [thread EXCEPT ![Main] = record]
      BY <1>2, <2>2 DEF ContinueWith
    <3>2. record.todo = rest /\ record.st = s
      BY <1>0 DEF ThreadStates
    <3> HIDE DEF record
    <3> QED
      BY <1>0, <2>2, <3>1, <3>2 DEF ThreadsTyped
  <2> QED
    BY <2>1, <2>2
<1>a. ASSUME NEW s, ContinueWith(Main, s, <<>>), Tail(todo) # <<>>
      PROVE  thread'[Main].todo = Tail(todo) /\ thread'[Main].st = s
  <2>1. Tail(todo) \in Seq(Accesses)
    BY <1>0, <1>1 DEF Working
  <2>2. <<>> \o Tail(todo) = Tail(todo)
    BY <2>1, NothingFirst
  <2> QED
    BY <1>2, <1>a, <2>2
<1>3. CASE todo = <<"stop">>
  <2> DEFINE first == IF st.status # "stopped"
                      THEN <<"terminate", "stopped", "reset", "save">>
                      ELSE IF st.error THEN <<"reset", "save">>
                      ELSE <<"save">>
  <2>1. LoadStop(Main)
    BY <1>3 DEF Step, Loads, Output, Service, LoadPlay, Compare, LoadNext, LoadPause,
       LoadToggle, LoadVolume, LoadRecover, Recoverable, LoadTick, Terminate, Waited,
       WaitTimesOut, SetPaused, SetStopped, Launch, LaunchFails, SetVolume, PollNothing,
       PollCompletion, PollFailure, Judge, Schedule, Postpone, Reset, Retry, Attempt,
         Count, Save, At
  <2>2. ContinueWith(Main, Stopped, first)
    BY <2>1 DEF LoadStop
  <2>3. first \o Tail(todo) = first /\ first # <<>> /\ first \in StopPlans
    <3>1. Tail(todo) = <<>>
      BY <1>3
    <3>2. first \in Seq(Accesses) /\ first # <<>> /\ first \in StopPlans
      <4>1. first # <<>> /\ first \in StopPlans
        BY DEF StopPlans
      <4>2. first \in Seq(Accesses)
        BY <1>0, PlansTyped, OwnAccesses
      <4> QED
        BY <4>1, <4>2
    <3> HIDE DEF first, todo
    <3> QED
      BY <3>1, <3>2, NothingFirst
  <2> HIDE DEF first, todo
  <2>4. thread'[Main].todo = first /\ thread'[Main].st = Stopped
    BY <1>2, <2>2, <2>3
  <2> QED
    BY <2>3, <2>4 DEF StopUnderWay
<1>4. CASE todo \in StopPlans /\ thread[Main].st = Stopped
  <2>1. CASE todo = <<"terminate", "stopped", "reset", "save">>
    <3>1. Terminate(Main)
      BY <2>1 DEF Step, Loads, Output, Service, LoadPlay, Compare, LoadNext, LoadPause,
         LoadToggle, LoadStop, LoadVolume, LoadRecover, Recoverable, LoadTick, Waited,
         WaitTimesOut, SetPaused, SetStopped, Launch, LaunchFails, SetVolume, PollNothing,
         PollCompletion, PollFailure, Judge, Schedule, Postpone, Reset, Retry, Attempt,
         Count, Save, At
    <3>2. Tail(todo) = <<"stopped", "reset", "save">>
      BY <2>1
    <3>3. CASE out.proc = NoPlayer
      <4>1. ContinueWith(Main, Stopped, <<>>)
        BY <1>4, <3>1, <3>3 DEF Terminate, Continue
      <4>2. thread'[Main].todo = <<"stopped", "reset", "save">> /\ thread'[Main].st = Stopped
        BY <1>a, <3>2, <4>1, PlansNotEmpty
      <4> QED
        BY <4>2 DEF StopUnderWay, StopPlans
    <3>4. CASE out.proc # NoPlayer
      <4> DEFINE record == [thread[Main] EXCEPT !.todo = <<"waiting">> \o Tail(todo),
                                                !.proc = out.proc]
      <4>1. thread' = [thread EXCEPT ![Main] = record]
        BY <3>1, <3>4 DEF Terminate
      <4>2. <<"waiting">> \o Tail(todo) = <<"waiting", "stopped", "reset", "save">>
        BY <3>2, WaitingFirst
      <4>3. record.todo = <<"waiting", "stopped", "reset", "save">> /\ record.st = Stopped
        BY <1>0, <1>4, <4>2 DEF ThreadStates
      <4> HIDE DEF record
      <4>4. thread'[Main] = record
        BY <1>0, <4>1 DEF ThreadsTyped
      <4> QED
        BY <4>3, <4>4 DEF StopUnderWay, StopPlans
    <3> QED
      BY <3>3, <3>4
  <2>2. CASE todo = <<"waiting", "stopped", "reset", "save">>
    <3>1. Waited(Main) \/ WaitTimesOut(Main)
      BY <2>2 DEF Step, Loads, Output, Service, LoadPlay, Compare, LoadNext, LoadPause,
         LoadToggle, LoadStop, LoadVolume, LoadRecover, Recoverable, LoadTick, Terminate,
         SetPaused, SetStopped, Launch, LaunchFails, SetVolume, PollNothing,
         PollCompletion, PollFailure, Judge, Schedule, Postpone, Reset, Retry, Attempt,
         Count, Save, At
    <3>2. ~WaitTimesOut(Main)
      BY DEF WaitTimesOut, Raise
    <3> DEFINE record == [thread[Main] EXCEPT !.todo = Tail(todo), !.proc = NoPlayer]
    <3>3. thread' = [thread EXCEPT ![Main] = record]
      BY <3>1, <3>2 DEF Waited
    <3>4. Tail(todo) = <<"stopped", "reset", "save">>
      BY <2>2
    <3>5. record.todo = <<"stopped", "reset", "save">> /\ record.st = Stopped
      BY <1>0, <1>4, <3>4 DEF ThreadStates
    <3> HIDE DEF record
    <3>6. thread'[Main] = record
      BY <1>0, <3>3 DEF ThreadsTyped
    <3> QED
      BY <3>5, <3>6 DEF StopUnderWay, StopPlans
  <2>3. CASE todo = <<"stopped", "reset", "save">>
    <3>1. SetStopped(Main)
      BY <2>3 DEF Step, Loads, Output, Service, LoadPlay, Compare, LoadNext, LoadPause,
         LoadToggle, LoadStop, LoadVolume, LoadRecover, Recoverable, LoadTick, Terminate,
         Waited, WaitTimesOut, SetPaused, Launch, LaunchFails, SetVolume, PollNothing,
         PollCompletion, PollFailure, Judge, Schedule, Postpone, Reset, Retry, Attempt,
         Count, Save, At
    <3>2. ContinueWith(Main, Stopped, <<>>)
      BY <1>4, <3>1 DEF SetStopped, Continue
    <3>3. Tail(todo) = <<"reset", "save">>
      BY <2>3
    <3>4. thread'[Main].todo = <<"reset", "save">> /\ thread'[Main].st = Stopped
      BY <1>a, <3>2, <3>3, PlansNotEmpty, PlansNotEmpty
    <3> QED
      BY <3>4 DEF StopUnderWay, StopPlans
  <2>4. CASE todo = <<"reset", "save">>
    <3>1. Reset(Main)
      BY <2>4 DEF Step, Loads, Output, Service, LoadPlay, Compare, LoadNext, LoadPause,
         LoadToggle, LoadStop, LoadVolume, LoadRecover, Recoverable, LoadTick, Terminate,
         Waited, WaitTimesOut, SetPaused, SetStopped, Launch, LaunchFails, SetVolume,
         PollNothing, PollCompletion, PollFailure, Judge, Schedule, Postpone, Retry,
         Attempt, Count, Save, At
    <3>2. ContinueWith(Main, Stopped, <<>>)
      BY <1>4, <3>1 DEF Reset, Continue
    <3>3. Tail(todo) = <<"save">>
      BY <2>4
    <3>4. thread'[Main].todo = <<"save">> /\ thread'[Main].st = Stopped
      BY <1>a, <3>2, <3>3, PlansNotEmpty, PlansNotEmpty
    <3> QED
      BY <3>4 DEF StopUnderWay, StopPlans
  <2>5. CASE todo = <<"save">>
    <3>1. Save(Main)
      BY <2>5 DEF Step, Loads, Output, Service, LoadPlay, Compare, LoadNext, LoadPause,
         LoadToggle, LoadStop, LoadVolume, LoadRecover, Recoverable, LoadTick, Terminate,
         Waited, WaitTimesOut, SetPaused, SetStopped, Launch, LaunchFails, SetVolume,
         PollNothing, PollCompletion, PollFailure, Judge, Schedule, Postpone, Reset,
         Retry, Attempt, Count, At
    <3>2. ContinueWith(Main, Stopped, <<>>) /\ st' = Stopped
      BY <1>4, <3>1 DEF Save, Continue
    <3>3. <<>> \o Tail(todo) = <<>>
      BY <2>5
    <3> QED
      BY <1>2, <3>2, <3>3 DEF StopUnderWay
  <2> QED
    BY <1>4, <2>1, <2>2, <2>3, <2>4, <2>5 DEF StopPlans
<1>5. CASE todo = <<>>
  BY <1>1, <1>5 DEF Working
<1> QED
  BY <1>3, <1>4, <1>5 DEF StopUnderWay

\* The stop of an idle main thread has saved what it made up.
LEMMA StopsSaved == StopUnderWay /\ ~Working(Main) => st = Stopped
<1>1. <<"stop">> # <<>>
  OBVIOUS
<1>2. \A plan \in StopPlans : plan # <<>>
  BY DEF StopPlans
<1> QED
  BY <1>1, <1>2 DEF StopUnderWay, Working

LEMMA InitShutdown == Init => ShutdownInv
<1> SUFFICES ASSUME Init PROVE ShutdownInv
  OBVIOUS
<1>1. loop = "running" /\ alone = FALSE
  BY DEF Init
<1> QED
  BY <1>1 DEF ShutdownInv

LEMMA NextShutdown == ThreadsInv /\ ShutdownInv /\ [Next]_vars => ShutdownInv'
<1> SUFFICES ASSUME ThreadsInv, ShutdownInv, [Next]_vars PROVE ShutdownInv'
  OBVIOUS
<1>0. /\ ThreadsTyped /\ alone \in BOOLEAN
      /\ Main \in Threads /\ Supervisor \in Threads /\ Main # Supervisor
      /\ Requests \subseteq Threads /\ Main \notin Requests /\ Supervisor \notin Requests
  BY ThreadsAssumption DEF ThreadsInv, TypeOK, ThreadsTyped, Threads
<1>1. ASSUME NEW t \in Threads, Step(t) PROVE ShutdownInv'
  <2>1. /\ Working(t) /\ phase # "ended"
        /\ \A u \in Threads \ {t} : thread'[u] = thread[u]
        /\ loop' = loop /\ phase' \in {phase, "ended"} /\ alone' \in {alone, FALSE}
        /\ t # Main => phase' = phase /\ alone' = alone
        /\ alone' => phase' = phase
    BY <1>0, <1>1, StepFrame
  <2>2. loop' = "ended" => ~Working(Supervisor)'
    BY <1>0, <2>1 DEF ShutdownInv, Working
  <2>3. ASSUME alone'
        PROVE  /\ loop' = "ended"
               /\ \A r \in Requests : ~Working(r)'
               /\ phase' \in {"stopping", "ended"}
               /\ StopUnderWay'
               /\ phase' = "ended" => ~Working(Main)'
    <3>1. alone
      BY <1>0, <2>1, <2>3
    <3>2. t = Main
      BY <2>1, <3>1 DEF ShutdownInv, Threads
    <3>3. StopUnderWay'
      BY <1>0, <1>1, <2>3, <3>1, <3>2, StopProceeds DEF ShutdownInv
    <3>4. \A r \in Requests : ~Working(r)'
      BY <1>0, <2>1, <3>1, <3>2 DEF ShutdownInv, Working
    <3> QED
      BY <2>1, <2>3, <3>1, <3>3, <3>4 DEF ShutdownInv
  <2> QED
    BY <2>2, <2>3 DEF ShutdownInv
<1>2. CASE RunLoop
  <2>1. ~alone
    BY <1>2 DEF RunLoop, ShutdownInv
  <2>2. alone' = alone
    BY <1>2 DEF RunLoop
  <2>3. loop' = "ended" => ~Working(Supervisor)'
    BY <1>2 DEF RunLoop, Working
  <2> QED
    BY <2>1, <2>2, <2>3 DEF ShutdownInv
<1>3. CASE \E r \in Requests, c \in Commands : Request(r, c)
  <2>1. PICK r \in Requests, c \in Commands : Request(r, c)
    BY <1>3
  <2>2. /\ phase = "serving" /\ loop' = loop /\ alone' = alone
        /\ thread' = [thread EXCEPT ![r].todo = <<c>>]
    BY <2>1 DEF Request
  <2>3. ~alone
    BY <2>2 DEF ShutdownInv
  <2>4. thread'[Supervisor] = thread[Supervisor]
    BY <1>0, <2>2 DEF ThreadsTyped
  <2> QED
    BY <2>2, <2>3, <2>4 DEF ShutdownInv, Working
<1>4. CASE Joined \/ JoinTimesOut
  <2>1. PICK undisturbed \in BOOLEAN :
           /\ StopStation(undisturbed)
           /\ undisturbed => loop = "ended"
    BY <1>4 DEF Joined, JoinTimesOut
  <2>2. /\ phase' = "stopping" /\ loop' = loop /\ st' = st
        /\ alone' = (undisturbed /\ \A r \in Requests : ~Working(r))
        /\ thread' = [thread EXCEPT ![Main].todo = <<"stop">>]
    BY <2>1 DEF StopStation
  <2>3. /\ thread'[Main].todo = <<"stop">>
        /\ \A u \in Threads \ {Main} : thread'[u] = thread[u]
    BY <1>0, <2>2 DEF ThreadsTyped, ThreadStates
  <2>4. StopUnderWay'
    BY <2>3 DEF StopUnderWay
  <2>5. \A r \in Requests : Working(r)' <=> Working(r)
    BY <1>0, <2>3 DEF Working
  <2>6. Working(Supervisor)' <=> Working(Supervisor)
    BY <1>0, <2>3 DEF Working
  <2> QED
    BY <2>1, <2>2, <2>4, <2>5, <2>6 DEF ShutdownInv
<1>5. CASE Exit
  <2>1. /\ phase = "stopping" /\ ~Working(Main) /\ phase' = "ended"
        /\ UNCHANGED <<st, thread, loop, alone>>
    BY <1>5 DEF Exit
  <2> QED
    BY <2>1 DEF ShutdownInv, StopUnderWay, Working
<1>6. CASE Serve
  <2>1. phase = "starting" /\ UNCHANGED <<thread, loop, alone>>
    BY <1>6 DEF Serve
  <2>2. ~alone
    BY <2>1 DEF ShutdownInv
  <2> QED
    BY <2>1, <2>2 DEF ShutdownInv, Working
<1>7. CASE Interrupt
  <2>1. /\ phase = "serving" /\ UNCHANGED <<thread, alone>>
        /\ loop' = "ended" => loop = "ended"
    BY <1>7 DEF Interrupt
  <2>2. ~alone
    BY <2>1 DEF ShutdownInv
  <2> QED
    BY <2>1, <2>2 DEF ShutdownInv, Working
<1>8. CASE \/ RetryFallsDue
           \/ \E p \in Players : PlayerExits(p)
           \/ UNCHANGED vars
  <2>1. UNCHANGED <<st, thread, loop, phase, alone>>
    BY <1>8 DEF RetryFallsDue, PlayerExits, vars
  <2> QED
    BY <2>1 DEF ShutdownInv, StopUnderWay, Working
<1> QED
  BY <1>1, <1>2, <1>3, <1>4, <1>5, <1>6, <1>7, <1>8 DEF Next, Lifecycle

\* A shutdown that had no company and raised nothing leaves state.json stopped,
\* for any number of request threads and whatever the players do.
THEOREM ShutdownIsClean == Spec => []CleanShutdown
<1>1. ShutdownInv => CleanShutdown
  BY StopsSaved DEF ShutdownInv, CleanShutdown
<1> QED
  BY <1>1, InitThreads, NextThreads, InitShutdown, NextShutdown, PTL DEF Spec
=============================================================================
