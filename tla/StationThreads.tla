--------------------------- MODULE StationThreads ---------------------------
(***************************************************************************)
(* The threads of a running Potcast: the main thread of PotcastRuntime,    *)
(* the loop of the playback supervisor's PeriodicScheduler, and Flask's    *)
(* request threads, all calling one StationService without a lock.         *)
(*                                                                         *)
(* Station takes a command as one step; here a command is the sequence of  *)
(* its accesses to what the threads share: state.json, the output's fields *)
(* and _retry_state.  A thread keeps the RuntimeState it loaded and the    *)
(* accesses still to come (todo); an exception drops them.  Other threads  *)
(* come in between two accesses: wherever the code reads or writes a file, *)
(* waits for a player or starts one, asks the clock, and between calls of  *)
(* the service and of the output.  Assignments that follow each other in   *)
(* one function are one access.  Selection is left to Station: the one     *)
(* podcast's episode is always there, so every command that switches is    *)
(* "next" here.                                                            *)
(***************************************************************************)
EXTENDS Naturals, Sequences

CONSTANTS
    Main, Supervisor,   \* the two threads PotcastRuntime starts with
    Requests,           \* the request threads of the HTTP server
    Commands,           \* the routes that are called
    Players,            \* numbers of player processes
    NoPlayer,           \* None, for a ProcessHandle
    MaxAttempts,        \* OutputRetryPolicy.max_attempts
    StartOnBoot,        \* station.start_on_boot
    MayHang,            \* whether a player may ignore terminate()
    MaxRaces            \* bound: overtaken schedules after which nobody sends
                        \* requests any more

Threads == Requests \cup {Main, Supervisor}

ASSUME ThreadsAssumption ==
    /\ Main # Supervisor /\ Main \notin Requests /\ Supervisor \notin Requests
    /\ NoPlayer \notin Players
    /\ MaxAttempts \in Nat /\ MaxRaces \in Nat
    /\ StartOnBoot \in BOOLEAN /\ MayHang \in BOOLEAN
    /\ Commands \subseteq
          {"play", "pause", "toggle", "stop", "next", "volume", "recover"}

VARIABLES
    st,       \* state.json: the status, and whether an error is recorded
    out,      \* the LocalAudioOutputBackend
    retry,    \* _retry_state: attempts, and whether next_retry_at is set or past
    players,  \* the player processes
    thread,   \* per thread: todo, its copy of st, the process it waits for, and
              \* the number of the attempt it has worked out
    loop,     \* _run_loop of the supervisor: running, asked to end, ended
    phase,    \* the main thread in PotcastRuntime.run
    races,    \* history: the schedules that were overtaken, see Postpone
    alone     \* history: station.stop in runtime.stop had no company and
              \* raised nothing

vars == <<st, out, retry, players, thread, loop, phase, races, alone>>

RuntimeStates ==
    [status : {"stopped", "idle", "playing", "paused"}, error : BOOLEAN]

Backends ==
    [state : {"idle", "playing", "paused", "stopped", "error"},
     ident : BOOLEAN,      \* current_episode_identity is set
     episode : BOOLEAN,    \* _current_episode is set
     proc : Players \cup {NoPlayer}]

RetryStates == [attempts : Nat, next : {"none", "later", "due"}]

NoRetry == [attempts |-> 0, next |-> "none"]

\* A command's first access is its load of state.json.
CommandAccesses ==
    {"play", "pause", "toggle", "stop", "next", "volume", "recover", "compare",
     "recoverable", "set_volume", "terminate", "switch", "waiting", "paused",
     "stopped", "launch", "judge", "judge_once", "schedule", "postpone", "reset",
     "save"}

\* Only the supervisor's tick retries and polls.
TickAccesses == CommandAccesses \cup {"tick", "poll", "retry", "count"}

Accesses == TickAccesses \cup {"attempt"}

AccessesOf(t) == IF t = Supervisor THEN TickAccesses ELSE CommandAccesses

ThreadStates ==
    [todo : Seq(Accesses), st : RuntimeStates, proc : Players \cup {NoPlayer},
     attempt : Nat]

Stopped == [status |-> "stopped", error |-> FALSE]

\* What is saved after a failure.
Blocked == [status |-> "idle", error |-> TRUE]

\* A copy of which nothing will be used.
Unknown == Stopped

Idle == [todo |-> <<>>, st |-> Unknown, proc |-> NoPlayer, attempt |-> 0]

Working(t) == thread[t].todo # <<>>

\* The supervisor's thread has found a retry due.
Attempting(t) == t = Supervisor /\ thread[t].todo = <<"attempt">>

\* Thread t, of a program that has not ended, is at this access.
At(t, access) == phase # "ended" /\ Working(t) /\ Head(thread[t].todo) = access

\* The thread goes on, with its copy s, with these accesses and then with those
\* it had in mind; a thread with nothing to do is Idle.
ContinueWith(t, s, first) ==
    LET todo == first \o Tail(thread[t].todo) IN
    thread' = [thread EXCEPT
        ![t] = IF todo = <<>> THEN Idle ELSE [@ EXCEPT !.todo = todo, !.st = s]]

Continue(t, first) == ContinueWith(t, thread[t].st, first)

\* The command has nothing more to do.
Return(t) == thread' = [thread EXCEPT ![t] = Idle]

\* Mutant: the loop does not survive an exception of its job.
RaiseEndsLoop(t) ==
    /\ thread' = [thread EXCEPT ![t] = Idle]
    /\ phase' = IF t = Main THEN "ended" ELSE phase
    /\ loop' = IF t = Supervisor THEN "ended" ELSE loop
    /\ alone' = (alone /\ t # Main)

\* An exception ends the command.  Flask answers 500, the supervisor's loop logs
\* it and goes on, and from runtime.start or runtime.stop it ends the program.
Raise(t) ==
    /\ thread' = [thread EXCEPT ![t] = Idle]
    /\ phase' = IF t = Main THEN "ended" ELSE phase
    /\ alone' = (alone /\ t # Main)
    /\ UNCHANGED loop

-----------------------------------------------------------------------------
(* The beginning of each command: state.json is loaded, and local decisions *)
(* are taken on the copy.                                                   *)

\* play_episode, and what _play_selected does with its outcome.
PlayEpisode == <<"switch", "launch">>
PlaySelected == PlayEpisode \o <<"judge">>

LoadPlay(t) ==
    /\ At(t, "play")
    /\ ContinueWith(t, st, <<"compare">>)

\* _is_playing_selected asks the output whose episode it has.
Compare(t) ==
    /\ At(t, "compare")
    /\ IF thread[t].st.status = "playing" /\ out.ident
       THEN Continue(t, <<"save">>)
       ELSE ContinueWith(t, Unknown, PlaySelected \o <<"save">>)

LoadNext(t) ==
    /\ At(t, "next")
    /\ Continue(t, PlaySelected \o <<"save">>)

LoadPause(t) ==
    /\ At(t, "pause")
    /\ ContinueWith(t, [st EXCEPT !.status = "paused"],
                    IF st.status = "paused" THEN <<"save">>
                    ELSE <<"terminate", "paused", "save">>)

\* toggle loads the state to choose, and the command it chooses loads it again.
LoadToggle(t) ==
    /\ At(t, "toggle")
    /\ Continue(t, IF st.status = "playing" THEN <<"pause">> ELSE <<"play">>)

LoadStop(t) ==
    /\ At(t, "stop")
    /\ ContinueWith(t, Stopped,
                    IF st.status # "stopped"
                    THEN <<"terminate", "stopped", "reset", "save">>
                    ELSE IF st.error THEN <<"reset", "save">>
                    ELSE <<"save">>)

LoadVolume(t) ==
    /\ At(t, "volume")
    /\ ContinueWith(t, st, <<"set_volume", "save">>)

LoadRecover(t) ==
    /\ At(t, "recover")
    /\ ContinueWith(t, st, <<"recoverable">>)

Recoverable(t) ==
    /\ At(t, "recoverable")
    /\ IF out.state = "error" \/ thread[t].st.error
       THEN ContinueWith(t, Unknown, <<"terminate", "stopped", "reset">>
                                        \o PlayEpisode \o <<"judge_once", "save">>)
       ELSE Return(t)

\* advance_if_finished
LoadTick(t) ==
    /\ At(t, "tick")
    /\ IF st.error THEN ContinueWith(t, st, <<"retry">>)
       ELSE IF st.status = "playing" THEN ContinueWith(t, st, <<"poll">>)
       ELSE Return(t)

\* Reading only.
Loads(t) ==
    /\ \/ LoadPlay(t)
       \/ Compare(t)
       \/ LoadNext(t)
       \/ LoadPause(t)
       \/ LoadToggle(t)
       \/ LoadStop(t)
       \/ LoadVolume(t)
       \/ LoadRecover(t)
       \/ Recoverable(t)
       \/ LoadTick(t)
    /\ UNCHANGED <<st, out, retry, players, loop, phase, races, alone>>

-----------------------------------------------------------------------------
(* The output, LocalAudioOutputBackend.  Two attribute accesses are one     *)
(* step where only a read of what is then written lies between them.        *)

Running(p) == players[p] \in {"running", "ending"}

\* A number is given again when its process has ended and nobody refers to it.
FreePlayers ==
    {p \in Players : ~Running(p) /\ out.proc # p
                     /\ \A t \in Threads : thread[t].proc # p}

\* _terminate_process up to wait(), which the thread does on the player it has
\* told to end; play_episode has by then taken the episode for its current one.
Terminate(t) ==
    /\ At(t, "terminate") \/ At(t, "switch")
    /\ out' = [out EXCEPT !.episode = @ \/ At(t, "switch")]
    /\ IF out.proc = NoPlayer
       THEN Continue(t, <<>>) /\ UNCHANGED players
       ELSE /\ thread' = [thread EXCEPT ![t].todo = <<"waiting">> \o Tail(@),
                                        ![t].proc = out.proc]
            /\ players' = IF players[out.proc] = "running"
                          THEN [players EXCEPT ![out.proc] = "ending"]
                          ELSE players
    /\ UNCHANGED <<st, retry, loop, phase, races, alone>>

\* Mutant: the thread does not let go of the process.
WaitedStillHeld(t) ==
    /\ At(t, "waiting")
    /\ ~Running(thread[t].proc)
    /\ out' = [out EXCEPT !.proc = NoPlayer]
    /\ thread' = [thread EXCEPT ![t].todo = Tail(@)]
    /\ UNCHANGED <<st, retry, players, loop, phase, races, alone>>

\* The process has ended, and whatever _process is by now, it is dropped.
Waited(t) ==
    /\ At(t, "waiting")
    /\ ~Running(thread[t].proc)
    /\ out' = [out EXCEPT !.proc = NoPlayer]
    /\ thread' = [thread EXCEPT ![t].todo = Tail(@), ![t].proc = NoPlayer]
    /\ UNCHANGED <<st, retry, players, loop, phase, races, alone>>

\* Mutant: wait() is called without a timeout.
WaitForEver(t) == FALSE

\* TimeoutExpired after five seconds, from a player that ignores terminate().
WaitTimesOut(t) ==
    /\ At(t, "waiting")
    /\ MayHang /\ players[thread[t].proc] = "ending"
    /\ out' = [out EXCEPT !.proc = NoPlayer]
    /\ Raise(t)
    /\ UNCHANGED <<st, retry, players, races>>

SetPaused(t) ==
    /\ At(t, "paused")
    /\ out' = [out EXCEPT !.state = "paused"]
    /\ Continue(t, <<>>)
    /\ UNCHANGED <<st, retry, players, loop, phase, races, alone>>

SetStopped(t) ==
    /\ At(t, "stopped")
    /\ out' = [out EXCEPT !.state = "stopped", !.ident = FALSE, !.episode = FALSE]
    /\ Continue(t, <<>>)
    /\ UNCHANGED <<st, retry, players, loop, phase, races, alone>>

Launch(t) ==
    /\ At(t, "launch")
    /\ \E p \in FreePlayers :
          /\ players' = [players EXCEPT ![p] = "running"]
          /\ out' = [out EXCEPT !.proc = p, !.state = "playing", !.ident = TRUE]
    /\ Continue(t, <<>>)
    /\ UNCHANGED <<st, retry, loop, phase, races, alone>>

LaunchFails(t) ==
    /\ At(t, "launch")
    /\ out' = [out EXCEPT !.proc = NoPlayer, !.state = "error", !.ident = TRUE]
    /\ Continue(t, <<>>)
    /\ UNCHANGED <<st, retry, players, loop, phase, races, alone>>

\* set_volume clears the error it finds; OutputStatus.state stays "error".
SetVolume(t) ==
    /\ At(t, "set_volume")
    /\ Continue(t, IF out.episode /\ out.state = "playing" THEN PlayEpisode ELSE <<>>)
    /\ UNCHANGED <<st, out, retry, players, loop, phase, races, alone>>

\* consume_playback_event reports an exit, which may be the one that another
\* thread has asked for and is waiting for.
PollNothing(t) ==
    /\ At(t, "poll")
    /\ out.proc # NoPlayer => Running(out.proc)
    /\ Return(t)
    /\ UNCHANGED <<st, out, retry, players, loop, phase, races, alone>>

\* next_podcast finds the station's one podcast again.
PollCompletion(t) ==
    /\ At(t, "poll")
    /\ out.proc # NoPlayer /\ players[out.proc] = "completed"
    /\ out' = [out EXCEPT !.proc = NoPlayer, !.state = "idle"]
    /\ ContinueWith(t, Unknown, PlaySelected \o <<"save">>)
    /\ UNCHANGED <<st, retry, players, loop, phase, races, alone>>

PollFailure(t) ==
    /\ At(t, "poll")
    /\ out.proc # NoPlayer /\ players[out.proc] \in {"failed", "killed"}
    /\ out' = [out EXCEPT !.proc = NoPlayer, !.state = "error"]
    /\ ContinueWith(t, Blocked, <<"schedule", "save">>)
    /\ UNCHANGED <<st, retry, players, loop, phase, races, alone>>

Output(t) ==
    \/ Terminate(t)
    \/ Waited(t)
    \/ WaitTimesOut(t)
    \/ SetPaused(t)
    \/ SetStopped(t)
    \/ Launch(t)
    \/ LaunchFails(t)
    \/ SetVolume(t)
    \/ PollNothing(t)
    \/ PollCompletion(t)
    \/ PollFailure(t)

-----------------------------------------------------------------------------
(* The service: the retry state and the end of a command.                   *)

\* _play_selected asks the output how the launch went, which another thread may
\* have overwritten.  recover_output does not schedule a retry.
Judge(t) ==
    /\ At(t, "judge") \/ At(t, "judge_once")
    /\ IF out.state = "error"
       THEN ContinueWith(t, Blocked, IF At(t, "judge") THEN <<"schedule">> ELSE <<>>)
       ELSE ContinueWith(t, [status |-> "playing", error |-> FALSE], <<"reset">>)
    /\ UNCHANGED <<st, out, retry, players, loop, phase, races, alone>>

\* _schedule_retry up to the clock: with nothing scheduled, next_delay has an
\* answer for the next attempt while the policy is not exhausted.
Schedule(t) ==
    /\ At(t, "schedule")
    /\ IF retry.next = "none" /\ retry.attempts < MaxAttempts
       THEN thread' = [thread EXCEPT ![t].todo = <<"postpone">> \o Tail(@),
                                     ![t].attempt = retry.attempts + 1]
       ELSE Continue(t, <<>>)
    /\ UNCHANGED <<st, out, retry, players, loop, phase, races, alone>>

\* Another thread has changed the retry state since t looked at it.
Overtaken(t) == retry.next # "none" \/ retry.attempts + 1 # thread[t].attempt

\* _schedule_retry after the clock, on whatever the retry state is by now.
Postpone(t) ==
    /\ At(t, "postpone")
    /\ retry' = [retry EXCEPT !.next = "later"]
    /\ races' = IF Overtaken(t) THEN races + 1 ELSE races
    /\ thread' = [thread EXCEPT ![t].todo = Tail(@), ![t].attempt = 0]
    /\ UNCHANGED <<st, out, players, loop, phase, alone>>

Reset(t) ==
    /\ At(t, "reset")
    /\ retry' = NoRetry
    /\ Continue(t, <<>>)
    /\ UNCHANGED <<st, out, players, loop, phase, races, alone>>

\* _retry_output_if_due up to the clock.  When nothing is due the state is saved
\* as it was loaded.
Retry(t) ==
    /\ At(t, "retry")
    /\ IF retry.next = "due"
       THEN thread' = [thread EXCEPT ![t].todo = <<"attempt">>]
       ELSE Continue(t, <<"save">>)
    /\ UNCHANGED <<st, out, retry, players, loop, phase, races, alone>>

\* The rest of it works out the attempt before it stops the output, and writes
\* it after.
Attempt(t) ==
    /\ At(t, "attempt")
    /\ thread' = [thread EXCEPT
            ![t].todo = <<"terminate", "stopped", "count">> \o PlaySelected
                          \o <<"save">>,
            ![t].st = Unknown,
            ![t].attempt = retry.attempts + 1]
    /\ UNCHANGED <<st, out, retry, players, loop, phase, races, alone>>

\* Mutant: the retry that is made stays scheduled.
CountKeepsSchedule(t) ==
    /\ At(t, "count")
    /\ retry' = [retry EXCEPT !.attempts = thread[t].attempt]
    /\ thread' = [thread EXCEPT ![t].todo = Tail(@), ![t].attempt = 0]
    /\ UNCHANGED <<st, out, players, loop, phase, races, alone>>

Count(t) ==
    /\ At(t, "count")
    /\ retry' = [attempts |-> thread[t].attempt, next |-> "none"]
    /\ thread' = [thread EXCEPT ![t].todo = Tail(@), ![t].attempt = 0]
    /\ UNCHANGED <<st, out, players, loop, phase, races, alone>>

Save(t) ==
    /\ At(t, "save")
    /\ st' = thread[t].st
    /\ Continue(t, <<>>)
    /\ UNCHANGED <<out, retry, players, loop, phase, races, alone>>

Service(t) ==
    \/ Judge(t)
    \/ Schedule(t)
    \/ Postpone(t)
    \/ Reset(t)
    \/ Retry(t)
    \/ Attempt(t)
    \/ Count(t)
    \/ Save(t)

Step(t) == Loads(t) \/ Output(t) \/ Service(t)

-----------------------------------------------------------------------------
(* The supervisor's loop, the main thread, the server and the world.        *)

\* PeriodicScheduler._run_loop: the interval is over or the stop event is set.
RunLoop ==
    /\ phase # "ended" /\ loop # "ended" /\ ~Working(Supervisor)
    /\ IF loop = "asked"
       THEN loop' = "ended" /\ UNCHANGED thread
       ELSE /\ thread' = [thread EXCEPT ![Supervisor].todo = <<"tick">>]
            /\ UNCHANGED loop
    /\ UNCHANGED <<st, out, retry, players, phase, races, alone>>

\* runtime.start has returned.
Serve ==
    /\ phase = "starting" /\ ~Working(Main)
    /\ phase' = "serving"
    /\ UNCHANGED <<st, out, retry, players, thread, loop, races, alone>>

Request(r, c) ==
    /\ phase = "serving" /\ ~Working(r) /\ races < MaxRaces
    /\ thread' = [thread EXCEPT ![r].todo = <<c>>]
    /\ UNCHANGED <<st, out, retry, players, loop, phase, races, alone>>

\* The server returns, while its request threads may still be at work, and
\* runtime.stop asks the supervisor to end.
Interrupt ==
    /\ phase = "serving"
    /\ phase' = "joining"
    /\ loop' = IF loop = "running" THEN "asked" ELSE loop
    /\ UNCHANGED <<st, out, retry, players, thread, races, alone>>

StopStation(undisturbed) ==
    /\ ~Working(Main)
    /\ phase' = "stopping"
    /\ alone' = (undisturbed /\ \A r \in Requests : ~Working(r))
    /\ thread' = [thread EXCEPT ![Main].todo = <<"stop">>]
    /\ UNCHANGED <<st, out, retry, players, loop, races>>

\* Mutant: the thread is not waited for.
JoinedAtOnce == phase = "joining" /\ StopStation(TRUE)

Joined ==
    /\ phase = "joining" /\ loop = "ended"
    /\ StopStation(TRUE)

JoinTimesOut ==
    /\ phase = "joining" /\ At(Supervisor, "waiting")
    /\ StopStation(FALSE)

\* Every other thread is a daemon and ends with the main one.
Exit ==
    /\ phase = "stopping" /\ ~Working(Main)
    /\ phase' = "ended"
    /\ UNCHANGED <<st, out, retry, players, thread, loop, races, alone>>

Lifecycle == Serve \/ Joined \/ JoinTimesOut \/ Exit

PlayerExits(p) ==
    /\ phase # "ended"
    /\ \/ players[p] = "running" /\ \E code \in {"completed", "failed"} :
             players' = [players EXCEPT ![p] = code]
       \/ players[p] = "ending" /\ players' = [players EXCEPT ![p] = "killed"]
    /\ UNCHANGED <<st, out, retry, thread, loop, phase, races, alone>>

RetryFallsDue ==
    /\ phase # "ended"
    /\ retry.next = "later"
    /\ retry' = [retry EXCEPT !.next = "due"]
    /\ UNCHANGED <<st, out, players, thread, loop, phase, races, alone>>

\* build_runtime and the beginning of runtime.start, over any state.json.
Init ==
    /\ st \in RuntimeStates
    /\ st.error => st.status \in {"idle", "paused"}
    /\ out = [state |-> "stopped", ident |-> FALSE, episode |-> FALSE, proc |-> NoPlayer]
    /\ retry = NoRetry
    /\ players = [p \in Players |-> "killed"]
    /\ thread = [t \in Threads |->
                    IF t = Main /\ StartOnBoot THEN [Idle EXCEPT !.todo = <<"play">>]
                    ELSE Idle]
    /\ loop = "running"
    /\ phase = "starting"
    /\ races = 0
    /\ alone = FALSE

Next ==
    \/ \E t \in Threads : Step(t)
    \/ RunLoop
    \/ \E r \in Requests, c \in Commands : Request(r, c)
    \/ Interrupt
    \/ Lifecycle
    \/ \E p \in Players : PlayerExits(p)
    \/ RetryFallsDue

Spec == Init /\ [][Next]_vars

\* Every thread is scheduled, and the waits of the main thread and of the loop
\* have timeouts.  Nobody is obliged to send requests or to end the server, and
\* no player is obliged to exit.
FairSpec ==
    /\ Spec
    /\ \A t \in Threads : WF_vars(Step(t))
    /\ WF_vars(RunLoop)
    /\ WF_vars(Lifecycle)

-----------------------------------------------------------------------------
(* Properties.                                                             *)

\* Every record stays within its type, a thread holds on to a process only while
\* it waits for it, and only the supervisor's thread works on a tick.
TypeOK ==
    /\ st \in RuntimeStates
    /\ out \in Backends
    /\ retry \in RetryStates
    /\ players \in [Players -> {"running", "ending", "completed", "failed", "killed"}]
    /\ thread \in [Threads -> ThreadStates]
    /\ \A t \in Threads : thread[t].proc # NoPlayer =>
                             Working(t) /\ Head(thread[t].todo) = "waiting"
    /\ \A t \in Threads :
          thread[t].todo \in Seq(AccessesOf(t)) \/ Attempting(t)
    /\ loop \in {"running", "asked", "ended"}
    /\ phase \in {"starting", "serving", "joining", "stopping", "ended"}
    /\ races \in Nat
    /\ alone \in BOOLEAN

\* When the supervisor's thread was joined in time, no request was under way
\* and nothing was raised, state.json says stopped, with no error, in the end.
CleanShutdown ==
    phase = "ended" /\ alone => st = Stopped

\* The automatic retries exceed the policy by no more than the times that a
\* schedule was overtaken: _schedule_retry looks at the retry state, asks the
\* clock and then schedules on top of what another thread has written meanwhile,
\* the supervisor's count of an attempt for one.  While that has not happened
\* they stay within max_attempts, although the supervisor works out the number
\* of an attempt before it stops the output and writes it only afterwards.
RetryBounded ==
    /\ retry.attempts <= MaxAttempts + races
    /\ retry.next # "none" => retry.attempts < MaxAttempts + races
    /\ \A t \in Threads : thread[t].attempt <= MaxAttempts + races

\* Whatever a tick raises, the supervisor looks at the station again and again
\* while the program serves requests.
SupervisorKeepsWatch ==
    phase = "serving" ~> At(Supervisor, "tick") \/ phase # "serving"

\* The program ends after it was asked to, whatever its threads are at and
\* whatever players do.
ShutdownEnds == phase = "joining" ~> phase = "ended"

-----------------------------------------------------------------------------
(* What the documentation says and the code does not do.                   *)

Quiet == \A t \in Threads : ~Working(t)

\* SPEC.md:733, "Shared state must be protected with a lock": when no thread is
\* at work, a station that is recorded as stopped or paused has no player that
\* goes on playing.
QuietStationIsSilent ==
    Quiet /\ st.status \in {"stopped", "paused"}
        => \A p \in Players : players[p] # "running"

\* SPEC.md:331, "unexpected non-zero output process exits": a player that ends
\* because a command told it to is not taken for a failure.
FailureIsUnexpected ==
    [][\A t \in Threads : PollFailure(t) => players[out.proc] # "killed"]_vars
=============================================================================
