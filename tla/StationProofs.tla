---------------------------- MODULE StationProofs ----------------------------
(***************************************************************************)
(* Theorems about Station, for every configuration, retry policy and way a *)
(* player may end.  First its type invariant.  Then, on top of it: the     *)
(* retry policy bounds what the supervisor does by itself; while the disk  *)
(* holds, the player, the output and the persisted state agree; no step    *)
(* brings a podcast of another channel into the selection; an error that   *)
(* is shown is recorded; and the service implements PlaybackSupervisor.    *)
(***************************************************************************)
EXTENDS Station, SelectorProofs

\* What the selection operators leave alone in a runtime state.
SameStatus(s, t) == t.status = s.status /\ t.error = s.error /\ t.volume = s.volume

-----------------------------------------------------------------------------
(* Selection maps runtime states to runtime states.                        *)

\* A runtime state has a selection.
LEMMA RuntimeSelecting ==
    ASSUME NEW s \in RuntimeStates
    PROVE  Selecting(s)
BY DEF RuntimeStates, Selecting

\* A move changes the selection of a runtime state and nothing else.
LEMMA MovedState ==
    ASSUME NEW s \in RuntimeStates, NEW playable, NEW t, Moved(s, t, playable)
    PROVE  t \in RuntimeStates /\ SameStatus(s, t)
<1>1. PICK c \in Range(ChannelIds), p \in Podcasts \cup {NoPodcast}, h \in Seq(Podcasts) :
         t = Reselect(s, c, p, h)
  BY DEF Moved
<1>2. c \in Channels
  BY ConfiguredChannel
<1> QED
  BY <1>1, <1>2 DEF Reselect, RuntimeStates, SameStatus

\* activate keeps the status, the error and the volume, and makes the state point
\* at a configured channel and a playable podcast of it, or none.
LEMMA ActivateState ==
    ASSUME NEW s \in RuntimeStates, NEW playable
    PROVE  /\ Activate(s, playable) \in RuntimeStates
           /\ SameStatus(s, Activate(s, playable))
BY RuntimeSelecting, ActivateMoves, MovedState

\* Entering a configured channel, as select_channel does, gives a runtime state.
LEMMA EnterChannelState ==
    ASSUME NEW s \in RuntimeStates, NEW c \in Range(ChannelIds), NEW playable
    PROVE  EnterChannel(s, c, playable) \in RuntimeStates
BY RuntimeSelecting, EnterChannelMoves, MovedState

\* So do /channel/next and /channel/previous.
LEMMA OffsetChannelState ==
    ASSUME NEW s \in RuntimeStates, NEW offset \in {-1, 1}, NEW playable
    PROVE  OffsetChannel(s, offset, playable) \in RuntimeStates
BY RuntimeSelecting, OffsetChannelMoves, MovedState

\* next_podcast maps runtime states to runtime states, in either order.
LEMMA NextPodcastState ==
    ASSUME NEW s \in RuntimeStates, NEW playable, NEW shuffle,
           NEW t \in NextPodcast(s, playable, shuffle)
    PROVE  t \in RuntimeStates
BY RuntimeSelecting, NextPodcastMoves, MovedState

\* previous_podcast does, whether it goes back in the history or in the order.
LEMMA PreviousPodcastState ==
    ASSUME NEW s \in RuntimeStates, NEW playable
    PROVE  PreviousPodcast(s, playable) \in RuntimeStates
BY RuntimeSelecting, PreviousPodcastMoves, MovedState

\* So does selecting a playable podcast.
LEMMA SelectPodcastState ==
    ASSUME NEW s \in RuntimeStates, NEW playable,
           NEW p \in PlayableIn(Activate(s, playable).channel, playable)
    PROVE  [Activate(s, playable) EXCEPT !.podcast = p, !.previous = <<>>] \in RuntimeStates
BY RuntimeSelecting, SelectPodcastMoves, MovedState

-----------------------------------------------------------------------------
(* The operations of the output keep its record a backend.                 *)

\* Whatever the service calls on the output, its record stays a backend.
LEMMA BackendOperations ==
    ASSUME NEW o \in Backends(Episodes)
    PROVE  /\ \A end : Terminated(o, end) \in Backends(Episodes)
           /\ Paused(o) \in Backends(Episodes)
           /\ Stopped(o) \in Backends(Episodes)
           /\ Consumed(o) \in Backends(Episodes)
           /\ \A e \in Episodes : Playing(o, e) \in Backends(Episodes)
           /\ \A e \in Episodes : StartFailed(o, e) \in Backends(Episodes)
           /\ \A v \in 0 .. 100 : WithVolume(o, v) \in Backends(Episodes)
           /\ \A v \in 0 .. 100 : NewBackend(v) \in Backends(Episodes)
<1>1. \A end : Terminated(o, end) \in Backends(Episodes)
  <2> SUFFICES ASSUME NEW end PROVE Terminated(o, end) \in Backends(Episodes)
    OBVIOUS
  <2> DEFINE n == IF o.proc = "running" /\ end # "exits" THEN o.strays + 1 ELSE o.strays
  <2>1. n \in Nat
    BY DEF Backends
  <2>2. Terminated(o, end) = [o EXCEPT !.proc = "none", !.strays = n]
    BY DEF Terminated, Backends
  <2> HIDE DEF n
  <2> QED
    BY <2>1, <2>2 DEF Backends, Processes
<1>2. Paused(o) \in Backends(Episodes)
  BY DEF Paused, Backends, Processes, OutputStates
<1>3. Stopped(o) \in Backends(Episodes)
  BY DEF Stopped, Backends, Processes, OutputStates
<1>4. Consumed(o) \in Backends(Episodes)
  BY DEF Consumed, Backends, Processes, OutputStates, OutputErrors
<1>5. \A e \in Episodes : Playing(o, e) \in Backends(Episodes)
  BY DEF Playing, Backends, Processes, OutputStates
<1>6. \A e \in Episodes : StartFailed(o, e) \in Backends(Episodes)
  BY DEF StartFailed, Backends, Processes, OutputStates, OutputErrors
<1>7. \A v \in 0 .. 100 : WithVolume(o, v) \in Backends(Episodes)
  BY DEF WithVolume, Backends
<1>8. \A v \in 0 .. 100 : NewBackend(v) \in Backends(Episodes)
  BY DEF NewBackend, Backends, Processes, OutputStates
<1> QED
  BY <1>1, <1>2, <1>3, <1>4, <1>5, <1>6, <1>7, <1>8

\* _schedule_retry yields a retry state and counts no attempt.
LEMMA ScheduledState ==
    ASSUME NEW r \in RetryStates
    PROVE  Scheduled(r) \in RetryStates /\ Scheduled(r).attempts = r.attempts
<1>1. RetryDelay * (r.attempts + 1) \in Nat
  BY StationAssumption DEF RetryStates
<1> QED
  BY <1>1 DEF Scheduled, RetryStates

-----------------------------------------------------------------------------
(* Type correctness.                                                       *)

\* The episode of a podcast that has a download is one that can exist.
LEMMA EpisodeType ==
    ASSUME TypeOK, NEW s, HasEpisode(s)
    PROVE  EpisodeOf(s) \in Episodes
BY DEF TypeOK, HasEpisode, Playable, EpisodeOf, Episodes

\* state.json holds a runtime state whether or not the write succeeds.
LEMMA SaveType ==
    ASSUME TypeOK, NEW s \in RuntimeStates, Save(s)
    PROVE  st' \in RuntimeStates
BY DEF TypeOK, Save

\* _play_selected keeps state, output and retry state well typed, however it ends.
LEMMA PlaySelectedType ==
    ASSUME TypeOK, NEW s0 \in RuntimeStates, NEW o \in Backends(Episodes),
           NEW r \in RetryStates, NEW schedule, PlaySelected(s0, o, r, schedule)
    PROVE  st' \in RuntimeStates /\ out' \in Backends(Episodes) /\ retry' \in RetryStates
<1> DEFINE s == Activate(s0, Playable)
           playing == [s EXCEPT !.status = "playing", !.error = NoError]
           blocked == [s EXCEPT !.status = "idle", !.error = "start_failed"]
           idle == [s EXCEPT !.status = "idle", !.error = NoError]
<1>1. s \in RuntimeStates
  BY ActivateState
<1> HIDE DEF s
<1>2. playing \in RuntimeStates /\ blocked \in RuntimeStates /\ idle \in RuntimeStates
  BY <1>1 DEF RuntimeStates, OutputErrors
<1>3. NoRetry \in RetryStates
  BY DEF NoRetry, RetryStates
<1> HIDE DEF playing, blocked, idle
<1>4. CASE /\ HasEpisode(s)
           /\ out' = Playing(o, EpisodeOf(s))
           /\ retry' = NoRetry
           /\ Save(playing)
  BY <1>2, <1>3, <1>4, EpisodeType, BackendOperations, SaveType
<1>5. CASE /\ HasEpisode(s)
           /\ out' = StartFailed(o, EpisodeOf(s))
           /\ retry' = IF schedule THEN Scheduled(r) ELSE r
           /\ Save(blocked)
  BY <1>2, <1>5, EpisodeType, BackendOperations, ScheduledState, SaveType
<1>6. CASE /\ ~HasEpisode(s)
           /\ out' = Stopped(o)
           /\ retry' = r
           /\ Save(idle)
  BY <1>2, <1>6, BackendOperations, SaveType
<1> QED
  BY <1>4, <1>5, <1>6 DEF PlaySelected, s, playing, blocked, idle

\* So does a command that a hanging player interrupts.
LEMMA InterruptedType ==
    ASSUME TypeOK, NEW e \in Episodes \cup {NoEpisode}, Interrupted(e)
    PROVE  st' \in RuntimeStates /\ out' \in Backends(Episodes) /\ retry' \in RetryStates
<1>1. Terminated(out, "hangs") \in Backends(Episodes)
  BY BackendOperations DEF TypeOK
<1> QED
  BY <1>1 DEF TypeOK, Interrupted, Backends

\* So does playing another selection, which drops the previous player first.
LEMMA SwitchToType ==
    ASSUME TypeOK, NEW s0 \in RuntimeStates, SwitchTo(s0)
    PROVE  st' \in RuntimeStates /\ out' \in Backends(Episodes) /\ retry' \in RetryStates
<1>1. PICK end \in EndingsOf(out) :
        IF Raises(out, end)
        THEN LET s == Activate(s0, Playable) IN
             Interrupted(IF HasEpisode(s) THEN EpisodeOf(s) ELSE out.episode)
        ELSE PlaySelected(s0, Terminated(out, end), retry, TRUE)
  BY DEF SwitchTo
<1>2. out.episode \in Episodes \cup {NoEpisode}
  BY DEF TypeOK, Backends
<1>3. CASE Raises(out, end)
  BY <1>1, <1>2, <1>3, EpisodeType, InterruptedType
<1>4. CASE ~Raises(out, end)
  <2>1. Terminated(out, end) \in Backends(Episodes)
    BY BackendOperations DEF TypeOK
  <2> QED
    BY <1>1, <1>4, <2>1, PlaySelectedType DEF TypeOK
<1> QED
  BY <1>3, <1>4

\* What every command and every tick must establish.
Typed ==
    st' \in RuntimeStates /\ out' \in Backends(Episodes) /\ retry' \in RetryStates

\* /play keeps the three well typed.
LEMMA PlayType ==
    ASSUME TypeOK, Play
    PROVE  Typed
<1> DEFINE s == Activate(st, Playable)
<1>1. s \in RuntimeStates
  BY ActivateState DEF TypeOK
<1>2. (Save(s) /\ UNCHANGED <<out, retry>>) \/ SwitchTo(s)
  BY DEF Play
<1> HIDE DEF s
<1> QED
  BY <1>1, <1>2, SaveType, SwitchToType DEF TypeOK, Typed

\* /pause does.
LEMMA PauseType ==
    ASSUME TypeOK, Pause
    PROVE  Typed
<1> DEFINE s == Activate(st, Playable)
           paused == [s EXCEPT !.status = "paused"]
<1>1. s \in RuntimeStates
  BY ActivateState DEF TypeOK
<1>2. \/ Save(s) /\ UNCHANGED <<out, retry>>
      \/ Interrupted(out.episode)
      \/ \E end \in EndingsOf(out) :
            out' = Paused(Terminated(out, end)) /\ Save(paused) /\ UNCHANGED retry
  BY DEF Pause
<1> HIDE DEF s
<1>3. paused \in RuntimeStates
  BY <1>1 DEF RuntimeStates
<1> HIDE DEF paused
<1>4. out \in Backends(Episodes) /\ out.episode \in Episodes \cup {NoEpisode}
      /\ retry \in RetryStates
  BY DEF TypeOK, Backends
<1>5. \A end : Paused(Terminated(out, end)) \in Backends(Episodes)
  BY <1>4, BackendOperations
<1> QED
  BY <1>1, <1>2, <1>3, <1>4, <1>5, SaveType, InterruptedType DEF Typed

\* /stop does.
LEMMA StopType ==
    ASSUME TypeOK, Stop
    PROVE  Typed
<1> DEFINE stopped == [st EXCEPT !.status = "stopped", !.error = NoError]
           cleared == [st EXCEPT !.error = NoError]
<1>1. stopped \in RuntimeStates /\ cleared \in RuntimeStates
  BY DEF TypeOK, RuntimeStates
<1>2. out \in Backends(Episodes) /\ out.episode \in Episodes \cup {NoEpisode}
  BY DEF TypeOK, Backends
<1>3. \A end : Stopped(Terminated(out, end)) \in Backends(Episodes)
  BY <1>2, BackendOperations
<1>4. NoRetry \in RetryStates
  BY DEF NoRetry, RetryStates
<1> HIDE DEF stopped, cleared
<1>5. \/ Interrupted(out.episode)
      \/ \E end \in EndingsOf(out) :
            out' = Stopped(Terminated(out, end)) /\ Save(stopped) /\ retry' = NoRetry
      \/ Save(cleared) /\ retry' = NoRetry /\ UNCHANGED out
  BY DEF Stop, stopped, cleared
<1> QED
  BY <1>1, <1>2, <1>3, <1>4, <1>5, SaveType, InterruptedType DEF Typed

\* /volume does, also when it launches the player again.
LEMMA SetVolumeType ==
    ASSUME TypeOK, NEW volume, SetVolume(volume)
    PROVE  Typed
<1> DEFINE o == WithVolume(out, volume)
           s == [st EXCEPT !.volume = volume]
<1>1. volume \in 0 .. 100
  BY DEF SetVolume
<1>2. o \in Backends(Episodes)
  BY <1>1, BackendOperations DEF TypeOK
<1>3. s \in RuntimeStates
  BY <1>1 DEF TypeOK, RuntimeStates
<1> HIDE DEF o, s
<1>4. /\ \/ /\ Restarts(o)
            /\ \E end \in EndingsOf(o), launched \in BOOLEAN :
                  \/ out' = Terminated(o, end) /\ UNCHANGED st
                  \/ out' = Played(Terminated(o, end), o.episode, launched) /\ Save(s)
         \/ out' = o /\ Save(s)
      /\ UNCHANGED retry
  BY DEF SetVolume, o, s
<1>5. \A end : Terminated(o, end) \in Backends(Episodes)
  BY <1>2, BackendOperations
<1>6. Restarts(o) => \A end, launched :
        Played(Terminated(o, end), o.episode, launched) \in Backends(Episodes)
  <2>1. Restarts(o) => o.episode \in Episodes
    BY <1>2 DEF Restarts, Backends
  <2> QED
    BY <1>5, <2>1, BackendOperations DEF Played
<1>7. st \in RuntimeStates /\ retry \in RetryStates
  BY DEF TypeOK
<1> QED
  BY <1>2, <1>3, <1>4, <1>5, <1>6, <1>7, SaveType DEF Typed

\* RecoverOutput and RetryDue stop the output and play the selection again.
LEMMA ReplayType ==
    ASSUME TypeOK, NEW r \in RetryStates, NEW schedule,
           \E end \in EndingsOf(out) :
              IF Raises(out, end)
              THEN Interrupted(out.episode)
              ELSE PlaySelected(st, Stopped(Terminated(out, end)), r, schedule)
    PROVE  Typed
<1>1. out \in Backends(Episodes) /\ out.episode \in Episodes \cup {NoEpisode}
      /\ st \in RuntimeStates
  BY DEF TypeOK, Backends
<1>2. \A end : Stopped(Terminated(out, end)) \in Backends(Episodes)
  BY <1>1, BackendOperations
<1> QED
  BY <1>1, <1>2, InterruptedType, PlaySelectedType DEF Typed

\* Every HTTP command leaves the station well typed.
LEMMA CommandType ==
    ASSUME TypeOK, Command
    PROVE  Typed
<1>0. st \in RuntimeStates
  BY DEF TypeOK
<1>1. CASE Play
  BY <1>1, PlayType
<1>2. CASE Pause
  BY <1>2, PauseType
<1>3. CASE Toggle
  BY <1>3, PlayType, PauseType DEF Toggle
<1>4. CASE Stop
  BY <1>4, StopType
<1>5. CASE NextCommand
  <2>1. PICK s \in NextPodcast(st, Playable, Shuffle) : SwitchTo(s)
    BY <1>5 DEF NextCommand
  <2>2. s \in RuntimeStates
    BY <1>0, NextPodcastState
  <2> QED
    BY <2>1, <2>2, SwitchToType DEF Typed
<1>6. CASE PreviousCommand
  <2>1. PreviousPodcast(st, Playable) \in RuntimeStates
    BY <1>0, PreviousPodcastState
  <2> QED
    BY <1>6, <2>1, SwitchToType DEF PreviousCommand, Typed
<1>7. ASSUME NEW offset \in {-1, 1}, ChangeChannel(offset) PROVE Typed
  <2>1. OffsetChannel(st, offset, Playable) \in RuntimeStates
    BY <1>0, OffsetChannelState
  <2> QED
    BY <1>7, <2>1, SwitchToType DEF ChangeChannel, Typed
<1>8. ASSUME NEW c \in Channels, SelectChannel(c) PROVE Typed
  <2>1. c \in Range(ChannelIds) /\ SwitchTo(EnterChannel(st, c, Playable))
    BY <1>8 DEF SelectChannel
  <2>2. EnterChannel(st, c, Playable) \in RuntimeStates
    BY <1>0, <2>1, EnterChannelState
  <2> QED
    BY <2>1, <2>2, SwitchToType DEF Typed
<1>9. ASSUME NEW p \in Podcasts, SelectPodcast(p) PROVE Typed
  BY <1>0, <1>9, SelectPodcastState, SwitchToType DEF SelectPodcast, Typed
<1>10. ASSUME NEW volume \in VolumeRequests, SetVolume(volume) PROVE Typed
  BY <1>10, SetVolumeType
<1>12. CASE VolumeUp \/ VolumeDown
  BY <1>12, SetVolumeType DEF VolumeUp, VolumeDown
<1>11. CASE RecoverOutput
  <2>1. NoRetry \in RetryStates
    BY DEF NoRetry, RetryStates
  <2> QED
    BY <1>11, <2>1, ReplayType DEF RecoverOutput
<1> QED
  BY <1>1, <1>2, <1>3, <1>4, <1>5, <1>6, <1>7, <1>8, <1>9, <1>10, <1>11, <1>12 DEF Command

\* So does a tick of the playback supervisor.
LEMMA TickType ==
    ASSUME TypeOK, SupervisorTick
    PROVE  Typed
<1>0. st \in RuntimeStates /\ out \in Backends(Episodes) /\ retry \in RetryStates
  BY DEF TypeOK
<1>1. CASE RetryDue
  <2> DEFINE r == [attempts |-> retry.attempts + 1, wait |-> NotScheduled]
  <2>1. r \in RetryStates
    BY <1>0 DEF RetryStates
  <2>2. \E end \in EndingsOf(out) :
           IF Raises(out, end)
           THEN Interrupted(out.episode)
           ELSE PlaySelected(st, Stopped(Terminated(out, end)), r, TRUE)
    BY <1>1 DEF RetryDue
  <2> HIDE DEF r
  <2> QED
    BY <2>1, <2>2, ReplayType
<1>2. CASE NoticeFailure
  <2> DEFINE s == [st EXCEPT !.status = "idle", !.error = "process_failed"]
  <2>1. s \in RuntimeStates
    BY <1>0 DEF RuntimeStates, OutputErrors
  <2>2. Save(s) /\ out' = Consumed(out) /\ retry' = Scheduled(retry)
    BY <1>2 DEF NoticeFailure
  <2> HIDE DEF s
  <2> QED
    BY <1>0, <2>1, <2>2, SaveType, BackendOperations, ScheduledState DEF Typed
<1>3. CASE NoticeCompletion
  <2>1. PICK s \in NextPodcast(st, Playable, Shuffle) :
               PlaySelected(s, Consumed(out), retry, TRUE)
    BY <1>3 DEF NoticeCompletion
  <2>2. s \in RuntimeStates
    BY <1>0, NextPodcastState
  <2>3. Consumed(out) \in Backends(Episodes)
    BY <1>0, BackendOperations
  <2> QED
    BY <1>0, <2>1, <2>2, <2>3, PlaySelectedType DEF Typed
<1> QED
  BY <1>1, <1>2, <1>3 DEF SupervisorTick

\* Clock, players, restarts: what happens around the service.
LEMMA WorldType ==
    ASSUME TypeOK,
           \/ ClockTick
           \/ \E outcome \in {"completed", "failed"} : PlayerExits(outcome)
           \/ StrayExits
           \/ Crash
           \/ Shutdown
    PROVE  Typed
<1>0. st \in RuntimeStates /\ out \in Backends(Episodes) /\ retry \in RetryStates
  BY DEF TypeOK
<1>1. CASE ClockTick
  BY <1>0, <1>1 DEF ClockTick, RetryStates, Typed
<1>2. ASSUME NEW outcome \in {"completed", "failed"}, PlayerExits(outcome) PROVE Typed
  BY <1>0, <1>2 DEF PlayerExits, Backends, Processes, Typed
<1>3. CASE StrayExits
  BY <1>0, <1>3 DEF StrayExits, Backends, Typed
<1>4. ASSUME Exit PROVE out' \in Backends(Episodes) /\ retry' \in RetryStates
  BY <1>0, <1>4, BackendOperations, StationAssumption DEF Exit, NoRetry, RetryStates
<1>5. CASE Crash
  BY <1>0, <1>4, <1>5 DEF Crash, Typed
<1>6. CASE Shutdown
  <2> DEFINE s == [st EXCEPT !.status = "stopped", !.error = NoError]
  <2>1. s \in RuntimeStates
    BY <1>0 DEF RuntimeStates
  <2>2. Exit /\ (Save(s) \/ UNCHANGED st)
    BY <1>6 DEF Shutdown
  <2> HIDE DEF s
  <2> QED
    BY <1>0, <1>4, <2>1, <2>2, SaveType DEF Typed
<1> QED
  BY <1>1, <1>2, <1>3, <1>5, <1>6

\* Station's type invariant: no command, tick, failure or restart leaves a
\* record outside its type, for every configuration and every bound.
THEOREM Typing == Spec => []TypeOK
<1>1. Init => TypeOK
  <2> SUFFICES ASSUME Init PROVE TypeOK
    OBVIOUS
  <2>1. st \in RuntimeStates
    <3>1. <<>> \in Seq(Podcasts)
      OBVIOUS
    <3>2. FirstState \in RuntimeStates
      BY <3>1, StationAssumption DEF FirstState, RuntimeStates
    <3>3. Histories(MaxInherited) \subseteq Seq(Podcasts)
      BY HistoriesTyped, StationAssumption
    <3>4. InheritedStates \subseteq RuntimeStates
      BY <3>3, StationAssumption DEF InheritedStates, RuntimeStates
    <3> QED
      BY <3>2, <3>4 DEF Init
  <2>2. downloads \in [Podcasts -> 0 .. MaxEpisodes]
    BY StationAssumption DEF Init
  <2>3. out \in Backends(Episodes)
    BY StationAssumption DEF Init, NewBackend, Backends, Processes, OutputStates
  <2>4. retry \in RetryStates
    BY DEF Init, NoRetry, RetryStates
  <2> QED
    BY <2>1, <2>2, <2>3, <2>4 DEF Init, TypeOK
<1>2. TypeOK /\ [Next]_vars => TypeOK'
  <2> SUFFICES ASSUME TypeOK, [Next]_vars PROVE TypeOK'
    OBVIOUS
  <2>1. ASSUME Typed, UNCHANGED downloads, phase' \in {"down", "booting", "up"}
        PROVE  TypeOK'
    BY <2>1 DEF TypeOK, Typed
  <2>2. CASE Serve
    BY <2>1, <2>2, CommandType DEF Serve, TypeOK
  <2>3. CASE Tick
    BY <2>1, <2>3, TickType DEF Tick, TypeOK
  <2>4. CASE Clock
    BY <2>1, <2>4, WorldType DEF Clock, TypeOK
  <2>5. ASSUME NEW outcome \in {"completed", "failed"},
               PlayerExits(outcome) /\ UNCHANGED <<downloads, phase>>
        PROVE  TypeOK'
    BY <2>1, <2>5, WorldType DEF TypeOK
  <2>6. CASE StrayExits /\ UNCHANGED <<downloads, phase>>
    BY <2>1, <2>6, WorldType DEF TypeOK
  <2>7. ASSUME NEW p \in Podcasts, DownloadArrives(p) PROVE TypeOK'
    <3>1. downloads' \in [Podcasts -> 0 .. MaxEpisodes]
      BY <2>7, StationAssumption DEF DownloadArrives, TypeOK
    <3> QED
      BY <2>7, <3>1 DEF DownloadArrives, TypeOK
  <2>8. CASE Boot
    BY <2>8 DEF Boot, TypeOK
  <2>9. CASE BootPlay
    BY <2>1, <2>9, PlayType DEF BootPlay
  <2>10. CASE Crash
    BY <2>1, <2>10, WorldType DEF Crash, Exit
  <2>11. CASE Shutdown
    BY <2>1, <2>11, WorldType DEF Shutdown, Exit
  <2>12. CASE UNCHANGED vars
    BY <2>12 DEF vars, TypeOK
  <2> QED
    BY <2>2, <2>3, <2>4, <2>5, <2>6, <2>7, <2>8, <2>9, <2>10, <2>11, <2>12 DEF Next
<1> QED
  BY <1>1, <1>2, PTL DEF Spec

-----------------------------------------------------------------------------
(* The bound on automatic retries.                                         *)

\* RetryBounded, of any retry state.
Bounded(r) ==
    /\ r.attempts <= MaxAttempts
    /\ r.wait # NotScheduled => r.attempts < MaxAttempts

\* A reset retry state and a newly scheduled one are within the policy: this
\* is OutputRetryPolicy.next_delay refusing an attempt too many.
LEMMA ScheduledBounded ==
    /\ Bounded(NoRetry)
    /\ \A r \in RetryStates : Bounded(r) => Bounded(Scheduled(r))
<1>1. Bounded(NoRetry)
  BY StationAssumption DEF Bounded, NoRetry
<1>2. ASSUME NEW r \in RetryStates, Bounded(r) PROVE Bounded(Scheduled(r))
  <2>1. CASE r.wait = NotScheduled /\ r.attempts < MaxAttempts
    <3> DEFINE w == RetryDelay * (r.attempts + 1)
    <3>1. Scheduled(r) = [r EXCEPT !.wait = w]
      BY <2>1 DEF Scheduled
    <3> HIDE DEF w
    <3>2. Scheduled(r).attempts = r.attempts
      BY <3>1 DEF RetryStates
    <3> QED
      BY <1>2, <2>1, <3>2 DEF Bounded
  <2>2. CASE ~(r.wait = NotScheduled /\ r.attempts < MaxAttempts)
    BY <1>2, <2>2 DEF Scheduled
  <2> QED
    BY <2>1, <2>2
<1> QED
  BY <1>1, <1>2

\* Whatever _play_selected does, it keeps the retry state it is given within
\* the policy.
LEMMA PlaySelectedBounded ==
    ASSUME NEW s, NEW o, NEW r \in RetryStates, NEW schedule,
           Bounded(r), PlaySelected(s, o, r, schedule)
    PROVE  Bounded(retry')
<1>1. \/ retry' = NoRetry
      \/ retry' = r
      \/ retry' = Scheduled(r)
  BY DEF PlaySelected
<1> QED
  BY <1>1, ScheduledBounded

\* No command takes the retry state beyond the policy.
LEMMA CommandBounded ==
    ASSUME TypeOK, Bounded(retry), Command
    PROVE  Bounded(retry')
<1>0. retry \in RetryStates /\ NoRetry \in RetryStates
  BY DEF TypeOK, NoRetry, RetryStates
<1>1. ASSUME NEW e, Interrupted(e) PROVE Bounded(retry')
  BY <1>1 DEF Interrupted
<1>2. ASSUME NEW s, SwitchTo(s) PROVE Bounded(retry')
  BY <1>0, <1>1, <1>2, PlaySelectedBounded DEF SwitchTo
<1>3. CASE Play
  BY <1>2, <1>3 DEF Play
<1>4. CASE Pause
  BY <1>1, <1>4 DEF Pause
<1>5. CASE Stop
  BY <1>1, <1>5, ScheduledBounded DEF Stop
<1>6. CASE RecoverOutput
  BY <1>0, <1>1, <1>6, PlaySelectedBounded, ScheduledBounded DEF RecoverOutput
<1>7. ASSUME NEW volume, SetVolume(volume) PROVE Bounded(retry')
  BY <1>7 DEF SetVolume
<1>8. CASE Toggle
  BY <1>3, <1>4, <1>8 DEF Toggle
<1>9. CASE \/ NextCommand
           \/ PreviousCommand
           \/ \E offset \in {-1, 1} : ChangeChannel(offset)
           \/ \E c \in Channels : SelectChannel(c)
           \/ \E p \in Podcasts : SelectPodcast(p)
  BY <1>2, <1>9
     DEF NextCommand, PreviousCommand, ChangeChannel, SelectChannel, SelectPodcast
<1> QED
  BY <1>3, <1>4, <1>5, <1>6, <1>7, <1>8, <1>9 DEF Command, VolumeUp, VolumeDown

\* Nor does a tick: a due retry counts the attempt it was scheduled for, and a
\* retry is only scheduled while the policy has one left.
LEMMA TickBounded ==
    ASSUME TypeOK, Bounded(retry), SupervisorTick
    PROVE  Bounded(retry')
<1>0. retry \in RetryStates
  BY DEF TypeOK
<1>1. CASE RetryDue
  <2> DEFINE r == [attempts |-> retry.attempts + 1, wait |-> NotScheduled]
  <2>1. r \in RetryStates
    BY <1>0 DEF RetryStates
  <2>2. retry.attempts < MaxAttempts
    BY <1>1, StationAssumption DEF RetryDue, Bounded
  <2>3. Bounded(r)
    BY <1>0, <2>2, StationAssumption DEF Bounded, RetryStates
  <2>4. \E end \in EndingsOf(out) :
           IF Raises(out, end)
           THEN Interrupted(out.episode)
           ELSE PlaySelected(st, Stopped(Terminated(out, end)), r, TRUE)
    BY <1>1 DEF RetryDue
  <2> HIDE DEF r
  <2> QED
    BY <2>1, <2>3, <2>4, PlaySelectedBounded DEF Interrupted
<1>2. CASE NoticeFailure
  BY <1>0, <1>2, ScheduledBounded DEF NoticeFailure
<1>3. CASE NoticeCompletion
  BY <1>0, <1>3, PlaySelectedBounded DEF NoticeCompletion
<1> QED
  BY <1>1, <1>2, <1>3 DEF SupervisorTick

\* For every policy and every way playback may fail, automatic retries never
\* exceed max_attempts, and one is pending only while the policy has one left.
THEOREM RetriesBounded == Spec => []RetryBounded
<1>1. RetryBounded <=> Bounded(retry)
  BY DEF RetryBounded, Bounded
<1>2. RetryBounded' <=> Bounded(retry')
  BY DEF RetryBounded, Bounded
<1>3. Init => RetryBounded
  BY <1>1, ScheduledBounded DEF Init
<1>4. TypeOK /\ RetryBounded /\ [Next]_vars => RetryBounded'
  <2> SUFFICES ASSUME TypeOK, Bounded(retry), [Next]_vars PROVE Bounded(retry')
    BY <1>1, <1>2
  <2>1. CASE Serve
    BY <2>1, CommandBounded DEF Serve
  <2>2. CASE Tick
    BY <2>2, TickBounded DEF Tick
  <2>3. CASE Clock
    <3>1. retry' = [retry EXCEPT !.wait = @ - 1] /\ retry.wait \in Nat
      BY <2>3 DEF Clock, ClockTick
    <3>2. retry'.attempts = retry.attempts /\ retry.wait # NotScheduled
      BY <3>1, StationAssumption DEF TypeOK, RetryStates
    <3> QED
      BY <3>2 DEF Bounded
  <2>4. CASE BootPlay
    BY <2>4, CommandBounded DEF BootPlay, Command
  <2>5. CASE Crash \/ Shutdown
    BY <2>5, ScheduledBounded DEF Crash, Shutdown, Exit
  <2>6. CASE \/ \E outcome \in {"completed", "failed"} :
                   PlayerExits(outcome) /\ UNCHANGED <<downloads, phase>>
             \/ StrayExits /\ UNCHANGED <<downloads, phase>>
             \/ \E p \in Podcasts : DownloadArrives(p)
             \/ Boot
             \/ UNCHANGED vars
    BY <2>6 DEF PlayerExits, StrayExits, DownloadArrives, Boot, vars
  <2> QED
    BY <2>1, <2>2, <2>3, <2>4, <2>5, <2>6 DEF Next
<1> QED
  BY <1>3, <1>4, Typing, PTL DEF Spec

-----------------------------------------------------------------------------
(* The player, the output and the persisted state.                         *)

\* NoAudioUnlessPlaying is not inductive: SetVolume starts a player when the
\* output, and not the persisted state, says playing.  So the output's own
\* state has to agree with the persisted one, and the episode it would start
\* again with the one it reports and with the selection.  The last part fails
\* when terminating a player may raise, since play_episode has by then
\* replaced the episode.
Agreement ==
    /\ out.proc # "none" => out.state = "playing"
    /\ out.state = "playing" => Watching
    /\ "hangs" \notin Endings /\ out.state = "playing"
          => out.ident = out.episode /\ out.ident[1] = st.podcast

\* _play_selected makes the three agree, whatever they were.
LEMMA PlaySelectedAgreement ==
    ASSUME ~DiskMayFail, NEW s0 \in RuntimeStates, NEW o \in Backends(Episodes),
           NEW r, NEW schedule, PlaySelected(s0, o, r, schedule)
    PROVE  Agreement'
<1> DEFINE s == Activate(s0, Playable)
<1>1. s \in RuntimeStates
  BY ActivateState
<1>2. \A t : Save(t) => st' = t
  BY DEF Save
<1>3. EpisodeOf(s)[1] = s.podcast
  BY DEF EpisodeOf
<1>4. \/ /\ out' = Playing(o, EpisodeOf(s))
         /\ st' = [s EXCEPT !.status = "playing", !.error = NoError]
      \/ out' = StartFailed(o, EpisodeOf(s))
      \/ out' = Stopped(o)
  BY <1>2 DEF PlaySelected
<1> HIDE DEF s
<1>5. CASE /\ out' = Playing(o, EpisodeOf(s))
           /\ st' = [s EXCEPT !.status = "playing", !.error = NoError]
  <2>1. st'.status = "playing" /\ st'.error = NoError /\ st'.podcast = s.podcast
    BY <1>1, <1>5 DEF RuntimeStates
  <2>2. /\ out'.state = "playing"
        /\ out'.ident = EpisodeOf(s)
        /\ out'.episode = EpisodeOf(s)
    BY <1>5 DEF Playing, Backends
  <2> QED
    BY <1>3, <2>1, <2>2 DEF Agreement, Watching
<1>6. CASE out' = StartFailed(o, EpisodeOf(s))
  BY <1>6 DEF StartFailed, Backends, Agreement
<1>7. CASE out' = Stopped(o)
  BY <1>7 DEF Stopped, Backends, Agreement
<1> QED
  BY <1>4, <1>5, <1>6, <1>7

\* A command that a hanging player interrupts leaves no player behind.
LEMMA InterruptedAgreement ==
    ASSUME TypeOK, Agreement, "hangs" \in Endings, NEW e, Interrupted(e)
    PROVE  Agreement'
<1>1. out'.proc = "none" /\ out'.state = out.state
  BY DEF TypeOK, Backends, Interrupted, Terminated
<1> QED
  BY <1>1 DEF Agreement, Watching, Interrupted

\* Only a player that hangs interrupts a command.
LEMMA RaisesHangs ==
    ASSUME NEW o, NEW end \in EndingsOf(o), Raises(o, end)
    PROVE  "hangs" \in Endings
BY DEF EndingsOf, Raises

\* Playing another selection re-establishes the agreement.
LEMMA SwitchToAgreement ==
    ASSUME ~DiskMayFail, TypeOK, Agreement, NEW s0 \in RuntimeStates, SwitchTo(s0)
    PROVE  Agreement'
<1>1. PICK end \in EndingsOf(out) :
        IF Raises(out, end)
        THEN \E e : Interrupted(e)
        ELSE PlaySelected(s0, Terminated(out, end), retry, TRUE)
  BY DEF SwitchTo
<1>2. CASE Raises(out, end)
  BY <1>1, <1>2, InterruptedAgreement, RaisesHangs
<1>3. CASE ~Raises(out, end)
  <2>1. Terminated(out, end) \in Backends(Episodes)
    BY BackendOperations DEF TypeOK
  <2> QED
    BY <1>1, <1>3, <2>1, PlaySelectedAgreement
<1> QED
  BY <1>2, <1>3

\* So does stopping the output and playing the selection again.
LEMMA ReplayAgreement ==
    ASSUME ~DiskMayFail, TypeOK, Agreement, NEW r, NEW schedule,
           \E end \in EndingsOf(out) :
              IF Raises(out, end)
              THEN Interrupted(out.episode)
              ELSE PlaySelected(st, Stopped(Terminated(out, end)), r, schedule)
    PROVE  Agreement'
<1>1. out \in Backends(Episodes) /\ st \in RuntimeStates
  BY DEF TypeOK
<1>2. \A end : Stopped(Terminated(out, end)) \in Backends(Episodes)
  BY <1>1, BackendOperations
<1> QED
  BY <1>1, <1>2, InterruptedAgreement, RaisesHangs, PlaySelectedAgreement

\* A station already playing its selection is left as it is; any other plays.
LEMMA PlayAgreement ==
    ASSUME ~DiskMayFail, TypeOK, Agreement, Play
    PROVE  Agreement'
<1> DEFINE s == Activate(st, Playable)
<1>1. s \in RuntimeStates /\ SameStatus(st, s)
  BY ActivateState DEF TypeOK
<1>2. \/ out.ident = EpisodeOf(s) /\ st' = s /\ UNCHANGED out
      \/ SwitchTo(s)
  BY DEF Play, Save
<1>3. EpisodeOf(s)[1] = s.podcast
  BY DEF EpisodeOf
<1> HIDE DEF s
<1>4. CASE out.ident = EpisodeOf(s) /\ st' = s /\ UNCHANGED out
  BY <1>1, <1>3, <1>4 DEF Agreement, Watching, SameStatus
<1>5. CASE SwitchTo(s)
  BY <1>1, <1>5, SwitchToAgreement
<1> QED
  BY <1>2, <1>4, <1>5

\* Pausing drops the player; a station that is paused already has none.
LEMMA PauseAgreement ==
    ASSUME ~DiskMayFail, TypeOK, Agreement, Pause
    PROVE  Agreement'
<1> DEFINE s == Activate(st, Playable)
<1>1. \/ st.status = "paused" /\ st' = s /\ UNCHANGED out
      \/ \E end \in EndingsOf(out) : Raises(out, end) /\ Interrupted(out.episode)
      \/ \E end \in EndingsOf(out) : out' = Paused(Terminated(out, end))
  BY DEF Pause, Save
<1>2. CASE st.status = "paused" /\ st' = s /\ UNCHANGED out
  <2>1. out.state # "playing"
    BY <1>2 DEF Agreement, Watching
  <2> QED
    BY <1>2, <2>1 DEF Agreement
<1>3. CASE \E end \in EndingsOf(out) : Raises(out, end) /\ Interrupted(out.episode)
  BY <1>3, InterruptedAgreement, RaisesHangs
<1>4. CASE \E end \in EndingsOf(out) : out' = Paused(Terminated(out, end))
  <2>1. PICK end \in EndingsOf(out) : out' = Paused(Terminated(out, end))
    BY <1>4
  <2>2. Terminated(out, end) \in Backends(Episodes)
    BY BackendOperations DEF TypeOK
  <2> QED
    BY <2>1, <2>2 DEF Paused, Backends, Agreement
<1> QED
  BY <1>1, <1>2, <1>3, <1>4

\* So does stopping.
LEMMA StopAgreement ==
    ASSUME ~DiskMayFail, TypeOK, Agreement, Stop
    PROVE  Agreement'
<1>1. \/ st.status = "stopped" /\ UNCHANGED out
      \/ \E end \in EndingsOf(out) : Raises(out, end) /\ Interrupted(out.episode)
      \/ \E end \in EndingsOf(out) : out' = Stopped(Terminated(out, end))
  BY DEF Stop
<1>2. CASE st.status = "stopped" /\ UNCHANGED out
  <2>1. out.state # "playing"
    BY <1>2 DEF Agreement, Watching
  <2> QED
    BY <1>2, <2>1 DEF Agreement
<1>3. CASE \E end \in EndingsOf(out) : Raises(out, end) /\ Interrupted(out.episode)
  BY <1>3, InterruptedAgreement, RaisesHangs
<1>4. CASE \E end \in EndingsOf(out) : out' = Stopped(Terminated(out, end))
  <2>1. PICK end \in EndingsOf(out) : out' = Stopped(Terminated(out, end))
    BY <1>4
  <2>2. Terminated(out, end) \in Backends(Episodes)
    BY BackendOperations DEF TypeOK
  <2> QED
    BY <2>1, <2>2 DEF Stopped, Backends, Agreement
<1> QED
  BY <1>1, <1>2, <1>3, <1>4

\* Changing the volume plays the output's own episode again, so it relies on
\* the agreement it keeps.
LEMMA SetVolumeAgreement ==
    ASSUME ~DiskMayFail, TypeOK, Agreement, NEW volume, SetVolume(volume)
    PROVE  Agreement'
<1> DEFINE o == WithVolume(out, volume)
           s == [st EXCEPT !.volume = volume]
<1>1. o \in Backends(Episodes)
  BY BackendOperations DEF TypeOK, SetVolume
<1>2. /\ o.state = out.state /\ o.proc = out.proc
      /\ o.ident = out.ident /\ o.episode = out.episode
  BY DEF TypeOK, Backends, WithVolume
<1>3. s.status = st.status /\ s.error = st.error /\ s.podcast = st.podcast
  BY DEF TypeOK, RuntimeStates
<1>4. \/ /\ Restarts(o)
         /\ \E end \in EndingsOf(o), launched \in BOOLEAN :
               \/ Raises(o, end) /\ out' = Terminated(o, end) /\ UNCHANGED st
               \/ out' = Played(Terminated(o, end), o.episode, launched) /\ st' = s
      \/ out' = o /\ st' = s
  BY DEF SetVolume, Save
<1> HIDE DEF o, s
<1>5. ASSUME NEW end \in EndingsOf(o), out' = Terminated(o, end), UNCHANGED st
      PROVE  Agreement'
  <2>1. /\ out'.proc = "none" /\ out'.state = o.state
        /\ out'.ident = o.ident /\ out'.episode = o.episode
    BY <1>1, <1>5 DEF Backends, Terminated
  <2> QED
    BY <1>2, <1>5, <2>1 DEF Agreement, Watching
<1>6. ASSUME NEW end \in EndingsOf(o), NEW launched \in BOOLEAN, Restarts(o),
             out' = Played(Terminated(o, end), o.episode, launched), st' = s
      PROVE  Agreement'
  <2> DEFINE t == Terminated(o, end)
  <2>1. t \in Backends(Episodes)
    BY <1>1, BackendOperations
  <2> HIDE DEF t
  <2>2. out' = Playing(t, o.episode) \/ out' = StartFailed(t, o.episode)
    BY <1>6 DEF Played, t
  <2>3. CASE out' = Playing(t, o.episode)
    <3>1. out'.state = "playing" /\ out'.ident = o.episode /\ out'.episode = o.episode
      BY <2>1, <2>3 DEF Playing, Backends
    <3> QED
      BY <1>2, <1>3, <1>6, <3>1 DEF Agreement, Watching, Restarts
  <2>4. CASE out' = StartFailed(t, o.episode)
    BY <2>1, <2>4 DEF StartFailed, Backends, Agreement
  <2> QED
    BY <2>2, <2>3, <2>4
<1>7. CASE out' = o /\ st' = s
  BY <1>2, <1>3, <1>7 DEF Agreement, Watching
<1> QED
  BY <1>4, <1>5, <1>6, <1>7

\* Every HTTP command keeps the agreement.
LEMMA CommandAgreement ==
    ASSUME ~DiskMayFail, TypeOK, Agreement, Command
    PROVE  Agreement'
<1>0. st \in RuntimeStates
  BY DEF TypeOK
<1>1. CASE Play \/ Pause \/ Toggle \/ Stop
  BY <1>1, PlayAgreement, PauseAgreement, StopAgreement DEF Toggle
<1>2. CASE NextCommand
  BY <1>0, <1>2, NextPodcastState, SwitchToAgreement DEF NextCommand
<1>3. CASE PreviousCommand
  BY <1>0, <1>3, PreviousPodcastState, SwitchToAgreement DEF PreviousCommand
<1>4. ASSUME NEW offset \in {-1, 1}, ChangeChannel(offset) PROVE Agreement'
  BY <1>0, <1>4, OffsetChannelState, SwitchToAgreement DEF ChangeChannel
<1>5. ASSUME NEW c \in Channels, SelectChannel(c) PROVE Agreement'
  BY <1>0, <1>5, EnterChannelState, SwitchToAgreement DEF SelectChannel
<1>6. ASSUME NEW p \in Podcasts, SelectPodcast(p) PROVE Agreement'
  BY <1>0, <1>6, SelectPodcastState, SwitchToAgreement DEF SelectPodcast
<1>7. ASSUME NEW volume, SetVolume(volume) PROVE Agreement'
  BY <1>7, SetVolumeAgreement
<1>8. CASE RecoverOutput
  BY <1>8, ReplayAgreement DEF RecoverOutput
<1> QED
  BY <1>1, <1>2, <1>3, <1>4, <1>5, <1>6, <1>7, <1>8 DEF Command, VolumeUp, VolumeDown

\* So does a tick of the playback supervisor.
LEMMA TickAgreement ==
    ASSUME ~DiskMayFail, TypeOK, Agreement, SupervisorTick
    PROVE  Agreement'
<1>0. st \in RuntimeStates /\ out \in Backends(Episodes)
  BY DEF TypeOK
<1>1. CASE RetryDue
  BY <1>1, ReplayAgreement DEF RetryDue
<1>2. CASE NoticeFailure
  <2>1. out' = Consumed(out) /\ out.proc = "failed"
    BY <1>0, <1>2 DEF NoticeFailure, PlaybackEvent, Backends, Processes
  <2>2. out'.proc = "none" /\ out'.state = "error"
    BY <1>0, <2>1 DEF Consumed, Backends
  <2> QED
    BY <2>2 DEF Agreement
<1>3. CASE NoticeCompletion
  <2>1. Consumed(out) \in Backends(Episodes)
    BY <1>0, BackendOperations
  <2> QED
    BY <1>0, <1>3, <2>1, NextPodcastState, PlaySelectedAgreement DEF NoticeCompletion
<1> QED
  BY <1>1, <1>2, <1>3 DEF SupervisorTick

\* The agreement is an invariant of the station while state.json can be
\* written.
LEMMA AgreementInvariant ==
    ASSUME ~DiskMayFail
    PROVE  Spec => []Agreement
<1>1. Init => Agreement
  BY DEF Init, Agreement, NewBackend
<1>2. TypeOK /\ Agreement /\ [Next]_vars => Agreement'
  <2> SUFFICES ASSUME TypeOK, Agreement, [Next]_vars PROVE Agreement'
    OBVIOUS
  <2>1. CASE Serve
    BY <2>1, CommandAgreement DEF Serve
  <2>2. CASE Tick
    BY <2>2, TickAgreement DEF Tick
  <2>3. CASE BootPlay
    BY <2>3, PlayAgreement DEF BootPlay
  <2>4. CASE Crash \/ Shutdown
    <3>1. out' = NewBackend(ConfigVolume)
      BY <2>4 DEF Crash, Shutdown, Exit
    <3> QED
      BY <3>1 DEF Agreement, NewBackend
  <2>5. ASSUME NEW outcome \in {"completed", "failed"}, PlayerExits(outcome)
        PROVE  Agreement'
    <3>1. /\ out.proc = "running" /\ out'.state = out.state
          /\ out'.ident = out.ident /\ out'.episode = out.episode /\ st' = st
      BY <2>5 DEF PlayerExits, TypeOK, Backends
    <3> QED
      BY <3>1 DEF Agreement, Watching
  <2>6. CASE StrayExits
    <3>1. /\ out'.proc = out.proc /\ out'.state = out.state
          /\ out'.ident = out.ident /\ out'.episode = out.episode /\ st' = st
      BY <2>6 DEF StrayExits, TypeOK, Backends
    <3> QED
      BY <3>1 DEF Agreement, Watching
  <2>7. CASE \/ Clock
             \/ \E p \in Podcasts : DownloadArrives(p)
             \/ Boot
             \/ UNCHANGED vars
    BY <2>7 DEF Clock, ClockTick, DownloadArrives, Boot, vars, Agreement, Watching
  <2> QED
    BY <2>1, <2>2, <2>3, <2>4, <2>5, <2>6, <2>7 DEF Next
<1> QED
  BY <1>1, <1>2, Typing, PTL DEF Spec

\* While state.json can be written, the backend never holds a player for a
\* station that is not marked playing, whatever players do and however
\* commands, ticks, volume changes and restarts follow each other.
THEOREM PlayerOnlyWhilePlaying ==
    ASSUME ~DiskMayFail
    PROVE  Spec => []NoAudioUnlessPlaying
<1>1. Agreement => NoAudioUnlessPlaying
  BY DEF Agreement, NoAudioUnlessPlaying, Watching
<1> QED
  BY <1>1, AgreementInvariant, PTL

\* When moreover no player hangs on termination, what is heard is what is
\* selected.
THEOREM HeardIsSelected ==
    ASSUME ~DiskMayFail, "hangs" \notin Endings
    PROVE  Spec => []SelectedIsHeard
<1>1. Agreement => SelectedIsHeard
  BY DEF Agreement, SelectedIsHeard
<1> QED
  BY <1>1, AgreementInvariant, PTL

-----------------------------------------------------------------------------
(* The selection and the active channel.                                   *)

\* From s to t nothing foreign comes in, and none is taken into another channel.
NoMoreForeign(s, t) ==
    /\ Foreign(t) \subseteq Foreign(s)
    /\ ActiveChannel(t) # ActiveChannel(s) => Foreign(t) = {}

\* A state reached within the step that began in st.
Within(s) == NoMoreForeign(st, s)

\* The relation is transitive, so a step may be taken in parts.
LEMMA ForeignTransitive ==
    ASSUME NEW s, NEW t, NEW u, NoMoreForeign(s, t), NoMoreForeign(t, u)
    PROVE  NoMoreForeign(s, u)
BY DEF NoMoreForeign

\* It depends on the selection and its history only.
LEMMA SameSelection ==
    ASSUME NEW s, NEW t,
           t.channel = s.channel, t.podcast = s.podcast, t.previous = s.previous
    PROVE  NoMoreForeign(s, t)
BY DEF NoMoreForeign, Foreign, ActiveChannel

\* A move does so: the history of another channel is dropped, and what is added
\* is playable in the channel it ends in.
LEMMA MovedWithin ==
    ASSUME NEW s \in RuntimeStates, NEW playable, NEW t, Moved(s, t, playable)
    PROVE  /\ NoMoreForeign(s, t)
           /\ Within(s) => Within(t)
<1>1. /\ t.channel \in Range(ChannelIds)
      /\ EndsOn(t.channel, t.podcast, playable)
      /\ \/ t.previous = <<>>
         \/ /\ t.channel = ActiveChannel(s)
            /\ Range(t.previous) \subseteq
                  Range(s.previous) \cup PlayableIn(t.channel, playable)
  BY RuntimeSelecting, MovedFields
<1>2. ActiveChannel(t) = t.channel
  BY <1>1 DEF ActiveChannel
<1>3. PlayableIn(t.channel, playable) \subseteq Configured(t.channel)
  BY <1>1, PlayableType
<1>4. t.podcast \in Configured(t.channel) \cup {NoPodcast}
  BY <1>1, <1>3 DEF EndsOn
<1>5. Foreign(t) = Range(t.previous) \ (Configured(t.channel) \cup {NoPodcast})
  BY <1>2, <1>4 DEF Foreign
<1>6. NoMoreForeign(s, t)
  <2>1. CASE t.previous = <<>>
    <3>1. Range(<<>>) = {}
      BY DEF Range
    <3>2. Foreign(t) = {}
      BY <1>5, <2>1, <3>1
    <3> QED
      BY <3>2 DEF NoMoreForeign
  <2>2. CASE /\ t.channel = ActiveChannel(s)
             /\ Range(t.previous) \subseteq
                   Range(s.previous) \cup PlayableIn(t.channel, playable)
    <3>1. Foreign(t) \subseteq Foreign(s)
      BY <1>3, <1>5, <2>2 DEF Foreign
    <3> QED
      BY <1>2, <2>2, <3>1 DEF NoMoreForeign
  <2> QED
    BY <1>1, <2>1, <2>2
<1> QED
  BY <1>6, ForeignTransitive DEF Within

\* Saving such a state, with whatever status, error and volume, keeps it so.
LEMMA SavedWithin ==
    ASSUME NEW s, Within(s), NEW t, Save(t),
           t.channel = s.channel, t.podcast = s.podcast, t.previous = s.previous
    PROVE  Within(st')
<1>1. Within(t)
  BY SameSelection, ForeignTransitive DEF Within
<1>2. NoMoreForeign(st, st)
  BY DEF NoMoreForeign
<1> QED
  BY <1>1, <1>2 DEF Save, Within

\* A step that leaves the state alone, and the state itself.
LEMMA UnchangedWithin == Within(st) /\ (st' = st => Within(st'))
BY DEF Within, NoMoreForeign

\* _play_selected brings nothing foreign in.
LEMMA PlaySelectedWithin ==
    ASSUME NEW s0 \in RuntimeStates, Within(s0), NEW o, NEW r, NEW schedule,
           PlaySelected(s0, o, r, schedule)
    PROVE  Within(st')
<1> DEFINE s == Activate(s0, Playable)
<1>1. s \in RuntimeStates /\ Within(s)
  BY ActivateState, RuntimeSelecting, ActivateMoves, MovedWithin
<1>2. \E status, error : Save([s EXCEPT !.status = status, !.error = error])
  BY DEF PlaySelected
<1> HIDE DEF s
<1>3. PICK status, error : Save([s EXCEPT !.status = status, !.error = error])
  BY <1>2
<1> DEFINE t == [s EXCEPT !.status = status, !.error = error]
<1>4. t.channel = s.channel /\ t.podcast = s.podcast /\ t.previous = s.previous
  BY <1>1 DEF RuntimeStates
<1>5. Save(t)
  BY <1>3
<1> HIDE DEF t
<1> QED
  BY <1>1, <1>4, <1>5, SavedWithin

\* So does playing another selection, unless a hanging player interrupts it.
LEMMA SwitchToWithin ==
    ASSUME NEW s0 \in RuntimeStates, Within(s0), SwitchTo(s0)
    PROVE  Within(st')
<1>1. \/ UNCHANGED st
      \/ \E o : PlaySelected(s0, o, retry, TRUE)
  BY DEF SwitchTo, Interrupted
<1> QED
  BY <1>1, PlaySelectedWithin, UnchangedWithin

\* Nor does an HTTP command.
LEMMA CommandWithin ==
    ASSUME TypeOK, Command
    PROVE  Within(st')
<1> DEFINE a == Activate(st, Playable)
<1>0. st \in RuntimeStates /\ Selecting(st) /\ Within(st)
  BY RuntimeSelecting, UnchangedWithin DEF TypeOK
<1>1. a \in RuntimeStates /\ Within(a)
  BY <1>0, ActivateState, ActivateMoves, MovedWithin
<1>2. CASE Play
  <2>1. Save(a) \/ SwitchTo(a)
    BY <1>2 DEF Play
  <2> HIDE DEF a
  <2> QED
    BY <1>1, <2>1, SavedWithin, SwitchToWithin
<1>3. CASE Pause
  <2>1. Save(a) \/ Save([a EXCEPT !.status = "paused"]) \/ UNCHANGED st
    BY <1>3 DEF Pause, Interrupted
  <2> HIDE DEF a
  <2> DEFINE t == [a EXCEPT !.status = "paused"]
  <2>2. t.channel = a.channel /\ t.podcast = a.podcast /\ t.previous = a.previous
    BY <1>1 DEF RuntimeStates
  <2> HIDE DEF t
  <2> QED
    BY <1>1, <2>1, <2>2, SavedWithin, UnchangedWithin DEF t
<1>4. CASE Stop
  <2> DEFINE stopped == [st EXCEPT !.status = "stopped", !.error = NoError]
             cleared == [st EXCEPT !.error = NoError]
  <2>1. UNCHANGED st \/ Save(stopped) \/ Save(cleared)
    BY <1>4 DEF Stop, Interrupted
  <2>2. /\ stopped.channel = st.channel /\ cleared.channel = st.channel
        /\ stopped.podcast = st.podcast /\ cleared.podcast = st.podcast
        /\ stopped.previous = st.previous /\ cleared.previous = st.previous
    BY <1>0 DEF RuntimeStates
  <2> HIDE DEF stopped, cleared
  <2> QED
    BY <1>0, <2>1, <2>2, SavedWithin, UnchangedWithin
<1>5. ASSUME NEW volume, SetVolume(volume) PROVE Within(st')
  <2> DEFINE t == [st EXCEPT !.volume = volume]
  <2>1. UNCHANGED st \/ Save(t)
    BY <1>5 DEF SetVolume
  <2>2. t.channel = st.channel /\ t.podcast = st.podcast /\ t.previous = st.previous
    BY <1>0 DEF RuntimeStates
  <2> HIDE DEF t
  <2> QED
    BY <1>0, <2>1, <2>2, SavedWithin, UnchangedWithin
<1>6. CASE RecoverOutput
  <2>1. UNCHANGED st \/ \E o, r, schedule : PlaySelected(st, o, r, schedule)
    BY <1>6 DEF RecoverOutput, Interrupted
  <2> QED
    BY <1>0, <2>1, PlaySelectedWithin, UnchangedWithin
<1>7. ASSUME NEW t, Moved(st, t, Playable), SwitchTo(t) PROVE Within(st')
  BY <1>0, <1>7, MovedState, MovedWithin, SwitchToWithin
<1>8. CASE NextCommand \/ PreviousCommand
  BY <1>0, <1>7, <1>8, NextPodcastMoves, PreviousPodcastMoves DEF NextCommand, PreviousCommand
<1>9. CASE \E offset \in {-1, 1} : ChangeChannel(offset)
  BY <1>0, <1>7, <1>9, OffsetChannelMoves DEF ChangeChannel
<1>10. CASE \E c \in Channels : SelectChannel(c)
  BY <1>0, <1>7, <1>10, EnterChannelMoves DEF SelectChannel
<1>11. CASE \E p \in Podcasts : SelectPodcast(p)
  BY <1>0, <1>7, <1>11, SelectPodcastMoves DEF SelectPodcast
<1> QED
  BY <1>2, <1>3, <1>4, <1>5, <1>6, <1>8, <1>9, <1>10, <1>11
     DEF Command, Toggle, VolumeUp, VolumeDown

\* Nor does a tick of the playback supervisor.
LEMMA TickWithin ==
    ASSUME TypeOK, SupervisorTick
    PROVE  Within(st')
<1>0. st \in RuntimeStates /\ Selecting(st) /\ Within(st)
  BY RuntimeSelecting, UnchangedWithin DEF TypeOK
<1>1. CASE RetryDue
  <2>1. UNCHANGED st \/ \E o, r, schedule : PlaySelected(st, o, r, schedule)
    BY <1>1 DEF RetryDue, Interrupted
  <2> QED
    BY <1>0, <2>1, PlaySelectedWithin, UnchangedWithin
<1>2. CASE NoticeFailure
  <2> DEFINE t == [st EXCEPT !.status = "idle", !.error = "process_failed"]
  <2>1. Save(t)
    BY <1>2 DEF NoticeFailure
  <2>2. t.channel = st.channel /\ t.podcast = st.podcast /\ t.previous = st.previous
    BY <1>0 DEF RuntimeStates
  <2> HIDE DEF t
  <2> QED
    BY <1>0, <2>1, <2>2, SavedWithin, UnchangedWithin
<1>3. CASE NoticeCompletion
  <2>1. PICK t \in NextPodcast(st, Playable, Shuffle) : PlaySelected(t, Consumed(out), retry, TRUE)
    BY <1>3 DEF NoticeCompletion
  <2>2. t \in RuntimeStates /\ Within(t)
    BY <1>0, NextPodcastMoves, MovedState, MovedWithin
  <2> QED
    BY <2>1, <2>2, PlaySelectedWithin
<1> QED
  BY <1>1, <1>2, <1>3 DEF SupervisorTick

\* For every configuration, and from whatever an earlier run under another
\* configuration left, no step brings a podcast that the active channel does not
\* have into the selection or the history /previous goes back through, and none
\* is taken into another channel.
THEOREM SelectionStaysWithinChannel == Spec => SelectionWithinChannel
<1> DEFINE Step == /\ Foreign(st') \subseteq Foreign(st)
                   /\ ActiveChannel(st') # ActiveChannel(st) => Foreign(st') = {}
<1>1. Step <=> Within(st')
  BY DEF Within, NoMoreForeign
<1>2. TypeOK /\ [Next]_vars => [Step]_vars
  <2> SUFFICES ASSUME TypeOK, Next PROVE Within(st')
    BY <1>1
  <2>1. CASE Serve
    BY <2>1, CommandWithin DEF Serve
  <2>2. CASE Tick
    BY <2>2, TickWithin DEF Tick
  <2>3. CASE BootPlay
    BY <2>3, CommandWithin DEF BootPlay, Command
  <2>4. CASE Shutdown
    <3> DEFINE t == [st EXCEPT !.status = "stopped", !.error = NoError]
    <3>1. UNCHANGED st \/ Save(t)
      BY <2>4 DEF Shutdown
    <3>2. t.channel = st.channel /\ t.podcast = st.podcast /\ t.previous = st.previous
      BY DEF TypeOK, RuntimeStates
    <3> HIDE DEF t
    <3> QED
      BY <3>1, <3>2, SavedWithin, UnchangedWithin
  <2>5. CASE \/ \E outcome \in {"completed", "failed"} :
                   PlayerExits(outcome) /\ UNCHANGED <<downloads, phase>>
             \/ StrayExits /\ UNCHANGED <<downloads, phase>>
             \/ \E p \in Podcasts : DownloadArrives(p)
             \/ Clock
             \/ Boot
             \/ Crash
    BY <2>5, UnchangedWithin
       DEF PlayerExits, StrayExits, DownloadArrives, Clock, ClockTick, Boot, Crash
  <2> QED
    BY <2>1, <2>2, <2>3, <2>4, <2>5 DEF Next
<1>3. SelectionWithinChannel <=> [][Step]_vars
  BY DEF SelectionWithinChannel
<1> HIDE DEF Step
<1> QED
  BY <1>2, <1>3, Typing, PTL DEF Spec


-----------------------------------------------------------------------------
(* The recorded error.                                                     *)

\* What ErrorIsKept says of a single step.
ErrorStep ==
    st.error # NoError /\ st'.error = NoError
        => \/ st'.status = "playing" /\ out'.proc = "running"
           \/ st'.status = "stopped"
           \/ st'.status = "idle" /\ PlayableIn(st'.channel, Playable) = {}

\* _play_selected clears the error when the player was launched, and when the
\* activated channel turns out to have nothing to play.
LEMMA PlaySelectedError ==
    ASSUME NEW s0 \in RuntimeStates, NEW o \in Backends(Episodes), NEW r, NEW schedule,
           PlaySelected(s0, o, r, schedule)
    PROVE  ErrorStep
<1> DEFINE s == Activate(s0, Playable)
           playing == [s EXCEPT !.status = "playing", !.error = NoError]
           failed == [s EXCEPT !.status = "idle", !.error = "start_failed"]
           idle == [s EXCEPT !.status = "idle", !.error = NoError]
<1>1. s \in RuntimeStates
  BY ActivateState
<1>2. ~HasEpisode(s) => PlayableIn(s.channel, Playable) = {}
  <2>1. s.channel \in Range(ChannelIds)
    BY RuntimeSelecting, ActivateMoves, ActiveChannelConfigured
  <2>2. PlayableIn(s.channel, Playable) # {} => s.podcast \in PlayableIn(s.channel, Playable)
    BY <2>1, RuntimeSelecting, ActivatePlayable, PlayableType
  <2> HIDE DEF s
  <2> QED
    BY <2>1, <2>2, PlayableType DEF HasEpisode
<1>3. "start_failed" # NoError
  BY StationAssumption DEF OutputErrors
<1>4. \/ out' = Playing(o, EpisodeOf(s)) /\ (st' = playing \/ st' = st)
      \/ st' = failed \/ st' = st
      \/ ~HasEpisode(s) /\ (st' = idle \/ st' = st)
  BY DEF PlaySelected, Save
<1> HIDE DEF s
<1>5. Playing(o, EpisodeOf(s)).proc = "running"
  BY DEF Playing, Backends
<1>6. /\ playing.status = "playing"
      /\ failed.error = "start_failed"
      /\ idle.status = "idle" /\ idle.channel = s.channel
  BY <1>1 DEF RuntimeStates
<1> HIDE DEF playing, failed, idle
<1> QED
  BY <1>2, <1>3, <1>4, <1>5, <1>6 DEF ErrorStep

\* Playing another selection does no more, also when a hanging player interrupts it.
LEMMA SwitchToError ==
    ASSUME TypeOK, NEW s0 \in RuntimeStates, SwitchTo(s0)
    PROVE  ErrorStep
<1>1. UNCHANGED st \/ \E end : PlaySelected(s0, Terminated(out, end), retry, TRUE)
  BY DEF SwitchTo, Interrupted
<1>2. \A end : Terminated(out, end) \in Backends(Episodes)
  BY BackendOperations DEF TypeOK
<1> QED
  BY <1>1, <1>2, PlaySelectedError DEF ErrorStep

\* Nor do RecoverOutput and RetryDue.
LEMMA ReplayError ==
    ASSUME TypeOK, NEW r, NEW schedule,
           \E end \in EndingsOf(out) :
              IF Raises(out, end)
              THEN Interrupted(out.episode)
              ELSE PlaySelected(st, Stopped(Terminated(out, end)), r, schedule)
    PROVE  ErrorStep
<1>1. UNCHANGED st \/ \E end : PlaySelected(st, Stopped(Terminated(out, end)), r, schedule)
  BY DEF Interrupted
<1>2. \A end : Stopped(Terminated(out, end)) \in Backends(Episodes)
  BY BackendOperations DEF TypeOK
<1> QED
  BY <1>1, <1>2, PlaySelectedError DEF ErrorStep, TypeOK

\* Every HTTP command keeps the recorded error or has one of the three reasons.
LEMMA CommandError ==
    ASSUME TypeOK, Command
    PROVE  ErrorStep
<1> DEFINE a == Activate(st, Playable)
<1>0. st \in RuntimeStates
  BY DEF TypeOK
<1>1. a \in RuntimeStates /\ a.error = st.error
  BY <1>0, ActivateState DEF SameStatus
<1>2. CASE Play
  <2>1. st' = a \/ st' = st \/ SwitchTo(a)
    BY <1>2 DEF Play, Save
  <2> HIDE DEF a
  <2> QED
    BY <1>1, <2>1, SwitchToError DEF ErrorStep
<1>3. CASE Pause
  <2>1. st' = a \/ st' = [a EXCEPT !.status = "paused"] \/ st' = st
    BY <1>3 DEF Pause, Save, Interrupted
  <2> HIDE DEF a
  <2>2. st'.error = st.error
    BY <1>1, <2>1 DEF RuntimeStates
  <2> QED
    BY <2>2 DEF ErrorStep
<1>4. CASE Stop
  <2>1. \/ st' = st
        \/ st' = [st EXCEPT !.status = "stopped", !.error = NoError]
        \/ st.status = "stopped" /\ st' = [st EXCEPT !.error = NoError]
    BY <1>4 DEF Stop, Save, Interrupted
  <2>2. st' = st \/ st'.status = "stopped"
    BY <1>0, <2>1 DEF RuntimeStates
  <2> QED
    BY <2>2 DEF ErrorStep
<1>5. ASSUME NEW volume, SetVolume(volume) PROVE ErrorStep
  <2>1. st' = st \/ st' = [st EXCEPT !.volume = volume]
    BY <1>5 DEF SetVolume, Save
  <2>2. st'.error = st.error
    BY <1>0, <2>1 DEF RuntimeStates
  <2> QED
    BY <2>2 DEF ErrorStep
<1>6. CASE RecoverOutput
  BY <1>6, ReplayError DEF RecoverOutput
<1>7. CASE NextCommand \/ PreviousCommand
  BY <1>0, <1>7, NextPodcastState, PreviousPodcastState, SwitchToError
     DEF NextCommand, PreviousCommand
<1>8. CASE \E offset \in {-1, 1} : ChangeChannel(offset)
  BY <1>0, <1>8, OffsetChannelState, SwitchToError DEF ChangeChannel
<1>9. CASE \E c \in Channels : SelectChannel(c)
  BY <1>0, <1>9, EnterChannelState, SwitchToError DEF SelectChannel
<1>10. CASE \E p \in Podcasts : SelectPodcast(p)
  BY <1>0, <1>10, SelectPodcastState, SwitchToError DEF SelectPodcast
<1> QED
  BY <1>2, <1>3, <1>4, <1>5, <1>6, <1>7, <1>8, <1>9, <1>10
     DEF Command, Toggle, VolumeUp, VolumeDown

\* The playback supervisor clears an error only by playing: it looks at the
\* player only while none is recorded.
LEMMA TickError ==
    ASSUME TypeOK, SupervisorTick
    PROVE  ErrorStep
<1>1. CASE RetryDue
  BY <1>1, ReplayError DEF RetryDue
<1>2. CASE NoticeFailure \/ NoticeCompletion
  BY <1>2 DEF NoticeFailure, NoticeCompletion, Watching, ErrorStep
<1> QED
  BY <1>1, <1>2 DEF SupervisorTick

\* For every way playback, termination and saving may fail, a recorded error goes
\* away only when a player has been launched, the station is stopped, or its
\* channel has nothing to play.
THEOREM ErrorsAreKept == Spec => ErrorIsKept
<1>1. TypeOK /\ [Next]_vars => [ErrorStep]_vars
  <2> SUFFICES ASSUME TypeOK, Next PROVE ErrorStep
    OBVIOUS
  <2>1. CASE Serve
    BY <2>1, CommandError DEF Serve
  <2>2. CASE Tick
    BY <2>2, TickError DEF Tick
  <2>3. CASE BootPlay
    BY <2>3, CommandError DEF BootPlay, Command
  <2>4. CASE Shutdown
    <3>1. st' = st \/ st' = [st EXCEPT !.status = "stopped", !.error = NoError]
      BY <2>4 DEF Shutdown, Save
    <3>2. st' = st \/ st'.status = "stopped"
      BY <3>1 DEF TypeOK, RuntimeStates
    <3> QED
      BY <3>2 DEF ErrorStep
  <2>5. CASE \/ \E outcome \in {"completed", "failed"} :
                   PlayerExits(outcome) /\ UNCHANGED <<downloads, phase>>
             \/ StrayExits /\ UNCHANGED <<downloads, phase>>
             \/ \E p \in Podcasts : DownloadArrives(p)
             \/ Clock
             \/ Boot
             \/ Crash
    BY <2>5 DEF PlayerExits, StrayExits, DownloadArrives, Clock, ClockTick, Boot, Crash, ErrorStep
  <2> QED
    BY <2>1, <2>2, <2>3, <2>4, <2>5 DEF Next
<1>2. ErrorIsKept <=> [][ErrorStep]_vars
  BY DEF ErrorIsKept, ErrorStep
<1> QED
  BY <1>1, <1>2, Typing, PTL DEF Spec


-----------------------------------------------------------------------------
(* The station implements PlaybackSupervisor.                              *)

(***************************************************************************)
(* The three ways a step may look to the abstract supervisor: the retry    *)
(* state is reset; the count stays, and what is reported stays or becomes  *)
(* one of the modes the count allows; or a scheduled retry is counted.     *)
(***************************************************************************)
Reset == retry' = NoRetry

Kept ==
    /\ retry'.attempts = retry.attempts
    /\ SupervisorState' \in {SupervisorState, "idle", "retry_scheduled", "exhausted"}

Retried ==
    /\ SupervisorState = "retry_scheduled"
    /\ retry'.attempts = retry.attempts + 1
    /\ SupervisorState' \in {"idle", "retry_scheduled", "exhausted", "blocked"}

\* Each of the three is a step of the abstract supervisor or none, because the
\* retry state is within the policy before and after it.
LEMMA SupervisorSteps ==
    ASSUME TypeOK, TypeOK', Bounded(retry), Bounded(retry'), Reset \/ Kept \/ Retried
    PROVE  [Supervisor!Next]_<<SupervisorState, retry.attempts>>
<1> DEFINE m == SupervisorState
           n == retry.attempts
<1>1. n \in Nat /\ n' \in Nat /\ n <= MaxAttempts /\ n' <= MaxAttempts
      /\ retry.wait \in Nat \cup {NotScheduled} /\ MaxAttempts \in Nat
  BY StationAssumption DEF TypeOK, RetryStates, Bounded
<1>2. /\ m' = "retry_scheduled" => n' < MaxAttempts
      /\ m' = "exhausted" => n' >= MaxAttempts
      /\ m' = "blocked" => ~(n' >= MaxAttempts)
      /\ m = "retry_scheduled" => n < MaxAttempts
      /\ m' \in {"retry_scheduled", "exhausted", "blocked", "watching", "idle"}
  BY DEF SupervisorState, Bounded
<1>3. CASE Reset
  <2>1. n' = 0 /\ m' # "retry_scheduled"
    BY <1>3 DEF Reset, NoRetry, SupervisorState
  <2> HIDE DEF m, n
  <2>2. CASE m' = "exhausted"
    <3>1. n = MaxAttempts /\ n' = n
      BY <1>1, <1>2, <2>1, <2>2
    <3> QED
      BY <2>2, <3>1 DEF Supervisor!Next, Supervisor!GiveUp, m, n
  <2>3. CASE m' # "exhausted"
    <3>1. m' \in {"idle", "watching", "blocked"}
      BY <1>2, <2>1, <2>3
    <3> QED
      BY <2>1, <3>1 DEF Supervisor!Next, Supervisor!Settle, m, n
  <2> QED
    BY <2>2, <2>3
<1>4. CASE Kept
  <2>1. n' = n /\ m' \in {m, "idle", "retry_scheduled", "exhausted"}
    BY <1>4 DEF Kept
  <2> HIDE DEF m, n
  <2>2. CASE m' = m
    BY <2>1, <2>2 DEF m, n
  <2>3. CASE m' = "idle"
    BY <2>1, <2>3 DEF Supervisor!Next, Supervisor!Rest, m, n
  <2>4. CASE m' = "retry_scheduled"
    BY <1>2, <2>1, <2>4 DEF Supervisor!Next, Supervisor!Arm, m, n
  <2>5. CASE m' = "exhausted"
    <3>1. n = MaxAttempts
      BY <1>1, <1>2, <2>1, <2>5
    <3> QED
      BY <2>1, <2>5, <3>1 DEF Supervisor!Next, Supervisor!GiveUp, m, n
  <2> QED
    BY <2>1, <2>2, <2>3, <2>4, <2>5
<1>5. CASE Retried
  <2>1. /\ m = "retry_scheduled" /\ n' = n + 1
        /\ m' \in {"idle", "retry_scheduled", "exhausted", "blocked"}
    BY <1>5 DEF Retried
  <2> HIDE DEF m, n
  <2>2. n < MaxAttempts
    BY <1>2, <2>1
  <2>3. m' \in IF n' < MaxAttempts THEN {"idle", "retry_scheduled", "blocked"}
              ELSE {"idle", "exhausted"}
    BY <1>1, <1>2, <2>1
  <2> QED
    BY <2>1, <2>2, <2>3 DEF Supervisor!Next, Supervisor!Attempt, m, n
<1> QED
  BY <1>3, <1>4, <1>5

\* What is reported of a recorded error depends on the retry state alone.
LEMMA ErrorModes ==
    ASSUME st'.error # NoError
    PROVE  /\ SupervisorState' \in {"retry_scheduled", "exhausted", "blocked"}
           /\ retry' = Scheduled(retry) /\ retry \in RetryStates
                 => SupervisorState' \in {"retry_scheduled", "exhausted"}
<1>1. SupervisorState' \in {"retry_scheduled", "exhausted", "blocked"}
  BY DEF SupervisorState
<1>2. ASSUME retry' = Scheduled(retry), retry \in RetryStates
      PROVE  SupervisorState' \in {"retry_scheduled", "exhausted"}
  <2> DEFINE w == RetryDelay * (retry.attempts + 1)
  <2>1. w \in Nat /\ w # NotScheduled
    BY <1>2, StationAssumption DEF RetryStates
  <2>2. retry' = IF retry.wait = NotScheduled /\ retry.attempts < MaxAttempts
                 THEN [retry EXCEPT !.wait = w] ELSE retry
    BY <1>2 DEF Scheduled
  <2> HIDE DEF w
  <2>3. retry'.wait # NotScheduled \/ retry'.attempts >= MaxAttempts
    BY <1>2, <2>1, <2>2, StationAssumption DEF RetryStates
  <2> QED
    BY <2>3 DEF SupervisorState
<1> QED
  BY <1>1, <1>2


\* The outcomes of _play_selected, as far as the supervisor reports them.
LEMMA PlaySelectedOutcomes ==
    ASSUME NEW s0 \in RuntimeStates, NEW o, NEW r, NEW schedule,
           PlaySelected(s0, o, r, schedule)
    PROVE  \/ retry' = NoRetry
           \/ /\ retry' = IF schedule THEN Scheduled(r) ELSE r
              /\ st' = st \/ st'.error # NoError
           \/ /\ retry' = r
              /\ st' = st \/ (st'.status = "idle" /\ st'.error = NoError)
<1> DEFINE s == Activate(s0, Playable)
           failed == [s EXCEPT !.status = "idle", !.error = "start_failed"]
           idle == [s EXCEPT !.status = "idle", !.error = NoError]
<1>1. s \in RuntimeStates
  BY ActivateState
<1>2. \/ retry' = NoRetry
      \/ (retry' = IF schedule THEN Scheduled(r) ELSE r) /\ (st' = failed \/ st' = st)
      \/ retry' = r /\ (st' = idle \/ st' = st)
  BY DEF PlaySelected, Save
<1> HIDE DEF s
<1>3. failed.error # NoError /\ idle.status = "idle" /\ idle.error = NoError
  BY <1>1, StationAssumption DEF RuntimeStates, OutputErrors
<1> HIDE DEF failed, idle
<1> QED
  BY <1>2, <1>3

\* A step that leaves state and retry state alone keeps what is reported.
LEMMA NothingReported ==
    ASSUME st' = st, retry' = retry
    PROVE  Kept
BY DEF Kept, SupervisorState

\* Playing, with a failure to be retried: the slate is clean or the count stays,
\* also when the outcome cannot be saved.
LEMMA PlaySelectedKept ==
    ASSUME TypeOK, NEW s0 \in RuntimeStates, NEW o, PlaySelected(s0, o, retry, TRUE)
    PROVE  Reset \/ Kept
<1>0. retry \in RetryStates
  BY DEF TypeOK
<1>1. \/ retry' = NoRetry
      \/ retry' = Scheduled(retry) /\ (st' = st \/ st'.error # NoError)
      \/ retry' = retry /\ (st' = st \/ (st'.status = "idle" /\ st'.error = NoError))
  BY PlaySelectedOutcomes
<1>2. CASE retry' = NoRetry
  BY <1>2 DEF Reset
<1>3. CASE retry' = Scheduled(retry) /\ st'.error # NoError
  BY <1>0, <1>3, ErrorModes, ScheduledState DEF Kept
<1>4. CASE retry' = Scheduled(retry) /\ st' = st /\ st.error = NoError
  <2>1. SupervisorState' = SupervisorState
    BY <1>4 DEF SupervisorState
  <2> QED
    BY <1>0, <1>4, <2>1, ScheduledState DEF Kept
<1>5. CASE retry' = retry /\ st' = st
  BY <1>5, NothingReported
<1>6. CASE retry' = retry /\ st'.status = "idle" /\ st'.error = NoError
  <2>1. SupervisorState' = "idle"
    BY <1>6 DEF SupervisorState
  <2> QED
    BY <1>6, <2>1 DEF Kept
<1> QED
  BY <1>1, <1>2, <1>3, <1>4, <1>5, <1>6

\* So it is when another selection is played.
LEMMA SwitchToKept ==
    ASSUME TypeOK, NEW s0 \in RuntimeStates, SwitchTo(s0)
    PROVE  Reset \/ Kept
<1>1. (st' = st /\ retry' = retry) \/ \E o : PlaySelected(s0, o, retry, TRUE)
  BY DEF SwitchTo, Interrupted
<1> QED
  BY <1>1, PlaySelectedKept, NothingReported

\* A command that keeps the retry state, and the error or an unsaved state, keeps
\* what is reported unless it leaves the station idle.
LEMMA ErrorUntouched ==
    ASSUME retry' = retry, st'.error = st.error,
           st'.status = st.status \/ st'.status # "playing"
    PROVE  Kept
<1>1. SupervisorState' \in {SupervisorState, "idle"}
  BY DEF SupervisorState
<1> QED
  BY <1>1 DEF Kept

\* Every HTTP command resets the retry state or keeps the count.
LEMMA CommandKept ==
    ASSUME TypeOK, Command
    PROVE  Reset \/ Kept
<1> DEFINE a == Activate(st, Playable)
<1>0. st \in RuntimeStates
  BY DEF TypeOK
<1>1. a \in RuntimeStates /\ a.error = st.error /\ a.status = st.status
  BY <1>0, ActivateState DEF SameStatus
<1>2. CASE Play
  <2>1. ((st' = a \/ st' = st) /\ retry' = retry) \/ SwitchTo(a)
    BY <1>2 DEF Play, Save
  <2> HIDE DEF a
  <2> QED
    BY <1>1, <2>1, SwitchToKept, ErrorUntouched
<1>3. CASE Pause
  <2>1. (st' = a \/ st' = [a EXCEPT !.status = "paused"] \/ st' = st) /\ retry' = retry
    BY <1>3 DEF Pause, Save, Interrupted
  <2> HIDE DEF a
  <2>2. st'.error = st.error /\ (st'.status = st.status \/ st'.status = "paused")
    BY <1>1, <2>1 DEF RuntimeStates
  <2> QED
    BY <2>1, <2>2, ErrorUntouched
<1>4. CASE Stop
  <2>1. (st' = st /\ retry' = retry) \/ retry' = NoRetry
    BY <1>4 DEF Stop, Interrupted
  <2> QED
    BY <2>1, NothingReported DEF Reset
<1>5. ASSUME NEW volume, SetVolume(volume) PROVE Kept
  <2>1. (st' = st \/ st' = [st EXCEPT !.volume = volume]) /\ retry' = retry
    BY <1>5 DEF SetVolume, Save
  <2>2. st'.error = st.error /\ st'.status = st.status
    BY <1>0, <2>1 DEF RuntimeStates
  <2> QED
    BY <2>1, <2>2, ErrorUntouched
<1>6. CASE RecoverOutput
  <2>1. (st' = st /\ retry' = retry) \/ \E o : PlaySelected(st, o, NoRetry, FALSE)
    BY <1>6 DEF RecoverOutput, Interrupted
  <2> QED
    BY <1>0, <2>1, NothingReported, PlaySelectedOutcomes DEF Reset
<1>7. CASE NextCommand \/ PreviousCommand
  BY <1>0, <1>7, NextPodcastState, PreviousPodcastState, SwitchToKept
     DEF NextCommand, PreviousCommand
<1>8. CASE \E offset \in {-1, 1} : ChangeChannel(offset)
  BY <1>0, <1>8, OffsetChannelState, SwitchToKept DEF ChangeChannel
<1>9. CASE \E c \in Channels : SelectChannel(c)
  BY <1>0, <1>9, EnterChannelState, SwitchToKept DEF SelectChannel
<1>10. CASE \E p \in Podcasts : SelectPodcast(p)
  BY <1>0, <1>10, SelectPodcastState, SwitchToKept DEF SelectPodcast
<1> QED
  BY <1>2, <1>3, <1>4, <1>5, <1>6, <1>7, <1>8, <1>9, <1>10
     DEF Command, Toggle, VolumeUp, VolumeDown

\* Only a due retry counts, and a failure that is noticed is scheduled or given
\* up in the same step, or not recorded at all.
LEMMA TickSupervised ==
    ASSUME TypeOK, SupervisorTick
    PROVE  Reset \/ Kept \/ Retried
<1>0. st \in RuntimeStates /\ retry \in RetryStates
  BY DEF TypeOK
<1>1. CASE RetryDue
  <2> DEFINE r == [attempts |-> retry.attempts + 1, wait |-> NotScheduled]
  <2>1. st.error # NoError /\ SupervisorState = "retry_scheduled"
    BY <1>1, StationAssumption DEF RetryDue, SupervisorState
  <2>2. (st' = st /\ retry' = retry) \/ \E o : PlaySelected(st, o, r, TRUE)
    BY <1>1 DEF RetryDue, Interrupted
  <2>3. r \in RetryStates /\ r.attempts = retry.attempts + 1
    BY <1>0 DEF RetryStates
  <2> HIDE DEF r
  <2>4. CASE \E o : PlaySelected(st, o, r, TRUE)
    <3>1. \/ retry' = NoRetry
          \/ retry' = Scheduled(r) /\ (st' = st \/ st'.error # NoError)
          \/ retry' = r /\ (st' = st \/ (st'.status = "idle" /\ st'.error = NoError))
      BY <1>0, <2>4, PlaySelectedOutcomes
    <3>2. retry' = NoRetry \/ retry'.attempts = retry.attempts + 1
      BY <2>3, <3>1, ScheduledState
    <3>3. st'.error # NoError
          => SupervisorState' \in {"retry_scheduled", "exhausted", "blocked"}
      BY ErrorModes
    <3>4. st'.status = "idle" /\ st'.error = NoError => SupervisorState' = "idle"
      BY DEF SupervisorState
    <3> QED
      BY <2>1, <3>1, <3>2, <3>3, <3>4 DEF Reset, Retried
  <2> QED
    BY <2>2, <2>4, NothingReported
<1>2. CASE NoticeFailure
  <2> DEFINE t == [st EXCEPT !.status = "idle", !.error = "process_failed"]
  <2>1. retry' = Scheduled(retry) /\ (st' = t \/ st' = st) /\ st.error = NoError
    BY <1>2 DEF NoticeFailure, Watching, Save
  <2>2. t.error # NoError
    BY <1>0, StationAssumption DEF RuntimeStates, OutputErrors
  <2> HIDE DEF t
  <2>3. CASE st' = t
    BY <1>0, <2>1, <2>2, <2>3, ErrorModes, ScheduledState DEF Kept
  <2>4. CASE st' = st
    <3>1. SupervisorState' = SupervisorState
      BY <2>1, <2>4 DEF SupervisorState
    <3> QED
      BY <1>0, <2>1, <3>1, ScheduledState DEF Kept
  <2> QED
    BY <2>1, <2>3, <2>4
<1>3. CASE NoticeCompletion
  BY <1>0, <1>3, NextPodcastState, PlaySelectedKept DEF NoticeCompletion
<1> QED
  BY <1>1, <1>2, <1>3 DEF SupervisorTick

\* Station implements PlaybackSupervisor: for every policy, whatever is commanded
\* and whatever fails, automatic retries are bounded, an attempt is made only
\* after it was scheduled, and an exhausted supervisor schedules none.
THEOREM StationImplementsSupervisor == Spec => SupervisorSpec
<1>1. Init => Supervisor!Init
  <2> SUFFICES ASSUME Init PROVE Supervisor!Init
    OBVIOUS
  <2>1. retry.attempts = 0 /\ retry.wait = NotScheduled
    BY DEF Init, NoRetry
  <2>2. SupervisorState \in {"idle", "watching",
                             IF 0 >= MaxAttempts THEN "exhausted" ELSE "blocked"}
    BY <2>1 DEF SupervisorState
  <2>3. 0 >= MaxAttempts <=> MaxAttempts = 0
    BY StationAssumption
  <2> QED
    BY <2>1, <2>2, <2>3 DEF Supervisor!Init
<1>2. TypeOK /\ TypeOK' /\ RetryBounded /\ RetryBounded' /\ [Next]_vars
      => [Supervisor!Next]_<<SupervisorState, retry.attempts>>
  <2> SUFFICES ASSUME TypeOK, TypeOK', RetryBounded, RetryBounded', [Next]_vars
               PROVE  Reset \/ Kept \/ Retried
    BY SupervisorSteps DEF RetryBounded, Bounded
  <2>0. st \in RuntimeStates /\ retry \in RetryStates
    BY DEF TypeOK
  <2>1. CASE Serve
    BY <2>1, CommandKept DEF Serve
  <2>2. CASE Tick
    BY <2>2, TickSupervised DEF Tick
  <2>3. CASE BootPlay
    BY <2>3, CommandKept DEF BootPlay, Command
  <2>4. CASE Crash \/ Shutdown
    BY <2>4 DEF Crash, Shutdown, Exit, Reset
  <2>5. CASE Clock
    <3>1. retry' = [retry EXCEPT !.wait = @ - 1] /\ retry.wait \in Nat \ {0} /\ st' = st
      BY <2>5 DEF Clock, ClockTick
    <3>2. /\ retry'.attempts = retry.attempts
          /\ retry.wait # NotScheduled /\ retry'.wait # NotScheduled
      BY <2>0, <3>1, StationAssumption DEF RetryStates
    <3>3. SupervisorState' = SupervisorState
      BY <3>1, <3>2 DEF SupervisorState
    <3> QED
      BY <3>2, <3>3 DEF Kept
  <2>6. CASE \/ \E outcome \in {"completed", "failed"} :
                   PlayerExits(outcome) /\ UNCHANGED <<downloads, phase>>
             \/ StrayExits /\ UNCHANGED <<downloads, phase>>
             \/ \E p \in Podcasts : DownloadArrives(p)
             \/ Boot
             \/ UNCHANGED vars
    BY <2>6, NothingReported DEF PlayerExits, StrayExits, DownloadArrives, Boot, vars
  <2> QED
    BY <2>1, <2>2, <2>3, <2>4, <2>5, <2>6 DEF Next
<1> QED
  BY <1>1, <1>2, Typing, RetriesBounded, PTL DEF Spec, SupervisorSpec, Supervisor!Spec

=============================================================================
