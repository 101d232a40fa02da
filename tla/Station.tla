------------------------------- MODULE Station -------------------------------
(***************************************************************************)
(* StationService of src/potcast/service.py over the subprocess-backed     *)
(* output: the HTTP commands, the playback supervisor's tick, the retry    *)
(* timer, and the life of the program around them.  A command loads        *)
(* state.json, works on the copy, calls the output and saves the copy; in  *)
(* this module one command is one step, and what interleaved commands do   *)
(* is a matter of its own.                                                 *)
(***************************************************************************)
EXTENDS Selector, LocalAudio

CONSTANTS
    Shuffle,         \* station.shuffle_podcasts
    StartOnBoot,     \* station.start_on_boot
    ConfigVolume,    \* station.volume
    VolumeRequests,  \* the integers /volume/<level> is called with
    VolumeStep,      \* VOLUME_STEP of /volume/up and /volume/down
    MaxAttempts,     \* OutputRetryPolicy.max_attempts
    RetryDelay,      \* OutputRetryPolicy.initial_delay, in clock ticks
    NotScheduled,    \* next_retry_at is None
    Endings,         \* how terminating a running player may end
    DiskMayFail,     \* whether saving state.json may raise StorageError
    MaxEpisodes,     \* bound: episodes downloaded per podcast
    MaxHistory,      \* bound: next and completions need a shorter history
    MaxInherited,    \* bound: length of the history an earlier run left
    InheritedVolumes,\* the volumes an earlier run may have left
    MaxStrays        \* bound: players left running at once

ASSUME StationAssumption ==
    /\ Shuffle \in BOOLEAN /\ StartOnBoot \in BOOLEAN /\ DiskMayFail \in BOOLEAN
    /\ ConfigVolume \in 0 .. 100
    /\ VolumeRequests \subseteq Int /\ VolumeStep \in Nat
    /\ MaxAttempts \in Nat /\ RetryDelay \in Nat \ {0}
    /\ NotScheduled \notin Nat
    /\ Endings \subseteq {"exits", "fails", "hangs"} /\ "exits" \in Endings
    /\ MaxEpisodes \in Nat \ {0} /\ MaxHistory \in Nat /\ MaxStrays \in Nat
    /\ MaxInherited \in Nat /\ InheritedVolumes \subseteq 0 .. 100
    /\ NoEpisode \notin Podcasts \X (1 .. MaxEpisodes)
    /\ NoError \notin OutputErrors

VARIABLES
    st,          \* state.json, the RuntimeState
    downloads,   \* downloads.json: the number of the episode kept, 0 for none
    out,         \* the output backend and its players
    retry,       \* _retry_state: attempts, and the ticks until next_retry_at
    phase        \* "down", "booting" before start_on_boot's play, "up"

vars == <<st, downloads, out, retry, phase>>

Episodes == Podcasts \X (1 .. MaxEpisodes)

RuntimeStates ==
    [status : {"stopped", "idle", "playing", "paused"},
     channel : Channels \cup {NoChannel},
     podcast : Podcasts \cup {NoPodcast},
     previous : Seq(Podcasts),
     volume : 0 .. 100,
     error : OutputErrors \cup {NoError}]

RetryStates == [attempts : Nat, wait : Nat \cup {NotScheduled}]

NoRetry == [attempts |-> 0, wait |-> NotScheduled]

-----------------------------------------------------------------------------

Playable == {p \in Podcasts : downloads[p] > 0}

HasEpisode(s) == s.podcast \in Playable

EpisodeOf(s) == <<s.podcast, downloads[s.podcast]>>

\* _save_state: when the write fails the command raises, and what it has
\* already done to the output and to the retry state stays done.  A write that
\* fails during start-up ends the program, which is a Crash.
Save(s) == st' = s \/ (DiskMayFail /\ phase # "booting" /\ st' = st)

EndingsOf(o) ==
    IF o.proc = "running" /\ o.strays < MaxStrays THEN Endings ELSE {"exits"}

\* Mutant: the policy's limit is not consulted.
ScheduledAlways(r) ==
    IF r.wait = NotScheduled THEN [r EXCEPT !.wait = RetryDelay * (r.attempts + 1)] ELSE r

\* _schedule_retry with OutputRetryPolicy.next_delay: a retry that is already
\* scheduled stays as it is.
Scheduled(r) ==
    IF r.wait = NotScheduled /\ r.attempts < MaxAttempts
    THEN [r EXCEPT !.wait = RetryDelay * (r.attempts + 1)]
    ELSE r

\* _play_selected, on a backend o whose previous player is already dropped.
PlaySelected(s0, o, r, schedule) ==
    LET s == Activate(s0, Playable) IN
    \/ /\ HasEpisode(s)
       /\ out' = Playing(o, EpisodeOf(s))
       /\ retry' = NoRetry
       /\ Save([s EXCEPT !.status = "playing", !.error = NoError])
    \/ /\ HasEpisode(s)
       /\ out' = StartFailed(o, EpisodeOf(s))
       /\ retry' = IF schedule THEN Scheduled(r) ELSE r
       /\ Save([s EXCEPT !.status = "idle", !.error = "start_failed"])
    \/ /\ ~HasEpisode(s)
       /\ out' = Stopped(o)
       /\ retry' = r
       /\ Save([s EXCEPT !.status = "idle", !.error = NoError])

\* TimeoutExpired leaves the command: nothing is saved, and play_episode has
\* already taken the new episode for its current one.
Interrupted(episode) ==
    /\ out' = [Terminated(out, "hangs") EXCEPT !.episode = episode]
    /\ UNCHANGED <<st, retry>>

SwitchTo(s0) ==
    \E end \in EndingsOf(out) :
       IF Raises(out, end)
       THEN LET s == Activate(s0, Playable) IN
            Interrupted(IF HasEpisode(s) THEN EpisodeOf(s) ELSE out.episode)
       ELSE PlaySelected(s0, Terminated(out, end), retry, TRUE)

-----------------------------------------------------------------------------
(* Commands.  One that is refused with an error changes nothing and is no  *)
(* step here.                                                              *)

\* _is_playing_selected compares identities, not the output's state.
Play ==
    LET s == Activate(st, Playable) IN
    IF s.status = "playing" /\ HasEpisode(s) /\ out.ident = EpisodeOf(s)
    THEN Save(s) /\ UNCHANGED <<out, retry>>
    ELSE SwitchTo(s)

\* Mutant: the status changes and the output is not told.
PauseWithoutOutput ==
    /\ Save([Activate(st, Playable) EXCEPT !.status = "paused"])
    /\ UNCHANGED <<out, retry>>

\* Mutant: pausing forgets the recorded error.
PauseForgetsError ==
    /\ out' = Paused(Terminated(out, "exits"))
    /\ Save([Activate(st, Playable) EXCEPT !.status = "paused", !.error = NoError])
    /\ UNCHANGED retry

Pause ==
    LET s == Activate(st, Playable) IN
    \/ /\ st.status = "paused"
       /\ Save(s)
       /\ UNCHANGED <<out, retry>>
    \/ /\ st.status # "paused"
       /\ \E end \in EndingsOf(out) :
             IF Raises(out, end)
             THEN Interrupted(out.episode)
             ELSE /\ out' = Paused(Terminated(out, end))
                  /\ Save([s EXCEPT !.status = "paused"])
                  /\ UNCHANGED retry

Toggle == IF st.status = "playing" THEN Pause ELSE Play

Stop ==
    \/ /\ st.status # "stopped"
       /\ \E end \in EndingsOf(out) :
             IF Raises(out, end)
             THEN Interrupted(out.episode)
             ELSE /\ out' = Stopped(Terminated(out, end))
                  /\ retry' = NoRetry
                  /\ Save([st EXCEPT !.status = "stopped", !.error = NoError])
    \/ /\ st.status = "stopped" /\ st.error # NoError
       /\ retry' = NoRetry
       /\ Save([st EXCEPT !.error = NoError])
       /\ UNCHANGED out

NextCommand ==
    /\ Len(st.previous) < MaxHistory
    /\ \E s \in NextPodcast(st, Playable, Shuffle) : SwitchTo(s)

PreviousCommand == SwitchTo(PreviousPodcast(st, Playable))

ChangeChannel(offset) == SwitchTo(OffsetChannel(st, offset, Playable))

\* Mutant: a station that already plays only notes the new channel.
SelectChannelQuietly(c) ==
    /\ c \in Range(ChannelIds)
    /\ IF st.status = "playing"
       THEN Save(EnterChannel(st, c, Playable)) /\ UNCHANGED <<out, retry>>
       ELSE SwitchTo(EnterChannel(st, c, Playable))

SelectChannel(c) ==
    /\ c \in Range(ChannelIds)
    /\ SwitchTo(EnterChannel(st, c, Playable))

SelectPodcast(p) ==
    LET s == Activate(st, Playable) IN
    /\ p \in PlayableIn(s.channel, Playable)
    /\ SwitchTo([s EXCEPT !.podcast = p, !.previous = <<>>])

\* Mutant: the range of the volume is not checked.
SetVolumeUnchecked(volume) ==
    /\ out' = WithVolume(out, volume)
    /\ Save([st EXCEPT !.volume = volume])
    /\ UNCHANGED retry

SetVolume(volume) ==
    /\ volume \in 0 .. 100
    /\ LET o == WithVolume(out, volume)
           s == [st EXCEPT !.volume = volume]
       IN  \/ /\ Restarts(o)
              /\ \E end \in EndingsOf(o), launched \in BOOLEAN :
                    \/ /\ Raises(o, end)
                       /\ out' = Terminated(o, end)
                       /\ UNCHANGED st
                    \/ /\ ~Raises(o, end)
                       /\ out' = Played(Terminated(o, end), o.episode, launched)
                       /\ Save(s)
           \/ /\ ~Restarts(o)
              /\ out' = o
              /\ Save(s)
    /\ UNCHANGED retry

VolumeUp == SetVolume(Min({100, st.volume + VolumeStep}))

VolumeDown == SetVolume(Max({0, st.volume - VolumeStep}))

\* Mutant: a failed recovery schedules an automatic retry.
RecoverOutputAndRetry ==
    /\ out.state = "error" \/ st.error # NoError
    /\ PlaySelected(st, Stopped(Terminated(out, "exits")), NoRetry, TRUE)

RecoverOutput ==
    /\ out.state = "error" \/ st.error # NoError
    /\ \E end \in EndingsOf(out) :
          IF Raises(out, end)
          THEN Interrupted(out.episode)
          ELSE PlaySelected(st, Stopped(Terminated(out, end)), NoRetry, FALSE)

Command ==
    \/ Play
    \/ Pause
    \/ Toggle
    \/ Stop
    \/ NextCommand
    \/ PreviousCommand
    \/ \E offset \in {-1, 1} : ChangeChannel(offset)
    \/ \E c \in Channels : SelectChannel(c)
    \/ \E p \in Podcasts : SelectPodcast(p)
    \/ \E volume \in VolumeRequests : SetVolume(volume)
    \/ VolumeUp
    \/ VolumeDown
    \/ RecoverOutput

-----------------------------------------------------------------------------
(* advance_if_finished, which the playback supervisor calls every second.  *)
(* A recorded error is looked at first, then the status, then the player.  *)

\* Mutant: the attempt is not counted.
RetryDueUncounted ==
    /\ st.error # NoError
    /\ retry.wait = 0
    /\ PlaySelected(st, Stopped(out), [retry EXCEPT !.wait = NotScheduled], TRUE)

RetryDue ==
    /\ st.error # NoError
    /\ retry.wait = 0
    /\ \E end \in EndingsOf(out) :
          IF Raises(out, end)
          THEN Interrupted(out.episode)
          ELSE PlaySelected(st, Stopped(Terminated(out, end)),
                            [attempts |-> retry.attempts + 1, wait |-> NotScheduled], TRUE)

Watching == st.error = NoError /\ st.status = "playing"

NoticeFailure ==
    /\ Watching
    /\ PlaybackEvent(out) = "failed"
    /\ out' = Consumed(out)
    /\ retry' = Scheduled(retry)
    /\ Save([st EXCEPT !.status = "idle", !.error = "process_failed"])

\* Mutant: a channel with a single playable podcast is not advanced.
NoticeCompletionOfMany ==
    /\ Watching
    /\ PlaybackEvent(out) = "completed"
    /\ PlayableIn(ActiveChannel(st), Playable) # {st.podcast}
    /\ \E s \in NextPodcast(st, Playable, Shuffle) :
          PlaySelected(s, Consumed(out), retry, TRUE)

NoticeCompletion ==
    /\ Watching
    /\ PlaybackEvent(out) = "completed"
    /\ \E s \in NextPodcast(st, Playable, Shuffle) :
          PlaySelected(s, Consumed(out), retry, TRUE)

SupervisorTick == RetryDue \/ NoticeFailure \/ NoticeCompletion

-----------------------------------------------------------------------------
(* The world.                                                              *)

ClockTick ==
    /\ retry.wait \in Nat \ {0}
    /\ retry' = [retry EXCEPT !.wait = @ - 1]
    /\ UNCHANGED <<st, out>>

\* The player ends by itself: the episode is over, or it fails.
PlayerExits(outcome) ==
    /\ out.proc = "running"
    /\ outcome = "completed" => Len(st.previous) < MaxHistory
    /\ out' = [out EXCEPT !.proc = outcome]
    /\ UNCHANGED <<st, retry>>

StrayExits ==
    /\ out.strays > 0
    /\ out' = [out EXCEPT !.strays = @ - 1]
    /\ UNCHANGED <<st, retry>>

\* A feed refresh stores a podcast's newer episode; downloads are never
\* withdrawn, and the refresh knows the configured podcasts only.
DownloadArrives(p) ==
    /\ phase # "down"
    /\ \E c \in Range(ChannelIds) : p \in Configured(c)
    /\ downloads[p] < MaxEpisodes
    /\ downloads' = [downloads EXCEPT ![p] = @ + 1]
    /\ UNCHANGED <<st, out, retry, phase>>

\* build_runtime: a new backend, a new retry state, and the old state.json.
Boot ==
    /\ phase = "down"
    /\ phase' = IF StartOnBoot THEN "booting" ELSE "up"
    /\ UNCHANGED <<st, downloads, out, retry>>

BootPlay ==
    /\ phase = "booting"
    /\ Play
    /\ phase' = "up"
    /\ UNCHANGED downloads

\* The program is gone, and the service manager ends its children with it.
Exit ==
    /\ phase' = "down"
    /\ out' = NewBackend(ConfigVolume)
    /\ retry' = NoRetry
    /\ UNCHANGED downloads

Crash ==
    /\ phase # "down"
    /\ Exit
    /\ UNCHANGED st

\* PotcastRuntime.stop, once both schedulers have stopped.
Shutdown ==
    /\ phase = "up"
    /\ Exit
    /\ \/ Save([st EXCEPT !.status = "stopped", !.error = NoError])
       \/ \E end \in EndingsOf(out) : Raises(out, end) /\ UNCHANGED st

FirstState ==
    [status |-> "stopped", channel |-> NoChannel, podcast |-> NoPodcast,
     previous |-> <<>>, volume |-> ConfigVolume, error |-> NoError]

\* What an earlier run may have left in state.json, possibly under another
\* configuration: with other channels, with podcasts in other channels, and with
\* another volume.  An error is saved with the status idle, and kept by pause.
InheritedStates ==
    {s \in [status : {"stopped", "idle", "playing", "paused"},
            channel : Channels,
            podcast : Podcasts \cup {NoPodcast},
            previous : Histories(MaxInherited),
            volume : InheritedVolumes,
            error : OutputErrors \cup {NoError}] :
        s.error # NoError => s.status \in {"idle", "paused"}}

\* First boot, or the first one after an earlier run.
Init ==
    /\ st \in {FirstState} \cup InheritedStates
    /\ downloads \in [Podcasts -> {0, 1}]
    /\ out = NewBackend(ConfigVolume)
    /\ retry = NoRetry
    /\ phase = "down"

Tick == phase # "down" /\ SupervisorTick /\ UNCHANGED <<downloads, phase>>

Clock == ClockTick /\ UNCHANGED <<downloads, phase>>

Serve == phase = "up" /\ Command /\ UNCHANGED <<downloads, phase>>

Next ==
    \/ Serve
    \/ Tick
    \/ Clock
    \/ \E outcome \in {"completed", "failed"} :
          PlayerExits(outcome) /\ UNCHANGED <<downloads, phase>>
    \/ StrayExits /\ UNCHANGED <<downloads, phase>>
    \/ \E p \in Podcasts : DownloadArrives(p)
    \/ Boot
    \/ BootPlay
    \/ Crash
    \/ Shutdown

Spec == Init /\ [][Next]_vars

\* The scheduler's loop calls the supervisor again and again and survives what
\* it raises, and time passes.  Nothing obliges the operator or a player.
FairSpec == Spec /\ WF_vars(Tick) /\ WF_vars(Clock)

-----------------------------------------------------------------------------
(* Properties.                                                             *)

\* Every record stays within its type.
TypeOK ==
    /\ st \in RuntimeStates
    /\ downloads \in [Podcasts -> 0 .. MaxEpisodes]
    /\ out \in Backends(Episodes)
    /\ retry \in RetryStates
    /\ phase \in {"down", "booting", "up"}

\* The automatic retries never exceed the policy, over any sequence of
\* commands, failures and restarts, and one is scheduled only while the policy
\* has one left, so the attempt it leads to is within the policy too.
RetryBounded ==
    /\ retry.attempts <= MaxAttempts
    /\ retry.wait # NotScheduled => retry.attempts < MaxAttempts

\* The player and the persisted state agree: a player the backend still holds
\* belongs to a station marked playing with no error recorded.  A second /stop
\* or /pause relies on it, for it does not call the output.
NoAudioUnlessPlaying ==
    out.proc # "none" => st.status = "playing" /\ st.error = NoError

\* What is heard is what /status reports as selected, through skips, volume
\* changes, refreshes that replace the episode, and retries.
SelectedIsHeard ==
    out.proc # "none" => out.ident = out.episode /\ out.ident[1] = st.podcast

\* What a state names as selected or in its history and is not in its channel.
Foreign(s) ==
    ({s.podcast} \cup Range(s.previous)) \ (Configured(ActiveChannel(s)) \cup {NoPodcast})

\* No step brings a podcast of another channel into the selection or into the
\* history /previous goes back through, and the history is not taken along into
\* another channel: only what another configuration left may be foreign, and it
\* goes when the channel is left.
SelectionWithinChannel ==
    [][/\ Foreign(st') \subseteq Foreign(st)
       /\ ActiveChannel(st') # ActiveChannel(st) => Foreign(st') = {}]_vars

\* A recorded error goes away only when playback has started, the station is
\* stopped, or the active channel turns out to have nothing to play; it
\* survives pauses, volume changes, failed commands and restarts.  The last of
\* the three is not in SPEC.md:533-534, which names "a later successful playback
\* attempt or explicit station stop" only: _play_selected clears the error of a
\* station it leaves idle.
ErrorIsKept ==
    [][st.error # NoError /\ st'.error = NoError
        => \/ st'.status = "playing" /\ out'.proc = "running"
           \/ st'.status = "stopped"
           \/ st'.status = "idle" /\ PlayableIn(st'.channel, Playable) = {}]_vars

\* playback_supervisor.state as /status reports it.
SupervisorState ==
    IF st.error # NoError
    THEN IF retry.wait # NotScheduled THEN "retry_scheduled"
         ELSE IF retry.attempts >= MaxAttempts THEN "exhausted"
         ELSE "blocked"
    ELSE IF st.status = "playing" THEN "watching"
    ELSE "idle"

Supervisor == INSTANCE PlaybackSupervisor
              WITH mode <- SupervisorState, attempts <- retry.attempts

\* The service, whatever is asked of it and whatever fails, is a playback
\* supervisor as PlaybackSupervisor describes it.
SupervisorSpec == Supervisor!Spec

\* A player that has exited does not stay unnoticed.
ExitIsNoticed ==
    out.proc \in {"completed", "failed"} ~> out.proc \in {"none", "running"}

\* An automatic retry that is scheduled is made or cancelled, and retries
\* that keep failing come to an end: the supervisor does not stay in
\* retry_scheduled.
RetryEnds ==
    SupervisorState = "retry_scheduled" ~> SupervisorState # "retry_scheduled"

-----------------------------------------------------------------------------
(* What the documentation says and the code does not do.                   *)

\* SPEC.md:328, "Paused and stopped stations do not auto-advance": no step of
\* the supervisor makes a paused or stopped station play.
PausedDoesNotAutoAdvance ==
    [][Tick /\ st.status \in {"paused", "stopped"} => out'.proc = "none"]_vars

\* docs/configuration.md:100, "persisted runtime state preserves command
\* changes across restarts": the volume a player runs at is the persisted one.
PersistedVolumeIsUsed ==
    out.proc = "running" => out.volume = st.volume

\* SPEC.md:331, "Backend startup failures ... leave the station idle": a
\* station whose output is in error is not marked playing.
StartFailureLeavesStationIdle ==
    out.state = "error" => st.status # "playing"
=============================================================================
