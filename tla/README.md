# Potcast in TLA+

Potcast plays podcasts like a radio station: it refreshes RSS feeds, keeps the
newest episode of each configured podcast on disk, and sends one of them at a
time to an output, under the control of HTTP commands and of a supervisor that
advances when an episode ends and retries when playback fails.  The modules
here model that behaviour from the Python code under `potcast/`, TLC checks
them on small instances, and TLAPS proves the main results for every instance.
`PROJECT.json` maps every definition to the lines it stands for.

## The system

| component | state it keeps | operations | talks to |
|---|---|---|---|
| selection, `station.py` | none, it maps runtime states | activate, next, previous, channel moves | called by the service |
| station service, `service.py` | `_retry_state` (attempts, next retry) | the HTTP commands, the supervisor's tick, the status report | state store, selection, output |
| output, `outputs/local_audio.py` | the player process, the episode, its `OutputStatus` | play, pause, stop, set volume, report an exit | operating system |
| icecast output, `outputs/icecast.py` | as above, and in continuous mode a stream process, a decoder and a relay thread | the same | operating system |
| state store, `state.py` | `state.json`, `feeds.json`, `downloads.json` | load, replace atomically | disk |
| feed refresh, `feed_refresh.py` | `_monitor_status` under a lock | trigger, the refresh of every podcast | feeds, parser, downloader, state store |
| feed parser, `feeds.py` | none | the newest playable episode of a document | called by the refresh |
| downloader, `downloader.py` | media files | replace an episode | network, disk |
| scheduler, `scheduler.py` | a thread, a stop event | start, stop, run the job again and again | runs the supervisor and the refresh |
| runtime, `runtime.py` | nothing of its own | boot, start on boot, stop | all of the above |
| HTTP API, `app.py` | none | one route per command | service, feed refresh |

Behaviour that is hard here: every command loads `state.json`, works on the
copy, drives the output and saves the copy, and any of these can fail half way;
players exit by themselves, fail to start, or do not end when told to; the
supervisor's retries race with commands; `state.json` outlives the process, the
output and the configuration; the refresh thread replaces media files and
metadata while the station uses them; and there is no lock round a command.
What makes each component right: the selection always ends on something
playable and honours history and rounds; the service's record, the output and
the player agree and the retry policy is kept; a refresh never leaves a podcast
without audio and never blocks the next one.

## Modules

- `Selector` - the rules of `StationSelector` as operators, parameterised by the
  configuration.  Random choice becomes the set of possible results.
- `StationSelection` - the selector at work: moves by the operator and arriving
  downloads, with a history variable `heard` that records rounds independently
  of the history the program keeps.  It begins with any `state.json` an earlier
  run may have left: any selection and any history, of another configuration or
  of a run without shuffle.
- `LocalAudio` - the subprocess output as operators on its record.  The same
  code runs in `IcecastOutputBackend` with an injected launcher.
- `Station` - `StationService` over that output: `st` is `state.json`, `out` the
  backend and its players, `retry` is `_retry_state`, `downloads` is
  `downloads.json`, `phase` the life of the process.  One action per command,
  one per branch of `advance_if_finished`, and the world: the clock, players
  that exit, downloads, boot, crash, shutdown.  A command is one step.  It too
  begins with any `state.json` of an earlier run, its history, volume and error
  included (`InheritedStates`).
- `StationThreads` - the same service, with a command as the sequence of its
  accesses to what the threads share: `state.json`, the output's fields, the
  players and `_retry_state`.  `thread` holds, for the main thread, the
  supervisor's loop and each request thread, the accesses still to come and the
  copy of the state it works on; `loop` is the life of the supervisor's
  `PeriodicScheduler`, `phase` that of `PotcastRuntime.run`.  Threads change
  over wherever the code reads or writes a file, starts or waits for a player,
  asks the clock, or calls from the service into the output; assignments that
  follow each other in one function are one access.  So `_schedule_retry` is two
  accesses, `schedule`, which looks at the retry state and asks the clock, and
  `postpone`, which writes; `races` counts the times that another thread has
  changed the retry state between them.  Selection, volumes and failing writes stay
  in `Station`: here there is one podcast, and every command that switches is
  `/next`.
- `PlaybackSupervisor` - what SPEC 8 and 9.1 promise of the supervisor, as an
  abstract machine over `playback_supervisor.state` and `retry_attempts`.
  `Station` implements it under the mapping `mode <- SupervisorState`.
- `Feeds` - `parse_feed` as operators on the entries that feedparser returns:
  enclosures before links, the first supported one decides, the identity and
  the date each from the first field that has one, of the latest entries the
  first.
- `FeedRefresh` - the refresh slot and the refresh threads, podcast by podcast
  and step by step between two effects on the disk, over documents that go
  through `Feeds`.  Publishers post what is dated, undated or not playable, at
  the top of the feed or at its end.  A document is the feed or lacks any of its
  episodes, as one does that is cut short or from which posts were withdrawn, and
  may have an error besides.  Two history variables serve the properties: `asked`,
  how many posts there were when the last refresh began, and `cut`, the podcasts
  whose feed ever came without one of its episodes.
- `Icecast` - the continuous mode of the Icecast output: the caller and the
  relay thread as two processes that share `_stream_process`,
  `_decoder_process`, `_playback_event`, `_relay_stop` and `_status`, and the
  ffmpeg processes, which may end at any step.  A write that fails and what is
  then done under the lock are two steps.  `station` is the little that
  `StationService` keeps, enough to know which operations it asks for.
- `MCStationSelection`, `MCStation`, `MCStationThreads`, `MCFeedRefresh`,
  `MCIcecast` - small instances.
- `SelectorProofs`, `StationSelectionProofs`, `StationProofs`,
  `StationThreadsProofs`, `FeedRefreshProofs` (with the parser's results),
  `FeedAgreementProofs`, `IcecastProofs` - lemmas and theorems; `NumberFacts` -
  least and greatest numbers, used by them.

Definitions whose comment begins with `Mutant:` are plausible bugs; each
property is known to fail when its mutant takes the place of the original.

## Runs

| run | what it asks | bounds |
|---|---|---|
| `selection` | moves end on something playable, `/previous` undoes `/next`, no podcast is repeated before its round is over, a history that is one round stays one, every podcast has its turn | channels of three and one podcasts, a channel and a podcast of an older configuration, any inherited history up to 3, history up to 4 |
| `station` | retries bounded, the supervisor refined, nothing foreign enters selection and history, an error is not lost | channels of two and one podcasts, a retired channel, any inherited selection, error and history up to 1, two retries, all endings of a player, failing writes, crashes; one volume |
| `station_live` | player, output and record agree; exits are noticed, retries end | as above with shuffle and start on boot, two episodes per podcast; disk holds, players do not hang |
| `threads` | the supervisor outlives what a tick raises, shutdown ends and leaves a stopped state, retries exceed the policy only by the schedules that were overtaken, for every interleaving | the main thread, the supervisor and one request thread; one player number; `/toggle`, `/stop`, `/next`, `/volume/<level>`, `/output/recover`, so play and pause come through toggle; one retry; a player may ignore `terminate()`; no further request after one overtaken schedule |
| `refresh` | audio is never lost, files agree after a refresh, the newest episode is kept, no stale copy is written back, the slot is released | two threads; a podcast with two posts, each dated or not and at either end, and one with a single post; every part of a feed may be missing from a document |
| `icecast` | a completion is reported only for the current episode played to its end, no race loses the end of a decoder or of the stream, the relay notices that the decoder has ended | two numbers for streams and two for decoders, used again, so commands are not bounded |
| `no_lock`, `stop_as_failure`, `paused_retry`, `restart_volume`, `volume_failure`, `manual_retry` | counterexamples to sentences of the documentation, see below | |

Two podcasts in a channel give order, wrapping and a choice; a third lets the
shuffle choose among several and finish a round; a channel with one podcast is
the degenerate cycle.  Two retries distinguish the first from the last.  Bounds
of the model, not of the program: `MaxHistory` (next and completions are not
taken beyond it), `MaxInherited` (the history an earlier run left),
`InheritedVolumes`, `MaxEpisodes` (episodes per podcast), `MaxPosts` (posts per
feed), `MaxStrays` (players left running at once), `MaxRaces` (once as many
schedules were overtaken nobody sends a request) and the number of refresh and
request threads.  An inherited history of three is long enough to name a podcast
twice, and a foreign one besides; one of one is enough for `/previous` to go back
to.  In `station_live` `VolumeStep` is 100, so that two levels are enough to be
clipped at either end; in `station`, which has everything else, a level out of
range is asked for and nothing steps.  The second podcast of `refresh` is there
for order and for `failed_count`; the parser is put to the test by the first.

The passing runs have 92 thousand (`station_live`) to 883 thousand (`refresh`)
distinct states.

One request thread beside the supervisor and the main thread gives every pair of
actors that the program has by itself; `no_lock` and `stop_as_failure` need no
more, and a second one only adds the interleaving of two commands.  With one
player number a launch waits until the last player has ended, or fails, as it
may anyway: an old player that ignores `terminate()` beside a new one is in
`Station`.  One overtaken schedule is enough to show the bound tight: with a
`RetryBounded` that does not count them TLC finds one attempt too many.  What is proved of `StationThreads` holds for any number of both.

`station_live` leaves out failing writes because with them the agreement does
not hold: the output has acted when the write of `state.json` raises, and a
later `/stop` of a station recorded as stopped does not reach the output.  It
leaves out hanging players for `SelectedIsHeard`, since `play_episode` has noted
the new episode when `TimeoutExpired` escapes.  Both cases are in `station`.

`Icecast` gives a process number back when its process has ended and nothing
refers to it, so two numbers are one for the process in use and one for the
process that the relay still holds or that is being launched; when none is free
the launch fails, as it may anyway.  `EndIsNoticed` excepts a relay thread that
has ended: `stop()` can make it die on a closed pipe, or `play_episode` take it
for alive while it leaves its loop, and then nothing serves the stream.

Fairness: `Station` assumes weak fairness of the supervisor's tick, because
`PeriodicScheduler._run_loop` calls it every second and survives what it raises,
and of the clock.  `StationThreads` assumes it of each thread, because the
operating system schedules them and `wait()` and `join()` have timeouts, of the
loop's next round and of the main thread's way through `start`, `run` and `stop`.
`CHECK_DEADLOCK` is off there only because the program ends.

Where the code may wait for ever nothing is assumed.  `FeedRefresh` has fairness of
the steps a refresh takes by itself (`OwnStep`), not of `Fetch` and `Download`: the
timeouts of httpx are of inactivity and `iter_bytes` has no limit, so a server that
keeps sending holds the thread and the slot.  `SlotReleased` says that the slot is
given back if again and again no thread is waiting for a server (`Receiving`).
`Icecast` has fairness of the relay thread while it is not held in a pipe
(`Blocked`), for its reads and writes have no timeout, and none of the caller,
which may have to wait behind a write when it closes the stream's stdin;
`EndIsNoticed` has the same proviso.  Nothing is assumed of the operator, of
players, publishers or crashes.

### Disagreements with the documentation

- `paused_retry`: SPEC 8 says paused stations do not auto-advance; a retry
  scheduled before `/pause` starts the player (`service.py:284`).
- `restart_volume`: the configuration guide says runtime state preserves
  command changes across restarts; the output is built with the configured
  volume and is never told the persisted one (`runtime.py:189`).
- `volume_failure`: SPEC 8 says a start failure leaves the station idle; the
  relaunch of a volume change is not looked at (`service.py:228`).
- `manual_retry`: SPEC 8 says `/next` and the like may retry playback after a
  failure; the continuous mode leaves the old error in its status while the new
  decoder plays, so the station counts as idle (`icecast.py:180`).
- `no_lock`: SPEC 10 says shared state must be protected with a lock.  After a
  restart with a recorded error the supervisor saves, every second, the state it
  has just loaded; a command that saves in between is undone
  (`service.py:282`).
- `stop_as_failure`: SPEC 8 speaks of unexpected exits; the supervisor polls the
  player that `/next` has terminated and is waiting for, and schedules a retry
  (`local_audio.py:96`).

Six more have no run of their own; the properties named say what does hold.

- SPEC 9.1 (`SPEC.md:533`) says the last error is reported until a later
  successful playback or an explicit stop clears it.  `_play_selected` also clears
  it, without playing, when the active channel has nothing to play
  (`service.py:352`); it is the third excuse in `ErrorIsKept`.
- SPEC 8 says that the runtime schedules at most one automatic retry
  (`SPEC.md:334`), and the policy has `max_attempts`.  `_schedule_retry` checks
  both, asks the clock and then schedules on whatever the retry state has become
  (`service.py:488`); each time another thread comes in between, one retry too many
  may follow.  `RetryBounded` of `StationThreads` counts these times.
- SPEC 8 expects the station to advance when an episode finishes
  (`SPEC.md:318`).  When `/play` follows `/stop` so fast that the old relay thread
  is still leaving its loop, `is_alive()` takes it for a relay (`icecast.py:211`);
  decoder and stream are there, nobody reads the one or feeds the other, and the
  station stays marked playing, silent, with no event and no error, until a
  `/stop` or the end of the stream.  A thread that is about to die on the stdin
  which `stop()` has closed is taken for alive in the same way.  `LossIsReported` speaks of lost
  processes, not of a lost relay, and `EndIsNoticed` excepts it.
- The newest of several episodes without dates is the one at the top
  (`feeds.py:53`).  Of a feed that has its oldest first and no dates a refresh
  keeps the oldest, and of one that mixes dated and undated episodes a dated one.
  `NewestIsKept` and `NoStaleOverwrite` are about the parser's order (`Older`).
- A document that could not be read to its end is used as it is when some entries
  were (`feeds.py:34`), and a feed may withdraw an episode.  A refresh then goes
  back to an older episode, which `NoStaleOverwrite`, `NewestIsKept` and
  `FinishedRefreshAgrees` leave open: they are about the podcasts outside `cut`.
- Worse, a feed that shows an earlier episode as its newest once more, after a
  crash between the removal of that episode's file and the next save of
  `downloads.json`, is reported as ok with the file gone: the comparison is of
  identities only (`feed_refresh.py:273`).

## Proofs

Every invariant and every action property that a run checks, and the refinement,
is also a theorem, for every configuration that `_parse_channels` accepts, every
retry policy, set of volumes, way of ending a player and bound: the assumptions
on the constants are `SelectorAssumption`, `StationAssumption`,
`ThreadsAssumption`, `FeedRefreshAssumption` and `IcecastAssumption`, which TLC
evaluates.  Two theorems have a further hypothesis, named below.

Selection:

- `SelectorProofs` shows that the least and greatest playable positions exist
  (`NumberFacts`), and that every rule is a move: it keeps the fields it does
  not own (`Reselect`), ends on a configured channel, and on a playable podcast
  unless there is none (`Moved`).  `StationSelection` and `Station` both rest on
  it.
- `SelectionTyping`, `MovesArePlayable`, `PreviousIsUndo`
  (`StationSelectionProofs`) follow from what the moves do, move by move.
- `HistoryIsARound`, `RepeatsAreLate`: a `state.json` of an earlier run may hold
  a history that is no round, so neither theorem says that there always is one.
  The first says that a round stays a round, within the channel and shorter than
  it, through every move and download, and that a `/next` which cuts the history
  begins one, whatever it was.  The second says that from a round `/next` repeats a
  podcast only when every playable one has been heard.  Both rest on the invariant
  that with shuffle `heard` is what the selected podcast and the history name
  (`HistoryIsHeard`), which ties the record of the model to the one of the program.
- `EveryTurnComes`: the sequence of turns in `EveryPodcastHasItsTurn` is a
  recursive function, so the lemma `TurnsDefined` first shows that it exists.  A
  turn from a playable podcast strictly lessens the number of positions ahead to
  any other one (`FollowingNearer`), and that number is below the length of the
  channel (`TurnsReach`).  Inductions are by the least counterexample.

Station service (`StationProofs`):

- `Typing`: each output operation, each command, tick and world step is shown
  well typed, above the moves of the selector.
- `RetriesBounded`: `RetryBounded` is inductive relative to the types.  The due
  retry is the crux: it counts an attempt, and stays in the policy because it
  was scheduled only while one was left.
- `PlayerOnlyWhilePlaying`, `HeardIsSelected`: `NoAudioUnlessPlaying` and
  `SelectedIsHeard` are not inductive, because a volume change launches the
  player when the *output* says playing.  `Agreement` adds that the output says
  playing only when the record does, about the selected episode.  The theorems
  assume a disk that holds, the second also players that do not hang; the
  assumptions are needed, see above.
- `SelectionStaysWithinChannel`: after a restart selection and history may name
  podcasts that the configuration no longer has in the channel.  The theorem is
  that no step adds a foreign podcast and that none is taken along into another
  channel.  A save that fails keeps the old record and a save that succeeds writes
  a moved one, in every command and tick, and every move takes what it keeps from
  the record it began with.
- `ErrorsAreKept`: each step that clears an error is matched with its excuse: a
  player that runs, a stopped station, nothing to play.
- `StationImplementsSupervisor`: `Spec => SupervisorSpec` under the mapping
  `mode <- SupervisorState`.  Every step either resets the retry state, keeps
  its count, or counts one scheduled retry (`Reset`, `Kept`, `Retried`), and
  `SupervisorSteps` shows that each of the three is an abstract step or a
  stutter, given `RetryBounded` before and after it.

Threads (`StationThreadsProofs`), for any number of request threads and players:

- `ThreadsTyping`, `RetriesBoundedUnderThreads`.  A thread carries the number of
  its attempt across the wait for a player, and one that schedules carries what it
  has checked across a call of the clock, so the bound on what is written rests on
  the bound on what threads have in hand.  The bound is `MaxAttempts + races`; a
  `Postpone` that was overtaken raises `races`, and one that was not writes what
  was checked.  `ThreadsInv` joins `RetryBounded` with the types and with
  `AttemptLeft`: between finding a retry due and counting it the supervisor has
  one left.
- `ShutdownIsClean`: `CleanShutdown` speaks of the last state only.
  `ShutdownInv` adds that the supervisor's thread has nothing to do once its
  loop has ended, that nobody else is at work while the main thread is alone,
  and what this thread still has to do, so that the last save is its own.

Feeds and refresh, for any podcasts, feeds and number of threads:

- `LatestIsNewest` (`FeedRefreshProofs`): `parse_feed` returns a playable entry
  of the latest date, and nothing only when there is none.
- `RefreshTyping`, `OneRefreshAtATime`, `AudioIsKept` (`FeedRefreshProofs`).
  `NeverWithoutAudio` is not inductive: a thread overwrites `downloads.json` with
  its copy and removes a file that `downloads.json` may still name.
  `RefreshInv` adds that one thread works at a time, that its copy names no
  podcast without a file, and that the new file is in place, and another one
  than the old, when the old one goes.
- `FinishedAgrees`, `DownloadsGoForward`, `RefreshKeepsNewest`
  (`FeedAgreementProofs`) are about the podcasts whose feed has always come whole,
  `Podcasts \ cut`, and need nothing of its order or dates; about the others see
  the disagreements above.  `AgreeInv` says of the metadata and of the thread at
  work what the last two files will be written from.  Its crux is `Current`: a
  download whose file is missing, after a crash between its removal and the next
  save, is one that the parser does not find any more and, while the feed comes
  whole, never finds again (`OrderGrows`); otherwise the refresh would take it for
  current by its identity and report it as ok.  The same growth makes what is
  written back no older than what was read.

Icecast (`IcecastProofs`), for any number of processes:

- `IcecastTyping`, `LossesAreReported`: `LossIsReported` speaks of the
  station between commands.  Within one, the event that stands for a decoder
  that has ended may be in the hands of the supervisor, a decoder may be started
  for a stream that the relay loses meanwhile, and the record is about to be
  written from the status of the output; `IcecastInv` says for each place in the
  caller what it may rely on there (`Alive`).
- `CompletionsAreGenuine`: only the relay reports a completion, and it looks at
  the current decoder and its return code under the lock.

Model-checked only: liveness (`ExitIsNoticed`, `RetryEnds`, `SlotReleased`,
`EndIsNoticed`, `SupervisorKeepsWatch`, `ShutdownEnds`), which needs fairness and
`ENABLED` and is beyond the prover, and the six counterexamples.

## Not modelled, and the plan

Not modelled: feedparser's reading of XML, validation of configuration values,
JSON and HTTP rendering, tokens, the construction of command lines, the command
line interface and the scripts under `deploy/` and `extras/` (data conversion
and packaging without state of their own).  These make up most of `config.py`,
`app.py`, `state.py` and `models.py`.  The two times a scheduler reports, and a
second `start()` of it, which the program never makes, are left out.

What could follow:

1. Proofs: that `StationThreads` without interleaving is `Station`, and an
   abstract specification of the refresh for `FeedRefresh` to implement.
2. Which feeds that withdraw episodes a refresh still keeps up with.
3. An idle station that should resume when downloads arrive (SPEC 8).
4. The Icecast backend under `StationThreads`, in place of the player.
