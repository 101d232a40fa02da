------------------------------- MODULE Icecast -------------------------------
(***************************************************************************)
(* The continuous mode of src/potcast/outputs/icecast.py, the one that is  *)
(* used when no launcher is injected.  One ffmpeg process, the stream,     *)
(* holds the connection to Icecast; another one, the decoder, turns the    *)
(* episode into PCM; the relay thread copies the decoder's output, or      *)
(* silence, to the stream.  A caller, StationService, changes decoders     *)
(* under the relay's hands.                                                *)
(*                                                                         *)
(* A step ends where the code takes or releases _lock, or starts, ends or  *)
(* waits for a process.  The caller serves one command at a time.  Of      *)
(* OutputStatus only state and connected are kept; which episode is played *)
(* is left out, there always is one.  A process is known by a number, used *)
(* again when the process has ended and nothing refers to it.  Without     *)
(* stdin a stream ends, however long it takes.                             *)
(***************************************************************************)
EXTENDS Naturals

CONSTANTS
    Streams,       \* bound: stream processes known at once
    Decoders,      \* bound: decoder processes known at once
    Commands,      \* the commands the operator gives
    KillMayFail    \* may a decoder survive kill() for five seconds?

None == 0

ASSUME IcecastAssumption ==
    /\ Streams \subseteq Nat \ {None}
    /\ Decoders \subseteq Nat \ {None}
    /\ Commands \subseteq {"play", "pause", "stop", "volume", "recover"}
    /\ KillMayFail \in BOOLEAN

VARIABLES
    out,         \* _status
    stream,      \* _stream_process
    decoder,     \* _decoder_process
    event,       \* _playback_event
    relayStop,   \* _relay_stop
    relay,       \* the relay thread: where it is and its local variables
    streams,     \* the operating system's view of the stream processes
    decoders,    \* and of the decoders
    caller,      \* the service's thread: where it is and its local variables
    station      \* the persisted status, and whether it carries an error

fields == <<out, stream, decoder, event, relayStop>>
vars == <<fields, relay, streams, decoders, caller, station>>

Events == {"none", "completed", "failed"}

\* A stream may end by itself, or after its stdin has been closed.  A number
\* not in use is closed.
StreamStates == {"running", "exited", "closed"}

\* poll() is None, zero or another return code, as of a process that was
\* killed.  A number not in use is failed.
DecoderStates == {"running", "completed", "failed"}

RelayIdle == [at |-> "none", stream |-> None, decoder |-> None]

RelayAt(place) == [at |-> place, stream |-> None, decoder |-> None]

CallerIdle == [at |-> "idle", goal |-> "none", stream |-> None, decoder |-> None, event |-> "none"]

\* The caller at the start of an operation it does for some goal.
CallerAt(place, goal) == [CallerIdle EXCEPT !.at = place, !.goal = goal]

FreeStreams == {s \in Streams :
    streams[s] # "running" /\ s \notin {stream, relay.stream, caller.stream}}

FreeDecoders == {d \in Decoders :
    decoders[d] # "running" /\ d \notin {decoder, relay.decoder, caller.decoder}}

\* What poll() says of the stream, and of the decoder the caller is ending.
StreamRuns == stream # None /\ streams[stream] = "running"

OldDecoderRuns == caller.decoder # None /\ decoders[caller.decoder] = "running"

Least(S) == CHOOSE x \in S : \A y \in S : x <= y

-----------------------------------------------------------------------------
(* _play_episode_continuous, in four steps and the service's reaction.     *)

\* The except branch: the decoder is dropped, ended or not.
PlayFails ==
    /\ decoder' = None
    /\ out' = [state |-> "error", connected |-> stream # None]
    /\ caller' = CallerAt("settle", caller.goal)
    /\ UNCHANGED <<stream, event, relayStop, relay, streams, decoders, station>>

\* _pop_decoder_locked, and the event of the decoder is void.
PopDecoder(place) ==
    /\ decoder' = None
    /\ event' = "none"
    /\ caller' = [caller EXCEPT !.at = place, !.decoder = decoder]
    /\ UNCHANGED <<out, decoders, station>>

\* _ensure_stream_process finds a stream that runs.
PlayOnStream ==
    /\ caller.at = "play"
    /\ StreamRuns
    /\ PopDecoder("replace")
    /\ UNCHANGED <<stream, relayStop, relay, streams>>

\* Or launches one.  A relay thread that is alive, even one on its way out,
\* is taken to serve the new stream.
PlayOnNewStream ==
    /\ caller.at = "play"
    /\ ~StreamRuns
    /\ FreeStreams # {}
    /\ LET s == Least(FreeStreams) IN
       /\ stream' = s
       /\ streams' = [streams EXCEPT ![s] = "running"]
    /\ relayStop' = FALSE
    /\ relay' = IF relay.at = "none" THEN RelayAt("loop") ELSE relay
    /\ PopDecoder("replace")

\* The stream has ended, or is the first, and cannot be launched.
PlayCannotBegin ==
    /\ caller.at = "play"
    /\ ~StreamRuns
    /\ PlayFails

\* _terminate_decoder_process, waiting up to five seconds, twice.
EndOldDecoder(place) ==
    /\ caller' = [caller EXCEPT !.at = place, !.decoder = None]
    /\ \/ /\ OldDecoderRuns
          /\ \/ /\ decoders' = [decoders EXCEPT ![caller.decoder] = "failed"]
                /\ UNCHANGED out
             \/ /\ KillMayFail
                /\ out' = [out EXCEPT !.state = "error"]
                /\ UNCHANGED decoders
       \/ /\ ~OldDecoderRuns
          /\ UNCHANGED <<out, decoders>>

Replace ==
    /\ caller.at = "replace"
    /\ EndOldDecoder("launch")
    /\ UNCHANGED <<stream, decoder, event, relayStop, relay, streams, station>>

LaunchDecoder ==
    /\ caller.at = "launch"
    /\ FreeDecoders # {}
    /\ LET d == Least(FreeDecoders) IN
       /\ decoders' = [decoders EXCEPT ![d] = "running"]
       /\ caller' = [caller EXCEPT !.at = "install", !.decoder = d]
    /\ UNCHANGED <<fields, relay, streams, station>>

LaunchDecoderFails ==
    /\ caller.at = "launch"
    /\ PlayFails

\* Mutant: whatever happened since, the output plays.
InstallRegardless ==
    /\ caller.at = "install"
    /\ decoder' = caller.decoder
    /\ event' = "none"
    /\ out' = [state |-> "playing", connected |-> TRUE]
    /\ caller' = CallerAt("settle", caller.goal)
    /\ UNCHANGED <<stream, relayStop, relay, streams, decoders, station>>

\* The new decoder is the current one; an error that is there stays there.
Install ==
    /\ caller.at = "install"
    /\ decoder' = caller.decoder
    /\ event' = "none"
    /\ out' = IF out.state = "error" THEN out ELSE [state |-> "playing", connected |-> TRUE]
    /\ caller' = CallerAt("settle", caller.goal)
    /\ UNCHANGED <<stream, relayStop, relay, streams, decoders, station>>

\* _play_selected looks at the status of the output, set_volume does not.
Settle ==
    /\ caller.at = "settle"
    /\ caller' = CallerIdle
    /\ station' =
         CASE caller.goal = "volume"   -> station
           [] out.state = "error"      -> [status |-> "idle", failed |-> TRUE]
           [] OTHER                    -> [status |-> "playing", failed |-> FALSE]
    /\ UNCHANGED <<fields, relay, streams, decoders>>

-----------------------------------------------------------------------------
(* pause, and stop, after which recover_output and the retry play.         *)

PauseDecoder ==
    /\ caller.at = "pause"
    /\ decoder' = None
    /\ caller' = [caller EXCEPT !.at = "paused", !.decoder = decoder]
    /\ UNCHANGED <<out, stream, event, relayStop, relay, streams, decoders, station>>

PauseEnd ==
    /\ caller.at = "paused"
    /\ \/ /\ ~OldDecoderRuns \/ KillMayFail
          /\ UNCHANGED decoders
       \/ /\ OldDecoderRuns
          /\ decoders' = [decoders EXCEPT ![caller.decoder] = "failed"]
    /\ out' = [state |-> "paused", connected |-> stream # None]
    /\ station' = [station EXCEPT !.status = "paused"]
    /\ caller' = CallerIdle
    /\ UNCHANGED <<stream, decoder, event, relayStop, relay, streams>>

StopRelay ==
    /\ caller.at = "stop"
    /\ relayStop' = TRUE
    /\ decoder' = None
    /\ caller' = [caller EXCEPT !.at = "stop_decoder", !.decoder = decoder]
    /\ UNCHANGED <<out, stream, event, relay, streams, decoders, station>>

StopDecoder ==
    /\ caller.at = "stop_decoder"
    /\ EndOldDecoder("stop_pop")
    /\ UNCHANGED <<stream, decoder, event, relayStop, relay, streams, station>>

StopPopStream ==
    /\ caller.at = "stop_pop"
    /\ stream' = None
    /\ caller' = [caller EXCEPT !.at = "stop_stream", !.stream = stream]
    /\ UNCHANGED <<out, decoder, event, relayStop, relay, streams, decoders, station>>

\* Closing stdin and ending the process; then the service's part.
StopStream ==
    /\ caller.at = "stop_stream"
    /\ streams' = IF caller.stream = None THEN streams
                  ELSE [streams EXCEPT ![caller.stream] = "closed"]
    /\ out' = [state |-> "stopped", connected |-> FALSE]
    /\ \/ /\ caller.goal = "recover"
          /\ caller' = CallerAt("play", "play")
          /\ UNCHANGED station
       \/ /\ caller.goal # "recover"
          /\ caller' = CallerIdle
          /\ station' = [status |-> "stopped", failed |-> FALSE]
    /\ UNCHANGED <<stream, decoder, event, relayStop, relay, decoders>>

-----------------------------------------------------------------------------
(* The supervisor's look at the output, advance_if_finished.               *)

TakeEvent ==
    /\ caller.at = "idle"
    /\ station = [status |-> "playing", failed |-> FALSE]
    /\ caller' = [CallerIdle EXCEPT !.at = "consume", !.stream = stream, !.event = event]
    /\ event' = "none"
    /\ UNCHANGED <<out, stream, decoder, relayStop, relay, streams, decoders, station>>

StreamHasEnded == caller.stream # None /\ streams[caller.stream] # "running"

ConsumeStreamEnd ==
    /\ caller.at = "consume" /\ StreamHasEnded
    /\ out' = [state |-> "error", connected |-> FALSE]
    /\ station' = [status |-> "idle", failed |-> TRUE]
    /\ caller' = CallerIdle
    /\ UNCHANGED <<stream, decoder, event, relayStop, relay, streams, decoders>>

ConsumeFailure ==
    /\ caller.at = "consume" /\ ~StreamHasEnded /\ caller.event = "failed"
    /\ station' = [status |-> "idle", failed |-> TRUE]
    /\ caller' = CallerIdle
    /\ UNCHANGED <<fields, relay, streams, decoders>>

ConsumeCompletion ==
    /\ caller.at = "consume" /\ ~StreamHasEnded /\ caller.event = "completed"
    /\ out' = [state |-> "idle", connected |-> TRUE]
    /\ caller' = CallerAt("play", "play")
    /\ UNCHANGED <<stream, decoder, event, relayStop, relay, streams, decoders, station>>

ConsumeNothing ==
    /\ caller.at = "consume" /\ ~StreamHasEnded /\ caller.event = "none"
    /\ caller' = CallerIdle
    /\ UNCHANGED <<fields, relay, streams, decoders, station>>

-----------------------------------------------------------------------------
(* Commands, as StationService turns them into calls of the output.        *)

Command(place, goal) ==
    /\ caller.at = "idle"
    /\ caller' = CallerAt(place, goal)
    /\ UNCHANGED <<fields, relay, streams, decoders, station>>

\* /next and the other commands that play, whatever the station does.
PlayCommand == "play" \in Commands /\ Command("play", "play")

PauseCommand == "pause" \in Commands /\ station.status # "paused" /\ Command("pause", "pause")

StopCommand == "stop" \in Commands /\ station.status # "stopped" /\ Command("stop", "stop")

\* set_volume plays again only what plays.
VolumeCommand == "volume" \in Commands /\ out.state = "playing" /\ Command("play", "volume")

\* recover_output, and a retry that is due: both stop the output first.
RecoverCommand ==
    /\ "recover" \in Commands
    /\ station.failed \/ out.state = "error"
    /\ Command("stop", "recover")

-----------------------------------------------------------------------------
(* _relay_audio.                                                           *)

\* Mutant: the thread does not wait for a stream.
RelayPickNoStream ==
    /\ relay.at = "loop" /\ ~relayStop
    /\ relay' = [at |-> IF decoder = None THEN "write" ELSE "read",
                 stream |-> stream, decoder |-> decoder]
    /\ UNCHANGED <<fields, streams, decoders, caller, station>>

\* With no stream the thread sleeps and looks again.
RelayPick ==
    /\ relay.at = "loop" /\ ~relayStop
    /\ stream # None
    /\ relay' = [at |-> IF decoder = None THEN "write" ELSE "read",
                 stream |-> stream, decoder |-> decoder]
    /\ UNCHANGED <<fields, streams, decoders, caller, station>>

RelayLeaves ==
    /\ relay.at = "loop" /\ relayStop
    /\ relay' = RelayAt("leaving")
    /\ UNCHANGED <<fields, streams, decoders, caller, station>>

RelayEnds ==
    /\ relay.at = "leaving"
    /\ relay' = RelayIdle
    /\ UNCHANGED <<fields, streams, decoders, caller, station>>

\* A chunk, or the end of the decoder's output.
RelayRead ==
    /\ relay.at = "read"
    /\ relay' = [relay EXCEPT !.at = IF decoders[relay.decoder] = "running" THEN "write" ELSE "ended"]
    /\ UNCHANGED <<fields, streams, decoders, caller, station>>

\* Mutant: the decoder that ended is not compared with the current one.
RelayReportsAny ==
    /\ relay.at = "ended"
    /\ decoder' = None
    /\ \/ /\ decoders[relay.decoder] = "completed"
          /\ event' = "completed"
          /\ UNCHANGED out
       \/ /\ decoders[relay.decoder] # "completed"
          /\ event' = "failed"
          /\ out' = [state |-> "error", connected |-> TRUE]
    /\ relay' = RelayAt("loop")
    /\ UNCHANGED <<stream, relayStop, streams, decoders, caller, station>>

\* Mutant: only a normal end is reported.
RelayReportsSuccess ==
    /\ relay.at = "ended"
    /\ relay' = RelayAt("loop")
    /\ \/ /\ decoder = relay.decoder /\ decoders[relay.decoder] = "completed"
          /\ decoder' = None
          /\ event' = "completed"
       \/ /\ decoder # relay.decoder \/ decoders[relay.decoder] # "completed"
          /\ UNCHANGED <<decoder, event>>
    /\ UNCHANGED <<out, stream, relayStop, streams, decoders, caller, station>>

RelayReports ==
    /\ relay.at = "ended"
    /\ \/ /\ decoder = relay.decoder
          /\ decoder' = None
          /\ \/ /\ decoders[relay.decoder] = "completed"
                /\ event' = "completed"
                /\ UNCHANGED out
             \/ /\ decoders[relay.decoder] # "completed"
                /\ event' = "failed"
                /\ out' = [state |-> "error", connected |-> TRUE]
       \/ /\ decoder # relay.decoder
          /\ UNCHANGED <<out, decoder, event>>
    /\ relay' = RelayAt("loop")
    /\ UNCHANGED <<stream, relayStop, streams, decoders, caller, station>>

RelayWrites ==
    /\ relay.at = "write" /\ streams[relay.stream] = "running"
    /\ relay' = RelayAt("loop")
    /\ UNCHANGED <<fields, streams, decoders, caller, station>>

\* BrokenPipeError.
RelayPipeBreaks ==
    /\ relay.at = "write" /\ streams[relay.stream] = "exited"
    /\ relay' = [relay EXCEPT !.at = "broken"]
    /\ UNCHANGED <<fields, streams, decoders, caller, station>>

\* It is reported, whatever was called in the meantime, and whichever stream it
\* was, the current one is forgotten.
RelayReportsBreak ==
    /\ relay.at = "broken"
    /\ event' = "failed"
    /\ out' = [state |-> "error", connected |-> FALSE]
    /\ stream' = None
    /\ relay' = RelayAt("loop")
    /\ UNCHANGED <<decoder, relayStop, streams, decoders, caller, station>>

\* Writing to a closed file raises ValueError, which nobody catches.
RelayDies ==
    /\ relay.at = "write" /\ streams[relay.stream] = "closed"
    /\ relay' = RelayIdle
    /\ UNCHANGED <<fields, streams, decoders, caller, station>>

-----------------------------------------------------------------------------
(* The processes, which also Icecast or the network can end.               *)

DecoderExits(d) ==
    /\ decoders[d] = "running"
    /\ \E result \in {"completed", "failed"} : decoders' = [decoders EXCEPT ![d] = result]
    /\ UNCHANGED <<fields, relay, streams, caller, station>>

StreamExits(s) ==
    /\ streams[s] = "running"
    /\ streams' = [streams EXCEPT ![s] = "exited"]
    /\ UNCHANGED <<fields, relay, decoders, caller, station>>

Init ==
    /\ out = [state |-> "stopped", connected |-> FALSE]
    /\ stream = None /\ decoder = None /\ event = "none" /\ relayStop = FALSE
    /\ relay = RelayIdle
    /\ streams = [s \in Streams |-> "closed"]
    /\ decoders = [d \in Decoders |-> "failed"]
    /\ caller = CallerIdle
    /\ station = [status |-> "stopped", failed |-> FALSE]

Playing ==
    \/ PlayOnStream \/ PlayOnNewStream \/ PlayCannotBegin
    \/ Replace
    \/ LaunchDecoder \/ LaunchDecoderFails
    \/ Install
    \/ Settle

Stopping == PauseDecoder \/ PauseEnd \/ StopRelay \/ StopDecoder \/ StopPopStream \/ StopStream

Consuming == ConsumeStreamEnd \/ ConsumeFailure \/ ConsumeCompletion \/ ConsumeNothing

Caller == Playing \/ Stopping \/ Consuming

Relay ==
    \/ RelayPick \/ RelayRead \/ RelayReports
    \/ RelayWrites \/ RelayPipeBreaks \/ RelayReportsBreak \/ RelayDies
    \/ RelayLeaves \/ RelayEnds

Next ==
    \/ PlayCommand \/ PauseCommand \/ StopCommand \/ VolumeCommand \/ RecoverCommand
    \/ TakeEvent
    \/ Caller
    \/ Relay
    \/ \E d \in Decoders : DecoderExits(d)
    \/ \E s \in Streams : StreamExits(s)

Spec == Init /\ [][Next]_vars

\* Neither pipe has a timeout: the relay waits for as long as a decoder that runs
\* sends nothing, or a stream that runs takes nothing.
Blocked ==
    \/ relay.at = "read" /\ decoders[relay.decoder] = "running"
    \/ relay.at = "write" /\ streams[relay.stream] = "running"

\* The relay thread takes the steps that wait for no process.  Nothing is assumed
\* of the caller, which may be held up behind the relay, closing a stdin.
FairSpec == Spec /\ WF_vars(~Blocked /\ Relay)

-----------------------------------------------------------------------------
(* Properties.                                                             *)

\* Every field stays within its type, and what a thread holds is what the
\* place it is at needs.
TypeOK ==
    /\ out \in [state : {"idle", "playing", "paused", "stopped", "error"}, connected : BOOLEAN]
    /\ stream \in Streams \cup {None}
    /\ decoder \in Decoders \cup {None}
    /\ event \in Events
    /\ relayStop \in BOOLEAN
    /\ relay \in [at : {"none", "loop", "read", "write", "ended", "broken", "leaving"},
                  stream : Streams \cup {None}, decoder : Decoders \cup {None}]
    /\ relay.at \in {"read", "ended"} => relay.decoder # None
    /\ relay.at \in {"read", "write", "ended", "broken"} => relay.stream # None
    /\ streams \in [Streams -> StreamStates]
    /\ decoders \in [Decoders -> DecoderStates]
    /\ caller \in [at : {"idle", "play", "replace", "launch", "install", "settle", "pause", "paused",
                         "stop", "stop_decoder", "stop_pop", "stop_stream", "consume"},
                   goal : {"none", "play", "pause", "stop", "volume", "recover"},
                   stream : Streams \cup {None}, decoder : Decoders \cup {None}, event : Events]
    /\ caller.at = "install" => caller.decoder # None
    /\ station \in [status : {"idle", "playing", "paused", "stopped"}, failed : BOOLEAN]

\* The supervisor advances on a completion, so the relay reports one only for
\* the episode that is current and has been played to its end: never for a
\* decoder that a command has replaced or terminated in the meantime.
CompletionIsGenuine ==
    [][event' = "completed" /\ event # "completed"
       => decoder # None /\ decoders[decoder] = "completed"]_vars

\* A station marked playing, between commands, that has no decoder any more or no
\* stream to play it on, has an event waiting to be consumed or shows an error:
\* no race of relay and commands loses the end of a process.  The station is not
\* thereby audible: a relay thread that has ended, or is about to, is not missed.
LossIsReported ==
    caller.at = "idle" /\ station.status = "playing" /\ (decoder = None \/ stream = None)
    => event # "none" \/ out.state = "error"

\* The end of the current decoder is noticed by the relay, unless the decoder
\* is replaced, the stream is lost, or there is no relay thread any more;
\* provided that no process holds the relay for ever.
EndIsNoticed ==
    []<>~Blocked =>
        \A d \in Decoders :
            (decoder = d /\ decoders[d] \in {"completed", "failed"})
            ~> (decoder # d \/ stream = None \/ relay.at = "none")

-----------------------------------------------------------------------------
(* What the documentation says and the code does not do.                   *)

\* SPEC.md:336, after an output failure a manual command such as /next "may
\* also retry playback": when such a command has got a decoder running on a
\* stream, the output says playing and the station follows.
ManualRetryPlays ==
    caller.at = "settle" /\ decoder # None /\ stream # None => out.state = "playing"
=============================================================================
