----------------------------- MODULE LocalAudio -----------------------------
(***************************************************************************)
(* The subprocess-backed output of src/potcast/outputs/local_audio.py, as  *)
(* operators on the record of its fields.  IcecastOutputBackend runs the   *)
(* same code when it is given a launcher.                                  *)
(*                                                                         *)
(* A backend o has the fields                                              *)
(*    state, ident, volume, error   the OutputStatus it reports            *)
(*    episode   _current_episode                                           *)
(*    proc      _process: none, or a player that runs or has exited        *)
(*    strays    players still running that _process no longer refers to;   *)
(*              this is the world's state, the program does not know it    *)
(* `connected` is left out: it is TRUE exactly when state is "playing".    *)
(***************************************************************************)
EXTENDS Integers

CONSTANTS
    NoEpisode,     \* None, for an episode or its identity
    NoError        \* None, for an OutputError

OutputStates == {"idle", "playing", "paused", "stopped", "error"}

\* _process and what poll() says of it: no return code yet, zero, another one.
Processes == {"none", "running", "completed", "failed"}

OutputErrors == {"start_failed", "process_failed"}

Backends(Episodes) ==
    [state : OutputStates,
     ident : Episodes \cup {NoEpisode},
     volume : 0 .. 100,
     error : OutputErrors \cup {NoError},
     episode : Episodes \cup {NoEpisode},
     proc : Processes,
     strays : Nat]

NewBackend(volume) ==
    [state |-> "stopped", ident |-> NoEpisode, volume |-> volume, error |-> NoError,
     episode |-> NoEpisode, proc |-> "none", strays |-> 0]

-----------------------------------------------------------------------------

\* _terminate_process drops the process whatever happens.  A player that has
\* exited is gone.  A running one may exit in time; terminate() may raise
\* OSError, which is caught and whose error status every caller overwrites; or
\* wait() may raise TimeoutExpired, which nobody catches.  In the last two
\* cases the player is left running.
Terminated(o, end) ==
    [o EXCEPT !.proc = "none",
              !.strays = IF o.proc = "running" /\ end # "exits" THEN @ + 1 ELSE @]

\* The exception leaves the backend in the middle of the call.
Raises(o, end) == o.proc = "running" /\ end = "hangs"

Paused(o) == [o EXCEPT !.proc = "none", !.state = "paused", !.error = NoError]

Stopped(o) ==
    [o EXCEPT !.proc = "none", !.state = "stopped", !.ident = NoEpisode,
              !.episode = NoEpisode, !.error = NoError]

\* play_episode once the previous process is dropped, when the launch succeeds
\* and when it raises OSError.
Playing(o, episode) ==
    [o EXCEPT !.proc = "running", !.state = "playing", !.ident = episode,
              !.episode = episode, !.error = NoError]

StartFailed(o, episode) ==
    [o EXCEPT !.proc = "none", !.state = "error", !.ident = episode,
              !.episode = episode, !.error = "start_failed"]

Played(o, episode, launched) ==
    IF launched THEN Playing(o, episode) ELSE StartFailed(o, episode)

\* set_volume restarts a playing episode, because mpv takes its volume on the
\* command line; the new volume and the cleared error stay if it raises.
Restarts(o) == o.state = "playing" /\ o.episode # NoEpisode

WithVolume(o, volume) == [o EXCEPT !.volume = volume, !.error = NoError]

-----------------------------------------------------------------------------

\* consume_playback_event: an exit is reported once.
PlaybackEvent(o) == IF o.proc \in {"completed", "failed"} THEN o.proc ELSE "none"

Consumed(o) ==
    CASE o.proc = "completed" ->
            [o EXCEPT !.proc = "none", !.state = "idle", !.error = NoError]
      [] o.proc = "failed" ->
            [o EXCEPT !.proc = "none", !.state = "error", !.error = "process_failed"]
      [] OTHER -> o
=============================================================================
