------------------------- MODULE PlaybackSupervisor -------------------------
(***************************************************************************)
(* What the playback supervisor promises, as SPEC.md 8 and 9.1 describe    *)
(* playback_supervisor.state and retry_attempts: automatic retries are     *)
(* bounded, an attempt is only made after it was scheduled, an exhausted   *)
(* supervisor never schedules another one, and the count starts again only *)
(* when playback has started, the station was stopped, the operator        *)
(* recovered it or the program restarted.                                  *)
(***************************************************************************)
EXTENDS Naturals

CONSTANT MaxAttempts

VARIABLES mode, attempts

Modes == {"idle", "watching", "retry_scheduled", "exhausted", "blocked"}

\* A program that starts finds the station playing, with an error, or neither.
Init ==
    /\ mode \in {"idle", "watching", IF MaxAttempts = 0 THEN "exhausted" ELSE "blocked"}
    /\ attempts = 0

\* The slate is clean, whatever it was.
Settle ==
    /\ mode' \in {"idle", "watching", "blocked"}
    /\ attempts' = 0

\* Nothing to play, or paused: the count is kept.
Rest ==
    /\ mode' = "idle"
    /\ UNCHANGED attempts

\* A failure while attempts remain.
Arm ==
    /\ attempts < MaxAttempts
    /\ mode' = "retry_scheduled"
    /\ UNCHANGED attempts

\* A failure when none remains.
GiveUp ==
    /\ attempts = MaxAttempts
    /\ mode' = "exhausted"
    /\ UNCHANGED attempts

\* A scheduled retry that does not start playback.
Attempt ==
    /\ mode = "retry_scheduled"
    /\ attempts < MaxAttempts
    /\ attempts' = attempts + 1
    /\ mode' \in IF attempts' < MaxAttempts
                 THEN {"idle", "retry_scheduled", "blocked"}
                 ELSE {"idle", "exhausted"}

Next == Settle \/ Rest \/ Arm \/ GiveUp \/ Attempt

Spec == Init /\ [][Next]_<<mode, attempts>>
=============================================================================
