--------------------------- MODULE IcecastProofs ---------------------------
(***************************************************************************)
(* The safety theorems about Icecast, for any number of processes, any     *)
(* commands, and decoders that may or may not survive kill().              *)
(***************************************************************************)
EXTENDS Icecast, NumberFacts

\* The station has something to play and somewhere to play it, or the supervisor
\* can learn that it has not.
Alive == (decoder # None /\ stream # None) \/ event # "none" \/ out.state = "error"

\* LossIsReported is not inductive.  The event that kept the station alive
\* may be in the hands of the supervisor, which has taken it; a decoder that is
\* being started needs a stream, which the relay may lose meanwhile; and what
\* the service is about to write is decided by the status of the output.
IcecastInv ==
    /\ TypeOK
    /\ LossIsReported
    /\ caller.at = "consume" => caller.event # "none" \/ Alive
    /\ caller.at \in {"replace", "launch", "install"} => stream # None \/ out.state = "error"
    /\ caller.at = "settle" => Alive

\* The type of each variable.
OutputStates == [state : {"idle", "playing", "paused", "stopped", "error"}, connected : BOOLEAN]

RelayPlaces == {"none", "loop", "read", "write", "ended", "broken", "leaving"}

RelayStates ==
    [at : RelayPlaces, stream : Streams \cup {None}, decoder : Decoders \cup {None}]

CallerPlaces ==
    {"idle", "play", "replace", "launch", "install", "settle", "pause", "paused",
     "stop", "stop_decoder", "stop_pop", "stop_stream", "consume"}

Goals == {"none", "play", "pause", "stop", "volume", "recover"}

CallerStates ==
    [at : CallerPlaces, goal : Goals, stream : Streams \cup {None},
     decoder : Decoders \cup {None}, event : Events]

StationStates == [status : {"idle", "playing", "paused", "stopped"}, failed : BOOLEAN]

\* The two threads hold what they need.
RelayTyped ==
    /\ relay \in RelayStates
    /\ relay.at \in {"read", "ended"} => relay.decoder # None
    /\ relay.at \in {"read", "write", "ended", "broken"} => relay.stream # None

CallerTyped == caller \in CallerStates /\ (caller.at = "install" => caller.decoder # None)

FieldsTyped ==
    /\ out \in OutputStates
    /\ stream \in Streams \cup {None}
    /\ decoder \in Decoders \cup {None}
    /\ event \in Events
    /\ relayStop \in BOOLEAN

ProcessesTyped == streams \in [Streams -> StreamStates] /\ decoders \in [Decoders -> DecoderStates]

Typed ==
    /\ FieldsTyped /\ RelayTyped /\ CallerTyped /\ ProcessesTyped
    /\ station \in StationStates

-----------------------------------------------------------------------------

LEMMA TypesOf ==
    /\ TypeOK <=> Typed
    /\ TypeOK' <=> Typed'
BY DEF TypeOK, Typed, FieldsTyped, RelayTyped, CallerTyped, ProcessesTyped, OutputStates, RelayStates,
       RelayPlaces, CallerStates, CallerPlaces, Goals, StationStates

\* A number that is not in use can be taken.
LEMMA LeastIn ==
    ASSUME NEW S \in SUBSET Nat, S # {}
    PROVE  Least(S) \in S
<1>1. \E x \in S : \A y \in S : x <= y
  BY MinIn
<1> QED
  BY <1>1 DEF Least

LEMMA RecordsTyped ==
    /\ [state |-> "error", connected |-> TRUE] \in OutputStates
    /\ [state |-> "error", connected |-> FALSE] \in OutputStates
    /\ [state |-> "idle", connected |-> TRUE] \in OutputStates
    /\ [status |-> "idle", failed |-> TRUE] \in StationStates
    /\ [status |-> "stopped", failed |-> FALSE] \in StationStates
BY DEF OutputStates, StationStates

LEMMA CallerAtTyped ==
    ASSUME NEW place \in CallerPlaces, NEW goal \in Goals
    PROVE  /\ CallerAt(place, goal) \in CallerStates
           /\ CallerAt(place, goal).at = place /\ CallerAt(place, goal).event = "none"
BY DEF CallerAt, CallerIdle, CallerStates, CallerPlaces, Events

-----------------------------------------------------------------------------
(* The types.                                                              *)

LEMMA PlayingTyped ==
    ASSUME TypeOK, Playing
    PROVE  TypeOK'
<1> USE DEF None, Typed
<1>1. Typed
  BY TypesOf
<1>2. ASSUME PlayFails PROVE TypeOK'
  <2>1. out' \in OutputStates
    BY <1>2 DEF PlayFails, OutputStates
  <2>2. CallerTyped'
    <3>1. caller.goal \in Goals
      BY <1>1 DEF CallerTyped, CallerStates
    <3>2. caller' \in CallerStates /\ caller'.at = "settle"
      BY <1>2, <3>1, CallerAtTyped DEF PlayFails, CallerPlaces
    <3> QED
      BY <3>2 DEF CallerTyped
  <2> QED
    BY <1>1, <1>2, <2>1, <2>2, TypesOf DEF PlayFails, FieldsTyped, RelayTyped, ProcessesTyped
<1>3. ASSUME PopDecoder("replace"), stream' \in Streams, RelayTyped', ProcessesTyped',
             relayStop' \in BOOLEAN
      PROVE  TypeOK'
  <2>1. CallerTyped'
    BY <1>1, <1>3 DEF PopDecoder, CallerTyped, FieldsTyped, CallerStates, CallerPlaces
  <2> QED
    BY <1>1, <1>3, <2>1, TypesOf DEF PopDecoder, FieldsTyped, Events
<1>4. CASE PlayOnStream
  BY <1>1, <1>3, <1>4 DEF PlayOnStream, StreamRuns, FieldsTyped, RelayTyped, ProcessesTyped, PopDecoder
<1>5. CASE PlayOnNewStream
  <2>1. PICK s \in Streams : stream' = s /\ streams' = [streams EXCEPT ![s] = "running"]
    <3>1. FreeStreams \in SUBSET Nat /\ FreeStreams \subseteq Streams
      BY IcecastAssumption DEF FreeStreams
    <3>2. Least(FreeStreams) \in Streams
      BY <1>5, <3>1, LeastIn DEF PlayOnNewStream
    <3> QED
      BY <1>5, <3>2 DEF PlayOnNewStream
  <2>2. ProcessesTyped'
    BY <1>1, <1>5, <2>1 DEF PlayOnNewStream, PopDecoder, ProcessesTyped, StreamStates
  <2>3. RelayTyped'
    BY <1>1, <1>5 DEF PlayOnNewStream, RelayTyped, RelayAt, RelayStates, RelayPlaces
  <2> QED
    BY <1>3, <1>5, <2>1, <2>2, <2>3 DEF PlayOnNewStream
<1>6. CASE PlayCannotBegin
  BY <1>2, <1>6 DEF PlayCannotBegin
<1>7. CASE Replace
  <2>1. out' \in OutputStates /\ decoders' \in [Decoders -> DecoderStates]
    BY <1>1, <1>7 DEF Replace, EndOldDecoder, FieldsTyped, ProcessesTyped, OutputStates, DecoderStates
  <2>2. CallerTyped'
    BY <1>1, <1>7 DEF Replace, EndOldDecoder, CallerTyped, CallerStates, CallerPlaces
  <2> QED
    BY <1>1, <1>7, <2>1, <2>2, TypesOf DEF Replace, FieldsTyped, RelayTyped, ProcessesTyped
<1>8. CASE LaunchDecoder
  <2>1. PICK d \in Decoders :
           /\ decoders' = [decoders EXCEPT ![d] = "running"]
           /\ caller' = [caller EXCEPT !.at = "install", !.decoder = d]
    <3>1. FreeDecoders \in SUBSET Nat /\ FreeDecoders \subseteq Decoders
      BY IcecastAssumption DEF FreeDecoders
    <3>2. Least(FreeDecoders) \in Decoders
      BY <1>8, <3>1, LeastIn DEF LaunchDecoder
    <3> QED
      BY <1>8, <3>2 DEF LaunchDecoder
  <2>2. d # 0
    BY IcecastAssumption
  <2>3. CallerTyped'
    BY <1>1, <2>1, <2>2 DEF CallerTyped, CallerStates, CallerPlaces
  <2> QED
    BY <1>1, <1>8, <2>1, <2>3, TypesOf
    DEF LaunchDecoder, fields, FieldsTyped, RelayTyped, ProcessesTyped, DecoderStates
<1>9. CASE LaunchDecoderFails
  BY <1>2, <1>9 DEF LaunchDecoderFails
<1>10. CASE Install
  <2>1. caller.decoder \in Decoders /\ caller.goal \in Goals
    BY <1>1, <1>10 DEF Install, CallerTyped, CallerStates
  <2>2. CallerTyped'
    BY <1>10, <2>1, CallerAtTyped DEF Install, CallerTyped, CallerPlaces
  <2>3. FieldsTyped'
    BY <1>1, <1>10, <2>1 DEF Install, FieldsTyped, OutputStates, Events
  <2> QED
    BY <1>1, <1>10, <2>2, <2>3, TypesOf DEF Install, RelayTyped, ProcessesTyped
<1>11. CASE Settle
  <2>1. station' \in StationStates
    BY <1>1, <1>11 DEF Settle, StationStates
  <2>2. CallerTyped'
    BY <1>11 DEF Settle, CallerTyped, CallerIdle, CallerStates, CallerPlaces, Goals, Events
  <2> QED
    BY <1>1, <1>11, <2>1, <2>2, TypesOf DEF Settle, fields, FieldsTyped, RelayTyped, ProcessesTyped
<1> QED
  BY <1>4, <1>5, <1>6, <1>7, <1>8, <1>9, <1>10, <1>11 DEF Playing

LEMMA StoppingTyped ==
    ASSUME TypeOK, Stopping
    PROVE  TypeOK'
<1> USE DEF None, Typed
<1>1. Typed
  BY TypesOf
<1>2. CASE PauseDecoder \/ StopRelay \/ StopPopStream
  <2>1. CallerTyped' /\ FieldsTyped'
    BY <1>1, <1>2 DEF PauseDecoder, StopRelay, StopPopStream, CallerTyped, CallerStates, CallerPlaces,
                      FieldsTyped
  <2> QED
    BY <1>1, <1>2, <2>1, TypesOf DEF PauseDecoder, StopRelay, StopPopStream, RelayTyped, ProcessesTyped
<1>3. CASE PauseEnd
  <2>1. CallerTyped'
    BY <1>3 DEF PauseEnd, CallerTyped, CallerIdle, CallerStates, CallerPlaces, Goals, Events
  <2>2. FieldsTyped' /\ station' \in StationStates
    BY <1>1, <1>3 DEF PauseEnd, FieldsTyped, OutputStates, StationStates
  <2>3. ProcessesTyped'
    BY <1>1, <1>3 DEF PauseEnd, ProcessesTyped, DecoderStates
  <2> QED
    BY <1>1, <1>3, <2>1, <2>2, <2>3, TypesOf DEF PauseEnd, RelayTyped
<1>4. CASE StopDecoder
  <2>1. out' \in OutputStates /\ decoders' \in [Decoders -> DecoderStates]
    BY <1>1, <1>4 DEF StopDecoder, EndOldDecoder, FieldsTyped, ProcessesTyped, OutputStates, DecoderStates
  <2>2. CallerTyped'
    BY <1>1, <1>4 DEF StopDecoder, EndOldDecoder, CallerTyped, CallerStates, CallerPlaces
  <2> QED
    BY <1>1, <1>4, <2>1, <2>2, TypesOf DEF StopDecoder, FieldsTyped, RelayTyped, ProcessesTyped
<1>5. CASE StopStream
  <2>1. CallerTyped'
    <3>1. CallerAt("play", "play") \in CallerStates /\ CallerAt("play", "play").at = "play"
      BY CallerAtTyped DEF CallerPlaces, Goals
    <3>2. CallerIdle \in CallerStates /\ CallerIdle.at = "idle"
      BY DEF CallerIdle, CallerStates, CallerPlaces, Goals, Events
    <3> QED
      BY <1>5, <3>1, <3>2 DEF StopStream, CallerTyped
  <2>2. FieldsTyped'
    BY <1>1, <1>5 DEF StopStream, FieldsTyped, OutputStates
  <2>4. station' \in StationStates
    BY <1>1, <1>5, RecordsTyped DEF StopStream
  <2>3. ProcessesTyped'
    BY <1>1, <1>5 DEF StopStream, ProcessesTyped, StreamStates
  <2> QED
    BY <1>1, <1>5, <2>1, <2>2, <2>3, <2>4, TypesOf DEF StopStream, RelayTyped
<1> QED
  BY <1>2, <1>3, <1>4, <1>5 DEF Stopping

\* The supervisor's look at the output, and the operator's commands.
LEMMA WatchingTyped ==
    ASSUME TypeOK,
           \/ TakeEvent \/ Consuming
           \/ PlayCommand \/ PauseCommand \/ StopCommand \/ VolumeCommand \/ RecoverCommand
    PROVE  TypeOK'
<1> USE DEF None, Typed
<1>1. Typed
  BY TypesOf
<1>2. CASE TakeEvent
  BY <1>1, <1>2, TypesOf DEF TakeEvent, CallerIdle, CallerTyped, CallerStates, CallerPlaces, Goals,
                            FieldsTyped, Events, RelayTyped, ProcessesTyped
<1>3. CASE Consuming
  <2>1. CallerTyped'
    <3>1. CallerAt("play", "play") \in CallerStates /\ CallerAt("play", "play").at = "play"
      BY CallerAtTyped DEF CallerPlaces, Goals
    <3>2. CallerIdle \in CallerStates /\ CallerIdle.at = "idle"
      BY DEF CallerIdle, CallerStates, CallerPlaces, Goals, Events
    <3> QED
      BY <1>3, <3>1, <3>2
      DEF Consuming, ConsumeStreamEnd, ConsumeFailure, ConsumeCompletion, ConsumeNothing, CallerTyped
  <2>2. FieldsTyped'
    <3>1. \/ out' = out \/ out' = [state |-> "error", connected |-> FALSE]
          \/ out' = [state |-> "idle", connected |-> TRUE]
      BY <1>3
      DEF Consuming, ConsumeStreamEnd, ConsumeFailure, ConsumeCompletion, ConsumeNothing, fields
    <3>2. out' \in OutputStates
      BY <1>1, <3>1, RecordsTyped DEF FieldsTyped
    <3> QED
      BY <1>1, <1>3, <3>2
      DEF Consuming, ConsumeStreamEnd, ConsumeFailure, ConsumeCompletion, ConsumeNothing, fields,
          FieldsTyped
  <2>3. station' \in StationStates
    BY <1>1, <1>3, RecordsTyped
    DEF Consuming, ConsumeStreamEnd, ConsumeFailure, ConsumeCompletion, ConsumeNothing, fields
  <2> QED
    BY <1>1, <1>3, <2>1, <2>2, <2>3, TypesOf
    DEF Consuming, ConsumeStreamEnd, ConsumeFailure, ConsumeCompletion, ConsumeNothing, RelayTyped,
        ProcessesTyped
<1>4. ASSUME NEW place \in {"play", "pause", "stop"},
             NEW goal \in Goals, Command(place, goal)
      PROVE  TypeOK'
  <2>1. CallerTyped'
    BY <1>4, CallerAtTyped DEF Command, CallerTyped, CallerPlaces
  <2> QED
    BY <1>1, <1>4, <2>1, TypesOf DEF Command, fields, FieldsTyped, RelayTyped, ProcessesTyped
<1> QED
  BY <1>2, <1>3, <1>4
  DEF PlayCommand, PauseCommand, StopCommand, VolumeCommand, RecoverCommand, Goals

LEMMA RelayStepTyped ==
    ASSUME TypeOK, Relay
    PROVE  TypeOK'
<1> USE DEF None, Typed
<1>1. Typed
  BY TypesOf
<1>2. RelayTyped'
  BY <1>1 DEF Relay, RelayPick, RelayRead, RelayReports, RelayWrites, RelayPipeBreaks, RelayReportsBreak,
              RelayDies, RelayLeaves, RelayEnds, RelayAt, RelayIdle, RelayTyped, RelayStates, RelayPlaces,
              FieldsTyped
<1>3. FieldsTyped'
  <2>1. CASE RelayReports \/ RelayReportsBreak
    <3>1. out' = out \/ out' = [state |-> "error", connected |-> TRUE]
          \/ out' = [state |-> "error", connected |-> FALSE]
      BY <2>1 DEF RelayReports, RelayReportsBreak
    <3>2. out' \in OutputStates
      BY <1>1, <3>1, RecordsTyped DEF FieldsTyped
    <3>3. event' \in Events /\ decoder' \in {None, decoder} /\ stream' \in {None, stream}
          /\ relayStop' = relayStop
      BY <1>1, <2>1 DEF RelayReports, RelayReportsBreak, FieldsTyped, Events
    <3> QED
      BY <1>1, <3>2, <3>3 DEF FieldsTyped
  <2>2. CASE Relay /\ ~RelayReports /\ ~RelayReportsBreak
    BY <1>1, <2>2 DEF Relay, RelayPick, RelayRead, RelayWrites, RelayPipeBreaks, RelayDies, RelayLeaves,
                      RelayEnds, fields, FieldsTyped
  <2> QED
    BY <2>1, <2>2
<1>4. UNCHANGED <<streams, decoders, caller, station>>
  BY DEF Relay, RelayPick, RelayRead, RelayReports, RelayWrites, RelayPipeBreaks, RelayReportsBreak,
         RelayDies, RelayLeaves, RelayEnds
<1> QED
  BY <1>1, <1>2, <1>3, <1>4, TypesOf DEF CallerTyped, ProcessesTyped

LEMMA ProcessTyped ==
    ASSUME TypeOK,
           (\E d \in Decoders : DecoderExits(d)) \/ (\E s \in Streams : StreamExits(s))
    PROVE  TypeOK'
<1> USE DEF None, Typed
<1>1. Typed
  BY TypesOf
<1>2. ProcessesTyped'
  BY <1>1 DEF DecoderExits, StreamExits, ProcessesTyped, DecoderStates, StreamStates
<1> QED
  BY <1>1, <1>2, TypesOf DEF DecoderExits, StreamExits, fields, FieldsTyped, RelayTyped, CallerTyped

-----------------------------------------------------------------------------
(* No loss goes unreported.                                                 *)

\* What the relay does to the fields leaves the station alive, and takes a
\* stream away only with an error.
LEMMA RelayKeepsAlive ==
    ASSUME Relay
    PROVE  /\ Alive => Alive'
           /\ stream # None \/ out.state = "error" => stream' # None \/ out'.state = "error"
           /\ UNCHANGED <<caller, station>>
BY DEF Relay, RelayPick, RelayRead, RelayReports, RelayWrites, RelayPipeBreaks, RelayReportsBreak,
       RelayDies, RelayLeaves, RelayEnds, fields, Alive

LEMMA RelayStepSound ==
    ASSUME IcecastInv, Relay
    PROVE  IcecastInv'
<1>1. TypeOK'
  BY RelayStepTyped DEF IcecastInv
<1>2. LossIsReported'
  BY RelayKeepsAlive DEF IcecastInv, LossIsReported, Alive
<1> QED
  BY <1>1, <1>2, RelayKeepsAlive DEF IcecastInv

LEMMA PlayingSound ==
    ASSUME IcecastInv, Playing
    PROVE  IcecastInv'
<1>0. TypeOK /\ TypeOK' /\ CallerTyped /\ FieldsTyped
  BY PlayingTyped, TypesOf DEF IcecastInv, Typed
<1>1. ASSUME PlayFails PROVE IcecastInv'
  BY <1>0, <1>1 DEF PlayFails, CallerAt, CallerIdle, IcecastInv, LossIsReported, Alive
<1>2. CASE PlayOnStream \/ PlayOnNewStream
  <2>1. caller'.at = "replace" /\ stream' # None
    <3>1. caller'.at = "replace"
      BY <1>0, <1>2 DEF PlayOnStream, PlayOnNewStream, PopDecoder, CallerTyped, CallerStates
    <3>2. CASE PlayOnStream
      BY <3>1, <3>2 DEF PlayOnStream, StreamRuns
    <3>3. CASE PlayOnNewStream
      <4>1. FreeStreams \in SUBSET Nat /\ FreeStreams \subseteq Streams
        BY IcecastAssumption DEF FreeStreams
      <4>2. Least(FreeStreams) \in Streams
        BY <3>3, <4>1, LeastIn DEF PlayOnNewStream
      <4> QED
        BY <3>1, <3>3, <4>2, IcecastAssumption DEF PlayOnNewStream
    <3> QED
      BY <1>2, <3>2, <3>3
  <2> QED
    BY <1>0, <2>1 DEF IcecastInv, LossIsReported
<1>3. CASE Replace
  <2>1. caller'.at = "launch" /\ stream' = stream /\ (out.state = "error" => out'.state = "error")
    BY <1>0, <1>3 DEF Replace, EndOldDecoder, CallerTyped, CallerStates, FieldsTyped, OutputStates
  <2> QED
    BY <1>0, <1>3, <2>1 DEF Replace, IcecastInv, LossIsReported
<1>4. CASE LaunchDecoder
  <2>1. caller'.at = "install" /\ stream' = stream /\ out' = out
    BY <1>0, <1>4 DEF LaunchDecoder, fields, CallerTyped, CallerStates
  <2> QED
    BY <1>0, <1>4, <2>1 DEF LaunchDecoder, IcecastInv, LossIsReported
<1>5. CASE PlayCannotBegin \/ LaunchDecoderFails
  BY <1>1, <1>5 DEF PlayCannotBegin, LaunchDecoderFails
<1>6. CASE Install
  <2>1. decoder' # None /\ stream' = stream /\ caller'.at = "settle"
        /\ (out.state = "error" => out'.state = "error")
    BY <1>0, <1>6 DEF Install, CallerTyped, CallerAt, CallerIdle
  <2> QED
    BY <1>0, <1>6, <2>1 DEF Install, IcecastInv, LossIsReported, Alive
<1>7. CASE Settle
  BY <1>0, <1>7 DEF Settle, fields, CallerIdle, IcecastInv, LossIsReported, Alive
<1> QED
  BY <1>2, <1>3, <1>4, <1>5, <1>6, <1>7 DEF Playing

LEMMA StoppingSound ==
    ASSUME IcecastInv, Stopping
    PROVE  IcecastInv'
<1>0. TypeOK' /\ CallerTyped
  BY StoppingTyped, TypesOf DEF IcecastInv, Typed
<1>1. CASE PauseDecoder \/ StopRelay \/ StopDecoder \/ StopPopStream
  <2>1. caller'.at \in {"paused", "stop_decoder", "stop_pop", "stop_stream"}
    BY <1>0, <1>1 DEF PauseDecoder, StopRelay, StopDecoder, EndOldDecoder, StopPopStream,
                      CallerTyped, CallerStates
  <2> QED
    BY <1>0, <2>1 DEF IcecastInv, LossIsReported
<1>2. CASE PauseEnd
  <2>1. station \in StationStates
    BY TypesOf DEF IcecastInv, Typed
  <2>2. caller'.at = "idle" /\ station'.status = "paused"
    BY <1>2, <2>1 DEF PauseEnd, CallerIdle, StationStates
  <2> QED
    BY <1>0, <2>2 DEF IcecastInv, LossIsReported
<1>3. CASE StopStream
  <2>1. CASE caller' = CallerAt("play", "play")
    BY <1>0, <2>1 DEF CallerAt, CallerIdle, IcecastInv, LossIsReported
  <2>2. CASE caller' = CallerIdle /\ station' = [status |-> "stopped", failed |-> FALSE]
    BY <1>0, <2>2 DEF CallerIdle, IcecastInv, LossIsReported
  <2> QED
    BY <1>3, <2>1, <2>2 DEF StopStream
<1> QED
  BY <1>1, <1>2, <1>3 DEF Stopping

LEMMA WatchingSound ==
    ASSUME IcecastInv,
           \/ TakeEvent \/ Consuming
           \/ PlayCommand \/ PauseCommand \/ StopCommand \/ VolumeCommand \/ RecoverCommand
    PROVE  IcecastInv'
<1>0. TypeOK'
  BY WatchingTyped DEF IcecastInv
<1>1. CASE TakeEvent
  <2>1. /\ caller'.at = "consume" /\ caller'.event = event /\ event' = "none"
        /\ UNCHANGED <<out, stream, decoder, station>>
    BY <1>1 DEF TakeEvent, CallerIdle
  <2>2. Alive
    BY <1>1 DEF TakeEvent, IcecastInv, LossIsReported, Alive
  <2> QED
    BY <1>0, <2>1, <2>2 DEF IcecastInv, LossIsReported, Alive
<1>2. CASE ConsumeStreamEnd \/ ConsumeFailure
  <2>1. caller'.at = "idle" /\ station'.status = "idle"
    BY <1>2 DEF ConsumeStreamEnd, ConsumeFailure, CallerIdle
  <2> QED
    BY <1>0, <2>1 DEF IcecastInv, LossIsReported
<1>3. CASE ConsumeCompletion
  <2>1. caller'.at = "play"
    BY <1>3 DEF ConsumeCompletion, CallerAt, CallerIdle
  <2> QED
    BY <1>0, <2>1 DEF IcecastInv, LossIsReported
<1>4. CASE ConsumeNothing
  BY <1>0, <1>4 DEF ConsumeNothing, fields, CallerIdle, IcecastInv, LossIsReported, Alive
<1>5. ASSUME NEW place \in {"play", "pause", "stop"}, NEW goal, Command(place, goal)
      PROVE  IcecastInv'
  <2>1. caller'.at \in {"play", "pause", "stop"}
    BY <1>5 DEF Command, CallerAt, CallerIdle
  <2> QED
    BY <1>0, <2>1 DEF IcecastInv, LossIsReported
<1> QED
  BY <1>1, <1>2, <1>3, <1>4, <1>5
  DEF Consuming, PlayCommand, PauseCommand, StopCommand, VolumeCommand, RecoverCommand

LEMMA ProcessSound ==
    ASSUME IcecastInv,
           (\E d \in Decoders : DecoderExits(d)) \/ (\E s \in Streams : StreamExits(s))
    PROVE  IcecastInv'
<1>1. TypeOK'
  BY ProcessTyped DEF IcecastInv
<1>2. UNCHANGED <<fields, caller, station>>
  BY DEF DecoderExits, StreamExits
<1> QED
  BY <1>1, <1>2 DEF fields, IcecastInv, LossIsReported, Alive

-----------------------------------------------------------------------------

LEMMA InitIcecast == Init => IcecastInv
<1> SUFFICES ASSUME Init PROVE IcecastInv
  OBVIOUS
<1>1. TypeOK
  BY DEF Init, TypeOK, RelayIdle, CallerIdle, Events, StreamStates, DecoderStates, None
<1>2. caller.at = "idle" /\ station.status = "stopped"
  BY DEF Init, CallerIdle
<1> QED
  BY <1>1, <1>2 DEF IcecastInv, LossIsReported

LEMMA NextIcecast == IcecastInv /\ [Next]_vars => IcecastInv'
<1> SUFFICES ASSUME IcecastInv, [Next]_vars PROVE IcecastInv'
  OBVIOUS
<1>1. CASE UNCHANGED vars
  BY <1>1 DEF vars, fields, IcecastInv, TypeOK, LossIsReported, Alive
<1>2. CASE Caller
  BY <1>2, PlayingSound, StoppingSound, WatchingSound DEF Caller
<1>3. CASE Relay
  BY <1>3, RelayStepSound
<1>4. CASE \/ TakeEvent
           \/ PlayCommand \/ PauseCommand \/ StopCommand \/ VolumeCommand \/ RecoverCommand
  BY <1>4, WatchingSound
<1>5. CASE (\E d \in Decoders : DecoderExits(d)) \/ (\E s \in Streams : StreamExits(s))
  BY <1>5, ProcessSound
<1> QED
  BY <1>1, <1>2, <1>3, <1>4, <1>5 DEF Next

\* Type correctness of the continuous output for any number of processes: in
\* particular the relay never reads from a decoder it does not have, and the
\* caller never installs one it has not launched.
THEOREM IcecastTyping == Spec => []TypeOK
<1>1. IcecastInv => TypeOK
  BY DEF IcecastInv
<1> QED
  BY <1>1, InitIcecast, NextIcecast, PTL DEF Spec

\* Whatever the operator asks for while the relay runs and the processes end, a
\* station that is marked playing between commands and has lost its decoder or
\* its stream has an event waiting to be consumed, or shows an error.  It says
\* nothing of a station whose relay thread is gone.
THEOREM LossesAreReported == Spec => []LossIsReported
<1>1. IcecastInv => LossIsReported
  BY DEF IcecastInv
<1> QED
  BY <1>1, InitIcecast, NextIcecast, PTL DEF Spec

\* The relay reports a completion only of the decoder that is current, and that
\* has ended with return code zero: only RelayReports does, and its check is
\* in one step with the report.
THEOREM CompletionsAreGenuine == Spec => CompletionIsGenuine
<1> DEFINE Genuine ==
        event' = "completed" /\ event # "completed"
        => decoder # None /\ decoders[decoder] = "completed"
<1>1. TypeOK /\ [Next]_vars => [Genuine]_vars
  <2> SUFFICES ASSUME TypeOK, Next, event' = "completed", event # "completed"
               PROVE  decoder # None /\ decoders[decoder] = "completed"
    OBVIOUS
  <2>1. CASE RelayReports
    BY <2>1 DEF RelayReports, TypeOK
  <2>2. CASE Relay /\ ~RelayReports
    BY <2>2 DEF Relay, RelayPick, RelayRead, RelayWrites, RelayPipeBreaks, RelayReportsBreak,
                RelayDies, RelayLeaves, RelayEnds, fields
  <2>3. CASE Caller
    <3>1. event' = "none" \/ UNCHANGED event
      BY <2>3 DEF Caller, Playing, PlayOnStream, PlayOnNewStream, PlayCannotBegin, PlayFails, PopDecoder,
                  Replace, LaunchDecoder, LaunchDecoderFails, Install, Settle, Stopping, PauseDecoder,
                  PauseEnd, StopRelay, StopDecoder, StopPopStream, StopStream, Consuming,
                  ConsumeStreamEnd, ConsumeFailure, ConsumeCompletion, ConsumeNothing, fields
    <3> QED
      BY <3>1
  <2>4. CASE \/ PlayCommand \/ PauseCommand \/ StopCommand \/ VolumeCommand \/ RecoverCommand
             \/ TakeEvent
    BY <2>4 DEF PlayCommand, PauseCommand, StopCommand, VolumeCommand, RecoverCommand, TakeEvent,
                Command, fields
  <2>5. CASE (\E d \in Decoders : DecoderExits(d)) \/ (\E s \in Streams : StreamExits(s))
    BY <2>5 DEF DecoderExits, StreamExits, fields
  <2> QED
    BY <2>1, <2>2, <2>3, <2>4, <2>5 DEF Next
<1>2. CompletionIsGenuine <=> [][Genuine]_vars
  BY DEF CompletionIsGenuine
<1> HIDE DEF Genuine
<1> QED
  BY <1>1, <1>2, IcecastTyping, PTL DEF Spec
=============================================================================
