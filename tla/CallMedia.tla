----------------------------- MODULE CallMedia -----------------------------
(***************************************************************************)
(* CallManager: microphone and camera of one device over several calls.    *)
(* startMedia, stopMedia, startOutgoingVideo and stopOutgoingVideo are     *)
(* asynchronous: each is a task that runs from await to await, while calls *)
(* end and begin.  The screen is handled as the camera is.                 *)
(*                                                                         *)
(* av.id is the active call (0: none); av.gen and av.vgen are              *)
(* mediaGeneration and videoStartGen; av.on is localCamera; av.mic, av.cam *)
(* and av.view name the call for which pipeline, cameraOut and the inbound *)
(* renderer were made, av.key the call whose key is imported.              *)
(***************************************************************************)
EXTENDS Integers, FiniteSets

CONSTANTS MaxCalls, MaxToggles, MaxTasks    \* bounds: calls, uses of the camera button, tasks at a time
VARIABLE av

Task(s, kind, at, gen) == [kind |-> kind, at |-> at, gen |-> gen, id |-> s.id, n |-> s.n]
Spawn(s, kind, at, gen) == [s EXCEPT !.tasks = @ \cup {Task(s, kind, at, gen)}, !.n = @ + 1]
End(s, t) == [s EXCEPT !.tasks = @ \ {t}]
To(s, t, at) == [s EXCEPT !.tasks = (@ \ {t}) \cup {[t EXCEPT !.at = at]}]

isCurrentMedia(s, t) == s.gen = t.gen /\ s.id = t.id /\ s.id # 0
isCurrentVideo(s, t) == s.vgen = t.gen /\ s.id # 0 /\ s.on

(* The effects of the state machine.                                       *)
startMedia(s) == Spawn([s EXCEPT !.gen = @ + 1], "media", "camera", s.gen + 1)
startOutgoingVideo(s) ==
    LET t == [s EXCEPT !.vgen = @ + 1]
    IN  Spawn(t, "video", IF s.key = 0 THEN "key" ELSE "stop", t.vgen)
stopMedia(s) == Spawn([s EXCEPT !.gen = @ + 1, !.vgen = @ + 1], "stop", "camera", 0)
Hangup(s) == stopMedia([s EXCEPT !.id = 0, !.on = FALSE])

Room == Cardinality(av.tasks) < MaxTasks
Accepted == /\ av.id = 0 /\ av.calls < MaxCalls /\ Room
            /\ LET s == [av EXCEPT !.id = av.calls + 1, !.calls = @ + 1]
               IN  \/ av' = startMedia(s)
                   \/ av' = startOutgoingVideo([startMedia(s) EXCEPT !.on = TRUE])
Ended == av.id # 0 /\ Room /\ av' = Hangup(av)
toggleCamera ==
    /\ av.id # 0 /\ av.toggles < MaxToggles /\ Room
    /\ LET s == [av EXCEPT !.toggles = @ + 1, !.on = ~@]
       IN  av' = IF s.on THEN startOutgoingVideo(s) ELSE Spawn([s EXCEPT !.vgen = @ + 1], "video-stop", "camera", 0)

(* stopMedia, alone or at the beginning of startMedia: camera, renderers,  *)
(* then key and microphone; closing takes time after each.                 *)
StopStep(t) ==
    /\ t.kind \in {"stop", "media"}
    /\ \/ t.at = "camera" /\ av' = [To(av, t, "view") EXCEPT !.cam = 0]
       \/ t.at = "view" /\ av' = [To(av, t, "mic") EXCEPT !.view = 0]
       \/ /\ t.at = "mic"
          /\ av' = [IF t.kind = "stop" THEN End(av, t) ELSE To(av, t, "stopped") EXCEPT !.key = 0, !.mic = 0]

(* The rest of startMedia: key, renderers (ensureInbound keeps one that is *)
(* there), and the microphone, which may be refused.                       *)
(* Mutant: nobody looks whether the call is still there at the end.        *)
MicReadyAnyway(t) ==
    /\ t.at = "record"
    /\ \/ av' = [End(av, t) EXCEPT !.mic = t.id]
       \/ av' = IF isCurrentMedia(av, t) THEN Hangup(End(av, t)) ELSE End(av, t)
MicReady(t) ==
    /\ t.at = "record"
    /\ \/ av' = [End(av, t) EXCEPT !.mic = IF isCurrentMedia(av, t) THEN t.id ELSE @]
       \/ av' = IF isCurrentMedia(av, t) THEN Hangup(End(av, t)) ELSE End(av, t)
ensureInbound(t) ==
    /\ t.at = "inbound"
    /\ av' = [To(av, t, "record") EXCEPT !.view = IF @ = 0 THEN t.id ELSE @]
MediaStep(t) ==
    /\ t.kind = "media"
    /\ \/ t.at = "stopped" /\ av' = IF isCurrentMedia(av, t) THEN To(av, t, "key") ELSE End(av, t)
       \/ /\ t.at = "key"
          /\ LET s == [av EXCEPT !.key = t.id]
             IN  av' = IF ~isCurrentMedia(s, t) THEN End(s, t)
                       ELSE To(s, t, IF s.view = 0 THEN "inbound" ELSE "record")
       \/ ensureInbound(t) \/ MicReady(t)

VideoStep(t) ==
    \/ t.kind = "video-stop" /\ av' = [End(av, t) EXCEPT !.cam = 0]
    \/ /\ t.kind = "video"
       /\ \/ /\ t.at = "key"
             /\ LET s == [av EXCEPT !.key = t.id]
                IN  av' = IF isCurrentVideo(s, t) THEN To(s, t, "stop") ELSE End(s, t)
          \/ t.at = "stop" /\ av' = IF isCurrentVideo(av, t) THEN [To(av, t, "closed") EXCEPT !.cam = 0] ELSE End(av, t)
          \/ t.at = "closed" /\ av' = IF isCurrentVideo(av, t) THEN To(av, t, "create") ELSE End(av, t)
          \/ /\ t.at = "create"
             /\ \/ av' = [End(av, t) EXCEPT !.cam = IF isCurrentVideo(av, t) THEN t.id ELSE @]
                \/ /\ isCurrentVideo(av, t)      \* no camera: local-camera off
                   /\ av' = Spawn([End(av, t) EXCEPT !.on = FALSE, !.vgen = @ + 1], "video-stop", "camera", 0)

Init == av = [id |-> 0, calls |-> 0, toggles |-> 0, gen |-> 0, vgen |-> 0, on |-> FALSE, mic |-> 0, cam |-> 0,
              view |-> 0, key |-> 0, tasks |-> {}, n |-> 0]
Next == Accepted \/ Ended \/ toggleCamera \/ \E t \in av.tasks : StopStep(t) \/ MediaStep(t) \/ VideoStep(t)

(* Nobody is recorded after a call: when no call is active and nothing is  *)
(* under way, microphone and camera are closed; and they are never left    *)
(* open for any other call than the active one, although calls may end     *)
(* while the devices are still being opened.                               *)
MicReleased == av.tasks = {} => av.mic \in {0, av.id} /\ av.cam \in {0, av.id} /\ (av.cam # 0 => av.on)
=============================================================================
