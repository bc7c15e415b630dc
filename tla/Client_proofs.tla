---------------------------- MODULE Client_proofs ----------------------------
(***************************************************************************)
(* The properties of the parts of Client and KartDrivers, for every value  *)
(* of the constants that their assumptions allow.  Each part has an        *)
(* inductive invariant of its own, in the order CallMedia, VoiceNotes,     *)
(* ChatDelivery, WebChannel, KartLaps, KartBoard, KartItems.               *)
(***************************************************************************)
EXTENDS Client, KartDrivers, FiniteSets, Sequences, SequenceTheorems, TLAPS

(***************************************************************************)
(* Calls: microphone and camera (CallMedia).                               *)
(*                                                                         *)
(* A device that is open for a call that has ended has a task under way    *)
(* that will close it; and only the youngest task that opens a camera has  *)
(* the generation of the manager, and belongs to the running call.         *)
(***************************************************************************)
MediaKinds == {"media", "stop", "video", "video-stop"}
MediaPlaces == {"camera", "view", "mic", "stopped", "key", "inbound", "record", "stop", "closed", "create"}
MediaTask == [kind: MediaKinds, at: MediaPlaces, gen: Nat, id: Nat, n: Nat]
MediaState == [id: Nat, calls: Nat, toggles: Nat, gen: Nat, vgen: Nat, on: BOOLEAN, mic: Nat, cam: Nat,
               view: Nat, key: Nat, tasks: SUBSET MediaTask, n: Nat]

StopsMic(t) == t.kind \in {"stop", "media"} /\ t.at \in {"camera", "view", "mic"}
StopsCam(t) == (t.kind \in {"stop", "media"} /\ t.at = "camera") \/ t.kind = "video-stop"

MicOwned(s) == s.mic \in {0, s.id} \/ \E t \in s.tasks : StopsMic(t)
CamOwned(s) == s.cam = 0 \/ (s.cam = s.id /\ s.on) \/ \E t \in s.tasks : StopsCam(t)
VideoCurrent(s) ==
    \A t \in s.tasks : t.kind = "video" => t.gen <= s.vgen /\ (t.gen = s.vgen => t.id = s.id /\ s.id # 0)
MediaOwned(s) == s \in MediaState /\ MicOwned(s) /\ CamOwned(s) /\ VideoCurrent(s)
MediaInv == MediaOwned(av)

(* What a step of a task does to the fields that matter. *)
SameCall(r, s) ==
    r.id = s.id /\ r.calls = s.calls /\ r.toggles = s.toggles /\ r.gen = s.gen /\ r.vgen = s.vgen /\ r.on = s.on
SameDevices(r, s) == r.mic = s.mic /\ r.cam = s.cam /\ r.view = s.view /\ r.key = s.key

LEMMA MediaNames ==
    /\ "media" \in MediaKinds /\ "stop" \in MediaKinds /\ "video" \in MediaKinds /\ "video-stop" \in MediaKinds
    /\ "camera" \in MediaPlaces /\ "view" \in MediaPlaces /\ "mic" \in MediaPlaces /\ "stopped" \in MediaPlaces
    /\ "key" \in MediaPlaces /\ "inbound" \in MediaPlaces /\ "record" \in MediaPlaces
    /\ "stop" \in MediaPlaces /\ "closed" \in MediaPlaces /\ "create" \in MediaPlaces /\ 0 \in Nat
  BY DEF MediaKinds, MediaPlaces

LEMMA MediaCounts ==
    ASSUME NEW s \in MediaState
    PROVE  s.vgen \in Nat /\ s.vgen + 1 \in Nat /\ s.gen + 1 \in Nat /\ s.calls + 1 \in Nat /\ s.toggles + 1 \in Nat
  BY DEF MediaState

LEMMA MediaSpawn ==
    ASSUME NEW s \in MediaState, NEW t \in MediaTask, NEW r,
           r = [s EXCEPT !.tasks = @ \cup {t}, !.n = @ + 1]
    PROVE  /\ r \in MediaState /\ r.tasks = s.tasks \cup {t}
           /\ SameCall(r, s) /\ SameDevices(r, s)
<1>1. s.tasks \cup {t} \in SUBSET MediaTask /\ s.n + 1 \in Nat
  BY DEF MediaState
<1> QED
  BY <1>1 DEF MediaState, SameCall, SameDevices

(* A task goes on as U, or ends: if it was to close a device, it has done  *)
(* so or still will; and it opens one for the running call only.           *)
MediaGoes(s, t, U, mic, cam, r) ==
    /\ r \in MediaState /\ SameCall(r, s) /\ r.mic = mic /\ r.cam = cam
    /\ r.tasks = (s.tasks \ {t}) \cup U
    /\ \A u \in U : u.kind = t.kind /\ u.gen = t.gen /\ u.id = t.id
    /\ mic \in {0, s.mic, s.id}
    /\ cam = 0 \/ cam = s.cam \/ (cam = s.id /\ s.on)
    /\ StopsMic(t) => mic = 0 \/ \E u \in U : StopsMic(u)
    /\ StopsCam(t) => cam = 0 \/ \E u \in U : StopsCam(u)

MediaPut(s, T, mic, cam, view, key) ==
    [s EXCEPT !.tasks = T, !.mic = mic, !.cam = cam, !.view = view, !.key = key]

LEMMA MediaSet ==
    ASSUME NEW s \in MediaState, NEW T \in SUBSET MediaTask,
           NEW mic \in Nat, NEW cam \in Nat, NEW view \in Nat, NEW key \in Nat
    PROVE  LET r == MediaPut(s, T, mic, cam, view, key)
           IN  r \in MediaState /\ SameCall(r, s) /\ r.mic = mic /\ r.cam = cam /\ r.tasks = T
  BY DEF MediaState, SameCall, MediaPut

LEMMA MediaMove ==
    ASSUME NEW s, MediaOwned(s), NEW t \in s.tasks, NEW U, NEW mic, NEW cam, NEW r,
           MediaGoes(s, t, U, mic, cam, r)
    PROVE  MediaOwned(r)
<1>1. MicOwned(r)
  BY DEF MediaGoes, MediaOwned, MicOwned, SameCall
<1>2. CamOwned(r)
  BY DEF MediaGoes, MediaOwned, CamOwned, SameCall
<1>3. VideoCurrent(r)
  BY DEF MediaGoes, MediaOwned, VideoCurrent, SameCall
<1> QED
  BY <1>1, <1>2, <1>3 DEF MediaGoes, MediaOwned

LEMMA MediaDone ==
    ASSUME NEW s, MediaOwned(s), NEW t \in s.tasks, 
           NEW mic \in Nat, NEW cam \in Nat, NEW view \in Nat, NEW key \in Nat,
           mic \in {0, s.mic, s.id},
           cam = 0 \/ cam = s.cam \/ (cam = s.id /\ s.on),
           StopsMic(t) => mic = 0, StopsCam(t) => cam = 0
    PROVE  MediaOwned(MediaPut(s, s.tasks \ {t}, mic, cam, view, key))
<1> DEFINE r == MediaPut(s, s.tasks \ {t}, mic, cam, view, key)
<1>1. s \in MediaState /\ s.tasks \ {t} \in SUBSET MediaTask
  BY DEF MediaOwned, MediaState
<1>2. r \in MediaState /\ SameCall(r, s) /\ r.mic = mic /\ r.cam = cam /\ r.tasks = s.tasks \ {t}
  BY <1>1, MediaSet
<1> HIDE DEF r
<1>3. MediaGoes(s, t, {}, mic, cam, r)
  BY <1>2 DEF MediaGoes
<1> QED
  BY <1>3, MediaMove DEF r

LEMMA MediaGo ==
    ASSUME NEW s, MediaOwned(s), NEW t \in s.tasks, NEW u \in MediaTask,
           u.kind = t.kind, u.gen = t.gen, u.id = t.id,
           NEW mic \in Nat, NEW cam \in Nat, NEW view \in Nat, NEW key \in Nat,
           mic \in {0, s.mic}, cam \in {0, s.cam},
           StopsMic(t) => mic = 0 \/ StopsMic(u), StopsCam(t) => cam = 0 \/ StopsCam(u)
    PROVE  MediaOwned(MediaPut(s, (s.tasks \ {t}) \cup {u}, mic, cam, view, key))
<1> DEFINE r == MediaPut(s, (s.tasks \ {t}) \cup {u}, mic, cam, view, key)
<1>1. s \in MediaState /\ (s.tasks \ {t}) \cup {u} \in SUBSET MediaTask
  BY DEF MediaOwned, MediaState
<1>2. r \in MediaState /\ SameCall(r, s) /\ r.mic = mic /\ r.cam = cam /\ r.tasks = (s.tasks \ {t}) \cup {u}
  BY <1>1, MediaSet
<1> HIDE DEF r
<1>3. MediaGoes(s, t, {u}, mic, cam, r)
  BY <1>2 DEF MediaGoes
<1> QED
  BY <1>3, MediaMove DEF r

LEMMA MediaHangup ==
    ASSUME NEW s, MediaOwned(s)
    PROVE  MediaOwned(Media!Hangup(s))
<1> DEFINE v == [s EXCEPT !.id = 0, !.on = FALSE, !.gen = @ + 1, !.vgen = @ + 1]
<1>1. v \in MediaState /\ v.id = 0 /\ v.tasks = s.tasks /\ v.vgen = s.vgen + 1 /\ s.vgen \in Nat
  <2>1. s \in MediaState /\ s.vgen \in Nat /\ s.vgen + 1 \in Nat /\ s.gen + 1 \in Nat
    BY MediaCounts DEF MediaOwned
  <2> QED
    BY <2>1 DEF MediaState
<1>2. Media!Hangup(s) = Media!Spawn(v, "stop", "camera", 0)
  BY DEF Media!Hangup, Media!stopMedia, MediaOwned, MediaState
<1>3. \A x \in s.tasks : x.gen \in Nat
  BY DEF MediaOwned, MediaState, MediaTask
<1> HIDE DEF v
<1> DEFINE t == Media!Task(v, "stop", "camera", 0)
<1>4. t \in MediaTask /\ t.kind = "stop" /\ t.at = "camera"
  BY <1>1 DEF Media!Task, MediaState, MediaTask, MediaKinds, MediaPlaces
<1>a. Media!Hangup(s) = [v EXCEPT !.tasks = @ \cup {t}, !.n = @ + 1]
  BY <1>2 DEF Media!Spawn
<1> HIDE DEF t
<1>5. /\ Media!Hangup(s) \in MediaState /\ Media!Hangup(s).vgen = s.vgen + 1
      /\ Media!Hangup(s).tasks = s.tasks \cup {t}
  <2>1. /\ Media!Hangup(s) \in MediaState /\ Media!Hangup(s).tasks = v.tasks \cup {t}
        /\ SameCall(Media!Hangup(s), v)
    BY <1>1, <1>4, <1>a, MediaSpawn
  <2> QED
    BY <1>1, <2>1 DEF SameCall
<1>6. MicOwned(Media!Hangup(s)) /\ CamOwned(Media!Hangup(s))
  BY <1>4, <1>5 DEF MicOwned, CamOwned, StopsMic, StopsCam
<1>7. VideoCurrent(Media!Hangup(s))
  BY <1>1, <1>3, <1>4, <1>5 DEF MediaOwned, VideoCurrent
<1> QED
  BY <1>5, <1>6, <1>7 DEF MediaOwned

(* The camera is wanted for the running call: a new generation. *)
LEMMA MediaStartVideo ==
    ASSUME NEW s, MediaOwned(s), s.id # 0
    PROVE  MediaOwned(Media!startOutgoingVideo(s))
<1> DEFINE v == [s EXCEPT !.vgen = @ + 1]
           r == Media!startOutgoingVideo(s)
<1>1. v \in MediaState /\ v.tasks = s.tasks /\ v.vgen = s.vgen + 1 /\ v.vgen \in Nat /\ s.vgen \in Nat
      /\ v.id = s.id /\ v.on = s.on /\ SameDevices(v, s)
  BY DEF MediaOwned, MediaState, SameDevices
<1>2. r = Media!Spawn(v, "video", IF s.key = 0 THEN "key" ELSE "stop", v.vgen)
  BY DEF Media!startOutgoingVideo
<1>3. \A x \in s.tasks : x.gen \in Nat
  BY DEF MediaOwned, MediaState, MediaTask
<1> HIDE DEF v, r
<1> DEFINE t == Media!Task(v, "video", IF s.key = 0 THEN "key" ELSE "stop", v.vgen)
<1>4. t \in MediaTask /\ t.kind = "video" /\ t.gen = v.vgen /\ t.id = s.id
  BY <1>1 DEF Media!Task, MediaState, MediaTask, MediaKinds, MediaPlaces
<1>a. r = [v EXCEPT !.tasks = @ \cup {t}, !.n = @ + 1]
  BY <1>2 DEF Media!Spawn
<1> HIDE DEF t
<1>b. v \in MediaState
  BY <1>1
<1>c. t \in MediaTask
  BY <1>4
<1>d. r \in MediaState /\ r.tasks = v.tasks \cup {t} /\ SameCall(r, v) /\ SameDevices(r, v)
  BY <1>a, <1>b, <1>c, MediaSpawn
<1>5. r \in MediaState /\ r.tasks = s.tasks \cup {t} /\ SameCall(r, v) /\ SameDevices(r, v)
  BY <1>1, <1>d
<1>6. MicOwned(r) /\ CamOwned(r)
  BY <1>1, <1>4, <1>5 DEF MediaOwned, MicOwned, CamOwned, SameCall, SameDevices
<1>7. VideoCurrent(r)
  BY <1>1, <1>3, <1>4, <1>5 DEF MediaOwned, VideoCurrent, SameCall
<1> QED
  BY <1>5, <1>6, <1>7 DEF MediaOwned, r

(* The camera is not wanted any more: a task closes it. *)
LEMMA MediaStopVideo ==
    ASSUME NEW s, MediaOwned(s), NEW v \in MediaState,
           v.tasks = s.tasks, v.vgen = s.vgen + 1, v.id = s.id, SameDevices(v, s)
    PROVE  MediaOwned(Media!Spawn(v, "video-stop", "camera", 0))
<1> DEFINE r == Media!Spawn(v, "video-stop", "camera", 0)
           t == Media!Task(v, "video-stop", "camera", 0)
<1>1. t \in MediaTask /\ t.kind = "video-stop"
  BY DEF Media!Task, MediaState, MediaTask, MediaKinds, MediaPlaces
<1>a. r = [v EXCEPT !.tasks = @ \cup {t}, !.n = @ + 1]
  BY DEF Media!Spawn
<1> HIDE DEF t, r
<1>2. r \in MediaState /\ r.tasks = s.tasks \cup {t} /\ SameCall(r, v) /\ SameDevices(r, v)
  BY <1>1, <1>a, MediaSpawn
<1>3. s.vgen \in Nat /\ \A x \in s.tasks : x.gen \in Nat
  BY DEF MediaOwned, MediaState, MediaTask
<1>4. MicOwned(r) /\ CamOwned(r)
  BY <1>1, <1>2 DEF MediaOwned, MicOwned, CamOwned, StopsCam, SameCall, SameDevices
<1>5. VideoCurrent(r)
  BY <1>1, <1>2, <1>3 DEF MediaOwned, VideoCurrent, SameCall
<1> QED
  BY <1>2, <1>4, <1>5 DEF MediaOwned, r

LEMMA MediaAccepted ==
    ASSUME MediaOwned(av), Media!Accepted
    PROVE  MediaOwned(av')
<1> DEFINE s == [av EXCEPT !.id = av.calls + 1, !.calls = @ + 1]
           v == [s EXCEPT !.gen = @ + 1]
           m == Media!startMedia(s)
<1>1. av.id = 0 /\ (av' = m \/ av' = Media!startOutgoingVideo([m EXCEPT !.on = TRUE]))
  BY DEF Media!Accepted
<1>2. v \in MediaState /\ v.tasks = av.tasks /\ v.vgen = av.vgen /\ v.id # 0 /\ v.gen \in Nat
  <2>1. av \in MediaState /\ av.calls + 1 \in Nat /\ av.calls + 1 # 0 /\ av.gen + 1 \in Nat
    BY MediaCounts DEF MediaOwned, MediaState
  <2>2. v = [av EXCEPT !.id = av.calls + 1, !.calls = av.calls + 1, !.gen = av.gen + 1]
    BY <2>1 DEF MediaState
  <2> HIDE DEF v, s, m
  <2>3. v \in MediaState /\ v.tasks = av.tasks /\ v.vgen = av.vgen /\ v.id = av.calls + 1 /\ v.gen = av.gen + 1
    BY <2>1, <2>2 DEF MediaState
  <2> QED
    BY <2>1, <2>3
<1>3. m = Media!Spawn(v, "media", "camera", v.gen)
  BY DEF Media!startMedia, MediaOwned, MediaState
<1> HIDE DEF s, v, m
<1> DEFINE t == Media!Task(v, "media", "camera", v.gen)
<1>4. t \in MediaTask /\ t.kind = "media" /\ t.at = "camera"
  BY <1>2 DEF Media!Task, MediaState, MediaTask, MediaKinds, MediaPlaces
<1>a. m = [v EXCEPT !.tasks = @ \cup {t}, !.n = @ + 1]
  BY <1>3 DEF Media!Spawn
<1> HIDE DEF t
<1>5. m \in MediaState /\ m.vgen = av.vgen /\ m.id # 0 /\ m.tasks = av.tasks \cup {t}
  <2>1. m \in MediaState /\ m.tasks = v.tasks \cup {t} /\ SameCall(m, v)
    BY <1>2, <1>4, <1>a, MediaSpawn
  <2> QED
    BY <1>2, <2>1 DEF SameCall
<1>6. MicOwned(m) /\ CamOwned(m)
  BY <1>4, <1>5 DEF MicOwned, CamOwned, StopsMic, StopsCam
<1>7. VideoCurrent(m)
  BY <1>1, <1>4, <1>5 DEF MediaOwned, VideoCurrent
<1>8. MediaOwned(m)
  BY <1>5, <1>6, <1>7 DEF MediaOwned
<1>9. [m EXCEPT !.on = TRUE] \in MediaState /\ [m EXCEPT !.on = TRUE].id # 0
      /\ MicOwned([m EXCEPT !.on = TRUE]) /\ CamOwned([m EXCEPT !.on = TRUE])
      /\ VideoCurrent([m EXCEPT !.on = TRUE])
  BY <1>4, <1>5, <1>8 DEF MediaOwned, MediaState, MicOwned, CamOwned, VideoCurrent, StopsMic, StopsCam
<1> QED
  BY <1>1, <1>8, <1>9, MediaStartVideo DEF MediaOwned

LEMMA MediaToggled ==
    ASSUME MediaOwned(av), Media!toggleCamera
    PROVE  MediaOwned(av')
<1> DEFINE s == [av EXCEPT !.toggles = @ + 1, !.on = ~@]
           v == [s EXCEPT !.vgen = @ + 1]
<1>1. /\ av.id # 0
      /\ av' = IF s.on THEN Media!startOutgoingVideo(s) ELSE Media!Spawn(v, "video-stop", "camera", 0)
  BY DEF Media!toggleCamera
<1>2. av \in MediaState /\ av.toggles + 1 \in Nat /\ av.vgen + 1 \in Nat /\ (~av.on) \in BOOLEAN
  BY MediaCounts DEF MediaOwned
<1>3. /\ s \in MediaState /\ s.tasks = av.tasks /\ s.id = av.id /\ s.on = ~av.on /\ s.vgen = av.vgen
      /\ SameDevices(s, av)
  BY <1>2 DEF MediaState, SameDevices
<1> HIDE DEF s
<1>4. v \in MediaState /\ v.tasks = s.tasks /\ v.id = s.id /\ v.vgen = s.vgen + 1 /\ SameDevices(v, s)
  BY <1>2, <1>3 DEF MediaState, SameDevices
<1> HIDE DEF v
<1>5. CASE s.on
  <2>1. MicOwned(s) /\ CamOwned(s) /\ VideoCurrent(s)
    BY <1>3, <1>5 DEF MediaOwned, MicOwned, CamOwned, VideoCurrent, SameDevices
  <2> QED
    BY <1>1, <1>3, <1>5, <2>1, MediaStartVideo DEF MediaOwned
<1>6. CASE ~s.on
  <2>1. v.tasks = av.tasks /\ v.id = av.id /\ v.vgen = av.vgen + 1 /\ SameDevices(v, av)
    BY <1>3, <1>4 DEF SameDevices
  <2> QED
    BY <1>1, <1>4, <1>6, <2>1, MediaStopVideo
<1> QED
  BY <1>5, <1>6

LEMMA MediaStopping ==
    ASSUME MediaOwned(av), NEW t \in av.tasks, Media!StopStep(t)
    PROVE  MediaOwned(av')
<1>1. av \in MediaState /\ t \in MediaTask /\ av.mic \in Nat /\ av.cam \in Nat /\ av.view \in Nat /\ av.key \in Nat
  BY DEF MediaOwned, MediaState
<1>2. CASE t.at = "camera" /\ av' = [Media!To(av, t, "view") EXCEPT !.cam = 0]
  <2> DEFINE u == [t EXCEPT !.at = "view"]
  <2>1. u \in MediaTask /\ u.kind = t.kind /\ u.gen = t.gen /\ u.id = t.id /\ u.at = "view"
    BY <1>1 DEF MediaTask, MediaPlaces
  <2>2. av' = MediaPut(av, (av.tasks \ {t}) \cup {u}, av.mic, 0, av.view, av.key)
    BY <1>1, <1>2 DEF Media!To, MediaPut, MediaState
  <2> HIDE DEF u
  <2>3. StopsMic(u)
    BY <2>1 DEF StopsMic, Media!StopStep
  <2> QED
    BY <1>1, <2>1, <2>2, <2>3, MediaGo
<1>3. CASE t.at = "view" /\ av' = [Media!To(av, t, "mic") EXCEPT !.view = 0]
  <2> DEFINE u == [t EXCEPT !.at = "mic"]
  <2>1. u \in MediaTask /\ u.kind = t.kind /\ u.gen = t.gen /\ u.id = t.id /\ u.at = "mic"
    BY <1>1 DEF MediaTask, MediaPlaces
  <2>2. av' = MediaPut(av, (av.tasks \ {t}) \cup {u}, av.mic, av.cam, 0, av.key)
    BY <1>1, <1>3 DEF Media!To, MediaPut, MediaState
  <2> HIDE DEF u
  <2>3. StopsMic(u) /\ ~StopsCam(t)
    BY <1>3, <2>1 DEF StopsMic, StopsCam, Media!StopStep
  <2> QED
    BY <1>1, <2>1, <2>2, <2>3, MediaGo
<1>4. CASE /\ t.at = "mic" /\ t.kind = "stop"
           /\ av' = [Media!End(av, t) EXCEPT !.key = 0, !.mic = 0]
  <2>1. av' = MediaPut(av, av.tasks \ {t}, 0, av.cam, av.view, 0)
    BY <1>1, <1>4 DEF Media!End, MediaPut, MediaState
  <2>2. ~StopsCam(t)
    BY <1>4 DEF StopsCam
  <2> QED
    BY <1>1, <2>1, <2>2, MediaDone
<1>5. CASE /\ t.at = "mic" /\ t.kind = "media"
           /\ av' = [Media!To(av, t, "stopped") EXCEPT !.key = 0, !.mic = 0]
  <2> DEFINE u == [t EXCEPT !.at = "stopped"]
  <2>1. u \in MediaTask /\ u.kind = t.kind /\ u.gen = t.gen /\ u.id = t.id
    BY <1>1 DEF MediaTask, MediaPlaces
  <2>2. av' = MediaPut(av, (av.tasks \ {t}) \cup {u}, 0, av.cam, av.view, 0)
    BY <1>1, <1>5 DEF Media!To, MediaPut, MediaState
  <2> HIDE DEF u
  <2>3. ~StopsCam(t)
    BY <1>5 DEF StopsCam
  <2> QED
    BY <1>1, <2>1, <2>2, <2>3, MediaGo
<1> QED
  BY <1>2, <1>3, <1>4, <1>5 DEF Media!StopStep

LEMMA MediaOpening ==
    ASSUME MediaOwned(av), NEW t \in av.tasks, Media!MediaStep(t)
    PROVE  MediaOwned(av')
<1>1. av \in MediaState /\ t \in MediaTask /\ av.mic \in Nat /\ av.cam \in Nat /\ av.view \in Nat /\ av.key \in Nat
      /\ t.id \in Nat /\ t.kind = "media"
  BY DEF MediaOwned, MediaState, MediaTask, Media!MediaStep
<1>2. ASSUME t.at = "stopped" \/ t.at = "key" \/ t.at = "inbound" \/ t.at = "record"
      PROVE  ~StopsMic(t) /\ ~StopsCam(t)
  BY <1>1, <1>2 DEF StopsMic, StopsCam
<1>3. ASSUME ~StopsMic(t), ~StopsCam(t), NEW view \in Nat, NEW key \in Nat,
             av' = MediaPut(av, av.tasks \ {t}, av.mic, av.cam, view, key)
      PROVE  MediaOwned(av')
  <2>1. av' = MediaPut(av, av.tasks \ {t}, av.mic, av.cam, view, key)
    BY <1>1, <1>3 DEF MediaState
  <2> QED
    BY <1>1, <1>3, <2>1, MediaDone
<1>4. ASSUME ~StopsMic(t), ~StopsCam(t), NEW view \in Nat, NEW key \in Nat, NEW at \in MediaPlaces,
             av' = MediaPut(av, (av.tasks \ {t}) \cup {[t EXCEPT !.at = at]}, av.mic, av.cam, view, key)
      PROVE  MediaOwned(av')
  <2> DEFINE u == [t EXCEPT !.at = at]
  <2>1. u \in MediaTask /\ u.kind = t.kind /\ u.gen = t.gen /\ u.id = t.id
    BY <1>1, <1>4 DEF MediaTask
  <2>2. av' = MediaPut(av, (av.tasks \ {t}) \cup {u}, av.mic, av.cam, view, key)
    BY <1>1, <1>4 DEF MediaState
  <2> HIDE DEF u
  <2> QED
    BY <1>1, <1>4, <2>1, <2>2, MediaGo
<1>5. CASE t.at = "stopped" /\ av' = IF Media!isCurrentMedia(av, t) THEN Media!To(av, t, "key") ELSE Media!End(av, t)
  <2>1. CASE av' = Media!End(av, t)
    <3>1. av' = MediaPut(av, av.tasks \ {t}, av.mic, av.cam, av.view, av.key)
      BY <1>1, <2>1 DEF Media!End, MediaPut, MediaState
    <3> QED
      BY <1>1, <1>2, <1>3, <1>5, <3>1
  <2>2. CASE av' = Media!To(av, t, "key")
    <3>1. PICK at \in MediaPlaces : av' = Media!To(av, t, at)
      BY <2>2, MediaNames
    <3>2. av' = MediaPut(av, (av.tasks \ {t}) \cup {[t EXCEPT !.at = at]}, av.mic, av.cam, av.view, av.key)
      BY <1>1, <3>1 DEF Media!To, MediaPut, MediaState
    <3> QED
      BY <1>1, <1>2, <1>4, <1>5, <3>2
  <2> QED
    BY <1>5, <2>1, <2>2
<1>6. CASE /\ t.at = "key"
           /\ LET s == [av EXCEPT !.key = t.id]
              IN  av' = IF ~Media!isCurrentMedia(s, t) THEN Media!End(s, t)
                        ELSE Media!To(s, t, IF s.view = 0 THEN "inbound" ELSE "record")
  <2> DEFINE s == [av EXCEPT !.key = t.id]
  <2>1. CASE av' = Media!End(s, t)
    <3>1. av' = MediaPut(av, av.tasks \ {t}, av.mic, av.cam, av.view, t.id)
      BY <1>1, <2>1 DEF Media!End, MediaPut, MediaState
    <3> QED
      BY <1>1, <1>2, <1>3, <1>6, <3>1
  <2>2. CASE av' = Media!To(s, t, IF s.view = 0 THEN "inbound" ELSE "record")
    <3>1. PICK at \in MediaPlaces : av' = Media!To(s, t, at)
      BY <2>2, MediaNames
    <3>2. av' = MediaPut(av, (av.tasks \ {t}) \cup {[t EXCEPT !.at = at]}, av.mic, av.cam, av.view, t.id)
      BY <1>1, <3>1 DEF Media!To, MediaPut, MediaState
    <3> QED
      BY <1>1, <1>2, <1>4, <1>6, <3>2
  <2> QED
    BY <1>6, <2>1, <2>2
<1>7. CASE Media!ensureInbound(t)
  <2>1. t.at = "inbound" /\ av' = [Media!To(av, t, "record") EXCEPT !.view = IF @ = 0 THEN t.id ELSE @]
    BY <1>7 DEF Media!ensureInbound
  <2>2. PICK at \in MediaPlaces : av' = [Media!To(av, t, at) EXCEPT !.view = IF @ = 0 THEN t.id ELSE @]
    BY <2>1, MediaNames
  <2>3. PICK view \in Nat : view = IF av.view = 0 THEN t.id ELSE av.view
    BY <1>1
  <2>4. av' = MediaPut(av, (av.tasks \ {t}) \cup {[t EXCEPT !.at = at]}, av.mic, av.cam, view, av.key)
    BY <1>1, <2>2, <2>3 DEF Media!To, MediaPut, MediaState
  <2> QED
    BY <1>1, <1>2, <1>4, <2>1, <2>4
<1>8. CASE Media!MicReady(t)
  <2>1. t.at = "record"
    BY <1>8 DEF Media!MicReady
  <2>2. CASE av' = [Media!End(av, t) EXCEPT !.mic = IF Media!isCurrentMedia(av, t) THEN t.id ELSE @]
    <3>1. PICK mic \in Nat : mic \in {0, av.mic, av.id} /\ mic = IF Media!isCurrentMedia(av, t) THEN t.id ELSE av.mic
      BY <1>1 DEF Media!isCurrentMedia
    <3>2. av' = MediaPut(av, av.tasks \ {t}, mic, av.cam, av.view, av.key)
      BY <1>1, <2>2, <3>1 DEF Media!End, MediaPut, MediaState
    <3> QED
      BY <1>1, <1>2, <2>1, <3>1, <3>2, MediaDone
  <2>3. CASE av' = IF Media!isCurrentMedia(av, t) THEN Media!Hangup(Media!End(av, t)) ELSE Media!End(av, t)
    <3>1. Media!End(av, t) = MediaPut(av, av.tasks \ {t}, av.mic, av.cam, av.view, av.key)
      BY <1>1 DEF Media!End, MediaPut, MediaState
    <3>2. MediaOwned(Media!End(av, t))
      BY <1>1, <1>2, <2>1, <3>1, MediaDone
    <3> QED
      BY <2>3, <3>2, MediaHangup
  <2> QED
    BY <1>8, <2>2, <2>3 DEF Media!MicReady
<1> QED
  BY <1>5, <1>6, <1>7, <1>8 DEF Media!MediaStep

LEMMA MediaFilming ==
    ASSUME MediaOwned(av), NEW t \in av.tasks, Media!VideoStep(t)
    PROVE  MediaOwned(av')
<1>1. av \in MediaState /\ t \in MediaTask /\ av.mic \in Nat /\ av.cam \in Nat /\ av.view \in Nat /\ av.key \in Nat
      /\ t.id \in Nat /\ av.id \in Nat
  BY DEF MediaOwned, MediaState, MediaTask
<1>2. CASE t.kind = "video-stop" /\ av' = [Media!End(av, t) EXCEPT !.cam = 0]
  <2>1. av' = MediaPut(av, av.tasks \ {t}, av.mic, 0, av.view, av.key)
    BY <1>1, <1>2 DEF Media!End, MediaPut, MediaState
  <2>2. ~StopsMic(t)
    BY <1>2 DEF StopsMic
  <2> QED
    BY <1>1, <2>1, <2>2, MediaDone
<1>3. CASE t.kind = "video"
  <2>0. ~StopsMic(t) /\ ~StopsCam(t)
    BY <1>3 DEF StopsMic, StopsCam
  <2>e. ASSUME NEW key \in Nat, av' = MediaPut(av, av.tasks \ {t}, av.mic, av.cam, av.view, key)
        PROVE  MediaOwned(av')
    BY <1>1, <2>0, <2>e, MediaDone
  <2>g. ASSUME NEW cam \in {0, av.cam}, NEW key \in Nat, NEW at \in MediaPlaces,
               av' = MediaPut(av, (av.tasks \ {t}) \cup {[t EXCEPT !.at = at]}, av.mic, cam, av.view, key)
        PROVE  MediaOwned(av')
    <3> DEFINE u == [t EXCEPT !.at = at]
    <3>1. u \in MediaTask /\ u.kind = t.kind /\ u.gen = t.gen /\ u.id = t.id /\ cam \in Nat
      BY <1>1, <2>g DEF MediaTask
    <3>2. av' = MediaPut(av, (av.tasks \ {t}) \cup {u}, av.mic, cam, av.view, key)
      BY <2>g
    <3> HIDE DEF u
    <3> QED
      BY <1>1, <2>0, <2>g, <3>1, <3>2, MediaGo
  <2>1. CASE /\ t.at = "key"
             /\ LET s == [av EXCEPT !.key = t.id]
                IN  av' = IF Media!isCurrentVideo(s, t) THEN Media!To(s, t, "stop") ELSE Media!End(s, t)
    <3> DEFINE s == [av EXCEPT !.key = t.id]
    <3>1. CASE av' = Media!End(s, t)
      <4>1. av' = MediaPut(av, av.tasks \ {t}, av.mic, av.cam, av.view, t.id)
        BY <1>1, <3>1 DEF Media!End, MediaPut, MediaState
      <4> QED
        BY <1>1, <2>e, <4>1
    <3>2. CASE av' = Media!To(s, t, "stop")
      <4>1. PICK at \in MediaPlaces : av' = Media!To(s, t, at)
        BY <3>2, MediaNames
      <4>2. av' = MediaPut(av, (av.tasks \ {t}) \cup {[t EXCEPT !.at = at]}, av.mic, av.cam, av.view, t.id)
        BY <1>1, <4>1 DEF Media!To, MediaPut, MediaState
      <4> QED
        BY <1>1, <2>g, <4>2
    <3> QED
      BY <2>1, <3>1, <3>2
  <2>2. CASE av' = Media!End(av, t)
    <3>1. av' = MediaPut(av, av.tasks \ {t}, av.mic, av.cam, av.view, av.key)
      BY <1>1, <2>2 DEF Media!End, MediaPut, MediaState
    <3> QED
      BY <1>1, <2>e, <3>1
  <2>3. CASE av' = [Media!To(av, t, "closed") EXCEPT !.cam = 0]
    <3>1. PICK at \in MediaPlaces : av' = [Media!To(av, t, at) EXCEPT !.cam = 0]
      BY <2>3, MediaNames
    <3>2. av' = MediaPut(av, (av.tasks \ {t}) \cup {[t EXCEPT !.at = at]}, av.mic, 0, av.view, av.key)
      BY <1>1, <3>1 DEF Media!To, MediaPut, MediaState
    <3> QED
      BY <1>1, <2>g, <3>2
  <2>4. CASE av' = Media!To(av, t, "create")
    <3>1. PICK at \in MediaPlaces : av' = Media!To(av, t, at)
      BY <2>4, MediaNames
    <3>2. av' = MediaPut(av, (av.tasks \ {t}) \cup {[t EXCEPT !.at = at]}, av.mic, av.cam, av.view, av.key)
      BY <1>1, <3>1 DEF Media!To, MediaPut, MediaState
    <3> QED
      BY <1>1, <2>g, <3>2
  <2>5. CASE av' = [Media!End(av, t) EXCEPT !.cam = IF Media!isCurrentVideo(av, t) THEN t.id ELSE @]
    <3>1. PICK cam \in Nat : /\ cam = IF Media!isCurrentVideo(av, t) THEN t.id ELSE av.cam
                             /\ cam = av.cam \/ (cam = av.id /\ av.on)
      BY <1>1, <1>3 DEF Media!isCurrentVideo, MediaOwned, VideoCurrent
    <3>2. av' = MediaPut(av, av.tasks \ {t}, av.mic, cam, av.view, av.key)
      BY <1>1, <2>5, <3>1 DEF Media!End, MediaPut, MediaState
    <3> QED
      BY <1>1, <2>0, <3>1, <3>2, MediaDone
  <2>6. CASE /\ Media!isCurrentVideo(av, t)
             /\ av' = Media!Spawn([Media!End(av, t) EXCEPT !.on = FALSE, !.vgen = @ + 1], "video-stop", "camera", 0)
    <3> DEFINE s == Media!End(av, t)
               v == [s EXCEPT !.on = FALSE, !.vgen = @ + 1]
    <3>1. s = MediaPut(av, av.tasks \ {t}, av.mic, av.cam, av.view, av.key)
      BY <1>1 DEF Media!End, MediaPut, MediaState
    <3>2. MediaOwned(s)
      BY <1>1, <2>0, <3>1, MediaDone
    <3> HIDE DEF s
    <3>3. s \in MediaState /\ s.vgen + 1 \in Nat
      BY <3>2, MediaCounts DEF MediaOwned
    <3>4. v \in MediaState /\ v.tasks = s.tasks /\ v.vgen = s.vgen + 1 /\ v.id = s.id /\ SameDevices(v, s)
      BY <3>3 DEF MediaState, SameDevices
    <3>5. av' = Media!Spawn(v, "video-stop", "camera", 0)
      BY <2>6 DEF s
    <3> HIDE DEF v
    <3> QED
      BY <3>2, <3>4, <3>5, MediaStopVideo
  <2> QED
    BY <1>3, <2>1, <2>2, <2>3, <2>4, <2>5, <2>6 DEF Media!VideoStep
<1> QED
  BY <1>2, <1>3 DEF Media!VideoStep

(* Nobody is recorded after a call, in any number of calls, uses of the    *)
(* camera button and tasks under way (CallManager.startMedia, stopMedia,   *)
(* startOutgoingVideo, stopOutgoingVideo): once all of them have run to    *)
(* their end, microphone and camera are closed or open for the call that   *)
(* runs.                                                                   *)
THEOREM MicIsReleased == MediaSpec => []MicReleased
<1>1. Media!Init => MediaInv
  BY DEF Media!Init, MediaInv, MediaOwned, MediaState, MicOwned, CamOwned, VideoCurrent
<1>2. MediaInv /\ [Media!Next]_av => MediaInv'
  <2> SUFFICES ASSUME MediaOwned(av), [Media!Next]_av
               PROVE  MediaOwned(av')
    BY DEF MediaInv
  <2>1. CASE Media!Ended
    BY <2>1, MediaHangup DEF Media!Ended
  <2>2. CASE UNCHANGED av
    BY <2>2
  <2> QED
    BY <2>1, <2>2, MediaAccepted, MediaToggled, MediaStopping, MediaOpening, MediaFilming DEF Media!Next
<1>3. MediaInv => MicReleased
  BY DEF MediaInv, MediaOwned, MicOwned, CamOwned, MicReleased, Media!MicReleased
<1> QED
  BY <1>1, <1>2, <1>3, PTL DEF MediaSpec

(***************************************************************************)
(* Chats: voice notes (VoiceNotes).                                        *)
(*                                                                         *)
(* A recording is in one place: in the recorder or on its way to the       *)
(* preview, in the preview, read for the message, sent, or discarded.  The *)
(* recorder and onstop may hold one recording both, and nothing else.      *)
(***************************************************************************)
NoteState ==
    [phase: {"idle", "recording", "preview"}, preview: Nat, media: Nat, recorder: Nat, asked: Nat, open: SUBSET Nat,
     stopping: SUBSET Nat, reading: SUBSET Nat, streams: Nat, revoked: SUBSET Nat, sent: SUBSET Nat,
     mounted: SUBSET Players, playing: SUBSET Players, sounding: SUBSET Players, starting: SUBSET Players,
     paused: SUBSET Players, current: Players \cup {None}, plays: Nat]

Unused(s, r) == r # s.preview /\ r \notin s.reading /\ r \notin s.sent /\ r \notin s.revoked
InOnePlace(s) ==
    /\ s.recorder # 0 => Unused(s, s.recorder)
    /\ \A r \in s.stopping : Unused(s, r)
    /\ s.preview # 0 => s.preview \notin s.reading /\ s.preview \notin s.sent /\ s.preview \notin s.revoked
    /\ \A r \in s.reading : r \notin s.sent /\ r \notin s.revoked
    /\ \A r \in s.sent : r \notin s.revoked
NumbersUsed(s) ==
    /\ s.preview <= s.streams /\ s.recorder <= s.streams
    /\ \A r \in s.stopping \cup s.reading \cup s.sent \cup s.revoked : r <= s.streams /\ r # 0
OnlyCurrent(s) == \A p \in s.sounding : p = s.current
NotesOk(s) == s \in NoteState /\ InOnePlace(s) /\ NumbersUsed(s) /\ OnlyCurrent(s)
NotesInv == NotesOk(note)

SameNotes(r, s) ==
    /\ r.preview = s.preview /\ r.recorder = s.recorder /\ r.stopping = s.stopping /\ r.reading = s.reading
    /\ r.sent = s.sent /\ r.revoked = s.revoked /\ r.streams = s.streams
SameSound(r, s) == r.sounding = s.sounding /\ r.current = s.current

LEMMA NoteCleanup ==
    ASSUME NEW s, NotesOk(s)
    PROVE  NotesOk(Notes!cleanupCapture(s)) /\ Notes!cleanupCapture(s).recorder = 0
<1> DEFINE r == Notes!cleanupCapture(s)
<1>0. s \in NoteState
  BY DEF NotesOk
<1>1. /\ r \in NoteState /\ r.recorder = 0 /\ r.preview = s.preview /\ r.stopping = s.stopping
      /\ r.reading = s.reading /\ r.sent = s.sent /\ r.revoked = s.revoked /\ r.streams = s.streams
      /\ SameSound(r, s)
  BY <1>0 DEF Notes!cleanupCapture, NoteState, SameSound
<1> HIDE DEF r
<1> QED
  BY <1>1 DEF NotesOk, InOnePlace, NumbersUsed, OnlyCurrent, Unused, NoteState, SameSound, r

LEMMA NoteDiscard ==
    ASSUME NEW s, NotesOk(s)
    PROVE  NotesOk(Notes!discardPreview(s))
<1> DEFINE r == Notes!discardPreview(s)
<1>0. s \in NoteState /\ (s.revoked \cup {s.preview}) \ {0} \in SUBSET Nat
  BY DEF NotesOk, NoteState
<1>1. /\ r \in NoteState /\ r.recorder = s.recorder /\ r.preview = 0 /\ r.stopping = s.stopping
      /\ r.reading = s.reading /\ r.sent = s.sent /\ r.revoked = (s.revoked \cup {s.preview}) \ {0}
      /\ r.streams = s.streams /\ SameSound(r, s)
  BY <1>0 DEF Notes!discardPreview, NoteState, SameSound
<1> HIDE DEF r
<1>2. InOnePlace(r)
  BY <1>1 DEF NotesOk, InOnePlace, NumbersUsed, Unused
<1>3. NumbersUsed(r) /\ OnlyCurrent(r)
  BY <1>0, <1>1 DEF NotesOk, NumbersUsed, OnlyCurrent, NoteState, SameSound
<1> QED
  BY <1>1, <1>2, <1>3 DEF NotesOk, r

(* A step that touches neither recordings nor sound. *)
LEMMA NoteSame ==
    ASSUME NEW s, NotesOk(s), NEW r \in NoteState, SameNotes(r, s), OnlyCurrent(r)
    PROVE  NotesOk(r)
  BY DEF NotesOk, InOnePlace, NumbersUsed, Unused, SameNotes

LEMMA NoteReset ==
    ASSUME NotesOk(note), Notes!Reset
    PROVE  NotesOk(note')
<1> DEFINE s == Notes!discardPreview(Notes!cleanupCapture(note))
<1>1. NotesOk(s)
  BY NoteCleanup, NoteDiscard
<1>2. note' = [s EXCEPT !.phase = "idle"]
  BY DEF Notes!Reset, Notes!reset
<1> HIDE DEF s
<1>3. note' \in NoteState /\ SameNotes(note', s) /\ OnlyCurrent(note')
  BY <1>1, <1>2 DEF NotesOk, NoteState, SameNotes, OnlyCurrent
<1> QED
  BY <1>1, <1>3, NoteSame

LEMMA NoteStart ==
    ASSUME NotesOk(note), Notes!start
    PROVE  NotesOk(note')
<1> DEFINE s == Notes!discardPreview(note)
<1>1. NotesOk(s)
  BY NoteDiscard
<1>2. note' = [s EXCEPT !.asked = @ + 1]
  BY DEF Notes!start
<1> HIDE DEF s
<1>3. s \in NoteState /\ s.asked + 1 \in Nat
  BY <1>1 DEF NotesOk, NoteState
<1>4. note' \in NoteState /\ SameNotes(note', s) /\ SameSound(note', s)
  BY <1>2, <1>3 DEF NoteState, SameNotes, SameSound
<1>5. OnlyCurrent(note')
  BY <1>1, <1>4 DEF NotesOk, OnlyCurrent, SameSound
<1> QED
  BY <1>1, <1>4, <1>5, NoteSame

LEMMA NoteMic ==
    ASSUME NotesOk(note), NEW ok \in BOOLEAN, Notes!MicAnswered(ok)
    PROVE  NotesOk(note')
<1> DEFINE s == [note EXCEPT !.asked = @ - 1]
           id == s.streams + 1
<1>1. note.asked > 0 /\ note \in NoteState /\ note.asked \in Nat /\ note.asked - 1 \in Nat
  <2>1. note.asked > 0 /\ note \in NoteState /\ note.asked \in Nat
    BY DEF Notes!MicAnswered, NotesOk, NoteState
  <2> QED
    BY <2>1
<1>2. s \in NoteState /\ SameNotes(s, note) /\ SameSound(s, note)
  BY <1>1 DEF NoteState, SameNotes, SameSound
<1>3. note' = IF ok THEN [s EXCEPT !.streams = id, !.media = id, !.recorder = id,
                                   !.open = @ \cup {id}, !.phase = "recording"]
              ELSE [Notes!cleanupCapture(s) EXCEPT !.phase = "idle"]
  BY DEF Notes!MicAnswered
<1> HIDE DEF s
<1>4. NotesOk(s)
  <2>1. OnlyCurrent(s)
    BY <1>2 DEF NotesOk, OnlyCurrent, SameSound
  <2> QED
    BY <1>2, <2>1, NoteSame
<1>5. CASE ok
  <2>1. id \in Nat /\ s.open \cup {id} \in SUBSET Nat
    BY <1>2 DEF NoteState
  <2>a. id > s.streams /\ id # 0 /\ s.streams \in Nat
    BY <1>2 DEF NoteState
  <2> HIDE DEF id
  <2>2. /\ note' \in NoteState /\ note'.recorder = id /\ note'.streams = id /\ SameSound(note', s)
        /\ note'.preview = s.preview /\ note'.stopping = s.stopping /\ note'.reading = s.reading
        /\ note'.sent = s.sent /\ note'.revoked = s.revoked
    BY <1>2, <1>3, <1>5, <2>1 DEF NoteState, SameSound
  <2>3. /\ s.preview \in Nat
        /\ \A r \in s.stopping \cup s.reading \cup s.sent \cup s.revoked : r \in Nat /\ r <= s.streams /\ r # 0
    BY <1>4 DEF NotesOk, NoteState, NumbersUsed
  <2>4. NumbersUsed(note')
    BY <1>4, <2>1, <2>a, <2>2, <2>3 DEF NotesOk, NumbersUsed
  <2>5. Unused(note', id)
    BY <1>4, <2>1, <2>a, <2>2, <2>3 DEF NotesOk, NumbersUsed, Unused
  <2>6. InOnePlace(note')
    BY <1>4, <2>2, <2>5 DEF NotesOk, InOnePlace, Unused
  <2> QED
    BY <1>4, <2>2, <2>4, <2>6 DEF NotesOk, OnlyCurrent, SameSound
<1>6. CASE ~ok
  <2> DEFINE c == Notes!cleanupCapture(s)
  <2>1. NotesOk(c)
    BY <1>4, NoteCleanup
  <2>2. note' = [c EXCEPT !.phase = "idle"]
    BY <1>3, <1>6
  <2> HIDE DEF c
  <2>3. note' \in NoteState /\ SameNotes(note', c) /\ OnlyCurrent(note')
    BY <2>1, <2>2 DEF NotesOk, NoteState, SameNotes, OnlyCurrent
  <2> QED
    BY <2>1, <2>3, NoteSame
<1> QED
  BY <1>5, <1>6

LEMMA NoteStop ==
    ASSUME NotesOk(note), Notes!stop
    PROVE  NotesOk(note')
<1>0. note \in NoteState /\ note.recorder # 0 /\ note.stopping \cup {note.recorder} \in SUBSET Nat
  BY DEF NotesOk, NoteState, Notes!stop
<1>1. /\ note' \in NoteState /\ note'.recorder = note.recorder /\ note'.preview = note.preview
      /\ note'.stopping = note.stopping \cup {note.recorder} /\ note'.reading = note.reading
      /\ note'.sent = note.sent /\ note'.revoked = note.revoked /\ note'.streams = note.streams
      /\ SameSound(note', note)
  BY <1>0 DEF Notes!stop, NoteState, SameSound
<1>2. InOnePlace(note')
  BY <1>0, <1>1 DEF NotesOk, InOnePlace, Unused
<1>3. NumbersUsed(note') /\ OnlyCurrent(note')
  BY <1>0, <1>1 DEF NotesOk, NumbersUsed, OnlyCurrent, SameSound
<1> QED
  BY <1>1, <1>2, <1>3 DEF NotesOk

LEMMA NoteStopDone ==
    ASSUME NotesOk(note), NEW r \in note.stopping, NEW empty \in BOOLEAN, Notes!StopDone(r, empty)
    PROVE  NotesOk(note')
<1> DEFINE d == [note EXCEPT !.stopping = @ \ {r}]
           c == Notes!cleanupCapture(d)
<1>0. note \in NoteState /\ note.stopping \ {r} \in SUBSET Nat /\ r \in Nat /\ r # 0 /\ r <= note.streams /\ Unused(note, r)
  BY DEF NotesOk, NoteState, NumbersUsed, InOnePlace
<1>1. /\ d \in NoteState /\ d.recorder = note.recorder /\ d.preview = note.preview
      /\ d.stopping = note.stopping \ {r} /\ d.reading = note.reading
      /\ d.sent = note.sent /\ d.revoked = note.revoked /\ d.streams = note.streams
      /\ SameSound(d, note)
  BY <1>0 DEF NoteState, SameSound
<1>2. note' = IF empty THEN [c EXCEPT !.phase = "idle"] ELSE [c EXCEPT !.preview = r, !.phase = "preview"]
  BY DEF Notes!StopDone
<1> HIDE DEF d
<1>3. NotesOk(d) /\ Unused(d, r)
  <2>1. InOnePlace(d) /\ Unused(d, r)
    BY <1>0, <1>1 DEF NotesOk, InOnePlace, Unused
  <2>2. NumbersUsed(d) /\ OnlyCurrent(d)
    BY <1>0, <1>1 DEF NotesOk, NumbersUsed, OnlyCurrent, SameSound
  <2> QED
    BY <1>1, <2>1, <2>2 DEF NotesOk
<1>4. NotesOk(c) /\ c.recorder = 0
  BY <1>3, NoteCleanup
<1>5. /\ c.stopping = note.stopping \ {r} /\ c.reading = d.reading /\ c.sent = d.sent /\ c.revoked = d.revoked
      /\ c.streams = d.streams
  BY <1>1 DEF Notes!cleanupCapture, NoteState
<1> HIDE DEF c
<1>6. CASE empty
  <2>1. note' \in NoteState /\ SameNotes(note', c) /\ OnlyCurrent(note')
    BY <1>2, <1>4, <1>6 DEF NotesOk, NoteState, SameNotes, OnlyCurrent
  <2> QED
    BY <1>4, <2>1, NoteSame
<1>7. CASE ~empty
  <2>1. /\ note' \in NoteState /\ note'.recorder = 0 /\ note'.preview = r
        /\ note'.stopping = c.stopping /\ note'.reading = c.reading
        /\ note'.sent = c.sent /\ note'.revoked = c.revoked /\ note'.streams = c.streams
        /\ SameSound(note', c)
    BY <1>0, <1>2, <1>4, <1>7 DEF NotesOk, NoteState, SameSound
  <2>2. InOnePlace(note')
    BY <1>0, <1>1, <1>3, <1>4, <1>5, <2>1 DEF NotesOk, InOnePlace, Unused
  <2>3. NumbersUsed(note') /\ OnlyCurrent(note')
    BY <1>0, <1>1, <1>4, <1>5, <2>1 DEF NotesOk, NumbersUsed, OnlyCurrent, SameSound, NoteState
  <2> QED
    BY <2>1, <2>2, <2>3 DEF NotesOk
<1> QED
  BY <1>6, <1>7

LEMMA NoteSend ==
    ASSUME NotesOk(note), Notes!sendVoice
    PROVE  NotesOk(note')
<1>0. note \in NoteState /\ note.preview # 0 /\ note.reading \cup {note.preview} \in SUBSET Nat
  BY DEF NotesOk, NoteState, Notes!sendVoice
<1>1. /\ note' \in NoteState /\ note'.recorder = note.recorder /\ note'.preview = 0
      /\ note'.stopping = note.stopping /\ note'.reading = note.reading \cup {note.preview}
      /\ note'.sent = note.sent /\ note'.revoked = note.revoked /\ note'.streams = note.streams
      /\ SameSound(note', note)
  BY <1>0 DEF Notes!sendVoice, Notes!consumePreview, NoteState, SameSound
<1>2. InOnePlace(note')
  BY <1>0, <1>1 DEF NotesOk, InOnePlace, Unused, NumbersUsed
<1>3. NumbersUsed(note') /\ OnlyCurrent(note')
  BY <1>0, <1>1 DEF NotesOk, NumbersUsed, OnlyCurrent, SameSound, NoteState
<1> QED
  BY <1>1, <1>2, <1>3 DEF NotesOk

LEMMA NoteRead ==
    ASSUME NotesOk(note), NEW n \in note.reading, NEW ok \in BOOLEAN, Notes!VoiceRead(n, ok)
    PROVE  NotesOk(note')
<1> DEFINE d == [note EXCEPT !.reading = @ \ {n}]
<1>0. /\ note \in NoteState /\ n \in Nat /\ note.reading \ {n} \in SUBSET Nat
      /\ note.sent \cup {n} \in SUBSET Nat /\ note.revoked \cup {n} \in SUBSET Nat
  BY DEF NotesOk, NoteState
<1>1. note' = IF ok THEN [d EXCEPT !.sent = @ \cup {n}] ELSE [d EXCEPT !.revoked = @ \cup {n}]
  BY DEF Notes!VoiceRead
<1>2. /\ note' \in NoteState /\ note'.recorder = note.recorder /\ note'.preview = note.preview
      /\ note'.stopping = note.stopping /\ note'.reading = note.reading \ {n}
      /\ note'.streams = note.streams /\ SameSound(note', note)
      /\ \/ note'.sent = note.sent \cup {n} /\ note'.revoked = note.revoked
         \/ note'.sent = note.sent /\ note'.revoked = note.revoked \cup {n}
  <2>1. CASE ok
    BY <1>0, <1>1, <2>1 DEF NoteState, SameSound
  <2>2. CASE ~ok
    BY <1>0, <1>1, <2>2 DEF NoteState, SameSound
  <2> QED
    BY <2>1, <2>2
<1>3. InOnePlace(note')
  BY <1>0, <1>2 DEF NotesOk, InOnePlace, Unused, NumbersUsed
<1>4. NumbersUsed(note') /\ OnlyCurrent(note')
  BY <1>0, <1>2 DEF NotesOk, NumbersUsed, OnlyCurrent, SameSound
<1> QED
  BY <1>2, <1>3, <1>4 DEF NotesOk

(* A player stops: nothing sounds but for the claim that is left. *)
LEMMA NoteStopPlayer ==
    ASSUME NEW s, NotesOk(s), NEW p \in Players
    PROVE  /\ NotesOk(Notes!stopPlayer(s, p)) /\ SameNotes(Notes!stopPlayer(s, p), s)
           /\ Notes!stopPlayer(s, p).sounding = s.sounding \ {p}
<1> DEFINE v == Notes!pause(s, p)
           r == Notes!stopPlayer(s, p)
<1>0. s \in NoteState /\ s.sounding \ {p} \in SUBSET Players /\ s.playing \ {p} \in SUBSET Players
      /\ s.paused \cup {p} \in SUBSET Players
  BY DEF NotesOk, NoteState
<1>1. v \in NoteState /\ SameNotes(v, s) /\ v.sounding = s.sounding \ {p} /\ v.current = s.current
  BY <1>0 DEF Notes!pause, NoteState, SameNotes
<1>2. r = IF v.current = p THEN [v EXCEPT !.current = None] ELSE v
  BY DEF Notes!stopPlayer, Notes!releaseVoicePlayback
<1> HIDE DEF v
<1>3. r \in NoteState /\ SameNotes(r, v) /\ r.sounding = v.sounding /\ (v.current = p \/ r.current = v.current)
  BY <1>1, <1>2 DEF NoteState, SameNotes
<1> HIDE DEF r
<1>4. OnlyCurrent(r) /\ SameNotes(r, s)
  BY <1>1, <1>3 DEF NotesOk, OnlyCurrent, SameNotes
<1> QED
  BY <1>1, <1>3, <1>4, NoteSame DEF r

LEMMA NoteToggle ==
    ASSUME NotesOk(note), NEW p \in Players, Notes!toggle(p), None \notin Players
    PROVE  NotesOk(note')
<1> DEFINE s == [note EXCEPT !.plays = @ + 1]
           f == IF s.current \in {None, p} THEN s ELSE Notes!stopPlayer(s, s.current)
<1>0. note \in NoteState /\ note.plays + 1 \in Nat
  BY DEF NotesOk, NoteState
<1>1. s \in NoteState /\ SameNotes(s, note) /\ SameSound(s, note)
  BY <1>0 DEF NoteState, SameNotes, SameSound
<1>2. note' = IF p \in s.playing THEN Notes!stopPlayer(s, p)
              ELSE [Notes!claimVoicePlayback(s, p) EXCEPT !.sounding = @ \cup {p}, !.starting = @ \cup {p}]
  BY DEF Notes!toggle
<1>3. Notes!claimVoicePlayback(s, p) = [f EXCEPT !.current = p]
  BY DEF Notes!claimVoicePlayback
<1> HIDE DEF s
<1>4. NotesOk(s)
  <2>1. OnlyCurrent(s)
    BY <1>1 DEF NotesOk, OnlyCurrent, SameSound
  <2> QED
    BY <1>1, <2>1, NoteSame
<1>5. CASE p \in s.playing
  BY <1>2, <1>4, <1>5, NoteStopPlayer
<1>6. CASE p \notin s.playing
  <2>1. NotesOk(f) /\ \A q \in f.sounding : q = p
    <3>1. CASE s.current \in {None, p}
      BY <1>4, <3>1 DEF NotesOk, OnlyCurrent, NoteState
    <3>2. CASE s.current \notin {None, p}
      <4>1. s.current \in Players
        BY <1>4, <3>2 DEF NotesOk, NoteState
      <4> QED
        BY <1>4, <3>2, <4>1, NoteStopPlayer DEF NotesOk, OnlyCurrent
    <3> QED
      BY <3>1, <3>2
  <2> HIDE DEF f
  <2>2. note' = [f EXCEPT !.current = p, !.sounding = f.sounding \cup {p}, !.starting = f.starting \cup {p}]
    BY <1>2, <1>3, <1>6, <2>1 DEF NotesOk, NoteState
  <2>3. f \in NoteState /\ f.sounding \cup {p} \in SUBSET Players /\ f.starting \cup {p} \in SUBSET Players
    BY <2>1 DEF NotesOk, NoteState
  <2>4. note' \in NoteState /\ SameNotes(note', f) /\ note'.sounding = f.sounding \cup {p} /\ note'.current = p
    BY <2>2, <2>3 DEF NoteState, SameNotes
  <2>5. OnlyCurrent(note')
    BY <2>1, <2>4 DEF OnlyCurrent
  <2> QED
    BY <2>1, <2>4, <2>5, NoteSame
<1> QED
  BY <1>5, <1>6

LEMMA NotePlayers ==
    ASSUME NotesOk(note), NEW p \in Players,
           Notes!PlayAnswered(p) \/ Notes!PauseEvent(p) \/ Notes!MediaKey(p) \/ Notes!Mount(p)
    PROVE  NotesOk(note')
<1>0. note \in NoteState
  BY DEF NotesOk
<1>1. /\ note' \in NoteState /\ SameNotes(note', note) /\ note'.current = note.current
      /\ note'.sounding \subseteq note.sounding
  <2>1. CASE Notes!PlayAnswered(p)
    <3>1. note.playing \cup {p} \in SUBSET Players /\ note.playing \ {p} \in SUBSET Players /\ note.starting \ {p} \in SUBSET Players
      BY <1>0 DEF NoteState
    <3> QED
      BY <1>0, <2>1, <3>1 DEF Notes!PlayAnswered, NoteState, SameNotes
  <2>2. CASE Notes!PauseEvent(p)
    BY <1>0, <2>2 DEF Notes!PauseEvent, NoteState, SameNotes
  <2>3. CASE Notes!MediaKey(p)
    BY <1>0, <2>3 DEF Notes!MediaKey, NoteState, SameNotes
  <2>4. CASE Notes!Mount(p)
    BY <1>0, <2>4 DEF Notes!Mount, NoteState, SameNotes
  <2> QED
    BY <2>1, <2>2, <2>3, <2>4
<1>2. OnlyCurrent(note')
  BY <1>1 DEF NotesOk, OnlyCurrent
<1> QED
  BY <1>1, <1>2, NoteSame

LEMMA NoteEnded ==
    ASSUME NotesOk(note), NEW p \in Players, Notes!onEnded(p) \/ Notes!Unmount(p)
    PROVE  NotesOk(note')
<1>1. CASE Notes!onEnded(p)
  <2> DEFINE v == [note EXCEPT !.sounding = @ \ {p}, !.playing = @ \ {p}]
  <2>1. v \in NoteState /\ SameNotes(v, note) /\ v.sounding = note.sounding \ {p} /\ v.current = note.current
    BY DEF NotesOk, NoteState, SameNotes
  <2>2. note' = IF v.current = p THEN [v EXCEPT !.current = None] ELSE v
    BY <1>1 DEF Notes!onEnded, Notes!releaseVoicePlayback
  <2> HIDE DEF v
  <2>3. note' \in NoteState /\ SameNotes(note', v) /\ note'.sounding = v.sounding /\ (v.current = p \/ note'.current = v.current)
    BY <2>1, <2>2 DEF NoteState, SameNotes
  <2>4. OnlyCurrent(note') /\ SameNotes(note', note)
    BY <2>1, <2>3 DEF NotesOk, OnlyCurrent, SameNotes
  <2> QED
    BY <2>3, <2>4, NoteSame
<1>2. CASE Notes!Unmount(p)
  <2> DEFINE v == Notes!stopPlayer(note, p)
  <2>1. NotesOk(v)
    BY NoteStopPlayer
  <2>2. note' = [v EXCEPT !.mounted = @ \ {p}]
    BY <1>2 DEF Notes!Unmount
  <2> HIDE DEF v
  <2>3. note' \in NoteState /\ SameNotes(note', v) /\ OnlyCurrent(note')
    BY <2>1, <2>2 DEF NotesOk, NoteState, SameNotes, OnlyCurrent
  <2> QED
    BY <2>1, <2>3, NoteSame
<1> QED
  BY <1>1, <1>2

(* A voice message that was sent stays playable and at most one sounds     *)
(* (useVoiceRecorder.js, Composer.sendVoice, VoicePlayer.jsx and           *)
(* playbackController.js), for any number of recordings and players, when  *)
(* no player is the null of playbackController.                            *)
THEOREM NotesAreHonest == NotesSpec => []NotesHonest
<1>1. Notes!Init => NotesInv
  BY DEF Notes!Init, NotesInv, NotesOk, NoteState, InOnePlace, NumbersUsed, OnlyCurrent, Unused
<1>2. NotesInv /\ [Notes!Next]_note => NotesInv'
  <2> SUFFICES ASSUME NotesOk(note), [Notes!Next]_note
               PROVE  NotesOk(note')
    BY DEF NotesInv
  <2>1. CASE UNCHANGED note
    BY <2>1
  <2>2. None \notin Players
    BY ClientAssumption
  <2> QED
    BY <2>1, <2>2, NoteReset, NoteStart, NoteMic, NoteStop, NoteStopDone, NoteSend, NoteRead, NoteToggle, NotePlayers, NoteEnded
       DEF Notes!Next
<1>3. NotesInv => NotesHonest
  BY DEF NotesInv, NotesOk, InOnePlace, OnlyCurrent, NotesHonest, Notes!NotesHonest, Notes!NoteKept, Notes!OnePlays
<1> QED
  BY <1>1, <1>2, <1>3, PTL DEF NotesSpec

(***************************************************************************)
(* Chats: messages, receipts, retries (ChatDelivery).                      *)
(*                                                                         *)
(* A message is safe once B has it, the mailbox has it or B refused it,    *)
(* and stays so.  Its sender knows of that from what the relay answered to *)
(* a send or a retry, or from a receipt, on its way or taken.              *)
(***************************************************************************)
ChatStatuses == {"new", "pending", "scheduled", "sent", "delivered", "blocked", "gone"}
ChatTasks == {"no", "wait", "deliver", "failed", "direct", "stored", "delivered"}
ChatWires == [kind: {"msg", "messaging-blocked", "delivery-receipt", "blocked", "unblocked"}, m: Ids \cup {0}]
ChatMsg == [status: ChatStatuses, task: ChatTasks, retry: ChatTasks, timer: BOOLEAN, cloudStored: BOOLEAN, kept: BOOLEAN]
ChatState ==
    [msg: [Ids -> ChatMsg], wire: [{"A", "B"} -> Seq(ChatWires)], conn: BOOLEAN, session: BOOLEAN, cloud: BOOLEAN,
     box: SUBSET Ids, reading: SUBSET [m: Ids, mail: BOOLEAN], stored: SUBSET Ids, refused: SUBSET Ids,
     blocked: BOOLEAN, blockedByPeer: BOOLEAN, cuts: Nat, blocks: Nat]

ChatSafe(s) == s.stored \cup s.box \cup s.refused
Claims(v) == v.status \in {"sent", "delivered"} \/ v.task \in {"stored", "delivered"} \/ v.retry \in {"stored", "delivered"}
ClaimsSafe(s) == \A m \in Ids : Claims(s.msg[m]) => m \in ChatSafe(s)
WiresTrue(s) ==
    /\ \A i \in 1..Len(s.wire["A"]) :
         /\ s.wire["A"][i].kind # "msg"
         /\ s.wire["A"][i].kind \in {"messaging-blocked", "delivery-receipt"} => s.wire["A"][i].m \in Ids
         /\ s.wire["A"][i].kind = "delivery-receipt" => s.wire["A"][i].m \in ChatSafe(s)
    /\ \A i \in 1..Len(s.wire["B"]) : s.wire["B"][i].m \in Ids
ChatOk(s) == s \in ChatState /\ ClaimsSafe(s) /\ WiresTrue(s)
ChatInv == ChatOk(chat)

(* The other parts stay while a message changes. *)
ChatSame(r, s) ==
    r.wire = s.wire /\ r.box = s.box /\ r.reading = s.reading /\ r.stored = s.stored /\ r.refused = s.refused /\ r.conn = s.conn
ChatSet(s, m, v) == [s EXCEPT !.msg[m] = v]

LEMMA ChatSetOk ==
    ASSUME NEW s, ChatOk(s), NEW m \in Ids, NEW v \in ChatMsg, Claims(v) => m \in ChatSafe(s)
    PROVE  ChatOk(ChatSet(s, m, v))
<1> DEFINE r == ChatSet(s, m, v)
<1>0. s \in ChatState /\ s.msg \in [Ids -> ChatMsg]
  BY DEF ChatOk, ChatState
<1>1. [s.msg EXCEPT ![m] = v] \in [Ids -> ChatMsg]
  BY <1>0
<1>2. r \in ChatState /\ ChatSame(r, s) /\ r.msg = [s.msg EXCEPT ![m] = v]
  BY <1>0, <1>1 DEF ChatSet, ChatState, ChatSame
<1> HIDE DEF r
<1>3. ClaimsSafe(r) /\ WiresTrue(r)
  BY <1>0, <1>2 DEF ChatOk, ClaimsSafe, WiresTrue, ChatSafe, ChatSame
<1> QED
  BY <1>2, <1>3 DEF ChatOk, r

(* The messages and what is on the wire stay, nothing becomes unsafe. *)
LEMMA ChatKeeps ==
    ASSUME NEW s, ChatOk(s), NEW r \in ChatState, r.msg = s.msg, r.wire = s.wire, ChatSafe(s) \subseteq ChatSafe(r)
    PROVE  ChatOk(r)
  BY DEF ChatOk, ClaimsSafe, WiresTrue

ChatPush(s, q, w) == [s EXCEPT !.wire[q] = Append(@, w)]
ChatPop(s, q) == [s EXCEPT !.wire[q] = Tail(@)]
WireTrue(s, q, w) ==
    /\ w \in ChatWires
    /\ q = "B" => w.m \in Ids
    /\ q = "A" => w.kind # "msg" /\ (w.kind \in {"messaging-blocked", "delivery-receipt"} => w.m \in Ids)
    /\ q = "A" /\ w.kind = "delivery-receipt" => w.m \in ChatSafe(s)

LEMMA ChatPushOk ==
    ASSUME NEW s, ChatOk(s), NEW q \in {"A", "B"}, NEW w, WireTrue(s, q, w)
    PROVE  ChatOk(ChatPush(s, q, w))
<1> DEFINE r == ChatPush(s, q, w)
<1>0. s \in ChatState /\ s.wire \in [{"A", "B"} -> Seq(ChatWires)] /\ s.wire[q] \in Seq(ChatWires) /\ w \in ChatWires
  BY DEF ChatOk, ChatState, WireTrue
<1>1. Append(s.wire[q], w) \in Seq(ChatWires)
  BY <1>0
<1>2. r \in ChatState /\ r.msg = s.msg /\ r.wire = [s.wire EXCEPT ![q] = Append(s.wire[q], w)]
      /\ r.box = s.box /\ r.stored = s.stored /\ r.refused = s.refused
  BY <1>0, <1>1 DEF ChatPush, ChatState
<1>3. ChatSafe(r) = ChatSafe(s) /\ ClaimsSafe(r)
  BY <1>2 DEF ChatOk, ChatSafe, ClaimsSafe
<1>4. /\ Len(Append(s.wire[q], w)) = Len(s.wire[q]) + 1 /\ Len(s.wire[q]) \in Nat
      /\ \A i \in 1..Len(s.wire[q]) : Append(s.wire[q], w)[i] = s.wire[q][i]
      /\ Append(s.wire[q], w)[Len(s.wire[q]) + 1] = w
  BY <1>0, AppendProperties
<1>5. \A p \in {"A", "B"} : p # q => r.wire[p] = s.wire[p]
  BY <1>0, <1>2
<1>6. r.wire[q] = Append(s.wire[q], w)
  BY <1>0, <1>2
<1> HIDE DEF r
<1>7. \A i \in 1..Len(r.wire[q]) : i \in 1..Len(s.wire[q]) \/ i = Len(s.wire[q]) + 1
  BY <1>4, <1>6
<1>8. WiresTrue(r)
  <2>1. CASE q = "A"
    <3>1. ASSUME NEW i \in 1..Len(r.wire["A"])
          PROVE  /\ r.wire["A"][i].kind # "msg"
                 /\ r.wire["A"][i].kind \in {"messaging-blocked", "delivery-receipt"} => r.wire["A"][i].m \in Ids
                 /\ r.wire["A"][i].kind = "delivery-receipt" => r.wire["A"][i].m \in ChatSafe(s)
      <4>1. CASE i \in 1..Len(s.wire[q])
        BY <1>4, <1>6, <2>1, <4>1 DEF ChatOk, WiresTrue
      <4>2. CASE r.wire["A"][i] = w
        BY <2>1, <4>2 DEF WireTrue
      <4> QED
        BY <1>4, <1>6, <1>7, <2>1, <4>1, <4>2
    <3>2. r.wire["B"] = s.wire["B"]
      BY <1>5, <2>1
    <3> QED
      BY <1>3, <3>1, <3>2 DEF ChatOk, WiresTrue
  <2>2. CASE q = "B"
    BY <1>3, <1>4, <1>5, <1>6, <1>7, <2>2 DEF ChatOk, WiresTrue, WireTrue
  <2> QED
    BY <2>1, <2>2
<1> QED
  BY <1>2, <1>3, <1>8 DEF ChatOk, r

LEMMA ChatPopOk ==
    ASSUME NEW s, ChatOk(s), NEW q \in {"A", "B"}, s.wire[q] # <<>>
    PROVE  /\ ChatOk(ChatPop(s, q)) /\ ChatPop(s, q).msg = s.msg /\ ChatSafe(ChatPop(s, q)) = ChatSafe(s)
           /\ WireTrue(s, q, Head(s.wire[q]))
<1> DEFINE r == ChatPop(s, q)
<1>0. s \in ChatState /\ s.wire \in [{"A", "B"} -> Seq(ChatWires)] /\ s.wire[q] \in Seq(ChatWires)
  BY DEF ChatOk, ChatState
<1>1. Tail(s.wire[q]) \in Seq(ChatWires)
  BY <1>0
<1>2. r \in ChatState /\ r.msg = s.msg /\ r.wire = [s.wire EXCEPT ![q] = Tail(s.wire[q])]
      /\ r.box = s.box /\ r.stored = s.stored /\ r.refused = s.refused
  BY <1>0, <1>1 DEF ChatPop, ChatState
<1>3. ChatSafe(r) = ChatSafe(s) /\ ClaimsSafe(r)
  BY <1>2 DEF ChatOk, ChatSafe, ClaimsSafe
<1>4. /\ Len(Tail(s.wire[q])) = Len(s.wire[q]) - 1 /\ Len(s.wire[q]) \in Nat /\ 1 \in 1..Len(s.wire[q])
      /\ \A i \in 1..Len(Tail(s.wire[q])) : i + 1 \in 1..Len(s.wire[q]) /\ Tail(s.wire[q])[i] = s.wire[q][i + 1]
      /\ Head(s.wire[q]) = s.wire[q][1] /\ Head(s.wire[q]) \in ChatWires
  BY <1>0
<1>5. \A p \in {"A", "B"} : p # q => r.wire[p] = s.wire[p]
  BY <1>0, <1>2
<1>6. r.wire[q] = Tail(s.wire[q])
  BY <1>0, <1>2
<1> HIDE DEF r
<1>7. WiresTrue(r)
  <2>1. CASE q = "A"
    <3>1. ASSUME NEW i \in 1..Len(r.wire["A"])
          PROVE  /\ r.wire["A"][i].kind # "msg"
                 /\ r.wire["A"][i].kind \in {"messaging-blocked", "delivery-receipt"} => r.wire["A"][i].m \in Ids
                 /\ r.wire["A"][i].kind = "delivery-receipt" => r.wire["A"][i].m \in ChatSafe(r)
      <4>1. i + 1 \in 1..Len(s.wire["A"]) /\ r.wire["A"][i] = s.wire["A"][i + 1]
        BY <1>4, <1>6, <2>1
      <4> QED
        BY <1>3, <4>1 DEF ChatOk, WiresTrue
    <3>2. r.wire["B"] = s.wire["B"]
      BY <1>5, <2>1
    <3> QED
      BY <3>1, <3>2 DEF ChatOk, WiresTrue
  <2>2. CASE q = "B"
    <3>1. ASSUME NEW i \in 1..Len(r.wire["B"])
          PROVE  r.wire["B"][i].m \in Ids
      <4>1. i + 1 \in 1..Len(s.wire["B"]) /\ r.wire["B"][i] = s.wire["B"][i + 1]
        BY <1>4, <1>6, <2>2
      <4> QED
        BY <4>1 DEF ChatOk, WiresTrue
    <3>2. r.wire["A"] = s.wire["A"]
      BY <1>5, <2>2
    <3> QED
      BY <1>3, <3>1, <3>2 DEF ChatOk, WiresTrue
  <2> QED
    BY <2>1, <2>2
<1>8. WireTrue(s, q, Head(s.wire[q]))
  BY <1>4 DEF ChatOk, WiresTrue, WireTrue
<1> QED
  BY <1>2, <1>3, <1>7, <1>8 DEF ChatOk, r

LEMMA ChatMsgType ==
    ASSUME NEW s, ChatOk(s), NEW m \in Ids
    PROVE  s.msg[m] \in ChatMsg /\ (Claims(s.msg[m]) => m \in ChatSafe(s))
  BY DEF ChatOk, ChatState, ClaimsSafe

LEMMA ChatPutMsg ==
    ASSUME NEW s, ChatOk(s), NEW m \in Ids
    PROVE  ChatOk(Chat!Put(s, "B", "msg", m))
<1> DEFINE w == [kind |-> "msg", m |-> m]
<1>1. WireTrue(s, "B", w)
  BY DEF WireTrue, ChatWires
<1>2. Chat!Put(s, "B", "msg", m) = IF s.conn THEN ChatPush(s, "B", w) ELSE s
  BY DEF Chat!Put, ChatPush
<1> HIDE DEF w
<1> QED
  BY <1>1, <1>2, ChatPushOk

LEMMA ChatPutReceipt ==
    ASSUME NEW s, ChatOk(s), NEW m \in Ids, m \in ChatSafe(s)
    PROVE  ChatOk(Chat!Put(s, "A", "delivery-receipt", m))
<1> DEFINE w == [kind |-> "delivery-receipt", m |-> m]
<1>1. WireTrue(s, "A", w)
  BY DEF WireTrue, ChatWires
<1>2. Chat!Put(s, "A", "delivery-receipt", m) = IF s.conn THEN ChatPush(s, "A", w) ELSE s
  BY DEF Chat!Put, ChatPush
<1> HIDE DEF w
<1> QED
  BY <1>1, <1>2, ChatPushOk

LEMMA ChatPutRefusal ==
    ASSUME NEW s, ChatOk(s), NEW m \in Ids
    PROVE  ChatOk(Chat!Put(s, "A", "messaging-blocked", m))
<1> DEFINE w == [kind |-> "messaging-blocked", m |-> m]
<1>1. WireTrue(s, "A", w)
  BY DEF WireTrue, ChatWires
<1>2. Chat!Put(s, "A", "messaging-blocked", m) = IF s.conn THEN ChatPush(s, "A", w) ELSE s
  BY DEF Chat!Put, ChatPush
<1> HIDE DEF w
<1> QED
  BY <1>1, <1>2, ChatPushOk

LEMMA ChatPutNotice ==
    ASSUME NEW s, ChatOk(s), NEW kind \in {"blocked", "unblocked"}
    PROVE  ChatOk(Chat!Put(s, "A", kind, 0))
<1> DEFINE w == [kind |-> kind, m |-> 0]
<1>1. WireTrue(s, "A", w)
  BY DEF WireTrue, ChatWires
<1>2. Chat!Put(s, "A", kind, 0) = IF s.conn THEN ChatPush(s, "A", w) ELSE s
  BY DEF Chat!Put, ChatPush
<1> HIDE DEF w
<1> QED
  BY <1>1, <1>2, ChatPushOk

LEMMA ChatSend ==
    ASSUME ChatOk(chat), NEW m \in Ids, Chat!sendMessage(m)
    PROVE  ChatOk(chat')
<1> DEFINE x == IF chat.session THEN "deliver" ELSE "wait"
           v == [chat.msg[m] EXCEPT !.status = "pending", !.task = x]
<1>1. chat' = ChatSet(chat, m, v)
  BY DEF Chat!sendMessage, Chat!At, Chat!Status, ChatSet, ChatOk, ChatState, ChatMsg
<1>2. x \in ChatTasks /\ x \notin {"stored", "delivered"}
  BY DEF ChatTasks
<1> HIDE DEF x
<1>3. v \in ChatMsg /\ v.status = "pending" /\ v.task = x /\ v.retry = chat.msg[m].retry
  BY <1>2, ChatMsgType DEF ChatMsg, ChatStatuses
<1> HIDE DEF v
<1>4. Claims(v) => m \in ChatSafe(chat)
  BY <1>2, <1>3, ChatMsgType DEF Claims
<1> QED
  BY <1>1, <1>3, <1>4, ChatSetOk

LEMMA ChatFail ==
    ASSUME NEW s, ChatOk(s), NEW m \in Ids
    PROVE  ChatOk(Chat!failScheduled(s, m))
<1> DEFINE v == [s.msg[m] EXCEPT !.status = "scheduled", !.task = "no"]
<1>1. Chat!failScheduled(s, m) = ChatSet(s, m, v)
  BY DEF Chat!failScheduled, Chat!At, Chat!Status, ChatSet, ChatOk, ChatState, ChatMsg
<1>3. v \in ChatMsg /\ v.status = "scheduled" /\ v.task = "no" /\ v.retry = s.msg[m].retry
  BY ChatMsgType DEF ChatMsg, ChatStatuses, ChatTasks
<1> HIDE DEF v
<1>4. Claims(v) => m \in ChatSafe(s)
  BY <1>3, ChatMsgType DEF Claims
<1> QED
  BY <1>1, <1>3, <1>4, ChatSetOk

LEMMA ChatWait ==
    ASSUME ChatOk(chat), NEW m \in Ids, Chat!waitForE2eeSession(m)
    PROVE  ChatOk(chat')
<1>1. CASE chat' = Chat!failScheduled(chat, m)
  BY <1>1, ChatFail
<1>2. CASE chat' = Chat!At(chat, m, "deliver")
  <2> DEFINE v == [chat.msg[m] EXCEPT !.task = "deliver"]
  <2>1. chat' = ChatSet(chat, m, v)
    BY <1>2 DEF Chat!At, ChatSet, ChatOk, ChatState, ChatMsg
  <2>3. v \in ChatMsg /\ v.status = chat.msg[m].status /\ v.task = "deliver" /\ v.retry = chat.msg[m].retry
    BY ChatMsgType DEF ChatMsg, ChatTasks
  <2> HIDE DEF v
  <2>4. Claims(v) => m \in ChatSafe(chat)
    BY <2>3, ChatMsgType DEF Claims
  <2> QED
    BY <2>1, <2>3, <2>4, ChatSetOk
<1> QED
  BY <1>1, <1>2 DEF Chat!waitForE2eeSession

LEMMA ChatOutcome_task ==
    ASSUME ChatOk(chat), NEW m \in Ids, NEW s \in Chat!deliverPeerPayload(m, "task")
    PROVE  ChatOk(s)
<1>1. \/ s = ChatSet(chat, m, [chat.msg[m] EXCEPT !.task = "failed"])
      \/ \E x \in {"stored", "delivered"} :
           s = ChatSet([chat EXCEPT !.box = @ \cup {m}], m, [chat.msg[m] EXCEPT !.task = x])
      \/ s = ChatSet(Chat!Put([chat EXCEPT !.conn = TRUE], "B", "msg", m), m, [chat.msg[m] EXCEPT !.task = "direct"])
  BY DEF Chat!deliverPeerPayload, ChatSet, ChatOk, ChatState, ChatMsg, Chat!Put
<1>2. ASSUME NEW x \in ChatTasks
      PROVE  LET v == [chat.msg[m] EXCEPT !.task = x]
             IN  v \in ChatMsg /\ v.status = chat.msg[m].status /\ v.retry = chat.msg[m].retry /\ v.task = x
  BY <1>2, ChatMsgType DEF ChatMsg
<1>3. CASE s = ChatSet(chat, m, [chat.msg[m] EXCEPT !.task = "failed"])
  <2> DEFINE v == [chat.msg[m] EXCEPT !.task = "failed"]
  <2>1. v \in ChatMsg /\ (Claims(v) => m \in ChatSafe(chat))
    BY <1>2, ChatMsgType DEF Claims, ChatTasks
  <2> HIDE DEF v
  <2> QED
    BY <1>3, <2>1, ChatSetOk DEF v
<1>4. CASE \E x \in {"stored", "delivered"} :
              s = ChatSet([chat EXCEPT !.box = @ \cup {m}], m, [chat.msg[m] EXCEPT !.task = x])
  <2> DEFINE b == [chat EXCEPT !.box = @ \cup {m}]
  <2>1. PICK x \in {"stored", "delivered"} : s = ChatSet(b, m, [chat.msg[m] EXCEPT !.task = x])
    BY <1>4
  <2>2. b \in ChatState /\ b.msg = chat.msg /\ b.wire = chat.wire /\ ChatSafe(chat) \subseteq ChatSafe(b) /\ m \in ChatSafe(b)
    BY DEF ChatOk, ChatState, ChatSafe
  <2> DEFINE v == [chat.msg[m] EXCEPT !.task = x]
  <2>3. v \in ChatMsg
    BY <1>2 DEF ChatTasks
  <2> HIDE DEF b, v
  <2>4. ChatOk(b)
    BY <2>2, ChatKeeps
  <2> QED
    BY <2>1, <2>2, <2>3, <2>4, ChatSetOk DEF v
<1>5. CASE s = ChatSet(Chat!Put([chat EXCEPT !.conn = TRUE], "B", "msg", m), m, [chat.msg[m] EXCEPT !.task = "direct"])
  <2> DEFINE c == [chat EXCEPT !.conn = TRUE]
             b == Chat!Put(c, "B", "msg", m)
             v == [chat.msg[m] EXCEPT !.task = "direct"]
  <2>1. c \in ChatState /\ c.msg = chat.msg /\ c.wire = chat.wire /\ ChatSafe(chat) = ChatSafe(c)
    BY DEF ChatOk, ChatState, ChatSafe
  <2>2. ChatOk(c)
    BY <2>1, ChatKeeps
  <2> HIDE DEF c
  <2>3. ChatOk(b)
    BY <2>2, ChatPutMsg
  <2>4. ChatSafe(b) = ChatSafe(c)
    BY <2>1 DEF Chat!Put, ChatState, ChatSafe
  <2>5. v \in ChatMsg /\ (Claims(v) => m \in ChatSafe(chat))
    BY <1>2, ChatMsgType DEF Claims, ChatTasks
  <2> HIDE DEF b, v
  <2> QED
    BY <1>5, <2>1, <2>3, <2>4, <2>5, ChatSetOk DEF b, c, v
<1> QED
  BY <1>1, <1>3, <1>4, <1>5

LEMMA ChatOutcome_retry ==
    ASSUME ChatOk(chat), NEW m \in Ids, NEW s \in Chat!deliverPeerPayload(m, "retry")
    PROVE  ChatOk(s)
<1>1. \/ s = ChatSet(chat, m, [chat.msg[m] EXCEPT !.retry = "failed"])
      \/ \E x \in {"stored", "delivered"} :
           s = ChatSet([chat EXCEPT !.box = @ \cup {m}], m, [chat.msg[m] EXCEPT !.retry = x])
      \/ s = ChatSet(Chat!Put([chat EXCEPT !.conn = TRUE], "B", "msg", m), m, [chat.msg[m] EXCEPT !.retry = "direct"])
  BY DEF Chat!deliverPeerPayload, ChatSet, ChatOk, ChatState, ChatMsg, Chat!Put
<1>2. ASSUME NEW x \in ChatTasks
      PROVE  LET v == [chat.msg[m] EXCEPT !.retry = x]
             IN  v \in ChatMsg /\ v.status = chat.msg[m].status /\ v.task = chat.msg[m].task /\ v.retry = x
  BY <1>2, ChatMsgType DEF ChatMsg
<1>3. CASE s = ChatSet(chat, m, [chat.msg[m] EXCEPT !.retry = "failed"])
  <2> DEFINE v == [chat.msg[m] EXCEPT !.retry = "failed"]
  <2>1. v \in ChatMsg /\ (Claims(v) => m \in ChatSafe(chat))
    BY <1>2, ChatMsgType DEF Claims, ChatTasks
  <2> HIDE DEF v
  <2> QED
    BY <1>3, <2>1, ChatSetOk DEF v
<1>4. CASE \E x \in {"stored", "delivered"} :
              s = ChatSet([chat EXCEPT !.box = @ \cup {m}], m, [chat.msg[m] EXCEPT !.retry = x])
  <2> DEFINE b == [chat EXCEPT !.box = @ \cup {m}]
  <2>1. PICK x \in {"stored", "delivered"} : s = ChatSet(b, m, [chat.msg[m] EXCEPT !.retry = x])
    BY <1>4
  <2>2. b \in ChatState /\ b.msg = chat.msg /\ b.wire = chat.wire /\ ChatSafe(chat) \subseteq ChatSafe(b) /\ m \in ChatSafe(b)
    BY DEF ChatOk, ChatState, ChatSafe
  <2> DEFINE v == [chat.msg[m] EXCEPT !.retry = x]
  <2>3. v \in ChatMsg
    BY <1>2 DEF ChatTasks
  <2> HIDE DEF b, v
  <2>4. ChatOk(b)
    BY <2>2, ChatKeeps
  <2> QED
    BY <2>1, <2>2, <2>3, <2>4, ChatSetOk DEF v
<1>5. CASE s = ChatSet(Chat!Put([chat EXCEPT !.conn = TRUE], "B", "msg", m), m, [chat.msg[m] EXCEPT !.retry = "direct"])
  <2> DEFINE c == [chat EXCEPT !.conn = TRUE]
             b == Chat!Put(c, "B", "msg", m)
             v == [chat.msg[m] EXCEPT !.retry = "direct"]
  <2>1. c \in ChatState /\ c.msg = chat.msg /\ c.wire = chat.wire /\ ChatSafe(chat) = ChatSafe(c)
    BY DEF ChatOk, ChatState, ChatSafe
  <2>2. ChatOk(c)
    BY <2>1, ChatKeeps
  <2> HIDE DEF c
  <2>3. ChatOk(b)
    BY <2>2, ChatPutMsg
  <2>4. ChatSafe(b) = ChatSafe(c)
    BY <2>1 DEF Chat!Put, ChatState, ChatSafe
  <2>5. v \in ChatMsg /\ (Claims(v) => m \in ChatSafe(chat))
    BY <1>2, ChatMsgType DEF Claims, ChatTasks
  <2> HIDE DEF b, v
  <2> QED
    BY <1>5, <2>1, <2>3, <2>4, <2>5, ChatSetOk DEF b, c, v
<1> QED
  BY <1>1, <1>3, <1>4, <1>5

LEMMA ChatDeliver ==
    ASSUME ChatOk(chat), NEW m \in Ids, Chat!Deliver(m)
    PROVE  ChatOk(chat')
<1>1. PICK s \in Chat!deliverPeerPayload(m, "task") :
        chat' = [(IF s.msg[m].task = "failed" THEN Chat!failScheduled(s, m) ELSE s) EXCEPT !.msg[m].kept = TRUE]
  BY DEF Chat!Deliver
<1> DEFINE r == IF s.msg[m].task = "failed" THEN Chat!failScheduled(s, m) ELSE s
           v == [r.msg[m] EXCEPT !.kept = TRUE]
<1>2. ChatOk(r)
  BY ChatOutcome_task, ChatFail
<1> HIDE DEF r
<1>3. chat' = ChatSet(r, m, v)
  BY <1>1, <1>2 DEF r, ChatSet, ChatOk, ChatState, ChatMsg
<1>4. v \in ChatMsg /\ v.status = r.msg[m].status /\ v.task = r.msg[m].task /\ v.retry = r.msg[m].retry
  BY <1>2, ChatMsgType DEF ChatMsg
<1> HIDE DEF v
<1>5. Claims(v) => m \in ChatSafe(r)
  BY <1>2, <1>4, ChatMsgType DEF Claims
<1> QED
  BY <1>2, <1>3, <1>4, <1>5, ChatSetOk

LEMMA ChatSent ==
    ASSUME ChatOk(chat), NEW m \in Ids, Chat!Sent(m)
    PROVE  ChatOk(chat')
<1> DEFINE c == chat.msg[m]
<1>0. c \in ChatMsg /\ (Claims(c) => m \in ChatSafe(chat))
  BY ChatMsgType
<1>1. CASE c.task = "direct"
  <2> DEFINE v == [c EXCEPT !.task = "no", !.timer = TRUE]
  <2>a. chat \in ChatState
    BY DEF ChatOk
  <2>b. Chat!Timer(Chat!At(chat, m, "no"), m, FALSE) = ChatSet(chat, m, [c EXCEPT !.task = "no", !.timer = FALSE])
    BY <2>a DEF Chat!At, Chat!Timer, ChatSet, ChatState, ChatMsg
  <2>c. chat' = Chat!Timer(ChatSet(chat, m, [c EXCEPT !.task = "no", !.timer = FALSE]), m, TRUE)
    BY <1>1, <2>b DEF Chat!Sent
  <2>1. chat' = ChatSet(chat, m, v)
    BY <2>a, <2>c DEF Chat!Timer, ChatSet, ChatState, ChatMsg
  <2>2. v \in ChatMsg /\ v.status = c.status /\ v.task = "no" /\ v.retry = c.retry
    BY <1>0 DEF ChatMsg, ChatTasks
  <2> HIDE DEF v, c
  <2>3. Claims(v) => m \in ChatSafe(chat)
    BY <1>0, <2>2 DEF Claims
  <2> QED
    BY <2>1, <2>2, <2>3, ChatSetOk
<1>2. CASE c.task = "stored"
  <2> DEFINE v == [c EXCEPT !.task = "no", !.timer = FALSE, !.status = "sent", !.cloudStored = TRUE]
  <2>a. chat \in ChatState /\ c.task # "direct"
    BY <1>2 DEF ChatOk
  <2>b. Chat!Timer(Chat!At(chat, m, "no"), m, FALSE) = ChatSet(chat, m, [c EXCEPT !.task = "no", !.timer = FALSE])
    BY <2>a DEF Chat!At, Chat!Timer, ChatSet, ChatState, ChatMsg
  <2>c. chat' = [Chat!Status(ChatSet(chat, m, [c EXCEPT !.task = "no", !.timer = FALSE]), m, "sent") EXCEPT !.msg[m].cloudStored = TRUE]
    BY <1>2, <2>b DEF Chat!Sent
  <2>1. chat' = ChatSet(chat, m, v)
    BY <2>a, <2>c DEF Chat!Status, ChatSet, ChatState, ChatMsg
  <2>2. v \in ChatMsg
    BY <1>0 DEF ChatMsg, ChatTasks, ChatStatuses
  <2> HIDE DEF v, c
  <2>3. m \in ChatSafe(chat)
    BY <1>0, <1>2 DEF Claims
  <2> QED
    BY <2>1, <2>2, <2>3, ChatSetOk
<1>3. CASE c.task = "delivered"
  <2> DEFINE v == [c EXCEPT !.task = "no", !.timer = FALSE, !.status = "delivered"]
  <2>a. chat \in ChatState /\ c.task # "direct"
    BY <1>3 DEF ChatOk
  <2>b. Chat!Timer(Chat!At(chat, m, "no"), m, FALSE) = ChatSet(chat, m, [c EXCEPT !.task = "no", !.timer = FALSE])
    BY <2>a DEF Chat!At, Chat!Timer, ChatSet, ChatState, ChatMsg
  <2>c. chat' = Chat!Status(ChatSet(chat, m, [c EXCEPT !.task = "no", !.timer = FALSE]), m, "delivered")
    BY <1>3, <2>b DEF Chat!Sent
  <2>1. chat' = ChatSet(chat, m, v)
    BY <2>a, <2>c DEF Chat!Status, ChatSet, ChatState, ChatMsg
  <2>2. v \in ChatMsg
    BY <1>0 DEF ChatMsg, ChatTasks, ChatStatuses
  <2> HIDE DEF v, c
  <2>3. m \in ChatSafe(chat)
    BY <1>0, <1>3 DEF Claims
  <2> QED
    BY <2>1, <2>2, <2>3, ChatSetOk
<1> QED
  BY <1>1, <1>2, <1>3 DEF Chat!Sent

LEMMA ChatTimer ==
    ASSUME ChatOk(chat), NEW m \in Ids, Chat!TimerFires(m)
    PROVE  ChatOk(chat')
<1> DEFINE c == chat.msg[m]
           v == [c EXCEPT !.timer = FALSE, !.status = "scheduled"]
<1>0. c \in ChatMsg /\ (Claims(c) => m \in ChatSafe(chat))
  BY ChatMsgType
<1>1. chat' = ChatSet(chat, m, v)
  BY DEF Chat!TimerFires, Chat!Timer, Chat!Status, ChatSet, ChatOk, ChatState, ChatMsg
<1>2. v \in ChatMsg /\ v.status = "scheduled" /\ v.task = c.task /\ v.retry = c.retry
  BY <1>0 DEF ChatMsg, ChatStatuses
<1> HIDE DEF v, c
<1>3. Claims(v) => m \in ChatSafe(chat)
  BY <1>0, <1>2 DEF Claims
<1> QED
  BY <1>1, <1>2, <1>3, ChatSetOk

LEMMA ChatRetry ==
    ASSUME ChatOk(chat), NEW m \in Ids, Chat!Retry(m)
    PROVE  ChatOk(chat')
<1> DEFINE c == chat.msg[m]
<1>0. c \in ChatMsg /\ (Claims(c) => m \in ChatSafe(chat))
  BY ChatMsgType
<1>1. CASE c.retry = "deliver"
  BY <1>1, ChatOutcome_retry DEF Chat!Retry
<1>2. CASE c.retry = "failed"
  <2> DEFINE v == [c EXCEPT !.retry = "no"]
  <2>1. chat' = ChatSet(chat, m, v)
    BY <1>2 DEF Chat!Retry, ChatSet, ChatOk, ChatState, ChatMsg
  <2>2. v \in ChatMsg /\ v.status = c.status /\ v.task = c.task /\ v.retry = "no"
    BY <1>0 DEF ChatMsg, ChatTasks
  <2> HIDE DEF v, c
  <2>3. Claims(v) => m \in ChatSafe(chat)
    BY <1>0, <2>2 DEF Claims
  <2> QED
    BY <2>1, <2>2, <2>3, ChatSetOk
<1>3. CASE c.retry = "direct"
  <2> DEFINE v == [c EXCEPT !.retry = "no", !.status = "pending"]
  <2>1. chat' = ChatSet(chat, m, v)
    BY <1>3 DEF Chat!Retry, Chat!Status, ChatSet, ChatOk, ChatState, ChatMsg
  <2>2. v \in ChatMsg /\ v.status = "pending" /\ v.task = c.task /\ v.retry = "no"
    BY <1>0 DEF ChatMsg, ChatTasks, ChatStatuses
  <2> HIDE DEF v, c
  <2>3. Claims(v) => m \in ChatSafe(chat)
    BY <1>0, <2>2 DEF Claims
  <2> QED
    BY <2>1, <2>2, <2>3, ChatSetOk
<1>4. CASE c.retry = "stored"
  <2> DEFINE v == [c EXCEPT !.retry = "no", !.status = "sent", !.cloudStored = TRUE]
  <2>a. chat \in ChatState /\ c.retry = "stored"
    BY <1>4 DEF ChatOk
  <2>b. [chat EXCEPT !.msg[m].retry = "no"] = ChatSet(chat, m, [c EXCEPT !.retry = "no"])
    BY <2>a DEF ChatSet, ChatState, ChatMsg
  <2>c. chat' = [Chat!Status(ChatSet(chat, m, [c EXCEPT !.retry = "no"]), m, "sent") EXCEPT !.msg[m].cloudStored = TRUE]
    BY <2>a, <2>b DEF Chat!Retry
  <2>1. chat' = ChatSet(chat, m, v)
    BY <2>a, <2>c DEF Chat!Status, ChatSet, ChatState, ChatMsg
  <2>2. v \in ChatMsg
    BY <1>0 DEF ChatMsg, ChatTasks, ChatStatuses
  <2> HIDE DEF v, c
  <2>3. m \in ChatSafe(chat)
    BY <1>0, <1>4 DEF Claims
  <2> QED
    BY <2>1, <2>2, <2>3, ChatSetOk
<1>5. CASE c.retry = "delivered"
  <2> DEFINE v == [c EXCEPT !.retry = "no", !.status = "delivered"]
  <2>1. chat' = ChatSet(chat, m, v)
    BY <1>5 DEF Chat!Retry, Chat!Status, ChatSet, ChatOk, ChatState, ChatMsg
  <2>2. v \in ChatMsg
    BY <1>0 DEF ChatMsg, ChatTasks, ChatStatuses
  <2> HIDE DEF v, c
  <2>3. m \in ChatSafe(chat)
    BY <1>0, <1>5 DEF Claims
  <2> QED
    BY <2>1, <2>2, <2>3, ChatSetOk
<1> QED
  BY <1>1, <1>2, <1>3, <1>4, <1>5 DEF Chat!Retry

(* All messages at once: none claims more than before. *)
LEMMA ChatAll ==
    ASSUME NEW s, ChatOk(s), NEW f \in [Ids -> ChatMsg], \A m \in Ids : Claims(f[m]) => Claims(s.msg[m]),
           NEW r \in ChatState, r.msg = f, r.wire = s.wire, ChatSafe(s) \subseteq ChatSafe(r)
    PROVE  ChatOk(r)
  BY DEF ChatOk, ClaimsSafe, WiresTrue

LEMMA ChatOnline ==
    ASSUME ChatOk(chat), Chat!CloudOnline
    PROVE  ChatOk(chat')
<1> DEFINE up(m) == /\ chat.msg[m].status = "scheduled" /\ ~chat.msg[m].cloudStored
                    /\ chat.msg[m].retry = "no" /\ chat.session
           f == [m \in Ids |-> IF up(m) THEN [chat.msg[m] EXCEPT !.retry = "deliver"] ELSE chat.msg[m]]
<1>1. chat' = [chat EXCEPT !.cloud = TRUE, !.msg = f]
  BY DEF Chat!CloudOnline
<1>2. ASSUME NEW m \in Ids
      PROVE  f[m] \in ChatMsg /\ (Claims(f[m]) => Claims(chat.msg[m]))
  <2>1. chat.msg[m] \in ChatMsg
    BY ChatMsgType
  <2>2. CASE up(m)
    <3>1. f[m] = [chat.msg[m] EXCEPT !.retry = "deliver"]
      BY <2>2
    <3> QED
      BY <2>1, <3>1 DEF ChatMsg, ChatTasks, Claims
  <2>3. CASE ~up(m)
    BY <2>1, <2>3
  <2> QED
    BY <2>2, <2>3
<1>3. f \in [Ids -> ChatMsg]
  BY <1>2
<1> HIDE DEF f, up
<1>4. chat' \in ChatState /\ chat'.msg = f /\ chat'.wire = chat.wire /\ ChatSafe(chat) = ChatSafe(chat')
  BY <1>1, <1>3 DEF ChatOk, ChatState, ChatSafe
<1> QED
  BY <1>2, <1>3, <1>4, ChatAll

LEMMA ChatCut ==
    ASSUME NEW s, ChatOk(s)
    PROVE  ChatOk(Chat!Cut(s)) /\ Chat!Cut(s).msg = s.msg
<1> DEFINE r == Chat!Cut(s)
           w == [p \in {"A", "B"} |-> <<>>]
<1>1. s \in ChatState /\ s.cuts + 1 \in Nat /\ w \in [{"A", "B"} -> Seq(ChatWires)]
  BY DEF ChatOk, ChatState
<1>2. /\ r \in ChatState /\ r.msg = s.msg /\ r.box = s.box /\ r.stored = s.stored /\ r.refused = s.refused
      /\ r.wire = w
  BY <1>1 DEF Chat!Cut, ChatState
<1>3. WiresTrue(r)
  BY <1>2 DEF WiresTrue
<1> HIDE DEF r, w
<1>4. ClaimsSafe(r)
  BY <1>2 DEF ChatOk, ClaimsSafe, ChatSafe
<1> QED
  BY <1>2, <1>3, <1>4 DEF ChatOk, r

LEMMA ChatLinks ==
    ASSUME ChatOk(chat), Chat!CloudOffline \/ Chat!Connect \/ Chat!Handshaken \/ Chat!Disconnect \/ Chat!RestartB
    PROVE  ChatOk(chat')
<1>1. CASE Chat!CloudOffline \/ Chat!Connect \/ Chat!Handshaken
  <2>1. chat' \in ChatState /\ chat'.msg = chat.msg /\ chat'.wire = chat.wire /\ ChatSafe(chat) = ChatSafe(chat')
    BY <1>1 DEF Chat!CloudOffline, Chat!Connect, Chat!Handshaken, ChatOk, ChatState, ChatSafe
  <2> QED
    BY <2>1, ChatKeeps
<1>2. CASE Chat!Disconnect
  BY <1>2, ChatCut DEF Chat!Disconnect
<1>3. CASE Chat!RestartB
  <2> DEFINE s == Chat!Cut(chat)
  <2>1. ChatOk(s)
    BY ChatCut
  <2>2. chat' = [s EXCEPT !.reading = {}]
    BY <1>3 DEF Chat!RestartB
  <2> HIDE DEF s
  <2>3. chat' \in ChatState /\ chat'.msg = s.msg /\ chat'.wire = s.wire /\ ChatSafe(s) = ChatSafe(chat')
    BY <2>1, <2>2 DEF ChatOk, ChatState, ChatSafe
  <2> QED
    BY <2>1, <2>3, ChatKeeps
<1> QED
  BY <1>1, <1>2, <1>3

LEMMA ChatRestartA ==
    ASSUME ChatOk(chat), Chat!RestartA
    PROVE  ChatOk(chat')
<1> DEFINE s == Chat!Cut(chat)
           x(m) == IF chat.msg[m].kept \/ chat.msg[m].status = "new" THEN chat.msg[m].status ELSE "gone"
           f == [m \in Ids |-> [chat.msg[m] EXCEPT !.status = x(m), !.task = "no", !.retry = "no", !.timer = FALSE]]
<1>1. chat' = [s EXCEPT !.msg = f]
  BY DEF Chat!RestartA
<1>2. ChatOk(s) /\ s.msg = chat.msg
  BY ChatCut
<1> HIDE DEF s
<1>3. ASSUME NEW m \in Ids
      PROVE  f[m] \in ChatMsg /\ (Claims(f[m]) => Claims(s.msg[m]))
  <2>1. s.msg[m] \in ChatMsg
    BY <1>2, ChatMsgType
  <2>2. x(m) \in ChatStatuses /\ x(m) \in {s.msg[m].status, "gone"}
    BY <1>2, <2>1 DEF ChatMsg, ChatStatuses
  <2>3. f[m] = [s.msg[m] EXCEPT !.status = x(m), !.task = "no", !.retry = "no", !.timer = FALSE]
    BY <1>2
  <2> HIDE DEF x, f
  <2>4. f[m] \in ChatMsg /\ f[m].status = x(m) /\ f[m].task = "no" /\ f[m].retry = "no"
    BY <2>1, <2>2, <2>3 DEF ChatMsg, ChatTasks
  <2> QED
    BY <2>2, <2>4 DEF Claims
<1>4. f \in [Ids -> ChatMsg]
  BY <1>3
<1> HIDE DEF f
<1>5. chat' \in ChatState /\ chat'.msg = f /\ chat'.wire = s.wire /\ ChatSafe(s) = ChatSafe(chat')
  BY <1>1, <1>2, <1>4 DEF ChatOk, ChatState, ChatSafe
<1> QED
  BY <1>2, <1>3, <1>4, <1>5, ChatAll

LEMMA ChatReceiveB ==
    ASSUME ChatOk(chat), Chat!ReceiveB
    PROVE  ChatOk(chat')
<1> DEFINE m == Head(chat.wire["B"]).m
           s == ChatPop(chat, "B")
           b == [s EXCEPT !.refused = @ \cup {m}]
<1>1. chat.wire["B"] # <<>> /\ "B" \in {"A", "B"}
  BY DEF Chat!ReceiveB
<1>2. ChatOk(s) /\ WireTrue(chat, "B", Head(chat.wire["B"]))
  BY <1>1, ChatPopOk
<1>3. m \in Ids
  BY <1>2 DEF WireTrue
<1>4. chat' = IF s.blocked THEN Chat!Put(b, "A", "messaging-blocked", m)
              ELSE [s EXCEPT !.reading = @ \cup {[m |-> m, mail |-> FALSE]}]
  BY DEF Chat!ReceiveB, ChatPop
<1> HIDE DEF m, s
<1>5. b \in ChatState /\ b.msg = s.msg /\ b.wire = s.wire /\ ChatSafe(s) \subseteq ChatSafe(b)
  BY <1>2, <1>3 DEF ChatOk, ChatState, ChatSafe
<1> HIDE DEF b
<1>6. ChatOk(b)
  BY <1>2, <1>5, ChatKeeps
<1>7. CASE s.blocked
  BY <1>3, <1>4, <1>6, <1>7, ChatPutRefusal
<1>8. CASE ~s.blocked
  <2> DEFINE R == [m: Ids, mail: BOOLEAN]
             x == [m |-> m, mail |-> FALSE]
  <2>a. x \in R
    BY <1>3
  <2>b. s.reading \in SUBSET R
    BY <1>2 DEF ChatOk, ChatState
  <2> HIDE DEF R, x
  <2>c. s.reading \cup {x} \in SUBSET R
    BY <2>a, <2>b
  <2>0. s.reading \cup {[m |-> m, mail |-> FALSE]} \in SUBSET [m: Ids, mail: BOOLEAN]
    BY <2>c DEF R, x
  <2>1. chat' \in ChatState /\ chat'.msg = s.msg /\ chat'.wire = s.wire /\ ChatSafe(s) \subseteq ChatSafe(chat')
    BY <1>2, <1>4, <1>8, <2>0 DEF ChatOk, ChatState, ChatSafe
  <2> QED
    BY <1>2, <2>1, ChatKeeps
<1> QED
  BY <1>7, <1>8

(* Mail is acknowledged only once the message is safe elsewhere. *)
LEMMA ChatAck ==
    ASSUME NEW s, ChatOk(s), NEW r \in [m: Ids, mail: BOOLEAN], r.m \in s.stored \cup s.refused
    PROVE  ChatOk(Chat!Ack(s, r)) /\ Chat!Ack(s, r).stored = s.stored
<1> DEFINE b == Chat!Ack(s, r)
<1>1. b \in ChatState /\ b.msg = s.msg /\ b.wire = s.wire /\ ChatSafe(s) \subseteq ChatSafe(b) /\ b.stored = s.stored
  BY DEF Chat!Ack, ChatOk, ChatState, ChatSafe
<1> HIDE DEF b
<1> QED
  BY <1>1, ChatKeeps DEF b

LEMMA ChatDrain ==
    ASSUME ChatOk(chat), NEW m \in Ids, Chat!drainMail(m)
    PROVE  ChatOk(chat')
<1> DEFINE r == [m |-> m, mail |-> TRUE]
           b == [chat EXCEPT !.refused = @ \cup {m}]
           a == Chat!Ack(b, r)
<1>1. chat' = IF chat.blocked THEN Chat!Put(a, "A", "messaging-blocked", m) ELSE [chat EXCEPT !.reading = @ \cup {r}]
  BY DEF Chat!drainMail
<1>2. r \in [m: Ids, mail: BOOLEAN] /\ r.m = m
  OBVIOUS
<1>3. b \in ChatState /\ b.msg = chat.msg /\ b.wire = chat.wire /\ ChatSafe(chat) \subseteq ChatSafe(b) /\ m \in b.refused
  BY DEF ChatOk, ChatState, ChatSafe
<1> HIDE DEF r, b
<1>4. ChatOk(b)
  BY <1>3, ChatKeeps
<1>5. ChatOk(a)
  BY <1>2, <1>3, <1>4, ChatAck
<1> HIDE DEF a
<1>6. CASE chat.blocked
  BY <1>1, <1>5, <1>6, ChatPutRefusal
<1>7. CASE ~chat.blocked
  <2>0. chat.reading \cup {r} \in SUBSET [m: Ids, mail: BOOLEAN]
    BY <1>2 DEF ChatOk, ChatState
  <2>1. chat' \in ChatState /\ chat'.msg = chat.msg /\ chat'.wire = chat.wire /\ ChatSafe(chat) \subseteq ChatSafe(chat')
    BY <1>1, <1>7, <2>0 DEF ChatOk, ChatState, ChatSafe
  <2> QED
    BY <2>1, ChatKeeps
<1> QED
  BY <1>6, <1>7

LEMMA ChatRead ==
    ASSUME ChatOk(chat), NEW r \in chat.reading, Chat!Read(r)
    PROVE  ChatOk(chat')
<1> DEFINE s == [chat EXCEPT !.reading = @ \ {r}]
           t == Chat!Ack(s, r)
<1>1. \/ chat' = IF r.m \in s.stored THEN t ELSE Chat!Put([t EXCEPT !.stored = @ \cup {r.m}], "A", "delivery-receipt", r.m)
      \/ chat' = s
  BY DEF Chat!Read
<1>2. r \in [m: Ids, mail: BOOLEAN] /\ r.m \in Ids
  BY DEF ChatOk, ChatState
<1>3. s \in ChatState /\ s.msg = chat.msg /\ s.wire = chat.wire /\ ChatSafe(chat) \subseteq ChatSafe(s)
  BY DEF ChatOk, ChatState, ChatSafe
<1> HIDE DEF s
<1>4. ChatOk(s)
  BY <1>3, ChatKeeps
<1>5. CASE r.m \in s.stored
  BY <1>1, <1>2, <1>4, <1>5, ChatAck
<1>6. CASE r.m \notin s.stored
  <2> DEFINE b == [t EXCEPT !.stored = @ \cup {r.m}]
  <2>1. b \in ChatState /\ b.msg = s.msg /\ b.wire = s.wire /\ ChatSafe(s) \subseteq ChatSafe(b) /\ r.m \in ChatSafe(b)
    BY <1>2, <1>4 DEF Chat!Ack, ChatOk, ChatState, ChatSafe
  <2>2. chat' = Chat!Put(b, "A", "delivery-receipt", r.m) \/ chat' = s
    BY <1>1, <1>6
  <2> HIDE DEF b
  <2>3. ChatOk(b)
    BY <1>4, <2>1, ChatKeeps
  <2> QED
    BY <1>2, <1>4, <2>1, <2>2, <2>3, ChatPutReceipt
<1> QED
  BY <1>5, <1>6

LEMMA ChatReceiveA ==
    ASSUME ChatOk(chat), Chat!ReceiveA
    PROVE  ChatOk(chat')
<1> DEFINE w == Head(chat.wire["A"])
           r == ChatPop(chat, "A")
           s == Chat!Timer(r, w.m, FALSE)
<1>1. chat.wire["A"] # <<>> /\ "A" \in {"A", "B"}
  BY DEF Chat!ReceiveA
<1>2. ChatOk(r) /\ WireTrue(chat, "A", w) /\ ChatSafe(r) = ChatSafe(chat)
  BY <1>1, ChatPopOk
<1>3. chat' = CASE w.kind \in {"blocked", "unblocked"} -> [r EXCEPT !.blockedByPeer = w.kind = "blocked"]
                [] w.kind = "messaging-blocked" -> [Chat!Status(s, w.m, "blocked") EXCEPT !.blockedByPeer = TRUE]
                [] w.kind = "delivery-receipt" -> Chat!deliveryReceipt(s, w.m)
  BY DEF Chat!ReceiveA, ChatPop
<1> HIDE DEF w, r
<1>4. w.kind \in {"messaging-blocked", "delivery-receipt", "blocked", "unblocked"}
      /\ (w.kind \in {"messaging-blocked", "delivery-receipt"} => w.m \in Ids)
  BY <1>2 DEF WireTrue, ChatWires
<1>5. CASE w.kind \in {"blocked", "unblocked"}
  <2>1. chat' = [r EXCEPT !.blockedByPeer = w.kind = "blocked"]
    BY <1>3, <1>5
  <2>2. chat' \in ChatState /\ chat'.msg = r.msg /\ chat'.wire = r.wire /\ ChatSafe(r) = ChatSafe(chat')
    BY <1>2, <2>1 DEF ChatOk, ChatState, ChatSafe
  <2> QED
    BY <1>2, <2>2, ChatKeeps
<1>6. ASSUME w.m \in Ids
      PROVE  ChatOk(s) /\ ChatSafe(s) = ChatSafe(r)
  <2> DEFINE v == [r.msg[w.m] EXCEPT !.timer = FALSE]
  <2>1. s = ChatSet(r, w.m, v) /\ ChatSafe(s) = ChatSafe(r)
    BY <1>2, <1>6 DEF Chat!Timer, ChatSet, ChatOk, ChatState, ChatMsg, ChatSafe
  <2>2. v \in ChatMsg /\ v.status = r.msg[w.m].status /\ v.task = r.msg[w.m].task /\ v.retry = r.msg[w.m].retry
    BY <1>2, <1>6, ChatMsgType DEF ChatMsg
  <2> HIDE DEF v, s
  <2>3. Claims(v) => w.m \in ChatSafe(r)
    BY <1>2, <1>6, <2>2, ChatMsgType DEF Claims
  <2> QED
    BY <1>2, <1>6, <2>1, <2>2, <2>3, ChatSetOk
<1> HIDE DEF s
<1>7. ASSUME w.m \in Ids, NEW x \in ChatStatuses, x \in {"sent", "delivered"} => w.m \in ChatSafe(s), NEW on \in BOOLEAN,
             chat' = [Chat!Status(s, w.m, x) EXCEPT !.blockedByPeer = on]
      PROVE  ChatOk(chat')
  <2> DEFINE v == [s.msg[w.m] EXCEPT !.status = x]
             b == ChatSet(s, w.m, v)
  <2>1. ChatOk(s)
    BY <1>6, <1>7
  <2>2. v \in ChatMsg /\ v.status = x /\ v.task = s.msg[w.m].task /\ v.retry = s.msg[w.m].retry
    BY <1>7, <2>1, ChatMsgType DEF ChatMsg
  <2>3. Chat!Status(s, w.m, x) = b
    BY <1>7, <2>1 DEF Chat!Status, ChatSet, ChatOk, ChatState, ChatMsg
  <2> HIDE DEF v
  <2>4. Claims(v) => w.m \in ChatSafe(s)
    BY <1>7, <2>1, <2>2, ChatMsgType DEF Claims
  <2>5. ChatOk(b)
    BY <1>7, <2>1, <2>2, <2>4, ChatSetOk
  <2> HIDE DEF b
  <2>6. chat' \in ChatState /\ chat'.msg = b.msg /\ chat'.wire = b.wire /\ ChatSafe(b) = ChatSafe(chat')
    BY <1>7, <2>3, <2>5 DEF ChatOk, ChatState, ChatSafe
  <2> QED
    BY <2>5, <2>6, ChatKeeps
<1>8. CASE w.kind = "messaging-blocked"
  <2>1. chat' = [Chat!Status(s, w.m, "blocked") EXCEPT !.blockedByPeer = TRUE] /\ w.m \in Ids
    BY <1>3, <1>4, <1>8
  <2>2. "blocked" \in ChatStatuses
    BY DEF ChatStatuses
  <2> QED
    BY <1>7, <2>1, <2>2
<1>9. CASE w.kind = "delivery-receipt"
  <2>1. chat' = Chat!deliveryReceipt(s, w.m) /\ w.m \in Ids
    BY <1>3, <1>4, <1>9
  <2>2. "delivered" \in ChatStatuses /\ w.m \in ChatSafe(s)
    BY <1>2, <1>6, <1>9, <2>1 DEF ChatStatuses, WireTrue
  <2>3. chat' = s \/ chat' = [Chat!Status(s, w.m, "delivered") EXCEPT !.blockedByPeer = FALSE]
    BY <2>1 DEF Chat!deliveryReceipt
  <2> QED
    BY <1>6, <1>7, <2>1, <2>2, <2>3
<1> QED
  BY <1>4, <1>5, <1>8, <1>9

LEMMA ChatBlocked ==
    ASSUME ChatOk(chat), Chat!setContactBlocked
    PROVE  ChatOk(chat')
<1> DEFINE b == [chat EXCEPT !.blocked = ~@, !.blocks = @ + 1]
<1>1. PICK kind \in {"blocked", "unblocked"} : chat' = Chat!Put(b, "A", kind, 0)
  BY DEF Chat!setContactBlocked
<1>2. chat \in ChatState /\ chat.blocks + 1 \in Nat /\ (~chat.blocked) \in BOOLEAN
  BY DEF ChatOk, ChatState
<1>3. b \in ChatState /\ b.msg = chat.msg /\ b.wire = chat.wire /\ ChatSafe(chat) = ChatSafe(b)
  BY <1>2 DEF ChatState, ChatSafe
<1> HIDE DEF b
<1>4. ChatOk(b)
  BY <1>3, ChatKeeps
<1> QED
  BY <1>1, <1>4, ChatPutNotice

(* A message shown as sent or delivered is not lost (useMessaging,         *)
(* deliverPeerPayload, peerMessageHandler and drainCloudMail), for any     *)
(* number of messages, wires, broken connections, blocks and restarts.     *)
THEOREM DeliveredIsKept == ChatSpec => []DeliveredKept
<1>1. Chat!Init => ChatInv
  <2> SUFFICES ASSUME Chat!Init PROVE ChatOk(chat)
    BY DEF ChatInv
  <2>1. chat \in ChatState
    BY DEF Chat!Init, ChatState, ChatMsg, ChatStatuses, ChatTasks
  <2> QED
    BY <2>1 DEF Chat!Init, ChatOk, ClaimsSafe, WiresTrue, Claims
<1>2. ChatInv /\ [Chat!Next]_chat => ChatInv'
  <2> SUFFICES ASSUME ChatOk(chat), [Chat!Next]_chat
               PROVE  ChatOk(chat')
    BY DEF ChatInv
  <2>1. CASE UNCHANGED chat
    BY <2>1
  <2>2. CASE \E m \in Ids : \/ Chat!sendMessage(m) \/ Chat!waitForE2eeSession(m) \/ Chat!Deliver(m) \/ Chat!Sent(m)
                            \/ Chat!TimerFires(m) \/ Chat!Retry(m) \/ Chat!drainMail(m)
    BY <2>2, ChatSend, ChatWait, ChatDeliver, ChatSent, ChatTimer, ChatRetry, ChatDrain
  <2> QED
    BY <2>1, <2>2, ChatOnline, ChatLinks, ChatRestartA, ChatReceiveA, ChatReceiveB, ChatBlocked, ChatRead DEF Chat!Next
<1>3. ChatInv => DeliveredKept
  BY DEF ChatInv, ChatOk, ClaimsSafe, Claims, ChatSafe, DeliveredKept, Chat!DeliveredKept
<1> QED
  BY <1>1, <1>2, <1>3, PTL DEF ChatSpec

(***************************************************************************)
(* Web tunnel: one session (WebChannel).                                   *)
(*                                                                         *)
(* For each end there is a function count: count[q] is how many messages   *)
(* were among the first q records the end sealed.  Whatever chunk of that  *)
(* end is anywhere belongs to a hello or to a record that it sealed, with  *)
(* the number and the payload the count gives; so a receiver that takes    *)
(* record after record hands on the messages 1, 2, 3, ... and no other.    *)
(***************************************************************************)
ChanTypes == {"finished", "message", "ping", "pong", "close"}
ChanFrames ==
    [kind: {"client", "server"}]
      \cup [kind: {"record"}, role: Channel!Ends, seq: Nat, type: ChanTypes, payload: Nat]
FrameTrue(f, e, n, count) ==
    f.kind = "record" => /\ f.role = e /\ f.seq \in Nat /\ f.seq < n
                         /\ f.type # "message" => count[f.seq + 1] = count[f.seq]
                         /\ f.type = "message" => /\ count[f.seq + 1] = count[f.seq] + 1
                                                  /\ f.payload = count[f.seq] + 1
Chunks(e, n, count) == {k \in [frame: ChanFrames, part: Nat] : FrameTrue(k.frame, e, n, count)}
ChanEnd(Q, B) ==
    [st: {"hello", "fin", "open", "closed", "failed"}, next: Nat, expect: Nat, queue: Seq(Q), wire: Seq(B),
     buf: Seq(B), shut: BOOLEAN, said: Seq(Nat), got: Seq(Nat), pings: Nat]
Numbered(q) == \A i \in 1..Len(q) : q[i] = i
Counted(count, n, k) ==
    /\ count[0] = 0 /\ count[n] = k
    /\ \A p, q \in Nat : p <= q /\ q <= n => count[p] <= count[q]

EndOk(me, peer, e, c) ==
    /\ me \in ChanEnd(Chunks(e, me.next, c[e]), Chunks(Channel!Other(e), peer.next, c[Channel!Other(e)]))
    /\ Counted(c[e], me.next, Len(me.said))
    /\ me.expect <= peer.next /\ Len(me.got) = c[Channel!Other(e)][me.expect]
    /\ Numbered(me.said) /\ Numbered(me.got)
    /\ e = "init" /\ me.st = "open" => peer.next > 0
    /\ e = "resp" /\ me.next > 0 => me.st \in {"open", "closed"}
Agree(s, c) ==
    /\ Channel!Ends \subseteq DOMAIN s /\ c \in [Channel!Ends -> [Nat -> Nat]]
    /\ \A e \in Channel!Ends : s[e].next \in Nat /\ EndOk(s[e], s[Channel!Other(e)], e, c)
ChanOk(s) == \E c : Agree(s, c)
ChanInv == ChanOk(chan)

(* r differs from s in end e, which is v now. *)
ChanStep(s, r, e, v) ==
    Channel!Ends \subseteq DOMAIN r /\ r[e] = v /\ r[Channel!Other(e)] = s[Channel!Other(e)]

LEMMA ChanOther ==
    ASSUME NEW e \in Channel!Ends
    PROVE  /\ Channel!Other(e) \in Channel!Ends /\ Channel!Other(e) # e /\ Channel!Other(Channel!Other(e)) = e
           /\ \A f \in Channel!Ends : f = e \/ f = Channel!Other(e)
  BY DEF Channel!Ends, Channel!Other

(* Nothing is sealed: only this end is to be looked at. *)
LEMMA ChanKeeps ==
    ASSUME NEW s, NEW c, Agree(s, c), NEW e \in Channel!Ends, NEW r, NEW v, ChanStep(s, r, e, v),
           v.next = s[e].next, EndOk(v, s[Channel!Other(e)], e, c)
    PROVE  Agree(r, c)
<1> DEFINE o == Channel!Other(e)
<1>1. o \in Channel!Ends /\ o # e /\ Channel!Other(o) = e /\ \A f \in Channel!Ends : f = e \/ f = o
  BY ChanOther
<1> HIDE DEF o
<1>2. EndOk(s[o], v, o, c)
  <2>1. EndOk(s[o], s[e], o, c)
    BY <1>1 DEF Agree
  <2> QED
    BY <1>1, <2>1 DEF EndOk
<1>3. r[e] = v /\ r[o] = s[o] /\ Channel!Ends \subseteq DOMAIN r
  BY DEF ChanStep, o
<1>4. EndOk(r[e], r[o], e, c) /\ EndOk(r[o], r[e], o, c)
  BY <1>2, <1>3 DEF o
<1>5. r[e].next \in Nat /\ r[o].next \in Nat
  BY <1>1, <1>3 DEF Agree
<1>6. ASSUME NEW f \in Channel!Ends
      PROVE  r[f].next \in Nat /\ EndOk(r[f], r[Channel!Other(f)], f, c)
  <2>1. CASE f = e
    BY <1>4, <1>5, <2>1 DEF o
  <2>2. CASE f = o
    BY <1>1, <1>4, <1>5, <2>2
  <2> QED
    BY <1>1, <2>1, <2>2
<1> QED
  BY <1>3, <1>6 DEF Agree

(* A record is sealed: what the counts said of earlier ones stays. *)
LEMMA ChunksGrow ==
    ASSUME NEW e, NEW n \in Nat, NEW f \in [Nat -> Nat], NEW g \in [Nat -> Nat], \A q \in Nat : q <= n => g[q] = f[q]
    PROVE  Chunks(e, n, f) \subseteq Chunks(e, n + 1, g)
<1>1. ASSUME NEW k \in Chunks(e, n, f)
      PROVE  FrameTrue(k.frame, e, n + 1, g)
  BY <1>1 DEF Chunks, FrameTrue
<1> QED
  BY <1>1 DEF Chunks

LEMMA ChanSends ==
    ASSUME NEW s, NEW c, Agree(s, c), NEW e \in Channel!Ends, NEW r, NEW v, ChanStep(s, r, e, v),
           v.next = s[e].next + 1, NEW g \in [Nat -> Nat], \A q \in Nat : q <= s[e].next => g[q] = c[e][q],
           EndOk(v, s[Channel!Other(e)], e, [c EXCEPT ![e] = g])
    PROVE  Agree(r, [c EXCEPT ![e] = g])
<1> DEFINE o == Channel!Other(e)
           d == [c EXCEPT ![e] = g]
<1>1. o \in Channel!Ends /\ o # e /\ Channel!Other(o) = e /\ \A f \in Channel!Ends : f = e \/ f = o
  BY ChanOther
<1> HIDE DEF o
<1>2. d \in [Channel!Ends -> [Nat -> Nat]] /\ d[e] = g /\ d[o] = c[o] /\ c[e] \in [Nat -> Nat] /\ s[e].next \in Nat
  BY <1>1 DEF Agree
<1> HIDE DEF d
<1>3. EndOk(s[o], v, o, d)
  <2>1. EndOk(s[o], s[e], o, c)
    BY <1>1 DEF Agree
  <2>2. Chunks(e, s[e].next, c[e]) \subseteq Chunks(e, v.next, d[e])
    BY <1>2, ChunksGrow
  <2>3. s[o] \in ChanEnd(Chunks(o, s[o].next, d[o]), Chunks(e, v.next, d[e]))
    <3>1. s[o] \in ChanEnd(Chunks(o, s[o].next, c[o]), Chunks(e, s[e].next, c[e]))
      BY <1>1, <2>1 DEF EndOk
    <3> DEFINE B == Chunks(e, s[e].next, c[e])
               D == Chunks(e, v.next, d[e])
               Q == Chunks(o, s[o].next, c[o])
    <3>2. B \subseteq D /\ s[o] \in ChanEnd(Q, B) /\ Q = Chunks(o, s[o].next, d[o])
      BY <1>2, <2>2, <3>1
    <3> HIDE DEF B, D, Q
    <3>3. Seq(B) \subseteq Seq(D)
      BY <3>2
    <3>4. s[o] \in ChanEnd(Q, D)
      BY <3>2, <3>3 DEF ChanEnd
    <3> QED
      BY <3>2, <3>4 DEF D
  <2>4. s[o].expect \in Nat
    BY <2>1 DEF EndOk, ChanEnd
  <2>5. s[o].expect <= s[e].next /\ Len(s[o].got) = c[e][s[o].expect]
    BY <1>1, <2>1 DEF EndOk
  <2>6. s[o].expect <= v.next /\ Len(s[o].got) = d[e][s[o].expect]
    <3>1. g[s[o].expect] = c[e][s[o].expect]
      BY <2>4, <2>5
    <3> DEFINE a == s[o].expect
               b == s[e].next
    <3>a. a \in Nat /\ b \in Nat /\ a <= b
      BY <1>2, <2>4, <2>5
    <3> HIDE DEF a, b
    <3>b. a <= b + 1
      BY <3>a
    <3>2. s[o].expect <= s[e].next + 1
      BY <3>b DEF a, b
    <3> QED
      BY <1>2, <2>5, <3>1, <3>2
  <2>7. /\ Counted(d[o], s[o].next, Len(s[o].said)) /\ Numbered(s[o].said) /\ Numbered(s[o].got)
        /\ o = "init" /\ s[o].st = "open" => v.next > 0
        /\ o = "resp" /\ s[o].next > 0 => s[o].st \in {"open", "closed"}
    BY <1>2, <2>1 DEF EndOk
  <2> QED
    BY <1>1, <2>3, <2>6, <2>7 DEF EndOk
<1>4. r[e] = v /\ r[o] = s[o] /\ Channel!Ends \subseteq DOMAIN r
  BY DEF ChanStep, o
<1>5. EndOk(r[e], r[o], e, d) /\ EndOk(r[o], r[e], o, d)
  BY <1>3, <1>4 DEF o, d
<1>6. r[e].next \in Nat /\ r[o].next \in Nat
  BY <1>1, <1>2, <1>4 DEF Agree
<1>7. ASSUME NEW f \in Channel!Ends
      PROVE  r[f].next \in Nat /\ EndOk(r[f], r[Channel!Other(f)], f, d)
  <2>1. CASE f = e
    BY <1>5, <1>6, <2>1 DEF o
  <2>2. CASE f = o
    BY <1>1, <1>5, <1>6, <2>2
  <2> QED
    BY <1>1, <2>1, <2>2
<1> QED
  BY <1>2, <1>4, <1>7 DEF Agree, d

(* Chunks of a frame of this end are put into its queue. *)
LEMMA ChanEncode ==
    ASSUME NEW Q, NEW f, \A i \in 1..Parts : [frame |-> f, part |-> i] \in Q, Parts \in Nat
    PROVE  Channel!encodePrefixed(f) \in Seq(Q)
  BY DEF Channel!encodePrefixed

(* The fields of an end without its counters. *)
ChanType(s, c, e) ==
    ChanEnd(Chunks(e, s[e].next, c[e]), Chunks(Channel!Other(e), s[Channel!Other(e)].next, c[Channel!Other(e)]))

(* An end changes in what the counts do not speak of. *)
LEMMA ChanQuiet ==
    ASSUME NEW s, NEW c, Agree(s, c), NEW e \in Channel!Ends, NEW r, NEW v, ChanStep(s, r, e, v),
           v \in ChanType(s, c, e), v.next = s[e].next, v.expect = s[e].expect, v.said = s[e].said, v.got = s[e].got,
           v.st = "open" => s[e].st = "open",
           s[e].st \in {"open", "closed"} => v.st \in {"open", "closed"}
    PROVE  Agree(r, c)
<1>1. EndOk(s[e], s[Channel!Other(e)], e, c)
  BY DEF Agree
<1>2. EndOk(v, s[Channel!Other(e)], e, c)
  BY <1>1 DEF EndOk, ChanType
<1> QED
  BY <1>2, ChanKeeps

(* One record more: the count goes on. *)
LEMMA CountedOn ==
    ASSUME NEW n \in Nat, NEW f \in [Nat -> Nat], NEW k \in Nat, Counted(f, n, k), NEW l \in Nat, k <= l,
           NEW g \in [Nat -> Nat], \A q \in Nat : q <= n => g[q] = f[q], g[n + 1] = l
    PROVE  Counted(g, n + 1, l)
<1>1. ASSUME NEW p \in Nat, NEW q \in Nat, p <= q, q <= n + 1
      PROVE  g[p] <= g[q]
  <2>1. CASE q <= n
    <3>1. p <= n /\ f[p] <= f[q]
      BY <1>1, <2>1 DEF Counted
    <3> QED
      BY <2>1, <3>1
  <2>2. CASE q = n + 1 /\ p <= n
    <3>1. f[p] <= k /\ f[p] \in Nat
      BY <2>2 DEF Counted
    <3> QED
      BY <2>2, <3>1
  <2>3. CASE p = n + 1 /\ q = n + 1
    BY <2>3
  <2> QED
    BY <1>1, <2>1, <2>2, <2>3
<1>2. g[0] = 0
  BY DEF Counted
<1> QED
  BY <1>1, <1>2 DEF Counted

(* A record other than a message is sealed. *)
LEMMA ChanSeals ==
    ASSUME NEW s, NEW c, Agree(s, c), NEW e \in Channel!Ends, NEW type \in ChanTypes, type # "message", Parts \in Nat,
           e = "resp" => s[e].st \in {"open", "closed"}
    PROVE  LET r == Channel!encrypt(s, e, type)
               v == [s[e] EXCEPT !.next = @ + 1,
                                 !.queue = @ \o Channel!encodePrefixed([kind |-> "record", role |-> e, seq |-> s[e].next,
                                                                        type |-> type, payload |-> 0])]
           IN  ChanOk(r) /\ ChanStep(s, r, e, v)
<1> DEFINE f == [kind |-> "record", role |-> e, seq |-> s[e].next, type |-> type, payload |-> 0]
           v == [s[e] EXCEPT !.next = @ + 1, !.queue = @ \o Channel!encodePrefixed(f)]
           r == Channel!encrypt(s, e, type)
           o == Channel!Other(e)
           n == s[e].next
           g == [c[e] EXCEPT ![n + 1] = c[e][n]]
           d == [c EXCEPT ![e] = g]
<1>1. o \in Channel!Ends /\ o # e /\ Channel!Other(o) = e
  BY ChanOther
<1>2. n \in Nat /\ c \in [Channel!Ends -> [Nat -> Nat]] /\ e \in DOMAIN s /\ o \in DOMAIN s /\ Channel!Ends \subseteq DOMAIN s
      /\ EndOk(s[e], s[o], e, c)
  BY <1>1 DEF Agree
<1>3. ChanStep(s, r, e, v)
  BY <1>1, <1>2 DEF Channel!encrypt, Channel!encryptOf, Channel!sendBinary, ChanStep, EndOk, ChanEnd
<1>4. g \in [Nat -> Nat] /\ (\A q \in Nat : q <= n => g[q] = c[e][q]) /\ g[n + 1] = c[e][n]
  BY <1>2
<1>5. d[e] = g /\ d[o] = c[o] /\ d \in [Channel!Ends -> [Nat -> Nat]]
  BY <1>1, <1>2, <1>4
<1>6. f \in ChanFrames /\ FrameTrue(f, e, n + 1, g)
  BY <1>2, <1>4 DEF ChanFrames, FrameTrue
<1> HIDE DEF g, d, f, o
<1>7. Channel!encodePrefixed(f) \in Seq(Chunks(e, n + 1, g))
  <2>1. \A i \in 1..Parts : [frame |-> f, part |-> i] \in Chunks(e, n + 1, g)
    BY <1>6 DEF Chunks
  <2> QED
    BY <2>1, ChanEncode
<1>8. s[e] \in ChanEnd(Chunks(e, n, c[e]), Chunks(o, s[o].next, d[o]))
  BY <1>2, <1>5 DEF EndOk, o
<1>9. v \in ChanEnd(Chunks(e, n + 1, g), Chunks(o, s[o].next, d[o])) /\ v.next = n + 1 /\ v.expect = s[e].expect
      /\ v.said = s[e].said /\ v.got = s[e].got /\ v.st = s[e].st
  <2> DEFINE P == Chunks(e, n, c[e])
             Q == Chunks(e, n + 1, g)
             B == Chunks(o, s[o].next, d[o])
             x == Channel!encodePrefixed(f)
  <2>1. P \subseteq Q /\ x \in Seq(Q) /\ s[e] \in ChanEnd(P, B)
    BY <1>2, <1>4, <1>7, <1>8, ChunksGrow
  <2> HIDE DEF P, Q, B, x
  <2>a. s[e].queue \in Seq(P)
    BY <2>1 DEF ChanEnd
  <2>b. Seq(P) \subseteq Seq(Q)
    BY <2>1
  <2>2. s[e].queue \in Seq(Q) /\ n + 1 \in Nat
    BY <1>2, <2>a, <2>b
  <2>3. s[e].queue \o x \in Seq(Q)
    BY <2>1, <2>2
  <2> QED
    BY <2>1, <2>2, <2>3 DEF ChanEnd, Q, B, x
<1> HIDE DEF v, r
<1>10. Counted(g, n + 1, Len(s[e].said))
  <2>1. Counted(c[e], n, Len(s[e].said)) /\ c[e] \in [Nat -> Nat]
    BY <1>2 DEF EndOk
  <2> DEFINE k == Len(s[e].said)
  <2>a. k = c[e][n] /\ c[e][n] \in Nat
    BY <1>2, <2>1 DEF Counted
  <2>3. Counted(c[e], n, k)
    BY <2>1
  <2> HIDE DEF k
  <2>2. k \in Nat /\ g[n + 1] = k
    BY <1>4, <2>a
  <2>b. k <= k
    BY <2>2
  <2>4. Counted(g, n + 1, k)
    BY <1>2, <1>4, <2>1, <2>2, <2>3, <2>b, CountedOn
  <2> QED
    BY <2>4 DEF k
<1>11. EndOk(v, s[o], e, d)
  BY <1>2, <1>5, <1>9, <1>10 DEF EndOk, o
<1>12. Agree(r, d)
  BY <1>3, <1>4, <1>9, <1>11, ChanSends DEF d, o
<1> QED
  BY <1>3, <1>12 DEF ChanOk, r, v, f

(* A message is sealed: it has the next number. *)
LEMMA ChanSays ==
    ASSUME ChanOk(chan), NEW e \in Channel!Ends, Channel!sendPayload(e), Parts \in Nat
    PROVE  ChanOk(chan')
<1> PICK c : Agree(chan, c)
  BY DEF ChanOk
<1> DEFINE m == Len(chan[e].said) + 1
           n == chan[e].next
           f == [kind |-> "record", role |-> e, seq |-> n, type |-> "message", payload |-> m]
           v == [chan[e] EXCEPT !.said = Append(@, m), !.next = @ + 1, !.queue = @ \o Channel!encodePrefixed(f)]
           o == Channel!Other(e)
           g == [c[e] EXCEPT ![n + 1] = m]
           d == [c EXCEPT ![e] = g]
<1>1. o \in Channel!Ends /\ o # e /\ Channel!Other(o) = e
  BY ChanOther
<1>2. n \in Nat /\ c \in [Channel!Ends -> [Nat -> Nat]] /\ e \in DOMAIN chan /\ o \in DOMAIN chan
      /\ Channel!Ends \subseteq DOMAIN chan /\ EndOk(chan[e], chan[o], e, c)
  BY <1>1 DEF Agree
<1>3. ChanStep(chan, chan', e, v) /\ chan[e].st = "open"
  <2>1. chan[e] \in ChanEnd(Chunks(e, chan[e].next, c[e]), Chunks(o, chan[o].next, c[o]))
    BY <1>2 DEF EndOk
  <2>2. chan' = Channel!encryptOf([chan EXCEPT ![e].said = Append(@, m)], e, "message", m) /\ chan[e].st = "open"
    BY DEF Channel!sendPayload
  <2> QED
    BY <1>1, <1>2, <2>1, <2>2 DEF Channel!encryptOf, Channel!sendBinary, ChanStep, ChanEnd
<1>4. Len(chan[e].said) \in Nat /\ m \in Nat /\ Len(chan[e].said) = c[e][n] /\ m = c[e][n] + 1
  <2>1. Counted(c[e], n, Len(chan[e].said)) /\ c[e][n] \in Nat
    BY <1>2 DEF EndOk
  <2>2. Len(chan[e].said) = c[e][n]
    BY <2>1 DEF Counted
  <2> QED
    BY <2>1, <2>2
<1>5. g \in [Nat -> Nat] /\ (\A q \in Nat : q <= n => g[q] = c[e][q]) /\ g[n + 1] = m
  <2> DEFINE l == m
             h == c[e]
  <2>1. g = [h EXCEPT ![n + 1] = l] /\ l \in Nat /\ h \in [Nat -> Nat] /\ n \in Nat
    BY <1>2, <1>4
  <2> HIDE DEF l, h, n, g
  <2>2. n + 1 \in Nat /\ \A q \in Nat : q <= n => q # n + 1
    BY <2>1
  <2>3. g \in [Nat -> Nat] /\ (\A q \in Nat : q <= n => g[q] = h[q]) /\ g[n + 1] = l
    BY <2>1, <2>2
  <2> QED
    BY <2>3 DEF l, h
<1>6. d[e] = g /\ d[o] = c[o] /\ d \in [Channel!Ends -> [Nat -> Nat]]
  BY <1>1, <1>2, <1>5
<1>7. f \in ChanFrames /\ FrameTrue(f, e, n + 1, g)
  <2> DEFINE l == m
             h == c[e][n]
  <2>a. n \in Nat /\ l = h + 1 /\ l \in Nat /\ g[n + 1] = l
    BY <1>2, <1>4, <1>5
  <2>2. f = [kind |-> "record", role |-> e, seq |-> n, type |-> "message", payload |-> l]
    BY DEF l
  <2>b. n <= n => g[n] = h
    BY <1>5, <2>a
  <2> HIDE DEF l, g, h, n, f
  <2>1. g[n + 1] = g[n] + 1 /\ l = g[n] + 1 /\ n < n + 1 /\ n \in Nat /\ l \in Nat
    BY <2>a, <2>b
  <2> QED
    BY <2>1, <2>2 DEF ChanFrames, FrameTrue, ChanTypes
<1> HIDE DEF g, d, f, o
<1>8. Channel!encodePrefixed(f) \in Seq(Chunks(e, n + 1, g))
  <2>1. \A i \in 1..Parts : [frame |-> f, part |-> i] \in Chunks(e, n + 1, g)
    BY <1>7 DEF Chunks
  <2> QED
    BY <2>1, ChanEncode
<1>9. chan[e] \in ChanEnd(Chunks(e, n, c[e]), Chunks(o, chan[o].next, d[o]))
  BY <1>2, <1>6 DEF EndOk, o
<1>10. /\ v \in ChanEnd(Chunks(e, n + 1, g), Chunks(o, chan[o].next, d[o])) /\ v.next = n + 1 /\ v.expect = chan[e].expect
       /\ v.said = Append(chan[e].said, m) /\ v.got = chan[e].got /\ v.st = chan[e].st
  <2> DEFINE P == Chunks(e, n, c[e])
             Q == Chunks(e, n + 1, g)
             B == Chunks(o, chan[o].next, d[o])
             x == Channel!encodePrefixed(f)
             y == Append(chan[e].said, m)
  <2>1. P \subseteq Q /\ x \in Seq(Q) /\ chan[e] \in ChanEnd(P, B)
    BY <1>2, <1>5, <1>8, <1>9, ChunksGrow
  <2>c. y \in Seq(Nat)
    BY <1>4, <2>1 DEF ChanEnd
  <2> HIDE DEF P, Q, B, x
  <2>a. chan[e].queue \in Seq(P)
    BY <2>1 DEF ChanEnd
  <2>b. Seq(P) \subseteq Seq(Q)
    BY <2>1
  <2>2. chan[e].queue \in Seq(Q) /\ n + 1 \in Nat
    BY <1>2, <2>a, <2>b
  <2>3. chan[e].queue \o x \in Seq(Q)
    BY <2>1, <2>2
  <2>4. v = [chan[e] EXCEPT !.said = y, !.next = n + 1, !.queue = chan[e].queue \o x]
    BY <2>1 DEF x, ChanEnd
  <2> HIDE DEF y, v
  <2>5. v \in ChanEnd(Q, B) /\ v.next = n + 1 /\ v.expect = chan[e].expect /\ v.said = y /\ v.got = chan[e].got
        /\ v.st = chan[e].st
    BY <2>1, <2>2, <2>3, <2>4, <2>c DEF ChanEnd
  <2> QED
    BY <2>5 DEF Q, B, y
<1> HIDE DEF v
<1>11. Len(v.said) = m /\ Numbered(v.said)
  <2>1. chan[e].said \in Seq(Nat) /\ Numbered(chan[e].said)
    BY <1>2 DEF EndOk, ChanEnd
  <2> DEFINE q == chan[e].said
             k == Len(q)
  <2>2. k \in Nat /\ m = k + 1
    BY <1>4
  <2>3. Len(Append(q, m)) = k + 1 /\ Append(q, m)[k + 1] = m /\ \A i \in 1..k : Append(q, m)[i] = q[i]
    BY <1>4, <2>1, AppendProperties
  <2>4. \A i \in 1..k : q[i] = i
    BY <2>1 DEF Numbered
  <2>5. v.said = Append(q, m)
    BY <1>10
  <2> HIDE DEF q, k, m
  <2> QED
    BY <2>2, <2>3, <2>4, <2>5 DEF Numbered
<1>12. Counted(g, n + 1, m)
  <2> DEFINE k == Len(chan[e].said)
             l == m
  <2>1. Counted(c[e], n, k) /\ c[e] \in [Nat -> Nat]
    BY <1>2 DEF EndOk
  <2>2. k \in Nat /\ l = k + 1 /\ g[n + 1] = l /\ l \in Nat
    BY <1>4, <1>5
  <2> HIDE DEF k, l
  <2>3. k <= l
    BY <2>2
  <2>4. Counted(g, n + 1, l)
    BY <1>2, <1>5, <2>1, <2>2, <2>3, CountedOn
  <2> QED
    BY <2>4 DEF l
<1>13. EndOk(v, chan[o], e, d)
  <2>1. v \in ChanEnd(Chunks(e, v.next, d[e]), Chunks(o, chan[o].next, d[o]))
    BY <1>6, <1>10
  <2>2. Counted(d[e], v.next, Len(v.said))
    BY <1>6, <1>10, <1>11, <1>12
  <2> QED
    BY <1>2, <1>3, <1>6, <1>10, <1>11, <2>1, <2>2 DEF EndOk, o
<1>14. Agree(chan', d)
  BY <1>2, <1>3, <1>5, <1>10, <1>13, ChanSends DEF d, o
<1> QED
  BY <1>14 DEF ChanOk

LEMMA ChanOne ==
    ASSUME NEW s, NEW c, Agree(s, c), NEW e \in Channel!Ends
    PROVE  /\ s[e] \in ChanType(s, c, e) /\ Channel!Ends \subseteq DOMAIN s /\ s[e].next \in Nat
           /\ e = "resp" /\ s[e].next > 0 => s[e].st \in {"open", "closed"}
  BY DEF Agree, EndOk, ChanType

(* The end gives up, or the session ends without a word. *)
LEMMA ChanEnds ==
    ASSUME NEW s, ChanOk(s), NEW e \in Channel!Ends
    PROVE  /\ ChanOk(Channel!close(s, e, FALSE))
           /\ s[e].st \notin {"open", "closed"} => ChanOk(Channel!fail(s, e))
<1> PICK c : Agree(s, c)
  BY DEF ChanOk
<1>1. s[e] \in ChanType(s, c, e) /\ Channel!Ends \subseteq DOMAIN s /\ Channel!Other(e) \in Channel!Ends /\ Channel!Other(e) # e
  BY ChanOne, ChanOther
<1>2. ASSUME NEW x \in {"closed", "failed"}, NEW r, r = [s EXCEPT ![e].st = x, ![e].shut = TRUE],
             s[e].st \in {"open", "closed"} => x = "closed"
      PROVE  ChanOk(r)
  <2> DEFINE v == [s[e] EXCEPT !.st = x, !.shut = TRUE]
  <2>1. ChanStep(s, r, e, v)
    BY <1>1, <1>2 DEF ChanStep, ChanType, ChanEnd
  <2>2. /\ v \in ChanType(s, c, e) /\ v.next = s[e].next /\ v.expect = s[e].expect /\ v.said = s[e].said
        /\ v.got = s[e].got /\ v.st = x
    BY <1>1, <1>2 DEF ChanType, ChanEnd
  <2> HIDE DEF v
  <2>3. (v.st = "open" => s[e].st = "open") /\ (s[e].st \in {"open", "closed"} => v.st \in {"open", "closed"})
    BY <1>2, <2>2
  <2> QED
    BY <2>1, <2>2, <2>3, ChanQuiet DEF ChanOk
<1>3. ChanOk(Channel!close(s, e, FALSE))
  BY <1>2 DEF Channel!close
<1>4. ASSUME s[e].st \notin {"open", "closed"} PROVE ChanOk(Channel!fail(s, e))
  BY <1>2, <1>4 DEF Channel!fail
<1> QED
  BY <1>3, <1>4

(* A session is closed with a word: a record is sealed for it. *)
LEMMA ChanCloses ==
    ASSUME NEW s, ChanOk(s), NEW e \in Channel!Ends, s[e].st = "open", Parts \in Nat
    PROVE  ChanOk(Channel!close(s, e, TRUE))
<1> PICK c : Agree(s, c)
  BY DEF ChanOk
<1> DEFINE t == Channel!encrypt(s, e, "close")
<1>1. ChanOk(t)
  <2>1. PICK type \in ChanTypes : type = "close" /\ type # "message"
    BY DEF ChanTypes
  <2>2. ChanOk(Channel!encrypt(s, e, type))
    BY <2>1, ChanSeals
  <2> QED
    BY <2>1, <2>2
<1>2. Channel!close(s, e, TRUE) = Channel!close(t, e, FALSE)
  BY DEF Channel!close
<1> HIDE DEF t
<1> QED
  BY <1>1, <1>2, ChanEnds

(* What is read from whole chunks is a frame of the other end, or garbage. *)
LEMMA ChanFrame ==
    ASSUME NEW B, NEW e, NEW n, NEW count, B = Chunks(e, n, count), NEW buf \in Seq(B), Len(buf) >= Parts, Parts \in Nat \ {0}
    PROVE  LET f == Channel!nextFrame(buf)
           IN  f.kind = "record" => f \in ChanFrames /\ FrameTrue(f, e, n, count)
<1>1. buf[1] \in B
  BY ElementOfSeq
<1>2. buf[1].frame \in ChanFrames /\ FrameTrue(buf[1].frame, e, n, count)
  BY <1>1 DEF Chunks
<1>3. Channel!nextFrame(buf) = buf[1].frame \/ Channel!nextFrame(buf) = [kind |-> "garbage"]
  BY DEF Channel!nextFrame
<1> QED
  BY <1>2, <1>3

(* The record that is due is taken. *)
LEMMA ChanTakes ==
    ASSUME NEW s, NEW c, Agree(s, c), NEW e \in Channel!Ends, NEW f \in ChanFrames,
           FrameTrue(f, Channel!Other(e), s[Channel!Other(e)].next, c[Channel!Other(e)]),
           Channel!decrypts(s[e], e, f), NEW r, NEW v, ChanStep(s, r, e, v), v \in ChanType(s, c, e),
           v.next = s[e].next, v.said = s[e].said, v.expect = s[e].expect + 1,
           v.got = IF f.type = "message" THEN Append(s[e].got, f.payload) ELSE s[e].got,
           s[e].st \in {"open", "closed"} => v.st \in {"open", "closed"}
    PROVE  Agree(r, c)
<1> DEFINE o == Channel!Other(e)
           x == s[e].expect
           h == c[o]
           n == s[o].next
           got == s[e].got
<1>1. EndOk(s[e], s[o], e, c) /\ o \in Channel!Ends /\ c \in [Channel!Ends -> [Nat -> Nat]] /\ n \in Nat
  BY ChanOther DEF Agree
<1>2. f.kind = "record" /\ f.seq = x
  BY DEF Channel!decrypts
<1>3. x \in Nat /\ x < n /\ Len(got) = h[x] /\ h \in [Nat -> Nat] /\ got \in Seq(Nat) /\ Numbered(got)
      /\ (f.type # "message" => h[x + 1] = h[x])
      /\ (f.type = "message" => h[x + 1] = h[x] + 1 /\ f.payload = h[x] + 1)
  BY <1>1, <1>2 DEF EndOk, ChanEnd, FrameTrue
<1>4. v.expect <= n /\ n > 0
  <2>1. v.expect = x + 1
    OBVIOUS
  <2>2. x \in Nat /\ n \in Nat /\ x < n
    BY <1>1, <1>3
  <2> HIDE DEF x, n
  <2>3. x + 1 <= n /\ n > 0
    BY <2>2
  <2> QED
    BY <2>1, <2>3
<1>5. Len(v.got) = h[v.expect] /\ Numbered(v.got)
  <2>1. v.expect = x + 1 /\ v.got = IF f.type = "message" THEN Append(got, f.payload) ELSE got
    OBVIOUS
  <2> HIDE DEF x, h, got
  <2>2. CASE f.type # "message"
    BY <1>3, <2>1, <2>2
  <2>3. CASE f.type = "message"
    <3>1. h[x] \in Nat
      BY <1>3
    <3> DEFINE k == h[x]
    <3>a. k \in Nat /\ Len(got) = k /\ got \in Seq(Nat) /\ Numbered(got)
      BY <1>3, <3>1
    <3>b. h[x + 1] = k + 1 /\ f.payload = k + 1
      BY <1>3, <2>3
    <3> HIDE DEF k
    <3>2. k + 1 \in Nat /\ v.got = Append(got, k + 1) /\ h[v.expect] = k + 1
      BY <2>1, <2>3, <3>a, <3>b
    <3>3. /\ Len(Append(got, k + 1)) = k + 1 /\ Append(got, k + 1)[k + 1] = k + 1
          /\ \A i \in 1..k : Append(got, k + 1)[i] = got[i]
      BY <3>2, <3>a, AppendProperties
    <3>4. ASSUME NEW i \in 1..(k + 1) PROVE Append(got, k + 1)[i] = i
      <4>1. i = k + 1 \/ i \in 1..k
        BY <3>a
      <4> QED
        BY <3>3, <3>a, <4>1 DEF Numbered
    <3> QED
      BY <3>2, <3>3, <3>4 DEF Numbered
  <2> QED
    BY <2>2, <2>3
<1>6. EndOk(v, s[o], e, c)
  <2>1. v \in ChanEnd(Chunks(e, v.next, c[e]), Chunks(o, s[o].next, c[o]))
    BY DEF ChanType
  <2>2. Counted(c[e], v.next, Len(v.said)) /\ Numbered(v.said)
    BY <1>1 DEF EndOk
  <2>3. e = "resp" /\ v.next > 0 => v.st \in {"open", "closed"}
    BY <1>1 DEF EndOk
  <2> QED
    BY <1>4, <1>5, <2>1, <2>2, <2>3 DEF EndOk
<1> QED
  BY <1>6, ChanKeeps

LEMMA ChanFin ==
    ASSUME NEW s, ChanOk(s), NEW e \in Channel!Ends, s[e].st = "hello", NEW r, r = [s EXCEPT ![e].st = "fin"]
    PROVE  ChanOk(r)
<1> PICK c : Agree(s, c)
  BY DEF ChanOk
<1> DEFINE v == [s[e] EXCEPT !.st = "fin"]
<1>1. s[e] \in ChanType(s, c, e) /\ Channel!Ends \subseteq DOMAIN s /\ Channel!Other(e) \in Channel!Ends /\ Channel!Other(e) # e
  BY ChanOne, ChanOther
<1>2. ChanStep(s, r, e, v)
  BY <1>1 DEF ChanStep
<1>3. /\ v \in ChanType(s, c, e) /\ v.next = s[e].next /\ v.expect = s[e].expect /\ v.said = s[e].said
      /\ v.got = s[e].got /\ v.st = "fin"
  BY <1>1 DEF ChanType, ChanEnd
<1> HIDE DEF v
<1>4. (v.st = "open" => s[e].st = "open") /\ (s[e].st \in {"open", "closed"} => v.st \in {"open", "closed"})
  BY <1>3
<1> QED
  BY <1>2, <1>3, <1>4, ChanQuiet DEF ChanOk

LEMMA ChanHello ==
    ASSUME NEW s, ChanOk(s), NEW e \in Channel!Ends, Parts \in Nat
    PROVE  LET r == Channel!sendBinary(s, e, [kind |-> "server"])
           IN  ChanOk(r) /\ r[e].st = s[e].st
<1> PICK c : Agree(s, c)
  BY DEF ChanOk
<1> DEFINE f == [kind |-> "server"]
           x == Channel!encodePrefixed(f)
           v == [s[e] EXCEPT !.queue = @ \o x]
           r == Channel!sendBinary(s, e, f)
           B == Chunks(Channel!Other(e), s[Channel!Other(e)].next, c[Channel!Other(e)])
           Q == Chunks(e, s[e].next, c[e])
<1>1. s[e] \in ChanEnd(Q, B) /\ Channel!Ends \subseteq DOMAIN s /\ Channel!Other(e) \in Channel!Ends /\ Channel!Other(e) # e
  BY ChanOne, ChanOther DEF ChanType
<1>2. ChanStep(s, r, e, v)
  BY <1>1 DEF ChanStep, Channel!sendBinary
<1>3. x \in Seq(Q)
  <2>1. \A i \in 1..Parts : [frame |-> f, part |-> i] \in Q
    BY DEF Chunks, ChanFrames, FrameTrue
  <2> HIDE DEF Q
  <2> QED
    BY <2>1, ChanEncode
<1> HIDE DEF Q, B, x, r
<1>4. s[e].queue \o x \in Seq(Q)
  BY <1>1, <1>3 DEF ChanEnd
<1>5. /\ v \in ChanEnd(Q, B) /\ v.next = s[e].next /\ v.expect = s[e].expect /\ v.said = s[e].said
      /\ v.got = s[e].got /\ v.st = s[e].st
  BY <1>1, <1>4 DEF ChanEnd
<1>6. v \in ChanType(s, c, e)
  BY <1>5 DEF ChanType, Q, B
<1> HIDE DEF v
<1>7. (v.st = "open" => s[e].st = "open") /\ (s[e].st \in {"open", "closed"} => v.st \in {"open", "closed"})
  BY <1>5
<1>8. Agree(r, c) /\ r[e].st = s[e].st
  BY <1>2, <1>5, <1>6, <1>7, ChanQuiet DEF ChanStep
<1> QED
  BY <1>8 DEF ChanOk, r

LEMMA ChanReads ==
    ASSUME ChanOk(chan), NEW e \in Channel!Ends, Channel!readPrefixed(e), Parts \in Nat \ {0}
    PROVE  ChanOk(chan')
<1> PICK c : Agree(chan, c)
  BY DEF ChanOk
<1> DEFINE o == Channel!Other(e)
           f == Channel!nextFrame(chan[e].buf)
           s == [chan EXCEPT ![e].buf = SubSeq(@, Parts + 1, Len(@))]
           w == [chan[e] EXCEPT !.buf = SubSeq(@, Parts + 1, Len(@))]
<1>1. /\ chan[e] \in ChanType(chan, c, e) /\ Channel!Ends \subseteq DOMAIN chan /\ o \in Channel!Ends /\ o # e
      /\ Channel!Other(o) = e /\ chan[e].st \in {"hello", "fin", "open"} /\ Len(chan[e].buf) >= Parts
  BY ChanOne, ChanOther DEF Channel!readPrefixed
<1>2. chan' = CASE s[e].st = "open" -> Channel!readLoop(s, e, f)
                [] s[e].st = "fin"  -> Channel!receiveFinished(s, e, f)
                [] OTHER -> IF e = "init" THEN Channel!initiatorHandshake(s, f) ELSE Channel!responderHandshake(s, f)
  BY DEF Channel!readPrefixed
<1>3. f.kind = "record" => f \in ChanFrames /\ FrameTrue(f, o, chan[o].next, c[o])
  <2> DEFINE B == Chunks(o, chan[o].next, c[o])
  <2>1. chan[e].buf \in Seq(B)
    BY <1>1 DEF ChanType, ChanEnd
  <2> QED
    BY <1>1, <2>1, ChanFrame
<1>4. ChanStep(chan, s, e, w) /\ w \in ChanType(chan, c, e) /\ w.next = chan[e].next /\ w.expect = chan[e].expect
      /\ w.said = chan[e].said /\ w.got = chan[e].got /\ w.st = chan[e].st
  <2> DEFINE B == Chunks(o, chan[o].next, c[o])
             Q == Chunks(e, chan[e].next, c[e])
             y == SubSeq(chan[e].buf, Parts + 1, Len(chan[e].buf))
  <2>1. chan[e].buf \in Seq(B) /\ chan[e] \in ChanEnd(Q, B)
    BY <1>1 DEF ChanType, ChanEnd
  <2>a. ChanStep(chan, s, e, w)
    BY <1>1 DEF ChanStep
  <2> HIDE DEF B, Q
  <2>2. y \in Seq(B)
    BY <2>1, SubSeqProperties
  <2>3. w = [chan[e] EXCEPT !.buf = y]
    OBVIOUS
  <2> HIDE DEF y, w
  <2>4. w \in ChanEnd(Q, B) /\ w.next = chan[e].next /\ w.expect = chan[e].expect
      /\ w.said = chan[e].said /\ w.got = chan[e].got /\ w.st = chan[e].st
    BY <2>1, <2>2, <2>3 DEF ChanEnd
  <2> QED
    BY <2>a, <2>4 DEF ChanType, B, Q
<1> HIDE DEF s, w, f, o
<1>5. Agree(s, c) /\ s[e].st = chan[e].st /\ s[o] = chan[o]
  <2>1. (w.st = "open" => chan[e].st = "open") /\ (chan[e].st \in {"open", "closed"} => w.st \in {"open", "closed"})
    BY <1>4
  <2>2. Agree(s, c)
    BY <1>4, <2>1, ChanQuiet
  <2> QED
    BY <1>4, <2>2 DEF ChanStep, o
<1>6. /\ s[e] \in ChanType(s, c, e) /\ Channel!Ends \subseteq DOMAIN s /\ ChanOk(s)
      /\ e = "resp" /\ s[e].next > 0 => s[e].st \in {"open", "closed"}
  BY <1>5, ChanOne DEF ChanOk
<1>7. ASSUME Channel!decrypts(s[e], e, f), NEW got, NEW st, st \in {s[e].st, "open"}, NEW r,
             got = IF f.type = "message" THEN Append(s[e].got, f.payload) ELSE s[e].got,
             s[e].st # "closed",
             ChanStep(s, r, e, [s[e] EXCEPT !.expect = @ + 1, !.got = got, !.st = st])
      PROVE  ChanOk(r)
  <2> DEFINE v == [s[e] EXCEPT !.expect = @ + 1, !.got = got, !.st = st]
             B == Chunks(o, s[o].next, c[o])
             Q == Chunks(e, s[e].next, c[e])
  <2>1. f.kind = "record"
    BY <1>7 DEF Channel!decrypts
  <2>2. f \in ChanFrames /\ FrameTrue(f, o, s[o].next, c[o])
    BY <1>3, <1>5, <2>1
  <2>3. f.type = "message" => f.payload \in Nat
    BY <2>1, <2>2 DEF ChanFrames
  <2>4. s[e] \in ChanEnd(Q, B)
    BY <1>6 DEF ChanType, o
  <2> HIDE DEF Q, B
  <2>5. s[e].got \in Seq(Nat) /\ s[e].expect + 1 \in Nat
    BY <2>4 DEF ChanEnd
  <2>6. got \in Seq(Nat)
    BY <1>7, <2>3, <2>5
  <2>7. st \in {"hello", "fin", "open", "closed", "failed"}
    BY <1>7, <2>4 DEF ChanEnd
  <2>8. v \in ChanEnd(Q, B) /\ v.next = s[e].next /\ v.said = s[e].said /\ v.expect = s[e].expect + 1 /\ v.got = got /\ v.st = st
    BY <2>4, <2>5, <2>6, <2>7 DEF ChanEnd
  <2>9. v \in ChanType(s, c, e)
    BY <2>8 DEF ChanType, Q, B, o
  <2>10. ChanStep(s, r, e, v)
    BY <1>7
  <2> HIDE DEF v
  <2>11. s[e].st \in {"open", "closed"} => v.st \in {"open", "closed"}
    BY <1>7, <2>8
  <2>12. Agree(r, c)
    BY <1>5, <1>7, <2>2, <2>8, <2>9, <2>10, <2>11, ChanTakes DEF o
  <2> QED
    BY <2>12 DEF ChanOk
<1>8. CASE s[e].st = "open"
  <2>1. chan' = Channel!readLoop(s, e, f)
    BY <1>2, <1>8
  <2>2. CASE ~Channel!decrypts(s[e], e, f)
    BY <1>6, <2>1, <2>2, ChanEnds DEF Channel!readLoop
  <2>3. CASE Channel!decrypts(s[e], e, f) /\ f.type = "message"
    <3>1. chan' = [Channel!Took(s, e) EXCEPT ![e].got = Append(@, f.payload)]
      BY <2>1, <2>3 DEF Channel!readLoop
    <3>2. ChanStep(s, chan', e, [s[e] EXCEPT !.expect = @ + 1, !.got = Append(s[e].got, f.payload), !.st = s[e].st])
      BY <1>1, <1>6, <3>1 DEF Channel!Took, ChanStep, ChanType, ChanEnd, o
    <3> QED
      BY <1>7, <1>8, <2>3, <3>2
  <2>4. CASE Channel!decrypts(s[e], e, f) /\ f.type # "message"
    <3> DEFINE t == Channel!Took(s, e)
    <3>1. ChanStep(s, t, e, [s[e] EXCEPT !.expect = @ + 1, !.got = s[e].got, !.st = s[e].st])
      BY <1>1, <1>6 DEF Channel!Took, ChanStep, ChanType, ChanEnd, o
    <3>2. ChanOk(t)
      BY <1>7, <1>8, <2>4, <3>1
    <3>3. t[e].st = "open"
      BY <1>6, <1>8 DEF Channel!Took, ChanType, ChanEnd
    <3>4. chan' \in {Channel!encrypt(t, e, "pong"), Channel!close(t, e, FALSE), t}
      BY <2>1, <2>4 DEF Channel!readLoop
    <3> HIDE DEF t
    <3>5. CASE chan' = Channel!encrypt(t, e, "pong")
      <4>1. PICK type \in ChanTypes : type = "pong" /\ type # "message"
        BY DEF ChanTypes
      <4>2. PICK d : Agree(t, d)
        BY <3>2 DEF ChanOk
      <4>3. ChanOk(Channel!encrypt(t, e, type))
        BY <3>3, <4>1, <4>2, ChanSeals
      <4> QED
        BY <3>5, <4>1, <4>3
    <3> QED
      BY <3>2, <3>4, <3>5, ChanEnds
  <2> QED
    BY <2>2, <2>3, <2>4
<1>9. CASE s[e].st = "fin"
  <2>1. chan' = Channel!receiveFinished(s, e, f)
    BY <1>2, <1>9
  <2>2. CASE ~Channel!decrypts(s[e], e, f) \/ f.type # "finished"
    BY <1>6, <1>9, <2>1, <2>2, ChanEnds DEF Channel!receiveFinished
  <2>3. CASE Channel!decrypts(s[e], e, f) /\ f.type = "finished"
    <3> DEFINE t == [Channel!Took(s, e) EXCEPT ![e].st = "open"]
    <3>1. ChanStep(s, t, e, [s[e] EXCEPT !.expect = @ + 1, !.got = s[e].got, !.st = "open"])
      BY <1>1, <1>6 DEF Channel!Took, ChanStep, ChanType, ChanEnd, o
    <3>2. ChanOk(t)
      BY <1>7, <1>9, <2>3, <3>1
    <3>3. t[e].st = "open"
      BY <1>6 DEF Channel!Took, ChanType, ChanEnd
    <3>4. chan' = IF e = "resp" THEN Channel!encrypt(t, e, "finished") ELSE t
      BY <2>1, <2>3 DEF Channel!receiveFinished, Channel!sendFinished
    <3> HIDE DEF t
    <3>5. CASE chan' = Channel!encrypt(t, e, "finished")
      <4>1. PICK type \in ChanTypes : type = "finished" /\ type # "message"
        BY DEF ChanTypes
      <4>2. PICK d : Agree(t, d)
        BY <3>2 DEF ChanOk
      <4>3. ChanOk(Channel!encrypt(t, e, type))
        BY <3>3, <4>1, <4>2, ChanSeals
      <4> QED
        BY <3>5, <4>1, <4>3
    <3> QED
      BY <3>2, <3>4, <3>5
  <2> QED
    BY <2>2, <2>3
<1>10. CASE s[e].st = "hello"
  <2>1. CASE chan' = Channel!fail(s, e)
    BY <1>6, <1>10, <2>1, ChanEnds
  <2>2. CASE e = "init" /\ chan' = [Channel!sendFinished(s, "init") EXCEPT !["init"].st = "fin"]
    <3> DEFINE t == Channel!encrypt(s, e, "finished")
    <3>1. chan' = [t EXCEPT ![e].st = "fin"]
      BY <2>2 DEF Channel!sendFinished
    <3>2. ChanOk(t) /\ t[e].st = "hello"
      <4>1. PICK type \in ChanTypes : type = "finished" /\ type # "message"
        BY DEF ChanTypes
      <4>2. e = "resp" => s[e].st \in {"open", "closed"}
        BY <2>2
      <4>3. ChanOk(Channel!encrypt(s, e, type))
        BY <1>5, <4>1, <4>2, ChanSeals
      <4>4. t[e].st = s[e].st
        BY <1>1, <1>6 DEF Channel!encrypt, Channel!encryptOf, Channel!sendBinary, ChanType, ChanEnd
      <4> QED
        BY <1>10, <4>1, <4>3, <4>4
    <3> HIDE DEF t
    <3> QED
      BY <3>1, <3>2, ChanFin
  <2>3. CASE e = "resp" /\ chan' = [Channel!sendBinary(s, "resp", [kind |-> "server"]) EXCEPT !["resp"].st = "fin"]
    <3> DEFINE t == Channel!sendBinary(s, e, [kind |-> "server"])
    <3>1. chan' = [t EXCEPT ![e].st = "fin"]
      BY <2>3
    <3>2. ChanOk(t) /\ t[e].st = "hello"
      BY <1>6, <1>10, ChanHello
    <3> HIDE DEF t
    <3> QED
      BY <3>1, <3>2, ChanFin
  <2> QED
    BY <1>2, <1>10, <2>1, <2>2, <2>3, <1>1 DEF Channel!initiatorHandshake, Channel!responderHandshake, Channel!Ends
<1> QED
  BY <1>1, <1>5, <1>8, <1>9, <1>10

LEMMA ChanRefuses ==
    ASSUME ChanOk(chan), NEW e \in Channel!Ends, Channel!Refuse(e), Parts \in Nat \ {0}
    PROVE  ChanOk(chan')
<1> PICK c : Agree(chan, c)
  BY DEF ChanOk
<1> DEFINE B == Chunks(Channel!Other(e), chan[Channel!Other(e)].next, c[Channel!Other(e)])
           Q == Chunks(e, chan[e].next, c[e])
           y == SubSeq(chan[e].buf, Parts + 1, Len(chan[e].buf))
           s == [chan EXCEPT ![e].buf = SubSeq(@, Parts + 1, Len(@))]
           v == [chan[e] EXCEPT !.buf = y]
<1>1. /\ chan[e] \in ChanEnd(Q, B) /\ Channel!Ends \subseteq DOMAIN chan /\ chan[e].st = "hello"
      /\ Channel!Other(e) \in Channel!Ends /\ Channel!Other(e) # e
      /\ chan' = Channel!fail(s, e)
  BY ChanOne, ChanOther DEF ChanType, Channel!Refuse
<1>2. ChanStep(chan, s, e, v) /\ s[e].st = "hello"
  <2>1. ChanStep(chan, s, e, v)
    BY <1>1 DEF ChanStep
  <2> QED
    BY <1>1, <2>1 DEF ChanStep, ChanEnd
<1> HIDE DEF B, Q, s
<1>3. chan[e].buf \in Seq(B)
  BY <1>1 DEF ChanEnd
<1>4. y \in Seq(B)
  BY <1>3, SubSeqProperties
<1> HIDE DEF y
<1>5. v \in ChanEnd(Q, B) /\ v.next = chan[e].next /\ v.expect = chan[e].expect
      /\ v.said = chan[e].said /\ v.got = chan[e].got /\ v.st = chan[e].st
  BY <1>1, <1>4 DEF ChanEnd
<1> HIDE DEF v
<1>6. (v.st = "open" => chan[e].st = "open") /\ (chan[e].st \in {"open", "closed"} => v.st \in {"open", "closed"})
  BY <1>5
<1>7. v \in ChanType(chan, c, e)
  BY <1>5 DEF ChanType, B, Q
<1>8. ChanOk(s)
  BY <1>2, <1>5, <1>6, <1>7, ChanQuiet DEF ChanOk
<1> QED
  BY <1>1, <1>2, <1>8, ChanEnds

(* The streams of an end: its queue, its wire and its buffer. *)
LEMMA ChanStreams ==
    ASSUME NEW s, NEW c, Agree(s, c), NEW e \in Channel!Ends,
           NEW queue \in Seq(Chunks(e, s[e].next, c[e])),
           NEW wire \in Seq(Chunks(Channel!Other(e), s[Channel!Other(e)].next, c[Channel!Other(e)])),
           NEW buf \in Seq(Chunks(Channel!Other(e), s[Channel!Other(e)].next, c[Channel!Other(e)])),
           NEW shut \in BOOLEAN, NEW pings \in Nat, NEW r, ChanStep(s, r, e, [s[e] EXCEPT !.queue = queue, !.wire = wire, !.buf = buf,
                                                                      !.shut = shut, !.pings = pings])
    PROVE  Agree(r, c)
<1> DEFINE v == [s[e] EXCEPT !.queue = queue, !.wire = wire, !.buf = buf, !.shut = shut, !.pings = pings]
<1>1. s[e] \in ChanType(s, c, e)
  BY ChanOne
<1>2. v \in ChanType(s, c, e) /\ v.next = s[e].next /\ v.expect = s[e].expect
      /\ v.said = s[e].said /\ v.got = s[e].got /\ v.st = s[e].st
  BY <1>1 DEF ChanType, ChanEnd
<1>3. ChanStep(s, r, e, v)
  OBVIOUS
<1> HIDE DEF v
<1>4. (v.st = "open" => s[e].st = "open") /\ (s[e].st \in {"open", "closed"} => v.st \in {"open", "closed"})
  BY <1>2
<1> QED
  BY <1>2, <1>3, <1>4, ChanQuiet

LEMMA ChanFlushes ==
    ASSUME ChanOk(chan), NEW e \in Channel!Ends, Channel!flushSends(e)
    PROVE  ChanOk(chan')
<1> PICK c : Agree(chan, c)
  BY DEF ChanOk
<1> DEFINE o == Channel!Other(e)
           B == Chunks(o, chan[o].next, c[o])
           Q == Chunks(e, chan[e].next, c[e])
           me == chan[e]
<1>1. /\ me \in ChanEnd(Q, B) /\ Channel!Ends \subseteq DOMAIN chan /\ o \in Channel!Ends /\ o # e /\ Channel!Other(o) = e
  BY ChanOne, ChanOther DEF ChanType
<1>2. /\ me.queue \in Seq(Q) /\ me.wire \in Seq(B) /\ me.buf \in Seq(B) /\ me.shut \in BOOLEAN /\ me.pings \in Nat
  BY <1>1 DEF ChanEnd
<1> DEFINE tail == Tail(me.queue)
           k == Head(me.queue)
           s == [chan EXCEPT ![e].queue = tail]
           wire == Append(chan[o].wire, k)
<1>3. me.queue # <<>> /\ chan' = [chan EXCEPT ![e].queue = tail, ![o].wire = wire]
  BY <1>1 DEF Channel!flushSends
<1>4. tail \in Seq(Q) /\ k \in Q
  <2> DEFINE queue == me.queue
  <2>1. queue \in Seq(Q) /\ queue # <<>>
    BY <1>2, <1>3
  <2> HIDE DEF Q, queue
  <2>2. Head(queue) \in Q /\ Tail(queue) \in Seq(Q)
    BY <2>1, HeadTailProperties
  <2> QED
    BY <2>2 DEF queue
<1>5. ChanStep(chan, s, e, [me EXCEPT !.queue = tail, !.wire = me.wire, !.buf = me.buf, !.shut = me.shut, !.pings = me.pings])
  BY <1>1 DEF ChanStep, ChanEnd
<1>6. Agree(s, c) /\ s[o] = chan[o] /\ s[e].next = me.next /\ Channel!Ends \subseteq DOMAIN s
  <2>1. Agree(s, c)
    BY <1>2, <1>4, <1>5, ChanStreams
  <2>2. s[o] = chan[o] /\ s[e].next = me.next /\ Channel!Ends \subseteq DOMAIN s
    BY <1>1 DEF ChanEnd
  <2> QED
    BY <2>1, <2>2
<1>7. s[o] \in ChanEnd(Chunks(o, s[o].next, c[o]), Q)
  <2>1. s[o] \in ChanType(s, c, o)
    BY <1>1, <1>6, ChanOne
  <2> QED
    BY <1>1, <1>6, <2>1 DEF ChanType
<1>8. ChanStep(s, chan', o, [s[o] EXCEPT !.queue = s[o].queue, !.wire = wire, !.buf = s[o].buf, !.shut = s[o].shut, !.pings = s[o].pings])
  BY <1>1, <1>3, <1>6, <1>7 DEF ChanStep, ChanEnd
<1> HIDE DEF s, k, tail
<1>9. /\ s[o].queue \in Seq(Chunks(o, s[o].next, c[o])) /\ s[o].wire \in Seq(Q) /\ s[o].buf \in Seq(Q)
      /\ s[o].shut \in BOOLEAN /\ s[o].pings \in Nat
  BY <1>7 DEF ChanEnd
<1>10. wire \in Seq(Q)
  <2> HIDE DEF Q
  <2> QED
    BY <1>4, <1>6, <1>9
<1> HIDE DEF wire
<1>11. Q = Chunks(e, s[e].next, c[e])
  BY <1>6
<1>12. Agree(chan', c)
  BY <1>1, <1>6, <1>8, <1>9, <1>10, <1>11, ChanStreams
<1> QED
  BY <1>12 DEF ChanOk

LEMMA ChanWires ==
    ASSUME ChanOk(chan), NEW e \in Channel!Ends, Channel!push(e) \/ Channel!Lose(e) \/ Channel!Repeat(e), Parts \in Nat
    PROVE  ChanOk(chan')
<1> PICK c : Agree(chan, c)
  BY DEF ChanOk
<1> DEFINE o == Channel!Other(e)
           B == Chunks(o, chan[o].next, c[o])
           Q == Chunks(e, chan[e].next, c[e])
           me == chan[e]
<1>1. /\ me \in ChanEnd(Q, B) /\ Channel!Ends \subseteq DOMAIN chan /\ o \in Channel!Ends /\ o # e /\ Channel!Other(o) = e
  BY ChanOne, ChanOther DEF ChanType
<1>2. /\ me.queue \in Seq(Q) /\ me.wire \in Seq(B) /\ me.buf \in Seq(B) /\ me.shut \in BOOLEAN /\ me.pings \in Nat
  BY <1>1 DEF ChanEnd
<1>3. ASSUME NEW wire \in Seq(B), NEW buf \in Seq(B),
             ChanStep(chan, chan', e, [me EXCEPT !.queue = me.queue, !.wire = wire, !.buf = buf, !.shut = me.shut, !.pings = me.pings])
      PROVE  ChanOk(chan')
  BY <1>2, <1>3, ChanStreams DEF ChanOk
<1>4. CASE Channel!push(e)
  <2> DEFINE wire == Tail(me.wire)
             buf == IF me.shut THEN me.buf ELSE Append(me.buf, Head(me.wire))
  <2>1. me.wire # <<>>
    BY <1>4 DEF Channel!push
  <2>2. ChanStep(chan, chan', e, [me EXCEPT !.queue = me.queue, !.wire = wire, !.buf = buf, !.shut = me.shut, !.pings = me.pings])
    BY <1>1, <1>4 DEF Channel!push, ChanStep, ChanEnd
  <2>3. wire \in Seq(B) /\ buf \in Seq(B)
    <3> HIDE DEF B
    <3> QED
      BY <1>2, <2>1
  <2> HIDE DEF wire, buf
  <2> QED
    BY <1>3, <2>2, <2>3
<1>5. CASE Channel!Lose(e)
  <2> DEFINE wire == SubSeq(me.wire, Parts + 1, Len(me.wire))
  <2>1. ChanStep(chan, chan', e, [me EXCEPT !.queue = me.queue, !.wire = wire, !.buf = me.buf, !.shut = me.shut, !.pings = me.pings])
    <3>1. chan' = [chan EXCEPT !.faults = @ + 1, ![e].wire = wire]
      BY <1>5 DEF Channel!Lose
    <3>2. e # "faults" /\ o # "faults"
      BY <1>1 DEF Channel!Ends
    <3> QED
      BY <1>1, <3>1, <3>2 DEF ChanStep, ChanEnd
  <2>2. wire \in Seq(B)
    <3> HIDE DEF B
    <3> QED
      BY <1>2, SubSeqProperties
  <2> HIDE DEF wire
  <2> QED
    BY <1>2, <1>3, <2>1, <2>2
<1>6. CASE Channel!Repeat(e)
  <2> DEFINE head == SubSeq(me.wire, 1, Parts)
             wire == head \o me.wire
  <2>1. ChanStep(chan, chan', e, [me EXCEPT !.queue = me.queue, !.wire = wire, !.buf = me.buf, !.shut = me.shut, !.pings = me.pings])
    <3>1. chan' = [chan EXCEPT !.faults = @ + 1, ![e].wire = wire]
      BY <1>6 DEF Channel!Repeat
    <3>2. e # "faults" /\ o # "faults"
      BY <1>1 DEF Channel!Ends
    <3> QED
      BY <1>1, <3>1, <3>2 DEF ChanStep, ChanEnd
  <2>2. wire \in Seq(B)
    <3>1. Len(me.wire) >= Parts
      BY <1>6 DEF Channel!Repeat, Channel!Whole
    <3> HIDE DEF B
    <3>2. head \in Seq(B)
      BY <1>2, <3>1, SubSeqProperties
    <3> HIDE DEF head
    <3> QED
      BY <1>2, <3>2
  <2> HIDE DEF wire
  <2> QED
    BY <1>2, <1>3, <2>1, <2>2
<1> QED
  BY <1>4, <1>5, <1>6

LEMMA ChanPings ==
    ASSUME ChanOk(chan), NEW e \in Channel!Ends, Channel!sendPing(e), Parts \in Nat
    PROVE  ChanOk(chan')
<1> PICK c : Agree(chan, c)
  BY DEF ChanOk
<1> DEFINE o == Channel!Other(e)
           B == Chunks(o, chan[o].next, c[o])
           Q == Chunks(e, chan[e].next, c[e])
           me == chan[e]
<1>1. /\ me \in ChanEnd(Q, B) /\ Channel!Ends \subseteq DOMAIN chan /\ o \in Channel!Ends /\ o # e /\ Channel!Other(o) = e
  BY ChanOne, ChanOther DEF ChanType
<1>2. /\ me.queue \in Seq(Q) /\ me.wire \in Seq(B) /\ me.buf \in Seq(B) /\ me.shut \in BOOLEAN /\ me.pings \in Nat
  BY <1>1 DEF ChanEnd
<1> DEFINE s == [chan EXCEPT ![e].pings = @ + 1]
<1>3. me.st = "open" /\ chan' = Channel!encrypt(s, e, "ping") /\ me.pings + 1 \in Nat
  BY <1>2 DEF Channel!sendPing
<1>4. ChanStep(chan, s, e, [me EXCEPT !.queue = me.queue, !.wire = me.wire, !.buf = me.buf, !.shut = me.shut, !.pings = me.pings + 1])
  BY <1>1 DEF ChanStep, ChanEnd
<1>5. s[e].st = "open"
  BY <1>1, <1>3 DEF ChanEnd
<1>6. Agree(s, c)
  BY <1>2, <1>3, <1>4, ChanStreams
<1> HIDE DEF s
<1>7. PICK type \in ChanTypes : type = "ping" /\ type # "message"
  BY DEF ChanTypes
<1>8. ChanOk(Channel!encrypt(s, e, type))
  BY <1>5, <1>6, <1>7, ChanSeals
<1> QED
  BY <1>3, <1>7, <1>8

LEMMA ChanTunnel ==
    ASSUME ChanOk(chan), NEW e \in Channel!Ends, Channel!TunnelClosed(e)
    PROVE  ChanOk(chan')
<1> PICK c : Agree(chan, c)
  BY DEF ChanOk
<1> DEFINE o == Channel!Other(e)
           B == Chunks(o, chan[o].next, c[o])
           Q == Chunks(e, chan[e].next, c[e])
           me == chan[e]
<1>1. /\ me \in ChanEnd(Q, B) /\ Channel!Ends \subseteq DOMAIN chan /\ o \in Channel!Ends /\ o # e /\ Channel!Other(o) = e
  BY ChanOne, ChanOther DEF ChanType
<1>2. /\ me.queue \in Seq(Q) /\ me.wire \in Seq(B) /\ me.buf \in Seq(B) /\ me.shut \in BOOLEAN /\ me.pings \in Nat
  BY <1>1 DEF ChanEnd
<1> DEFINE t == [chan EXCEPT ![e].shut = TRUE, ![e].wire = <<>>, ![e].queue = <<>>]
<1>3. ChanStep(chan, t, e, [me EXCEPT !.queue = <<>>, !.wire = <<>>, !.buf = me.buf, !.shut = TRUE, !.pings = me.pings])
  BY <1>1 DEF ChanStep, ChanEnd
<1>4. <<>> \in Seq(Q) /\ <<>> \in Seq(B)
  <2> HIDE DEF Q, B
  <2> QED
    OBVIOUS
<1>5. ChanOk(t)
  BY <1>2, <1>3, <1>4, ChanStreams DEF ChanOk
<1>6. \/ chan' = t
      \/ t[e].st = "open" /\ chan' = Channel!close(t, e, FALSE)
      \/ t[e].st \notin {"open", "closed"} /\ chan' = Channel!fail(t, e)
  BY <1>1 DEF Channel!TunnelClosed, Channel!transportClose, ChanEnd
<1> HIDE DEF t
<1> QED
  BY <1>5, <1>6, ChanEnds

(* What one end of a tunnel hands on is what the other end sent, in order  *)
(* and nothing twice, and an initiator never believes in a session that    *)
(* the responder has not completed (peerProtocol/handshake.js, records.js, *)
(* session.js), for any size of frames, number of frames sent and faults   *)
(* of the relay, as soon as a frame has at least one chunk.                *)
THEOREM ChannelIsHonest == ChannelSpec => []ChannelHonest
<1>1. Channel!Init => ChanInv
  <2> SUFFICES ASSUME Channel!Init PROVE ChanOk(chan)
    BY DEF ChanInv
  <2> DEFINE c == [e \in Channel!Ends |-> [q \in Nat |-> 0]]
             Q(e) == Chunks(e, 0, c[e])
             f == [kind |-> "client"]
             x == Channel!encodePrefixed(f)
  <2>1. Channel!Ends = {"init", "resp"} /\ Channel!Other("init") = "resp" /\ Channel!Other("resp") = "init"
        /\ c["init"] = [q \in Nat |-> 0] /\ c["resp"] = [q \in Nat |-> 0] /\ c \in [Channel!Ends -> [Nat -> Nat]]
    BY DEF Channel!Ends, Channel!Other
  <2>2. chan["init"] = [Channel!NewEnd EXCEPT !.queue = x] /\ chan["resp"] = Channel!NewEnd /\ Channel!Ends \subseteq DOMAIN chan
    BY <2>1 DEF Channel!Init
  <2>3. x \in Seq(Q("init"))
    <3>1. \A i \in 1..Parts : [frame |-> f, part |-> i] \in Q("init")
      BY DEF Chunks, ChanFrames, FrameTrue
    <3> HIDE DEF Q
    <3> QED
      BY <3>1, ChanEncode, ClientAssumption
  <2>4. Counted(c["init"], 0, 0) /\ Counted(c["resp"], 0, 0) /\ Numbered(<<>>) /\ Len(<<>>) = 0
        /\ c["init"][0] = 0 /\ c["resp"][0] = 0
    BY <2>1 DEF Counted, Numbered
  <2> HIDE DEF c, x
  <2> DEFINE I == Q("init")
             R == Q("resp")
  <2>5. chan["init"] \in ChanEnd(I, R) /\ chan["resp"] \in ChanEnd(R, I)
    <3>1. x \in Seq(I)
      BY <2>3
    <3> HIDE DEF I, R
    <3>2. <<>> \in Seq(I) /\ <<>> \in Seq(R) /\ <<>> \in Seq(Nat) /\ 0 \in Nat /\ FALSE \in BOOLEAN
      OBVIOUS
    <3>3. ASSUME NEW q \in Seq(I)
          PROVE  [Channel!NewEnd EXCEPT !.queue = q] \in ChanEnd(I, R)
      BY <3>2, <3>3 DEF Channel!NewEnd, ChanEnd
    <3>4. Channel!NewEnd \in ChanEnd(R, I)
      BY <3>2 DEF Channel!NewEnd, ChanEnd
    <3> QED
      BY <2>2, <3>1, <3>3, <3>4
  <2>6. /\ chan["init"].next = 0 /\ chan["resp"].next = 0 /\ chan["init"].said = <<>> /\ chan["resp"].said = <<>>
        /\ chan["init"].got = <<>> /\ chan["resp"].got = <<>> /\ chan["init"].expect = 0 /\ chan["resp"].expect = 0
        /\ chan["init"].st = "hello"
    BY <2>2 DEF Channel!NewEnd
  <2>7. EndOk(chan["init"], chan["resp"], "init", c)
    BY <2>1, <2>4, <2>5, <2>6 DEF EndOk
  <2>8. EndOk(chan["resp"], chan["init"], "resp", c)
    BY <2>1, <2>4, <2>5, <2>6 DEF EndOk
  <2>9. Agree(chan, c)
    <3>1. ASSUME NEW e \in Channel!Ends
          PROVE  chan[e].next \in Nat /\ EndOk(chan[e], chan[Channel!Other(e)], e, c)
      <4>1. CASE e = "init"
        BY <2>1, <2>6, <2>7, <4>1
      <4>2. CASE e = "resp"
        BY <2>1, <2>6, <2>8, <4>2
      <4> QED
        BY <2>1, <4>1, <4>2
    <3>2. c \in [Channel!Ends -> [Nat -> Nat]] /\ Channel!Ends \subseteq DOMAIN chan
      BY <2>1, <2>2
    <3> QED
      BY <3>1, <3>2 DEF Agree
  <2> QED
    BY <2>9 DEF ChanOk
<1>2. ChanInv /\ [Channel!Next]_chan => ChanInv'
  <2> SUFFICES ASSUME ChanOk(chan), [Channel!Next]_chan
               PROVE  ChanOk(chan')
    BY DEF ChanInv
  <2>1. CASE UNCHANGED chan
    BY <2>1
  <2>2. ASSUME NEW e \in Channel!Ends, Channel!Close(e)
        PROVE  ChanOk(chan')
    BY <2>2, ChanCloses, ClientAssumption DEF Channel!Close
  <2>3. Parts \in Nat /\ Parts \in Nat \ {0}
    BY ClientAssumption
  <2> QED
    BY <2>1, <2>2, <2>3, ChanReads, ChanRefuses, ChanFlushes, ChanWires, ChanSays, ChanPings, ChanTunnel DEF Channel!Next
<1>3. ChanInv => ChannelHonest
  <2> SUFFICES ASSUME NEW c, Agree(chan, c) PROVE Channel!ChannelHonest
    BY DEF ChanInv, ChanOk, ChannelHonest
  <2>1. ASSUME NEW e \in Channel!Ends
        PROVE  Channel!IsPrefix(chan[e].got, chan[Channel!Other(e)].said)
    <3> DEFINE o == Channel!Other(e)
               got == chan[e].got
               said == chan[o].said
               h == c[o]
    <3>1. o \in Channel!Ends /\ EndOk(chan[e], chan[o], e, c) /\ EndOk(chan[o], chan[e], o, c) /\ h \in [Nat -> Nat]
      BY ChanOther DEF Agree
    <3>2. /\ got \in Seq(Nat) /\ said \in Seq(Nat) /\ Numbered(got) /\ Numbered(said)
          /\ chan[e].expect \in Nat /\ chan[o].next \in Nat /\ chan[e].expect <= chan[o].next
          /\ Len(got) = h[chan[e].expect]
      BY <3>1 DEF EndOk, ChanEnd
    <3>3. Len(said) = h[chan[o].next]
      BY <3>1 DEF EndOk, Counted
    <3>4. h[chan[e].expect] <= h[chan[o].next]
      <4> DEFINE p == chan[e].expect
                 q == chan[o].next
                 l == Len(said)
      <4>1. Counted(h, q, l) /\ p \in Nat /\ q \in Nat /\ p <= q
        BY <3>1, <3>2 DEF EndOk
      <4> HIDE DEF h, p, q, l
      <4>2. h[p] <= h[q]
        BY <4>1 DEF Counted
      <4> QED
        BY <4>2 DEF p, q
    <3>5. Len(got) <= Len(said) /\ Len(got) \in Nat /\ Len(said) \in Nat
      BY <3>2, <3>3, <3>4
    <3> HIDE DEF got, said
    <3>6. \A i \in 1..Len(got) : got[i] = i /\ said[i] = i
      BY <3>2, <3>5 DEF Numbered
    <3>7. SubSeq(got, 1, Len(got)) = SubSeq(said, 1, Len(got))
      <4> DEFINE l == Len(got)
                 a == SubSeq(got, 1, l)
                 b == SubSeq(said, 1, l)
      <4>1. l \in Nat /\ 1 <= l + 1 /\ l <= Len(got) /\ l <= Len(said)
        BY <3>5
      <4>a. ASSUME NEW q \in Seq(Nat), NEW n \in Nat, n <= Len(q)
            PROVE  SubSeq(q, 1, n) \in Seq(Nat) /\ Len(SubSeq(q, 1, n)) = n /\ \A i \in 1..n : SubSeq(q, 1, n)[i] = q[i]
        BY <4>a
      <4>2. a \in Seq(Nat) /\ Len(a) = l /\ \A i \in 1..l : a[i] = got[i]
        <5> HIDE DEF l
        <5> QED
          BY <3>2, <4>1, <4>a
      <4>3. b \in Seq(Nat) /\ Len(b) = l /\ \A i \in 1..l : b[i] = said[i]
        <5> HIDE DEF l
        <5> QED
          BY <3>2, <4>1, <4>a
      <4>4. \A i \in 1..l : a[i] = b[i]
        BY <3>6, <4>2, <4>3
      <4> HIDE DEF a, b, l
      <4>5. a = b
        BY <4>2, <4>3, <4>4, SeqEqual
      <4> QED
        BY <4>5 DEF a, b, l
    <3> QED
      BY <3>5, <3>7 DEF Channel!IsPrefix, got, said
  <2>2. chan["init"].st = "open" => chan["resp"].st \in {"open", "closed"}
    <3>1. "init" \in Channel!Ends /\ "resp" \in Channel!Ends /\ Channel!Other("init") = "resp" /\ Channel!Other("resp") = "init"
      BY DEF Channel!Ends, Channel!Other
    <3> QED
      BY <3>1 DEF Agree, EndOk
  <2> QED
    BY <2>1, <2>2 DEF Channel!ChannelHonest
<1> QED
  BY <1>1, <1>2, <1>3, PTL DEF ChannelSpec

(***************************************************************************)
(* Kart race: the lap counter (KartLaps).                                  *)
(***************************************************************************)
Ring == 0..N-1
LapState == [idx: Ring, lap: Int, far: Int, race: Nat, trial: BOOLEAN,
             phase: {"idle", "countdown", "racing", "ended"}, finished: BOOLEAN, goal: Int, cpSeen: Int,
             lastCp: Ring, lapStart: Int, best: Int, time: Int, back: BOOLEAN]
WayTold(s) == ~s.back => (s.lap - 1) * N + s.idx = s.far
GoalEarned(s) == s.finished /\ ~s.back => s.goal >= Laps * N
LapOk(s) == s \in LapState /\ WayTold(s) /\ GoalEarned(s)
LapInv == LapOk(kart)

(* One step over the ring: the rest of the division and the line crossed. *)
LEMMA RingStep ==
    ASSUME NEW i \in Ring, NEW d \in (0 - MaxStep)..MaxStep
    PROVE  /\ (i + d) % N \in Ring /\ LapCount!LapCrossed(i, (i + d) % N) \in {-1, 0, 1}
           /\ LapCount!LapCrossed(i, (i + d) % N) * N + ((i + d) % N) = i + d
<1> DEFINE m == (i + d) % N
           x == LapCount!LapCrossed(i, m)
<1> SUFFICES m \in Ring /\ x \in {-1, 0, 1} /\ x * N + m = i + d
  OBVIOUS
<1>1. N \in Nat /\ N > 0 /\ d \in Int /\ i \in Int /\ 0 <= i /\ i < N /\ -N < 2 * d /\ 2 * d < N
  BY LapsAssumption DEF Ring
<1>2. CASE i + d < 0
  <2>1. (i + d) % N = i + d + N
    BY <1>1, <1>2
  <2>2. LapCount!LapCrossed(i, i + d + N) = -1
    BY <1>1, <1>2 DEF LapCount!LapCrossed
  <2>3. (-1) * N + (i + d + N) = i + d /\ i + d + N \in Ring
    BY <1>1, <1>2 DEF Ring
  <2>4. m = i + d + N /\ x = -1
    BY <2>1, <2>2
  <2> HIDE DEF m, x
  <2>5. x * N + m = i + d
    BY <2>3, <2>4
  <2> QED
    BY <2>3, <2>4, <2>5
<1>3. CASE i + d >= 0 /\ i + d < N
  <2>1. (i + d) % N = i + d
    BY <1>1, <1>3
  <2>2. LapCount!LapCrossed(i, i + d) = 0
    BY <1>1, <1>3 DEF LapCount!LapCrossed
  <2>3. 0 * N + (i + d) = i + d /\ i + d \in Ring
    BY <1>1, <1>3 DEF Ring
  <2>4. m = i + d /\ x = 0
    BY <2>1, <2>2
  <2> HIDE DEF m, x
  <2>5. x * N + m = i + d
    BY <2>3, <2>4
  <2> QED
    BY <2>3, <2>4, <2>5
<1>4. CASE i + d >= N
  <2>1. (i + d) % N = i + d - N
    BY <1>1, <1>4
  <2>2. LapCount!LapCrossed(i, i + d - N) = 1
    BY <1>1, <1>4 DEF LapCount!LapCrossed
  <2>3. 1 * N + (i + d - N) = i + d /\ i + d - N \in Ring
    BY <1>1, <1>4 DEF Ring
  <2>4. m = i + d - N /\ x = 1
    BY <2>1, <2>2
  <2> HIDE DEF m, x
  <2>5. x * N + m = i + d
    BY <2>3, <2>4
  <2> QED
    BY <2>3, <2>4, <2>5
<1> QED
  BY <1>1, <1>2, <1>3, <1>4

LEMMA LapSame ==
    ASSUME NEW s, LapOk(s), NEW r \in LapState, r.back = s.back, r.lap = s.lap, r.idx = s.idx, r.far = s.far,
           r.finished = s.finished, r.goal = s.goal
    PROVE  LapOk(r)
  BY DEF LapOk, WayTold, GoalEarned

(* A kart that stands at the start. *)
LEMMA LapStand ==
    ASSUME NEW s \in LapState
    PROVE  \E t \in LapState :
               /\ LapCount!createKartState(s) = t /\ WayTold(t) /\ t.lap = 0 /\ t.finished = s.finished
               /\ t.race = s.race /\ t.phase = s.phase /\ t.goal = s.goal
<1> DEFINE i == N - Grid
           f == 0 - Grid
           z == 0
           t == [s EXCEPT !.idx = i, !.lap = z, !.far = f]
<1>1. i \in Ring /\ f \in Int /\ N \in Int /\ Grid \in Int /\ (0 - 1) * N + i = f
  BY LapsAssumption DEF Ring
<1>2. LapCount!createKartState(s) = t
  BY DEF LapCount!createKartState
<1>d. z \in Int
  OBVIOUS
<1> HIDE DEF i, f, z
<1>a. t \in LapState
  BY <1>1, <1>d DEF LapState
<1>b. t.lap = z /\ t.idx = i /\ t.far = f
  BY DEF LapState
<1>c. t.finished = s.finished /\ t.race = s.race /\ t.phase = s.phase /\ t.goal = s.goal
  BY DEF LapState
<1>3. /\ t \in LapState /\ t.lap = 0 /\ t.idx = i /\ t.far = f /\ t.finished = s.finished
      /\ t.race = s.race /\ t.phase = s.phase /\ t.goal = s.goal
  BY <1>a, <1>b, <1>c DEF z
<1> HIDE DEF t
<1>4. WayTold(t)
  BY <1>1, <1>3 DEF WayTold
<1> QED
  BY <1>2, <1>3, <1>4

LEMMA LapStarts ==
    ASSUME LapOk(kart), NEW trial \in Trials, LapCount!startRace(trial)
    PROVE  LapOk(kart')
<1>1. kart \in LapState /\ trial \in BOOLEAN
  BY LapsAssumption DEF LapOk
<1> PICK t \in LapState : LapCount!createKartState(kart) = t /\ WayTold(t) /\ t.lap = 0 /\ t.race = kart.race
  BY <1>1, LapStand
<1> DEFINE i == N - Grid
           n == kart.race + 1
           z == 0
           r == [t EXCEPT !.race = n, !.trial = trial, !.phase = "countdown", !.finished = FALSE,
                          !.goal = z, !.cpSeen = z, !.lastCp = i, !.best = z, !.back = FALSE]
<1>2. n \in Nat /\ i \in Ring
  <2>1. n \in Nat
    BY <1>1 DEF LapState
  <2>2. i \in Ring
    BY LapsAssumption DEF Ring
  <2> QED
    BY <2>1, <2>2
<1>3. kart' = r
  BY DEF LapCount!startRace
<1>a. i = t.idx /\ t.far = 0 - Grid
  BY <1>1 DEF LapCount!createKartState, LapState
<1>b. (0 - 1) * N + i = 0 - Grid
  BY LapsAssumption
<1>d. z \in Int
  OBVIOUS
<1> HIDE DEF i, n, z
<1>c. r \in LapState
  BY <1>1, <1>2, <1>d DEF LapState
<1>4. r \in LapState /\ r.lap = 0 /\ r.idx = t.idx /\ r.far = t.far /\ ~r.finished
  <2>1. r.lap = 0 /\ r.idx = t.idx /\ r.far = t.far /\ ~r.finished
    BY DEF LapState
  <2> QED
    BY <1>c, <2>1
<1> HIDE DEF r
<1>5. (0 - 1) * N + t.idx = t.far
  BY <1>a, <1>b
<1>6. WayTold(r)
  BY <1>4, <1>5 DEF WayTold
<1> QED
  BY <1>3, <1>4, <1>6 DEF LapOk, GoalEarned

LEMMA LapPhases ==
    ASSUME LapOk(kart), LapCount!Go \/ LapCount!endRace
    PROVE  LapOk(kart')
<1>1. kart \in LapState
  BY DEF LapOk
<1>2. /\ kart' \in LapState /\ kart'.back = kart.back /\ kart'.lap = kart.lap /\ kart'.idx = kart.idx
      /\ kart'.far = kart.far /\ kart'.finished = kart.finished /\ kart'.goal = kart.goal
  BY <1>1 DEF LapCount!Go, LapCount!endRace, LapState
<1> QED
  BY <1>2, LapSame

LEMMA LapRestarts ==
    ASSUME LapOk(kart), LapCount!restartRun
    PROVE  LapOk(kart')
<1>1. kart \in LapState /\ ~kart.finished
  BY DEF LapOk, LapCount!restartRun
<1> PICK t \in LapState : LapCount!createKartState(kart) = t /\ WayTold(t) /\ t.lap = 0 /\ t.finished = kart.finished
  BY <1>1, LapStand
<1> DEFINE i == N - Grid
           u == [t EXCEPT !.lastCp = i, !.back = FALSE]
           r == [u EXCEPT !.lapStart = u.time, !.cpSeen = 0]
<1>2. i \in Ring /\ (0 - 1) * N + i = 0 - Grid
  BY LapsAssumption DEF Ring
<1>3. kart' = r
  BY DEF LapCount!restartRun, LapCount!FreshLap
<1>4. i = t.idx /\ t.far = 0 - Grid
  BY <1>1 DEF LapCount!createKartState, LapState
<1>5. (0 - 1) * N + t.idx = t.far
  BY <1>2, <1>4
<1> HIDE DEF i
<1>6. u \in LapState /\ u.lap = 0 /\ u.idx = t.idx /\ u.far = t.far /\ ~u.finished
  BY <1>1, <1>2 DEF LapState
<1> HIDE DEF u
<1>7. r \in LapState /\ r.lap = 0 /\ r.idx = t.idx /\ r.far = t.far /\ ~r.finished
  BY <1>6 DEF LapState
<1> HIDE DEF r
<1>8. WayTold(r)
  BY <1>5, <1>7 DEF WayTold
<1> QED
  BY <1>3, <1>7, <1>8 DEF LapOk, GoalEarned

LEMMA LapResets ==
    ASSUME LapOk(kart), LapCount!resetToTrack
    PROVE  LapOk(kart')
<1> DEFINE idx == IF kart.trial THEN kart.lastCp ELSE kart.idx
           way == (kart.idx - idx) % N
<1>1. kart \in LapState /\ N \in Nat /\ N > 0
  BY LapsAssumption DEF LapOk
<1>2. idx \in Ring /\ kart.idx \in Ring /\ kart.far \in Int /\ kart.lap \in Int
  BY <1>1 DEF LapState
<1>3. kart' = [kart EXCEPT !.idx = idx, !.far = @ - way, !.back = @ \/ idx > kart.idx] /\ ~kart.finished
  BY DEF LapCount!resetToTrack
<1> DEFINE w == kart.back \/ idx > kart.idx
<1> HIDE DEF idx
<1>4. way \in Int /\ (idx <= kart.idx => way = kart.idx - idx) /\ idx \in Int /\ kart.idx \in Int
  BY <1>1, <1>2 DEF Ring
<1> HIDE DEF way
<1>5. kart.far - way \in Int /\ w \in BOOLEAN
  BY <1>1, <1>2, <1>4 DEF LapState
<1>6. /\ kart' \in LapState /\ kart'.lap = kart.lap /\ kart'.idx = idx /\ kart'.far = kart.far - way
      /\ ~kart'.finished /\ kart'.back = w
  BY <1>1, <1>2, <1>3, <1>5 DEF LapState
<1>7. ~w => (kart.lap - 1) * N + kart.idx = kart.far /\ idx <= kart.idx
  BY <1>2, <1>4 DEF LapOk, WayTold
<1>8. ~w => (kart.lap - 1) * N + idx = kart.far - way
  <2> DEFINE m == (kart.lap - 1) * N
  <2>1. m \in Int
    BY <1>1, <1>2
  <2> HIDE DEF m
  <2>2. ~w => m + kart.idx = kart.far /\ idx <= kart.idx
    BY <1>7 DEF m
  <2>3. ~w => m + idx = kart.far - way
    BY <1>2, <1>4, <2>1, <2>2
  <2> QED
    BY <2>3 DEF m
<1> QED
  BY <1>6, <1>8 DEF LapOk, WayTold, GoalEarned

(* What the lap logic does to a kart that has crossed the line. *)
LEMMA LapCompleted ==
    ASSUME NEW s \in LapState
    PROVE  /\ LapCount!completeLap(s) \in LapState
           /\ \E b, l, c \in Int : LapCount!completeLap(s) = [s EXCEPT !.best = b, !.lapStart = l, !.cpSeen = c]
<1>1. s.time - s.lapStart \in Int /\ s.best \in Int /\ s.time \in Int /\ 0 \in Int /\ s.lapStart \in Int /\ s.cpSeen \in Int
  BY DEF LapState
<1>2. PICK b \in Int, l \in Int, c \in Int : LapCount!completeLap(s) = [s EXCEPT !.best = b, !.lapStart = l, !.cpSeen = c]
  <2>1. CASE s.time - s.lapStart < 1
    <3>1. s = [s EXCEPT !.best = s.best, !.lapStart = s.lapStart, !.cpSeen = s.cpSeen]
      BY DEF LapState
    <3> QED
      BY <1>1, <2>1, <3>1 DEF LapCount!completeLap
  <2>2. CASE ~(s.time - s.lapStart < 1)
    <3> DEFINE t == s.time - s.lapStart
               b == IF s.best = 0 \/ t < s.best THEN t ELSE s.best
    <3>1. b \in Int
      BY <1>1
    <3>2. LapCount!completeLap(s) = [s EXCEPT !.best = b, !.lapStart = s.time, !.cpSeen = 0]
      BY <2>2 DEF LapCount!completeLap, LapCount!FreshLap, LapState
    <3> QED
      BY <1>1, <3>1, <3>2
  <2> QED
    BY <2>1, <2>2
<1>3. [s EXCEPT !.best = b, !.lapStart = l, !.cpSeen = c] \in LapState
  BY DEF LapState
<1> QED
  BY <1>2, <1>3

LapLogic(r, s) ==
    /\ r \in LapState /\ r.back = s.back /\ r.lap = s.lap /\ r.idx = s.idx /\ r.far = s.far
    /\ \/ r.finished = s.finished /\ r.goal = s.goal
       \/ r.finished /\ r.goal = s.far /\ s.lap > Laps

LEMMA LapCrosses ==
    ASSUME NEW s \in LapState
    PROVE  LapLogic(LapCount!Crossed(s), s)
<1> DEFINE t == [s EXCEPT !.finished = TRUE, !.goal = s.far]
           z == 0
           u == [s EXCEPT !.lapStart = s.time, !.cpSeen = z]
<1>g. z \in Int
  OBVIOUS
<1>d. s.lap \in Int /\ s.far \in Int /\ s.time \in Int
  BY DEF LapState
<1>e. t \in LapState
  BY <1>d DEF LapState
<1>f. u \in LapState
  <2> HIDE DEF z
  <2> QED
    BY <1>d, <1>g DEF LapState
<1>1. t \in LapState /\ u \in LapState /\ s.lap \in Int /\ Laps \in Int /\ Laps >= 1
  BY <1>d, <1>e, <1>f, LapsAssumption
<1>a. t.finished /\ t.goal = s.far /\ t.back = s.back /\ t.lap = s.lap /\ t.idx = s.idx /\ t.far = s.far
  BY DEF LapState
<1>b. u.finished = s.finished /\ u.goal = s.goal /\ u.back = s.back /\ u.lap = s.lap /\ u.idx = s.idx /\ u.far = s.far
  BY DEF LapState
<1>c. ASSUME NEW p \in LapState
      PROVE  LapLogic(LapCount!completeLap(p), p)
  <2>1. LapCount!completeLap(p) \in LapState
    BY LapCompleted
  <2>2. PICK b \in Int, l \in Int, c \in Int : LapCount!completeLap(p) = [p EXCEPT !.best = b, !.lapStart = l, !.cpSeen = c]
    BY LapCompleted
  <2> DEFINE v == [p EXCEPT !.best = b, !.lapStart = l, !.cpSeen = c]
  <2>3. /\ v.back = p.back /\ v.lap = p.lap /\ v.idx = p.idx /\ v.far = p.far
        /\ v.finished = p.finished /\ v.goal = p.goal
    BY DEF LapState
  <2> HIDE DEF v
  <2> QED
    BY <2>1, <2>2, <2>3 DEF LapLogic, v
<1>2. CASE s.lap > Laps
  <2>1. LapCount!Crossed(s) = LapCount!completeLap(t)
    <3>1. s.lap > Laps /\ ~(s.lap <= Laps) /\ s.lap # 1
      BY <1>1, <1>2
    <3> HIDE DEF LapState
    <3> QED
      BY <1>1, <3>1 DEF LapCount!Crossed
  <2> HIDE DEF t
  <2>2. LapLogic(LapCount!completeLap(t), t)
    BY <1>1, <1>c
  <2> HIDE DEF LapState
  <2>3. LapLogic(LapCount!completeLap(t), s)
    BY <1>2, <1>a, <2>2 DEF LapLogic
  <2> QED
    BY <2>1, <2>3
<1>3. CASE ~(s.lap > Laps) /\ s.lap <= Laps /\ s.lap >= 2
  <2>1. LapCount!Crossed(s) = LapCount!completeLap(s)
    BY <1>1, <1>3 DEF LapCount!Crossed
  <2> QED
    BY <2>1, <1>c
<1>4. CASE ~(s.lap > Laps) /\ ~(s.lap <= Laps /\ s.lap >= 2)
  <2>1. LapCount!Crossed(s) \in {s, u}
    BY <1>1, <1>4 DEF LapCount!Crossed, LapCount!FreshLap
  <2> HIDE DEF u
  <2>2. LapLogic(u, s)
    BY <1>1, <1>b DEF LapLogic
  <2>3. LapLogic(s, s)
    BY DEF LapLogic
  <2> QED
    BY <2>1, <2>2, <2>3
<1> QED
  BY <1>2, <1>3, <1>4

LEMMA LapCheckpoints ==
    ASSUME NEW s \in LapState
    PROVE  LapLogic(LapCount!updateCheckpoints(s), s)
<1> DEFINE j == (s.idx * Checkpoints) \div N
           k == ((j * N) \div Checkpoints) % N
           t == [s EXCEPT !.cpSeen = j, !.lastCp = k]
<1>1. s.idx \in Int /\ N \in Nat /\ N > 0 /\ Checkpoints \in Nat /\ Checkpoints > 0
  BY LapsAssumption DEF LapState, Ring
<1>2. j \in Int
  <2> DEFINE a == s.idx * Checkpoints
  <2>1. a \in Int
    BY <1>1
  <2> HIDE DEF a
  <2>2. a \div N \in Int
    BY <1>1, <2>1
  <2> QED
    BY <2>2 DEF a
<1> HIDE DEF j
<1>3. k \in Ring
  <2> DEFINE a == j * N
             b == a \div Checkpoints
  <2>1. a \in Int
    BY <1>1, <1>2
  <2> HIDE DEF a
  <2>2. b \in Int
    BY <1>1, <2>1
  <2> HIDE DEF b
  <2>3. b % N \in Ring
    BY <1>1, <2>2 DEF Ring
  <2> QED
    BY <2>3 DEF a, b
<1>4. LapCount!updateCheckpoints(s) \in {s, t}
  BY DEF LapCount!updateCheckpoints, j
<1> HIDE DEF k
<1>a. /\ t \in LapState /\ t.back = s.back /\ t.lap = s.lap /\ t.idx = s.idx /\ t.far = s.far
      /\ t.finished = s.finished /\ t.goal = s.goal
  BY <1>2, <1>3 DEF LapState
<1> HIDE DEF t
<1>5. LapLogic(t, s)
  BY <1>a DEF LapLogic
<1>6. LapLogic(s, s)
  BY DEF LapLogic
<1> QED
  BY <1>4, <1>5, <1>6

LEMMA LapUpdates ==
    ASSUME LapOk(kart), NEW d \in (0 - MaxStep)..MaxStep, LapCount!update(d)
    PROVE  LapOk(kart')
<1> DEFINE to == (kart.idx + d) % N
           c == LapCount!LapCrossed(kart.idx, to)
           s == [kart EXCEPT !.idx = to, !.lap = @ + c, !.far = @ + d, !.time = @ + 1]
           t == IF c = 1 /\ ~s.finished THEN LapCount!Crossed(s) ELSE s
<1>1. kart \in LapState /\ kart.idx \in Ring /\ kart.lap \in Int /\ kart.far \in Int /\ kart.time \in Int
      /\ d \in Int /\ N \in Nat /\ Laps \in Nat
  BY LapsAssumption DEF LapOk, LapState
<1>2. to \in Ring /\ c \in {-1, 0, 1} /\ c * N + to = kart.idx + d
  <2> DEFINE i == kart.idx
  <2>1. i \in Ring
    BY <1>1
  <2>2. to = (i + d) % N /\ c = LapCount!LapCrossed(i, (i + d) % N)
    OBVIOUS
  <2> HIDE DEF i, to, c
  <2>3. /\ (i + d) % N \in Ring /\ LapCount!LapCrossed(i, (i + d) % N) \in {-1, 0, 1}
        /\ LapCount!LapCrossed(i, (i + d) % N) * N + ((i + d) % N) = i + d
    BY <2>1, RingStep
  <2> QED
    BY <2>2, <2>3 DEF i
<1>3. kart' = LapCount!updateCheckpoints(t)
  BY DEF LapCount!update
<1> HIDE DEF to, c
<1>a. to \in Int /\ kart.idx \in Int
  BY <1>1, <1>2 DEF Ring
<1>4. kart.lap + c \in Int /\ kart.far + d \in Int /\ kart.time + 1 \in Int /\ c \in Int
  BY <1>1, <1>2
<1>5. /\ s \in LapState /\ s.idx = to /\ s.lap = kart.lap + c /\ s.far = kart.far + d
      /\ s.finished = kart.finished /\ s.goal = kart.goal /\ s.back = kart.back
  BY <1>1, <1>2, <1>4 DEF LapState
<1> HIDE DEF s
<1>6. WayTold(s)
  <2> SUFFICES ASSUME ~kart.back PROVE (s.lap - 1) * N + s.idx = s.far
    BY <1>5 DEF WayTold
  <2>1. (kart.lap - 1) * N + kart.idx = kart.far
    BY DEF LapOk, WayTold
  <2>2. (kart.lap + c - 1) * N = (kart.lap - 1) * N + c * N
    BY <1>1, <1>4
  <2> DEFINE m == (kart.lap - 1) * N
             n == c * N
  <2>3. m \in Int /\ n \in Int
    BY <1>1, <1>4
  <2> HIDE DEF m, n
  <2>4. m + kart.idx = kart.far /\ n + to = kart.idx + d
    BY <1>2, <2>1 DEF m, n
  <2>5. (m + n) + to = kart.far + d
    BY <1>1, <1>a, <2>3, <2>4
  <2>6. (kart.lap + c - 1) * N = m + n
    BY <2>2 DEF m, n
  <2>7. s.lap - 1 = kart.lap + c - 1
    BY <1>1, <1>4, <1>5
  <2> QED
    BY <1>5, <2>5, <2>6, <2>7
<1>7. LapLogic(t, s)
  <2>1. LapLogic(s, s)
    BY <1>5 DEF LapLogic
  <2> QED
    BY <1>5, <2>1, LapCrosses
<1> HIDE DEF t
<1>8. LapLogic(kart', t)
  BY <1>3, <1>7, LapCheckpoints DEF LapLogic
<1>9. WayTold(t) /\ WayTold(kart')
  BY <1>6, <1>7, <1>8 DEF WayTold, LapLogic
<1>10. ASSUME NEW r \in LapState, WayTold(r), ~r.back, r.lap > Laps
       PROVE  r.far >= Laps * N
  <2>1. r.lap \in Int /\ r.idx \in Nat /\ r.far \in Int
    BY DEF LapState, Ring
  <2>2. (r.lap - 1) * N + r.idx = r.far
    BY <1>10 DEF WayTold
  <2>3. \E z \in Nat : r.lap - 1 = Laps + z
    <3>1. r.lap - 1 - Laps \in Nat /\ r.lap - 1 = Laps + (r.lap - 1 - Laps)
      BY <1>1, <1>10, <2>1
    <3> QED
      BY <3>1
  <2>4. PICK z \in Nat : r.lap - 1 = Laps + z
    BY <2>3
  <2>5. (Laps + z) * N = Laps * N + z * N /\ z * N \in Nat /\ Laps * N \in Nat
    BY <1>1
  <2> DEFINE m == z * N
             l == Laps * N
  <2>6. l + m + r.idx = r.far /\ m \in Nat /\ l \in Nat
    BY <2>2, <2>4, <2>5
  <2> HIDE DEF m, l
  <2>7. r.far >= l
    BY <2>1, <2>6
  <2> QED
    BY <2>7 DEF l
<1>11. GoalEarned(s)
  BY <1>5 DEF LapOk, GoalEarned
<1>12. ASSUME NEW p, NEW r, p \in LapState, WayTold(p), GoalEarned(p), LapLogic(r, p)
       PROVE  GoalEarned(r)
  BY <1>10, <1>12 DEF GoalEarned, LapLogic
<1>13. GoalEarned(t)
  BY <1>5, <1>6, <1>7, <1>11, <1>12
<1>14. GoalEarned(kart')
  BY <1>7, <1>8, <1>9, <1>12, <1>13 DEF LapLogic
<1> QED
  BY <1>8, <1>9, <1>14 DEF LapOk, LapLogic

(* The lap counter tells the way driven and a finish has the laps of the   *)
(* race behind it (KartGame.js, stepKart and the lap logic of update), for *)
(* a ring of any length, any number of laps and checkpoints and any speed  *)
(* below half a lap a step.                                                *)
THEOREM LapsAreEarned ==
    LapCountSpec => []LapCount!LapsEarned
<1>1. LapCount!Init => LapInv
  <2> SUFFICES ASSUME LapCount!Init PROVE LapOk(kart)
    BY DEF LapInv
  <2> DEFINE s == [idx |-> 0, lap |-> 0, far |-> 0, race |-> 0, trial |-> FALSE, phase |-> "idle",
                   finished |-> FALSE, goal |-> 0, cpSeen |-> 0, lastCp |-> 0, lapStart |-> 0,
                   best |-> 0, time |-> 0, back |-> FALSE]
  <2>1. 0 \in Ring
    BY LapsAssumption DEF Ring
  <2>2. s \in LapState /\ ~s.finished
    BY <2>1 DEF LapState
  <2>3. kart = LapCount!createKartState(s)
    BY DEF LapCount!Init
  <2> HIDE DEF s
  <2>4. kart \in LapState /\ WayTold(kart) /\ ~kart.finished
    BY <2>2, <2>3, LapStand
  <2> QED
    BY <2>4 DEF LapOk, GoalEarned
<1>2. LapInv /\ [LapCount!Next]_kart => LapInv'
  <2> SUFFICES ASSUME LapOk(kart), [LapCount!Next]_kart
               PROVE  LapOk(kart')
    BY DEF LapInv
  <2>1. CASE UNCHANGED kart
    BY <2>1
  <2> QED
    BY <2>1, LapStarts, LapPhases, LapRestarts, LapResets, LapUpdates DEF LapCount!Next
<1>3. LapInv => LapCount!LapsEarned
  BY DEF LapInv, LapOk, WayTold, GoalEarned, LapCount!LapsEarned
<1> QED
  BY <1>1, <1>2, <1>3, PTL DEF LapCountSpec

-----------------------------------------------------------------------------
(***************************************************************************)
(* Kart race: the board of finishers (KartBoard).                          *)
(***************************************************************************)
BoardPhases == {"lobby", "racing", "finished"}
BoardCars == [Board!Drivers -> [race: Nat, fin: BOOLEAN]]
BoardTolds == [race: Nat, phase: BoardPhases]
BoardDowns == [t: {"state"}, st: BoardTolds] \cup [t: {"cars"}, cars: BoardCars]
BoardUps == [race: Nat, car: [race: Nat, fin: BOOLEAN]]
BoardWindows == [race: Nat, ended: BOOLEAN, fin: BOOLEAN, net: BoardCars, shown: SUBSET Board!Drivers]
Finishes == Board!Drivers \X Nat
BoardState == [n: Nat, race: Nat, phase: BoardPhases, cars: BoardCars, done: SUBSET Finishes, stale: SUBSET Board!Drivers,
               st: [Board!Drivers -> BoardTolds], cc: [Guests -> BoardCars], win: [Board!Drivers -> BoardWindows],
               up: [Guests -> Seq(BoardUps)], down: [Guests -> Seq(BoardDowns)]]

(* A car with the flag has finished its race; and it is one of race r.     *)
Honest(c, done) == \A q \in Board!Drivers : c[q].fin => <<q, c[q].race>> \in done
Of(c, r) == \A q \in Board!Drivers : c[q].fin => c[q].race = r
WindowTrue(w, p, done, fresh) ==
    /\ w.fin /\ w.race # 0 => <<p, w.race>> \in done
    /\ fresh /\ w.race # 0 => \A q \in w.shown : <<q, w.race>> \in done
Shows(w, st) == w.race = IF st.phase = "lobby" THEN 0 ELSE st.race
UpTrue(q, g, done) ==
    \A i \in 1..Len(q) : q[i].car.fin => <<g, q[i].car.race>> \in done /\ q[i].car.race = q[i].race
(* The wire to a guest takes it from race `from` to race `to`; the cars on *)
(* it are those of the race it has been told of before them.               *)
Tells(q, told, done) ==
    \A i \in 1..Len(q) :
        /\ q[i].t = "state" => told[i] = q[i].st.race
        /\ q[i].t = "cars" => told[i] = told[i - 1] /\ Of(q[i].cars, told[i]) /\ Honest(q[i].cars, done)
DownTrue(q, from, to, done) ==
    \E told \in [Nat -> Nat] : told[0] = from /\ told[Len(q)] = to /\ Tells(q, told, done)

HostTrue(s) == /\ Honest(s.cars, s.done) /\ Of(s.cars, s.race)
               /\ s.st[Host] = [race |-> s.race, phase |-> s.phase]
WindowsTrue(s) == \A p \in Board!Drivers : WindowTrue(s.win[p], p, s.done, p \notin s.stale) /\ Shows(s.win[p], s.st[p])
KeptTrue(s) == \A g \in Guests : /\ Honest(s.cc[g], s.done)
                                 /\ g \notin s.stale /\ s.win[g].race # 0 => Of(s.cc[g], s.win[g].race)
BoardWires(s) == \A g \in Guests : UpTrue(s.up[g], g, s.done) /\ DownTrue(s.down[g], s.st[g].race, s.race, s.done)
BoardOk(s) == s \in BoardState /\ HostTrue(s) /\ WindowsTrue(s) /\ KeptTrue(s) /\ BoardWires(s)
BoardInv == BoardOk(board)

-----------------------------------------------------------------------------
(* The wire to a guest. *)
LEMMA DownSays ==
    ASSUME NEW q \in Seq(BoardDowns), NEW from \in Nat, NEW to \in Nat, NEW done, DownTrue(q, from, to, done),
           NEW m \in BoardDowns, NEW r \in Nat,
           m.t = "state" => r = m.st.race,
           m.t = "cars" => r = to /\ Of(m.cars, r) /\ Honest(m.cars, done)
    PROVE  DownTrue(Append(q, m), from, r, done) /\ Append(q, m) \in Seq(BoardDowns)
<1> DEFINE l == Len(q)
           k == l + 1
           p == Append(q, m)
<1>1. PICK told \in [Nat -> Nat] : told[0] = from /\ told[Len(q)] = to /\ Tells(q, told, done)
  BY DEF DownTrue
<1>a. l \in Nat
  BY LenProperties
<1>3. p \in Seq(BoardDowns) /\ Len(p) = k /\ p[k] = m /\ \A i \in 1..l : p[i] = q[i]
  BY AppendProperties
<1> HIDE DEF l
<1>2. l \in Nat /\ k \in Nat /\ k # 0 /\ k - 1 = l /\ k # l
  BY <1>a
<1> DEFINE then == [told EXCEPT ![k] = r]
<1>4. then \in [Nat -> Nat] /\ then[k] = r /\ \A i \in Nat : i # k => then[i] = told[i]
  BY <1>2
<1> HIDE DEF p, then, k
<1>5. then[0] = from /\ then[l] = to
  BY <1>1, <1>2, <1>4 DEF l
<1>6. Tells(p, then, done)
  <2> SUFFICES ASSUME NEW i \in 1..Len(p)
               PROVE  /\ p[i].t = "state" => then[i] = p[i].st.race
                      /\ p[i].t = "cars" => then[i] = then[i - 1] /\ Of(p[i].cars, then[i]) /\ Honest(p[i].cars, done)
    BY DEF Tells
  <2>1. CASE i = k
    <3>1. p[i] = m /\ then[i] = r /\ then[i - 1] = to
      BY <1>2, <1>3, <1>4, <1>5, <2>1
    <3> QED
      BY <3>1
  <2>2. CASE i # k
    <3>1. i \in 1..l /\ i \in Nat /\ i - 1 \in Nat /\ i - 1 # k
      <4>1. i \in 1..k /\ k = l + 1
        BY <1>3 DEF k
      <4> QED
        BY <1>a, <2>2, <4>1
    <3>2. p[i] = q[i] /\ then[i] = told[i] /\ then[i - 1] = told[i - 1]
      BY <1>3, <1>4, <2>2, <3>1
    <3> QED
      BY <1>1, <3>1, <3>2 DEF Tells, l
  <2> QED
    BY <2>1, <2>2
<1> QED
  BY <1>3, <1>4, <1>5, <1>6 DEF DownTrue, p

LEMMA DownRead ==
    ASSUME NEW q \in Seq(BoardDowns), q # <<>>, NEW from \in Nat, NEW to, NEW done, DownTrue(q, from, to, done)
    PROVE  /\ Head(q) \in BoardDowns /\ Tail(q) \in Seq(BoardDowns)
           /\ \E r \in Nat :
                /\ Head(q).t = "state" => r = Head(q).st.race
                /\ Head(q).t = "cars" => r = from /\ Of(Head(q).cars, r) /\ Honest(Head(q).cars, done)
                /\ DownTrue(Tail(q), r, to, done)
<1> DEFINE p == Tail(q)
<1>1. PICK told \in [Nat -> Nat] : told[0] = from /\ told[Len(q)] = to /\ Tells(q, told, done)
  BY DEF DownTrue
<1>2. /\ Head(q) \in BoardDowns /\ p \in Seq(BoardDowns) /\ Head(q) = q[1] /\ Len(q) \in Nat /\ Len(q) > 0
      /\ Len(p) = Len(q) - 1 /\ \A i \in 1..Len(p) : p[i] = q[i + 1]
  BY HeadTailProperties, EmptySeq, LenProperties
<1> HIDE DEF p
<1> DEFINE then == [i \in Nat |-> told[i + 1]]
<1>3. then \in [Nat -> Nat] /\ then[0] = told[1] /\ \A i \in Nat : then[i] = told[i + 1]
  OBVIOUS
<1> HIDE DEF then
<1>4. Len(p) \in Nat /\ then[Len(p)] = to
  <2>1. Len(p) \in Nat /\ Len(p) + 1 = Len(q)
    BY <1>2
  <2> QED
    BY <1>1, <1>3, <2>1
<1>5. Tells(p, then, done)
  <2> SUFFICES ASSUME NEW i \in 1..Len(p)
               PROVE  /\ p[i].t = "state" => then[i] = p[i].st.race
                      /\ p[i].t = "cars" => then[i] = then[i - 1] /\ Of(p[i].cars, then[i]) /\ Honest(p[i].cars, done)
    BY DEF Tells
  <2>1. i + 1 \in 1..Len(q) /\ i \in Nat /\ i - 1 \in Nat /\ i - 1 + 1 = i /\ i + 1 - 1 = i
    BY <1>2
  <2>2. p[i] = q[i + 1] /\ then[i] = told[i + 1] /\ then[i - 1] = told[i]
    BY <1>2, <1>3, <2>1
  <2> DEFINE j == i + 1
  <2>3. j \in 1..Len(q) /\ j - 1 = i
    BY <2>1
  <2> HIDE DEF j
  <2>4. /\ q[j].t = "state" => told[j] = q[j].st.race
        /\ q[j].t = "cars" => told[j] = told[i] /\ Of(q[j].cars, told[j]) /\ Honest(q[j].cars, done)
    BY <1>1, <2>3 DEF Tells
  <2> QED
    BY <2>2, <2>4 DEF j
<1>6. 1 \in 1..Len(q) /\ 1 - 1 = 0
  BY <1>2
<1>7. /\ q[1].t = "state" => told[1] = q[1].st.race
      /\ q[1].t = "cars" => told[1] = told[0] /\ Of(q[1].cars, told[1]) /\ Honest(q[1].cars, done)
  BY <1>1, <1>6 DEF Tells
<1>8. DownTrue(p, told[1], to, done) /\ told[1] \in Nat
  BY <1>3, <1>4, <1>5 DEF DownTrue
<1> QED
  BY <1>1, <1>2, <1>7, <1>8 DEF p

(* What is said of cars stays true when another driver finishes. *)
LEMMA BoardGrows ==
    ASSUME NEW done, NEW more, done \subseteq more
    PROVE  /\ \A c : Honest(c, done) => Honest(c, more)
           /\ \A w, p, f : WindowTrue(w, p, done, f) => WindowTrue(w, p, more, f)
           /\ \A q, g : UpTrue(q, g, done) => UpTrue(q, g, more)
           /\ \A q, from, to : DownTrue(q, from, to, done) => DownTrue(q, from, to, more)
<1>1. ASSUME NEW c, Honest(c, done) PROVE Honest(c, more)
  BY <1>1 DEF Honest
<1>2. ASSUME NEW q, NEW from, NEW to, DownTrue(q, from, to, done) PROVE DownTrue(q, from, to, more)
  <2>1. PICK told \in [Nat -> Nat] : told[0] = from /\ told[Len(q)] = to /\ Tells(q, told, done)
    BY <1>2 DEF DownTrue
  <2>2. Tells(q, told, more)
    BY <1>1, <2>1 DEF Tells
  <2> QED
    BY <2>1, <2>2 DEF DownTrue
<1>3. ASSUME NEW w, NEW p, NEW f, WindowTrue(w, p, done, f) PROVE WindowTrue(w, p, more, f)
  BY <1>3 DEF WindowTrue
<1>4. ASSUME NEW q, NEW g, UpTrue(q, g, done) PROVE UpTrue(q, g, more)
  BY <1>4 DEF UpTrue
<1> QED
  BY <1>1, <1>2, <1>3, <1>4

-----------------------------------------------------------------------------
(* What pushToWindow makes of a window that shows no one wrongly, given    *)
(* cars that are honest, and those of its race if it goes on with it.      *)
Pushed(s, r, p, cars) ==
    \E w \in BoardWindows, S \in SUBSET Board!Drivers :
        /\ r = [s EXCEPT !.win[p] = w, !.stale = S] /\ S \ {p} = s.stale \ {p}
        /\ WindowTrue(w, p, s.done, p \notin S) /\ Shows(w, s.st[p])
        /\ p \notin S /\ w.race # 0 => Of(cars, w.race)

LEMMA BoardPushes ==
    ASSUME NEW s \in BoardState, NEW p \in Board!Drivers, NEW cars \in BoardCars, Honest(cars, s.done),
           WindowTrue(s.win[p], p, s.done, p \notin s.stale),
           (p \notin s.stale /\ s.win[p].race # 0 /\ s.st[p].race = s.win[p].race) => Of(cars, s.win[p].race)
    PROVE  Pushed(s, Board!pushToWindow(s, p, cars), p, cars)
<1> DEFINE st == s.st[p]
           old == s.win[p]
           w1 == Board!applyNet(old, p, cars)
<1>1. old \in BoardWindows /\ st \in BoardTolds /\ s.stale \subseteq Board!Drivers
  BY DEF BoardState
<1> DEFINE more == {q \in Board!Drivers \ {p} : cars[q].fin}
<1>2. w1 = [old EXCEPT !.net = cars, !.shown = old.shown \cup more]
  <2> DEFINE v == [old EXCEPT !.net = cars]
  <2>1. v.net = cars /\ v.shown = old.shown
    BY <1>1 DEF BoardWindows
  <2>2. w1 = [v EXCEPT !.shown = old.shown \cup more]
    BY <2>1 DEF Board!applyNet, Board!updateRemote
  <2> HIDE DEF more, w1, old
  <2> QED
    BY <1>1, <2>2 DEF BoardWindows
<1>3. more \subseteq Board!Drivers /\ \A q \in more : q \in Board!Drivers /\ cars[q].fin
  OBVIOUS
<1> HIDE DEF more, w1, old
<1>4. /\ w1 \in BoardWindows /\ w1.race = old.race /\ w1.fin = old.fin /\ w1.net = cars
      /\ w1.shown = old.shown \cup more /\ w1.ended = old.ended
  BY <1>1, <1>2, <1>3 DEF BoardWindows
<1> DEFINE lobby == st.phase = "lobby"
           new == ~lobby /\ st.race # old.race
           over == st.phase = "finished"
<1>5. ASSUME NEW v \in BoardWindows, NEW S \in SUBSET Board!Drivers, NEW e \in BOOLEAN, S \ {p} = s.stale \ {p},
             Board!pushToWindow(s, p, cars) = [s EXCEPT !.win[p] = [v EXCEPT !.ended = e], !.stale = S],
             WindowTrue(v, p, s.done, p \notin S), Shows(v, st), p \notin S /\ v.race # 0 => Of(cars, v.race)
      PROVE  Pushed(s, Board!pushToWindow(s, p, cars), p, cars)
  <2> DEFINE w == [v EXCEPT !.ended = e]
  <2>1. w \in BoardWindows /\ w.race = v.race /\ w.fin = v.fin /\ w.shown = v.shown
    BY DEF BoardWindows
  <2> HIDE DEF w
  <2>2. WindowTrue(w, p, s.done, p \notin S) /\ Shows(w, st)
    BY <1>5, <2>1 DEF WindowTrue, Shows
  <2>3. Board!pushToWindow(s, p, cars) = [s EXCEPT !.win[p] = w, !.stale = S]
    BY <1>5 DEF w
  <2> QED
    BY <1>5, <2>1, <2>2, <2>3 DEF Pushed
<1>6. CASE lobby
  <2> DEFINE z == 0
             v == [old EXCEPT !.race = z, !.shown = {}]
  <2>1. Board!pushToWindow(s, p, cars) = [s EXCEPT !.win[p] = [v EXCEPT !.ended = @ \/ over], !.stale = s.stale]
    BY <1>6 DEF Board!pushToWindow, old
  <2>2. v \in BoardWindows /\ v.race = z /\ v.shown = {} /\ z = 0
    BY <1>1 DEF BoardWindows
  <2> HIDE DEF v
  <2>3. WindowTrue(v, p, s.done, p \notin s.stale) /\ Shows(v, st)
    BY <1>6, <2>2 DEF WindowTrue, Shows
  <2>4. v.ended \in BOOLEAN
    BY <2>2 DEF BoardWindows
  <2> QED
    BY <1>1, <1>5, <2>1, <2>2, <2>3, <2>4
<1>7. CASE new
  <2> DEFINE r == st.race
             e == FALSE
             u == [w1 EXCEPT !.race = r, !.ended = e, !.fin = e, !.shown = {}]
             v == [u EXCEPT !.net = cars, !.shown = more]
             S == IF \E q \in Board!Drivers : cars[q].fin /\ cars[q].race # r THEN s.stale \cup {p} ELSE s.stale \ {p}
  <2>1. r \in Nat /\ e \in BOOLEAN
    BY <1>1 DEF BoardTolds
  <2>2. Board!pushToWindow(s, p, cars)
          = [s EXCEPT !.win[p] = [Board!Mount(w1, p, r) EXCEPT !.ended = @ \/ over], !.stale = S]
    BY <1>4, <1>7 DEF Board!pushToWindow, old, w1
  <2> HIDE DEF r, e
  <2>3. u \in BoardWindows /\ u.race = r /\ u.fin = e /\ u.shown = {} /\ u.net = cars
    BY <1>4, <2>1 DEF BoardWindows
  <2> HIDE DEF u
  <2>4. Board!Mount(w1, p, r) = Board!applyNet(u, p, cars)
    BY <1>4 DEF Board!Mount, u, e
  <2>5. Board!applyNet(u, p, cars) = v
    <3> DEFINE x == [u EXCEPT !.net = cars]
    <3>1. x.net = cars /\ x.shown = {}
      BY <2>3 DEF BoardWindows
    <3>2. Board!applyNet(u, p, cars) = [x EXCEPT !.shown = more]
      BY <3>1 DEF Board!applyNet, Board!updateRemote, more
    <3> QED
      BY <2>3, <3>2 DEF BoardWindows
  <2>6. v \in BoardWindows /\ v.race = r /\ v.fin = e /\ v.shown = more
    BY <1>3, <2>3 DEF BoardWindows
  <2> HIDE DEF v
  <2>7. S \in SUBSET Board!Drivers /\ S \ {p} = s.stale \ {p} /\ (p \notin S => Of(cars, r))
    BY <1>1 DEF Of
  <2> HIDE DEF S
  <2>8. WindowTrue(v, p, s.done, p \notin S)
    BY <1>3, <2>6, <2>7 DEF WindowTrue, Of, Honest, e
  <2>9. Shows(v, st)
    BY <1>7, <2>6 DEF Shows, r
  <2>10. v.ended \in BOOLEAN
    BY <2>6 DEF BoardWindows
  <2> QED
    BY <1>5, <2>2, <2>4, <2>5, <2>6, <2>7, <2>8, <2>9, <2>10
<1>8. CASE ~lobby /\ ~new
  <2>1. Board!pushToWindow(s, p, cars) = [s EXCEPT !.win[p] = [w1 EXCEPT !.ended = @ \/ over], !.stale = s.stale]
    BY <1>4, <1>8 DEF Board!pushToWindow, old, w1
  <2>2. p \notin s.stale /\ w1.race # 0 => Of(cars, w1.race)
    BY <1>4, <1>8 DEF old
  <2>3. WindowTrue(w1, p, s.done, p \notin s.stale)
    BY <1>3, <1>4, <2>2 DEF WindowTrue, Of, Honest, old
  <2>4. Shows(w1, st) /\ w1.ended \in BOOLEAN
    BY <1>4, <1>8 DEF Shows, BoardWindows
  <2> QED
    BY <1>1, <1>4, <1>5, <2>1, <2>2, <2>3, <2>4
<1> QED
  BY <1>6, <1>7, <1>8

(* The window of p, and with it what p keeps, is pushed to: the rest stays.*)
LEMMA BoardWindow ==
    ASSUME NEW s \in BoardState, NEW p \in Board!Drivers, NEW cars \in BoardCars, NEW r, Pushed(s, r, p, cars),
           HostTrue(s), BoardWires(s), Honest(cars, s.done),
           \A g \in Guests : Honest(s.cc[g], s.done),
           \A g \in Guests \ {p} : g \notin s.stale /\ s.win[g].race # 0 => Of(s.cc[g], s.win[g].race),
           p \in Guests => s.cc[p] = cars,
           \A x \in Board!Drivers \ {p} : WindowTrue(s.win[x], x, s.done, x \notin s.stale) /\ Shows(s.win[x], s.st[x])
    PROVE  BoardOk(r)
<1>1. PICK w \in BoardWindows, S \in SUBSET Board!Drivers :
        /\ r = [s EXCEPT !.win[p] = w, !.stale = S] /\ S \ {p} = s.stale \ {p}
        /\ WindowTrue(w, p, s.done, p \notin S) /\ Shows(w, s.st[p])
        /\ p \notin S /\ w.race # 0 => Of(cars, w.race)
  BY DEF Pushed
<1>2. s.win \in [Board!Drivers -> BoardWindows] /\ [s.win EXCEPT ![p] = w] \in [Board!Drivers -> BoardWindows]
  BY DEF BoardState
<1>3. /\ r \in BoardState /\ r.win = [s.win EXCEPT ![p] = w] /\ r.stale = S /\ r.done = s.done /\ r.st = s.st
      /\ r.cars = s.cars /\ r.race = s.race /\ r.phase = s.phase /\ r.cc = s.cc /\ r.up = s.up /\ r.down = s.down
  BY <1>1, <1>2 DEF BoardState
<1>4. r.win[p] = w /\ \A x \in Board!Drivers \ {p} : r.win[x] = s.win[x] /\ (x \in S <=> x \in s.stale)
  BY <1>1, <1>2, <1>3
<1>5. HostTrue(r) /\ BoardWires(r)
  BY <1>3 DEF HostTrue, BoardWires
<1>6. WindowsTrue(r)
  BY <1>1, <1>3, <1>4 DEF WindowsTrue
<1>7. KeptTrue(r)
  BY <1>1, <1>3, <1>4 DEF KeptTrue, Board!Drivers
<1> QED
  BY <1>3, <1>5, <1>6, <1>7 DEF BoardOk

(* A message of the host to its guests. *)
LEMMA BoardSends ==
    ASSUME NEW s \in BoardState, NEW m \in BoardDowns, NEW old \in Nat, NEW now \in Nat,
           \A g \in Guests : DownTrue(s.down[g], s.st[g].race, old, s.done),
           m.t = "state" => now = m.st.race,
           m.t = "cars" => now = old /\ Of(m.cars, now) /\ Honest(m.cars, s.done)
    PROVE  LET r == Board!Send(s, m)
           IN  /\ r = [s EXCEPT !.down = r.down] /\ r.down \in [Guests -> Seq(BoardDowns)]
               /\ \A g \in Guests : DownTrue(r.down[g], s.st[g].race, now, s.done)
<1> DEFINE d == [g \in Guests |-> Append(s.down[g], m)]
<1>1. Board!Send(s, m) = [s EXCEPT !.down = d]
  BY DEF Board!Send, BoardState
<1>2. [s EXCEPT !.down = d].down = d
  BY DEF BoardState
<1>3. ASSUME NEW g \in Guests
      PROVE  d[g] \in Seq(BoardDowns) /\ DownTrue(d[g], s.st[g].race, now, s.done)
  <2>1. s.down[g] \in Seq(BoardDowns) /\ s.st[g].race \in Nat /\ DownTrue(s.down[g], s.st[g].race, old, s.done)
    BY DEF BoardState, BoardTolds, Board!Drivers
  <2>2. d[g] = Append(s.down[g], m)
    OBVIOUS
  <2> HIDE DEF d
  <2> QED
    BY <2>1, <2>2, DownSays
<1>4. d \in [Guests -> Seq(BoardDowns)]
  BY <1>3
<1> QED
  BY <1>1, <1>2, <1>3, <1>4

LEMMA BoardStates ==
    ASSUME NEW s \in BoardState, NEW old \in Nat,
           \A g \in Guests : UpTrue(s.up[g], g, s.done) /\ DownTrue(s.down[g], s.st[g].race, old, s.done),
           WindowsTrue(s), KeptTrue(s), Honest(s.cars, s.done), Of(s.cars, s.race)
    PROVE  BoardOk(Board!pushState(s))
<1> DEFINE st == [race |-> s.race, phase |-> s.phase]
           m == [t |-> "state", st |-> st]
           u == Board!Send(s, m)
           v == [u EXCEPT !.st[Host] = st]
<1>1. Host \in Board!Drivers /\ st \in BoardTolds /\ st.race = s.race /\ m \in BoardDowns /\ s.race \in Nat /\ s.cars \in BoardCars
      /\ m.t = "state" /\ m.st.race = s.race
  BY DEF Board!Drivers, BoardState, BoardTolds, BoardDowns
<1>2. Board!pushState(s) = Board!pushToWindow(v, Host, s.cars)
  BY DEF Board!pushState
<1> HIDE DEF m
<1>3. /\ u = [s EXCEPT !.down = u.down] /\ u.down \in [Guests -> Seq(BoardDowns)]
      /\ \A g \in Guests : DownTrue(u.down[g], s.st[g].race, s.race, s.done)
  BY <1>1, BoardSends
<1> HIDE DEF st, u
<1> DEFINE d == u.down
           t == [s.st EXCEPT ![Host] = st]
<1>4. d \in [Guests -> Seq(BoardDowns)] /\ t \in [Board!Drivers -> BoardTolds]
  BY <1>1, <1>3 DEF BoardState
<1>5. v = [s EXCEPT !.down = d, !.st = t]
  BY <1>1, <1>3 DEF BoardState
<1> HIDE DEF d, t, v
<1>6. /\ v \in BoardState /\ v.down = d /\ v.st = t /\ v.done = s.done /\ v.cars = s.cars /\ v.race = s.race
      /\ v.phase = s.phase /\ v.win = s.win /\ v.stale = s.stale /\ v.up = s.up /\ v.cc = s.cc
  BY <1>4, <1>5 DEF BoardState
<1>7. t[Host] = st /\ \A x \in Board!Drivers \ {Host} : t[x] = s.st[x]
  BY <1>1 DEF t, BoardState
<1>8. \A g \in Guests : g \in Board!Drivers \ {Host}
  BY BoardAssumption DEF Board!Drivers
<1>9. BoardWires(v)
  BY <1>3, <1>6, <1>7, <1>8 DEF BoardWires, d
<1>10. HostTrue(v)
  BY <1>6, <1>7 DEF HostTrue, st
<1>11. Pushed(v, Board!pushToWindow(v, Host, s.cars), Host, s.cars)
  <2>1. WindowTrue(v.win[Host], Host, v.done, Host \notin v.stale) /\ Honest(s.cars, v.done)
    BY <1>1, <1>6 DEF WindowsTrue
  <2>2. v.st[Host].race = v.win[Host].race => Of(s.cars, v.win[Host].race)
    BY <1>1, <1>6, <1>7
  <2> QED
    BY <1>1, <1>6, <2>1, <2>2, BoardPushes
<1>12. /\ \A g \in Guests : Honest(v.cc[g], v.done)
       /\ \A g \in Guests \ {Host} : g \notin v.stale /\ v.win[g].race # 0 => Of(v.cc[g], v.win[g].race)
       /\ \A x \in Board!Drivers \ {Host} : WindowTrue(v.win[x], x, v.done, x \notin v.stale) /\ Shows(v.win[x], v.st[x])
  BY <1>6, <1>7 DEF KeptTrue, WindowsTrue
<1>13. Host \notin Guests
  BY BoardAssumption
<1>14. BoardOk(Board!pushToWindow(v, Host, s.cars))
  BY <1>1, <1>6, <1>9, <1>10, <1>11, <1>12, <1>13, BoardWindow
<1> QED
  BY <1>2, <1>14

LEMMA BoardRaces ==
    ASSUME BoardOk(board), Board!startRace \/ Board!finishRace \/ Board!backToLobby
    PROVE  BoardOk(board')
<1>1. board \in BoardState /\ board.n + 1 \in Nat /\ 0 \in Nat /\ board.n \in Nat /\ board.race \in Nat
  BY DEF BoardOk, BoardState
<1>2. Board!NoCars \in BoardCars /\ \A q \in Board!Drivers : ~Board!NoCars[q].fin
  BY DEF Board!NoCars, Board!NoCar, BoardCars
<1>3. \A r, done : Of(Board!NoCars, r) /\ Honest(Board!NoCars, done)
  BY <1>2 DEF Of, Honest
<1>4. ASSUME NEW n \in Nat, NEW now \in Nat, NEW phase \in BoardPhases, NEW cars \in BoardCars,
             Honest(cars, board.done), Of(cars, now),
             board' = Board!pushState([board EXCEPT !.n = n, !.race = now, !.phase = phase, !.cars = cars])
      PROVE  BoardOk(board')
  <2> DEFINE s == [board EXCEPT !.n = n, !.race = now, !.phase = phase, !.cars = cars]
  <2>1. /\ s \in BoardState /\ s.race = now /\ s.cars = cars /\ s.done = board.done /\ s.up = board.up
        /\ s.down = board.down /\ s.st = board.st /\ s.win = board.win /\ s.stale = board.stale /\ s.cc = board.cc
    BY <1>1 DEF BoardState
  <2> HIDE DEF s
  <2>2. \A g \in Guests : UpTrue(s.up[g], g, s.done) /\ DownTrue(s.down[g], s.st[g].race, board.race, s.done)
    BY <2>1 DEF BoardOk, BoardWires
  <2>3. WindowsTrue(s) /\ KeptTrue(s) /\ Honest(s.cars, s.done) /\ Of(s.cars, s.race)
    BY <1>4, <2>1 DEF BoardOk, WindowsTrue, KeptTrue
  <2>4. BoardOk(Board!pushState(s))
    BY <1>1, <2>1, <2>2, <2>3, BoardStates
  <2> QED
    BY <1>4, <2>4 DEF s
<1>5. CASE Board!startRace
  <2> DEFINE k == board.n + 1
             ph == "racing"
  <2>1. board' = Board!pushState([board EXCEPT !.n = k, !.race = k, !.phase = ph, !.cars = Board!NoCars])
    BY <1>1, <1>5 DEF Board!startRace, BoardState
  <2>2. ph \in BoardPhases
    BY DEF BoardPhases
  <2> HIDE DEF k, ph
  <2> QED
    BY <1>1, <1>2, <1>3, <1>4, <2>1, <2>2 DEF k
<1>6. CASE Board!finishRace
  <2> DEFINE ph == "finished"
             s == [board EXCEPT !.phase = ph]
  <2>1. board' = Board!pushState(s)
    BY <1>6 DEF Board!finishRace
  <2>2. ph \in BoardPhases
    BY DEF BoardPhases
  <2> HIDE DEF ph
  <2>3. s = [board EXCEPT !.n = board.n, !.race = board.race, !.phase = ph, !.cars = board.cars]
    BY <1>1 DEF BoardState
  <2>4. board.cars \in BoardCars /\ Honest(board.cars, board.done) /\ Of(board.cars, board.race)
    BY <1>1 DEF BoardOk, HostTrue, BoardState
  <2> QED
    BY <1>1, <1>4, <2>1, <2>2, <2>3, <2>4
<1>7. CASE Board!backToLobby
  <2> DEFINE ph == "lobby"
             z == 0
             s == [board EXCEPT !.phase = ph, !.race = z, !.cars = Board!NoCars]
  <2>1. board' = Board!pushState(s)
    BY <1>7 DEF Board!backToLobby
  <2>2. ph \in BoardPhases /\ z \in Nat
    BY DEF BoardPhases
  <2> HIDE DEF ph, z
  <2>3. s = [board EXCEPT !.n = board.n, !.race = z, !.phase = ph, !.cars = Board!NoCars]
    BY <1>1 DEF BoardState
  <2> QED
    BY <1>1, <1>2, <1>3, <1>4, <2>1, <2>2, <2>3
<1> QED
  BY <1>5, <1>6, <1>7

LEMMA BoardRelays ==
    ASSUME BoardOk(board), Board!Relay
    PROVE  BoardOk(board')
<1> DEFINE m == [t |-> "cars", cars |-> board.cars]
           u == Board!Send(board, m)
<1>1. /\ board \in BoardState /\ m \in BoardDowns /\ m.t = "cars" /\ m.cars = board.cars /\ Host \in Board!Drivers
      /\ board.cars \in BoardCars /\ board.race \in Nat /\ Honest(board.cars, board.done) /\ Of(board.cars, board.race)
  BY DEF BoardOk, BoardState, HostTrue, BoardDowns, Board!Drivers
<1>2. board' = Board!pushToWindow(u, Host, board.cars)
  BY DEF Board!Relay
<1> HIDE DEF m
<1>3. /\ u = [board EXCEPT !.down = u.down] /\ u.down \in [Guests -> Seq(BoardDowns)]
      /\ \A g \in Guests : DownTrue(u.down[g], board.st[g].race, board.race, board.done)
  <2>1. \A g \in Guests : DownTrue(board.down[g], board.st[g].race, board.race, board.done)
    BY DEF BoardOk, BoardWires
  <2> QED
    BY <1>1, <2>1, BoardSends
<1> HIDE DEF u
<1> DEFINE d == u.down
<1>4. d \in [Guests -> Seq(BoardDowns)] /\ u = [board EXCEPT !.down = d]
  BY <1>3
<1> HIDE DEF d
<1>6. /\ u \in BoardState /\ u.down = d /\ u.st = board.st /\ u.done = board.done /\ u.cars = board.cars /\ u.race = board.race
      /\ u.phase = board.phase /\ u.win = board.win /\ u.stale = board.stale /\ u.up = board.up /\ u.cc = board.cc
  BY <1>1, <1>4 DEF BoardState
<1>7. BoardWires(u) /\ HostTrue(u) /\ WindowsTrue(u) /\ KeptTrue(u)
  BY <1>3, <1>6 DEF BoardOk, BoardWires, HostTrue, WindowsTrue, KeptTrue, d
<1>8. u.st[Host].race = u.race
  BY <1>7 DEF HostTrue
<1>9. Pushed(u, board', Host, board.cars)
  BY <1>1, <1>2, <1>6, <1>7, <1>8, BoardPushes DEF WindowsTrue
<1>10. Host \notin Guests
  BY BoardAssumption
<1> QED
  BY <1>1, <1>6, <1>7, <1>9, <1>10, BoardWindow DEF WindowsTrue, KeptTrue

-----------------------------------------------------------------------------
LEMMA BoardFinishes ==
    ASSUME BoardOk(board), NEW p \in Board!Drivers, Board!Finish(p)
    PROVE  BoardOk(board')
<1> DEFINE old == board.win[p]
           more == board.done \cup {<<p, old.race>>}
           w == [old EXCEPT !.fin = TRUE]
           win == [board.win EXCEPT ![p] = w]
<1>1. board \in BoardState /\ old \in BoardWindows /\ board.win \in [Board!Drivers -> BoardWindows]
  BY DEF BoardOk, BoardState
<1>2. w \in BoardWindows /\ w.race = old.race /\ w.shown = old.shown /\ more \in SUBSET Finishes
      /\ board.done \subseteq more /\ <<p, old.race>> \in more
  <2> HIDE DEF old
  <2>1. w \in BoardWindows /\ w.race = old.race /\ w.shown = old.shown /\ old.race \in Nat
    BY <1>1 DEF BoardWindows
  <2> HIDE DEF w
  <2>2. board.done \in SUBSET Finishes /\ <<p, old.race>> \in Finishes
    BY <1>1, <2>1 DEF BoardState, Finishes
  <2> QED
    BY <2>1, <2>2
<1>3. board' = [board EXCEPT !.win = win, !.done = more]
  BY <1>1 DEF Board!Finish, BoardState
<1> HIDE DEF w, more
<1>4. win \in [Board!Drivers -> BoardWindows] /\ win[p] = w /\ \A x \in Board!Drivers \ {p} : win[x] = board.win[x]
  BY <1>1, <1>2
<1>b. win[p].race = board.win[p].race
  BY <1>2, <1>4
<1>c. \A x \in Board!Drivers : win[x].race = board.win[x].race
  BY <1>4, <1>b
<1> HIDE DEF win
<1>5. /\ board' \in BoardState /\ board'.win = win /\ board'.done = more /\ board'.st = board.st
      /\ board'.cars = board.cars /\ board'.race = board.race /\ board'.phase = board.phase
      /\ board'.stale = board.stale /\ board'.up = board.up /\ board'.down = board.down /\ board'.cc = board.cc
  BY <1>1, <1>2, <1>3, <1>4 DEF BoardState
<1>6. /\ \A c : Honest(c, board.done) => Honest(c, more)
      /\ \A v, x, f : WindowTrue(v, x, board.done, f) => WindowTrue(v, x, more, f)
      /\ \A q, g : UpTrue(q, g, board.done) => UpTrue(q, g, more)
      /\ \A q, from, to : DownTrue(q, from, to, board.done) => DownTrue(q, from, to, more)
  BY <1>2, BoardGrows
<1>7. HostTrue(board') /\ BoardWires(board')
  BY <1>5, <1>6 DEF BoardOk, HostTrue, BoardWires
<1>8. KeptTrue(board')
  BY <1>5, <1>6, <1>c DEF BoardOk, KeptTrue, Board!Drivers
<1>9. WindowsTrue(board')
  <2>1. ASSUME NEW x \in Board!Drivers
        PROVE  WindowTrue(board.win[x], x, more, x \notin board.stale) /\ Shows(board.win[x], board.st[x])
    BY <1>6 DEF BoardOk, WindowsTrue
  <2>2. WindowTrue(w, p, more, p \notin board.stale) /\ Shows(w, board.st[p])
    BY <1>2, <2>1 DEF WindowTrue, Shows, old
  <2> QED
    BY <1>4, <1>5, <2>1, <2>2 DEF WindowsTrue
<1> QED
  BY <1>5, <1>7, <1>8, <1>9 DEF BoardOk

(* The cars of the race arrive at the host. *)
LEMMA BoardStores ==
    ASSUME BoardOk(board), NEW p \in Board!Drivers, NEW s \in BoardState, NEW m \in BoardUps,
           s.win = board.win, s.done = board.done, s.st = board.st, s.cars = board.cars, s.race = board.race,
           s.phase = board.phase, s.stale = board.stale, s.down = board.down, s.cc = board.cc,
           \A g \in Guests : UpTrue(s.up[g], g, s.done),
           m.car.fin => <<p, m.car.race>> \in s.done /\ m.car.race = m.race
    PROVE  BoardOk(Board!storeCar(s, p, m))
<1>1. BoardOk(s)
  BY DEF BoardOk, HostTrue, WindowsTrue, KeptTrue, BoardWires
<1>2. CASE s.phase # "racing" \/ m.race # s.race
  BY <1>1, <1>2 DEF Board!storeCar
<1>3. CASE ~(s.phase # "racing" \/ m.race # s.race)
  <2> DEFINE c == m.car
             cars == [s.cars EXCEPT ![p] = c]
             r == [s EXCEPT !.cars = cars]
  <2>1. Board!storeCar(s, p, m) = r
    BY <1>3 DEF Board!storeCar, BoardState
  <2>2. s.cars \in BoardCars /\ c \in [race: Nat, fin: BOOLEAN] /\ m.race = s.race
    BY <1>3 DEF BoardUps, BoardState
  <2>3. cars \in BoardCars /\ cars[p] = c /\ \A x \in Board!Drivers \ {p} : cars[x] = s.cars[x]
    BY <2>2 DEF BoardCars
  <2> HIDE DEF c, cars
  <2>4. Honest(cars, s.done) /\ Of(cars, s.race)
    BY <1>1, <2>2, <2>3 DEF c, BoardOk, HostTrue, Honest, Of
  <2>5. /\ r \in BoardState /\ r.win = s.win /\ r.done = s.done /\ r.st = s.st /\ r.cars = cars /\ r.race = s.race
        /\ r.phase = s.phase /\ r.stale = s.stale /\ r.up = s.up /\ r.down = s.down /\ r.cc = s.cc
    BY <2>3 DEF BoardState
  <2> HIDE DEF r
  <2>6. BoardOk(r)
    BY <1>1, <2>4, <2>5 DEF BoardOk, HostTrue, WindowsTrue, KeptTrue, BoardWires
  <2> QED
    BY <2>1, <2>6
<1> QED
  BY <1>2, <1>3

LEMMA BoardReports ==
    ASSUME BoardOk(board), NEW p \in Board!Drivers, Board!sendNet(p)
    PROVE  BoardOk(board')
<1> DEFINE w == board.win[p]
           car == [race |-> w.race, fin |-> w.fin]
           m == [race |-> board.st[p].race, car |-> car]
<1>1. board \in BoardState /\ w \in BoardWindows /\ board.st[p] \in BoardTolds /\ Host \in Board!Drivers
  BY DEF BoardOk, BoardState, Board!Drivers
<1>2. m \in BoardUps /\ m.car.race = w.race /\ m.car.fin = w.fin /\ m.race = board.st[p].race
  BY <1>1 DEF BoardUps, BoardWindows, BoardTolds
<1>3. w.race = board.st[p].race /\ (w.fin => <<p, w.race>> \in board.done)
  BY DEF BoardOk, WindowsTrue, WindowTrue, Shows, Board!sendNet
<1>4. \A g \in Guests : UpTrue(board.up[g], g, board.done)
  BY DEF BoardOk, BoardWires
<1>5. CASE p = Host
  <2>1. board' = Board!storeCar(board, p, m)
    BY <1>5 DEF Board!sendNet
  <2> HIDE DEF m
  <2> QED
    BY <1>1, <1>2, <1>3, <1>4, <2>1, BoardStores
<1>6. CASE p # Host
  <2> DEFINE q == board.up[p]
             u == Append(q, m)
             up == [board.up EXCEPT ![p] = u]
  <2>1. board' = [board EXCEPT !.up = up] /\ p \in Guests
    BY <1>1, <1>6 DEF Board!sendNet, Board!Drivers, BoardState
  <2> HIDE DEF m
  <2>2. q \in Seq(BoardUps) /\ board.up \in [Guests -> Seq(BoardUps)]
    BY <1>1, <2>1 DEF BoardState
  <2> HIDE DEF q
  <2>3. u \in Seq(BoardUps) /\ Len(u) = Len(q) + 1 /\ u[Len(q) + 1] = m /\ Len(q) \in Nat /\ \A i \in 1..Len(q) : u[i] = q[i]
    BY <1>2, <2>2, AppendProperties, LenProperties
  <2> HIDE DEF u
  <2>4. UpTrue(q, p, board.done)
    BY <1>4, <2>1 DEF q
  <2>5. UpTrue(u, p, board.done)
    <3> SUFFICES ASSUME NEW i \in 1..Len(u), u[i].car.fin
                 PROVE  <<p, u[i].car.race>> \in board.done /\ u[i].car.race = u[i].race
      BY DEF UpTrue
    <3>1. i \in 1..Len(q) \/ i = Len(q) + 1
      BY <2>3
    <3>2. CASE i \in 1..Len(q)
      BY <2>3, <2>4, <3>2 DEF UpTrue
    <3>3. CASE i = Len(q) + 1
      BY <1>2, <1>3, <2>3, <3>3
    <3> QED
      BY <3>1, <3>2, <3>3
  <2>6. up \in [Guests -> Seq(BoardUps)] /\ up[p] = u /\ \A g \in Guests \ {p} : up[g] = board.up[g]
    BY <2>1, <2>2, <2>3
  <2> HIDE DEF up
  <2>7. /\ board' \in BoardState /\ board'.win = board.win /\ board'.done = board.done /\ board'.st = board.st
        /\ board'.cars = board.cars /\ board'.race = board.race /\ board'.phase = board.phase
        /\ board'.stale = board.stale /\ board'.up = up /\ board'.down = board.down /\ board'.cc = board.cc
    BY <1>1, <2>1, <2>6 DEF BoardState
  <2> QED
    BY <1>4, <2>5, <2>6, <2>7 DEF BoardOk, HostTrue, WindowsTrue, KeptTrue, BoardWires
<1> QED
  BY <1>5, <1>6

LEMMA BoardHears ==
    ASSUME BoardOk(board), NEW g \in Guests, Board!onWire(g)
    PROVE  BoardOk(board')
<1> DEFINE q == board.up[g]
           u == Tail(q)
           m == Head(q)
           up == [board.up EXCEPT ![g] = u]
           s == [board EXCEPT !.up = up]
<1>1. board \in BoardState /\ board.up \in [Guests -> Seq(BoardUps)] /\ q \in Seq(BoardUps) /\ q # <<>> /\ g \in Board!Drivers
  BY DEF BoardOk, BoardState, Board!onWire, Board!Drivers
<1>2. board' = Board!storeCar(s, g, m)
  BY <1>1 DEF Board!onWire, BoardState
<1>3. UpTrue(q, g, board.done) /\ \A x \in Guests : UpTrue(board.up[x], x, board.done)
  BY DEF BoardOk, BoardWires
<1> HIDE DEF q
<1>4. m \in BoardUps /\ u \in Seq(BoardUps) /\ m = q[1] /\ Len(q) \in Nat /\ Len(q) > 0
      /\ Len(u) = Len(q) - 1 /\ \A i \in 1..Len(u) : u[i] = q[i + 1]
  BY <1>1, HeadTailProperties, EmptySeq, LenProperties
<1> HIDE DEF m, u
<1>5. 1 \in 1..Len(q) /\ \A i \in 1..Len(u) : i + 1 \in 1..Len(q)
  BY <1>4
<1>6. UpTrue(u, g, board.done)
  BY <1>3, <1>4, <1>5 DEF UpTrue
<1>7. m.car.fin => <<g, m.car.race>> \in board.done /\ m.car.race = m.race
  BY <1>3, <1>4, <1>5 DEF UpTrue
<1>8. up \in [Guests -> Seq(BoardUps)] /\ up[g] = u /\ \A x \in Guests \ {g} : up[x] = board.up[x]
  BY <1>1, <1>4
<1> HIDE DEF up
<1>9. /\ s \in BoardState /\ s.win = board.win /\ s.done = board.done /\ s.st = board.st
      /\ s.cars = board.cars /\ s.race = board.race /\ s.phase = board.phase
      /\ s.stale = board.stale /\ s.up = up /\ s.down = board.down /\ s.cc = board.cc
  BY <1>1, <1>8 DEF BoardState
<1> HIDE DEF s
<1>10. \A x \in Guests : UpTrue(s.up[x], x, s.done)
  BY <1>3, <1>6, <1>8, <1>9
<1> QED
  BY <1>1, <1>2, <1>4, <1>7, <1>9, <1>10, BoardStores

LEMMA BoardTold ==
    ASSUME BoardOk(board), NEW g \in Guests, Board!handleWire(g)
    PROVE  BoardOk(board')
<1> DEFINE q == board.down[g]
           m == Head(q)
           u == Tail(q)
           s == [board EXCEPT !.down[g] = u]
           t == IF m.t = "cars" THEN [s EXCEPT !.cc[g] = m.cars] ELSE [s EXCEPT !.st[g] = m.st]
           down == [board.down EXCEPT ![g] = u]
           cc == IF m.t = "cars" THEN [board.cc EXCEPT ![g] = m.cars] ELSE board.cc
           st == IF m.t = "cars" THEN board.st ELSE [board.st EXCEPT ![g] = m.st]
           c == t.cc[g]
<1>1. /\ board \in BoardState /\ board.down \in [Guests -> Seq(BoardDowns)] /\ q \in Seq(BoardDowns) /\ q # <<>>
      /\ g \in Board!Drivers /\ Host # g /\ Host \in Board!Drivers
      /\ board.cc \in [Guests -> BoardCars] /\ board.st \in [Board!Drivers -> BoardTolds] /\ board.st[g].race \in Nat
  BY BoardAssumption DEF BoardOk, BoardState, BoardTolds, Board!handleWire, Board!Drivers
<1>2. board' = Board!pushToWindow(t, g, c)
  BY DEF Board!handleWire
<1>3. DownTrue(q, board.st[g].race, board.race, board.done)
  BY DEF BoardOk, BoardWires
<1> HIDE DEF q
<1>4. m \in BoardDowns /\ u \in Seq(BoardDowns)
  BY <1>1, <1>3, DownRead
<1>5. PICK r \in Nat : /\ m.t = "state" => r = m.st.race
                       /\ m.t = "cars" => r = board.st[g].race /\ Of(m.cars, r) /\ Honest(m.cars, board.done)
                       /\ DownTrue(u, r, board.race, board.done)
  BY <1>1, <1>3, DownRead
<1> HIDE DEF m, u
<1>6. (m.t = "cars" /\ m.cars \in BoardCars) \/ (m.t = "state" /\ m.st \in BoardTolds)
  BY <1>4 DEF BoardDowns
<1>7. t = [board EXCEPT !.down = down, !.cc = cc, !.st = st]
  <2>1. s = [board EXCEPT !.down = down]
    BY <1>1 DEF BoardState
  <2> HIDE DEF down
  <2>2. s.cc = board.cc /\ s.st = board.st
    BY <1>1, <2>1 DEF BoardState
  <2>3. CASE m.t = "cars"
    BY <1>1, <2>1, <2>2, <2>3 DEF BoardState
  <2>4. CASE m.t # "cars"
    BY <1>1, <2>1, <2>2, <2>4 DEF BoardState
  <2> QED
    BY <2>3, <2>4
<1>8. /\ down \in [Guests -> Seq(BoardDowns)] /\ down[g] = u /\ \A x \in Guests \ {g} : down[x] = board.down[x]
  BY <1>1, <1>4
<1>9. /\ cc \in [Guests -> BoardCars] /\ cc[g] = (IF m.t = "cars" THEN m.cars ELSE board.cc[g])
      /\ \A x \in Guests \ {g} : cc[x] = board.cc[x]
  BY <1>1, <1>6
<1>10. /\ st \in [Board!Drivers -> BoardTolds] /\ st[g] = (IF m.t = "cars" THEN board.st[g] ELSE m.st)
       /\ \A x \in Board!Drivers \ {g} : st[x] = board.st[x]
  BY <1>1, <1>6
<1>a. st[g].race = r
  BY <1>5, <1>6, <1>10
<1> HIDE DEF down, cc, st
<1>11. /\ t \in BoardState /\ t.down = down /\ t.cc = cc /\ t.st = st /\ t.done = board.done /\ t.cars = board.cars
       /\ t.race = board.race /\ t.phase = board.phase /\ t.win = board.win /\ t.stale = board.stale /\ t.up = board.up
  BY <1>1, <1>7, <1>8, <1>9, <1>10 DEF BoardState
<1> HIDE DEF t
<1>12. HostTrue(t)
  BY <1>1, <1>10, <1>11 DEF BoardOk, HostTrue
<1>13. BoardWires(t)
  BY <1>5, <1>8, <1>10, <1>11, <1>a DEF BoardOk, BoardWires, Board!Drivers
<1>14. c \in BoardCars /\ c = cc[g] /\ \A x \in Guests : Honest(t.cc[x], t.done)
  BY <1>5, <1>6, <1>9, <1>11 DEF BoardOk, KeptTrue
<1>15. (g \notin t.stale /\ t.win[g].race # 0 /\ t.st[g].race = t.win[g].race) => Of(c, t.win[g].race)
  <2>1. CASE m.t = "cars"
    BY <1>5, <1>9, <1>11, <1>14, <1>a, <2>1
  <2>2. CASE m.t # "cars"
    BY <1>9, <1>11, <1>14, <2>2 DEF BoardOk, KeptTrue
  <2> QED
    BY <2>1, <2>2
<1>16. WindowTrue(t.win[g], g, t.done, g \notin t.stale)
  BY <1>1, <1>11 DEF BoardOk, WindowsTrue
<1> HIDE DEF c
<1>17. Pushed(t, board', g, c)
  <2>1. Honest(c, t.done)
    BY <1>11, <1>14
  <2> QED
    BY <1>1, <1>2, <1>11, <1>14, <1>15, <1>16, <2>1, BoardPushes
<1>18. /\ \A x \in Guests \ {g} : x \notin t.stale /\ t.win[x].race # 0 => Of(t.cc[x], t.win[x].race)
       /\ \A x \in Board!Drivers \ {g} : WindowTrue(t.win[x], x, t.done, x \notin t.stale) /\ Shows(t.win[x], t.st[x])
  BY <1>9, <1>10, <1>11 DEF BoardOk, KeptTrue, WindowsTrue
<1>19. t.cc[g] = c /\ Honest(c, t.done)
  BY <1>11, <1>14
<1> QED
  BY <1>1, <1>11, <1>12, <1>13, <1>14, <1>17, <1>18, <1>19, BoardWindow

(* A rival that the board of a window shows with the flag has finished the *)
(* race that is being driven (ui.js, KartGamePage.jsx and the engine that  *)
(* relays), for any number of drivers and races.                           *)
THEOREM BoardIsTrue ==
    BoardSpec => []Board!BoardTrue
<1>1. Board!Init => BoardInv
  <2> SUFFICES ASSUME Board!Init PROVE BoardOk(board)
    BY DEF BoardInv
  <2> DEFINE z == 0
             ph == "lobby"
             none == [race |-> z, phase |-> ph]
             w == [race |-> z, ended |-> FALSE, fin |-> FALSE, net |-> Board!NoCars, shown |-> {}]
  <2>1. z \in Nat /\ ph \in BoardPhases
    BY DEF BoardPhases
  <2>2. Board!NoCars \in BoardCars /\ \A x \in Board!Drivers : ~Board!NoCars[x].fin
    BY DEF Board!NoCars, Board!NoCar, BoardCars
  <2>3. /\ board.n = z /\ board.race = z /\ board.phase = ph /\ board.cars = Board!NoCars /\ board.done = {} /\ board.stale = {}
        /\ board.st = [p \in Board!Drivers |-> none] /\ board.cc = [g \in Guests |-> Board!NoCars]
        /\ board.win = [p \in Board!Drivers |-> w] /\ board.up = [g \in Guests |-> <<>>] /\ board.down = [g \in Guests |-> <<>>]
    BY DEF Board!Init
  <2>a. board = [n |-> board.n, race |-> board.race, phase |-> board.phase, cars |-> board.cars, done |-> board.done,
                 stale |-> board.stale, st |-> board.st, cc |-> board.cc, win |-> board.win,
                 up |-> board.up, down |-> board.down]
    BY DEF Board!Init
  <2> HIDE DEF z, ph
  <2>4. none \in BoardTolds /\ w \in BoardWindows /\ w.race = z /\ none.race = z /\ none.phase = ph
    BY <2>1, <2>2 DEF BoardTolds, BoardWindows
  <2>b. ~w.fin /\ w.shown = {}
    OBVIOUS
  <2> HIDE DEF none, w
  <2>5. board.win \in [Board!Drivers -> BoardWindows] /\ board.st \in [Board!Drivers -> BoardTolds] /\ board.cc \in [Guests -> BoardCars]
    BY <2>2, <2>3, <2>4
  <2>6. board.up \in [Guests -> Seq(BoardUps)] /\ board.down \in [Guests -> Seq(BoardDowns)]
    BY <2>3
  <2>7. board \in BoardState
    BY <2>1, <2>2, <2>3, <2>5, <2>6, <2>a DEF BoardState
  <2>8. HostTrue(board)
    BY <2>2, <2>3 DEF HostTrue, Honest, Of, Board!Drivers, none
  <2>9. WindowsTrue(board)
    <3>1. WindowTrue(w, w, {}, TRUE) /\ \A p, d, f : WindowTrue(w, p, d, f)
      BY <2>b DEF WindowTrue
    <3>2. Shows(w, none)
      BY <2>4 DEF Shows, z, ph
    <3> QED
      BY <2>3, <3>1, <3>2 DEF WindowsTrue
  <2>10. KeptTrue(board)
    BY <2>2, <2>3 DEF KeptTrue, Honest, Of
  <2>11. BoardWires(board)
    <3> DEFINE told == [i \in Nat |-> z]
    <3>1. told \in [Nat -> Nat] /\ told[0] = z /\ Len(<<>>) = 0
      BY <2>1
    <3> HIDE DEF told
    <3>a. \A i \in 1..Len(<<>>) : FALSE
      BY <3>1
    <3>b. Tells(<<>>, told, {}) /\ \A g \in Guests : UpTrue(<<>>, g, {})
      BY <3>a DEF Tells, UpTrue
    <3>2. DownTrue(<<>>, z, z, {}) /\ \A g \in Guests : UpTrue(<<>>, g, {})
      BY <3>1, <3>b DEF DownTrue
    <3> QED
      BY <2>3, <2>4, <3>2 DEF BoardWires, Board!Drivers
  <2> QED
    BY <2>7, <2>8, <2>9, <2>10, <2>11 DEF BoardOk
<1>2. BoardInv /\ [Board!Next]_board => BoardInv'
  <2> SUFFICES ASSUME BoardOk(board), [Board!Next]_board
               PROVE  BoardOk(board')
    BY DEF BoardInv
  <2>1. CASE UNCHANGED board
    BY <2>1
  <2> QED
    BY <2>1, BoardRaces, BoardRelays, BoardFinishes, BoardReports, BoardHears, BoardTold DEF Board!Next
<1>3. BoardInv => Board!BoardTrue
  BY DEF BoardInv, BoardOk, WindowsTrue, WindowTrue, Board!BoardTrue
<1> QED
  BY <1>1, <1>2, <1>3, PTL DEF BoardSpec

-----------------------------------------------------------------------------
(***************************************************************************)
(* Kart race: items (KartItems).                                           *)
(*                                                                         *)
(* An item that a kart of window w has hit goes through stages, one a      *)
(* round: the hit is reported, the host knows it, every window has been    *)
(* told, the owner drops the item, the host no longer has it, no window    *)
(* shows it.  Until the last stage w ignores the item.                     *)
(***************************************************************************)
Reports == [t: {"hit", "car"}, hid: Race!Karts \X Nat, h: SUBSET Race!Items]
Relays == [cars: [Race!Karts -> SUBSET Race!Items], x: SUBSET Race!Items]
ItemState == [slot: [Race!Karts -> {"empty", "rolling", "item"}], seq: [Race!Windows -> Nat],
              items: [Race!Windows -> SUBSET Race!Items], seen: [Race!Windows -> SUBSET Race!Items],
              cons: [Race!Windows -> [Race!Items -> 0..Linger]], hostCons: [Race!Items -> 0..Linger],
              cars: [Race!Karts -> SUBSET Race!Items], up: [Guests -> Seq(Reports)], down: [Guests -> Seq(Relays)],
              sent: SUBSET Race!Windows, relayed: BOOLEAN, hits: [Race!Karts -> [Race!Items -> Nat]]]

Msgs(q) == {q[j] : j \in 1..Len(q)}
Ups(r, w) == IF w = Host THEN {} ELSE Msgs(r.up[w])
Downs(r, w) == IF w = Host THEN {} ELSE Msgs(r.down[w])
Owner(i) == Race!Win(i[1])
Used(r, i) == i[2] <= r.seq[Owner(i)]

Reported(r, w, i) == r.cons[w][i] >= Linger /\ \E m \in Ups(r, w) : m.t = "hit" /\ m.hid = i
Noted(r, w, i) == r.cons[w][i] >= Linger /\ r.hostCons[i] >= Linger
IsTold(r, w, i) == r.cons[w][i] >= Linger \/ \E m \in Downs(r, w) : i \in m.x
Spread(r, w, i) ==
    /\ r.cons[w][i] >= Linger - 1 /\ r.hostCons[i] >= Linger - 1
    /\ r.relayed => IsTold(r, w, i) /\ IsTold(r, Owner(i), i)
NotSent(r, i) == \A m \in Ups(r, Owner(i)) : m.t = "car" => i \notin m.h
Dropped(r, w, i) ==
    /\ r.cons[w][i] >= Linger - 1 /\ r.cons[Owner(i)][i] >= Linger - 1 /\ NotSent(r, i)
    /\ Owner(i) \in r.sent => /\ i \notin r.items[Owner(i)]
                              /\ i \notin r.cars[i[1]] \/ \E m \in Ups(r, Owner(i)) : m.t = "car"
Gone(r, i) == NotSent(r, i) /\ i \notin r.items[Owner(i)] /\ i \notin r.cars[i[1]]
NotRelayed(r, w, i) == \A m \in Downs(r, w) : i \notin m.cars[i[1]]
Fading(r, w, i) ==
    /\ r.cons[w][i] >= Linger - 2 /\ Gone(r, i) /\ NotRelayed(r, w, i)
    /\ r.relayed => i \notin r.seen[w] \/ Downs(r, w) # {}
Unseen(r, w, i) == Gone(r, i) /\ NotRelayed(r, w, i) /\ i \notin r.seen[w]
Safe(r, w, i) == \/ Reported(r, w, i) \/ Noted(r, w, i) \/ Spread(r, w, i) \/ Dropped(r, w, i)
                 \/ Fading(r, w, i) \/ Unseen(r, w, i)

OwnItems(r) == \A w \in Race!Windows : /\ \A i \in r.items[w] : Owner(i) = w /\ Used(r, i)
                                       /\ \A i \in r.seen[w] : Owner(i) # w /\ Used(r, i)
HostItems(r) == \A k \in Race!Karts : \A i \in r.cars[k] : i[1] = k /\ Used(r, i)
WireItems(r) == \A g \in Guests :
    /\ \A m \in Msgs(r.up[g]) : /\ m.t = "hit" => m.hid \in Race!Items
                                /\ \A i \in m.h : i[1] = g /\ Used(r, i)
    /\ \A m \in Msgs(r.down[g]) : \A k \in Race!Karts : \A i \in m.cars[k] : i[1] = k /\ Used(r, i)
HitsSafe(r) == \A k \in Race!Karts, i \in Race!Items :
    r.hits[k][i] = 0 \/ /\ r.hits[k][i] = 1 /\ Used(r, i)
                        /\ IF Owner(i) = Race!Win(k) THEN i \notin r.items[Owner(i)] ELSE Safe(r, Race!Win(k), i)
ItemsOk(r) == /\ r \in ItemState /\ OwnItems(r) /\ HostItems(r) /\ WireItems(r) /\ HitsSafe(r)
              /\ r.relayed => r.sent = Race!Windows
ItemsInv == ItemsOk(race)

-----------------------------------------------------------------------------
LEMMA MsgsAppend ==
    ASSUME NEW S, NEW q \in Seq(S), NEW m \in S
    PROVE  Append(q, m) \in Seq(S) /\ Msgs(Append(q, m)) = Msgs(q) \cup {m}
<1> DEFINE p == Append(q, m)
<1>1. p \in Seq(S) /\ Len(p) = Len(q) + 1 /\ p[Len(q) + 1] = m /\ Len(q) \in Nat /\ \A j \in 1..Len(q) : p[j] = q[j]
  BY AppendProperties, LenProperties
<1> HIDE DEF p
<1>2. ASSUME NEW j \in 1..Len(p) PROVE p[j] \in Msgs(q) \cup {m}
  <2>1. j \in 1..Len(q) \/ j = Len(q) + 1
    BY <1>1
  <2> QED
    BY <1>1, <2>1 DEF Msgs
<1>3. ASSUME NEW j \in 1..Len(q) PROVE q[j] \in Msgs(p)
  <2>1. j \in 1..Len(p) /\ p[j] = q[j]
    BY <1>1
  <2> QED
    BY <2>1 DEF Msgs
<1>4. m \in Msgs(p)
  <2>1. Len(q) + 1 \in 1..Len(p)
    BY <1>1
  <2> QED
    BY <1>1, <2>1 DEF Msgs
<1>5. Msgs(p) = Msgs(q) \cup {m}
  BY <1>2, <1>3, <1>4 DEF Msgs
<1> QED
  BY <1>1, <1>5 DEF p

LEMMA MsgsRead ==
    ASSUME NEW S, NEW q \in Seq(S), q # <<>>
    PROVE  Head(q) \in S /\ Tail(q) \in Seq(S) /\ Msgs(q) = {Head(q)} \cup Msgs(Tail(q))
<1> DEFINE p == Tail(q)
<1>1. /\ Head(q) \in S /\ p \in Seq(S) /\ Head(q) = q[1] /\ Len(q) \in Nat /\ Len(q) > 0
      /\ Len(p) = Len(q) - 1 /\ \A j \in 1..Len(p) : p[j] = q[j + 1]
  BY HeadTailProperties, EmptySeq, LenProperties
<1> HIDE DEF p
<1>2. ASSUME NEW j \in 1..Len(q) PROVE q[j] \in {q[1]} \cup Msgs(p)
  <2>1. CASE j = 1
    BY <2>1
  <2>2. CASE j # 1
    <3>1. j - 1 \in 1..Len(p) /\ j - 1 + 1 = j
      BY <1>1, <2>2
    <3>2. p[j - 1] = q[j]
      BY <1>1, <3>1
    <3> QED
      BY <3>1, <3>2 DEF Msgs
  <2> QED
    BY <2>1, <2>2
<1>3. ASSUME NEW j \in 1..Len(p) PROVE p[j] \in Msgs(q)
  <2>1. j + 1 \in 1..Len(q) /\ p[j] = q[j + 1]
    BY <1>1
  <2> QED
    BY <2>1 DEF Msgs
<1>4. q[1] \in Msgs(q)
  <2>1. 1 \in 1..Len(q)
    BY <1>1
  <2> QED
    BY <2>1 DEF Msgs
<1>5. Msgs(q) = {q[1]} \cup Msgs(p)
  BY <1>2, <1>3, <1>4 DEF Msgs
<1> QED
  BY <1>1, <1>5 DEF p

LEMMA MsgsEmpty == Msgs(<<>>) = {}
  BY DEF Msgs

LEMMA ItemNames ==
    /\ Host \in Race!Windows /\ \A g \in Guests : g \in Race!Windows /\ g # Host
    /\ \A w \in Race!Windows : w = Host \/ w \in Guests
    /\ \A k \in Race!Karts : Race!Win(k) \in Race!Windows
    /\ \A k \in Race!Karts, g \in Guests : Race!Win(k) = g <=> k = g
    /\ \A w \in Race!Windows : w \in Race!Karts /\ Race!Win(w) = w
    /\ Bot \in Race!Karts /\ Race!Win(Bot) = Host /\ Bot # Host
    /\ \A k \in Race!Karts : Race!Win(k) = Host <=> k \in {Host, Bot}
    /\ \A i \in Race!Items : i[1] \in Race!Karts /\ i[2] \in Nat /\ Owner(i) \in Race!Windows /\ i = <<i[1], i[2]>>
  BY ItemsAssumption DEF Race!Windows, Race!Karts, Race!Win, Race!Items, Owner

(* Nothing that matters for item i and window w is lost. *)
LEMMA SafeCalm ==
    ASSUME NEW r, NEW s, NEW w, NEW i, Safe(r, w, i), Linger \in Nat,
           r.cons[w][i] \in Nat, s.cons[w][i] \in Nat, s.cons[w][i] >= r.cons[w][i],
           r.cons[Owner(i)][i] \in Nat, s.cons[Owner(i)][i] \in Nat, s.cons[Owner(i)][i] >= r.cons[Owner(i)][i],
           r.hostCons[i] \in Nat, s.hostCons[i] \in Nat, s.hostCons[i] >= r.hostCons[i],
           i \in s.items[Owner(i)] => i \in r.items[Owner(i)],
           s.seen[w] = r.seen[w], s.cars[i[1]] = r.cars[i[1]], s.relayed = r.relayed,
           Owner(i) \in s.sent => Owner(i) \in r.sent,
           Downs(s, w) = Downs(r, w), Downs(s, Owner(i)) = Downs(r, Owner(i)),
           Ups(r, w) \subseteq Ups(s, w), Ups(r, Owner(i)) \subseteq Ups(s, Owner(i)),
           \A m \in Ups(s, Owner(i)) : m \in Ups(r, Owner(i)) \/ m.t # "car"
    PROVE  Safe(s, w, i)
<1>1. CASE Reported(r, w, i)
  BY <1>1 DEF Safe, Reported
<1>2. CASE Noted(r, w, i)
  BY <1>2 DEF Safe, Noted
<1>3. CASE Spread(r, w, i)
  BY <1>3 DEF Safe, Spread, IsTold
<1>4. CASE Dropped(r, w, i)
  BY <1>4 DEF Safe, Dropped, NotSent
<1>5. CASE Fading(r, w, i)
  BY <1>5 DEF Safe, Fading, Gone, NotSent, NotRelayed
<1>6. CASE Unseen(r, w, i)
  BY <1>6 DEF Safe, Unseen, Gone, NotSent, NotRelayed
<1> QED
  BY <1>1, <1>2, <1>3, <1>4, <1>5, <1>6 DEF Safe

LEMMA HitsKept ==
    ASSUME NEW r, HitsSafe(r), NEW s, s.hits = r.hits,
           \A i \in Race!Items : Used(r, i) => Used(s, i) /\ (i \in s.items[Owner(i)] => i \in r.items[Owner(i)]),
           \A w \in Race!Windows, i \in Race!Items : Owner(i) # w /\ Used(r, i) /\ Safe(r, w, i) => Safe(s, w, i)
    PROVE  HitsSafe(s)
<1> SUFFICES ASSUME NEW k \in Race!Karts, NEW i \in Race!Items, s.hits[k][i] # 0
             PROVE  /\ s.hits[k][i] = 1 /\ Used(s, i)
                    /\ IF Owner(i) = Race!Win(k) THEN i \notin s.items[Owner(i)] ELSE Safe(s, Race!Win(k), i)
  BY DEF HitsSafe
<1>1. /\ r.hits[k][i] = 1 /\ Used(r, i)
      /\ IF Owner(i) = Race!Win(k) THEN i \notin r.items[Owner(i)] ELSE Safe(r, Race!Win(k), i)
  BY DEF HitsSafe
<1>2. Race!Win(k) \in Race!Windows
  BY ItemNames
<1> QED
  BY <1>1, <1>2

(* The fields that are counted with are numbers. *)
LEMMA ItemTypes ==
    ASSUME NEW r \in ItemState
    PROVE  /\ \A w \in Race!Windows : r.seq[w] \in Nat /\ r.items[w] \subseteq Race!Items /\ r.seen[w] \subseteq Race!Items
           /\ \A w \in Race!Windows, i \in Race!Items : r.cons[w][i] \in Nat /\ r.cons[w][i] <= Linger
           /\ \A i \in Race!Items : r.hostCons[i] \in Nat /\ r.hostCons[i] <= Linger
           /\ \A k \in Race!Karts : r.cars[k] \subseteq Race!Items
           /\ \A k \in Race!Karts, i \in Race!Items : r.hits[k][i] \in Nat
           /\ \A g \in Guests : r.up[g] \in Seq(Reports) /\ r.down[g] \in Seq(Relays)
<1>1. \A x \in 0..Linger : x \in Nat /\ x <= Linger
  BY ItemsAssumption
<1> DEFINE C == 0..Linger
<1> HIDE DEF C
<1>2. /\ \A w \in Race!Windows, i \in Race!Items : r.cons[w][i] \in C
      /\ \A i \in Race!Items : r.hostCons[i] \in C
  BY DEF ItemState, C
<1>3. /\ \A w \in Race!Windows : r.seq[w] \in Nat /\ r.items[w] \subseteq Race!Items /\ r.seen[w] \subseteq Race!Items
      /\ \A k \in Race!Karts : r.cars[k] \subseteq Race!Items
      /\ \A k \in Race!Karts, i \in Race!Items : r.hits[k][i] \in Nat
      /\ \A g \in Guests : r.up[g] \in Seq(Reports) /\ r.down[g] \in Seq(Relays)
  BY DEF ItemState
<1> QED
  BY <1>1, <1>2, <1>3 DEF C

SameItems(s, r) == /\ s.seq = r.seq /\ s.items = r.items /\ s.seen = r.seen /\ s.cons = r.cons /\ s.hostCons = r.hostCons
                   /\ s.cars = r.cars /\ s.up = r.up /\ s.down = r.down /\ s.sent = r.sent /\ s.relayed = r.relayed
LEMMA ItemsSlot ==
    ASSUME ItemsOk(race), NEW s \in ItemState, SameItems(s, race), s.hits = race.hits
    PROVE  ItemsOk(s)
<1>1. OwnItems(s) /\ HostItems(s) /\ WireItems(s)
  BY DEF ItemsOk, SameItems, OwnItems, HostItems, WireItems, Used
<1>2. ASSUME NEW w \in Race!Windows, NEW i \in Race!Items, Safe(race, w, i)
      PROVE  Safe(s, w, i)
  <2>1. race.cons[w][i] \in Nat /\ race.cons[Owner(i)][i] \in Nat /\ race.hostCons[i] \in Nat
    BY ItemTypes, ItemNames DEF ItemsOk
  <2>2. /\ Ups(s, w) = Ups(race, w) /\ Downs(s, w) = Downs(race, w)
        /\ Ups(s, Owner(i)) = Ups(race, Owner(i)) /\ Downs(s, Owner(i)) = Downs(race, Owner(i))
    BY DEF SameItems, Ups, Downs
  <2>3. Linger \in Nat
    BY ItemsAssumption
  <2> QED
    BY <1>2, <2>1, <2>2, <2>3, SafeCalm DEF SameItems
<1>3. HitsSafe(s)
  <2>1. \A i \in Race!Items : Used(race, i) => Used(s, i) /\ (i \in s.items[Owner(i)] => i \in race.items[Owner(i)])
    BY DEF SameItems, Used
  <2> QED
    BY <1>2, <2>1, HitsKept DEF ItemsOk
<1> QED
  BY <1>1, <1>3 DEF ItemsOk, SameItems

LEMMA ItemBoxes ==
    ASSUME ItemsOk(race), NEW k \in Race!Karts, Race!Box(k) \/ Race!Rolled(k)
    PROVE  ItemsOk(race')
<1>1. PICK x \in {"rolling", "item"} : race' = [race EXCEPT !.slot[k] = x]
  BY DEF Race!Box, Race!Rolled
<1>2. race' \in ItemState /\ SameItems(race', race) /\ race'.hits = race.hits
  BY <1>1 DEF ItemsOk, ItemState, SameItems
<1> QED
  BY <1>2, ItemsSlot

(* An item that is dropped has a number of its own. *)
LEMMA ItemUses ==
    ASSUME ItemsOk(race), NEW k \in Race!Karts, Race!useItem(k)
    PROVE  ItemsOk(race')
<1> DEFINE w == Race!Win(k)
           n == race.seq[w] + 1
           x == "empty"
           used == [race EXCEPT !.slot[k] = x]
           new == <<k, n>>
           slot == [race.slot EXCEPT ![k] = x]
           seq == [race.seq EXCEPT ![w] = n]
           items == [race.items EXCEPT ![w] = @ \cup {new}]
<1>1. /\ race \in ItemState /\ w \in Race!Windows /\ race.seq[w] \in Nat /\ race.items[w] \subseteq Race!Items
      /\ race.seq \in [Race!Windows -> Nat] /\ race.items \in [Race!Windows -> SUBSET Race!Items]
      /\ slot \in [Race!Karts -> {"empty", "rolling", "item"}]
  BY ItemNames, ItemTypes DEF ItemsOk, ItemState
<1>2. CASE race' = used
  <2>1. used \in ItemState /\ SameItems(used, race) /\ used.hits = race.hits
    BY <1>1 DEF ItemState, SameItems
  <2> QED
    BY <1>2, <2>1, ItemsSlot
<1>3. CASE n <= MaxItems /\ race' = [used EXCEPT !.seq[w] = n, !.items[w] = @ \cup {new}]
  <2>1. n \in 1..MaxItems /\ n \in Nat
    BY <1>1, <1>3, ItemsAssumption
  <2>2. new \in Race!Items /\ new[1] = k /\ new[2] = n /\ Owner(new) = w
    BY <2>1 DEF Race!Items, Owner
  <2>3. race' = [race EXCEPT !.slot = slot, !.seq = seq, !.items = items]
    BY <1>1, <1>3 DEF ItemState
  <2> HIDE DEF new, slot
  <2>4. seq \in [Race!Windows -> Nat] /\ seq[w] = n /\ \A v \in Race!Windows : seq[v] >= race.seq[v]
    BY <1>1, <2>1
  <2>5. /\ items \in [Race!Windows -> SUBSET Race!Items] /\ items[w] = race.items[w] \cup {new}
        /\ \A v \in Race!Windows \ {w} : items[v] = race.items[v]
    BY <1>1, <2>2
  <2> HIDE DEF seq, items, w, n
  <2>6. /\ race' \in ItemState /\ race'.seq = seq /\ race'.items = items /\ race'.seen = race.seen /\ race'.cons = race.cons
        /\ race'.hostCons = race.hostCons /\ race'.cars = race.cars /\ race'.up = race.up /\ race'.down = race.down
        /\ race'.sent = race.sent /\ race'.relayed = race.relayed /\ race'.hits = race.hits
    BY <1>1, <2>3, <2>4, <2>5 DEF ItemState
  <2>7. \A i \in Race!Items : Used(race, i) => Used(race', i)
    <3> SUFFICES ASSUME NEW i \in Race!Items, i[2] <= race.seq[Owner(i)]
                 PROVE  i[2] <= seq[Owner(i)]
      BY <2>6 DEF Used
    <3>1. i[2] \in Nat /\ Owner(i) \in Race!Windows
      BY ItemNames
    <3> QED
      BY <1>1, <2>4, <3>1, ItemTypes
  <2>8. ~Used(race, new) /\ Used(race', new)
    BY <1>1, <2>1, <2>2, <2>4, <2>6 DEF Used, n
  <2>9. \A i \in Race!Items : Used(race, i) /\ i \in items[Owner(i)] => i \in race.items[Owner(i)]
    BY <2>2, <2>5, <2>8, ItemNames
  <2>10. OwnItems(race')
    <3>1. ASSUME NEW v \in Race!Windows, NEW i \in items[v]
          PROVE  Owner(i) = v /\ Used(race', i)
      BY <1>1, <2>2, <2>5, <2>7, <2>8, <3>1, ItemTypes DEF ItemsOk, OwnItems
    <3>2. ASSUME NEW v \in Race!Windows, NEW i \in race.seen[v]
          PROVE  Owner(i) # v /\ Used(race', i)
      BY <1>1, <2>7, <3>2, ItemTypes DEF ItemsOk, OwnItems
    <3> QED
      BY <2>6, <3>1, <3>2 DEF OwnItems
  <2>11. HostItems(race')
    BY <1>1, <2>6, <2>7, ItemTypes DEF ItemsOk, HostItems
  <2>12. WireItems(race')
    <3>1. \A g \in Guests : \A m \in Msgs(race.up[g]) : m \in Reports
      BY <1>1, ItemTypes DEF Msgs
    <3>2. \A g \in Guests : \A m \in Msgs(race.down[g]) : m \in Relays
      BY <1>1, ItemTypes DEF Msgs
    <3> QED
      BY <2>6, <2>7, <3>1, <3>2 DEF ItemsOk, WireItems, Reports, Relays
  <2>13. ASSUME NEW v \in Race!Windows, NEW i \in Race!Items, Used(race, i), Safe(race, v, i)
         PROVE  Safe(race', v, i)
    <3>1. race.cons[v][i] \in Nat /\ race.cons[Owner(i)][i] \in Nat /\ race.hostCons[i] \in Nat
      BY <1>1, ItemTypes, ItemNames
    <3>2. /\ Ups(race', v) = Ups(race, v) /\ Downs(race', v) = Downs(race, v)
          /\ Ups(race', Owner(i)) = Ups(race, Owner(i)) /\ Downs(race', Owner(i)) = Downs(race, Owner(i))
      BY <2>6 DEF Ups, Downs
    <3>3. Linger \in Nat
      BY ItemsAssumption
    <3>4. i \in race'.items[Owner(i)] => i \in race.items[Owner(i)]
      BY <2>6, <2>9, <2>13
    <3> QED
      BY <2>6, <2>13, <3>1, <3>2, <3>3, <3>4, SafeCalm
  <2>14. HitsSafe(race')
    BY <2>6, <2>7, <2>9, <2>13, HitsKept DEF ItemsOk
  <2> QED
    BY <2>6, <2>10, <2>11, <2>12, <2>14 DEF ItemsOk
<1> QED
  BY <1>2, <1>3 DEF Race!useItem

-----------------------------------------------------------------------------
(* A window ignores an item it has hit as long as it may see it. *)
LEMMA SafeIgnored ==
    ASSUME NEW r \in ItemState, NEW w \in Race!Windows, NEW i \in Race!Items,
           Safe(r, w, i), r.cons[w][i] = 0
    PROVE  i \notin r.seen[w]
  BY ItemsAssumption DEF Safe, Reported, Noted, Spread, Dropped, Fading, Unseen

(* A hit: one more for this kart, and the item is gone or ignored from now *)
(* on and told, with s the state but for the item itself.                  *)
LEMMA ItemHit ==
    ASSUME ItemsOk(race), NEW k \in Race!Karts, NEW i \in Race!Items, NEW s \in ItemState,
           race.hits[k][i] = 0, s.hits = [race.hits EXCEPT ![k] = [race.hits[k] EXCEPT ![i] = 1]],
           s.seq = race.seq, s.seen = race.seen, s.cars = race.cars, s.down = race.down,
           s.sent = race.sent, s.relayed = race.relayed,
           \A v \in Race!Windows : s.items[v] \subseteq race.items[v],
           \A v \in Race!Windows, j \in Race!Items : s.cons[v][j] >= race.cons[v][j],
           \A j \in Race!Items : s.hostCons[j] >= race.hostCons[j],
           \A v \in Race!Windows : /\ Ups(race, v) \subseteq Ups(s, v)
                                   /\ \A m \in Ups(s, v) : m \in Ups(race, v) \/ (m.t = "hit" /\ m.hid \in Race!Items /\ m.h = {}),
           Used(race, i),
           IF Owner(i) = Race!Win(k) THEN i \notin s.items[Owner(i)] ELSE Safe(s, Race!Win(k), i)
    PROVE  ItemsOk(s)
<1>1. \A j : Used(s, j) <=> Used(race, j)
  BY DEF Used
<1>2. race \in ItemState /\ Linger \in Nat
  BY ItemsAssumption DEF ItemsOk
<1>3. OwnItems(s) /\ HostItems(s)
  BY <1>1 DEF ItemsOk, OwnItems, HostItems
<1>4. WireItems(s)
  <2>1. ASSUME NEW g \in Guests
        PROVE  /\ Msgs(s.up[g]) = Ups(s, g) /\ Msgs(race.up[g]) = Ups(race, g) /\ g \in Race!Windows
    BY ItemNames DEF Ups
  <2>2. ASSUME NEW g \in Guests, NEW m \in Msgs(s.up[g])
        PROVE  /\ m.t = "hit" => m.hid \in Race!Items
               /\ \A j \in m.h : j[1] = g /\ Used(s, j)
    <3>1. m \in Ups(race, g) \/ (m.t = "hit" /\ m.hid \in Race!Items /\ m.h = {})
      BY <2>1, <2>2
    <3> QED
      BY <1>1, <2>1, <3>1 DEF ItemsOk, WireItems
  <2> QED
    BY <1>1, <2>2 DEF ItemsOk, WireItems
<1>5. ASSUME NEW v \in Race!Windows, NEW j \in Race!Items, Safe(race, v, j)
      PROVE  Safe(s, v, j)
  <2>1. Owner(j) \in Race!Windows
    BY ItemNames
  <2>2. /\ race.cons[v][j] \in Nat /\ race.cons[Owner(j)][j] \in Nat /\ race.hostCons[j] \in Nat
        /\ s.cons[v][j] \in Nat /\ s.cons[Owner(j)][j] \in Nat /\ s.hostCons[j] \in Nat
    BY <1>2, <2>1, ItemTypes
  <2>3. Downs(s, v) = Downs(race, v) /\ Downs(s, Owner(j)) = Downs(race, Owner(j))
    BY DEF Downs
  <2>4. \A m \in Ups(s, Owner(j)) : m \in Ups(race, Owner(j)) \/ m.t # "car"
    BY <2>1
  <2>5. j \in s.items[Owner(j)] => j \in race.items[Owner(j)]
    BY <2>1
  <2> QED
    BY <1>2, <1>5, <2>1, <2>2, <2>3, <2>4, <2>5, SafeCalm
<1>6. HitsSafe(s)
  <2> SUFFICES ASSUME NEW l \in Race!Karts, NEW j \in Race!Items, s.hits[l][j] # 0
               PROVE  /\ s.hits[l][j] = 1 /\ Used(s, j)
                      /\ IF Owner(j) = Race!Win(l) THEN j \notin s.items[Owner(j)] ELSE Safe(s, Race!Win(l), j)
    BY DEF HitsSafe
  <2>1. CASE l = k /\ j = i
    <3>1. s.hits[k][i] = 1
      BY <1>2 DEF ItemState
    <3> QED
      BY <1>1, <2>1, <3>1
  <2>2. CASE ~(l = k /\ j = i)
    <3>1. s.hits[l][j] = race.hits[l][j]
      BY <1>2, <2>2 DEF ItemState
    <3>2. /\ race.hits[l][j] = 1 /\ Used(race, j)
          /\ IF Owner(j) = Race!Win(l) THEN j \notin race.items[Owner(j)] ELSE Safe(race, Race!Win(l), j)
      BY <3>1 DEF ItemsOk, HitsSafe
    <3>3. Race!Win(l) \in Race!Windows /\ Owner(j) \in Race!Windows
      BY ItemNames
    <3> QED
      BY <1>1, <1>5, <3>1, <3>2, <3>3
  <2> QED
    BY <2>1, <2>2
<1> QED
  BY <1>3, <1>4, <1>6 DEF ItemsOk

LEMMA ItemHits ==
    ASSUME ItemsOk(race), NEW k \in Race!Karts, NEW i \in Race!Items, Race!checkHazardHits(k, i)
    PROVE  ItemsOk(race')
<1> DEFINE w == Race!Win(k)
           h == race.hits[k][i] + 1
           hits == [race.hits EXCEPT ![k] = [race.hits[k] EXCEPT ![i] = h]]
           cons == [race.cons EXCEPT ![w] = [race.cons[w] EXCEPT ![i] = Linger]]
           hit == [race EXCEPT !.hits[k][i] = @ + 1]
           told == [hit EXCEPT !.cons[w][i] = Linger]
<1>1. /\ race \in ItemState /\ w \in Race!Windows /\ i \in race.items[w] \cup race.seen[w] /\ race.cons[w][i] = 0
      /\ Linger \in Nat /\ Linger \in 0..Linger
  BY ItemNames, ItemsAssumption DEF ItemsOk, Race!checkHazardHits
<1>2. /\ Owner(i) = w <=> i \in race.items[w]
      /\ Owner(i) # w <=> i \in race.seen[w]
      /\ Used(race, i)
  BY <1>1 DEF ItemsOk, OwnItems
<1>3. race.hits[k][i] = 0
  <2> SUFFICES ASSUME race.hits[k][i] # 0 PROVE FALSE
    OBVIOUS
  <2>1. IF Owner(i) = w THEN i \notin race.items[Owner(i)] ELSE Safe(race, w, i)
    BY DEF ItemsOk, HitsSafe
  <2>2. Safe(race, w, i) => i \notin race.seen[w]
    BY <1>1, SafeIgnored
  <2> QED
    BY <1>2, <2>1, <2>2
<1>4. /\ race.hits \in [Race!Karts -> [Race!Items -> Nat]]
      /\ race.cons \in [Race!Windows -> [Race!Items -> 0..Linger]]
      /\ race.hostCons \in [Race!Items -> 0..Linger]
      /\ race.items \in [Race!Windows -> SUBSET Race!Items]
      /\ race.up \in [Guests -> Seq(Reports)]
  BY <1>1 DEF ItemState
<1>5. h = 1 /\ 1 \in Nat
  BY <1>3
<1> HIDE DEF h
<1>6. hits \in [Race!Karts -> [Race!Items -> Nat]] /\ hits = [race.hits EXCEPT ![k] = [race.hits[k] EXCEPT ![i] = 1]]
  BY <1>4, <1>5
<1>7. /\ cons \in [Race!Windows -> [Race!Items -> 0..Linger]] /\ cons[w][i] = Linger
      /\ \A v \in Race!Windows, j \in Race!Items : cons[v][j] >= race.cons[v][j]
  <2>1. cons \in [Race!Windows -> [Race!Items -> 0..Linger]] /\ cons[w][i] = Linger
    BY <1>1, <1>4
  <2>2. ASSUME NEW v \in Race!Windows, NEW j \in Race!Items
        PROVE  cons[v][j] >= race.cons[v][j]
    <3>1. cons[v][j] = race.cons[v][j] \/ cons[v][j] = Linger
      BY <1>1, <1>4
    <3>2. race.cons[v][j] \in Nat /\ race.cons[v][j] <= Linger
      BY <1>1, ItemTypes
    <3> HIDE DEF cons
    <3> QED
      BY <1>1, <3>1, <3>2
  <2> QED
    BY <2>1, <2>2
<1>8. hit = [race EXCEPT !.hits = hits] /\ told = [race EXCEPT !.hits = hits, !.cons = cons]
  <2>1. hit = [race EXCEPT !.hits = hits]
    BY <1>1 DEF ItemState, h
  <2>2. hit.cons = race.cons
    BY <1>1 DEF ItemState
  <2>3. told = [race EXCEPT !.hits = hits, !.cons = cons]
    BY <1>1, <2>1, <2>2 DEF ItemState
  <2> QED
    BY <2>1, <2>3
<1> HIDE DEF hits, h, cons, hit, told
<1>9. CASE i \in race.items[w]
  <2> DEFINE items == [race.items EXCEPT ![w] = @ \ {i}]
  <2>1. race' = [hit EXCEPT !.items[w] = @ \ {i}]
    BY <1>9 DEF Race!checkHazardHits, hit
  <2>2. race' = [race EXCEPT !.hits = hits, !.items = items]
    BY <1>1, <1>8, <2>1 DEF ItemState
  <2>3. /\ items \in [Race!Windows -> SUBSET Race!Items] /\ i \notin items[w]
        /\ \A v \in Race!Windows : items[v] \subseteq race.items[v]
    BY <1>1, <1>4
  <2> HIDE DEF items, w
  <2>4. /\ race' \in ItemState /\ race'.seq = race.seq /\ race'.items = items /\ race'.seen = race.seen /\ race'.cons = race.cons
        /\ race'.hostCons = race.hostCons /\ race'.cars = race.cars /\ race'.up = race.up /\ race'.down = race.down
        /\ race'.sent = race.sent /\ race'.relayed = race.relayed /\ race'.hits = hits
    BY <1>1, <1>6, <2>2, <2>3 DEF ItemState
  <2>5. \A v : Ups(race', v) = Ups(race, v)
    BY <2>4 DEF Ups
  <2>6. /\ \A v \in Race!Windows, j \in Race!Items : race'.cons[v][j] >= race.cons[v][j]
        /\ \A j \in Race!Items : race'.hostCons[j] >= race.hostCons[j]
    BY <1>1, <2>4, ItemTypes
  <2> QED
    BY <1>2, <1>3, <1>6, <1>9, <2>3, <2>4, <2>5, <2>6, ItemHit DEF w
<1>10. CASE i \notin race.items[w] /\ w = Host
  <2> DEFINE hc == [race.hostCons EXCEPT ![i] = Linger]
  <2>1. race' = [told EXCEPT !.hostCons[i] = Linger]
    BY <1>10 DEF Race!checkHazardHits, Race!noteHit, hit, told
  <2>2. race' = [race EXCEPT !.hits = hits, !.cons = cons, !.hostCons = hc]
    BY <1>1, <1>8, <2>1 DEF ItemState
  <2>3. /\ hc \in [Race!Items -> 0..Linger] /\ hc[i] = Linger /\ \A j \in Race!Items : hc[j] = race.hostCons[j] \/ hc[j] = Linger
    BY <1>1, <1>4
  <2> HIDE DEF hc, w
  <2>4. /\ race' \in ItemState /\ race'.seq = race.seq /\ race'.items = race.items /\ race'.seen = race.seen /\ race'.cons = cons
        /\ race'.hostCons = hc /\ race'.cars = race.cars /\ race'.up = race.up /\ race'.down = race.down
        /\ race'.sent = race.sent /\ race'.relayed = race.relayed /\ race'.hits = hits
    BY <1>1, <1>6, <1>7, <2>2, <2>3 DEF ItemState
  <2>5. \A v : Ups(race', v) = Ups(race, v)
    BY <2>4 DEF Ups
  <2>b. \A j \in Race!Items : race.hostCons[j] \in Nat /\ race.hostCons[j] <= Linger
    BY <1>1, ItemTypes
  <2>6. /\ \A v \in Race!Windows, j \in Race!Items : race'.cons[v][j] >= race.cons[v][j]
        /\ \A j \in Race!Items : race'.hostCons[j] >= race.hostCons[j]
    <3>1. \A v \in Race!Windows, j \in Race!Items : race'.cons[v][j] >= race.cons[v][j]
      BY <1>7, <2>4
    <3>2. \A j \in Race!Items : hc[j] >= race.hostCons[j]
      BY <1>1, <2>3, <2>b
    <3> QED
      BY <2>4, <3>1, <3>2
  <2>7. Safe(race', w, i)
    <3>1. Linger >= Linger
      BY <1>1
    <3> QED
      BY <1>7, <2>3, <2>4, <3>1 DEF Safe, Noted
  <2> QED
    BY <1>2, <1>3, <1>6, <1>10, <2>4, <2>5, <2>6, <2>7, ItemHit DEF w
<1>11. CASE i \notin race.items[w] /\ w # Host
  <2> DEFINE m == [t |-> "hit", hid |-> i, h |-> {}]
             q == race.up[w]
             u == Append(q, m)
             up == [race.up EXCEPT ![w] = u]
  <2>1. race' = [told EXCEPT !.up[w] = Append(@, m)]
    BY <1>11 DEF Race!checkHazardHits, hit, told
  <2>2. race' = [race EXCEPT !.hits = hits, !.cons = cons, !.up = up]
    BY <1>1, <1>8, <2>1 DEF ItemState
  <2>3. w \in Guests /\ q \in Seq(Reports) /\ w # Host
    BY <1>1, <1>4, <1>11, ItemNames
  <2>4. m \in Reports /\ m.t = "hit" /\ m.hid = i /\ m.h = {}
    <3>1. i \in Race!Karts \X Nat
      BY <1>1 DEF Race!Items
    <3> QED
      BY <3>1 DEF Reports
  <2> HIDE DEF m, q
  <2>5. u \in Seq(Reports) /\ Msgs(u) = Msgs(q) \cup {m}
    BY <2>3, <2>4, MsgsAppend
  <2> HIDE DEF u
  <2>6. up \in [Guests -> Seq(Reports)] /\ up[w] = u /\ \A g \in Guests \ {w} : up[g] = race.up[g]
    BY <1>4, <2>3, <2>5
  <2> HIDE DEF up, w
  <2>7. /\ race' \in ItemState /\ race'.seq = race.seq /\ race'.items = race.items /\ race'.seen = race.seen /\ race'.cons = cons
        /\ race'.hostCons = race.hostCons /\ race'.cars = race.cars /\ race'.up = up /\ race'.down = race.down
        /\ race'.sent = race.sent /\ race'.relayed = race.relayed /\ race'.hits = hits
    BY <1>1, <1>6, <1>7, <2>2, <2>6 DEF ItemState
  <2>8. Ups(race', w) = Ups(race, w) \cup {m} /\ \A v \in Race!Windows \ {w} : Ups(race', v) = Ups(race, v)
    BY <2>3, <2>5, <2>6, <2>7, ItemNames DEF Ups, q
  <2>9. /\ \A v \in Race!Windows, j \in Race!Items : race'.cons[v][j] >= race.cons[v][j]
        /\ \A j \in Race!Items : race'.hostCons[j] >= race.hostCons[j]
    BY <1>1, <1>7, <2>7, ItemTypes
  <2>10. Safe(race', w, i)
    <3>1. Linger >= Linger
      BY <1>1
    <3> QED
      BY <1>7, <2>4, <2>7, <2>8, <3>1 DEF Safe, Reported
  <2>11. \A v \in Race!Windows : /\ Ups(race, v) \subseteq Ups(race', v)
                                /\ \A x \in Ups(race', v) : x \in Ups(race, v) \/ (x.t = "hit" /\ x.hid \in Race!Items /\ x.h = {})
    BY <2>4, <2>8
  <2> QED
    BY <1>2, <1>3, <1>6, <1>11, <2>7, <2>9, <2>10, <2>11, ItemHit DEF w
<1> QED
  BY <1>9, <1>10, <1>11

-----------------------------------------------------------------------------
(* A window sends its car: what it no longer has is gone from there too.   *)
LEMMA SafeSent ==
    ASSUME NEW r \in ItemState, NEW s, NEW w \in Race!Windows, NEW v \in Race!Windows,
           NEW i \in Race!Items, Safe(r, w, i), Owner(i) # w,
           s.cons = r.cons, s.hostCons = r.hostCons, s.seen = r.seen, s.down = r.down, s.relayed = r.relayed,
           s.sent = r.sent \cup {v},
           \A x \in Race!Windows \ {v} : s.items[x] = r.items[x] /\ Ups(s, x) = Ups(r, x),
           \A j \in s.items[v] : j \in r.items[v] /\ r.cons[v][j] = 0,
           \A x \in Race!Karts : Race!Win(x) # v => s.cars[x] = r.cars[x],
           Ups(r, v) \subseteq Ups(s, v),
           \A m \in Ups(s, v) : m \in Ups(r, v) \/ (m.t = "car" /\ m.h \subseteq s.items[v]),
           IF v = Host THEN \A x \in Race!Karts : Race!Win(x) = v => s.cars[x] \subseteq s.items[v]
           ELSE s.cars = r.cars /\ \E m \in Ups(s, v) : m.t = "car" /\ m.h \subseteq s.items[v]
    PROVE  Safe(s, w, i)
<1>1. /\ Linger \in Nat /\ Linger >= 3 /\ r.cons[w][i] \in Nat /\ r.cons[Owner(i)][i] \in Nat /\ r.hostCons[i] \in Nat
      /\ Owner(i) \in Race!Windows /\ i[1] \in Race!Karts /\ Owner(i) = Race!Win(i[1])
  BY ItemTypes, ItemNames, ItemsAssumption DEF Owner
<1>2. Ups(r, w) \subseteq Ups(s, w) /\ Downs(s, w) = Downs(r, w) /\ Downs(s, Owner(i)) = Downs(r, Owner(i))
  BY DEF Downs
<1>3. CASE Owner(i) # v
  <2>1. s.cars[i[1]] = r.cars[i[1]]
    BY <1>1, <1>3
  <2> QED
    BY <1>1, <1>2, <1>3, <2>1, SafeCalm
<1>4. CASE Owner(i) = v
  <2>1. CASE Reported(r, w, i)
    BY <1>2, <2>1 DEF Safe, Reported
  <2>2. CASE Noted(r, w, i)
    BY <2>2 DEF Safe, Noted
  <2>3. CASE Spread(r, w, i)
    BY <1>2, <2>3 DEF Safe, Spread, IsTold
  <2>4. CASE Dropped(r, w, i)
    <3>1. r.cons[v][i] # 0
      BY <1>1, <1>4, <2>4 DEF Dropped
    <3>2. i \notin s.items[v]
      BY <3>1
    <3>3. NotSent(s, i)
      BY <1>4, <2>4, <3>2 DEF Dropped, NotSent
    <3>4. i \notin s.cars[i[1]] \/ \E m \in Ups(s, v) : m.t = "car"
      BY <1>1, <1>4, <3>2
    <3> QED
      BY <1>4, <2>4, <3>2, <3>3, <3>4 DEF Safe, Dropped
  <2>5. ASSUME Gone(r, i) PROVE Gone(s, i)
    <3>1. i \notin s.items[v] /\ NotSent(s, i)
      BY <1>4, <2>5 DEF Gone, NotSent
    <3>2. i \notin s.cars[i[1]]
      BY <1>1, <1>4, <2>5, <3>1 DEF Gone
    <3> QED
      BY <1>4, <3>1, <3>2 DEF Gone
  <2>6. CASE Fading(r, w, i)
    BY <1>2, <2>5, <2>6 DEF Safe, Fading, NotRelayed
  <2>7. CASE Unseen(r, w, i)
    BY <1>2, <2>5, <2>7 DEF Safe, Unseen, NotRelayed
  <2> QED
    BY <2>1, <2>2, <2>3, <2>4, <2>6, <2>7 DEF Safe
<1> QED
  BY <1>3, <1>4

LEMMA ItemSent ==
    ASSUME ItemsOk(race), NEW v \in Race!Windows, Race!sendNet(v)
    PROVE  ItemsOk(race')
<1> PICK old \in SUBSET race.items[v] :
      LET r == Race!updateHazards([race EXCEPT !.sent = @ \cup {v}], v, old) IN
      IF v = Host
      THEN race' = Race!storeCar(Race!storeCar(r, Host, Race!hazardsOf(r, Host)), Bot, Race!hazardsOf(r, Bot))
      ELSE race' = [r EXCEPT !.up[v] = Append(@, [t |-> "car", hid |-> <<v, 0>>, h |-> Race!hazardsOf(r, v)])]
  BY DEF Race!sendNet
<1> DEFINE sent == race.sent \cup {v}
           mine == {j \in race.items[v] \ old : race.cons[v][j] = 0}
           items == [race.items EXCEPT ![v] = mine]
           r == Race!updateHazards([race EXCEPT !.sent = @ \cup {v}], v, old)
           h == Race!hazardsOf(r, v)
           b == Race!hazardsOf(r, Bot)
<1>1. /\ race \in ItemState /\ race.items \in [Race!Windows -> SUBSET Race!Items] /\ sent \in SUBSET Race!Windows
      /\ race.items[v] \subseteq Race!Items /\ race.up \in [Guests -> Seq(Reports)]
      /\ race.cars \in [Race!Karts -> SUBSET Race!Items]
  BY ItemTypes DEF ItemsOk, ItemState
<1>2. r = [race EXCEPT !.sent = sent, !.items = items]
  <2> DEFINE z == [race EXCEPT !.sent = @ \cup {v}]
  <2>1. z = [race EXCEPT !.sent = sent] /\ z.cons = race.cons /\ z.items = race.items
    BY <1>1 DEF ItemState
  <2>2. r = [z EXCEPT !.items[v] = {j \in @ \ old : z.cons[v][j] = 0}]
    BY DEF Race!updateHazards
  <2> HIDE DEF z, r
  <2> QED
    BY <1>1, <2>1, <2>2 DEF ItemState
<1>3. /\ items \in [Race!Windows -> SUBSET Race!Items] /\ items[v] = mine
      /\ mine \subseteq race.items[v] /\ \A j \in mine : race.cons[v][j] = 0
      /\ \A x \in Race!Windows \ {v} : items[x] = race.items[x]
  BY <1>1
<1>4. r.items = items
  BY <1>1, <1>2 DEF ItemState
<1>5. /\ h \subseteq mine /\ \A j \in h : j[1] = v
      /\ v = Host => b \subseteq mine /\ \A j \in b : j[1] = Bot
  BY <1>3, <1>4, ItemNames DEF Race!hazardsOf
<1> HIDE DEF mine, items, sent
<1>6. ASSUME NEW cars \in [Race!Karts -> SUBSET Race!Items], NEW up \in [Guests -> Seq(Reports)],
             race' = [race EXCEPT !.sent = sent, !.items = items, !.cars = cars, !.up = up],
             \A x \in Race!Karts : Race!Win(x) # v => cars[x] = race.cars[x],
             \A g \in Guests \ {v} : up[g] = race.up[g],
             v = Host => up = race.up /\ \A x \in Race!Karts : Race!Win(x) = v => cars[x] \subseteq mine /\ \A j \in cars[x] : j[1] = x,
             v # Host => cars = race.cars /\ \E m : /\ Msgs(up[v]) = Msgs(race.up[v]) \cup {m} /\ m.t = "car"
                                                    /\ m.h \subseteq mine /\ \A j \in m.h : j[1] = v
      PROVE  ItemsOk(race')
  <2>1. /\ race' \in ItemState /\ race'.seq = race.seq /\ race'.items = items /\ race'.seen = race.seen /\ race'.cons = race.cons
        /\ race'.hostCons = race.hostCons /\ race'.cars = cars /\ race'.up = up /\ race'.down = race.down
        /\ race'.sent = sent /\ race'.relayed = race.relayed /\ race'.hits = race.hits
    BY <1>1, <1>3, <1>6 DEF ItemState
  <2>2. \A j : Used(race', j) <=> Used(race, j)
    BY <2>1 DEF Used
  <2>3. \A x \in Race!Windows : items[x] \subseteq race.items[x]
    BY <1>3
  <2>a. \A j \in mine : Owner(j) = v /\ Used(race, j)
    BY <1>3 DEF ItemsOk, OwnItems
  <2>4. OwnItems(race')
    BY <2>1, <2>2, <2>3 DEF ItemsOk, OwnItems
  <2>5. HostItems(race')
    BY <1>6, <2>1, <2>2, <2>a, ItemNames DEF ItemsOk, HostItems
  <2>6. WireItems(race')
    <3>1. ASSUME NEW g \in Guests, NEW m \in Msgs(up[g])
          PROVE  /\ m.t = "hit" => m.hid \in Race!Items
                 /\ \A j \in m.h : j[1] = g /\ Used(race, j)
      <4>1. CASE m \in Msgs(race.up[g])
        BY <4>1 DEF ItemsOk, WireItems
      <4>2. CASE m \notin Msgs(race.up[g])
        <5>1. g = v /\ v # Host
          BY <1>6, <3>1, <4>2
        <5> QED
          BY <1>6, <2>a, <3>1, <4>2, <5>1
      <4> QED
        BY <4>1, <4>2
    <3> QED
      BY <2>1, <2>2, <3>1 DEF ItemsOk, WireItems
  <2>7. /\ \A x \in Race!Windows \ {v} : Ups(race', x) = Ups(race, x)
        /\ Ups(race, v) \subseteq Ups(race', v)
        /\ \A m \in Ups(race', v) : m \in Ups(race, v) \/ (m.t = "car" /\ m.h \subseteq mine)
        /\ v # Host => \E m \in Ups(race', v) : m.t = "car" /\ m.h \subseteq mine
    <3>1. \A x \in Race!Windows \ {v} : Ups(race', x) = Ups(race, x)
      BY <1>6, <2>1, ItemNames DEF Ups
    <3>2. CASE v = Host
      BY <1>6, <2>1, <3>1, <3>2 DEF Ups
    <3>3. CASE v # Host
      <4>1. Ups(race', v) = Msgs(up[v]) /\ Ups(race, v) = Msgs(race.up[v])
        BY <2>1, <3>3 DEF Ups
      <4>2. PICK m : Msgs(up[v]) = Msgs(race.up[v]) \cup {m} /\ m.t = "car" /\ m.h \subseteq mine
        BY <1>6, <3>3
      <4> QED
        BY <3>1, <4>1, <4>2
    <3> QED
      BY <3>2, <3>3
  <2>8. ASSUME NEW w \in Race!Windows, NEW i \in Race!Items, Owner(i) # w, Used(race, i), Safe(race, w, i)
        PROVE  Safe(race', w, i)
    <3>1. IF v = Host THEN \A x \in Race!Karts : Race!Win(x) = v => cars[x] \subseteq mine
          ELSE cars = race.cars /\ \E m \in Ups(race', v) : m.t = "car" /\ m.h \subseteq mine
      BY <1>6, <2>7
    <3>2. /\ race'.sent = race.sent \cup {v} /\ race'.cons = race.cons /\ race'.hostCons = race.hostCons
          /\ race'.seen = race.seen /\ race'.down = race.down /\ race'.relayed = race.relayed
      BY <2>1 DEF sent
    <3>3. race'.items[v] = mine /\ race'.cars = cars
      BY <1>3, <2>1
    <3>4. \A x \in Race!Windows \ {v} : race'.items[x] = race.items[x] /\ Ups(race', x) = Ups(race, x)
      BY <1>3, <2>1, <2>7
    <3>5. \A j \in race'.items[v] : j \in race.items[v] /\ race.cons[v][j] = 0
      BY <1>3, <3>3
    <3>6. \A x \in Race!Karts : Race!Win(x) # v => race'.cars[x] = race.cars[x]
      BY <1>6, <3>3
    <3>7. /\ Ups(race, v) \subseteq Ups(race', v)
          /\ \A m \in Ups(race', v) : m \in Ups(race, v) \/ (m.t = "car" /\ m.h \subseteq race'.items[v])
      BY <2>7, <3>3
    <3>8. IF v = Host THEN \A x \in Race!Karts : Race!Win(x) = v => race'.cars[x] \subseteq race'.items[v]
          ELSE race'.cars = race.cars /\ \E m \in Ups(race', v) : m.t = "car" /\ m.h \subseteq race'.items[v]
      BY <3>1, <3>3
    <3> QED
      BY <1>1, <2>8, <3>2, <3>4, <3>5, <3>6, <3>7, <3>8, SafeSent
  <2>9. \A i \in Race!Items : Used(race, i) => Used(race', i) /\ (i \in race'.items[Owner(i)] => i \in race.items[Owner(i)])
    BY <2>1, <2>2, <2>3, ItemNames
  <2>10. HitsSafe(race')
    BY <2>1, <2>8, <2>9, HitsKept DEF ItemsOk
  <2>11. race'.relayed => race'.sent = Race!Windows
    BY <2>1 DEF ItemsOk, sent
  <2> QED
    BY <2>1, <2>4, <2>5, <2>6, <2>10, <2>11 DEF ItemsOk
<1>7. CASE v = Host
  <2> DEFINE c1 == [race.cars EXCEPT ![Host] = h]
             cars == [c1 EXCEPT ![Bot] = b]
  <2>1. race' = [[r EXCEPT !.cars[Host] = h] EXCEPT !.cars[Bot] = b]
    BY <1>7 DEF Race!storeCar
  <2> HIDE DEF h, b, r
  <2>2. race' = [race EXCEPT !.sent = sent, !.items = items, !.cars = cars, !.up = race.up]
    BY <1>1, <1>2, <2>1 DEF ItemState
  <2>3. h \in SUBSET Race!Items /\ b \in SUBSET Race!Items
    BY <1>1, <1>3, <1>5, <1>7
  <2>4. /\ cars \in [Race!Karts -> SUBSET Race!Items] /\ cars[Host] = h /\ cars[Bot] = b
        /\ \A x \in Race!Karts : x # Host /\ x # Bot => cars[x] = race.cars[x]
    BY <1>1, <2>3, ItemNames
  <2> HIDE DEF cars
  <2>5. \A x \in Race!Karts : Race!Win(x) # v => cars[x] = race.cars[x]
    BY <1>7, <2>4, ItemNames
  <2>6. \A x \in Race!Karts : Race!Win(x) = v => cars[x] \subseteq mine /\ \A j \in cars[x] : j[1] = x
    BY <1>5, <1>7, <2>4, ItemNames
  <2> QED
    BY <1>1, <1>6, <1>7, <2>2, <2>4, <2>5, <2>6
<1>8. CASE v # Host
  <2> DEFINE m == [t |-> "car", hid |-> <<v, 0>>, h |-> h]
             q == race.up[v]
             u == Append(q, m)
             up == [race.up EXCEPT ![v] = u]
  <2>1. race' = [r EXCEPT !.up[v] = Append(@, m)] /\ v \in Guests
    BY <1>8, ItemNames
  <2> HIDE DEF h, b, r
  <2>2. m \in Reports /\ m.t = "car" /\ m.h = h
    <3>1. v \in Race!Karts /\ h \in SUBSET Race!Items /\ <<v, 0>> \in Race!Karts \X Nat
      BY <1>1, <1>3, <1>5, ItemNames
    <3> QED
      BY <3>1 DEF Reports
  <2> HIDE DEF m
  <2>3. q \in Seq(Reports) /\ r.up = race.up
    BY <1>1, <1>2, <2>1 DEF ItemState
  <2> HIDE DEF q
  <2>4. u \in Seq(Reports) /\ Msgs(u) = Msgs(q) \cup {m}
    BY <2>2, <2>3, MsgsAppend
  <2>5. race' = [race EXCEPT !.sent = sent, !.items = items, !.cars = race.cars, !.up = up]
    BY <1>1, <1>2, <2>1, <2>3 DEF ItemState, q
  <2> HIDE DEF u
  <2>6. up \in [Guests -> Seq(Reports)] /\ up[v] = u /\ \A g \in Guests \ {v} : up[g] = race.up[g]
    BY <1>1, <2>1, <2>4
  <2> HIDE DEF up
  <2>7. Msgs(up[v]) = Msgs(race.up[v]) \cup {m}
    BY <2>4, <2>6 DEF q
  <2>8. \E x : /\ Msgs(up[v]) = Msgs(race.up[v]) \cup {x} /\ x.t = "car"
               /\ x.h \subseteq mine /\ \A j \in x.h : j[1] = v
    BY <1>5, <2>2, <2>7
  <2> DEFINE cars == race.cars
  <2>9. cars \in [Race!Karts -> SUBSET Race!Items] /\ \A x \in Race!Karts : Race!Win(x) # v => cars[x] = race.cars[x]
    BY <1>1
  <2>10. race' = [race EXCEPT !.sent = sent, !.items = items, !.cars = cars, !.up = up] /\ cars = race.cars
    BY <2>5
  <2> HIDE DEF cars
  <2> QED
    BY <1>6, <1>8, <2>6, <2>8, <2>9, <2>10
<1> QED
  BY <1>7, <1>8

-----------------------------------------------------------------------------
(* The host reads a report. *)
LEMMA SafeHeard ==
    ASSUME NEW r \in ItemState, NEW s, NEW w \in Race!Windows, NEW i \in Race!Items,
           Safe(r, w, i), Owner(i) # w, NEW g \in Guests, NEW m,
           s.cons = r.cons, s.seen = r.seen, s.items = r.items, s.down = r.down, s.relayed = r.relayed, s.sent = r.sent,
           Ups(r, g) = {m} \cup Ups(s, g), \A x \in Race!Windows \ {g} : Ups(s, x) = Ups(r, x),
           s.hostCons[i] = IF m.t = "hit" /\ m.hid = i THEN Linger ELSE r.hostCons[i],
           \A x \in Race!Karts : s.cars[x] = IF m.t = "car" /\ x = g THEN m.h ELSE r.cars[x]
    PROVE  Safe(s, w, i)
<1>1. /\ Linger \in Nat /\ Linger >= 3 /\ r.hostCons[i] \in Nat /\ s.hostCons[i] \in Nat /\ s.hostCons[i] >= r.hostCons[i]
      /\ Owner(i) \in Race!Windows /\ i[1] \in Race!Karts
  BY ItemTypes, ItemNames, ItemsAssumption
<1>2. Downs(s, w) = Downs(r, w) /\ Downs(s, Owner(i)) = Downs(r, Owner(i))
  BY DEF Downs
<1>3. i[1] = g <=> Owner(i) = g
  BY <1>1, ItemNames DEF Owner
<1>4. NotSent(r, i) => NotSent(s, i)
  BY <1>1 DEF NotSent
<1>5. ASSUME Gone(r, i) PROVE Gone(s, i)
  <2>1. i \notin s.cars[i[1]]
    <3>1. CASE m.t = "car" /\ i[1] = g
      <4>1. m \in Ups(r, Owner(i))
        BY <1>3, <3>1
      <4> QED
        BY <1>1, <1>5, <3>1, <4>1 DEF Gone, NotSent
    <3>2. CASE ~(m.t = "car" /\ i[1] = g)
      BY <1>1, <1>5, <3>2 DEF Gone
    <3> QED
      BY <3>1, <3>2
  <2> QED
    BY <1>4, <1>5, <2>1 DEF Gone
<1>6. CASE Reported(r, w, i)
  <2> PICK x \in Ups(r, w) : x.t = "hit" /\ x.hid = i
    BY <1>6 DEF Reported
  <2>1. CASE x \in Ups(s, w)
    BY <1>6, <2>1 DEF Safe, Reported
  <2>2. CASE x \notin Ups(s, w)
    <3>1. x = m
      BY <2>2
    <3>2. s.hostCons[i] >= Linger
      BY <1>1, <3>1
    <3> QED
      BY <1>6, <3>2 DEF Safe, Reported, Noted
  <2> QED
    BY <2>1, <2>2
<1>7. CASE Noted(r, w, i)
  BY <1>1, <1>7 DEF Safe, Noted
<1>8. CASE Spread(r, w, i)
  <2>1. s.hostCons[i] >= Linger - 1
    BY <1>1, <1>8 DEF Spread
  <2> QED
    BY <1>2, <1>8, <2>1 DEF Safe, Spread, IsTold
<1>9. CASE Dropped(r, w, i)
  <2>1. Owner(i) \in s.sent => i \notin s.items[Owner(i)]
    BY <1>9 DEF Dropped
  <2>2. Owner(i) \in s.sent => i \notin s.cars[i[1]] \/ \E x \in Ups(s, Owner(i)) : x.t = "car"
    <3> SUFFICES ASSUME Owner(i) \in s.sent
                 PROVE  i \notin s.cars[i[1]] \/ \E x \in Ups(s, Owner(i)) : x.t = "car"
      OBVIOUS
    <3>1. CASE m.t = "car" /\ i[1] = g
      <4>1. m \in Ups(r, Owner(i))
        BY <1>3, <3>1
      <4> QED
        BY <1>1, <1>9, <3>1, <4>1 DEF Dropped, NotSent
    <3>2. CASE ~(m.t = "car" /\ i[1] = g)
      <4>1. s.cars[i[1]] = r.cars[i[1]]
        BY <1>1, <3>2
      <4>2. \A x \in Ups(r, Owner(i)) : x.t = "car" => x \in Ups(s, Owner(i))
        BY <1>1, <1>3, <3>2
      <4> QED
        BY <1>9, <4>1, <4>2 DEF Dropped
    <3> QED
      BY <3>1, <3>2
  <2> QED
    BY <1>4, <1>9, <2>1, <2>2 DEF Safe, Dropped
<1>10. CASE Fading(r, w, i)
  BY <1>2, <1>5, <1>10 DEF Safe, Fading, NotRelayed
<1>11. CASE Unseen(r, w, i)
  BY <1>2, <1>5, <1>11 DEF Safe, Unseen, NotRelayed
<1> QED
  BY <1>6, <1>7, <1>8, <1>9, <1>10, <1>11 DEF Safe

LEMMA ItemHeard ==
    ASSUME ItemsOk(race), NEW g \in Guests, Race!onWire(g)
    PROVE  ItemsOk(race')
<1> DEFINE q == race.up[g]
           u == Tail(q)
           m == Head(q)
           up == [race.up EXCEPT ![g] = u]
           cars == IF m.t = "car" THEN [race.cars EXCEPT ![g] = m.h] ELSE race.cars
           hc == IF m.t = "hit" THEN [race.hostCons EXCEPT ![m.hid] = Linger] ELSE race.hostCons
           r == [race EXCEPT !.up[g] = u]
<1>1. /\ race \in ItemState /\ race.up \in [Guests -> Seq(Reports)] /\ q \in Seq(Reports) /\ q # <<>>
      /\ race.cars \in [Race!Karts -> SUBSET Race!Items] /\ race.hostCons \in [Race!Items -> 0..Linger]
      /\ g \in Race!Windows /\ g \in Race!Karts /\ g # Host /\ Linger \in 0..Linger
  BY ItemNames, ItemsAssumption DEF ItemsOk, ItemState, Race!onWire
<1>2. race' = IF m.t = "hit" THEN Race!noteHit(r, m.hid) ELSE Race!storeCar(r, g, m.h)
  BY DEF Race!onWire
<1>3. m \in Reports /\ u \in Seq(Reports) /\ Msgs(q) = {m} \cup Msgs(u)
  BY <1>1, MsgsRead
<1>4. m \in Msgs(race.up[g])
  BY <1>3
<1> HIDE DEF q, m, u
<1>5. m.t \in {"hit", "car"} /\ m.h \in SUBSET Race!Items /\ (m.t = "hit" => m.hid \in Race!Items) /\ \A j \in m.h : j[1] = g /\ Used(race, j)
  BY <1>3, <1>4 DEF Reports, ItemsOk, WireItems
<1>6. race' = [race EXCEPT !.up = up, !.cars = cars, !.hostCons = hc]
  <2>1. r = [race EXCEPT !.up = up] /\ r.cars = race.cars /\ r.hostCons = race.hostCons
    BY <1>1 DEF ItemState
  <2> HIDE DEF r, up
  <2>2. CASE m.t = "hit"
    <3>1. race' = [r EXCEPT !.hostCons[m.hid] = Linger]
      BY <1>2, <2>2 DEF Race!noteHit
    <3> QED
      BY <1>1, <2>1, <2>2, <3>1 DEF ItemState
  <2>3. CASE m.t = "car"
    <3>1. race' = [r EXCEPT !.cars[g] = m.h]
      BY <1>2, <2>3 DEF Race!storeCar
    <3> QED
      BY <1>1, <2>1, <2>3, <3>1 DEF ItemState
  <2> QED
    BY <1>5, <2>2, <2>3
<1>7. up \in [Guests -> Seq(Reports)] /\ up[g] = u /\ \A x \in Guests \ {g} : up[x] = race.up[x]
  BY <1>1, <1>3
<1>8. cars \in [Race!Karts -> SUBSET Race!Items] /\ \A x \in Race!Karts : cars[x] = IF m.t = "car" /\ x = g THEN m.h ELSE race.cars[x]
  BY <1>1, <1>5
<1>9. hc \in [Race!Items -> 0..Linger] /\ \A i \in Race!Items : hc[i] = IF m.t = "hit" /\ m.hid = i THEN Linger ELSE race.hostCons[i]
  BY <1>1, <1>5
<1> HIDE DEF up, cars, hc
<1>10. /\ race' \in ItemState /\ race'.seq = race.seq /\ race'.items = race.items /\ race'.seen = race.seen /\ race'.cons = race.cons
       /\ race'.hostCons = hc /\ race'.cars = cars /\ race'.up = up /\ race'.down = race.down
       /\ race'.sent = race.sent /\ race'.relayed = race.relayed /\ race'.hits = race.hits
  BY <1>1, <1>6, <1>7, <1>8, <1>9 DEF ItemState
<1>11. \A j : Used(race', j) <=> Used(race, j)
  BY <1>10 DEF Used
<1>12. OwnItems(race')
  BY <1>10, <1>11 DEF ItemsOk, OwnItems
<1>13. HostItems(race')
  BY <1>5, <1>8, <1>10, <1>11 DEF ItemsOk, HostItems
<1>14. Msgs(up[g]) \subseteq Msgs(race.up[g])
  BY <1>3, <1>7 DEF q
<1>15. WireItems(race')
  BY <1>7, <1>10, <1>11, <1>14 DEF ItemsOk, WireItems
<1>16. Ups(race, g) = {m} \cup Ups(race', g) /\ \A x \in Race!Windows \ {g} : Ups(race', x) = Ups(race, x)
  BY <1>1, <1>3, <1>7, <1>10, ItemNames DEF Ups, q
<1>17. ASSUME NEW w \in Race!Windows, NEW i \in Race!Items, Owner(i) # w, Safe(race, w, i)
       PROVE  Safe(race', w, i)
  <2>1. race'.hostCons[i] = IF m.t = "hit" /\ m.hid = i THEN Linger ELSE race.hostCons[i]
    BY <1>9, <1>10
  <2>2. \A x \in Race!Karts : race'.cars[x] = IF m.t = "car" /\ x = g THEN m.h ELSE race.cars[x]
    BY <1>8, <1>10
  <2> QED
    BY <1>1, <1>10, <1>16, <1>17, <2>1, <2>2, SafeHeard
<1>18. HitsSafe(race')
  BY <1>10, <1>11, <1>17, HitsKept DEF ItemsOk
<1> QED
  BY <1>10, <1>12, <1>13, <1>15, <1>18 DEF ItemsOk

-----------------------------------------------------------------------------
(* A window takes over what a relay says. *)
Takes(s, r, w, n, c, e) ==
    /\ s = [r EXCEPT !.cons = c, !.seen = e]
    /\ \A x \in Race!Windows \ {w} : c[x] = r.cons[x] /\ e[x] = r.seen[x]
    /\ \A i \in Race!Items : c[w][i] = IF i \in n.x THEN Linger ELSE r.cons[w][i]
    /\ \A i \in Race!Items : i \in e[w] <=> \E k \in Race!Karts : Race!Win(k) # w /\ i \in n.cars[k]

LEMMA ItemNet ==
    ASSUME NEW r \in ItemState, NEW w \in Race!Windows, NEW n \in Relays
    PROVE  \E c \in [Race!Windows -> [Race!Items -> 0..Linger]], e \in [Race!Windows -> SUBSET Race!Items] :
             Takes(Race!applyNet(r, w, n), r, w, n, c, e)
<1> DEFINE a == [i \in Race!Items |-> IF i \in n.x THEN Linger ELSE r.cons[w][i]]
           b == UNION {n.cars[k] : k \in {k \in Race!Karts : Race!Win(k) # w}}
           c == [r.cons EXCEPT ![w] = a]
           e == [r.seen EXCEPT ![w] = b]
<1>1. /\ r.cons \in [Race!Windows -> [Race!Items -> 0..Linger]] /\ r.seen \in [Race!Windows -> SUBSET Race!Items]
      /\ Linger \in 0..Linger /\ n.cars \in [Race!Karts -> SUBSET Race!Items]
  BY ItemsAssumption DEF ItemState, Relays
<1>2. Race!applyNet(r, w, n) = [r EXCEPT !.cons = c, !.seen = e]
  BY <1>1 DEF Race!applyNet, ItemState
<1>3. a \in [Race!Items -> 0..Linger] /\ \A i \in Race!Items : a[i] = IF i \in n.x THEN Linger ELSE r.cons[w][i]
  BY <1>1
<1>4. b \in SUBSET Race!Items /\ \A i \in Race!Items : i \in b <=> \E k \in Race!Karts : Race!Win(k) # w /\ i \in n.cars[k]
  BY <1>1
<1> HIDE DEF a, b
<1>5. c \in [Race!Windows -> [Race!Items -> 0..Linger]] /\ c[w] = a /\ \A x \in Race!Windows \ {w} : c[x] = r.cons[x]
  BY <1>1, <1>3
<1>6. e \in [Race!Windows -> SUBSET Race!Items] /\ e[w] = b /\ \A x \in Race!Windows \ {w} : e[x] = r.seen[x]
  BY <1>1, <1>4
<1> HIDE DEF c, e
<1>7. Takes(Race!applyNet(r, w, n), r, w, n, c, e)
  BY <1>2, <1>3, <1>4, <1>5, <1>6 DEF Takes
<1> QED
  BY <1>5, <1>6, <1>7

(* The host relays. *)
LEMMA SafeRelayed ==
    ASSUME NEW r \in ItemState, NEW s, NEW w \in Race!Windows, NEW i \in Race!Items,
           Safe(r, w, i), Owner(i) # w, NEW n,
           s.items = r.items, s.hostCons = r.hostCons, s.cars = r.cars, s.up = r.up, s.sent = r.sent, r.sent = Race!Windows,
           n.cars = r.cars, r.hostCons[i] > 0 => i \in n.x,
           \A x \in Race!Windows : Downs(s, x) = IF x = Host THEN {} ELSE Downs(r, x) \cup {n},
           \A x \in Race!Windows : s.cons[x][i] = IF x = Host /\ i \in n.x THEN Linger ELSE r.cons[x][i],
           \A x \in Race!Windows : x # Host => s.seen[x] = r.seen[x],
           i \in s.seen[Host] => Owner(i) # Host /\ i \in r.cars[i[1]]
    PROVE  Safe(s, w, i)
<1>1. /\ Linger \in Nat /\ Linger >= 3 /\ r.hostCons[i] \in Nat /\ Owner(i) \in Race!Windows /\ Linger >= Linger
      /\ \A x \in Race!Windows : r.cons[x][i] \in Nat /\ r.cons[x][i] <= Linger
  BY ItemTypes, ItemNames, ItemsAssumption
<1>2. \A x \in Race!Windows : s.cons[x][i] \in Nat /\ s.cons[x][i] >= r.cons[x][i]
  BY <1>1
<1>3. \A x : Ups(s, x) = Ups(r, x)
  BY DEF Ups
<1>4. ASSUME r.hostCons[i] > 0, NEW x \in Race!Windows PROVE IsTold(s, x, i)
  BY <1>1, <1>4 DEF IsTold
<1>5. Gone(r, i) => Gone(s, i)
  BY <1>3 DEF Gone, NotSent
<1>6. \A x \in Race!Windows : Gone(r, i) /\ NotRelayed(r, x, i) => NotRelayed(s, x, i)
  BY DEF Gone, NotRelayed
<1>7. CASE Reported(r, w, i)
  BY <1>1, <1>2, <1>3, <1>7 DEF Safe, Reported
<1>8. CASE Noted(r, w, i)
  BY <1>1, <1>2, <1>8 DEF Safe, Noted
<1>9. CASE Spread(r, w, i)
  <2>1. r.hostCons[i] > 0 /\ s.cons[w][i] >= Linger - 1
    BY <1>1, <1>2, <1>9 DEF Spread
  <2> QED
    BY <1>1, <1>4, <1>9, <2>1 DEF Safe, Spread
<1>10. CASE Dropped(r, w, i)
  <2>1. s.cons[w][i] >= Linger - 1 /\ s.cons[Owner(i)][i] >= Linger - 1
    BY <1>1, <1>2, <1>10 DEF Dropped
  <2> QED
    BY <1>3, <1>10, <2>1 DEF Safe, Dropped, NotSent
<1>11. CASE Fading(r, w, i)
  <2>1. s.cons[w][i] >= Linger - 2
    BY <1>1, <1>2, <1>11 DEF Fading
  <2>2. i \notin s.seen[w] \/ Downs(s, w) # {}
    BY <1>11 DEF Fading, Gone
  <2> QED
    BY <1>5, <1>6, <1>11, <2>1, <2>2 DEF Safe, Fading
<1>12. CASE Unseen(r, w, i)
  <2>1. i \notin s.seen[w]
    BY <1>12 DEF Unseen, Gone
  <2> QED
    BY <1>5, <1>6, <1>12, <2>1 DEF Safe, Unseen
<1> QED
  BY <1>7, <1>8, <1>9, <1>10, <1>11, <1>12 DEF Safe

LEMMA ItemRelayed ==
    ASSUME ItemsOk(race), Race!relay
    PROVE  ItemsOk(race')
<1> DEFINE n == Race!carsSnapshot
           down == [g \in Guests |-> Append(race.down[g], n)]
           yes == TRUE
           r == [race EXCEPT !.relayed = yes, !.down = down]
<1>1. /\ race \in ItemState /\ race.down \in [Guests -> Seq(Relays)] /\ Host \in Race!Windows /\ race.sent = Race!Windows
      /\ race.cars \in [Race!Karts -> SUBSET Race!Items]
  BY ItemNames DEF ItemsOk, ItemState, Race!relay
<1>2. n \in Relays /\ n.cars = race.cars /\ \A i \in Race!Items : i \in n.x <=> race.hostCons[i] > 0
  BY <1>1 DEF Race!carsSnapshot, Relays
<1>3. race' = Race!applyNet(r, Host, n)
  BY <1>1 DEF Race!relay, ItemState
<1> HIDE DEF n
<1>4. ASSUME NEW g \in Guests
      PROVE  down[g] \in Seq(Relays) /\ Msgs(down[g]) = Msgs(race.down[g]) \cup {n}
  <2>1. race.down[g] \in Seq(Relays) /\ down[g] = Append(race.down[g], n)
    BY <1>1
  <2> HIDE DEF down
  <2> QED
    BY <1>2, <2>1, MsgsAppend
<1>5. down \in [Guests -> Seq(Relays)]
  BY <1>4
<1>a. yes \in BOOLEAN
  OBVIOUS
<1> HIDE DEF down, yes
<1>6. /\ r \in ItemState /\ r.seq = race.seq /\ r.items = race.items /\ r.seen = race.seen /\ r.cons = race.cons
      /\ r.hostCons = race.hostCons /\ r.cars = race.cars /\ r.up = race.up /\ r.down = down
      /\ r.sent = race.sent /\ r.relayed = yes /\ r.hits = race.hits
  BY <1>1, <1>5, <1>a DEF ItemState
<1> HIDE DEF r
<1>b. PICK c \in [Race!Windows -> [Race!Items -> 0..Linger]], e \in [Race!Windows -> SUBSET Race!Items] :
             Takes(race', r, Host, n, c, e)
  BY <1>1, <1>2, <1>3, <1>6, ItemNet
<1>7. /\ race' = [r EXCEPT !.cons = c, !.seen = e]
      /\ \A x \in Race!Windows \ {Host} : c[x] = r.cons[x] /\ e[x] = r.seen[x]
      /\ \A i \in Race!Items : c[Host][i] = IF i \in n.x THEN Linger ELSE r.cons[Host][i]
      /\ \A i \in Race!Items : i \in e[Host] <=> \E k \in Race!Karts : Race!Win(k) # Host /\ i \in n.cars[k]
  BY <1>b DEF Takes
<1>8. /\ race' \in ItemState /\ race'.seq = race.seq /\ race'.items = race.items /\ race'.seen = e /\ race'.cons = c
      /\ race'.hostCons = race.hostCons /\ race'.cars = race.cars /\ race'.up = race.up /\ race'.down = down
      /\ race'.sent = race.sent /\ race'.relayed = yes /\ race'.hits = race.hits
  BY <1>6, <1>7 DEF ItemState
<1>9. \A j : Used(race', j) <=> Used(race, j)
  BY <1>8 DEF Used
<1>10. HostItems(race')
  BY <1>8, <1>9 DEF ItemsOk, HostItems
<1>11. ASSUME NEW i \in Race!Items, i \in e[Host]
       PROVE  Owner(i) # Host /\ i \in race.cars[i[1]] /\ Used(race, i)
  <2>1. PICK k \in Race!Karts : Race!Win(k) # Host /\ i \in race.cars[k]
    BY <1>2, <1>7, <1>11
  <2>2. i[1] = k /\ Used(race, i)
    BY <2>1 DEF ItemsOk, HostItems
  <2> QED
    BY <2>1, <2>2 DEF Owner
<1>12. OwnItems(race')
  <2>1. ASSUME NEW w \in Race!Windows, NEW i \in e[w]
        PROVE  Owner(i) # w /\ Used(race, i)
    <3>1. i \in Race!Items
      BY <1>7
    <3>2. CASE w = Host
      BY <1>11, <2>1, <3>1, <3>2
    <3>3. CASE w # Host
      BY <1>6, <1>7, <2>1, <3>3 DEF ItemsOk, OwnItems
    <3> QED
      BY <3>2, <3>3
  <2> QED
    BY <1>8, <1>9, <2>1 DEF ItemsOk, OwnItems
<1>13. WireItems(race')
  <2>1. ASSUME NEW g \in Guests, NEW m \in Msgs(down[g]), NEW k \in Race!Karts, NEW i \in m.cars[k]
        PROVE  i[1] = k /\ Used(race, i)
    <3>1. m \in Msgs(race.down[g]) \/ m = n
      BY <1>4, <2>1
    <3> QED
      BY <1>2, <2>1, <3>1 DEF ItemsOk, WireItems, HostItems
  <2> QED
    BY <1>8, <1>9, <2>1 DEF ItemsOk, WireItems
<1>14. ASSUME NEW w \in Race!Windows, NEW i \in Race!Items, Owner(i) # w, Safe(race, w, i)
       PROVE  Safe(race', w, i)
  <2>1. \A x \in Race!Windows : Downs(race', x) = IF x = Host THEN {} ELSE Downs(race, x) \cup {n}
    BY <1>4, <1>8, ItemNames DEF Downs
  <2>2. \A x \in Race!Windows : race'.cons[x][i] = IF x = Host /\ i \in n.x THEN Linger ELSE race.cons[x][i]
    BY <1>6, <1>7, <1>8
  <2>3. \A x \in Race!Windows : x # Host => race'.seen[x] = race.seen[x]
    BY <1>6, <1>7, <1>8
  <2>4. i \in race'.seen[Host] => Owner(i) # Host /\ i \in race.cars[i[1]]
    BY <1>8, <1>11
  <2>5. race.hostCons[i] > 0 => i \in n.x
    BY <1>2
  <2> QED
    BY <1>1, <1>2, <1>8, <1>14, <2>1, <2>2, <2>3, <2>4, <2>5, SafeRelayed
<1>15. HitsSafe(race')
  BY <1>8, <1>9, <1>14, HitsKept DEF ItemsOk
<1> QED
  BY <1>1, <1>8, <1>10, <1>12, <1>13, <1>15 DEF ItemsOk

(* A guest reads a relay. *)
Reads(s, r, g, m, i) ==
    /\ s.items = r.items /\ s.hostCons = r.hostCons /\ s.cars = r.cars /\ s.up = r.up
    /\ s.sent = r.sent /\ s.relayed = r.relayed
    /\ Downs(r, g) = {m} \cup Downs(s, g) /\ \A x \in Race!Windows \ {g} : Downs(s, x) = Downs(r, x)
    /\ \A x \in Race!Windows : s.cons[x][i] = IF x = g /\ i \in m.x THEN Linger ELSE r.cons[x][i]
    /\ \A x \in Race!Windows : x # g => s.seen[x] = r.seen[x]
    /\ i \in s.seen[g] => i \in m.cars[i[1]]

LEMMA SafeRead ==
    ASSUME NEW r \in ItemState, NEW s, NEW w \in Race!Windows, NEW i \in Race!Items,
           Safe(r, w, i), Owner(i) # w, NEW g \in Race!Windows, NEW m, Reads(s, r, g, m, i)
    PROVE  Safe(s, w, i)
<1>0. /\ s.items = r.items /\ s.hostCons = r.hostCons /\ s.cars = r.cars /\ s.up = r.up
      /\ s.sent = r.sent /\ s.relayed = r.relayed
      /\ Downs(r, g) = {m} \cup Downs(s, g) /\ \A x \in Race!Windows \ {g} : Downs(s, x) = Downs(r, x)
      /\ \A x \in Race!Windows : s.cons[x][i] = IF x = g /\ i \in m.x THEN Linger ELSE r.cons[x][i]
      /\ \A x \in Race!Windows : x # g => s.seen[x] = r.seen[x]
      /\ i \in s.seen[g] => i \in m.cars[i[1]]
  BY DEF Reads
<1> USE <1>0
<1>1. /\ Linger \in Nat /\ Linger >= 3 /\ Owner(i) \in Race!Windows /\ Linger >= Linger
      /\ \A x \in Race!Windows : r.cons[x][i] \in Nat /\ r.cons[x][i] <= Linger
  BY ItemTypes, ItemNames, ItemsAssumption
<1>2. \A x \in Race!Windows : s.cons[x][i] \in Nat /\ s.cons[x][i] >= r.cons[x][i]
  BY <1>1
<1>3. \A x : Ups(s, x) = Ups(r, x)
  BY DEF Ups
<1>4. ASSUME NEW x \in Race!Windows, IsTold(r, x, i) PROVE IsTold(s, x, i)
  <2>1. CASE r.cons[x][i] >= Linger
    BY <1>1, <1>2, <2>1 DEF IsTold
  <2>2. CASE \E y \in Downs(r, x) : i \in y.x
    <3> PICK y \in Downs(r, x) : i \in y.x
      BY <2>2
    <3>1. CASE y \in Downs(s, x)
      BY <3>1 DEF IsTold
    <3>2. CASE y \notin Downs(s, x)
      <4>1. x = g /\ y = m
        BY <3>2
      <4> QED
        BY <1>1, <4>1 DEF IsTold
    <3> QED
      BY <3>1, <3>2
  <2> QED
    BY <1>4, <2>1, <2>2 DEF IsTold
<1>5. Gone(r, i) => Gone(s, i)
  BY <1>3 DEF Gone, NotSent
<1>6. \A x \in Race!Windows : NotRelayed(r, x, i) => NotRelayed(s, x, i)
  BY DEF NotRelayed
<1>a. NotRelayed(r, w, i) => (w = g => i \notin s.seen[w]) /\ (w # g => s.seen[w] = r.seen[w] /\ Downs(s, w) = Downs(r, w))
  BY DEF NotRelayed
<1>7. CASE Reported(r, w, i)
  BY <1>1, <1>2, <1>3, <1>7 DEF Safe, Reported
<1>8. CASE Noted(r, w, i)
  BY <1>1, <1>2, <1>8 DEF Safe, Noted
<1>9. CASE Spread(r, w, i)
  <2>1. s.cons[w][i] >= Linger - 1
    BY <1>1, <1>2, <1>9 DEF Spread
  <2> QED
    BY <1>1, <1>4, <1>9, <2>1 DEF Safe, Spread
<1>10. CASE Dropped(r, w, i)
  <2>1. s.cons[w][i] >= Linger - 1 /\ s.cons[Owner(i)][i] >= Linger - 1
    BY <1>1, <1>2, <1>10 DEF Dropped
  <2> QED
    BY <1>3, <1>10, <2>1 DEF Safe, Dropped, NotSent
<1>11. CASE Fading(r, w, i)
  <2>1. s.cons[w][i] >= Linger - 2
    BY <1>1, <1>2, <1>11 DEF Fading
  <2>2. s.relayed => i \notin s.seen[w] \/ Downs(s, w) # {}
    BY <1>11, <1>a DEF Fading
  <2> QED
    BY <1>5, <1>6, <1>11, <2>1, <2>2 DEF Safe, Fading
<1>12. CASE Unseen(r, w, i)
  <2>1. i \notin s.seen[w]
    BY <1>12, <1>a DEF Unseen
  <2> QED
    BY <1>5, <1>6, <1>12, <2>1 DEF Safe, Unseen
<1> QED
  BY <1>7, <1>8, <1>9, <1>10, <1>11, <1>12 DEF Safe

LEMMA ItemRead ==
    ASSUME ItemsOk(race), NEW g \in Guests, Race!handleWire(g)
    PROVE  ItemsOk(race')
<1> DEFINE q == race.down[g]
           m == Head(q)
           u == Tail(q)
           down == [race.down EXCEPT ![g] = u]
           r == [race EXCEPT !.down[g] = u]
<1>1. /\ race \in ItemState /\ race.down \in [Guests -> Seq(Relays)] /\ q \in Seq(Relays) /\ q # <<>>
      /\ g \in Race!Windows /\ g # Host
  BY ItemNames DEF ItemsOk, ItemState, Race!handleWire
<1>2. race' = Race!applyNet(r, g, m)
  BY DEF Race!handleWire
<1>3. m \in Relays /\ u \in Seq(Relays) /\ Msgs(q) = {m} \cup Msgs(u)
  BY <1>1, MsgsRead
<1>4. m \in Msgs(race.down[g])
  BY <1>3
<1> HIDE DEF q, m, u
<1>5. \A k \in Race!Karts : \A i \in m.cars[k] : i[1] = k /\ Used(race, i)
  BY <1>4 DEF ItemsOk, WireItems
<1>6. down \in [Guests -> Seq(Relays)] /\ down[g] = u /\ (\A x \in Guests \ {g} : down[x] = race.down[x]) /\ r = [race EXCEPT !.down = down]
  BY <1>1, <1>3 DEF ItemState
<1> HIDE DEF down, r
<1>7. /\ r \in ItemState /\ r.seq = race.seq /\ r.items = race.items /\ r.seen = race.seen /\ r.cons = race.cons
      /\ r.hostCons = race.hostCons /\ r.cars = race.cars /\ r.up = race.up /\ r.down = down
      /\ r.sent = race.sent /\ r.relayed = race.relayed /\ r.hits = race.hits
  BY <1>1, <1>6 DEF ItemState
<1>b. PICK c \in [Race!Windows -> [Race!Items -> 0..Linger]], e \in [Race!Windows -> SUBSET Race!Items] :
             Takes(race', r, g, m, c, e)
  BY <1>1, <1>2, <1>3, <1>7, ItemNet
<1>8. /\ race' = [r EXCEPT !.cons = c, !.seen = e]
      /\ \A x \in Race!Windows \ {g} : c[x] = race.cons[x] /\ e[x] = race.seen[x]
      /\ \A i \in Race!Items : c[g][i] = IF i \in m.x THEN Linger ELSE race.cons[g][i]
      /\ \A i \in Race!Items : i \in e[g] <=> \E k \in Race!Karts : Race!Win(k) # g /\ i \in m.cars[k]
  BY <1>7, <1>b DEF Takes
<1>9. /\ race' \in ItemState /\ race'.seq = race.seq /\ race'.items = race.items /\ race'.seen = e /\ race'.cons = c
      /\ race'.hostCons = race.hostCons /\ race'.cars = race.cars /\ race'.up = race.up /\ race'.down = down
      /\ race'.sent = race.sent /\ race'.relayed = race.relayed /\ race'.hits = race.hits
  BY <1>7, <1>8 DEF ItemState
<1>10. \A j : Used(race', j) <=> Used(race, j)
  BY <1>9 DEF Used
<1>11. HostItems(race')
  BY <1>9, <1>10 DEF ItemsOk, HostItems
<1>12. ASSUME NEW i \in Race!Items, i \in e[g]
       PROVE  Owner(i) # g /\ i \in m.cars[i[1]] /\ Used(race, i)
  <2>1. PICK k \in Race!Karts : Race!Win(k) # g /\ i \in m.cars[k]
    BY <1>8, <1>12
  <2>2. i[1] = k /\ Used(race, i)
    BY <1>5, <2>1
  <2> QED
    BY <2>1, <2>2 DEF Owner
<1>13. OwnItems(race')
  <2>1. ASSUME NEW w \in Race!Windows, NEW i \in e[w]
        PROVE  Owner(i) # w /\ Used(race, i)
    <3>1. i \in Race!Items
      OBVIOUS
    <3>2. CASE w = g
      BY <1>12, <2>1, <3>1, <3>2
    <3>3. CASE w # g
      BY <1>8, <2>1, <3>3 DEF ItemsOk, OwnItems
    <3> QED
      BY <3>2, <3>3
  <2>2. \A w \in Race!Windows : \A i \in race'.items[w] : Owner(i) = w /\ Used(race', i)
    BY <1>9, <1>10 DEF ItemsOk, OwnItems
  <2>3. \A w \in Race!Windows : \A i \in race'.seen[w] : Owner(i) # w /\ Used(race', i)
    BY <1>9, <1>10, <2>1
  <2> QED
    BY <2>2, <2>3 DEF OwnItems
<1>14. WireItems(race')
  <2>1. Msgs(down[g]) \subseteq Msgs(race.down[g])
    BY <1>3, <1>6 DEF q
  <2>2. race'.up = race.up /\ \A h \in Guests : Msgs(race'.down[h]) \subseteq Msgs(race.down[h])
    BY <1>6, <1>9, <2>1
  <2>3. \A h \in Guests : \A n \in Msgs(race.down[h]) : \A k \in Race!Karts : \A i \in n.cars[k] : i[1] = k /\ Used(race', i)
    BY <1>10 DEF ItemsOk, WireItems
  <2>4. \A h \in Guests : \A n \in Msgs(race.up[h]) : /\ n.t = "hit" => n.hid \in Race!Items
                                                     /\ \A i \in n.h : i[1] = h /\ Used(race', i)
    BY <1>10 DEF ItemsOk, WireItems
  <2> QED
    BY <2>2, <2>3, <2>4 DEF WireItems
<1>15. ASSUME NEW w \in Race!Windows, NEW i \in Race!Items, Owner(i) # w, Safe(race, w, i)
       PROVE  Safe(race', w, i)
  <2>1. Downs(race, g) = {m} \cup Downs(race', g) /\ \A x \in Race!Windows \ {g} : Downs(race', x) = Downs(race, x)
    BY <1>1, <1>3, <1>6, <1>9, ItemNames DEF Downs, q
  <2>2. \A x \in Race!Windows : race'.cons[x][i] = IF x = g /\ i \in m.x THEN Linger ELSE race.cons[x][i]
    BY <1>8, <1>9
  <2>3. \A x \in Race!Windows : x # g => race'.seen[x] = race.seen[x]
    BY <1>8, <1>9
  <2>4. i \in race'.seen[g] => i \in m.cars[i[1]]
    BY <1>9, <1>12
  <2>5. Reads(race', race, g, m, i)
    BY <1>9, <2>1, <2>2, <2>3, <2>4 DEF Reads
  <2> QED
    BY <1>1, <1>15, <2>5, SafeRead
<1>16. HitsSafe(race')
  BY <1>9, <1>10, <1>15, HitsKept DEF ItemsOk
<1> QED
  BY <1>9, <1>11, <1>13, <1>14, <1>16 DEF ItemsOk

(* A round ends: every window has sent, the wires are empty, and what is   *)
(* ignored is ignored for one round less.                                  *)
LEMMA SafeRound ==
    ASSUME NEW r \in ItemState, NEW s, NEW w \in Race!Windows, NEW i \in Race!Items,
           Safe(r, w, i), r.relayed, r.sent = Race!Windows,
           \A x \in Race!Windows : Ups(r, x) = {} /\ Ups(s, x) = {} /\ Downs(r, x) = {} /\ Downs(s, x) = {},
           s.items = r.items, s.cars = r.cars, s.seen = r.seen, s.sent = {}, s.relayed = FALSE,
           \A x \in Race!Windows : s.cons[x][i] >= r.cons[x][i] - 1 /\ s.cons[x][i] \in Nat,
           s.hostCons[i] >= r.hostCons[i] - 1, s.hostCons[i] \in Nat
    PROVE  Safe(s, w, i)
<1>1. /\ Linger \in Nat /\ Linger >= 3 /\ r.hostCons[i] \in Nat /\ Owner(i) \in Race!Windows
      /\ \A x \in Race!Windows : r.cons[x][i] \in Nat
  BY ItemTypes, ItemNames, ItemsAssumption
<1>2. \A a, b \in Nat : /\ (a >= Linger /\ b >= a - 1) => b >= Linger - 1
                        /\ (a >= Linger - 1 /\ b >= a - 1) => b >= Linger - 2
  BY <1>1
<1>3. \A x \in Race!Windows : ~IsTold(r, x, i) \/ s.cons[x][i] >= Linger - 1
  BY <1>1, <1>2 DEF IsTold
<1>4. NotSent(s, i) /\ NotRelayed(s, w, i)
  BY <1>1 DEF NotSent, NotRelayed
<1>5. Gone(r, i) => Gone(s, i)
  BY <1>4 DEF Gone
<1>6. CASE Reported(r, w, i)
  BY <1>6 DEF Reported
<1>7. CASE Noted(r, w, i)
  <2>1. s.cons[w][i] >= Linger - 1 /\ s.hostCons[i] >= Linger - 1
    BY <1>1, <1>2, <1>7 DEF Noted
  <2> QED
    BY <2>1 DEF Safe, Spread
<1>8. CASE Spread(r, w, i)
  <2>1. s.cons[w][i] >= Linger - 1 /\ s.cons[Owner(i)][i] >= Linger - 1
    BY <1>1, <1>3, <1>8 DEF Spread
  <2> QED
    BY <1>4, <2>1 DEF Safe, Dropped
<1>9. CASE Dropped(r, w, i)
  <2>1. s.cons[w][i] >= Linger - 2
    BY <1>1, <1>2, <1>9 DEF Dropped
  <2>2. Gone(s, i)
    BY <1>1, <1>4, <1>9 DEF Dropped, Gone
  <2> QED
    BY <1>4, <2>1, <2>2 DEF Safe, Fading
<1>10. CASE Fading(r, w, i)
  BY <1>4, <1>5, <1>10 DEF Safe, Fading, Unseen
<1>11. CASE Unseen(r, w, i)
  BY <1>4, <1>5, <1>11 DEF Safe, Unseen
<1> QED
  BY <1>6, <1>7, <1>8, <1>9, <1>10, <1>11 DEF Safe

LEMMA ItemRound ==
    ASSUME ItemsOk(race), Race!Round
    PROVE  ItemsOk(race')
<1> DEFINE c == [w \in Race!Windows |-> Race!Less(race.cons[w])]
           h == Race!Less(race.hostCons)
<1>1. /\ race \in ItemState /\ race.relayed /\ race.sent = Race!Windows
      /\ \A g \in Guests : race.up[g] = <<>> /\ race.down[g] = <<>>
  BY DEF ItemsOk, Race!Round
<1>2. /\ \A w \in Race!Windows, i \in Race!Items : race.cons[w][i] \in Nat /\ race.cons[w][i] <= Linger
      /\ \A i \in Race!Items : race.hostCons[i] \in Nat /\ race.hostCons[i] <= Linger
      /\ Linger \in Nat
  BY <1>1, ItemTypes, ItemsAssumption
<1>3. \A a \in Nat : a <= Linger => (IF a > 0 THEN a - 1 ELSE 0) \in 0..Linger
  BY <1>2
<1>4. \A a \in Nat : (IF a > 0 THEN a - 1 ELSE 0) \in Nat /\ (IF a > 0 THEN a - 1 ELSE 0) >= a - 1
  OBVIOUS
<1>5. /\ \A w \in Race!Windows, i \in Race!Items :
           c[w][i] = IF race.cons[w][i] > 0 THEN race.cons[w][i] - 1 ELSE 0
      /\ \A i \in Race!Items : h[i] = IF race.hostCons[i] > 0 THEN race.hostCons[i] - 1 ELSE 0
  BY DEF Race!Less
<1>6. c \in [Race!Windows -> [Race!Items -> 0..Linger]] /\ h \in [Race!Items -> 0..Linger]
  BY <1>2, <1>3 DEF Race!Less
<1>7. race' = [race EXCEPT !.cons = c, !.hostCons = h, !.sent = {}, !.relayed = FALSE]
  <2>1. race.cons \in [Race!Windows -> [Race!Items -> 0..Linger]]
    BY <1>1 DEF ItemState
  <2> QED
    BY <2>1 DEF Race!Round
<1> HIDE DEF c, h
<1>8. race' \in ItemState
  BY <1>1, <1>6, <1>7 DEF ItemState
<1>9. /\ race'.seq = race.seq /\ race'.items = race.items /\ race'.seen = race.seen /\ race'.cons = c /\ race'.hostCons = h
      /\ race'.cars = race.cars /\ race'.up = race.up /\ race'.down = race.down /\ race'.sent = {}
      /\ race'.relayed = FALSE /\ race'.hits = race.hits
  BY <1>1, <1>7 DEF ItemState
<1>10. \A j : Used(race', j) <=> Used(race, j)
  BY <1>9 DEF Used
<1>11. OwnItems(race') /\ HostItems(race') /\ WireItems(race')
  BY <1>9, <1>10 DEF ItemsOk, OwnItems, HostItems, WireItems
<1>12. ASSUME NEW w \in Race!Windows, NEW i \in Race!Items, Safe(race, w, i)
       PROVE  Safe(race', w, i)
  <2>1. \A x \in Race!Windows : c[x][i] >= race.cons[x][i] - 1 /\ c[x][i] \in Nat
    BY <1>2, <1>4, <1>5
  <2>2. h[i] >= race.hostCons[i] - 1 /\ h[i] \in Nat
    BY <1>2, <1>4, <1>5
  <2>3. \A x \in Race!Windows : /\ Ups(race, x) = {} /\ Ups(race', x) = {}
                                /\ Downs(race, x) = {} /\ Downs(race', x) = {}
    BY <1>1, <1>9, MsgsEmpty, ItemNames DEF Ups, Downs
  <2> QED
    BY <1>1, <1>9, <1>12, <2>1, <2>2, <2>3, SafeRound
<1>13. HitsSafe(race')
  BY <1>9, <1>10, <1>12, HitsKept DEF ItemsOk
<1> QED
  BY <1>8, <1>9, <1>11, <1>13 DEF ItemsOk

LEMMA ItemInit ==
    ASSUME Race!Init
    PROVE  ItemsOk(race)
<1>1. Linger \in Nat /\ 0 \in 0..Linger
  BY ItemsAssumption
<1>2. Race!Nothing \in [Race!Items -> 0..Linger] /\ Race!Nothing \in [Race!Items -> Nat] /\ \A i \in Race!Items : Race!Nothing[i] = 0
  BY <1>1 DEF Race!Nothing
<1>3. <<>> \in Seq(Reports) /\ <<>> \in Seq(Relays)
  BY EmptySeq
<1> DEFINE nothing == Race!Nothing
<1> HIDE DEF nothing
<1>4. race = [slot |-> [k \in Race!Karts |-> "empty"], seq |-> [w \in Race!Windows |-> 0],
              items |-> [w \in Race!Windows |-> {}], seen |-> [w \in Race!Windows |-> {}],
              cons |-> [w \in Race!Windows |-> nothing], hostCons |-> nothing,
              cars |-> [k \in Race!Karts |-> {}],
              up |-> [g \in Guests |-> <<>>], down |-> [g \in Guests |-> <<>>],
              sent |-> {}, relayed |-> FALSE, hits |-> [k \in Race!Karts |-> nothing]]
  BY DEF Race!Init, nothing
<1>5. nothing \in [Race!Items -> 0..Linger] /\ nothing \in [Race!Items -> Nat] /\ \A i \in Race!Items : nothing[i] = 0
  BY <1>2 DEF nothing
<1>6. race \in ItemState
  BY <1>3, <1>4, <1>5 DEF ItemState
<1>7. OwnItems(race) /\ HostItems(race)
  BY <1>4 DEF OwnItems, HostItems
<1>8. WireItems(race)
  BY <1>4, MsgsEmpty DEF WireItems
<1>9. HitsSafe(race)
  BY <1>4, <1>5 DEF HitsSafe
<1> QED
  BY <1>4, <1>6, <1>7, <1>8, <1>9 DEF ItemsOk

(* No kart spins twice on the same item: until no window shows the item    *)
(* any more, the window of the kart ignores it (checkHazardHits, and the   *)
(* host's relays of what was hit).                                         *)
THEOREM ItemsHitOnce ==
    ItemsSpec => []Race!HitOnce
<1>1. Race!Init => ItemsInv
  BY ItemInit DEF ItemsInv
<1>2. ItemsInv /\ [Race!Next]_race => ItemsInv'
  <2> SUFFICES ASSUME ItemsOk(race), [Race!Next]_race PROVE ItemsOk(race')
    BY DEF ItemsInv
  <2>1. CASE \E k \in Race!Karts : Race!Box(k) \/ Race!Rolled(k)
    BY <2>1, ItemBoxes
  <2>2. CASE \E k \in Race!Karts : Race!useItem(k)
    BY <2>2, ItemUses
  <2>3. CASE \E k \in Race!Karts, i \in Race!Items : Race!checkHazardHits(k, i)
    BY <2>3, ItemHits
  <2>4. CASE \E w \in Race!Windows : Race!sendNet(w)
    BY <2>4, ItemSent
  <2>5. CASE \E g \in Guests : Race!onWire(g)
    BY <2>5, ItemHeard
  <2>6. CASE \E g \in Guests : Race!handleWire(g)
    BY <2>6, ItemRead
  <2>7. CASE Race!relay
    BY <2>7, ItemRelayed
  <2>8. CASE Race!Round
    BY <2>8, ItemRound
  <2>9. CASE UNCHANGED race
    BY <2>9
  <2> QED
    BY <2>1, <2>2, <2>3, <2>4, <2>5, <2>6, <2>7, <2>8, <2>9 DEF Race!Next
<1>3. ItemsInv => Race!HitOnce
  <2> SUFFICES ASSUME ItemsOk(race), NEW k \in Race!Karts, NEW i \in Race!Items PROVE race.hits[k][i] <= 1
    BY DEF ItemsInv, Race!HitOnce
  <2>1. race.hits[k][i] = 0 \/ race.hits[k][i] = 1
    BY DEF ItemsOk, HitsSafe
  <2> QED
    BY <2>1
<1> QED
  BY <1>1, <1>2, <1>3, PTL DEF ItemsSpec

(* Kart race: a lap counted is a lap driven, the board shows who finished  *)
(* this race, and an item hits a kart once (KartGame, kart/ui.js, the      *)
(* host's kart/engine.js).                                                 *)
THEOREM KartIsHonest ==
    LapCountSpec /\ BoardSpec /\ ItemsSpec => []KartHonest
<1>1. LapCount!LapsEarned /\ Board!BoardTrue /\ Race!HitOnce => KartHonest
  BY DEF KartHonest
<1> QED
  BY <1>1, LapsAreEarned, BoardIsTrue, ItemsHitOnce, PTL
=============================================================================
