----------------------------- MODULE VoiceNotes -----------------------------
(***************************************************************************)
(* Voice messages: useVoiceRecorder.js with sendVoice of Composer.jsx, and *)
(* the players of VoicePlayer.jsx with playbackController.js.              *)
(*                                                                         *)
(* The recorder: phase, preview (the recording shown, 0 if none), media    *)
(* and recorder are its state and refs; asked counts the unanswered calls  *)
(* of getUserMedia, open the microphone streams that run; stopping are the *)
(* recorders whose onstop is awaited, reading the recordings that          *)
(* sendVoice reads.  A recording has the number of its stream, and so has  *)
(* its object URL; revoked are the URLs that are dead.                     *)
(* The players: mounted ones are on the screen, playing is their state,    *)
(* sounding are the audio elements that run, starting those whose play()   *)
(* has not answered, paused those whose pause event is to come.  current   *)
(* is the claim of playbackController.                                     *)
(***************************************************************************)
EXTENDS Naturals

CONSTANTS Players, None
CONSTANTS MaxStreams, MaxPlays          \* bounds: microphones asked for, presses of a player
VARIABLE note

cleanupCapture(s) == [s EXCEPT !.recorder = 0, !.media = 0, !.open = @ \ {s.media}]
discardPreview(s) == [s EXCEPT !.revoked = (@ \cup {s.preview}) \ {0}, !.preview = 0]
reset(s) == [discardPreview(cleanupCapture(s)) EXCEPT !.phase = "idle"]

\* Discard, Escape, another chat and the end of the composer.
Reset ==
  /\ note.phase # "idle" \/ note.asked > 0
  /\ note' = reset(note)

start ==
  /\ note.phase = "idle" /\ note.streams + note.asked < MaxStreams
  /\ note' = [discardPreview(note) EXCEPT !.asked = @ + 1]
MicAnswered(ok) ==
  /\ note.asked > 0
  /\ LET s == [note EXCEPT !.asked = @ - 1]
         id == s.streams + 1
     IN note' = IF ok THEN [s EXCEPT !.streams = id, !.media = id, !.recorder = id,
                                     !.open = @ \cup {id}, !.phase = "recording"]
                ELSE [cleanupCapture(s) EXCEPT !.phase = "idle"]

\* The button, or stopTimerRef after MAX_VOICE_MS.
stop ==
  /\ note.recorder # 0 /\ note.phase = "recording"
  /\ note' = [note EXCEPT !.stopping = @ \cup {note.recorder}]
StopDone(r, empty) ==
  /\ r \in note.stopping
  /\ LET s == cleanupCapture([note EXCEPT !.stopping = @ \ {r}])
     IN note' = IF empty THEN [s EXCEPT !.phase = "idle"]
                ELSE [s EXCEPT !.preview = r, !.phase = "preview"]

consumePreview(s) == [s EXCEPT !.preview = 0, !.phase = "idle"]
sendVoice ==
  /\ note.phase = "preview" /\ note.preview # 0
  /\ note' = [consumePreview(note) EXCEPT !.reading = @ \cup {note.preview}]
VoiceRead(n, ok) ==
  /\ n \in note.reading
  /\ LET s == [note EXCEPT !.reading = @ \ {n}]
     IN note' = IF ok THEN [s EXCEPT !.sent = @ \cup {n}]
                ELSE [s EXCEPT !.revoked = @ \cup {n}]

(* Mutant: a player that ends forgets who plays.                          *)
releaseVoicePlaybackAny(s, p) == [s EXCEPT !.current = None]
releaseVoicePlayback(s, p) == IF s.current = p THEN [s EXCEPT !.current = None] ELSE s
\* el.pause(): the element falls silent, its event comes later.
pause(s, p) ==
  [s EXCEPT !.sounding = @ \ {p}, !.playing = @ \ {p},
            !.paused = IF p \in s.sounding THEN @ \cup {p} ELSE @]
stopPlayer(s, p) == releaseVoicePlayback(pause(s, p), p)
claimVoicePlayback(s, p) ==
  LET freed == IF s.current \in {None, p} THEN s ELSE stopPlayer(s, s.current)
  IN [freed EXCEPT !.current = p]

toggle(p) ==
  /\ p \in note.mounted /\ note.plays < MaxPlays
  /\ LET s == [note EXCEPT !.plays = @ + 1]
     IN note' = IF p \in s.playing THEN stopPlayer(s, p)
                ELSE [claimVoicePlayback(s, p) EXCEPT !.sounding = @ \cup {p},
                                                      !.starting = @ \cup {p}]
\* play() answers: it fails if the element was paused meanwhile.
PlayAnswered(p) ==
  /\ p \in note.starting
  /\ note' = [note EXCEPT !.starting = @ \ {p},
                          !.playing = IF p \in note.sounding THEN @ \cup {p} ELSE @ \ {p}]
\* The pause event; a media key may also pause the element.
PauseEvent(p) ==
  /\ p \in note.paused
  /\ note' = [note EXCEPT !.paused = @ \ {p}, !.playing = @ \ {p}]
MediaKey(p) ==
  /\ p \in note.sounding
  /\ note' = [note EXCEPT !.sounding = @ \ {p}, !.paused = @ \cup {p}]
onEnded(p) ==
  /\ p \in note.sounding /\ p \notin note.starting
  /\ note' = releaseVoicePlayback([note EXCEPT !.sounding = @ \ {p}, !.playing = @ \ {p}], p)
Unmount(p) ==
  /\ p \in note.mounted
  /\ note' = [stopPlayer(note, p) EXCEPT !.mounted = @ \ {p}]
Mount(p) ==
  /\ p \notin note.mounted \cup note.starting \cup note.paused
  /\ note' = [note EXCEPT !.mounted = @ \cup {p}]

Init ==
  note = [phase |-> "idle", preview |-> 0, media |-> 0, recorder |-> 0, asked |-> 0, open |-> {},
          stopping |-> {}, reading |-> {}, streams |-> 0, revoked |-> {}, sent |-> {},
          mounted |-> Players, playing |-> {}, sounding |-> {}, starting |-> {}, paused |-> {},
          current |-> None, plays |-> 0]

Next ==
  \/ Reset \/ start \/ stop \/ sendVoice
  \/ \E ok \in BOOLEAN : MicAnswered(ok)
  \/ \E r \in note.stopping, empty \in BOOLEAN : StopDone(r, empty)
  \/ \E n \in note.reading, ok \in BOOLEAN : VoiceRead(n, ok)
  \/ \E p \in Players : \/ toggle(p) \/ PlayAnswered(p) \/ PauseEvent(p) \/ MediaKey(p)
                        \/ onEnded(p) \/ Unmount(p) \/ Mount(p)

NoteKept == note.sent \cap note.revoked = {}
OnePlays == \A p, q \in note.sounding : p = q

(* A voice message that was sent stays playable: no discard, new recording *)
(* or change of chat revokes the object URL that its message shows.  And   *)
(* at most one voice message sounds at a time, whatever the order in which *)
(* players start, end, are paused by a media key and leave the screen.     *)
NotesHonest == NoteKept /\ OnePlays
=============================================================================
