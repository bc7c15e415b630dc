------------------------------- MODULE Client -------------------------------
(***************************************************************************)
(* Four parts of the clients side by side: the camera and microphone of a  *)
(* call, voice notes, chat messages with their receipts and retries, and   *)
(* the session of the web client in a tunnel.  They share no state, so     *)
(* each has its own variable and its own specification.                    *)
(***************************************************************************)
EXTENDS Naturals

CONSTANT None
CONSTANTS MaxCalls, MaxToggles, MaxTasks            \* CallMedia: bounds
CONSTANTS Players, MaxStreams, MaxPlays             \* VoiceNotes: the players on the page, bounds
CONSTANTS Ids, MaxWire, MaxCuts                     \* ChatDelivery: the messages, bounds
CONSTANTS Parts, MaxSends, MaxFaults                \* WebChannel: chunks of a frame, bounds

\* None is what plays when nothing does; a frame is sent in one chunk at least.
ASSUME ClientAssumption == None \notin Players /\ Parts \in Nat \ {0}

VARIABLES av, note, chat, chan
client == <<av, note, chat, chan>>

Media == INSTANCE CallMedia
Notes == INSTANCE VoiceNotes
Chat == INSTANCE ChatDelivery
Channel == INSTANCE WebChannel

MediaSpec == Media!Init /\ [][Media!Next]_av
NotesSpec == Notes!Init /\ [][Notes!Next]_note
ChatSpec == Chat!Init /\ [][Chat!Next]_chat
ChannelSpec == Channel!Init /\ [][Channel!Next]_chan

(* Calls: at rest, an open microphone or camera belongs to the running call*)
(* (CallManager: startMedia, stopMedia).                                   *)
MicReleased == Media!MicReleased
(* Voice notes: a note that was sent stays playable, and one player sounds *)
(* (useVoiceRecorder, voicePlayback).                                      *)
NotesHonest == Notes!NotesHonest
(* Chats: a message shown as sent or delivered is stored by the other end or*)
(* lies in its mailbox, or was refused (useMessaging).                     *)
DeliveredKept == Chat!DeliveredKept
(* Web tunnel: what one end hands on is a prefix of what the other end sent,*)
(* and an open session was completed by both (handshake, channel).         *)
ChannelHonest == Channel!ChannelHonest
=============================================================================
