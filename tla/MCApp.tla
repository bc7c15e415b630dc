------------------------------- MODULE MCApp -------------------------------
(***************************************************************************)
(* The clients, one small instance of every component in one run: part     *)
(* names the component an execution is about, st is its state (unless it   *)
(* is one of the parts of Client, which have variables of their own).      *)
(***************************************************************************)
EXTENDS Client, Integers, Sequences

VARIABLES part, st

(* CallSignals: b and c are devices of one peer; or one device each.       *)
TwoDevices == [d \in {"a", "b", "c"} |-> IF d = "a" THEN "A" ELSE "B"]
OneDevice == [d \in {"a", "b"} |-> IF d = "a" THEN "A" ELSE "B"]

Document == INSTANCE SharedDocument WITH doc <- st, Guests <- {"a", "b"}, Host <- "h", Initial <- <<10>>,
                MaxOps <- 3, LogLimit <- 2, SeenLimit <- 3
Room == INSTANCE RealtimeRoom WITH net <- st, Guests <- {"a", "b"}, MaxPeers <- 2, MaxWire <- 1, MaxRooms <- 1
Calls == INSTANCE CallSignals WITH call <- st, Devices <- {"a", "b", "c"}, Owner <- TwoDevices, Ids <- 1..1,
                MaxWire <- 2, MaxCuts <- 0
CallAgain == INSTANCE CallSignals WITH call <- st, Devices <- {"a", "b"}, Owner <- OneDevice, Ids <- 1..2,
                MaxWire <- 2, MaxCuts <- 1
Voice == INSTANCE VoiceStream WITH voice <- st, MaxSeq <- 4, MaxQueued <- 2, MaxBehind <- 2, WantFill <- 1,
                Target <- 1, MaxRing <- 3, MaxLine <- 2
Video == INSTANCE VideoStream WITH pic <- st, Frags <- 2, MaxFrames <- 3, MaxStreams <- 2, MaxInFlight <- 2,
                MaxOpen <- 1, MaxWire <- 2
E2ee == INSTANCE E2eeSession WITH e2e <- st, Peers <- {"a", "b"}, MaxIds <- 2, MaxEvents <- 5
Groups == INSTANCE GroupChats WITH net <- st, Peers <- {"a", "b", "c"}, Creator <- "a", MaxOps <- 2, MaxLost <- 1
Actions == INSTANCE MessageActions WITH act <- st, Author <- "a", Reader <- "b", Emojis <- {"+"}, MaxEdits <- 2,
                MaxToggles <- 1, MaxWire <- 2
Web == INSTANCE WebSessions WITH web <- st, Low <- "a", High <- "b", MaxLegs <- 3, MaxEnds <- 2
Browser == INSTANCE WebTabs WITH tabs <- st, Tabs <- {"a", "b"}, MaxOps <- 5, MaxDrops <- 1
Plugins == INSTANCE PluginRuntime WITH plug <- st, Plugins <- {"uno", "other"}, Bundled <- {"uno"},
                Games <- {"uno"}, Callers <- {"a"}, MaxRecords <- 6, MaxChanges <- 2
Lobby == INSTANCE GamePresence WITH lobby <- st, Games <- {"uno", "chess"}, StaleAfter <- 1, MaxTables <- 2,
                MaxWire <- 2, MaxCuts <- 1
Compose == INSTANCE Composer WITH box <- st, Chats <- {"a", "b"}, First <- "a", MaxEvents <- 3, MaxFiles <- 2
Store == INSTANCE WebStore WITH web <- st, Tabs <- {"a", "b"}, Ids <- {1}, MaxCalls <- 3, MaxReloads <- 1
Account == INSTANCE AccountSession WITH acc <- st, Identities <- {"i", "j"}, Own <- "i", Nobody <- "nobody",
                MaxJobs <- 2, MaxPanels <- 2, MaxRestarts <- 1
App == INSTANCE AppState WITH app <- st, Peers <- {"p"}, MaxChanges <- 2, MaxSyncs <- 1, MaxRestarts <- 1
Sticker == INSTANCE Stickers WITH sticker <- st, Stickers <- 1..2, Size <- <<1, 2>>, Packs <- {"p"},
                DEFAULT_PACK_ID <- "default", MAX_STICKER_STORAGE_BYTES <- 3, MAX_STICKER_PACKS <- 2,
                MAX_STICKERS_PER_PACK <- 2, MAX_RECENT <- 1, MaxOps <- 4, MaxJobs <- 2

Init ==
    /\ Media!Init /\ Notes!Init /\ Chat!Init /\ Channel!Init
    /\ \/ part = "doc" /\ Document!Init
       \/ part = "room" /\ Room!Init
       \/ part = "calls" /\ Calls!Init
       \/ part = "calls2" /\ CallAgain!Init
       \/ part = "voice" /\ Voice!Init
       \/ part = "video" /\ Video!Init
       \/ part = "e2ee" /\ E2ee!Init
       \/ part = "groups" /\ Groups!Init
       \/ part = "actions" /\ Actions!Init
       \/ part = "web" /\ Web!Init
       \/ part = "tabs" /\ Browser!Init
       \/ part = "plugins" /\ Plugins!Init
       \/ part = "lobby" /\ Lobby!Init
       \/ part = "composer" /\ Compose!Init
       \/ part = "store" /\ Store!Init
       \/ part = "account" /\ Account!Init
       \/ part = "app" /\ App!Init
       \/ part = "stickers" /\ Sticker!Init
       \/ part \in {"media", "notes", "chat", "channel"} /\ st = None
DocumentNext == part = "doc" /\ Document!Next /\ UNCHANGED <<part, client>>
RoomNext == part = "room" /\ Room!Next /\ UNCHANGED <<part, client>>
CallsNext == part = "calls" /\ Calls!Next /\ UNCHANGED <<part, client>>
CallAgainNext == part = "calls2" /\ CallAgain!Next /\ UNCHANGED <<part, client>>
MediaNext == part = "media" /\ Media!Next /\ UNCHANGED <<part, st, note, chat, chan>>
VoiceNext == part = "voice" /\ Voice!Next /\ UNCHANGED <<part, client>>
VideoNext == part = "video" /\ Video!Next /\ UNCHANGED <<part, client>>
E2eeNext == part = "e2ee" /\ E2ee!Next /\ UNCHANGED <<part, client>>
ChatNext == part = "chat" /\ Chat!Next /\ UNCHANGED <<part, st, av, note, chan>>
GroupsNext == part = "groups" /\ Groups!Next /\ UNCHANGED <<part, client>>
ActionsNext == part = "actions" /\ Actions!Next /\ UNCHANGED <<part, client>>
WebNext == part = "web" /\ Web!Next /\ UNCHANGED <<part, client>>
BrowserNext == part = "tabs" /\ Browser!Next /\ UNCHANGED <<part, client>>
PluginsNext == part = "plugins" /\ Plugins!Next /\ UNCHANGED <<part, client>>
LobbyNext == part = "lobby" /\ Lobby!Next /\ UNCHANGED <<part, client>>
ComposeNext == part = "composer" /\ Compose!Next /\ UNCHANGED <<part, client>>
NotesNext == part = "notes" /\ Notes!Next /\ UNCHANGED <<part, st, av, chat, chan>>
ChannelNext == part = "channel" /\ Channel!Next /\ UNCHANGED <<part, st, av, note, chat>>
StoreNext == part = "store" /\ Store!Next /\ UNCHANGED <<part, client>>
AccountNext == part = "account" /\ Account!Next /\ UNCHANGED <<part, client>>
AppNext == part = "app" /\ App!Next /\ UNCHANGED <<part, client>>
StickerNext == part = "stickers" /\ Sticker!Next /\ UNCHANGED <<part, client>>
Next == \/ DocumentNext \/ RoomNext \/ CallsNext \/ CallAgainNext \/ MediaNext \/ VoiceNext
        \/ VideoNext \/ E2eeNext \/ ChatNext \/ GroupsNext \/ ActionsNext \/ WebNext
        \/ BrowserNext \/ PluginsNext  \/ LobbyNext
        \/ ComposeNext \/ NotesNext \/ ChannelNext \/ StoreNext \/ AccountNext \/ AppNext
        \/ StickerNext

(* Shared document: every applied character is in the text once, between   *)
(* those it was typed between (plugin-document: applyOpAsHost, rebaseOp).  *)
DocumentKept == part = "doc" => Document!TextExact /\ Document!OrderKept
(* Realtime room: once the wires have arrived, the host counts as members  *)
(* exactly the guests that are in the room (plugin-realtime).              *)
MembersHonest == part = "room" => Room!MembersHonest
(* Calls: a caller's active call is active on the device that accepted it, *)
(* and whatever rings or talks has its timer (callState, CallManager).     *)
CallerHeard ==
    /\ part = "calls" => Calls!CallerHeard /\ Calls!CallSupervised
    /\ part = "calls2" => CallAgain!CallerHeard /\ CallAgain!CallSupervised
(* Calls: what is played counts up without a gap, and a picture is made of *)
(* the fragments of one frame (jitter buffer, video pipeline).             *)
MediaArrives ==
    /\ part = "voice" => Voice!VoiceFlows
    /\ part = "video" => Video!FrameWhole
(* E2EE: at rest both ends are ready with the same pair of keys, or one was*)
(* told that the other's key has changed (useE2ee, peerMessageHandler).    *)
E2eeAgrees == part = "e2ee" => E2ee!E2eeAgrees
(* Group chats: with all outboxes empty, the active members have the admin's*)
(* copy of the group and all messages sent to them (group-chat).           *)
GroupsAgree == part = "groups" => Groups!GroupsAgree
(* Chats: at rest the reader has the youngest edit that came and both ends *)
(* see the same reactions (applyInboundMessageEdit, toggleReaction).       *)
CopiesAgree == part = "actions" => Actions!CopiesAgree
(* Web: at rest both clients use the same session of two that crossed      *)
(* (webBridge: preferred leg).                                             *)
LegsAgree == part = "web" => Web!LegsAgree
(* Web: at rest the tab that claimed last is online, and no other shows it *)
(* (tabLock, relayClient).                                                 *)
NewestTabOnline == part = "tabs" => Browser!NewestTabOnline
(* Plugins: at rest exactly the enabled bundled plugins run, and no        *)
(* activation outlives its record (plugin runtime).                        *)
PluginsAsListed == part = "plugins" => Plugins!PluginsAsListed
(* Game presence: after a while without changes a contact is shown a lobby *)
(* exactly if the host has a table (gamePresence).                         *)
LobbiesTrue == part = "lobby" => Lobby!LobbiesTrue
(* Composer: a text goes to the chat it was typed in, a file goes once, and*)
(* only the peer of the open chat is told of typing (Composer.jsx).        *)
ComposerHonest == part = "composer" => Compose!SentWhereTyped /\ Compose!FileOnce /\ Compose!TypingTold
(* Web store: a message that was stored is there once, in the database every*)
(* tab would ask (idbStore).                                               *)
StoreKeeps == part = "store" => Store!StoreKeeps
(* The stored account is that of the device's identity unless its user     *)
(* agreed to the change (session.js); at rest the window shows the         *)
(* contacts and settings that are stored (useContactsAndSettings); stickers,*)
(* favourites and recent ones stay consistent (stickerStore).              *)
UserStateHonest ==
    /\ part = "account" => Account!KeptByConsent
    /\ part = "app" => App!ShownIsStored
    /\ part = "stickers" => Sticker!StickersKept
(* Group chats: an edit that reached an active member changed its copy of  *)
(* the message (docs/CHAT.md; validateIncomingGroupMessage).               *)
GroupEditsArrive == part = "groups" => Groups!GroupEditsArrive
(* Account: the vault of an account holds the identity of that account     *)
(* (ACCOUNTS.md; session.js changePassword).                               *)
VaultTrue == part = "account" => Account!VaultTrue
============================================================================
