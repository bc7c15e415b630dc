------------------------------ MODULE Composer ------------------------------
(***************************************************************************)
(* The input box of a chat: Composer.jsx with useComposerSend,             *)
(* useAttachments, useChatDrafts and the selection of Chats.jsx.           *)
(*                                                                         *)
(* A text is the set of its fragments <<chat, kind>>: "typed" into the box *)
(* of that chat, or the content of a "sent" message of it that is being    *)
(* edited.  chat, input, edit (the chat whose message is edited, or None), *)
(* drafts and off (composerDisabled) are what the next render shows; seen  *)
(* is what the effects ran for last.  An event of the user finds the       *)
(* effects of the one before done; timers and answers come at any time.    *)
(* skip, typing and typingPeer are refs; skips counts the zero timers that *)
(* will reset skip; save is what the persist timer will write to stored.   *)
(* file is the pending file, 0 if none, told whom the peers believe typing.*)
(***************************************************************************)
EXTENDS Naturals, Sequences, TLC

CONSTANTS Chats, First, None            \* First: the chat selected at the start
CONSTANTS MaxEvents, MaxFiles           \* bounds: events of the user, files chosen
VARIABLE box

Empty == [c \in Chats |-> {}]
Shown(s) == [chat |-> s.chat, input |-> s.input, edit |-> s.edit, draft |-> s.drafts[s.chat],
             off |-> s.off]
Settled(s) == s.seen = Shown(s)
User(s) == Settled(s) /\ s.events < MaxEvents
Count(s) == [s EXCEPT !.events = @ + 1]
contentOf(c) == {<<c, "sent">>}
setDraftInMap(drafts, c, text) == [drafts EXCEPT ![c] = text]

\* The persist timer is set anew: only the last map is written.
saveDraft(s, c, text) ==
  LET next == setDraftInMap(s.drafts, c, text) IN [s EXCEPT !.drafts = next, !.save = next]
sendTyping(s, c, active) == [s EXCEPT !.told[c] = active]
stopTyping(s) ==
  [IF s.typing THEN sendTyping(s, s.typingPeer, FALSE) ELSE s EXCEPT !.typing = FALSE]
\* Within TYPING_REFRESH_MS the second pulse is not sent; the peer believes the first.
pulseTyping(s) ==
  IF s.off THEN s ELSE sendTyping([s EXCEPT !.typing = TRUE, !.typingPeer = s.chat], s.chat, TRUE)

\* The effects, in the order React runs them for one commit: the child's before the page's.
typingEffect(s) ==
  LET gone == s.typingPeer # s.chat
      told == IF gone /\ s.typing THEN sendTyping(s, s.typingPeer, FALSE) ELSE s
  IN [told EXCEPT !.typing = @ /\ ~gone, !.typingPeer = s.chat]
disabledEffect(s) == IF s.off THEN stopTyping(s) ELSE s
setSkipped(s, text) == [s EXCEPT !.input = text, !.skip = TRUE, !.skips = @ + 1]
(* Mutant: the text put in for the new chat counts as typed.               *)
selectEffectUnskipped(s, now) ==
  IF now.chat = s.seen.chat THEN s
  ELSE [s EXCEPT !.input = IF now.edit # None THEN contentOf(now.edit) ELSE now.draft]
selectEffect(s, now) ==
  IF now.chat = s.seen.chat THEN s
  ELSE setSkipped(s, IF now.edit # None THEN contentOf(now.edit) ELSE now.draft)
editEffect(s, now) ==
  IF now.edit \in {None, s.seen.edit} THEN s ELSE setSkipped(s, contentOf(now.edit))
draftEffect(s, now) ==
  IF s.skip \/ now.edit # None
       \/ [now EXCEPT !.draft = s.seen.draft, !.off = s.seen.off] = s.seen THEN s
  ELSE saveDraft(s, now.chat, now.input)
restoreEffect(s, now) ==
  IF s.skip \/ now.edit # None \/ [now EXCEPT !.off = s.seen.off] = s.seen
       \/ now.draft = {} \/ now.input # {} THEN s
  ELSE setSkipped(s, now.draft)
pageEffect(s, now) == IF now.chat = s.seen.chat THEN s ELSE [s EXCEPT !.edit = None]

Commit ==
  /\ ~Settled(box)
  /\ LET now == Shown(box)
         s1 == disabledEffect(typingEffect(box))
         s2 == editEffect(selectEffect(s1, now), now)
         s3 == restoreEffect(draftEffect(s2, now), now)
     IN box' = [pageEffect(s3, now) EXCEPT !.seen = now]

\* onChange of the textarea.
Type ==
  /\ User(box) /\ ~box.off
  /\ box' = pulseTyping([Count(box) EXCEPT !.input = @ \cup {<<box.chat, "typed">>}])
Erase ==
  /\ User(box) /\ ~box.off /\ box.input # {}
  /\ box' = stopTyping([Count(box) EXCEPT !.input = {}])
handleSelectChat(c) ==
  /\ User(box) /\ c # box.chat
  /\ box' = [Count(box) EXCEPT !.chat = c]
handleStartEdit ==
  /\ User(box) /\ box.edit = None
  /\ box' = [Count(box) EXCEPT !.edit = box.chat]
CancelEdit ==
  /\ User(box) /\ box.edit # None
  /\ box' = [Count(box) EXCEPT !.edit = None, !.input = box.drafts[box.chat]]
Disable ==
  /\ box.events < MaxEvents
  /\ box' = [Count(box) EXCEPT !.off = ~@]

launching(s) == s.launch # 0
canSend(s) == ~s.sending /\ ~s.reading /\ ~launching(s) /\ ~s.off /\ (s.input # {} \/ s.file # 0)
clearInput(s) == [saveDraft(s, s.chat, {}) EXCEPT !.input = {}]
sendFile(s) ==
  IF s.file = 0 THEN s
  ELSE [s EXCEPT !.launch = s.file, !.fades = @ + 1, !.sending = TRUE,
                 !.files = Append(@, s.file)]
send(s) ==
  IF s.edit # None
  THEN IF s.input = {} THEN s
       ELSE [clearInput(s) EXCEPT !.edit = None, !.sent = @ \cup ({s.chat} \X s.input)]
  ELSE sendFile(IF s.input = {} THEN s
                ELSE [clearInput(s) EXCEPT !.sent = @ \cup ({s.chat} \X s.input)])
fireSend ==
  /\ User(box) /\ canSend(box)
  /\ box' = send(stopTyping(Count(box)))

queuePendingFile ==
  /\ Settled(box) /\ box.chosen < MaxFiles
  /\ ~box.off /\ ~box.reading /\ ~box.sending
  /\ box' = [box EXCEPT !.reading = TRUE, !.chosen = @ + 1]
FileRead(ok) ==
  /\ box.reading
  /\ box' = IF ok THEN [box EXCEPT !.reading = FALSE, !.file = box.chosen, !.launch = 0]
            ELSE [box EXCEPT !.reading = FALSE]
clearPendingFile ==
  /\ User(box) /\ box.file # 0 /\ ~box.sending /\ ~launching(box)
  /\ box' = [Count(box) EXCEPT !.file = 0]
\* 320 ms after a file was sent.
FadeTimer ==
  /\ box.fades > 0
  /\ box' = IF launching(box) THEN [box EXCEPT !.fades = @ - 1, !.file = 0, !.launch = 0]
            ELSE [box EXCEPT !.fades = @ - 1]
\* At once on a failure, 400 ms later on success.
FileAnswered ==
  /\ box.sending
  /\ box' = [box EXCEPT !.sending = FALSE]

SkipTimer ==
  /\ box.skips > 0
  /\ box' = [box EXCEPT !.skips = @ - 1, !.skip = FALSE]
TypingTimer ==
  /\ box.seen.input # {} /\ ~box.seen.off /\ box.seen.chat = box.chat
  /\ box' = pulseTyping(box)
SaveTimer ==
  /\ box.save # None
  /\ box' = [box EXCEPT !.stored = box.save, !.save = None]
\* The answer of store.get when the page opens: it replaces what was typed before.
Load ==
  /\ ~box.loaded
  /\ box' = [box EXCEPT !.loaded = TRUE, !.drafts = box.stored]

Init ==
  \E kept \in {Empty} \cup {[Empty EXCEPT ![c] = {<<c, "typed">>}] : c \in Chats} :
    LET s == [chat |-> First, input |-> {}, edit |-> None, drafts |-> Empty, off |-> FALSE,
              skip |-> FALSE, skips |-> 0, typing |-> FALSE, typingPeer |-> First,
              told |-> [c \in Chats |-> FALSE], stored |-> kept, save |-> None, loaded |-> FALSE,
              file |-> 0, launch |-> 0, fades |-> 0, reading |-> FALSE, sending |-> FALSE,
              chosen |-> 0, files |-> <<>>, sent |-> {}, events |-> 0]
    IN box = s @@ [seen |-> Shown(s)]

Next ==
  \/ Commit \/ Type \/ Erase \/ handleStartEdit \/ CancelEdit \/ Disable \/ fireSend
  \/ \E c \in Chats : handleSelectChat(c)
  \/ queuePendingFile \/ clearPendingFile \/ FadeTimer \/ FileAnswered
  \/ \E ok \in BOOLEAN : FileRead(ok)
  \/ SkipTimer \/ TypingTimer \/ SaveTimer \/ Load

(* What is typed in one chat is never sent to another, nor kept as the     *)
(* draft of another, although for one commit after a change of chat the    *)
(* box still holds the other chat's text (skipDraftSaveRef).               *)
SentWhereTyped ==
  /\ \A m \in box.sent : m[2][2] = "typed" => m[2][1] = m[1]
  /\ \A c \in Chats : \A f \in box.drafts[c] \cup box.stored[c] : f[2] = "typed" => f[1] = c

(* A chosen file is handed to sendMessage at most once, however the answer *)
(* of the first send, the timer that takes the file away and a second      *)
(* press of Enter follow one another (launching).                          *)
FileOnce == \A i, j \in DOMAIN box.files : box.files[i] = box.files[j] => i = j

(* Once the effects have run, only the peer of the chat that is open, and  *)
(* only while the box can be used, has been told that the user types.      *)
TypingTold == Settled(box) => \A c \in Chats : box.told[c] => c = box.chat /\ ~box.off
=============================================================================
