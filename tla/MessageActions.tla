--------------------------- MODULE MessageActions ---------------------------
(***************************************************************************)
(* Edits of and reactions to one text message between two contacts:        *)
(* toggleMessageReaction, deleteMessage, sendMessageEdit at the sender,    *)
(* applyInboundChatEdit and the reaction branch of peerMessageHandler at   *)
(* the receiver.                                                           *)
(*                                                                         *)
(* The message is Author's, who may use a second device ("second") to edit *)
(* it.  An edit is its editedAt, a reaction a set of pairs [emoji, by].    *)
(* Both end in applyMessagePatch: the patch goes to the store at once and  *)
(* to the cache, from which the next one is computed, when the store has   *)
(* answered (patch).  Neither is repeated when it does not get through.    *)
(*                                                                         *)
(* raced: a patch was computed while one of the same kind from elsewhere   *)
(* was under way.  missed: a reaction met no message, or was lost.         *)
(***************************************************************************)
EXTENDS Integers, Sequences, FiniteSets

CONSTANTS Author, Reader, Emojis, None
CONSTANTS MaxEdits, MaxToggles, MaxWire     \* bounds
VARIABLE act

Pages == {Author, Reader}
Other(p) == IF p = Author THEN Reader ELSE Author
Room(x) == Len(act.wire[x]) < MaxWire

(* One emoji for each person.                                              *)
reactorHasEmoji(reactions, by, emoji) == [emoji |-> emoji, by |-> by] \in reactions
setReactorEmoji(reactions, emoji, by, active) ==
    {r \in reactions : r.by # by} \cup (IF active THEN {[emoji |-> emoji, by |-> by]} ELSE {})

(* An edit counts when it is younger than what the message shows.          *)
(* Mutant: whichever comes last counts.                                    *)
applyInboundMessageEditAny(text, editedAt) == TRUE
applyInboundMessageEdit(text, editedAt) == editedAt > text

applyMessagePatch(s, p, patch) ==
    [s EXCEPT !.patch[p] = Append(@, patch),
              !.raced = @ \cup {s.patch[p][i].kind : i \in {j \in DOMAIN s.patch[p] :
                                   s.patch[p][j].kind = patch.kind /\ s.patch[p][j].by # patch.by}}]
Patched(p) ==
    /\ act.patch[p] # <<>>
    /\ LET x == Head(act.patch[p])
           s == [act EXCEPT !.patch[p] = Tail(@)]
           t == CASE ~s.has[p] -> s
                  [] x.kind = "edit" -> [s EXCEPT !.text[p] = x.editedAt]
                  [] x.kind = "reaction" -> [s EXCEPT !.reactions[p] = x.reactions]
       IN  /\ x.send # None => Room(Other(p))
           /\ act' = IF x.send = None THEN t ELSE [t EXCEPT !.wire[Other(p)] = Append(@, x.send)]

(* A patch of the reactions, computed from the cache.                      *)
React(s, p, emoji, by, active, send) ==
    applyMessagePatch(s, p, [kind |-> "reaction", reactions |-> setReactorEmoji(s.reactions[p], emoji, by, active), by |-> by, send |-> send])
toggleMessageReaction(p, emoji) ==
    /\ act.has[p] /\ act.toggles < MaxToggles
    /\ LET active == ~reactorHasEmoji(act.reactions[p], p, emoji)
       IN  act' = React([act EXCEPT !.toggles = @ + 1], p, emoji, p, active,
                        [kind |-> "reaction", emoji |-> emoji, active |-> active])

(* sendMessageEdit: within the time allowed, of an own text that is still  *)
(* there; editedAt is the time, or past the last edit.  The second device  *)
(* has its own connection, whose wires may come later.                     *)
canEditOwnTextMessage == act.has[Author]
sendMessageEdit(second) ==
    /\ canEditOwnTextMessage /\ act.edits < MaxEdits
    /\ LET s == [act EXCEPT !.edits = @ + 1]
           wire == [kind |-> "edit", editedAt |-> s.edits]
       IN  IF second THEN Room("second") /\ act' = [s EXCEPT !.wire["second"] = Append(@, wire)]
           ELSE act' = applyMessagePatch(s, Author, [kind |-> "edit", editedAt |-> s.edits, by |-> Author, send |-> wire])

deleteMessage(p) ==
    act.has[p] /\ act' = [act EXCEPT !.has[p] = FALSE, !.missed = TRUE]

(* peerMessageHandler: an edit or a reaction for a message that is not     *)
(* there is dropped; nothing is appended for it.                           *)
applyInboundChatEdit(s, p, w, line) ==
    IF ~s.has[p] THEN s
    ELSE LET t == [s EXCEPT !.arrived = @ \cup {w.editedAt}]
         IN  IF applyInboundMessageEdit(s.text[p], w.editedAt)
             THEN applyMessagePatch(t, p, [kind |-> "edit", editedAt |-> w.editedAt, by |-> line, send |-> None])
             ELSE t
Receive(p, line) ==
    /\ act.wire[line] # <<>>
    /\ LET w == Head(act.wire[line])
           s == [act EXCEPT !.wire[line] = Tail(@)]
       IN  \/ w.kind = "edit" /\ act' = applyInboundChatEdit(s, p, w, line)
           \/ /\ w.kind = "reaction"
              /\ act' = IF s.has[p] THEN React(s, p, w.emoji, Other(p), w.active, None) ELSE [s EXCEPT !.missed = TRUE]
           \/ w.kind = "message" /\ act' = [s EXCEPT !.has[p] = TRUE]
(* There was no connection, or no session within 8 s.                      *)
Lost(line) ==
    /\ act.wire[line] # <<>> /\ Head(act.wire[line]).kind # "message"
    /\ act' = [act EXCEPT !.wire[line] = Tail(@), !.missed = @ \/ Head(act.wire[line]).kind = "reaction"]
(* The message itself may take another way than the wire: the mailbox.     *)
ByMail == ~act.mailed /\ act' = [act EXCEPT !.has[Reader] = TRUE, !.mailed = TRUE]

Init == \E mail \in BOOLEAN :
        act = [has |-> [p \in Pages |-> p = Author], mailed |-> ~mail, text |-> [p \in Pages |-> 0],
               reactions |-> [p \in Pages |-> {}], patch |-> [p \in Pages |-> <<>>],
               wire |-> [x \in Pages \cup {"second"} |-> IF x = Reader /\ ~mail THEN <<[kind |-> "message"]>> ELSE <<>>],
               arrived |-> {}, edits |-> 0, toggles |-> 0,
               raced |-> {}, missed |-> FALSE]
Next == \/ \E p \in Pages : \/ Patched(p) \/ deleteMessage(p) \/ Receive(p, p) \/ Lost(p)
                            \/ \E e \in Emojis : toggleMessageReaction(p, e)
        \/ \E second \in BOOLEAN : sendMessageEdit(second)
        \/ Receive(Reader, "second") \/ Lost("second") \/ ByMail

(***************************************************************************)
(* Properties.                                                             *)
(***************************************************************************)
(* When nothing is under way, the reader sees the youngest edit of those   *)
(* that reached the message, in whatever order they came, and both sides   *)
(* see the same reactions.  Except that a lost reaction, and an edit or a  *)
(* reaction that meets another one being stored, may leave them apart.     *)
CopiesAgree ==
    (\A p \in Pages : act.patch[p] = <<>>) /\ (\A x \in DOMAIN act.wire : act.wire[x] = <<>>) =>
        /\ act.has[Reader] /\ "edit" \notin act.raced => \A e \in act.arrived : act.text[Reader] >= e
        /\ act.missed \/ "reaction" \in act.raced \/ act.reactions[Author] = act.reactions[Reader]
=============================================================================
