----------------------------- MODULE GroupChats -----------------------------
(***************************************************************************)
(* One group chat: group-chat.js (the group and its events), useGroupChats *)
(* (operations and outbox), groupInboundHandler and sendGroupChatMessage.  *)
(*                                                                         *)
(* There is no server: each peer keeps its own copy of the group, an event *)
(* goes to each receiver by itself and stays in the sender's outbox until  *)
(* the receiver's receipt.  The outbox is sent again at every connection   *)
(* and every 15 s, so entries arrive in any order, and more than once when *)
(* the receipt is lost.  An event that is rejected gets no receipt.        *)
(*                                                                         *)
(* net.grp[p] is p's copy (None: p does not know the group).  late: a      *)
(* leave met an update or an invitation that did not know of it.           *)
(***************************************************************************)
EXTENDS Integers, FiniteSets

CONSTANTS Peers, Creator, None
CONSTANTS MaxOps, MaxLost               \* bounds: operations of the users, receipts lost
VARIABLE net

isActiveGroupMember(g, p) == g.mem[p] = "active"
isGroupAdmin(g, p) == isActiveGroupMember(g, p) /\ p \in g.adm
groupPeerIds(g, p, states) == {q \in Peers \ {p} : g.mem[q] \in states}
(* The creator is an admin whatever a copy says.                           *)
normalizeGroup(g) == [g EXCEPT !.adm = @ \cup {Creator}, !.mem[Creator] = IF @ = "invited" THEN "active" ELSE @]
With(g, p, state) == normalizeGroup([g EXCEPT !.rev = @ + 1, !.mem[p] = state])

(* Events.  What is in one tells it from every other, as its eventId does: *)
(* rev is the revision its sender knew, n the number of a message.         *)
Event(s, action, p, g) ==
    [action |-> action, actor |-> p, group |-> g, rev |-> s.grp[p].rev, told |-> s.told[p],
     n |-> IF action \in {"message", "edit"} THEN s.ops + 1 ELSE 0]
sendGroupPacket(s, p, e, to) == [s EXCEPT !.outbox[p] = @ \cup {[to |-> q, e |-> e] : q \in to}]
replaceGroup(s, p, g) == [s EXCEPT !.grp[p] = g]

(* applyGroupEvent: [ok, group, and what is to be done with it].           *)
Refuse == [ok |-> FALSE, group |-> None, accept |-> FALSE, tell |-> FALSE]
Take(g, accept, tell) == [ok |-> TRUE, group |-> g, accept |-> accept, tell |-> tell]
applyInvite(g, e, self) ==
    IF ~isGroupAdmin(e.group, e.actor) \/ (g # None /\ ~isGroupAdmin(g, e.actor)) THEN Refuse
    ELSE IF g # None /\ e.group.rev <= g.rev THEN Take(g, FALSE, FALSE)
    ELSE IF e.group.mem[self] \notin {"invited", "active"} THEN Refuse
    ELSE Take(e.group, e.group.mem[self] # "active", FALSE)
(* Mutant: the revision is not compared.                                   *)
applyUpdateAnyRevision(g, e) == IF ~isGroupAdmin(g, e.actor) THEN Refuse ELSE Take(e.group, FALSE, FALSE)
applyUpdate(g, e) ==
    IF ~isGroupAdmin(g, e.actor) THEN Refuse
    ELSE IF e.group.rev <= g.rev THEN Take(g, FALSE, FALSE)
    ELSE Take(e.group, FALSE, FALSE)
withAcceptedMember(g, p) == With(g, p, "active")
withDepartedMember(g, p) == With(g, p, "left")
applyAccept(g, e, self) ==
    IF ~isGroupAdmin(g, self) \/ g.mem[e.actor] \notin {"invited", "active"} THEN Refuse
    ELSE IF g.mem[e.actor] = "active" THEN Take(g, FALSE, FALSE)
    ELSE Take(withAcceptedMember(g, e.actor), FALSE, TRUE)
applyLeave(g, e, self) ==
    IF ~isGroupAdmin(g, self) \/ ~isActiveGroupMember(g, e.actor) THEN Refuse
    ELSE Take(withDepartedMember(g, e.actor), FALSE, TRUE)
applyGroupEvent(g, e, self) ==
    CASE e.action = "invite" -> applyInvite(g, e, self)
      [] g = None -> Refuse
      [] e.action = "accept" -> applyAccept(g, e, self)
      [] e.action = "update" -> applyUpdate(g, e)
      [] e.action = "leave" -> applyLeave(g, e, self)

(* handleGroupProtocolFrame, the part for events: q has entry x of p.      *)
(* The receipt removes it, or is lost; known keeps the events of which     *)
(* another copy may come.                                                  *)
Receipt(s, p, x, lost) == IF lost THEN s ELSE [s EXCEPT !.outbox[p] = @ \ {x}]
handleGroupEvent(p, x, lost) ==
    LET q == x.to
        r == applyGroupEvent(net.grp[q], x.e, q)
        s == Receipt([replaceGroup(net, q, r.group) EXCEPT
                        !.known[q] = IF lost THEN @ \cup {x.e} ELSE @,
                        !.told[q] = IF x.e.action = "invite" /\ r.accept THEN x.e.group.rev ELSE @,
                        !.late = \/ @
                                 \/ x.e.action = "leave" /\ x.e.told # net.told[p]
                                 \/ x.e.action = "update" /\ net.grp[q].mem[q] = "left" /\ r.group.mem[q] = "active"], p, x, lost)
    IN  IF x.e \in net.known[q] THEN Receipt([net EXCEPT !.known[q] = IF lost THEN @ ELSE @ \ {x.e}], p, x, lost)
        ELSE IF ~r.ok THEN net
        ELSE IF r.accept THEN sendGroupPacket(s, q, Event(s, "accept", q, None), {x.e.actor})
        ELSE IF r.tell THEN sendGroupPacket(s, q, Event(s, "update", q, r.group), groupPeerIds(r.group, q, {"active", "invited"}))
        ELSE s

(* A message: validateIncomingGroupMessage, then the receipt and append.   *)
(* The list of payloads it lets through has no message-edit, so the branch *)
(* behind it that would apply an edit (patched) is not reached.            *)
Between(g, p, q) == g # None /\ isActiveGroupMember(g, p) /\ isActiveGroupMember(g, q)
validateIncomingGroupMessage(g, e, p, q) == Between(g, p, q) /\ e.action = "message"
handleGroupMessage(p, x, lost) ==
    LET s == IF x.e.action = "edit" /\ Between(net.grp[x.to], p, x.to) THEN [net EXCEPT !.reached = @ \cup {[n |-> x.e.n, at |-> x.to]}] ELSE net
    IN  IF ~validateIncomingGroupMessage(net.grp[x.to], x.e, p, x.to) THEN s
        ELSE IF x.e.action = "edit" THEN [s EXCEPT !.patched = @ \cup {[n |-> x.e.n, at |-> x.to]}]
        ELSE Receipt([s EXCEPT !.got[x.to] = @ \cup {x.e.n}], p, x, lost)

(* flushGroupOutbox: an entry is sent, with a session that can be read.    *)
flushGroupOutbox(p, x) ==
    \E lost \in (IF net.losses < MaxLost THEN BOOLEAN ELSE {FALSE}) :
       net' = LET s == IF x.e.action \in {"message", "edit"} THEN handleGroupMessage(p, x, lost) ELSE handleGroupEvent(p, x, lost)
              IN  IF lost THEN [s EXCEPT !.losses = @ + 1] ELSE s

(* What the users do.  updateGroupChat: another name, a member more or     *)
(* less; those who are new get an invitation, the others the update.       *)
Op == net.ops < MaxOps
Did(s) == [s EXCEPT !.ops = @ + 1]
Publish(s, p, old, g, fresh, also) ==
    LET t == sendGroupPacket(replaceGroup(s, p, g), p, Event(s, "update", p, g),
                             ((groupPeerIds(old, p, {"active", "invited"}) \cup also) \ fresh) \ {p})
    IN  sendGroupPacket(t, p, Event(t, "invite", p, g), fresh)
updateGroupChat(p) ==
    /\ Op /\ net.grp[p] # None /\ isGroupAdmin(net.grp[p], p)
    /\ LET g == net.grp[p]
       IN  \/ net' = Did(Publish(net, p, g, normalizeGroup([g EXCEPT !.rev = @ + 1, !.name = <<p, g.rev>>]), {}, {}))
           \/ \E q \in Peers \ {p} :
                \/ g.mem[q] \in {"invited", "active"} /\ net' = Did(Publish(net, p, g, With(g, q, "removed"), {}, {q}))
                \/ /\ g.mem[q] \notin {"invited", "active"}
                   /\ net' = Did(Publish(net, p, g, With([g EXCEPT !.adm = @ \ {q}], q, "invited"), {q}, {}))
(* The last admin who leaves names another active member.                  *)
leaveGroupChat(p, s) ==
    LET g == s.grp[p]
        others == groupPeerIds(g, p, {"active"})
        heir == IF \E q \in others : q \in g.adm THEN {} ELSE IF others = {} THEN {} ELSE {CHOOSE q \in others : TRUE}
        h == [With(g, p, "left") EXCEPT !.adm = @ \cup heir]
        admins == {q \in Peers : isGroupAdmin(g, q)}
    IN  IF isGroupAdmin(g, p)
        THEN sendGroupPacket(replaceGroup(s, p, h), p, Event(s, "update", p, h), others)
        ELSE sendGroupPacket(replaceGroup(s, p, With(g, p, "left")), p, Event(s, "leave", p, None), admins)
Leave(p) == /\ Op /\ net.grp[p] # None /\ isActiveGroupMember(net.grp[p], p)
            /\ net' = Did(leaveGroupChat(p, net))
(* Leaving and forgetting the group, with what the outbox holds of it; the *)
(* first try to send the leave may still get through (through).            *)
deleteGroupChat(p) ==
    /\ Op /\ net.grp[p] # None
    /\ LET s == IF isActiveGroupMember(net.grp[p], p) THEN leaveGroupChat(p, net) ELSE net
       IN  \E through \in SUBSET (s.outbox[p] \ net.outbox[p]) :
             net' = Did([s EXCEPT !.grp[p] = None, !.outbox[p] = through, !.gone = @ \cup {p}])
sendGroupChatMessage(p) ==
    /\ Op /\ net.grp[p] # None /\ isActiveGroupMember(net.grp[p], p)
    /\ LET to == groupPeerIds(net.grp[p], p, {"active"})
           s == sendGroupPacket(net, p, Event(net, "message", p, None), to)
       IN  to # {} /\ net' = Did([s EXCEPT !.sent = @ \cup {[n |-> s.ops + 1, to |-> to]}, !.wrote = @ \cup {p}])
(* sendMessageEdit for a message of one's own, as a control packet.        *)
sendMessageEdit(p) ==
    /\ Op /\ net.grp[p] # None /\ isActiveGroupMember(net.grp[p], p) /\ p \in net.wrote
    /\ net' = Did(sendGroupPacket(net, p, Event(net, "edit", p, None), groupPeerIds(net.grp[p], p, {"active"})))

(* createGroupChat: some of the contacts are invited.                      *)
createGroupChat(chosen) ==
    LET g == normalizeGroup([rev |-> 1, name |-> <<Creator, 0>>, adm |-> {},
                             mem |-> [p \in Peers |-> IF p = Creator THEN "active" ELSE IF p \in chosen THEN "invited" ELSE "none"]])
        s == [grp |-> [p \in Peers |-> IF p = Creator THEN g ELSE None], outbox |-> [p \in Peers |-> {}],
              known |-> [p \in Peers |-> {}], got |-> [p \in Peers |-> {}], sent |-> {}, told |-> [p \in Peers |-> 0],
              late |-> FALSE, gone |-> {}, ops |-> 0, losses |-> 0, wrote |-> {},
              reached |-> {}, patched |-> {}]
    IN  sendGroupPacket(s, Creator, Event(s, "invite", Creator, g), chosen)

Init == \E chosen \in SUBSET (Peers \ {Creator}) : chosen # {} /\ net = createGroupChat(chosen)
Next == \E p \in Peers : \/ \E x \in net.outbox[p] : flushGroupOutbox(p, x)
                         \/ updateGroupChat(p) \/ Leave(p) \/ deleteGroupChat(p) \/ sendGroupChatMessage(p) \/ sendMessageEdit(p)

(***************************************************************************)
(* Properties.                                                             *)
(***************************************************************************)
Admins == {p \in Peers : net.grp[p] # None /\ isGroupAdmin(net.grp[p], p)}
(* When nothing is left in any outbox, the group is the same for all: each *)
(* one the admin counts as active has exactly the admin's copy, each one   *)
(* who counts itself as active is so for the admin, and every message was  *)
(* stored by all it was sent to.  Whatever the order in which invitations, *)
(* updates and leaves arrived, and however often.  It is not so for two    *)
(* admins at a time, whose revisions collide; for a peer that deleted the  *)
(* chat, which withdraws its leave; and after an update that did not know  *)
(* of a leave reached the one who had left, or a leave the admin who had   *)
(* invited its sender again.                                               *)
GroupsAgree ==
    (\A p \in Peers : net.outbox[p] = {}) /\ ~net.late /\ net.gone = {} =>
        /\ \A m \in net.sent : \A q \in m.to : m.n \in net.got[q]
        /\ \A a \in Admins : Admins = {a} =>
             \A p \in Peers :
                isActiveGroupMember(net.grp[a], p) \/ (net.grp[p] # None /\ isActiveGroupMember(net.grp[p], p))
                   => net.grp[p] = net.grp[a]

(* An edit of a group message that reaches an active member who knows its  *)
(* sender as one changes the member's copy of the message: the receiver    *)
(* "patched die gespeicherte Nachricht" (docs/CHAT.md), in groups too.     *)
GroupEditsArrive ==
    net.reached \subseteq net.patched
=============================================================================
