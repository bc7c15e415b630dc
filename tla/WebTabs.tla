------------------------------ MODULE WebTabs ------------------------------
(***************************************************************************)
(* The tabs of one browser profile, which share one device id: the loop of *)
(* RelayClient (runLoop, runSession), the claims of tabLock.js and the     *)
(* calls of webBridge/index.js that drive them.                            *)
(*                                                                         *)
(* A tab: loop is where runLoop is ("off": not started, "wait": for wake,  *)
(* "dial", "auth": the login is on its way, "login": the relay has it,     *)
(* "session", "sleep": for the backoff); shut: closeSocket was called and  *)
(* the close event is yet to come; wire holds what the relay has sent; on, *)
(* yielded, replaced and recon are config.enabled and the flags of the     *)
(* client, shown its status.                                               *)
(* claims[t] are the claims of other tabs on their way to t.  holder is    *)
(* the tab whose connection the relay has for the device.                  *)
(*                                                                         *)
(* last is the tab that claimed the device last; None if its claim crossed *)
(* another one, if the relay took a login that another tab had sent before *)
(* it heard of the claim, or if a tab changed its settings since.          *)
(***************************************************************************)
EXTENDS Naturals, Sequences

CONSTANTS Tabs, None
CONSTANTS MaxOps, MaxDrops              \* bounds: calls of the user, connections lost
VARIABLE tabs

Closed == [open |-> FALSE, loop |-> "off", shut |-> FALSE, wire |-> <<>>, on |-> TRUE,
           yielded |-> FALSE, replaced |-> FALSE, recon |-> FALSE, shown |-> "connecting"]
Connected == {"dial", "auth", "login", "session"}     \* runSession is under way
Put(s, t, r) == [s EXCEPT !.tab[t] = r]
Count(s) == [s EXCEPT !.ops = @ + 1]

(* The head of runLoop: what the client does next follows from its flags.  *)
runLoop(r) ==
    CASE ~r.on -> [r EXCEPT !.loop = "wait", !.shown = "disabled"]
      [] r.on /\ r.yielded -> [r EXCEPT !.loop = "wait", !.shown = "offline"]
      [] r.on /\ ~r.yielded /\ r.replaced -> [r EXCEPT !.loop = "wait", !.shown = "replaced"]
      [] OTHER -> [r EXCEPT !.loop = "dial", !.shown = "connecting", !.wire = <<>>, !.shut = FALSE]
wake(r) == IF r.loop \in {"wait", "sleep"} THEN runLoop(r) ELSE r
(* What the relay still sends to a socket that is closing is dropped.      *)
closeSocket(r) == IF r.loop \in Connected THEN [r EXCEPT !.shut = TRUE, !.wire = <<>>] ELSE r
start(r) == IF r.loop = "off" THEN runLoop(r) ELSE r

setConfig(r, on) ==
    wake(closeSocket([r EXCEPT !.on = on, !.replaced = FALSE, !.yielded = FALSE, !.recon = TRUE]))
(* Mutant: the client stays yielded.                                       *)
takeoverYielded(r) == wake(start(closeSocket([r EXCEPT !.replaced = FALSE, !.recon = TRUE])))
takeover(r) == wake(start(closeSocket([r EXCEPT !.replaced = FALSE, !.yielded = FALSE, !.recon = TRUE])))
yieldToOtherTab(r) ==
    wake([closeSocket([r EXCEPT !.yielded = TRUE, !.replaced = FALSE]) EXCEPT !.shown = "offline"])

(* tabLock.claim: the other tabs hear of it one by one.                    *)
claim(s, t) ==
    LET others == {u \in Tabs \ {t} : s.tab[u].open}
        crossed == \E u \in Tabs : s.claims[u] # <<>>
    IN  [s EXCEPT !.claims = [u \in Tabs |-> IF u \in others THEN Append(@[u], t) ELSE @[u]],
                  !.last = IF crossed THEN None ELSE t]

(* The end of a session that threw: why is the message of the error.       *)
EndSession(r, why) ==
    LET q == [r EXCEPT !.shut = FALSE, !.wire = <<>>]
    IN  CASE q.recon -> runLoop([q EXCEPT !.recon = FALSE])
          [] ~q.recon /\ q.yielded -> runLoop(q)
          [] ~q.recon /\ ~q.yielded /\ why = "replaced" -> runLoop([q EXCEPT !.replaced = TRUE])
          [] OTHER -> [q EXCEPT !.loop = "sleep", !.shown = "offline"]

-----------------------------------------------------------------------------
(* startRuntime of a tab that opens; stored: settings were saved before,   *)
(* so that setConfig is called, before there is anything to reconfigure.   *)
startRuntime(t, stored) ==
    /\ tabs.ops < MaxOps /\ ~tabs.tab[t].open
    /\ LET s == claim(Count(tabs), t)
           r == [Closed EXCEPT !.open = TRUE]
       IN  tabs' = Put(s, t, start(IF stored THEN setConfig(r, TRUE) ELSE r))
(* cloud.setConfig and cloud.takeover of an open tab.                      *)
CloudSetConfig(t, on) ==
    /\ tabs.ops < MaxOps /\ tabs.tab[t].open
    /\ tabs' = [Put(Count(tabs), t, setConfig(tabs.tab[t], on)) EXCEPT !.last = IF @ = t THEN t ELSE None]
CloudTakeover(t) ==
    /\ tabs.ops < MaxOps /\ tabs.tab[t].open
    /\ tabs' = Put(claim(Count(tabs), t), t, takeover(tabs.tab[t]))
(* The tab is closed, or its data wiped: relay.stop, tabLock.close.        *)
stop(t) ==
    /\ tabs.ops < MaxOps /\ tabs.tab[t].open
    /\ tabs' = [Put(Count(tabs), t, Closed) EXCEPT !.claims[t] = <<>>,
                    !.holder = IF @ = t THEN None ELSE @, !.last = IF @ = t THEN None ELSE @]
(* onForeignClaim.                                                         *)
ForeignClaim(t) ==
    /\ tabs.claims[t] # <<>>
    /\ tabs' = Put([tabs EXCEPT !.claims[t] = Tail(@)], t, yieldToOtherTab(tabs.tab[t]))

-----------------------------------------------------------------------------
(* runSession: the relay's hello is answered by the login.                 *)
Hello(t) ==
    /\ tabs.tab[t].loop = "dial" /\ ~tabs.tab[t].shut
    /\ tabs' = [tabs EXCEPT !.tab[t].loop = "auth"]
(* The relay takes the login: the device's older connection is replaced.   *)
(* It may do so when the tab is already closing the socket.                *)
Login(t) ==
    /\ tabs.tab[t].loop = "auth"
    /\ LET old == tabs.holder
           late == tabs.claims[t] # <<>> \/ tabs.tab[t].shut
           s == [tabs EXCEPT !.holder = t, !.tab[t].loop = "login", !.last = IF late THEN None ELSE @,
                             !.tab[t].wire = IF tabs.tab[t].shut THEN @ ELSE Append(@, "ready")]
       IN  tabs' = IF old = None \/ tabs.tab[old].shut THEN s
                   ELSE [s EXCEPT !.tab[old].wire = Append(@, "replaced")]
Ready(t) ==
    /\ tabs.tab[t].wire # <<>> /\ Head(tabs.tab[t].wire) = "ready"
    /\ tabs' = [tabs EXCEPT !.tab[t].wire = Tail(@), !.tab[t].loop = "session", !.tab[t].shown = "online"]
Replaced(t) ==
    /\ tabs.tab[t].wire # <<>> /\ Head(tabs.tab[t].wire) = "replaced"
    /\ tabs' = Put(tabs, t, EndSession(tabs.tab[t], "replaced"))
(* The close event of a socket the client closed.                          *)
SocketClosed(t) ==
    /\ tabs.tab[t].shut
    /\ tabs' = [Put(tabs, t, EndSession(tabs.tab[t], "closed")) EXCEPT !.holder = IF @ = t THEN None ELSE @]
(* The connection is lost, or the relay does not answer in time.           *)
Drop(t) ==
    /\ tabs.drops < MaxDrops /\ tabs.tab[t].loop \in Connected
    /\ tabs' = [Put(tabs, t, EndSession(tabs.tab[t], "lost")) EXCEPT !.holder = IF @ = t THEN None ELSE @, !.drops = @ + 1]
(* The backoff is over.                                                    *)
sleep(t) ==
    /\ tabs.tab[t].loop = "sleep"
    /\ tabs' = Put(tabs, t, wake(tabs.tab[t]))

Init == tabs = [tab |-> [t \in Tabs |-> Closed], claims |-> [t \in Tabs |-> <<>>], holder |-> None,
                last |-> None, ops |-> 0, drops |-> 0]
Next == \E t \in Tabs :
            \/ \E b \in BOOLEAN : startRuntime(t, b) \/ CloudSetConfig(t, b)
            \/ CloudTakeover(t) \/ stop(t) \/ ForeignClaim(t)
            \/ Hello(t) \/ Login(t) \/ Ready(t) \/ Replaced(t) \/ SocketClosed(t) \/ Drop(t) \/ sleep(t)

(***************************************************************************)
(* Properties.                                                             *)
(***************************************************************************)
AtRest == \A t \in Tabs : /\ tabs.tab[t].loop \in {"off", "wait", "session"}
                          /\ ~tabs.tab[t].shut /\ tabs.tab[t].wire = <<>> /\ tabs.claims[t] = <<>>
(* The newer tab gets the device (the promise of tabLock.js): once all is  *)
(* at rest, the tab that claimed last holds the relay's connection, unless *)
(* the user switched it off; and whatever happened, the tabs that show     *)
(* "online" are the one that holds the connection.                         *)
NewestTabOnline ==
    AtRest => /\ tabs.last # None /\ tabs.tab[tabs.last].on => tabs.holder = tabs.last
              /\ {t \in Tabs : tabs.tab[t].shown = "online"} = {tabs.holder} \ {None}
=============================================================================
