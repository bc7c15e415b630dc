------------------------------ MODULE WebStore ------------------------------
(***************************************************************************)
(* The storage of the web client, idbStore.js: the session database and    *)
(* the database of the account, used by several tabs of one profile.       *)
(*                                                                         *)
(* On disk: active (the key activePeerId of the session database) and what *)
(* each database holds: cloud (its key cloudAccount) and rows, the         *)
(* messages of a chat as a sequence of [id, ver].  In the memory of a tab: peer (accountPeerId),   *)
(* db (accountDbPromise) and its calls.  A call is at "db" (it asks for    *)
(* accountDb), "look" (accountDb reads activePeerId), "tx" (it has got      *)
(* database db), "put" (it has read, in a transaction of database `in`)    *)
(* or, for kvPutRaw, "remember", "note" and "copy".  A readwrite           *)
(* transaction on a database excludes the others.  A reload drops the      *)
(* memory of a tab and aborts its transactions.                            *)
(* stored are the messages whose append was answered and which nobody has  *)
(* deleted since, news how often an answer said `appended`.                *)
(***************************************************************************)
EXTENDS Naturals, Sequences, SequencesExt

CONSTANTS Tabs, Ids, None
CONSTANTS MaxCalls, MaxReloads          \* bounds: calls, reloads of a tab
VARIABLE web

Databases == {"session", "account"}
Tab == [peer |-> None, db |-> None, up |-> FALSE]
Call(s, c, upd) == [s EXCEPT !.calls = (@ \ {c}) \cup {upd}]
Done(s, c) == [s EXCEPT !.calls = @ \ {c}]
kvGetRaw(s) == s.disk[IF s.active THEN "account" ELSE "session"].cloud \/ s.disk["session"].cloud
Has(rows, id) == \E i \in DOMAIN rows : rows[i].id = id
Without(rows, id) == SelectSeq(rows, LAMBDA r : r.id # id)
Free(s, d) == \A c \in s.calls : c.in # d

\* startRuntime: a tab works once it finds the account; openForPeer then changes nothing.
StartRuntime(t) ==
  /\ ~web.tab[t].up /\ kvGetRaw(web)
  /\ web' = [web EXCEPT !.tab[t].up = TRUE]

New(t, op, id) ==
  [tab |-> t, op |-> op, id |-> id, at |-> "db", db |-> None, in |-> None, num |-> web.count + 1, found |-> FALSE]
Begin(c) == [web EXCEPT !.count = @ + 1, !.calls = @ \cup {c}]
\* The sign-in stores the account; the other calls need it.
SignIn(t) ==
  /\ web.count < MaxCalls /\ ~web.tab[t].up
  /\ web' = Begin([New(t, "sign-in", None) EXCEPT !.at = "remember"])
Ask(t, op, id) ==
  /\ web.count < MaxCalls /\ web.tab[t].up
  /\ web' = Begin(New(t, op, id))

\* rememberPeerId: the new id is in memory before it is on disk.
rememberPeerId(c) ==
  /\ c.at = "remember"
  /\ LET known == web.tab[c.tab].peer # None
     IN web' = Call([web EXCEPT !.tab[c.tab].peer = "own"], c,
                    [c EXCEPT !.at = IF known THEN "db" ELSE "note"])
Noted(s, t) == [s EXCEPT !.active = TRUE, !.tab[t].db = "account"]
NoteActive(c) ==
  /\ c.at = "note"
  /\ web' = Call(Noted(web, c.tab), c, [c EXCEPT !.at = "db"])

(* Mutant: only the tab that has signed in knows of the account.           *)
accountDbUnlooked(c) ==
  /\ c.at = "db"
  /\ web' = Call(web, c, [c EXCEPT !.at = "tx",
                                   !.db = IF web.tab[c.tab].db = None THEN "session" ELSE "account"])
accountDb(c) ==
  /\ c.at = "db"
  /\ web' = Call(web, c, IF web.tab[c.tab].db = None THEN [c EXCEPT !.at = "look"]
                         ELSE [c EXCEPT !.at = "tx", !.db = "account"])
\* The read waits for the write that rememberPeerId of the same tab queued before.
Look(c) ==
  /\ c.at = "look" /\ \A o \in web.calls : o.tab = c.tab => o.at # "note"
  /\ web' = IF web.active
            THEN Call([web EXCEPT !.tab[c.tab].peer = "own", !.tab[c.tab].db = "account"], c,
                      [c EXCEPT !.at = "tx", !.db = "account"])
            ELSE Call(web, c, [c EXCEPT !.at = "tx", !.db = "session"])

\* The transaction begins and reads the rows of the message.
Transaction(c) ==
  /\ c.at = "tx" /\ c.op # "sign-in" /\ Free(web, c.db)
  /\ web' = Call(web, c, [c EXCEPT !.at = "put", !.in = c.db,
                                   !.found = Has(web.disk[c.db].rows, c.id)])

append(s, c) ==
  LET t == IF c.found THEN s
           ELSE [s EXCEPT !.disk[c.in].rows = Append(@, [id |-> c.id, ver |-> 0]), !.news[c.id] = @ + 1]
  IN [t EXCEPT !.stored = @ \cup {c.id}]
patch(s, c) ==
  [s EXCEPT !.disk[c.in].rows =
     [i \in DOMAIN @ |-> IF @[i].id = c.id THEN [@[i] EXCEPT !.ver = c.num] ELSE @[i]]]
deleteMessage(s, c) ==
  [s EXCEPT !.disk[c.in].rows = Without(@, c.id), !.stored = @ \ {c.id}, !.news[c.id] = 0]
\* deleteChat and clearMessages: there is one chat.
deleteChat(s, c) ==
  [s EXCEPT !.disk[c.in].rows = <<>>, !.stored = {}, !.news = [id \in Ids |-> 0]]

Put(c) ==
  /\ c.at = "put"
  /\ web' = Done(CASE c.op = "append" -> append(web, c)
                   [] c.op = "patch"  -> patch(web, c)
                   [] c.op = "delete" -> deleteMessage(web, c)
                   [] OTHER           -> deleteChat(web, c), c)
\* kvPutRaw of cloudAccount: the account's database first, then the copy.
kvPutRaw(c) ==
  /\ c.at = "tx" /\ c.op = "sign-in"
  /\ web' = Call([web EXCEPT !.disk[c.db].cloud = TRUE], c, [c EXCEPT !.at = "copy"])
CopyAccount(c) ==
  /\ c.at = "copy"
  /\ web' = Done([web EXCEPT !.disk["session"].cloud = TRUE, !.active = TRUE], c)

Reload(t) ==
  /\ web.reloads < MaxReloads
  /\ web' = [web EXCEPT !.reloads = @ + 1, !.tab[t] = Tab,
                        !.calls = {c \in @ : c.tab # t}]

Init ==
  web = [active |-> FALSE, disk |-> [d \in Databases |-> [cloud |-> FALSE, rows |-> <<>>]],
         tab |-> [t \in Tabs |-> Tab], calls |-> {}, stored |-> {}, news |-> [id \in Ids |-> 0],
         count |-> 0, reloads |-> 0]
Next ==
  \/ \E t \in Tabs : \/ StartRuntime(t) \/ SignIn(t) \/ Reload(t) \/ Ask(t, "clear", None)
                     \/ \E op \in {"append", "patch", "delete"}, id \in Ids : Ask(t, op, id)
  \/ \E c \in web.calls : \/ rememberPeerId(c) \/ NoteActive(c) \/ accountDb(c) \/ Look(c)
                          \/ Transaction(c) \/ Put(c) \/ kvPutRaw(c) \/ CopyAccount(c)

(* A message whose append was answered is found again, once, in the        *)
(* database that any tab would ask (getBatch), and one append of it said   *)
(* that it was new, although tabs append the same message at the same time *)
(* and reload in the middle of a sign-in.                                  *)
StoreKeeps ==
  \A id \in web.stored :
    /\ web.active /\ web.news[id] = 1
    /\ Len(SelectSeq(web.disk["account"].rows, LAMBDA r : r.id = id)) = 1
=============================================================================
