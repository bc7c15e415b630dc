----------------------------- MODULE WebChannel -----------------------------
(***************************************************************************)
(* One session of the web client over one tunnel: the handshake, the       *)
(* encrypted records, the stream they travel in (peerProtocol/: frames.js, *)
(* handshake.js, records.js, session.js) and the send queue of             *)
(* relayClient.js.                                                         *)
(*                                                                         *)
(* An end (Init opens, Resp answers): st is where it is ("hello": waits    *)
(* for the other's hello, "fin": for its Finished, "open": PeerSession     *)
(* runs, "closed", "failed": the handshake threw); next and expect are the *)
(* counters of SendCipher and ReceiveCipher; queue is dataQ, wire what the *)
(* relay carries to this end, buf the assembler, each a sequence of chunks *)
(* [frame, part]; shut: transport.close() was called; said and got are the *)
(* payloads given to sendPayload and to onMessage.                         *)
(* A record opens only under the key of its direction (role) and the       *)
(* sequence number the receiver expects.  The relay may lose or repeat a   *)
(* frame, and end the tunnel.                                              *)
(***************************************************************************)
EXTENDS Naturals, Sequences, SequencesExt

CONSTANT Parts                          \* chunks of a frame (MAX_TUNNEL_PAYLOAD)
CONSTANTS MaxSends, MaxFaults           \* bounds: frames sent by an end, frames lost or repeated
VARIABLE chan

Ends == {"init", "resp"}
Other(e) == IF e = "init" THEN "resp" ELSE "init"

encodePrefixed(frame) == [i \in 1..Parts |-> [frame |-> frame, part |-> i]]
sendBinary(s, e, frame) == [s EXCEPT ![e].queue = @ \o encodePrefixed(frame)]
encryptOf(s, e, type, payload) ==
  sendBinary([s EXCEPT ![e].next = @ + 1], e,
             [kind |-> "record", role |-> e, seq |-> s[e].next, type |-> type, payload |-> payload])
encrypt(s, e, type) == encryptOf(s, e, type, 0)
sendFinished(s, e) == encrypt(s, e, "finished")
close(s, e, notify) ==
  LET told == IF notify THEN encrypt(s, e, "close") ELSE s
  IN [told EXCEPT ![e].st = "closed", ![e].shut = TRUE]
fail(s, e) == [s EXCEPT ![e].st = "failed", ![e].shut = TRUE]

\* The stream of a frame whose chunks are not its own is read as garbage.
nextFrame(buf) ==
  LET frame == buf[1].frame
      whole == \A i \in 1..Parts : buf[i] = [frame |-> frame, part |-> i]
  IN IF whole THEN frame ELSE [kind |-> "garbage"]
decrypts(end, e, frame) ==
  /\ frame.kind = "record" /\ frame.role = Other(e)
  /\ frame.seq = end.expect
Took(s, e) == [s EXCEPT ![e].expect = @ + 1]

\* receiveFinished, then sendFinished of the responder; PeerSession begins.
receiveFinished(s, e, frame) ==
  IF ~decrypts(s[e], e, frame) \/ frame.type # "finished" THEN fail(s, e)
  ELSE LET t == [Took(s, e) EXCEPT ![e].st = "open"]
       IN IF e = "resp" THEN sendFinished(t, e) ELSE t
(* Mutant: the responder's Finished is not waited for.                     *)
initiatorHandshakeEarly(s, frame) ==
  IF frame.kind # "server" THEN fail(s, "init")
  ELSE [sendFinished(s, "init") EXCEPT !["init"].st = "open"]
initiatorHandshake(s, frame) ==
  IF frame.kind # "server" THEN fail(s, "init")
  ELSE [sendFinished(s, "init") EXCEPT !["init"].st = "fin"]
responderHandshake(s, frame) ==
  IF frame.kind # "client" THEN fail(s, "resp")
  ELSE [sendBinary(s, "resp", [kind |-> "server"]) EXCEPT !["resp"].st = "fin"]
readLoop(s, e, frame) ==
  IF ~decrypts(s[e], e, frame) THEN close(s, e, FALSE)
  ELSE LET t == Took(s, e) IN
       CASE frame.type = "ping"    -> encrypt(t, e, "pong")
         [] frame.type = "close"   -> close(t, e, FALSE)
         [] frame.type = "message" -> [t EXCEPT ![e].got = Append(@, frame.payload)]
         [] OTHER                  -> t

readPrefixed(e) ==
  /\ chan[e].st \in {"hello", "fin", "open"} /\ Len(chan[e].buf) >= Parts
  /\ LET frame == nextFrame(chan[e].buf)
         s == [chan EXCEPT ![e].buf = SubSeq(@, Parts + 1, Len(@))]
     IN chan' = CASE s[e].st = "open" -> readLoop(s, e, frame)
                  [] s[e].st = "fin"  -> receiveFinished(s, e, frame)
                  [] OTHER -> IF e = "init" THEN initiatorHandshake(s, frame)
                              ELSE responderHandshake(s, frame)
\* A hello that a check of validateCommonHello, the signature or the expected id refuses.
Refuse(e) ==
  /\ chan[e].st = "hello" /\ Len(chan[e].buf) >= Parts
  /\ chan' = fail([chan EXCEPT ![e].buf = SubSeq(@, Parts + 1, Len(@))], e)

flushSends(e) ==
  /\ chan[e].queue # <<>>
  /\ chan' = [chan EXCEPT ![e].queue = Tail(@), ![Other(e)].wire = Append(@, Head(chan[e].queue))]
push(e) ==
  /\ chan[e].wire # <<>>
  /\ chan' = [chan EXCEPT ![e].wire = Tail(@),
                          ![e].buf = IF chan[e].shut THEN @ ELSE Append(@, Head(chan[e].wire))]

Room(e) == Len(chan[e].said) + chan[e].pings < MaxSends
sendPayload(e) ==
  /\ chan[e].st = "open" /\ Room(e)
  /\ LET m == Len(chan[e].said) + 1
     IN chan' = encryptOf([chan EXCEPT ![e].said = Append(@, m)], e, "message", m)
sendPing(e) ==
  /\ chan[e].st = "open" /\ Room(e)
  /\ chan' = encrypt([chan EXCEPT ![e].pings = @ + 1], e, "ping")
\* The user, a session that replaces this one, or the idle timer.
Close(e) ==
  /\ chan[e].st = "open"
  /\ chan' = close(chan, e, TRUE)

\* A reader that waits is only rejected when no part of a frame has come.
transportClose(s, e) ==
  LET waits == s[e].st \in {"hello", "fin", "open"} /\ Len(s[e].buf) < Parts
      rejects == waits /\ s[e].buf = <<>>
      t == [s EXCEPT ![e].shut = TRUE, ![e].wire = <<>>, ![e].queue = <<>>]
  IN IF ~rejects THEN t ELSE IF t[e].st = "open" THEN close(t, e, FALSE) ELSE fail(t, e)
TunnelClosed(e) ==
  /\ ~chan[e].shut
  /\ chan' = transportClose(chan, e)

Faulty == chan.faults < MaxFaults
\* The first whole frame on its way to e.
Whole(e) == Len(chan[e].wire) >= Parts /\ chan[e].wire[1].part = 1
Lose(e) ==
  /\ Faulty /\ Whole(e)
  /\ chan' = [chan EXCEPT !.faults = @ + 1, ![e].wire = SubSeq(@, Parts + 1, Len(@))]
Repeat(e) ==
  /\ Faulty /\ Whole(e)
  /\ chan' = [chan EXCEPT !.faults = @ + 1, ![e].wire = SubSeq(@, 1, Parts) \o @]

NewEnd == [st |-> "hello", next |-> 0, expect |-> 0, queue |-> <<>>, wire |-> <<>>, buf |-> <<>>,
           shut |-> FALSE, said |-> <<>>, got |-> <<>>, pings |-> 0]
Init ==
  chan = [init |-> [NewEnd EXCEPT !.queue = encodePrefixed([kind |-> "client"])],
          resp |-> NewEnd, faults |-> 0]
Next ==
  \E e \in Ends :
    \/ readPrefixed(e) \/ Refuse(e) \/ flushSends(e) \/ push(e) \/ sendPayload(e) \/ sendPing(e)
    \/ Close(e) \/ TunnelClosed(e) \/ Lose(e) \/ Repeat(e)

(* What onMessage hands on at one end is a prefix of what sendPayload took *)
(* at the other, in order and nothing twice, whatever frames the relay     *)
(* loses or repeats and wherever the tunnel ends; and the end that opened  *)
(* the tunnel never believes in a session that the other end has not also  *)
(* completed (its Finished is sent only after the initiator's was read).   *)
ChannelHonest ==
  /\ \A e \in Ends : IsPrefix(chan[e].got, chan[Other(e)].said)
  /\ chan["init"].st = "open" => chan["resp"].st \in {"open", "closed"}
=============================================================================
