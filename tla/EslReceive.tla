----------------------------- MODULE EslReceive -----------------------------
(***************************************************************************)
(* How one thread receives events: esl_recv_event, esl_recv_event_timed    *)
(* and handle_recv of src/src/esl.c, over a byte stream that arrives in    *)
(* arbitrary pieces and may end at any time.                               *)
(*                                                                         *)
(* The stream is a sequence of tokens.  A header token stands for the text *)
(* "Name: value" of one header line without its line feed; LF and the      *)
(* tokens of a body stand for one byte each.  The packet buffer is what    *)
(* ByteTape promises of it, so only its unread tokens are kept.  The       *)
(* check_q argument is not used here: the race queue it looks into is      *)
(* filled by esl_send_recv_timed only and is modelled in EslHandle.        *)
(***************************************************************************)
EXTENDS EslPackets

CONSTANTS
  Header,       \* the header tokens
  NameOf(_), ValueOf(_),   \* a header token's name and value
  LengthOf(_),  \* strtoull of a value, a number; BadLength when it is refused
  BadLength,
  None,         \* a null pointer
  HeaderMax,    \* sizeof(socket_buf) - 1: longest header block, longest recv
  BufferMax,    \* ESL_MAX_PACKET_BUFFER_LENGTH
  Messages,     \* bound: the messages the server may send
  MaxMessages,  \* bound: how many of them
  MaxCalls,     \* bound: how many receive calls
  Interrupts    \* whether signals may interrupt poll

ASSUME StreamAssumption ==
  /\ Header \subseteq Byte \ {NUL, LF, CR}
  /\ HeaderMax \in Nat \ {0} /\ BufferMax \in Nat \ {0}
  /\ Messages \subseteq Seq(Byte)
  /\ \A h \in Header : LengthOf(ValueOf(h)) \in Nat \cup {BadLength}
  /\ MaxMessages \in Nat /\ MaxCalls \in Nat

VARIABLES
  stream,     \* everything the server has sent so far
  arrived,    \* how much of it recv has taken
  peer,       \* "open", "closed" (end of file) or "reset"
  buf,        \* the unread tokens of handle->packet_buf
  connected,  \* handle->connected
  event,      \* handle->last_event
  ievent,     \* handle->last_ievent: the body it was parsed from
  pc,         \* where the receiving thread is
  call,       \* the arguments of its call: timed, save
  cur,        \* the event under construction
  delivered,  \* the events returned to the application, in order
  status,     \* result of the last call
  calls, sends

handle == <<buf, connected, event, ievent>>
net == <<stream, arrived, peer, sends>>
vars == <<net, handle, pc, call, cur, delivered, status, calls>>

-----------------------------------------------------------------------------
(* Header parsing.                                                         *)

(* A name runs from the end of the previous header's line to the next      *)
(* colon.  Line ends after a header are skipped; anything else in front of *)
(* a name, a line end at the very start included, becomes part of it and   *)
(* the name is no longer the one that was sent.                            *)
Recognised(p) ==
  {i \in 1 .. Len(p) :
     /\ p[i] \in Header
     /\ \E e \in i + 1 .. Len(p) : p[e] = LF
     /\ \/ i = 1
        \/ \E j \in 1 .. i - 1 : /\ p[j] \in Header
                                 /\ \A k \in j + 1 .. i - 1 : p[k] \in {LF, CR}}

(* esl_event_get_header: the first header of that name.                    *)
Get(p, name) ==
  LET found == {i \in Recognised(p) : NameOf(p[i]) = name}
  IN IF found = {} THEN None
     ELSE ValueOf(p[CHOOSE i \in found : \A j \in found : i <= j])

Event(p, body) == [ct |-> Get(p, "content-type"),
                   disposition |-> Get(p, "content-disposition"),
                   headers |-> {p[i] : i \in Recognised(p)},
                   body |-> body]

(* A disconnect notice with a body and without "linger".                   *)
EndsSession(e) == /\ e.ct = "text/disconnect-notice"
                  /\ e.body # None
                  /\ e.disposition # "linger"

(* The inner event of a plain or JSON event is parsed out of its body.     *)
Inner(e) == IF e.ct \in {"text/event-plain", "text/event-json"} THEN e.body
            ELSE None

Least(m, n) == IF m <= n THEN m ELSE n

-----------------------------------------------------------------------------
Init == /\ stream = <<>> /\ arrived = 0 /\ peer = "open" /\ sends = 0
        /\ buf = <<>> /\ connected = TRUE /\ event = None /\ ievent = None
        /\ pc = "idle" /\ call = [timed |-> FALSE, save |-> FALSE]
        /\ cur = None /\ delivered = <<>> /\ status = "none" /\ calls = 0

ServerSend == /\ peer = "open" /\ sends < MaxMessages
              /\ \E m \in Messages : stream' = stream \o m
              /\ sends' = sends + 1
              /\ UNCHANGED <<arrived, peer, handle, pc, call, cur, delivered,
                             status, calls>>

ServerGone == /\ peer = "open"
              /\ peer' \in {"closed", "reset"}
              /\ UNCHANGED <<stream, arrived, sends, handle, pc, call, cur,
                             delivered, status, calls>>

Waiting == From(stream, arrived + 1)

(* A call that returns.                                                    *)
Return(s) == pc' = "idle" /\ status' = s /\ cur' = None

(* esl_recv_event's fail path.  The event under construction is dropped,   *)
(* from last_event too when it is already there.                           *)
FailOnly(last) == /\ Return("FAIL") /\ event' = last /\ UNCHANGED connected

Fail(last) == /\ Return("FAIL")
              /\ connected' = FALSE
              /\ event' = last

(* Bug: a call keeps the inner event of the one before it.                 *)
EnterKeepingInner(timed, save) ==
  /\ pc = "idle" /\ calls < MaxCalls
  /\ calls' = calls + 1
  /\ call' = [timed |-> timed, save |-> save]
  /\ IF ~connected THEN Return("FAIL") ELSE pc' = "header" /\ UNCHANGED <<cur, status>>
  /\ UNCHANGED <<net, handle, delivered>>

(* Bug: a call starts with an empty packet buffer.                         *)
EnterEmptied(timed, save) ==
  /\ pc = "idle" /\ calls < MaxCalls /\ connected
  /\ calls' = calls + 1
  /\ call' = [timed |-> timed, save |-> save]
  /\ pc' = "header" /\ ievent' = None /\ buf' = <<>>
  /\ UNCHANGED <<net, connected, event, delivered, cur, status>>

(* Entry of both calls.  The timed one polls only when the packet buffer   *)
(* is empty; otherwise it goes on as the untimed one does.  esl_recv_event *)
(* forgets the last inner event.                                           *)
Enter(timed, save) ==
  /\ pc = "idle" /\ calls < MaxCalls
  /\ calls' = calls + 1
  /\ call' = [timed |-> timed, save |-> save]
  /\ IF ~connected
     THEN Return("FAIL") /\ UNCHANGED ievent
     ELSE /\ UNCHANGED <<cur, status>>
          /\ IF timed /\ buf = <<>>
             THEN pc' = "poll" /\ UNCHANGED ievent
             ELSE pc' = "header" /\ ievent' = None
  /\ UNCHANGED <<net, buf, connected, event, delivered>>

(* esl_wait_sock of the timed call finds nothing within ms.                *)
PollTimeout == /\ pc = "poll" /\ Waiting = <<>> /\ peer = "open"
               /\ Return("BREAK")
               /\ UNCHANGED <<net, handle, call, delivered, calls>>

(* Data or end of file is readable.                                        *)
PollReady == /\ pc = "poll" /\ (Waiting # <<>> \/ peer # "open")
             /\ pc' = "header" /\ ievent' = None
             /\ UNCHANGED <<net, buf, connected, event, call, cur, delivered,
                            status, calls>>

(* Only an error condition is reported: the call gives up as if the time   *)
(* had passed.                                                             *)
PollError == /\ pc = "poll" /\ peer = "reset"
             /\ Return("BREAK")
             /\ UNCHANGED <<net, handle, call, delivered, calls>>

(* poll itself fails, which a signal is enough for.                        *)
PollInterrupted == /\ pc = "poll" /\ Interrupts
                   /\ Return("FAIL") /\ connected' = FALSE
                   /\ UNCHANGED <<net, buf, event, ievent, call, delivered, calls>>

(* parse_event: hand the event over, or keep it and look at what it is.    *)
Finish(e) ==
  IF call.save
  THEN /\ delivered' = Append(delivered, e)
       /\ Return("SUCCESS")
       /\ UNCHANGED <<connected, event, ievent>>
  ELSE IF EndsSession(e)
  THEN Fail(None) /\ UNCHANGED <<ievent, delivered>>
  ELSE /\ event' = e
       /\ ievent' = IF Inner(e) = None THEN ievent ELSE Inner(e)
       /\ delivered' = Append(delivered, e)
       /\ Return("SUCCESS")
       /\ UNCHANGED connected

(* A complete header block is copied from the buffer to socket_buf.        *)
ReadPacket ==
  /\ pc = "header" /\ FirstPacketLen(buf) > 0
  /\ \E n \in {Least(FirstPacketLen(buf), HeaderMax)} :
       /\ buf' = From(buf, n + 1)
       /\ cur' = [packet |-> SubSeq(buf, 1, n), need |-> 0]
  /\ pc' = "parse"
  /\ UNCHANGED <<net, connected, event, ievent, call, delivered, status, calls>>

(* The headers are parsed and tell whether a body follows.                 *)
ParseHeaders ==
  /\ pc = "parse"
  /\ \E length \in {Get(cur.packet, "content-length")} :
       IF length = None THEN Finish(Event(cur.packet, None))
       ELSE IF LengthOf(length) = BadLength
       THEN Fail(event) /\ UNCHANGED <<ievent, delivered>>
       ELSE /\ pc' = "body" /\ cur' = [cur EXCEPT !.need = LengthOf(length)]
            /\ UNCHANGED <<connected, event, ievent, delivered, status>>
  /\ UNCHANGED <<net, buf, call, calls>>

ReadBody ==
  /\ pc = "body" /\ Len(buf) >= cur.need
  /\ buf' = From(buf, cur.need + 1)
  /\ Finish(Event(cur.packet, SubSeq(buf, 1, cur.need)))
  /\ UNCHANGED <<net, call, calls>>

(* Neither loop can go on with what the buffer holds.                      *)
Starved == \/ pc = "header" /\ FirstPacketLen(buf) = 0
           \/ pc = "body" /\ Len(buf) < cur.need

(* handle_recv takes some of what has arrived, and esl_buffer_write stores *)
(* it or refuses it, which ends the connection.  A poll that times out     *)
(* only repeats the loop and is a stuttering step.                         *)
Recv ==
  /\ Starved /\ peer # "reset"
  /\ \E k \in 1 .. Least(HeaderMax, Len(Waiting)) :
       /\ arrived' = arrived + k
       /\ IF Len(buf) + k > BufferMax
          THEN Fail(event) /\ UNCHANGED buf
          ELSE /\ buf' = buf \o SubSeq(Waiting, 1, k)
               /\ UNCHANGED <<pc, cur, status, connected, event>>
  /\ UNCHANGED <<stream, peer, sends, ievent, call, delivered, calls>>

(* Bug: an end of file is taken for a time-out.                            *)
RecvFailsOnReset ==
  /\ Starved /\ peer = "reset"
  /\ Fail(event)
  /\ UNCHANGED <<net, buf, ievent, call, delivered, calls>>

(* handle_recv reports -1: end of file or an error.                        *)
RecvFails ==
  /\ Starved
  /\ (peer = "closed" /\ Waiting = <<>>) \/ peer = "reset"
  /\ Fail(event)
  /\ UNCHANGED <<net, buf, ievent, call, delivered, calls>>

(* A signal interrupts poll: unlike an interrupted recv it is no retry.    *)
RecvInterrupted ==
  /\ Starved /\ Interrupts
  /\ Fail(event)
  /\ UNCHANGED <<net, buf, ievent, call, delivered, calls>>

(* Allocation of the event, a header or the body fails.                    *)
NoMemory == /\ pc = "parse"
            /\ Fail(event)
            /\ UNCHANGED <<net, buf, ievent, call, delivered, calls>>

Step == \/ PollTimeout \/ PollReady \/ PollError \/ ReadPacket
        \/ ParseHeaders \/ ReadBody \/ Recv \/ RecvFails

Next == \/ ServerSend \/ ServerGone
        \/ \E timed, save \in BOOLEAN : Enter(timed, save)
        \/ Step \/ PollInterrupted \/ RecvInterrupted \/ NoMemory

(* The thread keeps running: poll returns when there is data, an error or  *)
(* its time is over.  Nothing is assumed of the server.                    *)
Spec == Init /\ [][Next]_vars /\ WF_vars(Step)

-----------------------------------------------------------------------------
(* The type invariant.                                                     *)
TypeOK == /\ stream \in Seq(Byte) /\ arrived \in 0 .. Len(stream)
          /\ peer \in {"open", "closed", "reset"}
          /\ buf \in Seq(Byte) /\ connected \in BOOLEAN
          /\ pc \in {"idle", "poll", "header", "parse", "body"}
          /\ call \in [timed : BOOLEAN, save : BOOLEAN]
          /\ status \in {"none", "SUCCESS", "FAIL", "BREAK"}
          /\ calls \in 0 .. MaxCalls /\ sends \in 0 .. MaxMessages

(* What the whole of a stream decodes to when it is all there at once: the *)
(* events in it, up to the first that cannot be completed.                 *)
Decode(s) ==
  LET from[k \in 0 .. Len(s)] ==
        LET rest == From(s, k + 1)
            n == Least(FirstPacketLen(rest), HeaderMax)
            p == SubSeq(rest, 1, n)
            length == Get(p, "content-length")
            need == LengthOf(length)
        IN IF n = 0 THEN <<>>
           ELSE IF length = None THEN <<Event(p, None)>> \o from[k + n]
           ELSE IF need = BadLength \/ k + n + need > Len(s) THEN <<>>
           ELSE <<Event(p, SubSeq(rest, n + 1, n + need))>> \o from[k + n + need]
  IN from[0]

(* The events an application gets are those of the stream, in order and    *)
(* without gaps, however the stream was cut into recv calls, whichever     *)
(* mixture of timed and untimed calls it made and wherever the connection  *)
(* broke: the buffer left behind by one call is where the next one starts. *)
DecodesStream ==
  /\ Len(delivered) <= Len(Decode(stream))
  /\ delivered = SubSeq(Decode(stream), 1, Len(delivered))

(* A call that fails leaves the handle unconnected, and then nothing is    *)
(* received any more, not even what is already in the buffer.              *)
FailureIsFinal ==
  [][/\ status' = "FAIL" /\ pc # "idle" /\ pc' = "idle" => ~connected'
     /\ ~connected => /\ ~connected'
                      /\ UNCHANGED <<arrived, buf, delivered, event>>]_vars

(* The inner event belongs to the last event: it never outlives it to be   *)
(* mistaken for the inner event of a later one.                            *)
InnerIsCurrent ==
  pc = "idle" /\ status = "SUCCESS" /\ ~call.save =>
    ievent = Inner(delivered[Len(delivered)])

(* Every call ends once the server is gone: what it sent is used up or the *)
(* end of file is found, but no receiver waits forever.                    *)
ReturnsWhenPeerIsGone == (peer # "open") ~> (pc = "idle")

=============================================================================
