------------------------------ MODULE EslHandle ------------------------------
(***************************************************************************)
(* A handle shared by threads: its recursive mutex, the race queue of      *)
(* events that esl_send_recv_timed reads while it waits for a reply, and   *)
(* disconnecting while other threads use the handle (src/src/esl.c,        *)
(* src/src/esl_threadmutex.c).                                             *)
(*                                                                         *)
(* What travels are packets as esl_recv_event parses them on a connected   *)
(* handle.  There the content type of a message is lost when it is the     *)
(* message's first header, and the body of a message whose content length  *)
(* is lost becomes a packet of its own (EslReceive): a reply has no        *)
(* content type, and EventTypes lists the content types of the packets     *)
(* that one event of the server turns into.  Besides complete packets the  *)
(* packet buffer has an unread byte, the end of the last packet, unless    *)
(* that byte belongs to a body and has not arrived: only then does the     *)
(* timed receive look at the socket.                                       *)
(*                                                                         *)
(* A step of a thread is what it does between two points where another     *)
(* thread can interfere: taking the mutex, giving it up, and reading or    *)
(* writing a field of the handle without holding it.                       *)
(***************************************************************************)
EXTENDS Integers, Sequences

CONSTANTS
  Thread,
  None,
  Ops,         \* which calls each thread makes
  EventTypes,  \* content types of the packets of one event: "event" or "none"
  CheckQ,      \* which values of check_q receivers pass
  MaxCalls,    \* bound: calls per thread
  MaxEvents,   \* bound: events the server sends
  PeerMayClose \* whether the server may close the connection

Requests == {"send_recv", "send_recv_timed"}
AllOps == {"send", "recv", "recv_timed", "disconnect"} \cup Requests

(* What one call of esl_recv_event reads: a packet with or without a       *)
(* content type, and what the server sent it for.                          *)
Packet == [of : {"reply", "event"}, id : (Thread \cup {None}) \X Nat,
           ct : {"none", "event"}]

ASSUME HandleAssumption ==
  /\ None \notin Thread /\ None \notin Packet
  /\ Ops \in [Thread -> SUBSET AllOps]
  /\ EventTypes \in Seq({"event", "none"})
  /\ CheckQ \subseteq BOOLEAN
  /\ MaxCalls \in Nat /\ MaxEvents \in Nat
  /\ PeerMayClose \in BOOLEAN

VARIABLES
  \* the server and the connection
  commands,   \* received by the server and not yet answered
  wire,       \* packets on their way to the client
  eventsSent, \* how many events the server has sent
  closed,     \* the server has closed the connection
  \* struct esl_handle
  sock,       \* handle->sock is valid
  connected,
  destroyed,
  mutexSet,   \* handle->mutex is not null
  buf,        \* the packets in packet_buf
  left,       \* bytes are in packet_buf although no packet is
  race,       \* race_event
  lastSr,     \* last_sr_event
  \* the mutex itself
  owner, depth,
  freed,      \* esl_mutex_destroy has released it
  \* threads
  pc,
  op,         \* the call: its name and check_q
  calls,      \* how many calls the thread has made
  result,     \* what its last call returned
  taken,      \* the packets given to receivers, in order
  late        \* history: a request has returned without its reply

server == <<commands, wire, eventsSent, closed>>
fields == <<sock, connected, destroyed, mutexSet, buf, left, race, lastSr>>
mutex == <<owner, depth, freed>>
threads == <<pc, op, calls, result, taken, late>>
vars == <<server, fields, mutex, threads>>

Returned(status, p) == [status |-> status, packet |-> p]

EventPackets(n) ==
  [i \in 1 .. Len(EventTypes) |-> [of |-> "event", id |-> <<None, n>>, ct |-> EventTypes[i]]]

Init ==
  /\ commands = <<>> /\ wire = <<>> /\ eventsSent = 0 /\ closed = FALSE
  /\ sock = TRUE /\ connected = TRUE /\ destroyed = FALSE /\ mutexSet = TRUE
  /\ buf = <<>> /\ left = TRUE /\ race = <<>> /\ lastSr = None
  /\ owner = None /\ depth = 0 /\ freed = FALSE
  /\ pc = [t \in Thread |-> "idle"]
  /\ op = [t \in Thread |-> [name |-> "none", q |-> FALSE]]
  /\ calls = [t \in Thread |-> 0]
  /\ result = [t \in Thread |-> Returned("none", None)]
  /\ taken = <<>> /\ late = FALSE

-----------------------------------------------------------------------------
(* The server.                                                             *)
ServerReplies ==
  /\ commands # <<>> /\ ~closed
  /\ commands' = Tail(commands)
  /\ wire' = Append(wire, [of |-> "reply", id |-> Head(commands), ct |-> "none"])
  /\ UNCHANGED <<eventsSent, closed, fields, mutex, threads>>

ServerEvent ==
  /\ eventsSent < MaxEvents /\ ~closed
  /\ eventsSent' = eventsSent + 1
  /\ wire' = wire \o EventPackets(eventsSent + 1)
  /\ UNCHANGED <<commands, closed, fields, mutex, threads>>

ServerCloses == /\ PeerMayClose /\ ~closed
                /\ closed' = TRUE
                /\ UNCHANGED <<commands, wire, eventsSent, fields, mutex, threads>>

-----------------------------------------------------------------------------
(* The mutex.  A thread that waits for it already holds its address.       *)
Free(t) == ~freed /\ owner \in {None, t}

Lock(t, n) == owner' = t /\ depth' = depth + n /\ UNCHANGED freed

(* esl_mutex_unlock(handle->mutex), n times: it does nothing once the      *)
(* handle no longer knows its mutex.                                       *)
Unlock(t, n) ==
  IF mutexSet
  THEN /\ depth' = depth - n
       /\ owner' = IF depth = n THEN None ELSE owner
       /\ UNCHANGED freed
  ELSE UNCHANGED mutex

Goto(t, label) == pc' = [pc EXCEPT ![t] = label]

Return(t, status) ==
  Goto(t, "idle") /\ result' = [result EXCEPT ![t] = Returned(status, None)]

Give(t, p) ==
  Goto(t, "idle") /\ result' = [result EXCEPT ![t] = Returned("SUCCESS", p)]

(* Bug: esl_recv_event_timed forgets its own hold.                         *)
HeldOnce(t) == CASE op[t].name \in {"recv", "recv_timed"} -> 1
                 [] op[t].name = "send_recv" -> 2
                 [] op[t].name = "send_recv_timed" -> 3

(* How many of the calls that a thread is in have taken the mutex while    *)
(* esl_recv_event reads.                                                   *)
Held(t) == CASE op[t].name = "recv" -> 1
             [] op[t].name \in {"recv_timed", "send_recv"} -> 2
             [] op[t].name = "send_recv_timed" -> 3

Usable == connected /\ sock /\ mutexSet

Begin(t, name, q) ==
  /\ pc[t] = "idle" /\ calls[t] < MaxCalls /\ name \in Ops[t]
  /\ calls' = [calls EXCEPT ![t] = @ + 1]
  /\ op' = [op EXCEPT ![t] = [name |-> name, q |-> q]]

-----------------------------------------------------------------------------
(* esl_send called by the application: no lock, the reply is left to       *)
(* whoever receives next.  Sending fails only on a closed connection.      *)
SendCommand(t) == commands' = Append(commands, <<t, calls'[t]>>)

Send(t) ==
  /\ Begin(t, "send", FALSE)
  /\ \/ /\ connected /\ sock
        /\ SendCommand(t)
        /\ Return(t, "SUCCESS")
        /\ UNCHANGED connected
     \/ /\ connected /\ sock /\ closed
        /\ connected' = FALSE
        /\ Return(t, "FAIL")
        /\ UNCHANGED commands
     \/ /\ ~(connected /\ sock)
        /\ Return(t, "FAIL")
        /\ UNCHANGED <<commands, connected>>
  /\ UNCHANGED <<wire, eventsSent, closed, sock, destroyed, mutexSet, buf, left, race,
                 lastSr, mutex, taken, late>>

(* esl_send_recv_timed, without a time limit or with one, up to its first  *)
(* esl_mutex_lock.                                                         *)
SendRecv(t, name) ==
  /\ Begin(t, name, FALSE)
  /\ IF mutexSet THEN Goto(t, "sr_lock") /\ UNCHANGED result
     ELSE Return(t, "FAIL")
  /\ UNCHANGED <<server, fields, mutex, taken, late>>

(* The mutex is taken.                                                     *)
SrSend(t) ==
  /\ pc[t] = "sr_lock" /\ Free(t)
  /\ Lock(t, 1)
  /\ Goto(t, "sr_send")
  /\ UNCHANGED <<server, fields, op, calls, result, taken, late>>

(* Bug: the mutex is given up between the command and its reply.           *)
SrSentReleasing(t) ==
  /\ pc[t] = "sr_send"
  /\ IF connected /\ sock
     THEN /\ commands' = Append(commands, <<t, calls[t]>>)
          /\ Goto(t, "sr_window") /\ UNCHANGED result
     ELSE Return(t, "FAIL") /\ UNCHANGED commands
  /\ lastSr' = None
  /\ Unlock(t, 1)
  /\ UNCHANGED <<wire, eventsSent, closed, sock, connected, destroyed, mutexSet,
                 buf, left, race, op, calls, taken, late>>

(* The command is sent, or not: the connection may be known to be lost.    *)
SrSent(t) ==
  /\ pc[t] = "sr_send"
  /\ \/ /\ connected /\ sock
        /\ commands' = Append(commands, <<t, calls[t]>>)
        /\ lastSr' = None
        /\ Goto(t, "sr_recv")
        /\ UNCHANGED <<connected, mutex, result>>
     \/ /\ connected /\ sock /\ closed
        /\ connected' = FALSE
        /\ lastSr' = None
        /\ Unlock(t, 1) /\ Return(t, "FAIL")
        /\ UNCHANGED commands
     \/ /\ ~(connected /\ sock)
        /\ Unlock(t, 1) /\ Return(t, "FAIL")
        /\ UNCHANGED <<commands, connected, lastSr>>
  /\ UNCHANGED <<wire, eventsSent, closed, sock, destroyed, mutexSet, buf, left, race,
                 op, calls, taken, late>>

(* It receives with the mutex held, once more by esl_recv_event.  With a   *)
(* time limit esl_recv_event_timed is in between.                          *)
SrRecv(t) ==
  /\ pc[t] = "sr_recv"
  /\ lastSr' = None
  /\ IF Usable
     THEN /\ UNCHANGED result
          /\ IF op[t].name = "send_recv" THEN Lock(t, 1) /\ Goto(t, "read")
             ELSE Goto(t, "sr_poll") /\ UNCHANGED mutex
     ELSE Unlock(t, 1) /\ Return(t, "FAIL")
  /\ UNCHANGED <<server, sock, connected, destroyed, mutexSet, buf, left, race, op,
                 calls, taken, late>>

(* With nothing in the packet buffer the socket is polled: the byte that   *)
(* is missing may arrive, the limit may end the request although its reply *)
(* is still to come, or the poll fails.  The trylock of the owner succeeds.*)
EmptyBuffer == buf = <<>> /\ ~left

SrPoll(t) ==
  /\ pc[t] = "sr_poll"
  /\ \/ Lock(t, 1) /\ Goto(t, "sr_tried") /\ UNCHANGED <<connected, result, late>>
     \/ /\ EmptyBuffer
        /\ late' = TRUE
        /\ Unlock(t, 1) /\ Return(t, "BREAK")
        /\ UNCHANGED connected
     \/ /\ EmptyBuffer
        /\ connected' = FALSE
        /\ Unlock(t, 1) /\ Return(t, "FAIL")
        /\ UNCHANGED late
  /\ UNCHANGED <<server, sock, destroyed, mutexSet, buf, left, race, lastSr, op,
                 calls, taken>>

SrTried(t) ==
  /\ pc[t] = "sr_tried"
  /\ IF Usable THEN Lock(t, 1) /\ Goto(t, "read") /\ UNCHANGED result
     ELSE Unlock(t, 2) /\ Return(t, "FAIL")
  /\ UNCHANGED <<server, fields, op, calls, taken, late>>

(* Bug: the event goes to the front of the race queue.                     *)
SrGotFirst(t) ==
  /\ pc[t] = "sr_got"
  /\ IF lastSr # None /\ lastSr.ct = "event"
     THEN /\ race' = <<lastSr>> \o race
          /\ lastSr' = None
          /\ Goto(t, "sr_window")
          /\ UNCHANGED result
     ELSE Give(t, lastSr) /\ UNCHANGED <<race, lastSr>>
  /\ Unlock(t, 1)
  /\ UNCHANGED <<server, sock, connected, destroyed, mutexSet, buf, left, op, calls,
                 taken, late>>

(* What was received decides: an event goes to the end of the race queue   *)
(* and the mutex is given up for a moment; anything else is the reply.     *)
SrGot(t) ==
  /\ pc[t] = "sr_got"
  /\ IF lastSr # None /\ lastSr.ct = "event"
     THEN /\ race' = Append(race, lastSr)
          /\ lastSr' = None
          /\ Goto(t, "sr_window")
          /\ UNCHANGED result
     ELSE Give(t, lastSr) /\ UNCHANGED <<race, lastSr>>
  /\ Unlock(t, 1)
  /\ UNCHANGED <<server, sock, connected, destroyed, mutexSet, buf, left, op, calls,
                 taken, late>>

(* Bug: receiving goes on without the mutex.                               *)
SrWindowUnlocked(t) ==
  /\ pc[t] = "sr_window"
  /\ Goto(t, "sr_check")
  /\ UNCHANGED <<server, fields, mutex, op, calls, result, taken, late>>

(* The mutex is looked up again: it may be gone.                           *)
SrWindow(t) ==
  /\ pc[t] = "sr_window"
  /\ Goto(t, IF mutexSet THEN "sr_relock" ELSE "sr_check")
  /\ UNCHANGED <<server, fields, mutex, op, calls, result, taken, late>>

SrRelock(t) ==
  /\ pc[t] = "sr_relock" /\ Free(t)
  /\ Lock(t, 1)
  /\ Goto(t, "sr_check")
  /\ UNCHANGED <<server, fields, op, calls, result, taken, late>>

SrCheck(t) ==
  /\ pc[t] = "sr_check"
  /\ IF connected /\ sock
     THEN Goto(t, "sr_recv") /\ UNCHANGED <<connected, mutex, result>>
     ELSE connected' = FALSE /\ Unlock(t, 1) /\ Return(t, "FAIL")
  /\ UNCHANGED <<server, sock, destroyed, mutexSet, buf, left, race, lastSr, op,
                 calls, taken, late>>

-----------------------------------------------------------------------------
(* esl_recv_event called by the application.                               *)
Recv(t, q) ==
  /\ Begin(t, "recv", q)
  /\ IF Usable THEN Goto(t, "re_lock") /\ UNCHANGED result
     ELSE Return(t, "FAIL")
  /\ UNCHANGED <<server, fields, mutex, taken, late>>

ReLock(t) ==
  /\ pc[t] = "re_lock" /\ Free(t)
  /\ Lock(t, 1)
  /\ Goto(t, "re_queue")
  /\ UNCHANGED <<server, fields, op, calls, result, taken, late>>

Deliver(t, p) == /\ taken' = Append(taken, p)
                 /\ Unlock(t, Held(t))
                 /\ Give(t, p)

(* check_q: the oldest queued event before anything from the connection.   *)
ReQueue(t) ==
  /\ pc[t] = "re_queue"
  /\ IF op[t].q /\ race # <<>>
     THEN race' = Tail(race) /\ Deliver(t, Head(race))
     ELSE Goto(t, "read") /\ UNCHANGED <<race, mutex, result, taken>>
  /\ UNCHANGED <<server, sock, connected, destroyed, mutexSet, buf, left, lastSr, op,
                 calls, late>>

(* The loop of esl_recv_event: a complete packet, for the application or,  *)
(* through save_event, for esl_send_recv_timed.  Of the last packet in the *)
(* buffer a byte is left if it has arrived.                                *)
Read(t) ==
  /\ pc[t] = "read" /\ connected /\ buf # <<>>
  /\ buf' = Tail(buf)
  /\ left' \in IF Tail(buf) = <<>> THEN BOOLEAN ELSE {TRUE}
  /\ IF op[t].name \in Requests
     THEN /\ lastSr' = Head(buf)
          /\ Unlock(t, Held(t) - 1) /\ Goto(t, "sr_got")
          /\ UNCHANGED <<result, taken>>
     ELSE Deliver(t, Head(buf)) /\ UNCHANGED lastSr
  /\ UNCHANGED <<server, sock, connected, destroyed, mutexSet, race, op, calls, late>>

(* handle_recv brings one or more packets.                                 *)
Fetch(t) ==
  /\ pc[t] = "read" /\ connected /\ sock /\ buf = <<>> /\ wire # <<>>
  /\ \E n \in 1 .. Len(wire) : /\ buf' = SubSeq(wire, 1, n)
                               /\ wire' = SubSeq(wire, n + 1, Len(wire))
  /\ left' = TRUE
  /\ UNCHANGED <<commands, eventsSent, closed, sock, connected, destroyed,
                 mutexSet, race, lastSr, mutex, threads>>

(* The connection is lost or was closed: the mutex is released first, then *)
(* connected is cleared.                                                   *)
ReadFails(t) ==
  /\ pc[t] = "read"
  /\ \/ ~connected
     \/ buf = <<>> /\ ~sock
     \/ buf = <<>> /\ closed /\ wire = <<>>
  /\ Unlock(t, 1)
  /\ Goto(t, "re_failed")
  /\ UNCHANGED <<server, fields, op, calls, result, taken, late>>

(* Bug: a failed receive returns through its caller without unlocking.     *)
ReFailedHolding(t) ==
  /\ pc[t] = "re_failed"
  /\ connected' = FALSE
  /\ Return(t, "FAIL")
  /\ UNCHANGED <<server, sock, destroyed, mutexSet, buf, left, race, lastSr, mutex, op,
                 calls, taken, late>>

(* esl_send_recv_timed and esl_recv_event_timed still hold it, each once.  *)
ReFailed(t) ==
  /\ pc[t] = "re_failed"
  /\ connected' = FALSE
  /\ IF op[t].name = "recv" THEN UNCHANGED mutex ELSE Unlock(t, Held(t) - 1)
  /\ Return(t, "FAIL")
  /\ UNCHANGED <<server, sock, destroyed, mutexSet, buf, left, race, lastSr, op,
                 calls, taken, late>>

-----------------------------------------------------------------------------
(* esl_recv_event_timed.  With check_q it first waits for the mutex to     *)
(* look at the queue; without, it goes on to the poll and one trylock.     *)
RecvTimed(t, q) ==
  /\ Begin(t, "recv_timed", q)
  /\ IF Usable THEN Goto(t, IF q THEN "rt_lock" ELSE "rt_poll") /\ UNCHANGED result
     ELSE Return(t, "FAIL")
  /\ UNCHANGED <<server, fields, mutex, taken, late>>

RtLook(t) ==
  /\ pc[t] = "rt_lock" /\ Free(t)
  /\ IF race # <<>> \/ buf # <<>>
     THEN Goto(t, "rt_recv") ELSE Goto(t, "rt_locked")
  /\ Lock(t, 1)
  /\ UNCHANGED <<server, fields, op, calls, result, taken, late>>

(* Something is there: the mutex is released and the call becomes an       *)
(* ordinary esl_recv_event.                                                *)
RtRecv(t) ==
  /\ pc[t] = "rt_recv"
  /\ Unlock(t, 1)
  /\ Goto(t, "rt_enter")
  /\ op' = [op EXCEPT ![t].name = "recv"]
  /\ UNCHANGED <<server, fields, calls, result, taken, late>>

RtEnter(t) ==
  /\ pc[t] = "rt_enter"
  /\ IF Usable THEN Goto(t, "re_lock") /\ UNCHANGED result
     ELSE Return(t, "FAIL")
  /\ UNCHANGED <<server, fields, mutex, op, calls, taken, late>>

RtUnlock(t) ==
  /\ pc[t] = "rt_locked"
  /\ Unlock(t, 1)
  /\ Goto(t, "rt_poll")
  /\ UNCHANGED <<server, fields, op, calls, result, taken, late>>

(* The buffer is looked at without the mutex, and polled for if empty.     *)
RtPoll(t) ==
  /\ pc[t] = "rt_poll"
  /\ \/ Goto(t, "rt_try") /\ UNCHANGED <<connected, result>>
     \/ EmptyBuffer /\ Return(t, "BREAK") /\ UNCHANGED connected
     \/ EmptyBuffer /\ connected' = FALSE /\ Return(t, "FAIL")
  /\ UNCHANGED <<server, sock, destroyed, mutexSet, buf, left, race, lastSr,
                 mutex, op, calls, taken, late>>

(* esl_mutex_trylock, and esl_recv_event under it.                         *)
RtTry(t) ==
  /\ pc[t] = "rt_try"
  /\ IF ~mutexSet \/ ~Free(t)
     THEN Return(t, "BREAK") /\ UNCHANGED mutex
     ELSE /\ Lock(t, 1) /\ Goto(t, "rt_tried") /\ UNCHANGED result
  /\ UNCHANGED <<server, fields, op, calls, taken, late>>

RtTried(t) ==
  /\ pc[t] = "rt_tried"
  /\ IF Usable THEN Lock(t, 1) /\ Goto(t, "re_queue") /\ UNCHANGED result
     ELSE Unlock(t, 1) /\ Return(t, "FAIL")
  /\ UNCHANGED <<server, fields, op, calls, taken, late>>

-----------------------------------------------------------------------------
(* esl_disconnect closes the socket before it takes the mutex, clears the  *)
(* handle under it, and takes it once more before destroying it.  Clearing *)
(* leaves zero in handle->sock, which is not the invalid socket.           *)
Disconnect(t) ==
  /\ Begin(t, "disconnect", FALSE)
  /\ IF destroyed THEN Return(t, "FAIL") /\ UNCHANGED sock
     ELSE sock' = FALSE /\ Goto(t, "d_lock") /\ UNCHANGED result
  /\ UNCHANGED <<server, connected, destroyed, mutexSet, buf, left, race, lastSr,
                 mutex, taken, late>>

(* Bug: the handle is cleared without waiting for its users.               *)
DLockNever(t) ==
  /\ pc[t] = "d_lock"
  /\ Goto(t, "d_clear")
  /\ UNCHANGED <<server, fields, mutex, op, calls, result, taken, late>>

DLock(t) ==
  /\ pc[t] = "d_lock" /\ Free(t)
  /\ Lock(t, 1)
  /\ Goto(t, "d_clear")
  /\ UNCHANGED <<server, fields, op, calls, result, taken, late>>

DClear(t) ==
  /\ pc[t] = "d_clear"
  /\ connected' = FALSE /\ destroyed' = TRUE /\ mutexSet' = FALSE
  /\ buf' = <<>> /\ left' = FALSE /\ race' = <<>> /\ lastSr' = None /\ sock' = TRUE
  /\ owner' = None /\ depth' = 0
  /\ Goto(t, "d_relock")
  /\ UNCHANGED <<server, freed, op, calls, result, taken, late>>

DRelock(t) ==
  /\ pc[t] = "d_relock" /\ Free(t)
  /\ Goto(t, "d_destroy")
  /\ UNCHANGED <<server, fields, mutex, op, calls, result, taken, late>>

(* pthread_mutex_destroy refuses a mutex that is held.                     *)
DDestroy(t) ==
  /\ pc[t] = "d_destroy"
  /\ freed' = (freed \/ owner = None)
  /\ Return(t, "SUCCESS")
  /\ UNCHANGED <<server, fields, owner, depth, op, calls, taken, late>>

-----------------------------------------------------------------------------
Continue(t) ==
  \/ SrSend(t) \/ SrSent(t) \/ SrRecv(t) \/ SrPoll(t) \/ SrTried(t) \/ SrGot(t)
  \/ SrWindow(t) \/ SrRelock(t) \/ SrCheck(t)
  \/ ReLock(t) \/ ReQueue(t) \/ Read(t) \/ Fetch(t) \/ ReadFails(t) \/ ReFailed(t)
  \/ RtLook(t) \/ RtRecv(t) \/ RtEnter(t) \/ RtUnlock(t) \/ RtPoll(t)
  \/ RtTry(t) \/ RtTried(t)
  \/ DLock(t) \/ DClear(t) \/ DRelock(t) \/ DDestroy(t)

Call(t) == \/ Send(t) \/ Disconnect(t)
           \/ \E name \in Requests : SendRecv(t, name)
           \/ \E q \in CheckQ : Recv(t, q) \/ RecvTimed(t, q)

Next == \/ ServerReplies \/ ServerEvent \/ ServerCloses
        \/ \E t \in Thread : Call(t) \/ Continue(t)

(* A thread inside a call keeps running and the server answers what it was *)
(* asked.  Nobody has to make a call, to send an event or to close.        *)
Spec == /\ Init /\ [][Next]_vars
        /\ \A t \in Thread : WF_vars(Continue(t))
        /\ WF_vars(ServerReplies)

-----------------------------------------------------------------------------
Labels == {"idle", "sr_lock", "sr_send", "sr_recv", "sr_poll", "sr_tried", "sr_got",
           "sr_window", "sr_relock", "sr_check", "re_lock", "re_queue", "read", "re_failed",
           "rt_lock", "rt_recv", "rt_enter", "rt_locked", "rt_poll", "rt_try", "rt_tried",
           "d_lock", "d_clear", "d_relock", "d_destroy"}

Statuses == {"none", "SUCCESS", "FAIL", "BREAK"}

(* Every variable keeps the type of the field it stands for.               *)
TypeOK ==
  /\ commands \in Seq(Thread \X Nat)
  /\ wire \in Seq(Packet) /\ buf \in Seq(Packet)
  /\ race \in Seq(Packet) /\ taken \in Seq(Packet)
  /\ eventsSent \in 0 .. MaxEvents
  /\ lastSr \in Packet \cup {None}
  /\ {closed, sock, connected, destroyed, mutexSet, left, freed, late} \subseteq BOOLEAN
  /\ owner \in Thread \cup {None} /\ depth \in Nat
  /\ pc \in [Thread -> Labels]
  /\ op \in [Thread -> [name : AllOps \cup {"none"}, q : BOOLEAN]]
  /\ calls \in [Thread -> 0 .. MaxCalls]
  /\ result \in [Thread -> [status : Statuses, packet : Packet \cup {None}]]

(* How often a thread at a point of its call holds the mutex.              *)
HoldsAt(t) ==
  CASE pc[t] \in {"sr_send", "sr_recv", "sr_poll", "sr_got", "sr_check", "rt_recv",
                  "rt_locked", "rt_tried", "d_clear"} -> 1
    [] pc[t] = "sr_tried" -> 2
    [] pc[t] \in {"read", "re_queue"} -> Held(t)
    [] pc[t] = "re_failed" -> Held(t) - 1
    [] OTHER -> 0

(* Until a disconnect has cleared the handle, the calls nest their locks   *)
(* exactly: at every point the thread that holds the mutex holds it as     *)
(* often as its path has taken it, nobody else does, and a call that has   *)
(* returned, on success, failure or timeout, holds nothing (esl_recv_event *)
(* under esl_send_recv_timed, esl_recv_event_timed's trylock, the fail     *)
(* paths).                                                                 *)
LockBalanced ==
  ~destroyed => \A t \in Thread : HoldsAt(t) = IF owner = t THEN depth ELSE 0

(* The packet esl_send_recv_timed has read and is about to queue.          *)
InFlight == IF lastSr # None /\ lastSr.ct = "event" THEN <<lastSr>> ELSE <<>>

(* Where the packets are, from the application back to the server.         *)
Journey == taken \o race \o InFlight \o buf \o wire

(* The packets of s that show the content type of an event are those of    *)
(* the first n events, each once and in order.                             *)
InOrder(s, n) ==
  LET events == {i \in DOMAIN s : s[i].ct = "event"}
  IN /\ {s[i].id[2] : i \in events} = 1 .. n
     /\ \A i, k \in events : i < k => s[i].id[2] < s[k].id[2]

(* Receivers that look at the queue (check_q) get every event once, in the *)
(* order the server sent them, whoever read it from the connection: what   *)
(* they were given, then the race queue, then what esl_send_recv_timed is  *)
(* about to queue, then the packet buffer, then the wire are all events    *)
(* sent so far.  An event counts as its packet with the content type: the  *)
(* packet that its body has become shows none, and a request takes that    *)
(* for a reply.                                                            *)
EventsInOrder == ~destroyed => InOrder(Journey, eventsSent)

(* esl_send_recv_timed returns the answer to the command it sent: not      *)
(* behind one that gave up at its time limit.                              *)
ReplyMatches ==
  \A t \in Thread :
    (pc[t] = "idle" /\ op[t].name \in Requests /\ result[t].status = "SUCCESS") =>
      result[t].packet = [of |-> "reply", id |-> <<t, calls[t]>>, ct |-> "none"]

(* It does as long as no request has given up at its time limit and left   *)
(* its reply to the next one.                                              *)
RepliesMatchInTime == late \/ ReplyMatches

(* A receive or a request that reports success has a packet to show for    *)
(* it: esl_disconnect clears the handle only while no other thread is      *)
(* between reading a packet and returning it.                              *)
SuccessHasPacket ==
  \A t \in Thread :
    /\ pc[t] = "idle" /\ op[t].name \in {"recv", "recv_timed"} \cup Requests
    /\ result[t].status = "SUCCESS"
    => result[t].packet # None

(* A packet is read from the connection by one thread at a time, and the   *)
(* reply of a request is examined before another thread reads (the mutex   *)
(* is held from sending to examining).                                     *)
ReaderAlone ==
  \A t, u \in Thread :
    pc[t] \in {"read", "sr_got", "sr_send"} /\ pc[u] \in {"read", "sr_got", "sr_send"}
      => t = u

(* A request that was made returns: with its answer, at its time limit, or *)
(* because the connection is lost.                                         *)
SendRecvReturns ==
  \A t \in Thread :
    (op[t].name \in Requests /\ pc[t] # "idle") ~> (pc[t] = "idle")

(* esl_disconnect returns.                                                 *)
DisconnectReturns ==
  \A t \in Thread :
    (op[t].name = "disconnect" /\ pc[t] # "idle") ~> (pc[t] = "idle")
=============================================================================
