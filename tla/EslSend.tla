------------------------------- MODULE EslSend -------------------------------
(***************************************************************************)
(* Commands on their way to the server: the calls that build one, the send *)
(* loops of esl_send, which pass it to the socket piece by piece, and the  *)
(* threads that do so on one handle, with its mutex (esl_send_recv and all *)
(* that is built on it) or without (esl_send) (src/src/esl.c).             *)
(*                                                                         *)
(* A text is a sequence of characters; a word that never changes counts as *)
(* one of them, and the sizes of the buffers are scaled accordingly.  A    *)
(* signal that interrupts send repeats it at once and is no step of the    *)
(* model.  What is received between a command and its reply is the subject *)
(* of EslHandle: here the thread waits for it, with the mutex but for the  *)
(* moment behind an event, and may stop waiting.                           *)
(***************************************************************************)
EXTENDS Integers, Sequences

CONSTANTS
  Thread, None, Char,
  Request,                 \* the calls that threads make, with their arguments
  CmdSize, AppSize, ArgSize, SendSize,   \* char arrays in esl_execute
  LineSize,                \* send_buf in esl_filter and esl_events
  Reserve,                 \* what esl_sendmsg adds to the length of its event
  Room,                    \* bytes that the socket holds
  MaxCalls                 \* bound: calls in a behaviour

LF == "\n"

(* The words that are in commands.                                         *)
Words == {LF, " ", "sendmsg", "sendmsg ", "call-command: execute", "execute-app-name: ",
          "execute-app-arg: ", "event-lock: true", "async: true", "sendevent ", "CUSTOM",
          "filter", "event"}

ASSUME CharAssumption == Words \subseteq Char

ASSUME SendAssumption ==
  /\ {CmdSize, AppSize, ArgSize, SendSize, LineSize, Reserve, Room} \subseteq Nat \ {0}
  /\ MaxCalls \in Nat
  /\ None \notin Thread

Text == Seq(Char)
Optional == {None} \cup Text

(* What a call of each kind is given: None stands for a null pointer, an   *)
(* event for its serialized form, and flags for what the handle adds.      *)
ASSUME RequestAssumption ==
  Request \subseteq
    [op : {"send"}, text : Text]
      \cup [op : {"execute"}, uuid : Optional, app : Optional, arg : Optional,
            flags : SUBSET {"event-lock", "async"}]
      \cup [op : {"sendmsg"}, uuid : Optional, event : Text]
      \cup [op : {"sendevent"}, event : Text]
      \cup [op : {"filter", "event"}, first : Text, second : Text]

VARIABLES
  connected,  \* handle->connected
  owner,      \* the thread that holds handle->mutex, or None
  pc,
  req,        \* what the thread's call was given
  calls,      \* how many calls there were
  call,       \* which of them is the thread's last
  part,       \* which loop of esl_send it is in
  sent,       \* sent_total in that loop
  result,     \* what its last call returned
  wire,       \* everything the socket has taken
  queued,     \* how much of it the server has not read yet
  lost,       \* the connection is gone
  blocking    \* send waits for room: no O_NONBLOCK on the socket

handle == <<connected, owner>>
socket == <<wire, queued, lost, blocking>>
vars == <<handle, pc, req, calls, call, part, sent, result, socket>>

-----------------------------------------------------------------------------
(* The texts.  snprintf cuts what does not fit.                            *)
Cut(text, size) == IF Len(text) < size THEN text ELSE SubSeq(text, 1, size - 1)

(* Bug: the terminating NUL is not counted.                                *)
FitsWithoutNul(text, size) == Len(text) <= size

(* written < sizeof buf.                                                   *)
Fits(text, size) == Len(text) < size

(* A line with an argument, or nothing without one.                        *)
Line(word, argument) == IF argument = None THEN <<>> ELSE <<word>> \o argument \o <<LF>>

(* A call that cannot print its command fails before anything is sent.     *)
Refused == <<>>

SendMsgLine(uuid) == IF uuid = None THEN <<"sendmsg">> ELSE <<"sendmsg ">> \o uuid

Lines(flags) ==
  (IF "event-lock" \in flags THEN <<"event-lock: true", LF>> ELSE <<>>)
    \o (IF "async" \in flags THEN <<"async: true", LF>> ELSE <<>>)

Execute(r) ==
  LET cmd == SendMsgLine(r.uuid)
      app == Line("execute-app-name: ", r.app)
      arg == Line("execute-app-arg: ", r.arg)
      text == Cut(cmd, CmdSize) \o <<LF, "call-command: execute", LF>> \o Cut(app, AppSize)
                \o Cut(arg, ArgSize) \o Lines(r.flags) \o <<LF>>
  IN IF Fits(cmd, CmdSize) /\ Fits(app, AppSize) /\ Fits(arg, ArgSize) /\ Fits(text, SendSize)
     THEN Cut(text, SendSize) ELSE Refused

(* esl_sendmsg does not look at what snprintf returns.                     *)
SendMsg(r) == Cut(SendMsgLine(r.uuid) \o <<LF>> \o r.event, Len(r.event) + Reserve)

(* Nor does esl_sendevent, but the name of an event is never too long.     *)
SendEvent(r) == <<"sendevent ", "CUSTOM", LF>> \o r.event

(* esl_filter and esl_events: the blank line is part of the text.          *)
TwoWords(word, r) ==
  LET text == <<word>> \o r.first \o <<" ">> \o r.second \o <<LF, LF>>
  IN IF Fits(text, LineSize) THEN Cut(text, LineSize) ELSE Refused

Command(r) ==
  CASE r.op = "send" -> r.text
    [] r.op = "execute" -> Execute(r)
    [] r.op = "sendmsg" -> SendMsg(r)
    [] r.op = "sendevent" -> SendEvent(r)
    [] r.op \in {"filter", "event"} -> TwoWords(r.op, r)

(* esl_send sends two line feeds behind a command that does not end so.    *)
Ended(cmd) ==
  Len(cmd) >= 2 /\ cmd[Len(cmd)] = LF /\ cmd[Len(cmd) - 1] = LF

Size(cmd) == IF Ended(cmd) THEN Len(cmd) ELSE Len(cmd) + 2

-----------------------------------------------------------------------------
NoRequest == [op |-> "none"]

(* A socket from esl_connect_timeout is a blocking one, whether it was      *)
(* connected with a time limit or without; prepare_sock makes those from   *)
(* accept non-blocking.                                                    *)
Init ==
  /\ connected = TRUE /\ owner = None
  /\ pc = [t \in Thread |-> "idle"]
  /\ req = [t \in Thread |-> NoRequest]
  /\ calls = 0 /\ call = [t \in Thread |-> 0]
  /\ part = [t \in Thread |-> "cmd"]
  /\ sent = [t \in Thread |-> 0]
  /\ result = [t \in Thread |-> "none"]
  /\ wire = <<>> /\ queued = 0 /\ lost = FALSE /\ blocking \in BOOLEAN

Locked(t) == req[t].op # "send"

Goto(t, label) == pc' = [pc EXCEPT ![t] = label]

(* The call ends; esl_send_recv_timed unlocks on every way out.            *)
Return(t, status) ==
  /\ Goto(t, "idle")
  /\ result' = [result EXCEPT ![t] = status]
  /\ req' = [req EXCEPT ![t] = NoRequest]
  /\ part' = [part EXCEPT ![t] = "cmd"]
  /\ sent' = [sent EXCEPT ![t] = 0]
  /\ owner' = IF owner = t THEN None ELSE owner

Stays(t) == UNCHANGED <<req, part, sent, result, owner>>

(* Every call looks at connected before it takes the mutex, and one that   *)
(* builds its command fails when the command does not fit.                 *)
Begin(t) ==
  /\ pc[t] = "idle" /\ calls < MaxCalls
  /\ \E r \in Request :
       IF ~connected \/ Command(r) = Refused
       THEN Return(t, "FAIL")
       ELSE /\ req' = [req EXCEPT ![t] = r]
            /\ Goto(t, IF r.op = "send" THEN "send" ELSE "lock")
            /\ UNCHANGED <<part, sent, result, owner>>
  /\ calls' = calls + 1 /\ call' = [call EXCEPT ![t] = calls + 1]
  /\ UNCHANGED <<connected, socket>>

LockMutex(t) ==
  /\ pc[t] = "lock" /\ owner = None
  /\ owner' = t
  /\ Goto(t, "check")
  /\ UNCHANGED <<connected, req, calls, call, part, sent, result, socket>>

(* esl_send_recv_timed and esl_send look at connected.                     *)
Check(t) ==
  /\ pc[t] = "check"
  /\ IF connected THEN Goto(t, "send") /\ Stays(t) ELSE Return(t, "FAIL")
  /\ UNCHANGED <<connected, calls, call, socket>>

-----------------------------------------------------------------------------
(* One of the two loops of esl_send.  What is still to be sent:            *)
Before(t) == (IF part[t] = "cmd" THEN 0 ELSE Len(Command(req[t]))) + sent[t]
Remaining(t) == (IF part[t] = "cmd" THEN Len(Command(req[t])) ELSE 2) - sent[t]

(* The n-th byte of a call.                                                *)
Byte(t, n) == [call |-> call[t], locked |-> Locked(t), at |-> n,
               last |-> n = Size(Command(req[t]))]

(* send takes some of it.  On a blocking socket it waits for room first,   *)
(* without limit.                                                          *)
Taken(t) ==
  /\ pc[t] = "send" /\ ~lost
  /\ \E k \in 1 .. Remaining(t) :
       /\ queued + k <= Room
       /\ wire' = wire \o [i \in 1 .. k |-> Byte(t, Before(t) + i)]
       /\ queued' = queued + k
       /\ sent' = [sent EXCEPT ![t] = @ + k]
  /\ UNCHANGED <<handle, pc, req, calls, call, part, result, lost, blocking>>

(* EAGAIN: poll for a second.                                              *)
Full(t) ==
  /\ pc[t] = "send" /\ Remaining(t) > 0 /\ queued = Room /\ ~lost /\ ~blocking
  /\ Goto(t, "wait")
  /\ UNCHANGED <<handle, req, calls, call, part, sent, result, socket>>

Writable(t) ==
  /\ pc[t] = "wait" /\ queued < Room /\ ~lost
  /\ Goto(t, "send")
  /\ UNCHANGED <<handle, req, calls, call, part, sent, result, socket>>

(* Bug: the connection is not given up.                                    *)
GiveUpStaying(t) == Return(t, "FAIL") /\ UNCHANGED connected

(* A failure of esl_send: half a command may have left.                    *)
GiveUp(t) == Return(t, "FAIL") /\ connected' = FALSE

SendFails(t) ==
  /\ pc[t] = "send" /\ Remaining(t) > 0 /\ lost
  /\ GiveUp(t)
  /\ UNCHANGED <<calls, call, socket>>

(* Bug: a second without room is followed by another.                      *)
WaitFailsWhenLost(t) ==
  /\ pc[t] = "wait" /\ lost
  /\ GiveUp(t)
  /\ UNCHANGED <<calls, call, socket>>

(* The second is over, a signal comes, or the connection is lost.          *)
WaitFails(t) ==
  /\ pc[t] = "wait"
  /\ GiveUp(t)
  /\ UNCHANGED <<calls, call, socket>>

(* Bug: sent_total is not reset before the second loop.                    *)
NextLoopCounting(t) ==
  /\ pc[t] = "send" /\ Remaining(t) = 0
  /\ part[t] = "cmd" /\ ~Ended(Command(req[t]))
  /\ part' = [part EXCEPT ![t] = "terminator"]
  /\ sent' = [sent EXCEPT ![t] = IF @ < 2 THEN @ ELSE 2]
  /\ UNCHANGED <<handle, pc, req, calls, call, result, socket>>

(* The first loop is through, and the blank line is missing.               *)
NextLoop(t) ==
  /\ pc[t] = "send" /\ Remaining(t) = 0
  /\ part[t] = "cmd" /\ ~Ended(Command(req[t]))
  /\ part' = [part EXCEPT ![t] = "terminator"]
  /\ sent' = [sent EXCEPT ![t] = 0]
  /\ UNCHANGED <<handle, pc, req, calls, call, result, socket>>

(* All is sent.  A raw sender returns, the others wait for the reply.      *)
AllSent(t) ==
  /\ pc[t] = "send" /\ Remaining(t) = 0
  /\ part[t] = "terminator" \/ Ended(Command(req[t]))
  /\ IF Locked(t) THEN Goto(t, "reply") /\ Stays(t) ELSE Return(t, "SUCCESS")
  /\ UNCHANGED <<connected, calls, call, socket>>

(* Receiving ends: with a reply, with the time limit reached and the       *)
(* connection kept, or with the connection given up.                       *)
ReplyEnds(t) ==
  /\ pc[t] = "reply"
  /\ \/ \E status \in {"SUCCESS", "BREAK"} : Return(t, status) /\ UNCHANGED connected
     \/ GiveUp(t)
  /\ UNCHANGED <<calls, call, socket>>

(* An event came instead: it is put aside, and the mutex is free for a     *)
(* moment.                                                                 *)
Window(t) ==
  /\ pc[t] = "reply"
  /\ owner' = None
  /\ Goto(t, "relock")
  /\ UNCHANGED <<connected, req, calls, call, part, sent, result, socket>>

LockAgain(t) ==
  /\ pc[t] = "relock" /\ owner = None
  /\ owner' = t
  /\ Goto(t, "recheck")
  /\ UNCHANGED <<connected, req, calls, call, part, sent, result, socket>>

CheckAgain(t) ==
  /\ pc[t] = "recheck"
  /\ IF connected THEN Goto(t, "reply") /\ Stays(t) /\ UNCHANGED connected ELSE GiveUp(t)
  /\ UNCHANGED <<calls, call, socket>>

Receiving(t) == ReplyEnds(t) \/ Window(t) \/ LockAgain(t) \/ CheckAgain(t)

-----------------------------------------------------------------------------
(* The server reads, or does not for as long as it likes.                  *)
ServerReads ==
  /\ queued > 0 /\ queued' \in 0 .. queued - 1
  /\ UNCHANGED <<handle, pc, req, calls, call, part, sent, result, wire, lost, blocking>>

ConnectionLost ==
  /\ ~lost /\ lost' = TRUE
  /\ UNCHANGED <<handle, pc, req, calls, call, part, sent, result, wire, queued,
                 blocking>>

(* What a thread inside esl_send goes on with.                             *)
Sending(t) == Taken(t) \/ Full(t) \/ Writable(t) \/ SendFails(t) \/ WaitFails(t)
              \/ NextLoop(t) \/ AllSent(t)

Next == \/ ServerReads \/ ConnectionLost
        \/ \E t \in Thread : Begin(t) \/ LockMutex(t) \/ Check(t) \/ Sending(t) \/ Receiving(t)

(* A thread inside esl_send keeps running: on a blocking socket only when  *)
(* there is room, and nothing says there ever is.  The server need not     *)
(* read.                                                                   *)
Spec == Init /\ [][Next]_vars /\ \A t \in Thread : WF_vars(Sending(t))

-----------------------------------------------------------------------------
(* A command goes to the socket byte by byte in its order, none is left    *)
(* out or sent twice however send cuts it up and however often it has to   *)
(* wait, and a call that reports success, or a reply that did not come in  *)
(* time, has sent all of it with the blank line behind it.                 *)
BytesInOrder ==
  /\ \A i, j \in DOMAIN wire :
       wire[i].call = wire[j].call /\ i < j => wire[i].at < wire[j].at
  /\ \A i \in DOMAIN wire : \A n \in 1 .. wire[i].at - 1 :
       \E j \in 1 .. i - 1 : wire[j].call = wire[i].call /\ wire[j].at = n
  /\ \A t \in Thread :
       \/ pc[t] \in {"reply", "relock", "recheck"}
       \/ result[t] \in {"SUCCESS", "BREAK"} /\ pc[t] = "idle"
       => \E i \in DOMAIN wire : wire[i].call = call[t] /\ wire[i].last

(* Calls that hold the mutex do not mix their commands, and half a command *)
(* is the last thing any of them puts on the connection: when a command of *)
(* theirs follows another one, the other one is complete.  Raw senders are *)
(* not stopped by this.                                                    *)
CommandsWhole ==
  \A i, j \in DOMAIN wire :
    i < j /\ wire[i].locked /\ wire[j].locked /\ wire[i].call # wire[j].call =>
      \E k \in 1 .. j - 1 : wire[k].call = wire[i].call /\ wire[k].last

Contains(text, piece) ==
  \E i \in 0 .. Len(text) - Len(piece) : SubSeq(text, i + 1, i + Len(piece)) = piece

(* What a call was given.                                                  *)
Asked(r) ==
  CASE r.op = "execute" -> {SendMsgLine(r.uuid) \o <<LF>>, Line("execute-app-name: ", r.app),
                            Line("execute-app-arg: ", r.arg), Lines(r.flags)}
    [] r.op = "sendmsg" -> {SendMsgLine(r.uuid) \o <<LF>>, r.event}
    [] r.op = "sendevent" -> {r.event}
    [] r.op \in {"filter", "event"} -> {r.first \o <<" ">> \o r.second \o <<LF>>}
    [] OTHER -> {}

(* A command that is sent says all its call was given: where an argument   *)
(* is too long for the buffers the call fails and sends nothing, and never *)
(* a part of it.  The exception is esl_sendmsg with a uuid longer than     *)
(* what it reserves.                                                       *)
SaysAll ==
  \A t \in Thread :
    /\ pc[t] # "idle"
    /\ req[t].op = "sendmsg" => Len(SendMsgLine(req[t].uuid)) + 1 < Reserve
    => \A piece \in Asked(req[t]) : Contains(Command(req[t]), piece)

(* On a socket from accept, esl_send returns also when the server never    *)
(* reads again: a second without room is its last.  On one from            *)
(* esl_connect_timeout it waits inside send, with the mutex where the call *)
(* has it, and returns only when the server goes on reading or the         *)
(* connection is lost.                                                     *)
SendReturns ==
  []<>(blocking => queued < Room \/ lost) =>
  \A t \in Thread : (pc[t] \in {"send", "wait"}) ~> (pc[t] \in {"idle", "reply"})
=============================================================================
