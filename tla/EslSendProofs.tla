---------------------------- MODULE EslSendProofs ----------------------------
(***************************************************************************)
(* Proofs about EslSend for any number of threads and calls, every text    *)
(* and every size of the buffers: BytesInOrder, CommandsWhole and SaysAll. *)
(*                                                                         *)
(* None is inductive.  What the first two need besides is, for the thread  *)
(* that is in the middle of a command, which of its bytes are on the wire  *)
(* (Sent), and, for a command that is not complete, that its sender is     *)
(* still at it or that nobody can send any more (Whole).  The last one     *)
(* needs that no call goes on whose command was refused (Printed).         *)
(***************************************************************************)
EXTENDS EslSend, SequenceTheorems, TLAPS

Labels == {"idle", "lock", "check", "send", "wait", "reply", "relock", "recheck"}
Bytes == [call : Nat, locked : BOOLEAN, at : Nat, last : BOOLEAN]

Typed ==
  /\ connected \in BOOLEAN
  /\ pc \in [Thread -> Labels]
  /\ req \in [Thread -> Request \cup {NoRequest}]
  /\ calls \in Nat /\ call \in [Thread -> Nat]
  /\ part \in [Thread -> {"cmd", "terminator"}]
  /\ sent \in [Thread -> Nat]
  /\ result \in [Thread -> {"none", "SUCCESS", "BREAK", "FAIL"}]
  /\ wire \in Seq(Bytes)
  /\ \A t \in Thread : pc[t] # "idle" => req[t] \in Request

InLoop(t) == pc[t] \in {"send", "wait"}
Sender(t) == InLoop(t) /\ Locked(t)
Cmd(t) == Command(req[t])

(* All of the command is sent, and the reply has not come yet.             *)
Awaits(t) == pc[t] \in {"reply", "relock", "recheck"}

(* How many bytes of the call are on the wire.                             *)
Position(t) == CASE InLoop(t) -> Before(t)
                 [] Awaits(t) -> Size(Cmd(t))
                 [] OTHER -> 0

(* No two threads are in the same call, and no byte is of a later one.     *)
Counted ==
  /\ \A t \in Thread : call[t] <= calls /\ (pc[t] # "idle" => call[t] > 0)
  /\ \A t, u \in Thread : t # u /\ call[t] = call[u] => call[t] = 0
  /\ \A i \in DOMAIN wire : wire[i].call <= calls /\ wire[i].at > 0

Holding == \A t \in Thread : pc[t] \in {"check", "reply", "recheck"} \/ Sender(t) => owner = t

Looping ==
  \A t \in Thread :
    /\ pc[t] \in {"idle", "lock", "check"} => part[t] = "cmd" /\ sent[t] = 0
    /\ InLoop(t) /\ part[t] = "cmd" => sent[t] <= Len(Cmd(t))
    /\ InLoop(t) /\ part[t] = "terminator" => sent[t] <= 2 /\ ~Ended(Cmd(t))

(* The bytes of a call in progress are those up to its position.           *)
Sent ==
  \A t \in Thread : pc[t] # "idle" =>
    /\ \A i \in DOMAIN wire : wire[i].call = call[t] =>
         /\ wire[i].at <= Position(t)
         /\ wire[i].last = (wire[i].at = Size(Cmd(t)))
    /\ \A n \in 1 .. Position(t) :
         \E i \in DOMAIN wire : wire[i].call = call[t] /\ wire[i].at = n

Complete(c) == \E k \in DOMAIN wire : wire[k].call = c /\ wire[k].last

(* Half a command of a sender with the mutex is still being sent, or is    *)
(* the last there is.                                                      *)
Whole ==
  \A i \in DOMAIN wire : wire[i].locked =>
    \/ Complete(wire[i].call)
    \/ \E t \in Thread : Sender(t) /\ call[t] = wire[i].call
    \/ ~connected /\ \A t \in Thread : ~Sender(t)

(* The parts of BytesInOrder: about the wire, and about the results.       *)
Ordered ==
  /\ \A i, j \in DOMAIN wire :
       wire[i].call = wire[j].call /\ i < j => wire[i].at < wire[j].at
  /\ \A i \in DOMAIN wire : \A n \in 1 .. wire[i].at - 1 :
       \E j \in 1 .. i - 1 : wire[j].call = wire[i].call /\ wire[j].at = n

Reported ==
  \A t \in Thread :
    Awaits(t) \/ (result[t] \in {"SUCCESS", "BREAK"} /\ pc[t] = "idle") => Complete(call[t])

IInv == /\ Typed /\ Counted /\ Holding /\ Looping /\ Sent /\ Whole
        /\ Ordered /\ Reported /\ CommandsWhole

(* What a step of another thread leaves alone.                             *)
Untouched(u) ==
  /\ pc'[u] = pc[u] /\ req'[u] = req[u] /\ part'[u] = part[u] /\ sent'[u] = sent[u]
  /\ call'[u] = call[u] /\ result'[u] = result[u]

-----------------------------------------------------------------------------
(* Texts are made of words and of texts.                                   *)
LEMMA Texts ==
  /\ <<>> \in Text
  /\ \A a \in Char : <<a>> \in Text
  /\ \A a, b \in Char : <<a, b>> \in Text
  /\ \A a, b, c \in Char : <<a, b, c>> \in Text
  /\ \A s, u \in Text : s \o u \in Text
<1>1. <<>> \in Text
  BY DEF Text
<1>2. \A a \in Char : <<a>> \in Text
  BY DEF Text
<1>3. \A a, b \in Char : <<a, b>> \in Text
  BY DEF Text
<1>4. \A a, b, c \in Char : <<a, b, c>> \in Text
  BY DEF Text
<1>5. \A s, u \in Text : s \o u \in Text
  BY DEF Text
<1>6. QED
  BY <1>1, <1>2, <1>3, <1>4, <1>5

(* snprintf leaves a text a text.                                          *)
LEMMA CutText ==
  ASSUME NEW s \in Text, NEW n \in Nat, n > 0
  PROVE  Cut(s, n) \in Text
<1>1. CASE Len(s) < n
  BY <1>1 DEF Cut
<1>2. CASE ~(Len(s) < n)
  BY <1>2 DEF Cut, Text
<1>3. QED
  BY <1>1, <1>2

(* Every call builds a finite text.                                        *)
LEMMA CommandText ==
  ASSUME NEW r \in Request
  PROVE  Command(r) \in Text
<1>a. /\ CmdSize \in Nat /\ AppSize \in Nat /\ ArgSize \in Nat
      /\ SendSize \in Nat /\ LineSize \in Nat /\ Reserve \in Nat
      /\ CmdSize > 0 /\ AppSize > 0 /\ ArgSize > 0
      /\ SendSize > 0 /\ LineSize > 0 /\ Reserve > 0
  BY SendAssumption
<1>b. \A u \in Optional : SendMsgLine(u) \in Text
  BY Texts, CharAssumption DEF Words, Optional, SendMsgLine
<1>c. \A w \in Char, u \in Optional : Line(w, u) \in Text
  BY Texts, CharAssumption DEF Words, Optional, Line
<1>1. CASE r.op = "send"
  <2>1. r \in [op : {"send"}, text : Text]
    BY <1>1, RequestAssumption
  <2> QED
    BY <1>1, <2>1 DEF Command
<1>2. CASE r.op = "execute"
  <2>1. r \in [op : {"execute"}, uuid : Optional, app : Optional, arg : Optional,
               flags : SUBSET {"event-lock", "async"}]
    BY <1>2, RequestAssumption
  <2> DEFINE cmd == SendMsgLine(r.uuid)
             app == Line("execute-app-name: ", r.app)
             arg == Line("execute-app-arg: ", r.arg)
             text == Cut(cmd, CmdSize) \o <<LF, "call-command: execute", LF>>
                       \o Cut(app, AppSize) \o Cut(arg, ArgSize) \o Lines(r.flags) \o <<LF>>
  <2>2. cmd \in Text /\ app \in Text /\ arg \in Text
    BY <2>1, <1>b, <1>c, CharAssumption DEF Words
  <2>3. Cut(cmd, CmdSize) \in Text /\ Cut(app, AppSize) \in Text /\ Cut(arg, ArgSize) \in Text
    BY <2>2, <1>a, CutText
  <2>4. Lines(r.flags) \in Text
    BY Texts, CharAssumption DEF Words, Lines
  <2>5. text \in Text
    <3> HIDE DEF cmd, app, arg
    <3> QED
      BY <2>3, <2>4, Texts, CharAssumption DEF Words
  <2>6. Cut(text, SendSize) \in Text
    <3> HIDE DEF text
    <3> QED
      BY <2>5, <1>a, CutText
  <2>7. Execute(r) \in {Cut(text, SendSize), Refused}
    BY DEF Execute
  <2>8. Refused \in Text
    BY DEF Refused, Text
  <2>9. Command(r) = Execute(r)
    BY <1>2 DEF Command
  <2> HIDE DEF text
  <2> QED
    BY <2>6, <2>7, <2>8, <2>9
<1>3. CASE r.op = "sendmsg"
  <2>1. r \in [op : {"sendmsg"}, uuid : Optional, event : Text]
    BY <1>3, RequestAssumption
  <2>2. SendMsgLine(r.uuid) \o <<LF>> \o r.event \in Text
    BY <2>1, <1>b, Texts, CharAssumption DEF Words
  <2>3. Len(r.event) + Reserve \in Nat /\ Len(r.event) + Reserve > 0
    BY <2>1, <1>a DEF Text
  <2>4. SendMsg(r) \in Text
    BY <2>2, <2>3, CutText DEF SendMsg
  <2> QED
    BY <1>3, <2>4 DEF Command
<1>4. CASE r.op = "sendevent"
  <2>1. r \in [op : {"sendevent"}, event : Text]
    BY <1>4, RequestAssumption
  <2> QED
    BY <1>4, <2>1, Texts, CharAssumption DEF Words, Command, SendEvent
<1>5. CASE r.op \in {"filter", "event"}
  <2>1. r \in [op : {"filter", "event"}, first : Text, second : Text]
    BY <1>5, RequestAssumption
  <2> DEFINE text == <<r.op>> \o r.first \o <<" ">> \o r.second \o <<LF, LF>>
  <2>2. text \in Text
    BY <2>1, Texts, CharAssumption DEF Words
  <2>3. Cut(text, LineSize) \in Text
    <3> HIDE DEF text
    <3> QED
      BY <2>2, <1>a, CutText
  <2>4. TwoWords(r.op, r) \in {Cut(text, LineSize), Refused}
    BY DEF TwoWords
  <2>5. Refused \in Text
    BY DEF Refused, Text
  <2> HIDE DEF text
  <2> QED
    BY <1>5, <2>3, <2>4, <2>5 DEF Command
<1>6. r.op \in {"send", "execute", "sendmsg", "sendevent", "filter", "event"}
  BY RequestAssumption
<1>7. QED
  BY <1>1, <1>2, <1>3, <1>4, <1>5, <1>6

(* What is sent of a text in all.                                          *)
LEMMA SizeOfText ==
  ASSUME NEW cmd \in Text
  PROVE  /\ Len(cmd) \in Nat /\ Size(cmd) \in Nat /\ Size(cmd) > 0
         /\ Ended(cmd) => Size(cmd) = Len(cmd)
         /\ ~Ended(cmd) => Size(cmd) = Len(cmd) + 2
BY DEF Text, Size, Ended

(* The fields of what is on a wire.                                        *)
LEMMA WireBytes ==
  ASSUME NEW w \in Seq(Bytes)
  PROVE  \A i \in DOMAIN w : /\ w[i] \in Bytes /\ w[i].call \in Nat /\ w[i].at \in Nat
                             /\ w[i].locked \in BOOLEAN /\ w[i].last \in BOOLEAN
<1>1. \A i \in DOMAIN w : w[i] \in Bytes
  OBVIOUS
<1>2. QED
  BY <1>1 DEF Bytes

(* The texts of the calls in progress.                                     *)
LEMMA CmdText ==
  ASSUME Typed
  PROVE  \A t \in Thread : pc[t] # "idle" =>
           /\ Len(Cmd(t)) \in Nat /\ Size(Cmd(t)) \in Nat /\ Size(Cmd(t)) > 0
           /\ Ended(Cmd(t)) => Size(Cmd(t)) = Len(Cmd(t))
           /\ ~Ended(Cmd(t)) => Size(Cmd(t)) = Len(Cmd(t)) + 2
BY CommandText, SizeOfText DEF Typed, Cmd

(* A thread keeps its place while others run.                              *)
LEMMA Others ==
  ASSUME NEW u \in Thread, Untouched(u)
  PROVE  /\ Position(u)' = Position(u) /\ Cmd(u)' = Cmd(u)
         /\ InLoop(u)' = InLoop(u) /\ Sender(u)' = Sender(u) /\ Locked(u)' = Locked(u)
BY DEF Untouched, Position, Cmd, InLoop, Sender, Locked, Before, Awaits

(* The position of a call never exceeds its text.                          *)
LEMMA PositionType ==
  ASSUME Typed, Looping, NEW t \in Thread
  PROVE  /\ Position(t) \in Nat
         /\ InLoop(t) /\ part[t] = "cmd" => Position(t) = sent[t]
         /\ InLoop(t) /\ part[t] = "terminator" => Position(t) = Len(Cmd(t)) + sent[t]
         /\ Awaits(t) => Position(t) = Size(Cmd(t))
BY CmdText DEF Typed, Looping, Position, InLoop, Before, Labels, Cmd, Awaits

(* What is only about the wire.                                            *)
LEMMA WireKept ==
  ASSUME Ordered, CommandsWhole, wire' = wire
  PROVE  Ordered' /\ CommandsWhole' /\ \A c : Complete(c)' = Complete(c)
BY DEF Ordered, CommandsWhole, Complete

(* A call that ends, for whatever reason, leaves the invariant behind.     *)
LEMMA Ends ==
  ASSUME IInv, NEW t \in Thread, pc[t] # "idle",
         NEW status \in {"SUCCESS", "BREAK", "FAIL"}, Return(t, status),
         wire' = wire, calls' = calls, call' = call,
         connected' \in {connected, FALSE},
         Sender(t) => ~connected' \/ Complete(call[t]),
         status # "FAIL" => Complete(call[t])
  PROVE  IInv'
<1> USE DEF IInv
<1>u. \A u \in Thread : u # t => Untouched(u)
  BY DEF Typed, Untouched, Return, Goto
<1>o. \A u \in Thread : u # t =>
        /\ Position(u)' = Position(u) /\ Cmd(u)' = Cmd(u)
        /\ InLoop(u)' = InLoop(u) /\ Sender(u)' = Sender(u) /\ Locked(u)' = Locked(u)
  BY <1>u, Others
<1>t. /\ pc'[t] = "idle" /\ result'[t] = status /\ part'[t] = "cmd" /\ sent'[t] = 0
      /\ ~InLoop(t)' /\ ~Sender(t)'
  BY DEF Typed, Return, Goto, InLoop, Sender
<1>w. Ordered' /\ CommandsWhole' /\ \A c : Complete(c)' = Complete(c)
  BY WireKept
<1>1. Typed'
  BY DEF Typed, Return, Goto, Labels, NoRequest
<1>2. Counted'
  BY <1>u, <1>t DEF Counted, Untouched
<1>3. Holding'
  BY <1>u, <1>t, <1>o DEF Holding, Untouched, Return
<1>4. Looping'
  BY <1>u, <1>t, <1>o DEF Looping, Untouched
<1>5. Sent'
  BY <1>u, <1>t, <1>o DEF Sent, Untouched
<1>6. Whole'
  <2> SUFFICES ASSUME NEW i \in DOMAIN wire, wire[i].locked
               PROVE  \/ Complete(wire[i].call)
                      \/ \E u \in Thread : Sender(u)' /\ call[u] = wire[i].call
                      \/ ~connected' /\ \A u \in Thread : ~Sender(u)'
    BY <1>w DEF Whole
  <2>1. CASE Sender(t) /\ ~connected'
    BY <2>1, <1>o, <1>t DEF Holding
  <2>2. CASE Sender(t) /\ Complete(call[t])
    BY <2>2, <1>o, <1>t DEF Whole
  <2>3. CASE ~Sender(t)
    BY <2>3, <1>o, <1>t DEF Whole
  <2>4. QED
    BY <2>1, <2>2, <2>3
<1>7. Reported'
  BY <1>u, <1>t, <1>w DEF Reported, Untouched, Awaits
<1>8. QED
  BY <1>1, <1>2, <1>3, <1>4, <1>5, <1>6, <1>7, <1>w

(* A call that begins is in no loop yet and has sent nothing, whether it   *)
(* fails at once or goes on.                                               *)
LEMMA Begins ==
  ASSUME IInv, NEW t \in Thread, Begin(t)
  PROVE  IInv'
<1> USE DEF IInv
<1>u. \A u \in Thread : u # t => Untouched(u)
  BY DEF Typed, Untouched, Begin, Return, Goto
<1>o. \A u \in Thread : u # t =>
        /\ Position(u)' = Position(u) /\ Cmd(u)' = Cmd(u)
        /\ InLoop(u)' = InLoop(u) /\ Sender(u)' = Sender(u) /\ Locked(u)' = Locked(u)
  BY <1>u, Others
<1>s. wire' = wire /\ connected' = connected
  BY DEF Begin, socket
<1>w. Ordered' /\ CommandsWhole' /\ \A c : Complete(c)' = Complete(c)
  BY <1>s, WireKept
<1>a. /\ calls' = calls + 1 /\ call'[t] = calls + 1
      /\ pc[t] = "idle" /\ calls \in Nat /\ call \in [Thread -> Nat]
  BY DEF Typed, Begin
<1>1. Typed'
  <2>1. PICK r \in Request :
          IF ~connected \/ Command(r) = Refused
          THEN Return(t, "FAIL")
          ELSE /\ req' = [req EXCEPT ![t] = r]
               /\ Goto(t, IF r.op = "send" THEN "send" ELSE "lock")
               /\ UNCHANGED <<part, sent, result, owner>>
    BY DEF Begin
  <2>2. /\ calls' \in Nat /\ call' \in [Thread -> Nat]
        /\ wire' = wire /\ connected' = connected
    BY DEF Typed, Begin, socket
  <2>3. CASE Return(t, "FAIL")
    BY <2>2, <2>3 DEF Typed, Return, Goto, Labels, NoRequest
  <2>4. CASE /\ req' = [req EXCEPT ![t] = r]
             /\ Goto(t, IF r.op = "send" THEN "send" ELSE "lock")
             /\ UNCHANGED <<part, sent, result, owner>>
    BY <2>2, <2>4 DEF Typed, Goto, Labels
  <2>5. QED
    BY <2>1, <2>3, <2>4
<1>b. \/ pc'[t] = "idle" /\ result'[t] = "FAIL"
      \/ pc'[t] = "lock"
      \/ pc'[t] = "send" /\ ~Locked(t)'
  BY DEF Typed, Begin, Return, Goto, Locked
<1>c. part'[t] = "cmd" /\ sent'[t] = 0
  BY DEF Typed, Looping, Begin, Return
<1>d. ~Sender(t) /\ ~Sender(t)'
  BY <1>a, <1>b DEF Sender, InLoop
<1>e. owner' = owner \/ owner = t
  BY DEF Begin, Return
<1>f. pc'[t] # "idle" => Position(t)' = 0
  BY <1>b, <1>c DEF Position, InLoop, Before, Awaits
<1>2. Counted'
  <2>1. \A u \in Thread : call[u] \in Nat /\ call[u] <= calls
    BY <1>a DEF Counted
  <2>2. \A u \in Thread : u # t => call'[u] = call[u] /\ pc'[u] = pc[u]
    BY <1>u DEF Untouched
  <2>3. \A i \in DOMAIN wire : wire[i].call \in Nat
    BY WireBytes DEF Typed
  <2>4. \A u \in Thread : call'[u] <= calls' /\ (pc'[u] # "idle" => call'[u] > 0)
    BY <2>1, <2>2, <1>a DEF Counted
  <2>5. \A u, v \in Thread : u # v /\ call'[u] = call'[v] => call'[u] = 0
    BY <2>1, <2>2, <1>a DEF Counted
  <2>6. \A i \in DOMAIN wire : wire[i].call <= calls' /\ wire[i].at > 0
    BY <2>3, <1>a DEF Counted
  <2>7. QED
    BY <2>4, <2>5, <2>6, <1>s DEF Counted
<1>3. Holding'
  BY <1>u, <1>o, <1>b, <1>d, <1>e DEF Holding, Untouched
<1>4. Looping'
  <2>1. \A u \in Thread : u # t =>
          /\ pc'[u] \in {"idle", "lock", "check"} => part'[u] = "cmd" /\ sent'[u] = 0
          /\ InLoop(u)' /\ part'[u] = "cmd" => sent'[u] <= Len(Cmd(u)')
          /\ InLoop(u)' /\ part'[u] = "terminator" => sent'[u] <= 2 /\ ~Ended(Cmd(u)')
    BY <1>u, <1>o DEF Looping, Untouched
  <2>2. InLoop(t)' => 0 <= Len(Cmd(t)')
    <3>1. InLoop(t)' => req'[t] \in Request
      BY <1>1 DEF InLoop, Typed
    <3>2. QED
      BY <3>1, CommandText DEF Cmd, Text
  <2>3. QED
    BY <2>1, <2>2, <1>c DEF Looping
<1>5. Sent'
  <2>1. \A i \in DOMAIN wire : wire[i].call # call'[t]
    BY <1>a DEF Counted, Typed, Bytes
  <2>2. QED
    BY <2>1, <1>u, <1>o, <1>s, <1>f DEF Sent, Untouched
<1>6. Whole'
  BY <1>u, <1>o, <1>w, <1>s, <1>d DEF Whole, Untouched
<1>7. Reported'
  BY <1>u, <1>w, <1>b DEF Reported, Untouched, Awaits
<1>8. QED
  BY <1>1, <1>2, <1>3, <1>4, <1>5, <1>6, <1>7, <1>w

(* A step within a call that keeps its place and sends nothing: waiting    *)
(* for the mutex, for room or for the reply, and from one loop to the      *)
(* next.                                                                   *)
LEMMA GoesOn ==
  ASSUME IInv, NEW t \in Thread,
         \/ LockMutex(t) \/ (connected /\ Check(t)) \/ Full(t) \/ Writable(t) \/ NextLoop(t)
         \/ Window(t) \/ LockAgain(t) \/ (connected /\ CheckAgain(t))
  PROVE  IInv'
<1> USE DEF IInv
<1>u. \A u \in Thread : u # t => Untouched(u)
  BY DEF Typed, Untouched, LockMutex, Check, Full, Writable, NextLoop, Window,
     LockAgain, CheckAgain, Goto, Stays, handle
<1>o. \A u \in Thread : u # t =>
        /\ Position(u)' = Position(u) /\ Cmd(u)' = Cmd(u)
        /\ InLoop(u)' = InLoop(u) /\ Sender(u)' = Sender(u) /\ Locked(u)' = Locked(u)
  BY <1>u, Others
<1>s. /\ wire' = wire /\ connected' = connected /\ calls' = calls /\ call' = call
      /\ req' = req /\ result' = result
  BY DEF LockMutex, Check, Full, Writable, NextLoop, Window, LockAgain, CheckAgain,
     Stays, socket, handle
<1>w. Ordered' /\ CommandsWhole' /\ \A c : Complete(c)' = Complete(c)
  BY <1>s, WireKept
<1>l. Locked(t)' = Locked(t) /\ Cmd(t)' = Cmd(t)
  BY <1>s DEF Locked, Cmd
<1>1. Typed'
  <2>1. /\ \/ \E l \in Labels : Goto(t, l)
           \/ pc' = pc
        /\ part' = part \/ part' = [part EXCEPT ![t] = "terminator"]
        /\ sent' = sent \/ sent' = [sent EXCEPT ![t] = 0]
        /\ pc[t] # "idle"
    BY DEF Typed, LockMutex, Check, Full, Writable, NextLoop, Window, LockAgain,
       CheckAgain, Stays, Labels, handle
  <2>2. pc' \in [Thread -> Labels]
    BY <2>1 DEF Typed, Goto
  <2>3. part' \in [Thread -> {"cmd", "terminator"}] /\ sent' \in [Thread -> Nat]
    <3>1. part \in [Thread -> {"cmd", "terminator"}] /\ sent \in [Thread -> Nat]
      BY DEF Typed
    <3>2. part' \in [Thread -> {"cmd", "terminator"}]
      BY <2>1, <3>1
    <3>3. sent' \in [Thread -> Nat]
      BY <2>1, <3>1
    <3>4. QED
      BY <3>2, <3>3
  <2>4. \A u \in Thread : pc'[u] # "idle" => req'[u] \in Request
    BY <2>1, <1>s DEF Typed, Goto
  <2>5. QED
    BY <2>2, <2>3, <2>4, <1>s DEF Typed
<1>a. CASE LockMutex(t)
  <2>1. /\ pc[t] = "lock" /\ pc'[t] = "check" /\ part' = part /\ sent' = sent
        /\ owner = None /\ owner' = t
    BY <1>a DEF LockMutex, Goto, Typed
  <2>2. Position(t) = 0 /\ Position(t)' = 0 /\ ~Sender(t) /\ ~Sender(t)' /\ ~InLoop(t)'
    BY <2>1 DEF Position, Sender, InLoop, Awaits
  <2>3. \A u \in Thread : owner # u
    BY <2>1, SendAssumption
  <2>4. Holding'
    BY <1>u, <1>o, <2>1, <2>2, <2>3 DEF Holding, Untouched
  <2> QED
    BY <1>u, <1>o, <1>s, <1>w, <1>l, <1>1, <2>1, <2>2, <2>4
    DEF Counted, Looping, Sent, Whole, Reported, Untouched, Awaits
<1>b. CASE connected /\ Check(t)
  <2>1. /\ pc[t] = "check" /\ pc'[t] = "send" /\ part' = part /\ sent' = sent
        /\ owner' = owner /\ connected
    BY <1>b DEF Check, Goto, Typed, Stays
  <2>2. Position(t) = 0 /\ Position(t)' = 0 /\ InLoop(t)' /\ ~Sender(t)
    BY <2>1 DEF Position, Sender, InLoop, Looping, Before, Awaits
  <2>3. Holding'
    BY <1>u, <1>o, <2>1 DEF Holding, Untouched
  <2>4. Looping'
    <3>1. part'[t] = "cmd" /\ sent'[t] = 0 /\ Len(Cmd(t)) \in Nat
      BY <2>1, CmdText DEF Looping
    <3>2. QED
      BY <1>u, <1>o, <1>l, <2>1, <3>1 DEF Looping, Untouched
  <2>5. Whole'
    BY <1>u, <1>o, <1>w, <1>s, <2>1, <2>2 DEF Whole, Untouched
  <2> QED
    BY <1>u, <1>o, <1>s, <1>w, <1>l, <1>1, <2>1, <2>2, <2>3, <2>4, <2>5
    DEF Counted, Sent, Reported, Untouched, Awaits
<1>c. CASE Full(t) \/ Writable(t)
  <2>1. /\ pc[t] \in {"send", "wait"} /\ pc'[t] \in {"send", "wait"}
        /\ part' = part /\ sent' = sent /\ owner' = owner
    BY <1>c DEF Full, Writable, Goto, Typed, handle
  <2>2. Position(t)' = Position(t) /\ InLoop(t)' /\ InLoop(t) /\ Sender(t)' = Sender(t)
    BY <2>1, <1>s, <1>l DEF Position, Sender, InLoop, Before, Awaits
  <2> QED
    BY <1>u, <1>o, <1>s, <1>w, <1>l, <1>1, <2>1, <2>2
    DEF Counted, Holding, Looping, Sent, Whole, Reported, Untouched, Awaits
<1>d. CASE NextLoop(t)
  <2>1. /\ pc[t] = "send" /\ pc' = pc /\ owner' = owner
        /\ part[t] = "cmd" /\ part'[t] = "terminator" /\ sent'[t] = 0
        /\ ~Ended(Cmd(t)) /\ Len(Cmd(t)) - sent[t] = 0
    BY <1>d DEF NextLoop, Typed, handle, Cmd, Remaining
  <2>2. Len(Cmd(t)) \in Nat /\ sent[t] \in Nat
    BY <2>1, CmdText DEF Typed
  <2>3. Position(t)' = Position(t) /\ InLoop(t)' /\ InLoop(t) /\ Sender(t)' = Sender(t)
    BY <2>1, <2>2, <1>s, <1>l DEF Position, Sender, InLoop, Before, Cmd, Awaits
  <2> QED
    BY <1>u, <1>o, <1>s, <1>w, <1>l, <1>1, <2>1, <2>3
    DEF Counted, Holding, Looping, Sent, Whole, Reported, Untouched, Awaits
<1>e. CASE Window(t) \/ LockAgain(t) \/ (connected /\ CheckAgain(t))
  <2>1. /\ Awaits(t) /\ Awaits(t)' /\ part' = part /\ sent' = sent
        /\ \/ pc[t] = "reply" /\ pc'[t] = "relock" /\ owner' = None
           \/ pc[t] = "relock" /\ pc'[t] = "recheck" /\ owner = None /\ owner' = t
           \/ pc[t] = "recheck" /\ pc'[t] = "reply" /\ owner' = owner
    <3>1. pc \in [Thread -> Labels]
      BY DEF Typed
    <3>2. CASE Window(t)
      BY <3>1, <3>2 DEF Window, Goto, Awaits
    <3>3. CASE LockAgain(t)
      BY <3>1, <3>3 DEF LockAgain, Goto, Awaits
    <3>4. CASE connected /\ CheckAgain(t)
      BY <3>1, <3>4 DEF CheckAgain, Goto, Stays, Awaits
    <3> QED BY <1>e, <3>2, <3>3, <3>4
  <2>2. ~InLoop(t) /\ ~InLoop(t)' /\ ~Sender(t) /\ ~Sender(t)'
    BY <2>1 DEF InLoop, Sender, Awaits
  <2>3. Position(t)' = Position(t)
    BY <2>1, <2>2, <1>l DEF Position
  <2>4. \A u \in Thread : u # None
    BY SendAssumption
  <2>5. Holding'
    BY <1>u, <1>o, <2>1, <2>2, <2>4 DEF Holding, Untouched
  <2>6. Counted' /\ Looping'
    BY <1>u, <1>o, <1>s, <2>1, <2>2 DEF Counted, Looping, Untouched, Awaits
  <2>7. Sent'
    BY <1>u, <1>o, <1>s, <1>l, <2>1, <2>3 DEF Sent, Untouched, Awaits
  <2>8. Whole'
    BY <1>o, <1>s, <1>w, <2>2 DEF Whole
  <2>9. Reported'
    BY <1>u, <1>s, <1>w, <2>1 DEF Reported, Untouched, Awaits
  <2> QED
    BY <1>1, <1>w, <2>5, <2>6, <2>7, <2>8, <2>9
<1>2. QED
  BY <1>a, <1>b, <1>c, <1>d, <1>e

(* When both loops are through, the last byte of the command is on the     *)
(* wire.                                                                   *)
LEMMA AllThere ==
  ASSUME IInv, NEW t \in Thread, AllSent(t)
  PROVE  Position(t) = Size(Cmd(t)) /\ Complete(call[t])
<1> USE DEF IInv
<1>1. /\ pc[t] = "send" /\ InLoop(t) /\ Remaining(t) = 0
      /\ part[t] = "terminator" \/ (part[t] = "cmd" /\ Ended(Cmd(t)))
  BY DEF AllSent, InLoop, Typed, Cmd
<1>2. Len(Cmd(t)) \in Nat /\ sent[t] \in Nat /\ Size(Cmd(t)) \in Nat /\ Size(Cmd(t)) > 0
  BY <1>1, CmdText DEF Typed
<1>3. ASSUME part[t] = "terminator"
      PROVE  Position(t) = Size(Cmd(t))
  <2>1. sent[t] = 2 /\ ~Ended(Cmd(t))
    BY <1>1, <1>2, <1>3 DEF Remaining, Looping
  <2>2. QED
    BY <2>1, <1>1, <1>2, <1>3, CmdText, PositionType
<1>4. ASSUME part[t] = "cmd" /\ Ended(Cmd(t))
      PROVE  Position(t) = Size(Cmd(t))
  <2>1. sent[t] = Len(Cmd(t))
    BY <1>1, <1>2, <1>4 DEF Remaining, Cmd
  <2>2. QED
    BY <2>1, <1>1, <1>2, <1>4, CmdText, PositionType
<1>5. Position(t) = Size(Cmd(t))
  BY <1>1, <1>3, <1>4
<1>6. PICK i \in DOMAIN wire : wire[i].call = call[t] /\ wire[i].at = Size(Cmd(t))
  BY <1>1, <1>2, <1>5 DEF Sent
<1>7. wire[i].last
  BY <1>1, <1>6 DEF Sent
<1>8. QED
  BY <1>5, <1>6, <1>7 DEF Complete

(* A sender that is through keeps the mutex for the reply, or returns.     *)
LEMMA GetsThrough ==
  ASSUME IInv, NEW t \in Thread, AllSent(t)
  PROVE  IInv'
<1> USE DEF IInv
<1>s. /\ wire' = wire /\ connected' = connected /\ calls' = calls /\ call' = call
      /\ pc[t] = "send" /\ connected \in BOOLEAN
  BY DEF AllSent, socket, Typed
<1>p. Position(t) = Size(Cmd(t)) /\ Complete(call[t])
  BY AllThere
<1>1. CASE ~Locked(t)
  BY <1>1, <1>s, <1>p, Ends DEF AllSent, Sender
<1>2. CASE Locked(t)
  <2>1. /\ pc' = [pc EXCEPT ![t] = "reply"] /\ req' = req /\ part' = part
        /\ sent' = sent /\ result' = result /\ owner' = owner
    BY <1>2 DEF AllSent, Goto, Stays
  <2>u. \A u \in Thread : u # t => Untouched(u)
    BY <2>1, <1>s DEF Typed, Untouched
  <2>o. \A u \in Thread : u # t =>
          /\ Position(u)' = Position(u) /\ Cmd(u)' = Cmd(u)
          /\ InLoop(u)' = InLoop(u) /\ Sender(u)' = Sender(u) /\ Locked(u)' = Locked(u)
    BY <2>u, Others
  <2>w. Ordered' /\ CommandsWhole' /\ \A c : Complete(c)' = Complete(c)
    BY <1>s, WireKept
  <2>2. pc'[t] = "reply" /\ Sender(t) /\ ~Sender(t)' /\ ~InLoop(t)'
    BY <1>2, <1>s, <2>1 DEF Typed, Sender, InLoop
  <2>3. Cmd(t)' = Cmd(t) /\ Position(t)' = Position(t)
    BY <2>1, <2>2, <1>p DEF Cmd, Position, Awaits
  <2>4. Typed'
    BY <1>s, <2>1 DEF Typed, Labels
  <2>5. Holding'
    BY <2>u, <2>o, <2>1, <2>2 DEF Holding, Untouched
  <2>6. Whole'
    BY <2>o, <2>w, <1>s, <1>p, <2>2 DEF Whole
  <2>7. Reported'
    BY <2>u, <2>w, <1>s, <1>p DEF Reported, Untouched, Awaits
  <2>8. Counted' /\ Looping' /\ Sent'
    BY <2>u, <2>o, <1>s, <2>2, <2>3 DEF Counted, Looping, Sent, Untouched
  <2>9. QED
    BY <2>4, <2>5, <2>6, <2>7, <2>8, <2>w
<1>3. QED
  BY <1>1, <1>2

(* What a sequence with more behind it is.                                 *)
LEMMA Longer ==
  ASSUME NEW S, NEW s \in Seq(S), NEW k \in Nat, NEW f \in [1 .. k -> S]
  PROVE  /\ s \o f \in Seq(S)
         /\ Len(s) \in Nat /\ DOMAIN s = 1 .. Len(s)
         /\ DOMAIN (s \o f) = 1 .. Len(s) + k
         /\ \A i \in 1 .. Len(s) : (s \o f)[i] = s[i]
         /\ \A i \in Len(s) + 1 .. Len(s) + k : (s \o f)[i] = f[i - Len(s)]
<1>1. f \in Seq(S) /\ Len(f) = k
  OBVIOUS
<1>2. QED
  BY <1>1

(* send takes the bytes that follow, and nothing else happens.             *)
LEMMA Takes ==
  ASSUME IInv, NEW t \in Thread, Taken(t)
  PROVE  \E k \in Nat \ {0} :
           /\ Position(t)' = Position(t) + k
           /\ part[t] = "cmd" => sent[t] + k <= Len(Cmd(t))
           /\ part[t] = "terminator" => sent[t] + k <= 2
           /\ sent' = [sent EXCEPT ![t] = @ + k]
           /\ wire' \in Seq(Bytes)
           /\ DOMAIN wire = 1 .. Len(wire)
           /\ DOMAIN wire' = 1 .. Len(wire) + k
           /\ \A i \in 1 .. Len(wire) : wire'[i] = wire[i]
           /\ \A i \in Len(wire) + 1 .. Len(wire) + k :
                wire'[i] = [call |-> call[t], locked |-> Locked(t),
                            at |-> Position(t) + (i - Len(wire)),
                            last |-> Position(t) + (i - Len(wire)) = Size(Cmd(t))]
<1> USE DEF IInv
<1>1. PICK k \in 1 .. Remaining(t) :
        /\ wire' = wire \o [i \in 1 .. k |-> Byte(t, Before(t) + i)]
        /\ sent' = [sent EXCEPT ![t] = @ + k]
  BY DEF Taken
<1>2. /\ pc[t] = "send" /\ pc' = pc /\ req' = req /\ part' = part
      /\ InLoop(t) /\ Position(t) = Before(t)
  BY DEF Taken, InLoop, Position, Awaits
<1>3. /\ Len(Cmd(t)) \in Nat /\ sent[t] \in Nat /\ Size(Cmd(t)) \in Nat
      /\ Position(t) \in Nat
  BY <1>2, CmdText, PositionType DEF Typed
<1>4. k \in Nat \ {0} /\ k <= Remaining(t)
  BY <1>3 DEF Remaining, Cmd
<1>5. Position(t)' = Position(t) + k
  <2>1. sent'[t] = sent[t] + k
    BY <1>1 DEF Typed
  <2>2. QED
    BY <2>1, <1>2, <1>3, <1>4 DEF Position, Before, InLoop, Cmd, Awaits
<1> DEFINE f == [i \in 1 .. k |-> Byte(t, Before(t) + i)]
<1>6. f \in [1 .. k -> Bytes]
  BY <1>2, <1>3, <1>4 DEF Byte, Bytes, Locked, Typed
<1>7. wire \in Seq(Bytes) /\ wire' = wire \o f
  BY <1>1 DEF Typed
<1>8. \A i \in 1 .. k : f[i] = [call |-> call[t], locked |-> Locked(t),
                              at |-> Position(t) + i,
                              last |-> Position(t) + i = Size(Cmd(t))]
  BY <1>2 DEF Byte, Cmd
<1> HIDE DEF f
<1>9. /\ wire' \in Seq(Bytes)
      /\ Len(wire) \in Nat /\ DOMAIN wire = 1 .. Len(wire)
      /\ DOMAIN wire' = 1 .. Len(wire) + k
      /\ \A i \in 1 .. Len(wire) : wire'[i] = wire[i]
      /\ \A i \in Len(wire) + 1 .. Len(wire) + k : wire'[i] = f[i - Len(wire)]
  BY <1>4, <1>6, <1>7, Longer
<1>10. \A i \in Len(wire) + 1 .. Len(wire) + k : i - Len(wire) \in 1 .. k
  BY <1>4, <1>9
<1>11. /\ part[t] = "cmd" => sent[t] + k <= Len(Cmd(t))
       /\ part[t] = "terminator" => sent[t] + k <= 2
  BY <1>3, <1>4 DEF Remaining, Cmd
<1>12. QED
  BY <1>1, <1>4, <1>5, <1>8, <1>9, <1>10, <1>11, ZenonT(30)

(* What is on the wire stays there, so a complete command stays complete.  *)
(* The new bytes are of a call that is in its loop, the only one there is  *)
(* when it holds the mutex.                                                *)
LEMMA Adds ==
  ASSUME IInv, NEW t \in Thread, Taken(t)
  PROVE  IInv'
<1> USE DEF IInv
<1>s. /\ pc[t] = "send" /\ pc' = pc /\ req' = req /\ part' = part /\ calls' = calls
      /\ call' = call /\ result' = result /\ owner' = owner /\ connected' = connected
      /\ \E n \in Nat : sent' = [sent EXCEPT ![t] = @ + n]
  BY Takes DEF Taken, handle
<1>u. \A u \in Thread : u # t => Untouched(u)
  BY <1>s DEF Typed, Untouched
<1>o. \A u \in Thread : u # t =>
        /\ Position(u)' = Position(u) /\ Cmd(u)' = Cmd(u)
        /\ InLoop(u)' = InLoop(u) /\ Sender(u)' = Sender(u) /\ Locked(u)' = Locked(u)
  BY <1>u, Others
<1>l. /\ Cmd(t)' = Cmd(t) /\ Locked(t)' = Locked(t) /\ InLoop(t) /\ InLoop(t)'
      /\ Sender(t)' = Sender(t) /\ Sender(t) = Locked(t)
  BY <1>s DEF Cmd, Locked, InLoop, Sender
<1> DEFINE n == Len(wire)
           p == Position(t)
<1>k. PICK k \in Nat \ {0} :
        /\ Position(t)' = p + k
        /\ part[t] = "cmd" => sent[t] + k <= Len(Cmd(t))
        /\ part[t] = "terminator" => sent[t] + k <= 2
        /\ sent' = [sent EXCEPT ![t] = @ + k]
        /\ wire' \in Seq(Bytes)
        /\ DOMAIN wire = 1 .. n
        /\ DOMAIN wire' = 1 .. n + k
        /\ \A i \in 1 .. n : wire'[i] = wire[i]
        /\ \A i \in n + 1 .. n + k :
             wire'[i] = [call |-> call[t], locked |-> Locked(t), at |-> p + (i - n),
                         last |-> p + (i - n) = Size(Cmd(t))]
  BY Takes
<1> HIDE DEF n, p
<1>n. n \in Nat /\ p \in Nat /\ k \in Nat /\ k > 0 /\ call[t] \in Nat /\ call[t] > 0
  BY <1>s, <1>k, PositionType DEF Typed, Counted, n, p
<1>f. \A i \in 1 .. n : /\ wire[i].call \in Nat /\ wire[i].at \in Nat /\ wire[i].at > 0
                        /\ wire[i].locked \in BOOLEAN /\ wire[i].call <= calls
  BY <1>k, WireBytes DEF Typed, Counted
<1>e. \A i \in n + 1 .. n + k :
        /\ wire'[i].call = call[t] /\ wire'[i].locked = Locked(t)
        /\ wire'[i].at = p + (i - n)
        /\ wire'[i].last = (p + (i - n) = Size(Cmd(t)))
  <2> SUFFICES ASSUME NEW i \in n + 1 .. n + k
               PROVE  /\ wire'[i].call = call[t] /\ wire'[i].locked = Locked(t)
                      /\ wire'[i].at = p + (i - n)
                      /\ wire'[i].last = (p + (i - n) = Size(Cmd(t)))
    OBVIOUS
  <2> DEFINE at == p + (i - n)
             last == at = Size(Cmd(t))
  <2>1. wire'[i] = [call |-> call[t], locked |-> Locked(t), at |-> at, last |-> last]
    BY <1>k
  <2>2. Locked(t) \in BOOLEAN /\ last \in BOOLEAN
    BY DEF Locked
  <2> HIDE DEF at, last
  <2>3. /\ wire'[i].call = call[t] /\ wire'[i].locked = Locked(t)
        /\ wire'[i].at = at /\ wire'[i].last = last
    BY <2>1, <2>2
  <2>4. QED
    BY <2>3 DEF at, last
<1>a. \A i \in DOMAIN wire' : i \in 1 .. n \/ i \in n + 1 .. n + k
  BY <1>k, <1>n
<1>d. \A i \in 1 .. n : i \in DOMAIN wire'
  BY <1>k, <1>n
<1>m. \A c : Complete(c) => Complete(c)'
  BY <1>k, <1>d DEF Complete
<1>h. /\ \A i \in 1 .. n : wire[i].call = call[t] =>
           wire[i].at <= p /\ wire[i].last = (wire[i].at = Size(Cmd(t)))
      /\ \A m \in 1 .. p : \E i \in 1 .. n : wire[i].call = call[t] /\ wire[i].at = m
  <2>1. /\ \A i \in DOMAIN wire : wire[i].call = call[t] =>
             wire[i].at <= p /\ wire[i].last = (wire[i].at = Size(Cmd(t)))
        /\ \A m \in 1 .. p : \E i \in DOMAIN wire : wire[i].call = call[t] /\ wire[i].at = m
    BY <1>s DEF Sent, p
  <2>2. QED
    BY <2>1, <1>k
<1>1. Typed'
  <2>1. sent' \in [Thread -> Nat]
    BY <1>k, <1>n DEF Typed
  <2>2. QED
    BY <2>1, <1>s, <1>k DEF Typed
<1>2. Counted'
  <2>1. \A i \in DOMAIN wire' : wire'[i].call <= calls /\ wire'[i].at > 0
    <3> SUFFICES ASSUME NEW i \in DOMAIN wire'
                 PROVE  wire'[i].call <= calls /\ wire'[i].at > 0
      OBVIOUS
    <3>1. CASE i \in 1 .. n
      BY <3>1, <1>k, <1>f
    <3>2. CASE i \in n + 1 .. n + k
      BY <3>2, <1>e, <1>n DEF Counted
    <3>3. QED
      BY <3>1, <3>2, <1>a
  <2>2. QED
    BY <2>1, <1>s DEF Counted
<1>3. Holding'
  BY <1>s, <1>u, <1>o, <1>l DEF Holding, Untouched
<1>4. Looping'
  <2>1. sent'[t] = sent[t] + k
    BY <1>k DEF Typed
  <2>2. QED
    BY <2>1, <1>s, <1>k, <1>o, <1>l, <1>u DEF Looping, Untouched
<1>5. Sent'
  <2> SUFFICES ASSUME NEW u \in Thread, pc[u] # "idle"
               PROVE  /\ \A i \in DOMAIN wire' : wire'[i].call = call[u] =>
                           /\ wire'[i].at <= Position(u)'
                           /\ wire'[i].last = (wire'[i].at = Size(Cmd(u)'))
                      /\ \A m \in 1 .. Position(u)' :
                           \E i \in DOMAIN wire' : wire'[i].call = call[u] /\ wire'[i].at = m
    BY <1>s DEF Sent, Size
  <2>1. CASE u # t
    <3>1. call[u] # call[t]
      BY <2>1, <1>n DEF Counted
    <3>2. \A i \in DOMAIN wire' : wire'[i].call = call[u] => i \in 1 .. n
      BY <3>1, <1>a, <1>e
    <3>3. QED
      BY <2>1, <3>2, <1>o, <1>k, <1>d DEF Sent
  <2>2. CASE u = t
    <3>1. \A i \in 1 .. n : wire'[i].call = call[t] =>
            wire'[i].at <= p + k /\ wire'[i].last = (wire'[i].at = Size(Cmd(t)))
      <4> SUFFICES ASSUME NEW i \in 1 .. n, wire'[i].call = call[t]
                   PROVE  /\ wire'[i].at <= p + k
                          /\ wire'[i].last = (wire'[i].at = Size(Cmd(t)))
        OBVIOUS
      <4>1. wire'[i] = wire[i]
        BY <1>k
      <4>2. /\ wire[i].at <= p
            /\ wire[i].last = (wire[i].at = Size(Cmd(t)))
        BY <4>1, <1>h
      <4>3. wire[i].at <= p + k
        <5>1. wire[i].at \in Nat
          BY <1>f
        <5>2. QED
          BY <5>1, <4>2, <1>n
      <4>4. QED
        BY <4>1, <4>2, <4>3
    <3>2. \A i \in n + 1 .. n + k :
            wire'[i].at <= p + k /\ wire'[i].last = (wire'[i].at = Size(Cmd(t)))
      BY <1>e, <1>n
    <3>3. ASSUME NEW m \in 1 .. p + k
          PROVE  \E i \in DOMAIN wire' : wire'[i].call = call[t] /\ wire'[i].at = m
      <4>1. CASE m <= p
        <5>1. PICK i \in 1 .. n : wire[i].call = call[t] /\ wire[i].at = m
          BY <4>1, <1>h, <1>n
        <5>2. QED
          BY <5>1, <1>k, <1>d
      <4>2. CASE m > p
        <5>1. /\ n + (m - p) \in n + 1 .. n + k /\ n + (m - p) \in DOMAIN wire'
              /\ p + ((n + (m - p)) - n) = m
          BY <4>2, <1>n, <1>k
        <5>2. QED
          BY <5>1, <1>e
      <4>3. QED
        BY <4>1, <4>2, <1>n
    <3>4. QED
      BY <2>2, <3>1, <3>2, <3>3, <1>a, <1>k, <1>l
  <2>3. QED
    BY <2>1, <2>2
<1>6. Whole'
  <2> SUFFICES ASSUME NEW i \in DOMAIN wire', wire'[i].locked
               PROVE  \/ \E x \in DOMAIN wire' :
                           wire'[x].call = wire'[i].call /\ wire'[x].last
                      \/ \E u \in Thread : Sender(u)' /\ call[u] = wire'[i].call
                      \/ ~connected /\ \A u \in Thread : ~Sender(u)'
    BY <1>s DEF Whole, Complete
  <2>1. CASE i \in 1 .. n
    <3>1. wire'[i] = wire[i] /\ i \in DOMAIN wire
      BY <2>1, <1>k
    <3>2. \A u \in Thread : Sender(u)' = Sender(u)
      BY <1>o, <1>l
    <3>3. QED
      BY <3>1, <3>2, <1>m DEF Whole, Complete
  <2>2. CASE i \in n + 1 .. n + k
    BY <2>2, <1>e, <1>l
  <2>3. QED
    BY <2>1, <2>2, <1>a
<1>7. Ordered'
  <2>1. ASSUME NEW i \in DOMAIN wire', NEW j \in DOMAIN wire',
               wire'[i].call = wire'[j].call, i < j
        PROVE  wire'[i].at < wire'[j].at
    <3>1. CASE i \in 1 .. n /\ j \in 1 .. n
      BY <2>1, <3>1, <1>k DEF Ordered
    <3>2. CASE i \in 1 .. n /\ j \in n + 1 .. n + k
      <4>1. wire'[i] = wire[i] /\ wire[i].call = call[t] /\ wire'[j].at = p + (j - n)
        BY <2>1, <3>2, <1>k, <1>e
      <4>2. wire[i].at <= p /\ wire[i].at \in Nat /\ j - n > 0 /\ j - n \in Nat
        BY <4>1, <3>2, <1>h, <1>f, <1>n
      <4>3. QED
        BY <4>1, <4>2, <1>n
    <3>3. CASE i \in n + 1 .. n + k /\ j \in n + 1 .. n + k
      BY <2>1, <3>3, <1>e, <1>n
    <3>4. ~(i \in n + 1 .. n + k /\ j \in 1 .. n)
      BY <2>1, <1>n
    <3>5. QED
      BY <3>1, <3>2, <3>3, <3>4, <1>a
  <2>2. ASSUME NEW i \in DOMAIN wire', NEW m \in 1 .. wire'[i].at - 1
        PROVE  \E j \in 1 .. i - 1 : wire'[j].call = wire'[i].call /\ wire'[j].at = m
    <3>1. CASE i \in 1 .. n
      <4>1. PICK j \in 1 .. i - 1 : wire[j].call = wire[i].call /\ wire[j].at = m
        BY <2>2, <3>1, <1>k DEF Ordered
      <4>2. j \in 1 .. n
        BY <3>1, <1>n
      <4>3. QED
        BY <4>1, <4>2, <3>1, <1>k
    <3>2. CASE i \in n + 1 .. n + k
      <4>1. wire'[i].call = call[t] /\ wire'[i].at = p + (i - n)
        BY <3>2, <1>e
      <4>2. CASE m <= p
        <5>1. PICK j \in 1 .. n : wire[j].call = call[t] /\ wire[j].at = m
          BY <4>1, <4>2, <1>h, <1>n
        <5>2. j \in 1 .. i - 1
          BY <3>2, <1>n
        <5>3. QED
          BY <5>1, <5>2, <4>1, <1>k
      <4>3. CASE m > p
        <5>1. /\ n + (m - p) \in 1 .. i - 1 /\ n + (m - p) \in n + 1 .. n + k
              /\ p + ((n + (m - p)) - n) = m
          BY <4>1, <4>3, <3>2, <1>n
        <5>2. QED
          BY <5>1, <4>1, <1>e
      <4>4. QED
        BY <4>1, <4>2, <4>3, <3>2, <1>n
    <3>3. QED
      BY <3>1, <3>2, <1>a
  <2>3. QED
    BY <2>1, <2>2 DEF Ordered
<1>8. Reported'
  BY <1>s, <1>m DEF Reported, Awaits
<1>9. CommandsWhole'
  <2> SUFFICES ASSUME NEW i \in DOMAIN wire', NEW j \in DOMAIN wire', i < j,
                      wire'[i].locked, wire'[j].locked, wire'[i].call # wire'[j].call
               PROVE  \E x \in 1 .. j - 1 : wire'[x].call = wire'[i].call /\ wire'[x].last
    BY DEF CommandsWhole
  <2>1. CASE j \in 1 .. n
    <3>1. i \in 1 .. n
      BY <2>1, <1>a, <1>n
    <3>2. PICK x \in 1 .. j - 1 : wire[x].call = wire[i].call /\ wire[x].last
      BY <2>1, <3>1, <1>k DEF CommandsWhole
    <3>3. x \in 1 .. n
      BY <2>1, <1>n
    <3>4. QED
      BY <3>1, <3>2, <3>3, <1>k
  <2>2. CASE j \in n + 1 .. n + k
    <3>1. wire'[j].call = call[t] /\ Sender(t)
      BY <2>2, <1>e, <1>l
    <3>2. i \in 1 .. n
      BY <3>1, <1>a, <1>e
    <3>3. /\ wire'[i] = wire[i] /\ i \in DOMAIN wire /\ wire[i].locked
          /\ wire[i].call # call[t]
      BY <3>1, <3>2, <1>k
    <3>4. \A u \in Thread : Sender(u) => u = t
      BY <3>1 DEF Holding
    <3>5. Complete(wire[i].call)
      BY <3>1, <3>3, <3>4 DEF Whole
    <3>6. PICK x \in 1 .. n : wire[x].call = wire[i].call /\ wire[x].last
      BY <3>5, <1>k DEF Complete
    <3>7. x \in 1 .. j - 1
      BY <2>2, <1>n
    <3>8. QED
      BY <3>3, <3>6, <3>7, <1>k
  <2>3. QED
    BY <2>1, <2>2, <1>a
<1>10. QED
  BY <1>1, <1>2, <1>3, <1>4, <1>5, <1>6, <1>7, <1>8, <1>9

-----------------------------------------------------------------------------
(* Nothing is on the wire, and all threads are idle.                       *)
LEMMA InvInit == Init => IInv
<1> SUFFICES ASSUME Init PROVE IInv
  OBVIOUS
<1>1. Typed
  BY DEF Init, Typed, Labels, NoRequest
<1>2. Counted /\ Holding /\ Looping
  BY DEF Init, Counted, Holding, Looping, Sender, InLoop
<1>3. Sent /\ Whole /\ Ordered /\ Reported /\ CommandsWhole
  BY DEF Init, Sent, Whole, Ordered, Reported, Awaits, CommandsWhole
<1>4. QED
  BY <1>1, <1>2, <1>3 DEF IInv

(* Every step keeps the invariant.                                         *)
LEMMA InvNext == IInv /\ [Next]_vars => IInv'
<1> SUFFICES ASSUME IInv, [Next]_vars PROVE IInv'
  OBVIOUS
<1>1. CASE ServerReads \/ ConnectionLost \/ UNCHANGED vars
  <2>1. UNCHANGED <<connected, owner, pc, req, calls, call, part, sent, result, wire>>
    BY <1>1 DEF ServerReads, ConnectionLost, vars, handle, socket
  <2>2. \A u \in Thread :
          /\ Position(u)' = Position(u) /\ Cmd(u)' = Cmd(u)
          /\ InLoop(u)' = InLoop(u) /\ Sender(u)' = Sender(u) /\ Locked(u)' = Locked(u)
    BY <2>1, Others DEF Untouched
  <2>3. Ordered' /\ CommandsWhole' /\ \A c : Complete(c)' = Complete(c)
    BY <2>1, WireKept DEF IInv
  <2>4. Typed' /\ Counted' /\ Holding' /\ Reported'
    BY <2>1, <2>2, <2>3 DEF IInv, Typed, Counted, Holding, Reported, Awaits
  <2>5. Looping' /\ Sent' /\ Whole'
    BY <2>1, <2>2, <2>3 DEF IInv, Looping, Sent, Whole
  <2>6. QED
    BY <2>3, <2>4, <2>5 DEF IInv
<1>2. ASSUME NEW t \in Thread,
             Begin(t) \/ LockMutex(t) \/ Check(t) \/ Sending(t) \/ Receiving(t)
      PROVE  IInv'
  <2>0. connected \in BOOLEAN
    BY DEF IInv, Typed
  <2>1. CASE Begin(t)
    BY <2>1, Begins
  <2>2. CASE LockMutex(t) \/ Full(t) \/ Writable(t) \/ NextLoop(t)
    BY <2>2, GoesOn
  <2>3. CASE Check(t) /\ connected
    BY <2>3, GoesOn
  <2>4. CASE Check(t) /\ ~connected
    <3>1. /\ pc[t] # "idle" /\ ~Sender(t) /\ Return(t, "FAIL") /\ wire' = wire
          /\ calls' = calls /\ call' = call /\ connected' = connected
      BY <2>4 DEF Check, Sender, InLoop, socket
    <3>2. QED
      BY <3>1, <2>0, Ends
  <2>5. CASE Taken(t)
    BY <2>5, Adds
  <2>6. CASE SendFails(t) \/ WaitFails(t)
    <3>1. /\ pc[t] # "idle" /\ Return(t, "FAIL") /\ wire' = wire
          /\ calls' = calls /\ call' = call /\ connected' = FALSE
      BY <2>6 DEF SendFails, WaitFails, GiveUp, socket
    <3>2. QED
      BY <3>1, Ends
  <2>7. CASE AllSent(t)
    BY <2>7, GetsThrough
  <2>8. CASE ReplyEnds(t)
    <3>1. /\ pc[t] = "reply" /\ ~Sender(t) /\ wire' = wire /\ calls' = calls
          /\ call' = call
      BY <2>8 DEF ReplyEnds, Sender, InLoop, socket
    <3>2. Complete(call[t])
      BY <3>1 DEF IInv, Reported, Awaits
    <3>3. \/ \E status \in {"SUCCESS", "BREAK"} :
               Return(t, status) /\ connected' = connected
          \/ Return(t, "FAIL") /\ connected' = FALSE
      BY <2>8 DEF ReplyEnds, GiveUp
    <3>4. QED
      BY <3>1, <3>2, <3>3, <2>0, Ends
  <2>9. CASE Window(t) \/ LockAgain(t) \/ (connected /\ CheckAgain(t))
    BY <2>9, GoesOn
  <2>10. CASE CheckAgain(t) /\ ~connected
    <3>1. /\ pc[t] # "idle" /\ ~Sender(t) /\ Return(t, "FAIL") /\ wire' = wire
          /\ calls' = calls /\ call' = call /\ connected' = FALSE
      BY <2>10 DEF CheckAgain, GiveUp, Sender, InLoop, socket
    <3>2. QED
      BY <3>1, Ends
  <2>11. QED
    BY <1>2, <2>1, <2>2, <2>3, <2>4, <2>5, <2>6, <2>7, <2>8, <2>9, <2>10
    DEF Sending, Receiving
<1>3. QED
  BY <1>1, <1>2 DEF Next

(* A command goes to the socket byte by byte in its order, and a call that *)
(* reports success, or a reply too late, has sent all of it: the loops of  *)
(* esl_send.                                                               *)
THEOREM InOrder == Spec => []BytesInOrder
<1>1. IInv => BytesInOrder
  BY DEF IInv, Ordered, Reported, Complete, Awaits, BytesInOrder
<1>2. QED
  BY <1>1, InvInit, InvNext, PTL DEF Spec

(* Calls that hold the mutex of the handle never mix their commands, nor   *)
(* follow half a command of one another: esl_send_recv_timed.              *)
THEOREM Unmixed == Spec => []CommandsWhole
<1>1. IInv => CommandsWhole
  BY DEF IInv
<1>2. QED
  BY <1>1, InvInit, InvNext, PTL DEF Spec
-----------------------------------------------------------------------------
(* What a command says.  Pieces stay where they are while more is printed  *)
(* in front of them or behind them.                                        *)
LEMMA Holds ==
  ASSUME NEW s \in Text, NEW u \in Text
  PROVE  Contains(s, s) /\ Contains(s \o u, s) /\ Contains(s \o u, u)
<1>1. SubSeq(s, 1, Len(s)) = s /\ Len(s) - Len(s) = 0 /\ Len(s) \in Nat
  BY DEF Text
<1>2. Contains(s, s)
  <2>1. 0 \in 0 .. Len(s) - Len(s) /\ SubSeq(s, 0 + 1, 0 + Len(s)) = s
    BY <1>1
  <2> QED BY <2>1 DEF Contains
<1>3. /\ Len(s \o u) = Len(s) + Len(u) /\ Len(u) \in Nat
      /\ 0 \in 0 .. Len(s \o u) - Len(s) /\ Len(s) \in 0 .. Len(s \o u) - Len(u)
  BY DEF Text
<1>4. SubSeq(s \o u, 0 + 1, 0 + Len(s)) = s
  BY DEF Text
<1>5. SubSeq(s \o u, Len(s) + 1, Len(s) + Len(u)) = u
  BY DEF Text
<1>6. Contains(s \o u, s)
  BY <1>3, <1>4 DEF Contains
<1>7. Contains(s \o u, u)
  BY <1>3, <1>5 DEF Contains
<1> QED BY <1>2, <1>6, <1>7

LEMMA HoldsLonger ==
  ASSUME NEW s \in Text, NEW u \in Text, NEW p \in Text, Contains(s, p)
  PROVE  Contains(s \o u, p)
<1>1. PICK i \in 0 .. Len(s) - Len(p) : SubSeq(s, i + 1, i + Len(p)) = p
  BY DEF Contains
<1>2. /\ Len(s \o u) = Len(s) + Len(u) /\ Len(u) \in Nat /\ Len(p) \in Nat /\ Len(s) \in Nat
      /\ i \in 0 .. Len(s \o u) - Len(p) /\ i + Len(p) <= Len(s) /\ i \in Nat
  BY DEF Text
<1>3. SubSeq(s \o u, i + 1, i + Len(p)) = SubSeq(s, i + 1, i + Len(p))
  BY <1>2 DEF Text
<1> QED BY <1>1, <1>2, <1>3 DEF Contains

(* Concatenation, which snprintf does piece by piece.                      *)
LEMMA Regrouped ==
  ASSUME NEW s \in Text, NEW u \in Text, NEW v \in Text
  PROVE  (s \o u) \o v = s \o (u \o v)
<1>1. s \in Seq(Char) /\ u \in Seq(Char) /\ v \in Seq(Char)
  BY DEF Text
<1> QED BY <1>1, ConcatAssociative

LEMMA Joined ==
  /\ \A a, b : <<a, b>> = <<a>> \o <<b>>
  /\ \A a, b, c : <<a, b, c>> = <<a>> \o <<b, c>>
<1>1. ASSUME NEW a, NEW b PROVE <<a, b>> = <<a>> \o <<b>>
  <2>1. <<a>> \in Seq({a, b}) /\ <<b>> \in Seq({a, b}) /\ <<a, b>> \in Seq({a, b})
    OBVIOUS
  <2>2. <<a>> \o <<b>> = Append(<<a>>, b)
    BY <2>1, AppendIsConcat
  <2> DEFINE l == Append(<<a>>, b)
             m == <<a, b>>
  <2>3. /\ l \in Seq({a, b}) /\ Len(l) = 2 /\ Len(m) = 2
        /\ l[1] = a /\ l[2] = b /\ m[1] = a /\ m[2] = b
    BY <2>1
  <2>4. m \in Seq({a, b})
    BY <2>1
  <2> HIDE DEF l, m
  <2>5. l = m
    <3>1. \A i \in 1 .. Len(l) : i = 1 \/ i = 2
      BY <2>3
    <3>2. \A i \in 1 .. Len(l) : l[i] = m[i]
      BY <2>3, <3>1
    <3> QED BY <2>3, <2>4, <3>2, SeqEqual
  <2> QED BY <2>2, <2>5 DEF l, m
<1>2. ASSUME NEW a, NEW b, NEW c PROVE <<a, b, c>> = <<a>> \o <<b, c>>
  OBVIOUS
<1> QED BY <1>1, <1>2

(* What fits is printed in full.                                           *)
LEMMA CutFits ==
  ASSUME NEW s, NEW n, Fits(s, n)
  PROVE  Cut(s, n) = s
BY DEF Fits, Cut

(* The lines that a call is made of.                                       *)
LEMMA Parts ==
  /\ \A u \in Optional : SendMsgLine(u) \in Text
  /\ \A w \in Char, u \in Optional : Line(w, u) \in Text
  /\ \A flags : Lines(flags) \in Text
<1>1. \A u \in Optional : SendMsgLine(u) \in Text
  BY Texts, CharAssumption DEF Words, Optional, SendMsgLine
<1>2. \A w \in Char, u \in Optional : Line(w, u) \in Text
  BY Texts, CharAssumption DEF Words, Optional, Line
<1>3. \A flags : Lines(flags) \in Text
  BY Texts, CharAssumption DEF Words, Lines
<1> QED BY <1>1, <1>2, <1>3

(* esl_execute: five checks, one for each buffer and one for the whole.    *)
LEMMA ExecuteSays ==
  ASSUME NEW r \in Request, r.op = "execute", Execute(r) # Refused
  PROVE  \A piece \in Asked(r) : Contains(Execute(r), piece)
<1>1. r \in [op : {"execute"}, uuid : Optional, app : Optional, arg : Optional,
             flags : SUBSET {"event-lock", "async"}]
  BY RequestAssumption
<1> DEFINE cmd == SendMsgLine(r.uuid)
           app == Line("execute-app-name: ", r.app)
           arg == Line("execute-app-arg: ", r.arg)
           flags == Lines(r.flags)
           a == <<LF, "call-command: execute", LF>>
           text == Cut(cmd, CmdSize) \o a \o Cut(app, AppSize) \o Cut(arg, ArgSize)
                     \o flags \o <<LF>>
<1>2. cmd \in Text /\ app \in Text /\ arg \in Text /\ flags \in Text
  BY <1>1, Parts, CharAssumption DEF Words
<1>3. <<LF>> \in Text /\ <<"call-command: execute", LF>> \in Text
  BY Texts, CharAssumption DEF Words
<1>4. /\ Fits(cmd, CmdSize) /\ Fits(app, AppSize) /\ Fits(arg, ArgSize)
      /\ Fits(text, SendSize) /\ Execute(r) = Cut(text, SendSize)
  <2> HIDE DEF text
  <2> QED BY DEF Execute, text
<1>5. Asked(r) = {cmd \o <<LF>>, app, arg, flags}
  BY DEF Asked
<1>6. a = <<LF>> \o <<"call-command: execute", LF>>
  BY Joined
<1> HIDE DEF cmd, app, arg, flags, a
<1>7. Execute(r) = cmd \o a \o app \o arg \o flags \o <<LF>>
  BY <1>4, CutFits
<1> DEFINE h == cmd \o a
           i == h \o app
           j == i \o arg
           k == j \o flags
<1>8. a \in Text /\ h = (cmd \o <<LF>>) \o <<"call-command: execute", LF>>
  <2> DEFINE x == <<LF>>
             y == <<"call-command: execute", LF>>
  <2>1. x \in Text /\ y \in Text /\ a = x \o y
    BY <1>3, <1>6
  <2> HIDE DEF x, y
  <2>2. a \in Text
    BY <2>1, Texts
  <2>3. cmd \o (x \o y) = (cmd \o x) \o y
    <3>1. cmd \in Text /\ x \in Text /\ y \in Text
      BY <1>2, <2>1
    <3>2. (cmd \o x) \o y = cmd \o (x \o y)
      BY <3>1, Regrouped
    <3> QED BY <3>2
  <2> QED BY <2>1, <2>2, <2>3 DEF x, y
<1>9. cmd \o <<LF>> \in Text /\ h \in Text /\ i \in Text /\ j \in Text /\ k \in Text
  BY <1>2, <1>3, <1>8, Texts
<1>10. Execute(r) = k \o <<LF>>
  BY <1>7
<1> DEFINE m == cmd \o <<LF>>
<1>11. Contains(h, m)
  <2> HIDE DEF m, h
  <2> QED BY <1>3, <1>8, <1>9, Holds DEF m
<1> HIDE DEF m
<1>12. m \in Text
  BY <1>9 DEF m
<1>13. Contains(i, m) /\ Contains(i, app)
  <2> HIDE DEF h
  <2> QED BY <1>2, <1>9, <1>11, <1>12, Holds, HoldsLonger
<1>14. Contains(j, m) /\ Contains(j, app) /\ Contains(j, arg)
  <2> HIDE DEF i
  <2> QED BY <1>2, <1>9, <1>12, <1>13, Holds, HoldsLonger
<1>15. Contains(k, m) /\ Contains(k, app) /\ Contains(k, arg) /\ Contains(k, flags)
  <2> HIDE DEF j
  <2> QED BY <1>2, <1>9, <1>12, <1>14, Holds, HoldsLonger
<1>16. /\ Contains(Execute(r), m) /\ Contains(Execute(r), app)
       /\ Contains(Execute(r), arg) /\ Contains(Execute(r), flags)
  <2> HIDE DEF k
  <2> DEFINE z == <<LF>>
  <2>1. /\ k \in Text /\ z \in Text /\ m \in Text
        /\ app \in Text /\ arg \in Text /\ flags \in Text
    BY <1>2, <1>3, <1>9, <1>12
  <2>2. Execute(r) = k \o z
    BY <1>10
  <2> HIDE DEF z
  <2>3. Contains(k \o z, m) /\ Contains(k \o z, app)
    BY <1>15, <2>1, HoldsLonger
  <2>4. Contains(k \o z, arg) /\ Contains(k \o z, flags)
    BY <1>15, <2>1, HoldsLonger
  <2> QED BY <2>2, <2>3, <2>4
<1> QED BY <1>5, <1>16 DEF m

(* esl_sendmsg: what it reserves is enough for a short uuid.               *)
LEMMA SendMsgSays ==
  ASSUME NEW r \in Request, r.op = "sendmsg", Len(SendMsgLine(r.uuid)) + 1 < Reserve
  PROVE  \A piece \in Asked(r) : Contains(SendMsg(r), piece)
<1>1. r \in [op : {"sendmsg"}, uuid : Optional, event : Text]
  BY RequestAssumption
<1> DEFINE cmd == SendMsgLine(r.uuid)
           h == cmd \o <<LF>>
<1>2. cmd \in Text /\ r.event \in Text /\ <<LF>> \in Text
  BY <1>1, Parts, Texts, CharAssumption DEF Words
<1>3. Asked(r) = {h, r.event}
  BY DEF Asked
<1>4. h \in Text /\ Len(h) = Len(cmd) + 1
  <2> HIDE DEF cmd
  <2> QED BY <1>2, Texts DEF Text
<1>5. Len(h \o r.event) = Len(h) + Len(r.event) /\ Len(r.event) \in Nat /\ Len(h) \in Nat
  <2> DEFINE e == r.event
  <2>1. h \in Seq(Char) /\ e \in Seq(Char)
    BY <1>2, <1>4 DEF Text
  <2> HIDE DEF h, e
  <2>2. Len(h \o e) = Len(h) + Len(e) /\ Len(e) \in Nat /\ Len(h) \in Nat
    BY <2>1
  <2> QED BY <2>2 DEF e
<1>6. Fits(h \o r.event, Len(r.event) + Reserve)
  <2>1. Reserve \in Nat /\ Len(h) < Reserve
    <3>1. Reserve \in Nat
      BY SendAssumption
    <3> QED BY <1>4, <3>1
  <2> HIDE DEF h
  <2> QED BY <1>5, <2>1 DEF Fits
<1>7. SendMsg(r) = h \o r.event
  <2>1. SendMsg(r) = Cut(h \o r.event, Len(r.event) + Reserve)
    BY DEF SendMsg
  <2> HIDE DEF h
  <2> QED BY <1>6, <2>1, CutFits
<1> HIDE DEF h
<1> QED BY <1>2, <1>3, <1>4, <1>7, Holds

LEMMA SendEventSays ==
  ASSUME NEW r \in Request, r.op = "sendevent"
  PROVE  \A piece \in Asked(r) : Contains(SendEvent(r), piece)
<1>1. r.event \in Text
  BY RequestAssumption
<1> DEFINE h == <<"sendevent ", "CUSTOM", LF>>
<1>2. h \in Text
  BY Texts, CharAssumption DEF Words
<1>3. SendEvent(r) = h \o r.event /\ Asked(r) = {r.event}
  BY DEF SendEvent, Asked
<1> HIDE DEF h
<1> QED BY <1>1, <1>2, <1>3, Holds

(* esl_filter and esl_events: one check for the line.                      *)
LEMMA TwoWordsSay ==
  ASSUME NEW r \in Request, r.op \in {"filter", "event"}, TwoWords(r.op, r) # Refused
  PROVE  \A piece \in Asked(r) : Contains(TwoWords(r.op, r), piece)
<1>1. r \in [op : {"filter", "event"}, first : Text, second : Text]
  BY RequestAssumption
<1> DEFINE h == <<r.op>>
           p == r.first \o <<" ">> \o r.second
           m == p \o <<LF>>
           text == h \o r.first \o <<" ">> \o r.second \o <<LF, LF>>
<1>2. /\ h \in Text /\ r.first \in Text /\ r.second \in Text /\ <<" ">> \in Text
      /\ <<LF>> \in Text /\ <<LF, LF>> \in Text
  BY <1>1, Texts, CharAssumption DEF Words
<1>3. Asked(r) = {m}
  BY DEF Asked
<1>4. Fits(text, LineSize) /\ TwoWords(r.op, r) = Cut(text, LineSize)
  <2> HIDE DEF text
  <2> QED BY DEF TwoWords, text
<1>5. TwoWords(r.op, r) = text
  BY <1>4, CutFits
<1> HIDE DEF h
<1>6. p \in Text
  BY <1>2, Texts
<1>7. h \o r.first \o <<" ">> \o r.second = h \o p
  <2>1. h \o r.first \o <<" ">> = h \o (r.first \o <<" ">>)
    <3> DEFINE x == r.first
               y == <<" ">>
    <3>1. h \in Text /\ x \in Text /\ y \in Text
      BY <1>2
    <3> HIDE DEF x, y
    <3>2. (h \o x) \o y = h \o (x \o y)
      BY <3>1, Regrouped, Zenon
    <3> QED BY <3>2 DEF x, y
  <2>2. r.first \o <<" ">> \in Text
    BY <1>2, Texts
  <2>3. (h \o (r.first \o <<" ">>)) \o r.second = h \o ((r.first \o <<" ">>) \o r.second)
    <3> DEFINE x == r.first \o <<" ">>
               y == r.second
    <3>1. h \in Text /\ x \in Text /\ y \in Text
      BY <1>2, <2>2
    <3> HIDE DEF x, y
    <3>2. (h \o x) \o y = h \o (x \o y)
      BY <3>1, Regrouped, Zenon
    <3> QED BY <3>2 DEF x, y
  <2> QED BY <2>1, <2>3
<1>8. <<LF, LF>> = <<LF>> \o <<LF>>
  BY Joined
<1> HIDE DEF p
<1>9. m \in Text /\ h \o m \in Text
  BY <1>2, <1>6, Texts
<1>10. h \o p \o (<<LF>> \o <<LF>>) = (h \o (p \o <<LF>>)) \o <<LF>>
  <2>1. h \o p \in Text
    BY <1>2, <1>6, Texts
  <2>2. (h \o p) \o (<<LF>> \o <<LF>>) = ((h \o p) \o <<LF>>) \o <<LF>>
    <3> DEFINE e == <<LF>>
               x == h \o p
    <3>1. e \in Text /\ x \in Text
      BY <1>2, <2>1
    <3> HIDE DEF e, x
    <3>2. (x \o e) \o e = x \o (e \o e)
      BY <3>1, Regrouped
    <3> QED BY <3>2 DEF e, x
  <2>3. (h \o p) \o <<LF>> = h \o (p \o <<LF>>)
    <3> DEFINE e == <<LF>>
    <3>1. h \in Text /\ p \in Text /\ e \in Text
      BY <1>2, <1>6
    <3> HIDE DEF e
    <3>2. (h \o p) \o e = h \o (p \o e)
      BY <3>1, Regrouped, Zenon
    <3> QED BY <3>2 DEF e
  <2> QED BY <2>2, <2>3
<1>11. text = (h \o m) \o <<LF>>
  BY <1>7, <1>8, <1>10
<1> HIDE DEF text, m
<1>12. Contains(h \o m, m)
  BY <1>2, <1>9, Holds
<1>13. Contains(text, m)
  <2> DEFINE hm == h \o m
  <2>1. hm \in Text /\ Contains(hm, m) /\ text = hm \o <<LF>>
    BY <1>9, <1>11, <1>12
  <2> HIDE DEF hm
  <2> QED BY <1>2, <1>9, <2>1, HoldsLonger
<1> QED BY <1>3, <1>5, <1>13

(* What is on its way could be printed.                                    *)
Printed == \A t \in Thread : pc[t] # "idle" => Command(req[t]) # Refused

LEMMA PrintedNext == IInv /\ Printed /\ [Next]_vars => Printed'
<1> SUFFICES ASSUME IInv, Printed, [Next]_vars PROVE Printed'
  OBVIOUS
<1> SUFFICES ASSUME NEW u \in Thread, pc'[u] # "idle" PROVE Command(req'[u]) # Refused
  BY DEF Printed
<1>0. /\ pc \in [Thread -> Labels]
      /\ req \in [Thread -> Request \cup {NoRequest}]
  BY DEF IInv, Typed
<1>1. CASE UNCHANGED <<pc, req>>
  BY <1>1 DEF Printed
<1>2. ASSUME NEW t \in Thread, NEW status, Return(t, status) PROVE Command(req'[u]) # Refused
  <2>1. pc'[t] = "idle" /\ (u # t => pc'[u] = pc[u] /\ req'[u] = req[u])
    BY <1>0, <1>2 DEF Return, Goto
  <2> QED BY <2>1 DEF Printed
<1>3. ASSUME NEW t \in Thread, NEW label, pc[t] # "idle", Goto(t, label), req' = req
      PROVE  Command(req'[u]) # Refused
  <2>1. pc[u] # "idle"
    BY <1>0, <1>3 DEF Goto
  <2> QED BY <1>3, <2>1 DEF Printed
<1>4. ASSUME NEW t \in Thread, Begin(t) PROVE Command(req'[u]) # Refused
  <2>1. PICK r \in Request :
          IF ~connected \/ Command(r) = Refused
          THEN Return(t, "FAIL")
          ELSE /\ req' = [req EXCEPT ![t] = r]
               /\ Goto(t, IF r.op = "send" THEN "send" ELSE "lock")
               /\ UNCHANGED <<part, sent, result, owner>>
    BY <1>4 DEF Begin
  <2>2. CASE Return(t, "FAIL")
    BY <2>2, <1>2
  <2>3. CASE Command(r) # Refused /\ req' = [req EXCEPT ![t] = r]
             /\ Goto(t, IF r.op = "send" THEN "send" ELSE "lock")
    <3>1. /\ req'[t] = r
          /\ u # t => req'[u] = req[u] /\ pc'[u] = pc[u]
      BY <1>0, <2>3 DEF Goto
    <3> QED BY <2>3, <3>1 DEF Printed
  <2> QED BY <2>1, <2>2, <2>3
<1>5. ASSUME NEW t \in Thread, LockMutex(t) \/ Check(t) \/ Sending(t) \/ Receiving(t)
      PROVE  Command(req'[u]) # Refused
  <2>1. CASE LockMutex(t)
    BY <2>1, <1>3 DEF LockMutex
  <2>2. CASE Check(t)
    BY <2>2, <1>2, <1>3 DEF Check, Stays
  <2>3. CASE Taken(t) \/ NextLoop(t)
    BY <2>3, <1>1 DEF Taken, NextLoop
  <2>4. CASE Full(t) \/ Writable(t)
    BY <2>4, <1>3 DEF Full, Writable
  <2>5. CASE SendFails(t) \/ WaitFails(t)
    BY <2>5, <1>2 DEF SendFails, WaitFails, GiveUp
  <2>6. CASE AllSent(t)
    BY <2>6, <1>2, <1>3 DEF AllSent, Stays
  <2>7. CASE ReplyEnds(t)
    BY <2>7, <1>2 DEF ReplyEnds, GiveUp
  <2>8. CASE Window(t) \/ LockAgain(t)
    BY <2>8, <1>3 DEF Window, LockAgain
  <2>9. CASE CheckAgain(t)
    BY <2>9, <1>2, <1>3 DEF CheckAgain, GiveUp, Stays
  <2> QED BY <1>5, <2>1, <2>2, <2>3, <2>4, <2>5, <2>6, <2>7, <2>8, <2>9
          DEF Sending, Receiving
<1>6. CASE ServerReads \/ ConnectionLost \/ UNCHANGED vars
  BY <1>1, <1>6 DEF ServerReads, ConnectionLost, vars
<1> QED BY <1>4, <1>5, <1>6 DEF Next

(* A command that leaves says all its call was given, however long its     *)
(* arguments and whatever the sizes of the buffers: every snprintf behind  *)
(* esl_execute, esl_filter and esl_events is looked at, and the one of     *)
(* esl_sendmsg has room.                                                   *)
THEOREM NothingCutOff == Spec => []SaysAll
<1>1. Init => Printed
  BY DEF Init, Printed
<1>2. IInv /\ Printed => SaysAll
  <2> SUFFICES ASSUME IInv, Printed, NEW t \in Thread, pc[t] # "idle",
                      req[t].op = "sendmsg" => Len(SendMsgLine(req[t].uuid)) + 1 < Reserve
               PROVE  \A piece \in Asked(req[t]) : Contains(Command(req[t]), piece)
    BY DEF SaysAll
  <2> DEFINE r == req[t]
  <2>1. r \in Request /\ Command(r) # Refused
    BY DEF IInv, Typed, Printed
  <2>2. r.op = "sendmsg" => Len(SendMsgLine(r.uuid)) + 1 < Reserve
    OBVIOUS
  <2> HIDE DEF r
  <2>3. r.op \in {"send", "execute", "sendmsg", "sendevent", "filter", "event"}
    BY <2>1, RequestAssumption
  <2>4. \A piece \in Asked(r) : Contains(Command(r), piece)
    <3>1. CASE r.op = "send"
      BY <3>1 DEF Asked
    <3>2. CASE r.op = "execute"
      <4>1. Command(r) = Execute(r)
        BY <3>2 DEF Command
      <4> QED BY <2>1, <3>2, <4>1, ExecuteSays
    <3>3. CASE r.op = "sendmsg"
      <4>1. Command(r) = SendMsg(r)
        BY <3>3 DEF Command
      <4> QED BY <2>1, <2>2, <3>3, <4>1, SendMsgSays
    <3>4. CASE r.op = "sendevent"
      <4>1. Command(r) = SendEvent(r)
        BY <3>4 DEF Command
      <4> QED BY <2>1, <3>4, <4>1, SendEventSays
    <3>5. CASE r.op \in {"filter", "event"}
      <4>1. Command(r) = TwoWords(r.op, r)
        BY <3>5 DEF Command
      <4> QED BY <2>1, <3>5, <4>1, TwoWordsSay
    <3> QED BY <2>3, <3>1, <3>2, <3>3, <3>4, <3>5
  <2> QED BY <2>4 DEF r
<1> QED BY <1>1, <1>2, InvInit, InvNext, PrintedNext, PTL DEF Spec
=============================================================================
