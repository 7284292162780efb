--------------------------- MODULE EslHandleProofs ---------------------------
(***************************************************************************)
(* For any number of threads, calls and events: until a handle is          *)
(* disconnected its locks nest, one thread reads at a time, and a call     *)
(* that succeeds has a packet, also when the handle is disconnected while  *)
(* it runs.                                                                *)
(*                                                                         *)
(* No event is lost, duplicated or overtaken on its way through the race   *)
(* queue, as long as every receiver looks at the queue (check_q) and an    *)
(* event shows its content type in one of the packets that it turns into.  *)
(* And a request gets the reply to its own command, as long as nobody      *)
(* sends without waiting for the reply, the server sends no events and no  *)
(* request has given up at its time limit.                                 *)
(***************************************************************************)
EXTENDS EslHandle, SequenceTheorems, TLAPS

Receives == {"recv", "recv_timed"}

(* Which call a thread at a point of the code has made, or turned into.    *)
MatchesIn(label, name) ==
  /\ label \in {"sr_lock", "sr_send", "sr_recv", "sr_poll", "sr_tried", "sr_got",
                "sr_window", "sr_relock", "sr_check"} => name \in Requests
  /\ label \in {"sr_poll", "sr_tried"} => name = "send_recv_timed"
  /\ label \in {"re_lock", "rt_enter"} => name = "recv"
  /\ label \in {"rt_lock", "rt_recv", "rt_locked", "rt_poll", "rt_try", "rt_tried"} =>
       name = "recv_timed"
  /\ label = "re_queue" => name \in Receives
  /\ label \in {"read", "re_failed"} => name \in Receives \cup Requests
  /\ label \in {"d_lock", "d_clear", "d_relock", "d_destroy"} => name = "disconnect"

MatchesAt(t) == MatchesIn(pc[t], op[t].name)

Matching == \A t \in Thread : MatchesAt(t)

(* A handle that was cleared stays so, and nothing is read from it.        *)
Cleared == mutexSet = ~destroyed /\ (destroyed => ~connected)

(* Whoever holds the mutex at a point of the code is its owner, also after *)
(* a disconnect, when unlocking no longer does anything; but a request     *)
(* that finds the mutex gone goes on to check the connection without it.   *)
(* Until a disconnect the depth is what the code has locked.               *)
Owns(t) == HoldsAt(t) > 0 /\ (mutexSet \/ pc[t] # "sr_check")

Holding == \A t \in Thread : Owns(t) => owner = t

Nesting ==
  mutexSet =>
    /\ \A t \in Thread : HoldsAt(t) = IF owner = t THEN depth ELSE 0
    /\ owner = None => depth = 0

(* What esl_send_recv_timed looks at is there: nobody clears the handle    *)
(* while it looks.                                                         *)
Examining == \A t \in Thread : pc[t] = "sr_got" => ~destroyed /\ lastSr # None

(* SuccessHasPacket, of one thread.                                        *)
Shows(t) ==
  pc[t] = "idle" /\ op[t].name \in Receives \cup Requests /\ result[t].status = "SUCCESS"
    => result[t].packet # None

Locks == Matching /\ Holding /\ Nesting

IInv == TypeOK /\ Cleared /\ Locks /\ Examining /\ SuccessHasPacket

(* What a step of another thread leaves alone.                             *)
Untouched(u) == pc'[u] = pc[u] /\ op'[u] = op[u] /\ result'[u] = result[u]

OthersUntouched(t) == \A u \in Thread : u # t => Untouched(u)

(* TypeOK in three parts: what travels and the fields, the mutex, and the  *)
(* threads.                                                                *)
DataOK ==
  /\ commands \in Seq(Thread \X Nat)
  /\ wire \in Seq(Packet) /\ buf \in Seq(Packet)
  /\ race \in Seq(Packet) /\ taken \in Seq(Packet)
  /\ eventsSent \in 0 .. MaxEvents
  /\ lastSr \in Packet \cup {None}
  /\ closed \in BOOLEAN /\ sock \in BOOLEAN /\ connected \in BOOLEAN
  /\ destroyed \in BOOLEAN /\ mutexSet \in BOOLEAN
  /\ left \in BOOLEAN /\ late \in BOOLEAN

MutexOK == owner \in Thread \cup {None} /\ depth \in Nat /\ freed \in BOOLEAN

CallType == [name : AllOps \cup {"none"}, q : BOOLEAN]
ResultType == [status : Statuses, packet : Packet \cup {None}]

ThreadOK ==
  /\ pc \in [Thread -> Labels]
  /\ op \in [Thread -> CallType]
  /\ calls \in [Thread -> 0 .. MaxCalls]
  /\ result \in [Thread -> ResultType]

LEMMA TypeParts ==
  /\ TypeOK <=> DataOK /\ MutexOK /\ ThreadOK
  /\ TypeOK' <=> DataOK' /\ MutexOK' /\ ThreadOK'
BY DEF TypeOK, DataOK, MutexOK, ThreadOK, CallType, ResultType

-----------------------------------------------------------------------------
(* Types.                                                                  *)
LEMMA ReturnedType ==
  ASSUME NEW status \in Statuses, NEW p \in Packet \cup {None}
  PROVE  Returned(status, p) \in [status : Statuses, packet : Packet \cup {None}]
BY DEF Returned

LEMMA PacketsOfEvent ==
  ASSUME NEW n \in Nat
  PROVE  EventPackets(n) \in Seq(Packet)
<1>1. EventTypes \in Seq({"event", "none"})
  BY HandleAssumption
<1>2. ASSUME NEW i \in 1 .. Len(EventTypes)
      PROVE  [of |-> "event", id |-> <<None, n>>, ct |-> EventTypes[i]] \in Packet
  BY <1>1, <1>2 DEF Packet
<1>3. Len(EventTypes) \in Nat
  BY <1>1
<1> QED
  BY <1>2, <1>3 DEF EventPackets

LEMMA TypeInit == Init => TypeOK
<1> SUFFICES ASSUME Init PROVE TypeOK
  OBVIOUS
<1>1. /\ commands \in Seq(Thread \X Nat) /\ wire \in Seq(Packet) /\ buf \in Seq(Packet)
      /\ race \in Seq(Packet) /\ taken \in Seq(Packet)
  BY DEF Init
<1>2. eventsSent \in 0 .. MaxEvents /\ calls \in [Thread -> 0 .. MaxCalls]
  BY HandleAssumption DEF Init
<1>3. result \in [Thread -> [status : Statuses, packet : Packet \cup {None}]]
  BY ReturnedType DEF Init, Statuses
<1>4. /\ {closed, sock, connected, destroyed, mutexSet, left, freed, late} \subseteq BOOLEAN
      /\ owner \in Thread \cup {None} /\ depth \in Nat /\ lastSr \in Packet \cup {None}
      /\ pc \in [Thread -> Labels]
      /\ op \in [Thread -> [name : AllOps \cup {"none"}, q : BOOLEAN]]
  BY DEF Init, Labels
<1> QED
  BY <1>1, <1>2, <1>3, <1>4 DEF TypeOK

LEMMA TypeServer ==
  ASSUME DataOK, ServerReplies \/ ServerEvent \/ ServerCloses
  PROVE  DataOK' /\ UNCHANGED <<fields, mutex, threads>>
<1> USE DEF fields, mutex, threads, DataOK
<1>1. CASE ServerReplies
  <2>1. /\ Head(commands) \in Thread \X Nat
        /\ Tail(commands) \in Seq(Thread \X Nat)
    BY <1>1 DEF ServerReplies
  <2>2. [of |-> "reply", id |-> Head(commands), ct |-> "none"] \in Packet
    BY <2>1 DEF Packet
  <2>3. wire' \in Seq(Packet)
    BY <1>1, <2>2 DEF ServerReplies
  <2> QED
    BY <1>1, <2>1, <2>3 DEF ServerReplies
<1>2. CASE ServerEvent
  <2>1. eventsSent + 1 \in Nat
    BY HandleAssumption
  <2>2. wire' \in Seq(Packet)
    BY <1>2, <2>1, PacketsOfEvent DEF ServerEvent
  <2> QED
    BY <1>2, <2>2, HandleAssumption DEF ServerEvent
<1>3. CASE ServerCloses
  BY <1>3 DEF ServerCloses
<1> QED
  BY <1>1, <1>2, <1>3

-----------------------------------------------------------------------------
(* A thread goes to a point of the code, with what it changes of its call. *)
Changes(f, t, S) == f' = f \/ \E x \in S : f' = [f EXCEPT ![t] = x]

LEMMA Moves ==
  ASSUME ThreadOK, NEW t \in Thread, NEW label \in Labels, Goto(t, label),
         Changes(op, t, CallType), Changes(calls, t, 0 .. MaxCalls),
         Changes(result, t, ResultType)
  PROVE  ThreadOK' /\ OthersUntouched(t) /\ pc'[t] = label
BY DEF ThreadOK, Goto, Changes, OthersUntouched, Untouched

(* How often it holds the mutex.                                           *)
HeldIn(name) == CASE name = "recv" -> 1
                  [] name \in {"recv_timed", "send_recv"} -> 2
                  [] OTHER -> 3

HoldsIn(label, name) ==
  CASE label \in {"sr_send", "sr_recv", "sr_poll", "sr_got", "sr_check", "rt_recv",
                  "rt_locked", "rt_tried", "d_clear"} -> 1
    [] label = "sr_tried" -> 2
    [] label \in {"read", "re_queue"} -> HeldIn(name)
    [] label = "re_failed" -> HeldIn(name) - 1
    [] OTHER -> 0

LEMMA HoldsType ==
  ASSUME NEW t \in Thread, MatchesAt(t)
  PROVE  /\ HoldsAt(t) = HoldsIn(pc[t], op[t].name) /\ HoldsAt(t) \in Nat
         /\ pc[t] \in {"read", "re_queue", "re_failed"} => Held(t) = HeldIn(op[t].name)
BY DEF MatchesAt, MatchesIn, HoldsAt, HoldsIn, Held, HeldIn, Receives, Requests

LEMMA HoldsTypeNext ==
  ASSUME NEW t \in Thread, MatchesAt(t)'
  PROVE  HoldsAt(t)' = HoldsIn(pc'[t], op'[t].name)
BY DEF MatchesAt, MatchesIn, HoldsAt, HoldsIn, Held, HeldIn, Receives, Requests

LEMMA HoldsOthers ==
  ASSUME NEW t \in Thread, Matching, OthersUntouched(t), NEW u \in Thread, u # t
  PROVE  /\ HoldsAt(u)' = HoldsAt(u) /\ MatchesAt(u)' /\ HoldsAt(u) \in Nat
         /\ Shows(u) => Shows(u)'
<1>1. pc'[u] = pc[u] /\ op'[u] = op[u] /\ result'[u] = result[u]
  BY DEF OthersUntouched, Untouched
<1>2. Held(u)' = Held(u)
  BY <1>1 DEF Held
<1>3. HoldsAt(u)' = HoldsAt(u)
  BY <1>1, <1>2 DEF HoldsAt
<1>4. MatchesAt(u)' = MatchesAt(u) /\ MatchesAt(u)
  BY <1>1 DEF MatchesAt, Matching
<1>5. Shows(u)' = Shows(u)
  BY <1>1 DEF Shows
<1> QED
  BY <1>3, <1>4, <1>5, HoldsType

(* The mutex stays as it is, ...                                           *)
LEMMA LocksKept ==
  ASSUME Locks, MutexOK, NEW t \in Thread, OthersUntouched(t),
         UNCHANGED <<mutexSet, mutex>>, HoldsAt(t)' = HoldsAt(t),
         Owns(t) \/ HoldsAt(t) = 0
  PROVE  MutexOK' /\ Holding' /\ Nesting'
<1>1. \A u \in Thread : HoldsAt(u)' = HoldsAt(u) /\ (u # t => pc'[u] = pc[u])
  BY HoldsOthers DEF Locks, OthersUntouched, Untouched
<1>2. \A u \in Thread : Owns(u)' => Owns(u)
  BY <1>1 DEF Owns
<1> QED
  BY <1>1, <1>2 DEF Locks, MutexOK, Holding, Nesting, mutex

(* ... is taken by a thread to which nobody else can object, ...           *)
LEMMA LocksTaken ==
  ASSUME Locks, MutexOK, NEW t \in Thread, OthersUntouched(t),
         mutexSet' = mutexSet, owner \in {None, t}, NEW n \in Nat, n > 0, Lock(t, n),
         HoldsAt(t)' = HoldsAt(t) + n, MatchesAt(t)
  PROVE  MutexOK' /\ Holding' /\ Nesting'
<1>0. owner' = t /\ depth' = depth + n /\ freed' = freed
  BY DEF Lock
<1>1. \A u \in Thread : u # t => /\ HoldsAt(u)' = HoldsAt(u) /\ HoldsAt(u) \in Nat
                                 /\ Owns(u)' = Owns(u)
  BY HoldsOthers DEF Locks, OthersUntouched, Untouched, Owns
<1>2. \A u \in Thread : u # t => ~Owns(u) /\ (mutexSet => HoldsAt(u) = 0)
  BY <1>1, HandleAssumption DEF Locks, Holding, Owns
<1>3. HoldsAt(t) \in Nat
  BY HoldsType
<1>4. MutexOK'
  BY <1>0 DEF MutexOK
<1>5. Holding'
  BY <1>0, <1>1, <1>2 DEF Holding
<1>6. Nesting'
  <2>1. mutexSet => HoldsAt(t) = depth
    BY <1>3 DEF Locks, Nesting
  <2>2. t # None
    BY HandleAssumption
  <2> QED
    BY <1>0, <1>1, <1>2, <2>1, <2>2 DEF Nesting
<1> QED
  BY <1>4, <1>5, <1>6

(* ... or is given back, unless the handle has lost it.                    *)
LEMMA LocksGiven ==
  ASSUME Locks, MutexOK, NEW t \in Thread, OthersUntouched(t),
         mutexSet' = mutexSet, NEW n \in Nat, n > 0, Unlock(t, n), n <= HoldsAt(t),
         HoldsAt(t)' = HoldsAt(t) - n, MatchesAt(t), Owns(t) \/ n = HoldsAt(t)
  PROVE  MutexOK' /\ Holding' /\ Nesting'
<1>1. \A u \in Thread : u # t => /\ HoldsAt(u)' = HoldsAt(u) /\ HoldsAt(u) \in Nat
                                 /\ Owns(u)' = Owns(u)
  BY HoldsOthers DEF Locks, OthersUntouched, Untouched, Owns
<1>2. HoldsAt(t) \in Nat /\ (mutexSet => owner = t)
  BY HoldsType DEF Locks, Holding, Owns
<1>3. \A u \in Thread : u # t /\ mutexSet => HoldsAt(u) = 0 /\ ~Owns(u)
  BY <1>1, <1>2 DEF Locks, Holding, Owns
<1>4. CASE mutexSet
  <2>1. depth = HoldsAt(t) /\ depth' = depth - n /\ freed' = freed
        /\ owner' = IF depth = n THEN None ELSE t
    BY <1>2, <1>4 DEF Unlock, Locks, Nesting
  <2>2. t # None
    BY HandleAssumption
  <2>3. MutexOK'
    BY <1>2, <2>1 DEF MutexOK
  <2>4. Holding'
    BY <1>1, <1>2, <1>3, <1>4, <2>1 DEF Holding, Owns
  <2>5. Nesting'
    BY <1>1, <1>2, <1>3, <1>4, <2>1, <2>2 DEF Nesting
  <2> QED
    BY <2>3, <2>4, <2>5
<1>5. CASE ~mutexSet
  <2>1. UNCHANGED mutex
    BY <1>5 DEF Unlock
  <2>2. MutexOK'
    BY <2>1 DEF MutexOK, mutex
  <2>3. Holding'
    BY <1>1, <1>2, <2>1 DEF Locks, Holding, Owns, mutex
  <2>4. Nesting'
    BY <1>5 DEF Nesting
  <2> QED
    BY <2>2, <2>3, <2>4
<1> QED
  BY <1>4, <1>5

-----------------------------------------------------------------------------
(* What the step of a thread must leave true of itself and of the mutex.   *)
Behaves(t) == /\ ThreadOK' /\ OthersUntouched(t) /\ MatchesAt(t)' /\ Shows(t)'
              /\ MutexOK' /\ Holding' /\ Nesting'

LEMMA AtPoint ==
  ASSUME IInv, NEW t \in Thread
  PROVE  /\ DataOK /\ MutexOK /\ ThreadOK /\ Locks /\ Cleared /\ MatchesAt(t)
         /\ MatchesIn(pc[t], op[t].name)
         /\ HoldsAt(t) = HoldsIn(pc[t], op[t].name) /\ HoldsAt(t) \in Nat
         /\ pc[t] \in {"read", "re_queue", "re_failed"} => Held(t) = HeldIn(op[t].name)
<1>1. MatchesAt(t)
  BY DEF IInv, Locks, Matching
<1> QED
  BY <1>1, TypeParts, HoldsType DEF IInv, Locks, MatchesAt

(* A thread goes on in its call, ...                                       *)
LEMMA GoesOn ==
  ASSUME IInv, NEW t \in Thread, NEW label \in Labels \ {"idle"}, Goto(t, label),
         Changes(op, t, CallType), Changes(calls, t, 0 .. MaxCalls), result' = result,
         MatchesIn(label, op'[t].name)
  PROVE  /\ ThreadOK' /\ OthersUntouched(t) /\ pc'[t] = label /\ Shows(t)'
         /\ MatchesAt(t)' /\ HoldsAt(t)' = HoldsIn(label, op'[t].name)
<1>1. ThreadOK' /\ OthersUntouched(t) /\ pc'[t] = label
  BY AtPoint, Moves DEF Changes
<1>2. MatchesAt(t)'
  BY <1>1 DEF MatchesAt
<1> QED
  BY <1>1, <1>2, HoldsTypeNext DEF Shows

(* ... keeping the mutex as it is, ...                                     *)
LEMMA Keeping ==
  ASSUME IInv, NEW t \in Thread, NEW label \in Labels \ {"idle"}, Goto(t, label),
         Changes(op, t, CallType), Changes(calls, t, 0 .. MaxCalls), result' = result,
         UNCHANGED <<mutexSet, mutex>>, MatchesIn(label, op'[t].name),
         HoldsIn(label, op'[t].name) = HoldsAt(t), Owns(t) \/ HoldsAt(t) = 0
  PROVE  Behaves(t) /\ pc'[t] = label
BY AtPoint, GoesOn, LocksKept DEF Behaves

(* ... taking it, ...                                                      *)
LEMMA Taking ==
  ASSUME IInv, NEW t \in Thread, NEW label \in Labels \ {"idle"}, Goto(t, label),
         UNCHANGED <<mutexSet, op, calls, result>>, owner \in {None, t}, Lock(t, 1),
         MatchesIn(label, op[t].name), HoldsIn(label, op[t].name) = HoldsAt(t) + 1
  PROVE  Behaves(t) /\ pc'[t] = label
<1>1. Changes(op, t, CallType) /\ Changes(calls, t, 0 .. MaxCalls)
  BY DEF Changes
<1>2. /\ ThreadOK' /\ OthersUntouched(t) /\ pc'[t] = label /\ Shows(t)'
      /\ MatchesAt(t)' /\ HoldsAt(t)' = HoldsAt(t) + 1
  BY <1>1, GoesOn
<1>3. MutexOK' /\ Holding' /\ Nesting'
  BY <1>2, AtPoint, LocksTaken
<1> QED
  BY <1>2, <1>3 DEF Behaves

(* ... or giving it back.                                                  *)
LEMMA Giving ==
  ASSUME IInv, NEW t \in Thread, NEW label \in Labels \ {"idle"}, Goto(t, label),
         Changes(op, t, CallType), UNCHANGED <<mutexSet, calls, result>>,
         NEW n \in Nat, n > 0, Unlock(t, n), n <= HoldsAt(t),
         MatchesIn(label, op'[t].name), HoldsIn(label, op'[t].name) = HoldsAt(t) - n,
         Owns(t)
  PROVE  Behaves(t) /\ pc'[t] = label
<1>1. Changes(calls, t, 0 .. MaxCalls)
  BY DEF Changes
<1>2. /\ ThreadOK' /\ OthersUntouched(t) /\ pc'[t] = label /\ Shows(t)'
      /\ MatchesAt(t)' /\ HoldsAt(t)' = HoldsAt(t) - n
  BY <1>1, GoesOn
<1>3. MutexOK' /\ Holding' /\ Nesting'
  BY <1>2, AtPoint, LocksGiven
<1> QED
  BY <1>2, <1>3 DEF Behaves

(* It returns, with a packet if it says that it received one.              *)
LEMMA Returns ==
  ASSUME IInv, NEW t \in Thread, NEW status \in Statuses, NEW p \in Packet \cup {None},
         Goto(t, "idle"), result' = [result EXCEPT ![t] = Returned(status, p)],
         Changes(op, t, CallType), Changes(calls, t, 0 .. MaxCalls),
         status = "SUCCESS" /\ op'[t].name \in Receives \cup Requests => p # None
  PROVE  /\ ThreadOK' /\ OthersUntouched(t) /\ pc'[t] = "idle" /\ Shows(t)'
         /\ MatchesAt(t)' /\ HoldsAt(t)' = 0
<1>1. /\ Returned(status, p) \in ResultType
      /\ Returned(status, p).status = status /\ Returned(status, p).packet = p
  BY ReturnedType DEF ResultType, Returned
<1>2. ThreadOK' /\ OthersUntouched(t) /\ pc'[t] = "idle"
  BY <1>1, AtPoint, Moves DEF Changes, Labels
<1>3. result'[t] = Returned(status, p)
  BY AtPoint DEF ThreadOK
<1> QED
  BY <1>1, <1>2, <1>3 DEF Shows, MatchesAt, MatchesIn, HoldsAt

(* It fails, or its time is over, having held nothing ...                  *)
LEMMA QuitsFree ==
  ASSUME IInv, NEW t \in Thread, NEW status \in {"FAIL", "BREAK"}, Return(t, status),
         Changes(op, t, CallType), Changes(calls, t, 0 .. MaxCalls),
         UNCHANGED <<mutexSet, mutex>>, HoldsAt(t) = 0
  PROVE  Behaves(t) /\ pc'[t] = "idle"
<1>1. /\ ThreadOK' /\ OthersUntouched(t) /\ pc'[t] = "idle" /\ Shows(t)'
      /\ MatchesAt(t)' /\ HoldsAt(t)' = 0
  BY Returns DEF Return, Statuses
<1>2. MutexOK' /\ Holding' /\ Nesting'
  BY <1>1, AtPoint, LocksKept
<1> QED
  BY <1>1, <1>2 DEF Behaves

(* ... or giving back whatever it holds.                                   *)
LEMMA Quits ==
  ASSUME IInv, NEW t \in Thread, NEW status \in {"FAIL", "BREAK"}, Return(t, status),
         UNCHANGED <<mutexSet, op, calls>>,
         NEW n \in Nat, n > 0, Unlock(t, n), HoldsAt(t) = n
  PROVE  Behaves(t) /\ pc'[t] = "idle"
<1>1. Changes(op, t, CallType) /\ Changes(calls, t, 0 .. MaxCalls)
  BY DEF Changes
<1>2. /\ ThreadOK' /\ OthersUntouched(t) /\ pc'[t] = "idle" /\ Shows(t)'
      /\ MatchesAt(t)' /\ HoldsAt(t)' = 0
  BY <1>1, Returns DEF Return, Statuses
<1>3. MutexOK' /\ Holding' /\ Nesting'
  BY <1>2, AtPoint, LocksGiven
<1> QED
  BY <1>2, <1>3 DEF Behaves

(* It hands out a packet and gives back whatever it holds.                 *)
LEMMA HandsOut ==
  ASSUME IInv, NEW t \in Thread, NEW p \in Packet, Give(t, p),
         UNCHANGED <<mutexSet, op, calls>>,
         NEW n \in Nat, n > 0, Unlock(t, n), HoldsAt(t) = n
  PROVE  Behaves(t) /\ pc'[t] = "idle"
<1>1. Changes(op, t, CallType) /\ Changes(calls, t, 0 .. MaxCalls) /\ p # None
  BY HandleAssumption DEF Changes
<1>2. /\ ThreadOK' /\ OthersUntouched(t) /\ pc'[t] = "idle" /\ Shows(t)'
      /\ MatchesAt(t)' /\ HoldsAt(t)' = 0
  BY <1>1, Returns DEF Give, Statuses
<1>3. MutexOK' /\ Holding' /\ Nesting'
  BY <1>2, AtPoint, LocksGiven
<1> QED
  BY <1>2, <1>3 DEF Behaves

(* A call begins.                                                          *)
LEMMA Begins ==
  ASSUME IInv, NEW t \in Thread, NEW name \in AllOps, NEW q \in BOOLEAN,
         Begin(t, name, q)
  PROVE  /\ Changes(op, t, CallType) /\ Changes(calls, t, 0 .. MaxCalls)
         /\ op'[t].name = name /\ calls'[t] \in Nat /\ HoldsAt(t) = 0
<1>1. pc[t] = "idle" /\ calls[t] \in 0 .. MaxCalls /\ calls[t] < MaxCalls /\ MaxCalls \in Nat
  BY AtPoint, HandleAssumption DEF Begin, ThreadOK
<1>2. calls[t] + 1 \in 0 .. MaxCalls
  BY <1>1
<1>3. [name |-> name, q |-> q] \in CallType
  BY DEF CallType
<1>4. /\ calls' = [calls EXCEPT ![t] = calls[t] + 1]
      /\ op' = [op EXCEPT ![t] = [name |-> name, q |-> q]]
  BY DEF Begin
<1>5. Changes(op, t, CallType) /\ Changes(calls, t, 0 .. MaxCalls)
  BY <1>2, <1>3, <1>4 DEF Changes
<1>6. op'[t].name = name /\ calls'[t] \in Nat
  BY <1>2, <1>4, AtPoint DEF ThreadOK
<1> QED
  BY <1>1, <1>5, <1>6 DEF HoldsAt

(* All in all: a thread that changes what an examining thread looks at     *)
(* holds the mutex, so that nobody else is examining.                      *)
LEMMA Carries ==
  ASSUME IInv, NEW t \in Thread, Behaves(t), DataOK', Cleared',
         (lastSr' = lastSr /\ destroyed' = destroyed) \/ Owns(t),
         pc'[t] = "sr_got" => ~destroyed' /\ lastSr' # None
  PROVE  IInv'
<1>1. \A u \in Thread : u # t => HoldsAt(u)' = HoldsAt(u) /\ MatchesAt(u)' /\ Shows(u)'
  BY HoldsOthers DEF IInv, Locks, SuccessHasPacket, Shows, Receives, Behaves
<1>2. Matching' /\ SuccessHasPacket'
  BY <1>1 DEF Matching, SuccessHasPacket, Shows, Receives, Behaves
<1>3. ASSUME NEW u \in Thread, pc'[u] = "sr_got"
      PROVE  ~destroyed' /\ lastSr' # None
  <2>1. CASE u = t
    BY <1>3, <2>1
  <2>2. CASE u # t
    <3>1. pc[u] = "sr_got" /\ ~destroyed /\ lastSr # None
      BY <1>3, <2>2 DEF OthersUntouched, Untouched, IInv, Examining, Behaves
    <3>2. Owns(u)
      BY <3>1 DEF HoldsAt, Owns
    <3>3. ~Owns(t)
      BY <2>2, <3>2 DEF IInv, Locks, Holding
    <3> QED
      BY <3>1, <3>3
  <2> QED
    BY <2>1, <2>2
<1>4. Examining'
  BY <1>3 DEF Examining
<1> QED
  BY <1>2, <1>4, TypeParts DEF IInv, Locks, Behaves

(* The same for a step that changes nothing but the mutex and its thread.  *)
LEMMA CarriesQuietly ==
  ASSUME IInv, NEW t \in Thread, UNCHANGED <<server, fields, taken, late>>, Behaves(t),
         pc'[t] # "sr_got"
  PROVE  IInv'
<1>1. DataOK'
  BY AtPoint DEF DataOK, server, fields
<1>2. Cleared' /\ lastSr' = lastSr /\ destroyed' = destroyed
  BY DEF IInv, Cleared, fields
<1> QED
  BY <1>1, <1>2, Carries

(* Nothing connects a handle again.                                        *)
LEMMA StaysCleared ==
  ASSUME DataOK, Cleared, UNCHANGED <<destroyed, mutexSet>>,
         connected' = connected \/ connected' = FALSE
  PROVE  connected' \in BOOLEAN /\ Cleared'
<1>1. connected \in BOOLEAN
  BY DEF DataOK
<1>2. mutexSet' = ~destroyed'
  BY DEF Cleared
<1>3. CASE connected' = connected
  BY <1>1, <1>2, <1>3 DEF Cleared
<1>4. CASE connected' = FALSE
  BY <1>2, <1>4 DEF Cleared
<1> QED
  BY <1>3, <1>4

(* A command that is sent.                                                 *)
LEMMA CommandType ==
  ASSUME DataOK, NEW t \in Thread, NEW n \in Nat
  PROVE  Append(commands, <<t, n>>) \in Seq(Thread \X Nat)
<1>1. <<t, n>> \in Thread \X Nat
  OBVIOUS
<1> QED
  BY <1>1 DEF DataOK

-----------------------------------------------------------------------------
(* esl_send.                                                               *)
LEMMA SendStep ==
  ASSUME IInv, NEW t \in Thread, Send(t)
  PROVE  IInv'
<1>1. Begin(t, "send", FALSE) /\ UNCHANGED <<mutexSet, mutex>>
  BY DEF Send
<1>2. /\ Changes(op, t, CallType) /\ Changes(calls, t, 0 .. MaxCalls)
      /\ op'[t].name = "send" /\ calls'[t] \in Nat /\ HoldsAt(t) = 0
  BY <1>1, Begins DEF AllOps
<1>3. Behaves(t) /\ pc'[t] = "idle"
  <2>1. CASE Return(t, "SUCCESS")
    <3>1. /\ ThreadOK' /\ OthersUntouched(t) /\ pc'[t] = "idle" /\ Shows(t)'
          /\ MatchesAt(t)' /\ HoldsAt(t)' = 0
      BY <1>2, <2>1, Returns DEF Return, Statuses, Receives, Requests
    <3>2. MutexOK' /\ Holding' /\ Nesting'
      BY <1>1, <1>2, <3>1, AtPoint, LocksKept
    <3> QED
      BY <3>1, <3>2 DEF Behaves
  <2>2. CASE Return(t, "FAIL")
    BY <1>1, <1>2, <2>2, QuitsFree
  <2> QED
    BY <2>1, <2>2 DEF Send
<1>4. /\ UNCHANGED <<wire, eventsSent, closed, sock, destroyed, mutexSet, buf, left, race,
                     lastSr, taken, late>>
      /\ connected' = connected \/ connected' = FALSE
  BY DEF Send
<1>5. commands' \in Seq(Thread \X Nat)
  BY <1>2, AtPoint, CommandType DEF Send, SendCommand, DataOK
<1>6. connected' \in BOOLEAN /\ Cleared'
  BY <1>4, AtPoint, StaysCleared
<1>7. DataOK'
  BY <1>4, <1>5, <1>6, AtPoint DEF DataOK
<1> QED
  BY <1>3, <1>4, <1>6, <1>7, Carries

-----------------------------------------------------------------------------
(* esl_send_recv_timed.                                                    *)
LEMMA SendRecvStep ==
  ASSUME IInv, NEW t \in Thread, NEW name \in Requests, SendRecv(t, name)
  PROVE  IInv'
<1>1. name \in AllOps /\ Begin(t, name, FALSE) /\ UNCHANGED <<server, fields, mutex, taken, late>>
  BY DEF SendRecv, AllOps
<1>2. /\ Changes(op, t, CallType) /\ Changes(calls, t, 0 .. MaxCalls)
      /\ op'[t].name = name /\ HoldsAt(t) = 0 /\ UNCHANGED <<mutexSet, mutex>>
  BY <1>1, Begins DEF fields
<1>3. Behaves(t) /\ pc'[t] \in {"sr_lock", "idle"}
  <2>1. CASE mutexSet
    <3>1. MatchesIn("sr_lock", op'[t].name) /\ HoldsIn("sr_lock", op'[t].name) = 0
      BY <1>2 DEF MatchesIn, HoldsIn
    <3> QED
      BY <1>2, <2>1, <3>1, Keeping DEF SendRecv, Labels
  <2>2. CASE ~mutexSet
    BY <1>2, <2>2, QuitsFree DEF SendRecv
  <2> QED
    BY <2>1, <2>2
<1> QED
  BY <1>1, <1>3, CarriesQuietly

LEMMA SrSendStep ==
  ASSUME IInv, NEW t \in Thread, SrSend(t)
  PROVE  IInv'
<1>1. /\ MatchesIn("sr_send", op[t].name)
      /\ HoldsIn("sr_send", op[t].name) = HoldsAt(t) + 1
  BY AtPoint DEF SrSend, MatchesIn, HoldsIn
<1>2. Behaves(t) /\ pc'[t] = "sr_send"
  BY <1>1, Taking DEF SrSend, Free, Labels, fields
<1> QED
  BY <1>2, CarriesQuietly DEF SrSend

LEMMA SrSentStep ==
  ASSUME IInv, NEW t \in Thread, SrSent(t)
  PROVE  IInv'
<1>1. /\ HoldsAt(t) = 1 /\ Changes(op, t, CallType) /\ Changes(calls, t, 0 .. MaxCalls)
      /\ MatchesIn("sr_recv", op[t].name) /\ HoldsIn("sr_recv", op[t].name) = 1
      /\ Owns(t)
  BY AtPoint DEF SrSent, MatchesIn, HoldsIn, Changes, Owns
<1>2. UNCHANGED <<mutexSet, op, calls>>
  BY DEF SrSent
<1>3. Behaves(t) /\ pc'[t] \in {"sr_recv", "idle"}
  <2>1. CASE Goto(t, "sr_recv") /\ UNCHANGED <<mutex, result>>
    BY <1>1, <1>2, <2>1, Keeping DEF Labels
  <2>2. CASE Unlock(t, 1) /\ Return(t, "FAIL")
    BY <1>1, <1>2, <2>2, Quits
  <2> QED
    BY <2>1, <2>2 DEF SrSent
<1>4. /\ lastSr' = lastSr \/ lastSr' = None
      /\ connected' = connected \/ connected' = FALSE
      /\ UNCHANGED <<wire, eventsSent, closed, sock, destroyed, mutexSet, buf, left, race,
                     taken, late>>
  BY DEF SrSent
<1>5. calls[t] \in Nat
  BY AtPoint, HandleAssumption DEF ThreadOK
<1>6. commands' \in Seq(Thread \X Nat)
  BY <1>5, AtPoint, CommandType DEF SrSent, DataOK
<1>7. connected' \in BOOLEAN /\ Cleared'
  BY <1>4, AtPoint, StaysCleared
<1>8. DataOK'
  BY <1>4, <1>6, <1>7, AtPoint DEF DataOK
<1> QED
  BY <1>1, <1>3, <1>7, <1>8, Carries

LEMMA SrRecvStep ==
  ASSUME IInv, NEW t \in Thread, SrRecv(t)
  PROVE  IInv'
<1>1. HoldsAt(t) = 1 /\ Owns(t) /\ op[t].name \in Requests
  BY AtPoint DEF SrRecv, MatchesIn, HoldsIn, Owns
<1>2. UNCHANGED <<mutexSet, op, calls>>
      /\ Changes(op, t, CallType) /\ Changes(calls, t, 0 .. MaxCalls)
  BY DEF SrRecv, Changes
<1>3. Behaves(t) /\ pc'[t] \in {"read", "sr_poll", "idle"}
  <2>1. CASE Usable /\ op[t].name = "send_recv"
    <3>1. Lock(t, 1) /\ result' = result /\ Goto(t, "read")
      BY <2>1 DEF SrRecv
    <3>2. owner = t
      BY <1>1 DEF IInv, Locks, Holding
    <3>3. MatchesIn("read", op[t].name) /\ HoldsIn("read", op[t].name) = 2
      BY <1>1, <2>1 DEF MatchesIn, HoldsIn, HeldIn
    <3> QED
      BY <1>1, <1>2, <3>1, <3>2, <3>3, Taking DEF Labels
  <2>2. CASE Usable /\ op[t].name # "send_recv"
    <3>1. Goto(t, "sr_poll") /\ UNCHANGED <<mutex, result>>
      BY <2>2 DEF SrRecv
    <3>2. MatchesIn("sr_poll", op'[t].name) /\ HoldsIn("sr_poll", op'[t].name) = 1
      BY <1>1, <1>2, <2>2 DEF MatchesIn, HoldsIn, Requests
    <3> QED
      BY <1>1, <1>2, <3>1, <3>2, Keeping DEF Labels
  <2>3. CASE ~Usable
    BY <1>1, <1>2, <2>3, Quits DEF SrRecv
  <2> QED
    BY <2>1, <2>2, <2>3
<1>4. UNCHANGED <<server, sock, connected, destroyed, mutexSet, buf, left, race, taken, late>>
      /\ lastSr' = None
  BY DEF SrRecv
<1>5. DataOK' /\ Cleared'
  BY <1>4, AtPoint DEF DataOK, Cleared, server
<1> QED
  BY <1>1, <1>3, <1>5, Carries

LEMMA SrPollStep ==
  ASSUME IInv, NEW t \in Thread, SrPoll(t)
  PROVE  IInv'
<1>1. /\ HoldsAt(t) = 1 /\ MatchesIn("sr_tried", op[t].name)
      /\ HoldsIn("sr_tried", op[t].name) = 2 /\ Owns(t)
  BY AtPoint DEF SrPoll, MatchesIn, HoldsIn, Owns
<1>2. UNCHANGED <<mutexSet, op, calls>>
  BY DEF SrPoll
<1>3. Behaves(t) /\ pc'[t] \in {"sr_tried", "idle"}
  <2>1. CASE Lock(t, 1) /\ Goto(t, "sr_tried") /\ result' = result
    <3>1. owner = t
      BY <1>1 DEF IInv, Locks, Holding
    <3> QED
      BY <1>1, <1>2, <2>1, <3>1, Taking DEF Labels
  <2>2. CASE Unlock(t, 1) /\ Return(t, "BREAK")
    BY <1>1, <1>2, <2>2, Quits
  <2>3. CASE Unlock(t, 1) /\ Return(t, "FAIL")
    BY <1>1, <1>2, <2>3, Quits
  <2> QED
    BY <2>1, <2>2, <2>3 DEF SrPoll
<1>4. /\ UNCHANGED <<server, sock, destroyed, mutexSet, buf, left, race, lastSr, taken>>
      /\ connected' = connected \/ connected' = FALSE
      /\ late' = late \/ late' = TRUE
  BY DEF SrPoll
<1>5. connected' \in BOOLEAN /\ Cleared'
  BY <1>4, AtPoint, StaysCleared
<1>6. DataOK'
  BY <1>4, <1>5, AtPoint DEF DataOK, server
<1> QED
  BY <1>3, <1>4, <1>5, <1>6, Carries

LEMMA SrTriedStep ==
  ASSUME IInv, NEW t \in Thread, SrTried(t)
  PROVE  IInv'
<1>1. /\ HoldsAt(t) = 2 /\ MatchesIn("read", op[t].name) /\ HoldsIn("read", op[t].name) = 3
      /\ Owns(t)
  BY AtPoint DEF SrTried, MatchesIn, HoldsIn, HeldIn, Requests, Owns
<1>2. UNCHANGED <<mutexSet, op, calls>>
  BY DEF SrTried, fields
<1>3. Behaves(t) /\ pc'[t] \in {"read", "idle"}
  <2>1. CASE Usable
    <3>1. owner = t
      BY <1>1 DEF IInv, Locks, Holding
    <3> QED
      BY <1>1, <1>2, <2>1, <3>1, Taking DEF SrTried, Labels
  <2>2. CASE ~Usable
    BY <1>1, <1>2, <2>2, Quits DEF SrTried
  <2> QED
    BY <2>1, <2>2
<1> QED
  BY <1>3, CarriesQuietly DEF SrTried

LEMMA SrGotStep ==
  ASSUME IInv, NEW t \in Thread, SrGot(t)
  PROVE  IInv'
<1>0. lastSr \in Packet
  BY AtPoint DEF SrGot, IInv, Examining, DataOK
<1>1. /\ HoldsAt(t) = 1 /\ Owns(t) /\ Changes(op, t, CallType)
      /\ MatchesIn("sr_window", op[t].name) /\ HoldsIn("sr_window", op[t].name) = 0
  BY AtPoint DEF SrGot, MatchesIn, HoldsIn, Changes, Owns
<1>2. UNCHANGED <<mutexSet, op, calls>> /\ Unlock(t, 1)
  BY DEF SrGot
<1>3. Behaves(t) /\ pc'[t] \in {"sr_window", "idle"}
  <2>1. CASE Goto(t, "sr_window") /\ result' = result
    BY <1>1, <1>2, <2>1, Giving DEF Labels
  <2>2. CASE Give(t, lastSr)
    BY <1>0, <1>1, <1>2, <2>2, HandsOut
  <2> QED
    BY <2>1, <2>2 DEF SrGot
<1>4. Append(race, lastSr) \in Seq(Packet)
  BY <1>0, AtPoint DEF DataOK
<1>5. race' \in Seq(Packet) /\ lastSr' \in Packet \cup {None}
  BY <1>4, AtPoint DEF SrGot, DataOK
<1>6. DataOK' /\ Cleared'
  BY <1>5, AtPoint DEF SrGot, DataOK, Cleared, server
<1> QED
  BY <1>1, <1>3, <1>6, Carries

(* Without a mutex to take, the request goes on as if it held it.          *)
LEMMA SrWindowStep ==
  ASSUME IInv, NEW t \in Thread, SrWindow(t)
  PROVE  IInv'
<1>1. /\ HoldsAt(t) = 0 /\ op[t].name \in Requests /\ UNCHANGED <<server, fields, taken, late>>
      /\ UNCHANGED <<mutexSet, mutex, op, calls, result>>
      /\ Changes(op, t, CallType) /\ Changes(calls, t, 0 .. MaxCalls)
  BY AtPoint DEF SrWindow, MatchesIn, HoldsIn, Changes, fields
<1>2. CASE mutexSet
  <2>1. MatchesIn("sr_relock", op[t].name) /\ HoldsIn("sr_relock", op[t].name) = 0
    BY <1>1 DEF MatchesIn, HoldsIn
  <2>2. Behaves(t) /\ pc'[t] = "sr_relock"
    BY <1>1, <1>2, <2>1, Keeping DEF SrWindow, Labels
  <2> QED
    BY <1>1, <2>2, CarriesQuietly
<1>3. CASE ~mutexSet
  <2>1. MatchesIn("sr_check", op[t].name)
    BY <1>1 DEF MatchesIn
  <2>2. ThreadOK' /\ OthersUntouched(t) /\ pc'[t] = "sr_check" /\ Shows(t)' /\ MatchesAt(t)'
    BY <1>1, <1>3, <2>1, GoesOn DEF SrWindow, Labels
  <2>3. MutexOK' /\ Nesting'
    BY <1>1, <1>3, AtPoint DEF MutexOK, mutex, Nesting
  <2>4. ASSUME NEW u \in Thread, Owns(u)'
        PROVE  owner' = u
    <3>1. u # t
      BY <1>1, <1>3, <2>2, <2>4 DEF Owns
    <3>2. Owns(u)
      BY <1>1, <2>2, <2>4, <3>1, AtPoint, HoldsOthers
        DEF Owns, OthersUntouched, Untouched, Locks
    <3> QED
      BY <1>1, <3>2 DEF IInv, Locks, Holding, mutex
  <2>5. Behaves(t)
    BY <2>2, <2>3, <2>4 DEF Behaves, Holding
  <2> QED
    BY <1>1, <2>2, <2>5, CarriesQuietly
<1> QED
  BY <1>2, <1>3

LEMMA SrRelockStep ==
  ASSUME IInv, NEW t \in Thread, SrRelock(t)
  PROVE  IInv'
<1>1. /\ MatchesIn("sr_check", op[t].name)
      /\ HoldsIn("sr_check", op[t].name) = HoldsAt(t) + 1
  BY AtPoint DEF SrRelock, MatchesIn, HoldsIn
<1>2. Behaves(t) /\ pc'[t] = "sr_check"
  BY <1>1, Taking DEF SrRelock, Free, Labels, fields
<1> QED
  BY <1>2, CarriesQuietly DEF SrRelock

LEMMA SrCheckStep ==
  ASSUME IInv, NEW t \in Thread, SrCheck(t)
  PROVE  IInv'
<1>1. /\ HoldsAt(t) = 1 /\ Changes(op, t, CallType) /\ Changes(calls, t, 0 .. MaxCalls)
      /\ MatchesIn("sr_recv", op[t].name) /\ HoldsIn("sr_recv", op[t].name) = 1
  BY AtPoint DEF SrCheck, MatchesIn, HoldsIn, Changes
<1>2. UNCHANGED <<mutexSet, op, calls>> /\ HoldsIn("sr_recv", op'[t].name) = 1
      /\ MatchesIn("sr_recv", op'[t].name)
  BY <1>1 DEF SrCheck
<1>3. Behaves(t) /\ pc'[t] \in {"sr_recv", "idle"}
  <2>1. CASE connected /\ sock
    <3>1. Owns(t)
      <4>1. Cleared
        BY AtPoint
      <4>2. mutexSet
        BY <2>1, <4>1 DEF Cleared
      <4> QED
        BY <1>1, <4>2 DEF Owns
    <3>2. Goto(t, "sr_recv") /\ UNCHANGED <<mutex, result>>
      BY <2>1 DEF SrCheck
    <3> QED
      BY <1>1, <1>2, <3>1, <3>2, Keeping DEF Labels
  <2>2. CASE ~(connected /\ sock)
    BY <1>1, <1>2, <2>2, Quits DEF SrCheck
  <2> QED
    BY <2>1, <2>2
<1>4. connected' = connected \/ connected' = FALSE
  BY DEF SrCheck
<1>5. connected' \in BOOLEAN /\ Cleared'
  BY <1>4, AtPoint, StaysCleared DEF SrCheck
<1>6. DataOK'
  BY <1>5, AtPoint DEF SrCheck, DataOK, server
<1> QED
  BY <1>3, <1>5, <1>6, Carries DEF SrCheck

-----------------------------------------------------------------------------
(* esl_recv_event.                                                         *)
LEMMA RecvStep ==
  ASSUME IInv, NEW t \in Thread, NEW q \in BOOLEAN, Recv(t, q)
  PROVE  IInv'
<1>1. Begin(t, "recv", q) /\ UNCHANGED <<server, fields, mutex, taken, late>>
  BY DEF Recv
<1>2. /\ Changes(op, t, CallType) /\ Changes(calls, t, 0 .. MaxCalls)
      /\ op'[t].name = "recv" /\ HoldsAt(t) = 0 /\ UNCHANGED <<mutexSet, mutex>>
  BY <1>1, Begins DEF fields, AllOps
<1>3. Behaves(t) /\ pc'[t] \in {"re_lock", "idle"}
  <2>1. CASE Usable
    <3>1. MatchesIn("re_lock", op'[t].name) /\ HoldsIn("re_lock", op'[t].name) = 0
      BY <1>2 DEF MatchesIn, HoldsIn
    <3> QED
      BY <1>2, <2>1, <3>1, Keeping DEF Recv, Labels
  <2>2. CASE ~Usable
    BY <1>2, <2>2, QuitsFree DEF Recv
  <2> QED
    BY <2>1, <2>2
<1> QED
  BY <1>1, <1>3, CarriesQuietly

LEMMA ReLockStep ==
  ASSUME IInv, NEW t \in Thread, ReLock(t)
  PROVE  IInv'
<1>1. /\ MatchesIn("re_queue", op[t].name)
      /\ HoldsIn("re_queue", op[t].name) = HoldsAt(t) + 1
  BY AtPoint DEF ReLock, MatchesIn, HoldsIn, HeldIn, Receives
<1>2. Behaves(t) /\ pc'[t] = "re_queue"
  BY <1>1, Taking DEF ReLock, Free, Labels, fields
<1> QED
  BY <1>2, CarriesQuietly DEF ReLock

LEMMA ReQueueStep ==
  ASSUME IInv, NEW t \in Thread, ReQueue(t)
  PROVE  IInv'
<1>1. /\ HoldsAt(t) = Held(t) /\ Held(t) \in Nat /\ Held(t) > 0 /\ Owns(t)
      /\ MatchesIn("read", op[t].name) /\ HoldsIn("read", op[t].name) = HoldsAt(t)
      /\ Changes(op, t, CallType) /\ Changes(calls, t, 0 .. MaxCalls)
  BY AtPoint DEF ReQueue, MatchesIn, HoldsIn, HeldIn, Receives, Owns, Changes
<1>2. /\ UNCHANGED <<server, sock, connected, destroyed, mutexSet, buf, left, lastSr, op,
                  calls, late>>
  BY DEF ReQueue
<1>3. race \in Seq(Packet) /\ taken \in Seq(Packet)
  BY AtPoint DEF DataOK
<1>4. Behaves(t) /\ pc'[t] \in {"read", "idle"}
      /\ race' \in Seq(Packet) /\ taken' \in Seq(Packet)
  <2>1. CASE op[t].q /\ race # <<>>
    <3>1. race' = Tail(race) /\ Deliver(t, Head(race))
      BY <2>1 DEF ReQueue
    <3>2. Head(race) \in Packet /\ Tail(race) \in Seq(Packet)
      BY <1>3, <2>1
    <3>3. taken' = Append(taken, Head(race)) /\ Unlock(t, Held(t)) /\ Give(t, Head(race))
      BY <3>1 DEF Deliver
    <3>4. Append(taken, Head(race)) \in Seq(Packet)
      BY <1>3, <3>2
    <3>5. Behaves(t) /\ pc'[t] = "idle"
      BY <1>1, <1>2, <3>2, <3>3, HandsOut
    <3> QED
      BY <3>1, <3>2, <3>3, <3>4, <3>5
  <2>2. CASE ~(op[t].q /\ race # <<>>)
    <3>1. Goto(t, "read") /\ UNCHANGED <<race, mutex, result, taken>>
      BY <2>2 DEF ReQueue
    <3>2. Behaves(t) /\ pc'[t] = "read"
      BY <1>1, <1>2, <3>1, Keeping DEF Labels
    <3> QED
      BY <1>3, <3>1, <3>2
  <2> QED
    BY <2>1, <2>2
<1>5. DataOK' /\ Cleared'
  BY <1>2, <1>4, AtPoint DEF DataOK, Cleared, server
<1> QED
  BY <1>2, <1>4, <1>5, Carries

LEMMA ReadStep ==
  ASSUME IInv, NEW t \in Thread, Read(t)
  PROVE  IInv'
<1>1. /\ HoldsAt(t) = Held(t) /\ Held(t) \in Nat /\ Held(t) > 0 /\ Owns(t)
      /\ op[t].name \in Requests => Held(t) > 1 /\ MatchesIn("sr_got", op[t].name)
      /\ HoldsIn("sr_got", op[t].name) = 1 /\ Changes(op, t, CallType)
  BY AtPoint DEF Read, MatchesIn, HoldsIn, HeldIn, Receives, Requests, Owns, Changes
<1>2. /\ UNCHANGED <<server, sock, connected, destroyed, mutexSet, race, op, calls, late>>
      /\ buf' = Tail(buf) /\ connected /\ left' \in BOOLEAN
  BY DEF Read
<1>3. /\ buf \in Seq(Packet) /\ taken \in Seq(Packet) /\ lastSr \in Packet \cup {None}
      /\ buf # <<>>
  BY AtPoint DEF DataOK, Read
<1>4. Head(buf) \in Packet /\ Tail(buf) \in Seq(Packet)
  BY <1>3
<1>5. /\ Behaves(t) /\ taken' \in Seq(Packet) /\ lastSr' \in Packet \cup {None}
      /\ pc'[t] = "sr_got" => lastSr' # None
  <2>1. CASE op[t].name \in Requests
    <3>1. lastSr' = Head(buf) /\ Unlock(t, Held(t) - 1) /\ Goto(t, "sr_got")
          /\ UNCHANGED <<result, taken>>
      BY <2>1 DEF Read
    <3>2. Held(t) - 1 \in Nat /\ Held(t) - 1 > 0 /\ Held(t) - 1 <= HoldsAt(t)
          /\ HoldsIn("sr_got", op'[t].name) = HoldsAt(t) - (Held(t) - 1)
          /\ MatchesIn("sr_got", op'[t].name)
      BY <1>1, <1>2, <2>1
    <3>3. Behaves(t)
      BY <1>1, <1>2, <3>1, <3>2, Giving DEF Labels
    <3> QED
      BY <1>3, <1>4, <3>1, <3>3, HandleAssumption
  <2>2. CASE op[t].name \notin Requests
    <3>1. taken' = Append(taken, Head(buf)) /\ Unlock(t, Held(t)) /\ Give(t, Head(buf))
          /\ lastSr' = lastSr
      BY <2>2 DEF Read, Deliver
    <3>2. Append(taken, Head(buf)) \in Seq(Packet)
      BY <1>3, <1>4
    <3>3. Behaves(t) /\ pc'[t] = "idle"
      BY <1>1, <1>2, <1>4, <3>1, HandsOut
    <3> QED
      BY <1>3, <3>1, <3>2, <3>3
  <2> QED
    BY <2>1, <2>2
<1>6. DataOK' /\ Cleared'
  BY <1>2, <1>4, <1>5, AtPoint DEF DataOK, Cleared, server
<1>7. ~destroyed'
  BY <1>2, AtPoint DEF Cleared
<1> QED
  BY <1>1, <1>5, <1>6, <1>7, Carries

LEMMA FetchStep ==
  ASSUME IInv, NEW t \in Thread, Fetch(t)
  PROVE  IInv'
<1>0. pc[t] = "read" /\ op' = op /\ calls' = calls
  BY DEF Fetch, threads
<1>1. /\ Owns(t) /\ Changes(op, t, CallType) /\ Changes(calls, t, 0 .. MaxCalls)
      /\ MatchesIn("read", op[t].name) /\ HoldsIn("read", op[t].name) = HoldsAt(t)
  BY <1>0, AtPoint DEF MatchesIn, HoldsIn, HeldIn, Owns, Changes
<1>2. /\ UNCHANGED <<commands, eventsSent, closed, sock, connected, destroyed, mutexSet,
                     race, lastSr, mutex>>
      /\ UNCHANGED <<pc, op, calls, result, taken, late>>
      /\ pc[t] = "read" /\ wire # <<>> /\ left' = TRUE
  BY DEF Fetch, threads
<1>3. Goto(t, "read")
  BY <1>2, AtPoint DEF Goto, ThreadOK
<1>4. Behaves(t) /\ pc'[t] = "read"
  BY <1>1, <1>2, <1>3, Keeping DEF Labels
<1>5. wire \in Seq(Packet)
  BY AtPoint DEF DataOK
<1>6. PICK n \in 1 .. Len(wire) : /\ buf' = SubSeq(wire, 1, n)
                                  /\ wire' = SubSeq(wire, n + 1, Len(wire))
  BY DEF Fetch
<1>7. Len(wire) \in Nat /\ n \in Nat /\ n <= Len(wire) /\ n >= 1
  BY <1>5, <1>6
<1>8. SubSeq(wire, 1, n) \in Seq(Packet) /\ SubSeq(wire, n + 1, Len(wire)) \in Seq(Packet)
  <2>1. \A i \in 1 .. Len(wire) : wire[i] \in Packet
    BY <1>5
  <2> QED
    BY <1>7, <2>1, SubSeqProperties
<1>9. DataOK' /\ Cleared'
  BY <1>2, <1>6, <1>8, AtPoint DEF DataOK, Cleared
<1> QED
  BY <1>2, <1>4, <1>9, Carries

LEMMA ReadFailsStep ==
  ASSUME IInv, NEW t \in Thread, ReadFails(t)
  PROVE  IInv'
<1>1. /\ HoldsAt(t) \in Nat /\ HoldsAt(t) > 0 /\ Owns(t) /\ Changes(op, t, CallType)
      /\ MatchesIn("re_failed", op[t].name)
      /\ HoldsIn("re_failed", op[t].name) = HoldsAt(t) - 1
  BY AtPoint DEF ReadFails, MatchesIn, HoldsIn, HeldIn, Owns, Changes
<1>2. Behaves(t) /\ pc'[t] = "re_failed"
  BY <1>1, Giving DEF ReadFails, Labels, fields
<1> QED
  BY <1>2, CarriesQuietly DEF ReadFails

LEMMA ReFailedStep ==
  ASSUME IInv, NEW t \in Thread, ReFailed(t)
  PROVE  IInv'
<1>1. /\ HoldsAt(t) = Held(t) - 1 /\ Held(t) \in Nat
      /\ Held(t) >= 1 /\ (Held(t) = 1 <=> op[t].name = "recv")
      /\ Changes(op, t, CallType) /\ Changes(calls, t, 0 .. MaxCalls)
  BY AtPoint DEF ReFailed, MatchesIn, HoldsIn, HeldIn, Receives, Requests, Changes
<1>2. /\ UNCHANGED <<server, sock, destroyed, mutexSet, buf, left, race, lastSr, op, calls,
                     taken, late>>
      /\ connected' = FALSE /\ Return(t, "FAIL")
      /\ IF op[t].name = "recv" THEN UNCHANGED mutex ELSE Unlock(t, Held(t) - 1)
  BY DEF ReFailed
<1>3. Behaves(t) /\ pc'[t] = "idle"
  <2>1. CASE op[t].name = "recv"
    <3>1. HoldsAt(t) = 0 /\ UNCHANGED <<mutexSet, mutex>>
      BY <1>1, <1>2, <2>1
    <3> QED
      BY <1>1, <1>2, <3>1, QuitsFree
  <2>2. CASE op[t].name # "recv"
    <3>1. Held(t) - 1 \in Nat /\ Held(t) - 1 > 0
      BY <1>1, <2>2
    <3> QED
      BY <1>1, <1>2, <2>2, <3>1, Quits
  <2> QED
    BY <2>1, <2>2
<1>4. connected' \in BOOLEAN /\ Cleared'
  BY <1>2, AtPoint, StaysCleared
<1>5. DataOK'
  BY <1>2, <1>4, AtPoint DEF DataOK, server
<1> QED
  BY <1>2, <1>3, <1>4, <1>5, Carries

-----------------------------------------------------------------------------
(* esl_recv_event_timed.                                                   *)
LEMMA RecvTimedStep ==
  ASSUME IInv, NEW t \in Thread, NEW q \in BOOLEAN, RecvTimed(t, q)
  PROVE  IInv'
<1> DEFINE next == IF q THEN "rt_lock" ELSE "rt_poll"
<1>1. Begin(t, "recv_timed", q) /\ UNCHANGED <<server, fields, mutex, taken, late>>
  BY DEF RecvTimed
<1>2. /\ Changes(op, t, CallType) /\ Changes(calls, t, 0 .. MaxCalls)
      /\ op'[t].name = "recv_timed" /\ HoldsAt(t) = 0 /\ UNCHANGED <<mutexSet, mutex>>
  BY <1>1, Begins DEF fields, AllOps
<1>3. Behaves(t) /\ pc'[t] \in {"rt_lock", "rt_poll", "idle"}
  <2>1. CASE Usable
    <3>1. /\ next \in Labels \ {"idle"} /\ next \in {"rt_lock", "rt_poll"}
          /\ MatchesIn(next, op'[t].name) /\ HoldsIn(next, op'[t].name) = 0
      BY <1>2 DEF MatchesIn, HoldsIn, Labels
    <3>2. Goto(t, next) /\ result' = result
      BY <2>1 DEF RecvTimed
    <3> HIDE DEF next
    <3> QED
      BY <1>2, <3>1, <3>2, Keeping
  <2>2. CASE ~Usable
    BY <1>2, <2>2, QuitsFree DEF RecvTimed
  <2> QED
    BY <2>1, <2>2
<1> QED
  BY <1>1, <1>3, CarriesQuietly

LEMMA RtLookStep ==
  ASSUME IInv, NEW t \in Thread, RtLook(t)
  PROVE  IInv'
<1>1. \A next \in {"rt_recv", "rt_locked"} :
        MatchesIn(next, op[t].name) /\ HoldsIn(next, op[t].name) = HoldsAt(t) + 1
  BY AtPoint DEF RtLook, MatchesIn, HoldsIn
<1>2. PICK next \in {"rt_recv", "rt_locked"} : Goto(t, next)
  BY DEF RtLook
<1>3. Behaves(t) /\ pc'[t] = next
  BY <1>1, <1>2, Taking DEF RtLook, Free, Labels, fields
<1> QED
  BY <1>2, <1>3, CarriesQuietly DEF RtLook

LEMMA RtRecvStep ==
  ASSUME IInv, NEW t \in Thread, RtRecv(t)
  PROVE  IInv'
<1>1. HoldsAt(t) = 1 /\ Owns(t)
  BY AtPoint DEF RtRecv, HoldsIn, Owns
<1>2. op[t] \in CallType /\ op' = [op EXCEPT ![t] = [op[t] EXCEPT !.name = "recv"]]
  BY AtPoint DEF RtRecv, ThreadOK
<1>3. [op[t] EXCEPT !.name = "recv"] \in CallType
  BY <1>2 DEF CallType, AllOps
<1>4. Changes(op, t, CallType)
  BY <1>2, <1>3 DEF Changes
<1>5. op'[t].name = "recv"
  BY <1>2, AtPoint DEF ThreadOK, CallType
<1>6. MatchesIn("rt_enter", op'[t].name) /\ HoldsIn("rt_enter", op'[t].name) = 0
  BY <1>5 DEF MatchesIn, HoldsIn
<1>7. Behaves(t) /\ pc'[t] = "rt_enter"
  BY <1>1, <1>4, <1>6, Giving DEF RtRecv, Labels, fields
<1> QED
  BY <1>7, CarriesQuietly DEF RtRecv

LEMMA RtEnterStep ==
  ASSUME IInv, NEW t \in Thread, RtEnter(t)
  PROVE  IInv'
<1>1. /\ HoldsAt(t) = 0 /\ Changes(op, t, CallType) /\ Changes(calls, t, 0 .. MaxCalls)
      /\ MatchesIn("re_lock", op[t].name) /\ HoldsIn("re_lock", op[t].name) = 0
  BY AtPoint DEF RtEnter, MatchesIn, HoldsIn, Changes
<1>2. UNCHANGED <<mutexSet, mutex, op, calls>>
  BY DEF RtEnter, fields
<1>3. Behaves(t) /\ pc'[t] \in {"re_lock", "idle"}
  <2>1. CASE Usable
    BY <1>1, <1>2, <2>1, Keeping DEF RtEnter, Labels
  <2>2. CASE ~Usable
    BY <1>1, <1>2, <2>2, QuitsFree DEF RtEnter
  <2> QED
    BY <2>1, <2>2
<1> QED
  BY <1>3, CarriesQuietly DEF RtEnter

LEMMA RtUnlockStep ==
  ASSUME IInv, NEW t \in Thread, RtUnlock(t)
  PROVE  IInv'
<1>1. /\ HoldsAt(t) = 1 /\ Owns(t) /\ Changes(op, t, CallType)
      /\ MatchesIn("rt_poll", op[t].name) /\ HoldsIn("rt_poll", op[t].name) = 0
  BY AtPoint DEF RtUnlock, MatchesIn, HoldsIn, Owns, Changes
<1>2. Behaves(t) /\ pc'[t] = "rt_poll"
  BY <1>1, Giving DEF RtUnlock, Labels, fields
<1> QED
  BY <1>2, CarriesQuietly DEF RtUnlock

LEMMA RtPollStep ==
  ASSUME IInv, NEW t \in Thread, RtPoll(t)
  PROVE  IInv'
<1>1. /\ HoldsAt(t) = 0 /\ Changes(op, t, CallType) /\ Changes(calls, t, 0 .. MaxCalls)
      /\ MatchesIn("rt_try", op[t].name) /\ HoldsIn("rt_try", op[t].name) = 0
  BY AtPoint DEF RtPoll, MatchesIn, HoldsIn, Changes
<1>2. UNCHANGED <<mutexSet, mutex, op, calls>>
  BY DEF RtPoll
<1>3. Behaves(t) /\ pc'[t] \in {"rt_try", "idle"}
  <2>1. CASE Goto(t, "rt_try") /\ result' = result
    BY <1>1, <1>2, <2>1, Keeping DEF Labels
  <2>2. CASE Return(t, "BREAK") \/ Return(t, "FAIL")
    BY <1>1, <1>2, <2>2, QuitsFree
  <2> QED
    BY <2>1, <2>2 DEF RtPoll
<1>4. /\ UNCHANGED <<server, sock, destroyed, mutexSet, buf, left, race, lastSr, taken, late>>
      /\ connected' = connected \/ connected' = FALSE
  BY DEF RtPoll
<1>5. connected' \in BOOLEAN /\ Cleared'
  BY <1>4, AtPoint, StaysCleared
<1>6. DataOK'
  BY <1>4, <1>5, AtPoint DEF DataOK, server
<1> QED
  BY <1>3, <1>4, <1>5, <1>6, Carries

LEMMA RtTryStep ==
  ASSUME IInv, NEW t \in Thread, RtTry(t)
  PROVE  IInv'
<1>1. /\ HoldsAt(t) = 0 /\ Changes(op, t, CallType) /\ Changes(calls, t, 0 .. MaxCalls)
      /\ MatchesIn("rt_tried", op[t].name) /\ HoldsIn("rt_tried", op[t].name) = 1
  BY AtPoint DEF RtTry, MatchesIn, HoldsIn, Changes
<1>2. UNCHANGED <<mutexSet, op, calls>>
  BY DEF RtTry, fields
<1>3. Behaves(t) /\ pc'[t] \in {"rt_tried", "idle"}
  <2>1. CASE ~mutexSet \/ ~Free(t)
    BY <1>1, <1>2, <2>1, QuitsFree DEF RtTry
  <2>2. CASE mutexSet /\ Free(t)
    BY <1>1, <1>2, <2>2, Taking DEF RtTry, Free, Labels
  <2> QED
    BY <2>1, <2>2
<1> QED
  BY <1>3, CarriesQuietly DEF RtTry

LEMMA RtTriedStep ==
  ASSUME IInv, NEW t \in Thread, RtTried(t)
  PROVE  IInv'
<1>1. /\ HoldsAt(t) = 1 /\ Owns(t) /\ MatchesIn("re_queue", op[t].name)
      /\ HoldsIn("re_queue", op[t].name) = 2
  BY AtPoint DEF RtTried, MatchesIn, HoldsIn, HeldIn, Receives, Owns
<1>2. UNCHANGED <<mutexSet, op, calls>>
  BY DEF RtTried, fields
<1>3. Behaves(t) /\ pc'[t] \in {"re_queue", "idle"}
  <2>1. CASE Usable
    <3>1. owner = t
      BY <1>1 DEF IInv, Locks, Holding
    <3> QED
      BY <1>1, <1>2, <2>1, <3>1, Taking DEF RtTried, Labels
  <2>2. CASE ~Usable
    BY <1>1, <1>2, <2>2, Quits DEF RtTried
  <2> QED
    BY <2>1, <2>2
<1> QED
  BY <1>3, CarriesQuietly DEF RtTried

-----------------------------------------------------------------------------
(* esl_disconnect.                                                         *)
LEMMA DisconnectStep ==
  ASSUME IInv, NEW t \in Thread, Disconnect(t)
  PROVE  IInv'
<1>1. /\ Begin(t, "disconnect", FALSE)
      /\ UNCHANGED <<server, connected, destroyed, mutexSet, buf, left, race, lastSr,
                     mutex, taken, late>>
      /\ sock' = sock \/ sock' = FALSE
  BY DEF Disconnect
<1>2. /\ Changes(op, t, CallType) /\ Changes(calls, t, 0 .. MaxCalls)
      /\ op'[t].name = "disconnect" /\ HoldsAt(t) = 0
  BY <1>1, Begins DEF AllOps
<1>3. Behaves(t) /\ pc'[t] \in {"d_lock", "idle"}
  <2>1. CASE destroyed
    BY <1>1, <1>2, <2>1, QuitsFree DEF Disconnect
  <2>2. CASE ~destroyed
    <3>1. MatchesIn("d_lock", op'[t].name) /\ HoldsIn("d_lock", op'[t].name) = 0
      BY <1>2 DEF MatchesIn, HoldsIn
    <3> QED
      BY <1>1, <1>2, <2>2, <3>1, Keeping DEF Disconnect, Labels
  <2> QED
    BY <2>1, <2>2
<1>4. sock' \in BOOLEAN
  <2>1. sock \in BOOLEAN
    BY AtPoint DEF DataOK
  <2>2. CASE sock' = sock
    BY <2>1, <2>2
  <2>3. CASE sock' = FALSE
    BY <2>3
  <2> QED
    BY <1>1, <2>2, <2>3
<1>5. DataOK' /\ Cleared'
  BY <1>1, <1>4, AtPoint DEF DataOK, Cleared, server
<1> QED
  BY <1>1, <1>3, <1>5, Carries

LEMMA DLockStep ==
  ASSUME IInv, NEW t \in Thread, DLock(t)
  PROVE  IInv'
<1>1. MatchesIn("d_clear", op[t].name) /\ HoldsIn("d_clear", op[t].name) = HoldsAt(t) + 1
  BY AtPoint DEF DLock, MatchesIn, HoldsIn
<1>2. Behaves(t) /\ pc'[t] = "d_clear"
  BY <1>1, Taking DEF DLock, Free, Labels, fields
<1> QED
  BY <1>2, CarriesQuietly DEF DLock

(* Clearing the handle gives the mutex up for whoever cleared it; nobody   *)
(* else was holding it.                                                    *)
LEMMA DClearStep ==
  ASSUME IInv, NEW t \in Thread, DClear(t)
  PROVE  IInv'
<1>1. /\ HoldsAt(t) = 1 /\ Owns(t) /\ MatchesIn("d_relock", op[t].name)
      /\ HoldsIn("d_relock", op[t].name) = 0
      /\ Changes(op, t, CallType) /\ Changes(calls, t, 0 .. MaxCalls)
  BY AtPoint DEF DClear, MatchesIn, HoldsIn, Owns, Changes
<1>2. /\ connected' = FALSE /\ destroyed' = TRUE /\ mutexSet' = FALSE
      /\ buf' = <<>> /\ left' = FALSE /\ race' = <<>> /\ lastSr' = None /\ sock' = TRUE
      /\ owner' = None /\ depth' = 0 /\ Goto(t, "d_relock")
      /\ UNCHANGED <<server, freed, op, calls, result, taken, late>>
  BY DEF DClear
<1>3. /\ ThreadOK' /\ OthersUntouched(t) /\ pc'[t] = "d_relock" /\ Shows(t)'
      /\ MatchesAt(t)' /\ HoldsAt(t)' = 0
  BY <1>1, <1>2, GoesOn DEF Labels
<1>4. owner = t
  BY <1>1 DEF IInv, Locks, Holding
<1>5. \A u \in Thread : ~Owns(u)'
  <2>1. ASSUME NEW u \in Thread, Owns(u)'
        PROVE  FALSE
    <3>1. u # t
      BY <1>3, <2>1 DEF Owns
    <3>2. Owns(u)
      BY <1>2, <1>3, <2>1, <3>1, AtPoint, HoldsOthers
        DEF Owns, OthersUntouched, Untouched, Locks
    <3> QED
      BY <1>4, <3>1, <3>2 DEF IInv, Locks, Holding
  <2> QED
    BY <2>1
<1>6. MutexOK' /\ Holding' /\ Nesting'
  BY <1>2, <1>5, AtPoint DEF MutexOK, Holding, Nesting
<1>7. Behaves(t)
  BY <1>3, <1>6 DEF Behaves
<1>8. Cleared'
  BY <1>2 DEF Cleared
<1>9. DataOK'
  <2>1. buf' \in Seq(Packet) /\ race' \in Seq(Packet)
    BY <1>2
  <2>2. lastSr' \in Packet \cup {None}
    BY <1>2
  <2> QED
    BY <1>2, <2>1, <2>2, AtPoint DEF DataOK, server
<1> QED
  BY <1>1, <1>3, <1>7, <1>8, <1>9, Carries

LEMMA DRelockStep ==
  ASSUME IInv, NEW t \in Thread, DRelock(t)
  PROVE  IInv'
<1>1. /\ HoldsAt(t) = 0 /\ Changes(op, t, CallType) /\ Changes(calls, t, 0 .. MaxCalls)
      /\ MatchesIn("d_destroy", op[t].name) /\ HoldsIn("d_destroy", op[t].name) = 0
  BY AtPoint DEF DRelock, MatchesIn, HoldsIn, Changes
<1>2. Behaves(t) /\ pc'[t] = "d_destroy"
  BY <1>1, Keeping DEF DRelock, Labels, fields
<1> QED
  BY <1>2, CarriesQuietly DEF DRelock

LEMMA DDestroyStep ==
  ASSUME IInv, NEW t \in Thread, DDestroy(t)
  PROVE  IInv'
<1>1. /\ HoldsAt(t) = 0 /\ op[t].name = "disconnect"
      /\ Changes(op, t, CallType) /\ Changes(calls, t, 0 .. MaxCalls)
  BY AtPoint DEF DDestroy, MatchesIn, HoldsIn, Changes
<1>2. /\ UNCHANGED <<server, fields, owner, depth, op, calls, taken, late>>
      /\ freed' = (freed \/ owner = None) /\ Return(t, "SUCCESS")
  BY DEF DDestroy
<1>3. /\ ThreadOK' /\ OthersUntouched(t) /\ pc'[t] = "idle" /\ Shows(t)'
      /\ MatchesAt(t)' /\ HoldsAt(t)' = 0
  BY <1>1, <1>2, Returns DEF Return, Statuses, Receives, Requests
<1>4. \A u \in Thread : HoldsAt(u)' = HoldsAt(u) /\ (Owns(u)' => Owns(u))
  <2>1. \A u \in Thread : u # t => HoldsAt(u)' = HoldsAt(u) /\ pc'[u] = pc[u]
    BY <1>3, AtPoint, HoldsOthers DEF OthersUntouched, Untouched, Locks
  <2> QED
    BY <1>1, <1>2, <1>3, <2>1 DEF Owns, fields
<1>5. MutexOK' /\ Holding' /\ Nesting'
  BY <1>2, <1>4, AtPoint DEF MutexOK, Locks, Holding, Nesting, fields
<1>6. Behaves(t)
  BY <1>3, <1>5 DEF Behaves
<1> QED
  BY <1>2, <1>3, <1>6, CarriesQuietly

-----------------------------------------------------------------------------
LEMMA InvInit == Init => IInv
<1> SUFFICES ASSUME Init PROVE IInv
  OBVIOUS
<1>1. \A t \in Thread : /\ pc[t] = "idle" /\ op[t].name = "none" /\ owner = None
                        /\ depth = 0
  BY DEF Init
<1>2. Matching /\ Holding /\ Nesting /\ Examining /\ SuccessHasPacket
  BY <1>1, HandleAssumption DEF Matching, MatchesAt, MatchesIn, Holding, Owns, Nesting,
    HoldsAt, Examining, SuccessHasPacket, Requests, Init
<1>3. Cleared
  BY DEF Init, Cleared
<1> QED
  BY <1>2, <1>3, TypeInit DEF IInv, Locks

(* A step that changes no thread and nothing of the handle.                *)
LEMMA Elsewhere ==
  ASSUME IInv, DataOK', UNCHANGED <<fields, mutex, threads>>
  PROVE  IInv'
<1>1. TypeOK'
  BY TypeParts DEF IInv, MutexOK, ThreadOK, mutex, threads
<1>2. Cleared' /\ Examining' /\ SuccessHasPacket'
  BY DEF IInv, Cleared, Examining, SuccessHasPacket, fields, threads
<1>3. \A t \in Thread : HoldsAt(t)' = HoldsAt(t) /\ MatchesAt(t)' = MatchesAt(t)
  BY DEF HoldsAt, Held, MatchesAt, threads
<1>4. Locks'
  BY <1>3 DEF IInv, Locks, Matching, Holding, Owns, Nesting, fields, mutex, threads
<1> QED
  BY <1>1, <1>2, <1>4 DEF IInv

LEMMA InvNext == IInv /\ [Next]_vars => IInv'
<1> SUFFICES ASSUME IInv, [Next]_vars PROVE IInv'
  OBVIOUS
<1>1. DataOK
  BY TypeParts DEF IInv
<1>2. CASE ServerReplies \/ ServerEvent \/ ServerCloses
  BY <1>1, <1>2, TypeServer, Elsewhere
<1>3. CASE UNCHANGED vars
  <2>1. DataOK' /\ UNCHANGED <<fields, mutex, threads>>
    BY <1>1, <1>3 DEF vars, server, fields, threads, DataOK
  <2> QED
    BY <2>1, Elsewhere
<1>4. ASSUME NEW t \in Thread, Call(t)
      PROVE  IInv'
  <2>1. \A q \in CheckQ : q \in BOOLEAN
    BY HandleAssumption
  <2> QED
    BY <1>4, <2>1, SendStep, DisconnectStep, SendRecvStep, RecvStep, RecvTimedStep DEF Call
<1>5. ASSUME NEW t \in Thread, Continue(t)
      PROVE  IInv'
  BY <1>5, SrSendStep, SrSentStep, SrRecvStep, SrPollStep, SrTriedStep, SrGotStep,
    SrWindowStep, SrRelockStep, SrCheckStep, ReLockStep, ReQueueStep, ReadStep, FetchStep,
    ReadFailsStep, ReFailedStep, RtLookStep, RtRecvStep, RtEnterStep, RtUnlockStep,
    RtPollStep, RtTryStep, RtTriedStep, DLockStep, DClearStep, DRelockStep, DDestroyStep
    DEF Continue
<1> QED
  BY <1>2, <1>3, <1>4, <1>5 DEF Next

-----------------------------------------------------------------------------
(* The invariant, of which the three theorems below are consequences.      *)
THEOREM Invariant == Spec => []IInv
<1> QED
  BY InvInit, InvNext, PTL DEF Spec

(* Until a disconnect has cleared the handle, a thread holds the mutex     *)
(* exactly as often as its path through esl_send_recv_timed,               *)
(* esl_recv_event_timed and esl_recv_event has taken it, and nobody else   *)
(* holds it; a call that returned holds nothing.                           *)
THEOREM LocksNest == Spec => []LockBalanced
<1>1. IInv => LockBalanced
  <2> SUFFICES ASSUME IInv, ~destroyed
               PROVE  \A t \in Thread : HoldsAt(t) = IF owner = t THEN depth ELSE 0
    BY DEF LockBalanced
  <2>1. mutexSet
    BY DEF IInv, Cleared
  <2> QED
    BY <2>1 DEF IInv, Locks, Nesting
<1> QED
  BY <1>1, Invariant, PTL

(* One thread at a time reads packets (esl_recv_event) or is between its   *)
(* command and the examination of the reply (esl_send_recv_timed), also    *)
(* while the handle is disconnected.                                       *)
THEOREM OneReader == Spec => []ReaderAlone
<1>1. IInv => ReaderAlone
  <2> SUFFICES ASSUME IInv, NEW t \in Thread, NEW u \in Thread,
                      pc[t] \in {"read", "sr_got", "sr_send"},
                      pc[u] \in {"read", "sr_got", "sr_send"}
               PROVE  t = u
    BY DEF ReaderAlone
  <2>1. \A v \in Thread : pc[v] \in {"read", "sr_got", "sr_send"} => Owns(v)
    BY AtPoint DEF HoldsIn, HeldIn, Owns
  <2> QED
    BY <2>1 DEF IInv, Locks, Holding
<1> QED
  BY <1>1, Invariant, PTL

(* A receive or a request that returns success has a packet, however       *)
(* esl_disconnect clears the handle around it.                             *)
THEOREM PacketToShow == Spec => []SuccessHasPacket
<1>1. IInv => SuccessHasPacket
  BY DEF IInv
<1> QED
  BY <1>1, Invariant, PTL

(* The variables keep their types.                                         *)
THEOREM TypeCorrect == Spec => []TypeOK
<1>1. IInv => TypeOK
  BY DEF IInv
<1> QED
  BY <1>1, Invariant, PTL

-----------------------------------------------------------------------------
(* The order of events.                                                    *)

(* What the theorem is about: without the first an event can be overtaken  *)
(* by a receiver, without the second it is mistaken for a reply, and with  *)
(* more than one such packet it would count as several events.  Packets    *)
(* without a content type may come with it, as its body does.              *)
Attentive == CheckQ \subseteq {TRUE}
WholeEvents ==
  \E i \in 1 .. Len(EventTypes) :
    \A k \in 1 .. Len(EventTypes) : EventTypes[k] = "event" <=> k = i

-----------------------------------------------------------------------------
(* Sequences of packets.                                                   *)

(* InOrder, of the positions of the events.                                *)
LEMMA InOrderPositions ==
  ASSUME NEW s \in Seq(Packet), NEW n \in Nat
  PROVE  InOrder(s, n) <=>
           /\ \A i \in 1 .. Len(s) : s[i].ct = "event" => s[i].id[2] \in 1 .. n
           /\ \A m \in 1 .. n : \E i \in 1 .. Len(s) : s[i].ct = "event" /\ s[i].id[2] = m
           /\ \A i, k \in 1 .. Len(s) : s[i].ct = "event" /\ s[k].ct = "event" /\ i < k
                                          => s[i].id[2] < s[k].id[2]
<1> DEFINE events == {i \in DOMAIN s : s[i].ct = "event"}
           ids == {s[i].id[2] : i \in events}
<1>1. \A i : i \in events <=> i \in 1 .. Len(s) /\ s[i].ct = "event"
  OBVIOUS
<1>2. InOrder(s, n) <=>
        /\ ids = 1 .. n
        /\ \A i, k \in events : i < k => s[i].id[2] < s[k].id[2]
  BY DEF InOrder
<1>3. \A m : m \in ids <=> \E i \in events : m = s[i].id[2]
  OBVIOUS
<1> HIDE DEF events, ids
<1>4. ids = 1 .. n <=> /\ \A i \in events : s[i].id[2] \in 1 .. n
                       /\ \A m \in 1 .. n : \E i \in events : s[i].id[2] = m
  <2>1. ASSUME ids = 1 .. n
        PROVE  /\ \A i \in events : s[i].id[2] \in 1 .. n
               /\ \A m \in 1 .. n : \E i \in events : s[i].id[2] = m
    BY <1>3, <2>1, Zenon
  <2>2. ASSUME /\ \A i \in events : s[i].id[2] \in 1 .. n
               /\ \A m \in 1 .. n : \E i \in events : s[i].id[2] = m
        PROVE  ids = 1 .. n
    <3>1. ASSUME NEW m, m \in ids PROVE m \in 1 .. n
      <4>1. PICK i \in events : m = s[i].id[2]
        BY <1>3, <3>1
      <4> QED BY <2>2, <4>1
    <3>2. ASSUME NEW m, m \in 1 .. n PROVE m \in ids
      <4>1. PICK i \in events : s[i].id[2] = m
        BY <2>2, <3>2
      <4> QED BY <1>3, <4>1
    <3> QED BY <3>1, <3>2
  <2> QED BY <2>1, <2>2
<1> QED BY <1>1, <1>2, <1>4, Zenon

(* Leaving out packets that are not events keeps the events in order; so   *)
(* does the reverse.                                                       *)
LEMMA Thinned ==
  ASSUME NEW s \in Seq(Packet), NEW j \in Seq(Packet), NEW n \in Nat, InOrder(j, n),
         NEW f \in [1 .. Len(s) -> 1 .. Len(j)],
         \A i, k \in 1 .. Len(s) : i < k => f[i] < f[k],
         \A i \in 1 .. Len(s) : s[i] = j[f[i]],
         \A k \in 1 .. Len(j) : j[k].ct = "event" => \E i \in 1 .. Len(s) : f[i] = k
  PROVE  InOrder(s, n)
<1>1. /\ \A i \in 1 .. Len(j) : j[i].ct = "event" => j[i].id[2] \in 1 .. n
      /\ \A m \in 1 .. n : \E i \in 1 .. Len(j) : j[i].ct = "event" /\ j[i].id[2] = m
      /\ \A i, k \in 1 .. Len(j) : j[i].ct = "event" /\ j[k].ct = "event" /\ i < k
                                     => j[i].id[2] < j[k].id[2]
  BY InOrderPositions
<1>2. ASSUME NEW i \in 1 .. Len(s), s[i].ct = "event" PROVE s[i].id[2] \in 1 .. n
  <2>1. f[i] \in 1 .. Len(j) /\ s[i] = j[f[i]]
    OBVIOUS
  <2> QED BY <1>1, <1>2, <2>1
<1>3. \A m \in 1 .. n : \E i \in 1 .. Len(s) : s[i].ct = "event" /\ s[i].id[2] = m
  <2> SUFFICES ASSUME NEW m \in 1 .. n
               PROVE  \E i \in 1 .. Len(s) : s[i].ct = "event" /\ s[i].id[2] = m
    OBVIOUS
  <2>1. PICK k \in 1 .. Len(j) : j[k].ct = "event" /\ j[k].id[2] = m
    BY <1>1
  <2>2. PICK i \in 1 .. Len(s) : f[i] = k
    BY <2>1
  <2> QED BY <2>1, <2>2
<1>4. \A i, k \in 1 .. Len(s) : s[i].ct = "event" /\ s[k].ct = "event" /\ i < k
                                  => s[i].id[2] < s[k].id[2]
  <2> SUFFICES ASSUME NEW i \in 1 .. Len(s), NEW k \in 1 .. Len(s),
                      s[i].ct = "event", s[k].ct = "event", i < k
               PROVE  s[i].id[2] < s[k].id[2]
    OBVIOUS
  <2>1. f[i] \in 1 .. Len(j) /\ f[k] \in 1 .. Len(j) /\ f[i] < f[k]
    OBVIOUS
  <2>2. s[i] = j[f[i]] /\ s[k] = j[f[k]]
    OBVIOUS
  <2>3. j[f[i]].ct = "event" /\ j[f[k]].ct = "event"
    BY <2>2
  <2>4. j[f[i]].id[2] < j[f[k]].id[2]
    BY <1>1, <2>1, <2>3
  <2> QED BY <2>2, <2>4
<1> QED
  BY <1>2, <1>3, <1>4, InOrderPositions

(* The elements of two sequences in a row.                                 *)
LEMMA InARow ==
  ASSUME NEW T, NEW a \in Seq(T), NEW b \in Seq(T)
  PROVE  /\ a \o b \in Seq(T) /\ Len(a \o b) = Len(a) + Len(b)
         /\ \A i \in 1 .. Len(a) : (a \o b)[i] = a[i]
         /\ \A i \in 1 .. Len(b) : (a \o b)[Len(a) + i] = b[i]
OBVIOUS

LEMMA Together ==
  ASSUME NEW T, NEW a \in Seq(T), NEW b \in Seq(T), NEW c \in Seq(T)
  PROVE  (a \o b) \o c = a \o (b \o c)
BY ConcatAssociative

(* A packet that is not an event disappears from the middle.               *)
LEMMA Removed ==
  ASSUME NEW a \in Seq(Packet), NEW b \in Seq(Packet), NEW p \in Packet, NEW n \in Nat,
         p.ct # "event", InOrder(a \o (<<p>> \o b), n)
  PROVE  InOrder(a \o b, n)
<1> DEFINE j == a \o (<<p>> \o b)
           s == a \o b
           f == [i \in 1 .. Len(s) |-> IF i <= Len(a) THEN i ELSE i + 1]
<1>1. <<p>> \in Seq(Packet) /\ Len(<<p>>) = 1 /\ <<p>>[1] = p
  OBVIOUS
<1>2. /\ <<p>> \o b \in Seq(Packet) /\ Len(<<p>> \o b) = 1 + Len(b)
      /\ (<<p>> \o b)[1] = p /\ \A i \in 1 .. Len(b) : (<<p>> \o b)[1 + i] = b[i]
  BY <1>1, InARow
<1>3. /\ j \in Seq(Packet) /\ Len(j) = Len(a) + Len(b) + 1
      /\ \A i \in 1 .. Len(a) : j[i] = a[i]
      /\ j[Len(a) + 1] = p
      /\ \A i \in 1 .. Len(b) : j[Len(a) + 1 + i] = b[i]
  <2>1. /\ j \in Seq(Packet) /\ Len(j) = Len(a) + (1 + Len(b))
        /\ \A i \in 1 .. Len(a) : j[i] = a[i]
        /\ \A i \in 1 .. 1 + Len(b) : j[Len(a) + i] = (<<p>> \o b)[i]
    BY <1>2, InARow
  <2>2. Len(a) \in Nat /\ Len(b) \in Nat
    OBVIOUS
  <2>3. j[Len(a) + 1] = p
    BY <1>2, <2>1, <2>2
  <2>4. ASSUME NEW i \in 1 .. Len(b) PROVE j[Len(a) + 1 + i] = b[i]
    <3>1. 1 + i \in 1 .. 1 + Len(b) /\ Len(a) + 1 + i = Len(a) + (1 + i)
      BY <2>2
    <3> QED BY <1>2, <2>1, <3>1
  <2>5. Len(a) + (1 + Len(b)) = Len(a) + Len(b) + 1
    BY <2>2
  <2> HIDE DEF j
  <2> QED BY <2>1, <2>3, <2>4, <2>5
<1>4. /\ s \in Seq(Packet) /\ Len(s) = Len(a) + Len(b)
      /\ \A i \in 1 .. Len(a) : s[i] = a[i]
      /\ \A i \in 1 .. Len(b) : s[Len(a) + i] = b[i]
  BY InARow
<1>5. Len(a) \in Nat /\ Len(b) \in Nat /\ InOrder(j, n)
  OBVIOUS
<1> HIDE DEF j, s
<1>6. f \in [1 .. Len(s) -> 1 .. Len(j)] /\ \A i, k \in 1 .. Len(s) : i < k => f[i] < f[k]
  <2>1. ASSUME NEW i \in 1 .. Len(s)
        PROVE  i \in 1 .. Len(j) /\ i + 1 \in 1 .. Len(j)
    BY <1>3, <1>4, <1>5
  <2>2. f \in [1 .. Len(s) -> 1 .. Len(j)]
    BY <2>1
  <2>3. \A i \in 1 .. Len(s) : i \in Int
    OBVIOUS
  <2>4. \A i \in 1 .. Len(s) : f[i] = IF i <= Len(a) THEN i ELSE i + 1
    OBVIOUS
  <2> HIDE DEF f
  <2>5. \A i, k \in 1 .. Len(s) : i < k => f[i] < f[k]
    BY <1>5, <2>3, <2>4
  <2> QED BY <2>2, <2>5
<1>7. ASSUME NEW i \in 1 .. Len(s) PROVE s[i] = j[f[i]]
  <2>1. CASE i <= Len(a)
    BY <1>3, <1>4, <1>5, <2>1
  <2>2. CASE ~(i <= Len(a))
    <3>1. i - Len(a) \in 1 .. Len(b) /\ Len(a) + (i - Len(a)) = i
          /\ Len(a) + 1 + (i - Len(a)) = i + 1
      BY <1>4, <1>5, <2>2
    <3>2. s[i] = b[i - Len(a)] /\ j[i + 1] = b[i - Len(a)]
      BY <1>3, <1>4, <3>1
    <3> QED BY <2>2, <3>2
  <2> QED BY <2>1, <2>2
<1>8. ASSUME NEW k \in 1 .. Len(j), j[k].ct = "event" PROVE \E i \in 1 .. Len(s) : f[i] = k
  <2>1. k # Len(a) + 1
    BY <1>3, <1>8
  <2>2. CASE k <= Len(a)
    BY <1>3, <1>4, <1>5, <2>2
  <2>3. CASE k > Len(a) + 1
    <3>1. k - 1 \in 1 .. Len(s) /\ ~(k - 1 <= Len(a))
      BY <1>3, <1>4, <1>5, <2>3
    <3>2. f[k - 1] = k
      BY <1>5, <3>1
    <3> QED BY <3>1, <3>2
  <2> QED BY <1>3, <1>5, <2>1, <2>2, <2>3
<1> HIDE DEF f
<1>9. InOrder(s, n)
  <2>1. j \in Seq(Packet) /\ s \in Seq(Packet)
    BY <1>3, <1>4
  <2>2. /\ \A i \in 1 .. Len(s) : s[i] = j[f[i]]
        /\ \A k \in 1 .. Len(j) : j[k].ct = "event" => \E i \in 1 .. Len(s) : f[i] = k
    BY <1>7, <1>8
  <2> QED BY <1>5, <1>6, <2>1, <2>2, Thinned, ZenonT(40)
<1> QED
  BY <1>9 DEF s

(* A reply arrives behind all the rest, ...                                *)
LEMMA ReplyBehind ==
  ASSUME NEW s \in Seq(Packet), NEW p \in Packet, NEW n \in Nat,
         p.ct # "event", InOrder(s, n)
  PROVE  InOrder(s \o <<p>>, n)
<1> DEFINE t == s \o <<p>>
<1>1. /\ t \in Seq(Packet) /\ Len(t) = Len(s) + 1 /\ t[Len(s) + 1] = p
      /\ \A i \in 1 .. Len(s) : t[i] = s[i]
  OBVIOUS
<1>2. Len(s) \in Nat
  OBVIOUS
<1> HIDE DEF t
<1>3. /\ \A i \in 1 .. Len(s) : s[i].ct = "event" => s[i].id[2] \in 1 .. n
      /\ \A m \in 1 .. n : \E i \in 1 .. Len(s) : s[i].ct = "event" /\ s[i].id[2] = m
      /\ \A i, k \in 1 .. Len(s) : s[i].ct = "event" /\ s[k].ct = "event" /\ i < k
                                     => s[i].id[2] < s[k].id[2]
  BY InOrderPositions
<1>4. \A i \in 1 .. Len(t) : t[i].ct = "event" => i \in 1 .. Len(s)
  BY <1>1, <1>2
<1>p. \A i \in 1 .. Len(s) : i \in 1 .. Len(t)
  BY <1>1, <1>2
<1>q. \A i \in 1 .. Len(t) : t[i].ct = "event" => t[i].id[2] \in 1 .. n
  BY <1>1, <1>3, <1>4
<1>r. \A m \in 1 .. n : \E i \in 1 .. Len(t) : t[i].ct = "event" /\ t[i].id[2] = m
  BY <1>1, <1>3, <1>p
<1>s. \A i, k \in 1 .. Len(t) : t[i].ct = "event" /\ t[k].ct = "event" /\ i < k
                                  => t[i].id[2] < t[k].id[2]
  BY <1>1, <1>3, <1>4
<1>5. InOrder(t, n)
  BY <1>1, <1>q, <1>r, <1>s, InOrderPositions
<1> QED
  BY <1>5 DEF t

(* ... and so does the next event, with what comes along with it.          *)
LEMMA EventBehind ==
  ASSUME NEW s \in Seq(Packet), NEW e \in Seq(Packet), NEW n \in Nat,
         NEW j \in 1 .. Len(e), \A i \in 1 .. Len(e) : e[i].ct = "event" <=> i = j,
         e[j].id[2] = n + 1, InOrder(s, n)
  PROVE  InOrder(s \o e, n + 1)
<1> DEFINE t == s \o e
<1>1. /\ t \in Seq(Packet) /\ Len(t) = Len(s) + Len(e)
      /\ \A i \in 1 .. Len(s) : t[i] = s[i]
      /\ \A i \in 1 .. Len(e) : t[Len(s) + i] = e[i]
  BY InARow
<1>2. Len(s) \in Nat /\ Len(e) \in Nat /\ j \in Nat /\ n \in Nat
  OBVIOUS
<1> HIDE DEF t
<1>3. /\ \A i \in 1 .. Len(s) : s[i].ct = "event" => s[i].id[2] \in 1 .. n
      /\ \A m \in 1 .. n : \E i \in 1 .. Len(s) : s[i].ct = "event" /\ s[i].id[2] = m
      /\ \A i, k \in 1 .. Len(s) : s[i].ct = "event" /\ s[k].ct = "event" /\ i < k
                                     => s[i].id[2] < s[k].id[2]
  BY InOrderPositions
<1>4. ASSUME NEW i \in 1 .. Len(t), t[i].ct = "event"
      PROVE  i \in 1 .. Len(s) \/ i = Len(s) + j
  <2> SUFFICES ASSUME i \notin 1 .. Len(s) PROVE i = Len(s) + j
    OBVIOUS
  <2>1. i - Len(s) \in 1 .. Len(e) /\ Len(s) + (i - Len(s)) = i
    <3> DEFINE l == Len(s)
               m == Len(e)
    <3>1. i \in 1 .. l + m /\ l \in Nat /\ m \in Nat /\ i \notin 1 .. l
      BY <1>1, <1>2
    <3> HIDE DEF l, m
    <3>2. i - l \in 1 .. m /\ l + (i - l) = i
      BY <3>1
    <3> QED BY <3>2 DEF l, m
  <2>2. t[i] = e[i - Len(s)]
    BY <1>1, <2>1
  <2>3. i - Len(s) = j
    BY <1>4, <2>1, <2>2
  <2> QED BY <2>1, <2>3
<1>5. /\ t[Len(s) + j] = e[j] /\ t[Len(s) + j].ct = "event" /\ t[Len(s) + j].id[2] = n + 1
      /\ Len(s) + j \in 1 .. Len(t)
  BY <1>1, <1>2
<1>6. ASSUME NEW i \in 1 .. Len(t), t[i].ct = "event" PROVE t[i].id[2] \in 1 .. n + 1
  <2>1. CASE i \in 1 .. Len(s)
    <3>1. t[i] = s[i]
      BY <1>1, <2>1
    <3>2. t[i].id[2] \in 1 .. n
      BY <1>3, <1>6, <2>1, <3>1
    <3> QED BY <1>2, <3>2
  <2>2. CASE i = Len(s) + j
    BY <1>2, <1>5, <2>2
  <2> QED BY <1>4, <1>6, <2>1, <2>2
<1>7. ASSUME NEW m \in 1 .. n + 1
      PROVE  \E i \in 1 .. Len(t) : t[i].ct = "event" /\ t[i].id[2] = m
  <2>1. CASE m = n + 1
    BY <1>5, <2>1
  <2>2. CASE m \in 1 .. n
    <3>1. PICK i \in 1 .. Len(s) : s[i].ct = "event" /\ s[i].id[2] = m
      BY <1>3, <2>2
    <3>2. i \in 1 .. Len(t)
      BY <1>1, <1>2
    <3> QED BY <1>1, <3>1, <3>2
  <2> QED BY <1>2, <2>1, <2>2
<1>8. ASSUME NEW i \in 1 .. Len(t), NEW k \in 1 .. Len(t),
             t[i].ct = "event", t[k].ct = "event", i < k
      PROVE  t[i].id[2] < t[k].id[2]
  <2>1. (i \in 1 .. Len(s) \/ i = Len(s) + j) /\ (k \in 1 .. Len(s) \/ k = Len(s) + j)
    BY <1>4, <1>8
  <2>2. i \in 1 .. Len(s)
    BY <1>2, <1>8, <2>1
  <2>3. CASE k \in 1 .. Len(s)
    BY <1>1, <1>3, <1>8, <2>2, <2>3
  <2>4. CASE k = Len(s) + j
    <3>1. t[i].id[2] \in 1 .. n
      BY <1>1, <1>3, <1>8, <2>2
    <3>2. t[k].id[2] = n + 1
      BY <1>5, <2>4
    <3> QED BY <1>2, <3>1, <3>2
  <2> QED BY <2>1, <2>3, <2>4
<1>9. InOrder(t, n + 1)
  <2>1. n + 1 \in Nat
    BY <1>2
  <2>2. \A i \in 1 .. Len(t) : t[i].ct = "event" => t[i].id[2] \in 1 .. n + 1
    BY <1>6
  <2>3. \A m \in 1 .. n + 1 : \E i \in 1 .. Len(t) : t[i].ct = "event" /\ t[i].id[2] = m
    BY <1>7
  <2>4. \A i, k \in 1 .. Len(t) : t[i].ct = "event" /\ t[k].ct = "event" /\ i < k
                                    => t[i].id[2] < t[k].id[2]
    BY <1>8
  <2> QED BY <1>1, <2>1, <2>2, <2>3, <2>4, InOrderPositions
<1> QED
  BY <1>9 DEF t

-----------------------------------------------------------------------------
(* The invariant.                                                          *)

(* Whoever receives looks at the queue.                                    *)
Asking == \A t \in Thread : op[t].name \in Receives => op[t].q

(* An event is between the connection and the queue only while the thread  *)
(* that read it is about to put it there, ...                              *)
Queueing == InFlight = <<>> \/ \E t \in Thread : pc[t] = "sr_got"

(* ... and a receiver reads from the connection only when the queue is     *)
(* empty, which it stays for as long as that receiver holds the mutex.     *)
QueueFirst ==
  ~destroyed =>
    \A t \in Thread : pc[t] = "read" /\ op[t].name \in Receives => race = <<>>

OInv == Asking /\ Queueing /\ QueueFirst /\ EventsInOrder

(* The mutex is held by at most one of the threads at these points.        *)
Inside == {"sr_send", "sr_recv", "sr_got", "read", "re_queue"}

LEMMA Alone ==
  ASSUME IInv, NEW t \in Thread, NEW u \in Thread, pc[t] \in Inside, pc[u] \in Inside
  PROVE  t = u
<1>1. \A v \in Thread : pc[v] \in Inside => Owns(v)
  BY AtPoint DEF HoldsIn, HeldIn, Owns, Inside
<1> QED
  BY <1>1 DEF IInv, Locks, Holding

(* Who is received from is asked by those who receive.                     *)
LEMMA AskingKept ==
  ASSUME IInv, Asking, Attentive, [Next]_vars
  PROVE  Asking'
<1>0. op \in [Thread -> CallType]
  BY TypeParts DEF IInv, ThreadOK
<1>1. ASSUME NEW t \in Thread, NEW name, NEW q, Begin(t, name, q),
             name \in Receives => q = TRUE
      PROVE  Asking'
  <2>1. op' = [op EXCEPT ![t] = [name |-> name, q |-> q]]
    BY <1>1 DEF Begin
  <2>2. \A u \in Thread : u # t => op'[u] = op[u]
    BY <1>0, <2>1
  <2>3. op'[t].name = name /\ op'[t].q = q
    BY <1>0, <2>1
  <2> QED BY <1>1, <2>2, <2>3 DEF Asking
<1>2. CASE UNCHANGED op
  BY <1>2 DEF Asking
<1>3. ASSUME NEW t \in Thread, Call(t) PROVE Asking'
  <2>1. CASE Send(t)
    BY <1>1, <2>1 DEF Send, Receives
  <2>2. CASE Disconnect(t)
    BY <1>1, <2>2 DEF Disconnect, Receives
  <2>3. ASSUME NEW name \in Requests, SendRecv(t, name) PROVE Asking'
    BY <1>1, <2>3 DEF SendRecv, Receives, Requests
  <2>4. ASSUME NEW q \in CheckQ, Recv(t, q) \/ RecvTimed(t, q) PROVE Asking'
    BY <1>1, <2>4 DEF Recv, RecvTimed, Attentive
  <2> QED BY <1>3, <2>1, <2>2, <2>3, <2>4 DEF Call
<1>4. ASSUME NEW t \in Thread, RtRecv(t) PROVE Asking'
  <2>1. op' = [op EXCEPT ![t].name = "recv"] /\ op[t].name = "recv_timed"
    BY <1>4, AtPoint DEF RtRecv, MatchesIn
  <2>2. \A u \in Thread : u # t => op'[u] = op[u]
    BY <1>0, <2>1
  <2>3. op'[t].q = op[t].q
    BY <1>0, <2>1 DEF CallType
  <2> QED BY <2>1, <2>2, <2>3 DEF Asking, Receives
<1>5. ASSUME NEW t \in Thread, Continue(t), ~RtRecv(t) PROVE UNCHANGED op
  BY <1>5 DEF Continue, SrSend, SrSent, SrRecv, SrPoll, SrTried, SrGot, SrWindow, SrRelock,
    SrCheck, ReLock, ReQueue, Read, Fetch, ReadFails, ReFailed, RtLook, RtEnter, RtUnlock,
    RtPoll, RtTry,
    RtTried, DLock, DClear, DRelock, DDestroy, threads
<1>6. CASE ServerReplies \/ ServerEvent \/ ServerCloses \/ UNCHANGED vars
  BY <1>2, <1>6 DEF ServerReplies, ServerEvent, ServerCloses, vars, threads
<1> QED BY <1>2, <1>3, <1>4, <1>5, <1>6 DEF Next

(* The packets stay where they are, and no thread starts to read or to     *)
(* queue one.                                                              *)
Packets == <<taken, race, lastSr, buf, wire, eventsSent, destroyed>>

Quiet(t) ==
  /\ UNCHANGED Packets
  /\ pc[t] # "sr_got"
  /\ \E label \in Labels : Goto(t, label) /\ (label = "read" => op'[t].name \in Requests)
  /\ \A u \in Thread : u # t => op'[u] = op[u]

LEMMA QuietKeeps ==
  ASSUME IInv, OInv, NEW t \in Thread, Quiet(t)
  PROVE  Queueing' /\ QueueFirst' /\ EventsInOrder'
<1>0. pc \in [Thread -> Labels]
  BY TypeParts DEF IInv, ThreadOK
<1>1. /\ taken' = taken /\ race' = race /\ lastSr' = lastSr /\ buf' = buf /\ wire' = wire
      /\ eventsSent' = eventsSent /\ destroyed' = destroyed
  BY DEF Quiet, Packets
<1>2. PICK label \in Labels : Goto(t, label) /\ (label = "read" => op'[t].name \in Requests)
  BY DEF Quiet
<1>3. pc'[t] = label /\ \A u \in Thread : u # t => pc'[u] = pc[u]
  BY <1>0, <1>2 DEF Goto
<1>4. InFlight' = InFlight /\ Journey' = Journey
  BY <1>1 DEF InFlight, Journey
<1>5. EventsInOrder'
  BY <1>1, <1>4 DEF OInv, EventsInOrder
<1>6. Queueing'
  BY <1>3, <1>4 DEF OInv, Queueing, Quiet
<1>7. QueueFirst'
  BY <1>1, <1>2, <1>3 DEF OInv, QueueFirst, Quiet, Receives, Requests
<1> QED BY <1>5, <1>6, <1>7

LEMMA QuietCall ==
  ASSUME IInv, NEW t \in Thread, Call(t)
  PROVE  Quiet(t)
<1> USE DEF Labels, fields, server, Packets
<1>0. op \in [Thread -> CallType]
  BY TypeParts DEF IInv, ThreadOK
<1>1. ASSUME NEW name, NEW q, Begin(t, name, q)
      PROVE  pc[t] # "sr_got" /\ \A u \in Thread : u # t => op'[u] = op[u]
  BY <1>0, <1>1 DEF Begin
<1>2. CASE Send(t)
  BY <1>1, <1>2 DEF Send, Return, Quiet
<1>3. CASE Disconnect(t)
  BY <1>1, <1>3 DEF Disconnect, Return, Quiet
<1>4. ASSUME NEW name \in Requests, SendRecv(t, name) PROVE Quiet(t)
  BY <1>1, <1>4 DEF SendRecv, Return, Quiet
<1>5. ASSUME NEW q \in CheckQ, Recv(t, q) \/ RecvTimed(t, q) PROVE Quiet(t)
  BY <1>1, <1>5 DEF Recv, RecvTimed, Return, Quiet
<1> QED BY <1>2, <1>3, <1>4, <1>5 DEF Call

LEMMA QuietContinue ==
  ASSUME IInv, NEW t \in Thread,
         \/ SrSend(t) \/ SrPoll(t) \/ SrTried(t) \/ SrWindow(t) \/ SrRelock(t) \/ SrCheck(t)
         \/ ReLock(t) \/ ReadFails(t) \/ ReFailed(t) \/ RtLook(t) \/ RtRecv(t) \/ RtEnter(t)
         \/ RtUnlock(t) \/ RtPoll(t) \/ RtTry(t) \/ RtTried(t) \/ DLock(t) \/ DRelock(t) \/ DDestroy(t)
  PROVE  Quiet(t)
<1> USE DEF Labels, fields, server, threads, Packets
<1>0. op \in [Thread -> CallType]
  BY TypeParts DEF IInv, ThreadOK
<1>1. CASE SrSend(t) \/ SrWindow(t) \/ SrRelock(t)
  BY <1>1 DEF SrSend, SrWindow, SrRelock, Quiet
<1>2. CASE SrTried(t)
  <2>1. op[t].name \in Requests
    BY <1>2, AtPoint DEF SrTried, MatchesIn
  <2> QED BY <1>2, <2>1 DEF SrTried, Return, Quiet
<1>3. CASE SrPoll(t) \/ SrCheck(t)
  BY <1>3 DEF SrPoll, SrCheck, Return, Quiet
<1>4. CASE ReLock(t) \/ ReadFails(t) \/ ReFailed(t)
  BY <1>4 DEF ReLock, ReadFails, ReFailed, Return, Quiet
<1>5. CASE RtLook(t)
  BY <1>5 DEF RtLook, Quiet
<1>6. CASE RtRecv(t)
  <2>1. \A u \in Thread : u # t => op'[u] = op[u]
    BY <1>0, <1>6 DEF RtRecv
  <2> QED BY <1>6, <2>1 DEF RtRecv, Quiet
<1>7. CASE RtEnter(t) \/ RtUnlock(t)
  BY <1>7 DEF RtEnter, RtUnlock, Return, Quiet
<1>8. CASE RtPoll(t) \/ RtTry(t) \/ RtTried(t)
  BY <1>8 DEF RtPoll, RtTry, RtTried, Return, Quiet
<1>9. CASE DLock(t) \/ DRelock(t) \/ DDestroy(t)
  BY <1>9 DEF DLock, DRelock, DDestroy, Return, Quiet
<1> QED BY <1>1, <1>2, <1>3, <1>4, <1>5, <1>6, <1>7, <1>8, <1>9

-----------------------------------------------------------------------------
(* The steps that move packets.                                            *)

(* The journey in two halves, what is known of each, and of a packet that  *)
(* is neither queued nor lost.                                             *)
LEMMA OneMore ==
  ASSUME NEW a \in Seq(Packet), NEW b \in Seq(Packet), NEW p \in Packet
  PROVE  /\ a \o (b \o <<p>>) = (a \o b) \o <<p>>
         /\ (<<p>> \o a) \o b = <<p>> \o (a \o b)
<1> DEFINE x == <<p>>
<1>1. x \in Seq(Packet)
  OBVIOUS
<1> HIDE DEF x
<1>2. a \o (b \o x) = (a \o b) \o x
  <2>1. a \in Seq(Packet) /\ b \in Seq(Packet) /\ x \in Seq(Packet)
    BY <1>1
  <2> QED BY <2>1, Together
<1>3. (x \o a) \o b = x \o (a \o b)
  BY <1>1, Together
<1> QED BY <1>2, <1>3 DEF x

LEMMA Halves ==
  ASSUME IInv, OInv
  PROVE  /\ taken \in Seq(Packet) /\ race \in Seq(Packet) /\ InFlight \in Seq(Packet)
         /\ buf \in Seq(Packet) /\ wire \in Seq(Packet) /\ eventsSent \in Nat
         /\ Journey \in Seq(Packet)
<1>1. DataOK
  BY TypeParts DEF IInv
<1>2. InFlight \in Seq(Packet)
  <2>1. CASE lastSr # None /\ lastSr.ct = "event"
    <3>1. lastSr \in Packet
      BY <1>1, <2>1 DEF DataOK
    <3> QED BY <2>1, <3>1 DEF InFlight
  <2>2. CASE ~(lastSr # None /\ lastSr.ct = "event")
    BY <2>2 DEF InFlight
  <2> QED BY <2>1, <2>2
<1>3. /\ taken \in Seq(Packet) /\ race \in Seq(Packet)
      /\ buf \in Seq(Packet) /\ wire \in Seq(Packet) /\ eventsSent \in Nat
  BY <1>1, HandleAssumption DEF DataOK
<1>4. Journey \in Seq(Packet)
  BY <1>2, <1>3, ConcatProperties DEF Journey
<1> QED BY <1>2, <1>3, <1>4

(* Nobody else changes the points of the other threads.                    *)
LEMMA OnlyMoves ==
  ASSUME IInv, NEW t \in Thread, NEW label, Goto(t, label)
  PROVE  pc'[t] = label /\ \A u \in Thread : u # t => pc'[u] = pc[u]
<1>1. pc \in [Thread -> Labels]
  BY TypeParts DEF IInv, ThreadOK
<1> QED BY <1>1 DEF Goto

LEMMA ServerOrder ==
  ASSUME IInv, OInv, WholeEvents, ServerReplies \/ ServerEvent \/ ServerCloses
  PROVE  Queueing' /\ QueueFirst' /\ EventsInOrder'
<1>0. UNCHANGED <<taken, race, lastSr, buf, destroyed, pc, op>>
  BY DEF ServerReplies, ServerEvent, ServerCloses, fields, threads
<1>1. InFlight' = InFlight
  BY <1>0 DEF InFlight
<1>2. Queueing' /\ QueueFirst'
  BY <1>0, <1>1 DEF OInv, Queueing, QueueFirst
<1> DEFINE front == taken \o race \o InFlight \o buf
<1>3. Journey = front \o wire /\ Journey' = front \o wire'
  BY <1>0, <1>1 DEF Journey
<1>4. front \in Seq(Packet)
  BY Halves, ConcatProperties
<1> HIDE DEF front
<1>5. ASSUME NEW e \in Seq(Packet), wire' = wire \o e
      PROVE  Journey' = Journey \o e
  <2>1. wire \in Seq(Packet)
    BY Halves
  <2>2. front \o (wire \o e) = (front \o wire) \o e
    BY <1>4, <2>1, Together
  <2> QED BY <1>3, <1>5, <2>2
<1>6. CASE ServerReplies
  <2> DEFINE p == [of |-> "reply", id |-> Head(commands), ct |-> "none"]
  <2>1. p \in Packet /\ p.ct # "event"
    <3>1. commands \in Seq(Thread \X Nat) /\ commands # <<>>
      BY <1>6, TypeParts DEF IInv, DataOK, ServerReplies
    <3>2. Head(commands) \in Thread \X Nat
      BY <3>1
    <3> QED BY <3>2 DEF Packet
  <2>2. wire' = wire \o <<p>> /\ eventsSent' = eventsSent
    <3>1. wire' = Append(wire, p) /\ eventsSent' = eventsSent
      BY <1>6 DEF ServerReplies
    <3> QED BY <2>1, <3>1, Halves, AppendIsConcat
  <2> HIDE DEF p
  <2>3. Journey' = Journey \o <<p>>
    <3>1. <<p>> \in Seq(Packet)
      BY <2>1
    <3> QED BY <1>5, <2>2, <3>1
  <2>4. ~destroyed => InOrder(Journey', eventsSent')
    BY <2>1, <2>2, <2>3, Halves, ReplyBehind DEF OInv, EventsInOrder
  <2> QED BY <1>0, <1>2, <2>4 DEF EventsInOrder
<1>7. CASE ServerEvent
  <2> DEFINE e == EventPackets(eventsSent + 1)
  <2>0. eventsSent \in Nat /\ eventsSent + 1 \in Nat
    BY Halves
  <2>1. e \in Seq(Packet)
    BY <2>0, PacketsOfEvent
  <2>2. Len(e) = Len(EventTypes)
        /\ \A i \in 1 .. Len(e) : e[i].ct = EventTypes[i] /\ e[i].id[2] = eventsSent + 1
    <3>1. Len(EventTypes) \in Nat
      BY HandleAssumption
    <3> QED BY <3>1 DEF EventPackets
  <2>3. wire' = wire \o e /\ eventsSent' = eventsSent + 1
    BY <1>7 DEF ServerEvent
  <2> HIDE DEF e
  <2>4. PICK j \in 1 .. Len(e) : \A i \in 1 .. Len(e) : e[i].ct = "event" <=> i = j
    <3>1. PICK j \in 1 .. Len(EventTypes) :
            \A i \in 1 .. Len(EventTypes) : EventTypes[i] = "event" <=> i = j
      BY DEF WholeEvents
    <3>2. j \in 1 .. Len(e)
      BY <2>2
    <3>3. ASSUME NEW i \in 1 .. Len(e) PROVE e[i].ct = "event" <=> i = j
      <4>1. e[i].ct = EventTypes[i]
        BY <2>2
      <4>2. i \in 1 .. Len(EventTypes)
        BY <2>2
      <4> QED BY <3>1, <4>1, <4>2
    <3> QED BY <3>2, <3>3
  <2>5. Journey' = Journey \o e
    BY <1>5, <2>1, <2>3
  <2>6. ~destroyed => InOrder(Journey', eventsSent')
    <3> SUFFICES ASSUME ~destroyed PROVE InOrder(Journey', eventsSent')
      OBVIOUS
    <3>1. Journey \in Seq(Packet) /\ InOrder(Journey, eventsSent)
      BY Halves DEF OInv, EventsInOrder
    <3>2. e[j].id[2] = eventsSent + 1
      BY <2>2
    <3>3. InOrder(Journey \o e, eventsSent + 1)
      BY <2>0, <2>1, <2>4, <3>1, <3>2, EventBehind
    <3> QED BY <2>3, <2>5, <3>3
  <2> QED BY <1>0, <1>2, <2>6 DEF EventsInOrder
<1>8. CASE ServerCloses
  <2>1. wire' = wire /\ eventsSent' = eventsSent
    BY <1>8 DEF ServerCloses
  <2> QED BY <1>0, <1>2, <1>3, <2>1 DEF OInv, EventsInOrder
<1> QED BY <1>6, <1>7, <1>8

(* A thread that holds the mutex elsewhere finds nothing on its way to the *)
(* queue.                                                                  *)
LEMMA NothingInFlight ==
  ASSUME IInv, OInv, NEW t \in Thread, pc[t] \in Inside, pc[t] # "sr_got"
  PROVE  InFlight = <<>>
<1>1. ASSUME NEW u \in Thread, pc[u] = "sr_got" PROVE FALSE
  BY <1>1, Alone DEF Inside
<1> QED BY <1>1 DEF OInv, Queueing

(* A request forgets a reply that it or another has had, or leaves it.     *)
LEMMA Forgets ==
  ASSUME IInv, OInv, NEW t \in Thread, pc[t] \in Inside, pc[t] # "sr_got",
         UNCHANGED <<taken, race, buf, wire, eventsSent, destroyed, op>>,
         lastSr' \in {None, lastSr}, NEW label, Goto(t, label),
         label = "read" => op[t].name \in Requests
  PROVE  Queueing' /\ QueueFirst' /\ EventsInOrder'
<1>1. InFlight = <<>> /\ InFlight' = <<>>
  BY NothingInFlight DEF InFlight
<1>2. Journey' = Journey
  BY <1>1 DEF Journey
<1>4. pc'[t] = label /\ \A u \in Thread : u # t => pc'[u] = pc[u]
  BY OnlyMoves
<1>5. QueueFirst'
  BY <1>4 DEF OInv, QueueFirst, Receives, Requests
<1> QED BY <1>1, <1>2, <1>5 DEF OInv, Queueing, EventsInOrder

LEMMA SendOrder ==
  ASSUME IInv, OInv, NEW t \in Thread, SrSent(t) \/ SrRecv(t)
  PROVE  Queueing' /\ QueueFirst' /\ EventsInOrder'
<1>1. CASE SrSent(t)
  <2>1. PICK label \in {"sr_recv", "idle"} : Goto(t, label)
    BY <1>1 DEF SrSent, Return
  <2> QED BY <1>1, <2>1, Forgets DEF SrSent, Inside
<1>2. CASE SrRecv(t)
  <2>1. PICK label \in {"read", "sr_poll", "idle"} : Goto(t, label)
    BY <1>2 DEF SrRecv, Return
  <2>2. op[t].name \in Requests
    BY <1>2, AtPoint DEF SrRecv, MatchesIn
  <2>3. /\ pc[t] = "sr_recv" /\ lastSr' = None
        /\ UNCHANGED <<taken, race, buf, wire, eventsSent, destroyed, op>>
    BY <1>2 DEF SrRecv, server
  <2> QED BY <2>1, <2>2, <2>3, Forgets DEF Inside
<1> QED BY <1>1, <1>2

(* Two sequences in a row, seen from a packet at their border.             *)
LEMMA Border ==
  ASSUME NEW a \in Seq(Packet), NEW b \in Seq(Packet), NEW p \in Packet
  PROVE  /\ Append(a, p) \o b = a \o (<<p>> \o b)
         /\ (a \o <<p>>) \o b = a \o (<<p>> \o b)
         /\ a \o <<>> = a /\ <<>> \o a = a
         /\ <<p>> \in Seq(Packet) /\ <<p>> \o b \in Seq(Packet)
<1>1. <<p>> \in Seq(Packet)
  OBVIOUS
<1> DEFINE x == <<p>>
<1>2. Append(a, p) = a \o x
  BY AppendIsConcat
<1> HIDE DEF x
<1>3. x \in Seq(Packet)
  BY <1>1 DEF x
<1>4. (a \o x) \o b = a \o (x \o b)
  BY <1>3, Together
<1>5. a \o <<>> = a /\ <<>> \o a = a /\ x \o b \in Seq(Packet)
  BY <1>3, ConcatEmptySeq, ConcatProperties
<1> QED BY <1>2, <1>3, <1>4, <1>5 DEF x

LEMMA FirstAndRest ==
  ASSUME NEW T, NEW s \in Seq(T), s # <<>>
  PROVE  Head(s) \in T /\ Tail(s) \in Seq(T) /\ s = <<Head(s)>> \o Tail(s)
<1>1. Head(s) \in T /\ Tail(s) \in Seq(T) /\ Len(Tail(s)) = Len(s) - 1
      /\ \A i \in 1 .. Len(Tail(s)) : Tail(s)[i] = s[i + 1]
  BY HeadTailProperties
<1> DEFINE h == Head(s)
           r == Tail(s)
           t == <<h>> \o r
<1>2. h = s[1] /\ Len(s) \in Nat /\ Len(s) # 0
  OBVIOUS
<1> HIDE DEF h, r
<1>3. h \in T /\ r \in Seq(T) /\ Len(r) = Len(s) - 1 /\ \A i \in 1 .. Len(r) : r[i] = s[i + 1]
  BY <1>1 DEF h, r
<1>4. <<h>> \in Seq(T) /\ Len(<<h>>) = 1 /\ <<h>>[1] = h
  BY <1>3
<1>5. /\ t \in Seq(T) /\ Len(t) = 1 + Len(r)
      /\ \A i \in 1 .. 1 + Len(r) : t[i] = IF i <= 1 THEN <<h>>[i] ELSE r[i - 1]
  BY <1>3, <1>4, ConcatProperties
<1> HIDE DEF t
<1>6. \A i \in 1 .. Len(s) : s[i] = t[i]
  BY <1>2, <1>3, <1>4, <1>5
<1>7. s = t
  BY <1>2, <1>3, <1>5, <1>6, SeqEqual
<1> QED BY <1>1, <1>7 DEF t, h, r

LEMMA GotOrder ==
  ASSUME IInv, OInv, NEW t \in Thread, SrGot(t)
  PROVE  Queueing' /\ QueueFirst' /\ EventsInOrder'
<1>0. /\ pc[t] = "sr_got" /\ op' = op /\ taken' = taken /\ buf' = buf /\ wire' = wire
      /\ eventsSent' = eventsSent /\ destroyed' = destroyed
  BY DEF SrGot, server
<1>1. ASSUME NEW u \in Thread, u # t PROVE pc[u] \notin Inside
  BY <1>0, <1>1, Alone DEF Inside
<1>2. PICK label \in {"sr_window", "idle"} : Goto(t, label)
  BY DEF SrGot, Give
<1>3. pc'[t] = label /\ \A u \in Thread : u # t => pc'[u] = pc[u]
  BY <1>2, OnlyMoves
<1>4. QueueFirst'
  BY <1>1, <1>3 DEF QueueFirst, Inside
<1>5. InFlight' = <<>> /\ Journey' = Journey
  <2>1. CASE lastSr # None /\ lastSr.ct = "event"
    <3>1. lastSr \in Packet /\ InFlight = <<lastSr>>
      BY <2>1, TypeParts DEF IInv, DataOK, InFlight
    <3>2. race' = Append(race, lastSr) /\ lastSr' = None /\ InFlight' = <<>>
      BY <2>1 DEF SrGot, InFlight
    <3>3. Append(race, lastSr) = race \o <<lastSr>>
      BY <3>1, Halves, AppendIsConcat
    <3>4. taken \o race' \o <<>> = taken \o race \o <<lastSr>>
      <4>1. <<lastSr>> \in Seq(Packet)
        BY <3>1
      <4>2. taken \o race' = (taken \o race) \o <<lastSr>>
        <5>1. lastSr \in Packet /\ taken \in Seq(Packet) /\ race \in Seq(Packet)
          BY <3>1, Halves
        <5>2. taken \o (race \o <<lastSr>>) = (taken \o race) \o <<lastSr>>
          BY <5>1, OneMore
        <5> QED BY <3>2, <3>3, <5>2
      <4>3. (taken \o race) \o <<lastSr>> \in Seq(Packet)
        BY <4>1, Halves, ConcatProperties
      <4> QED BY <4>2, <4>3, ConcatEmptySeq
    <3>5. Journey' = Journey
      BY <1>0, <3>1, <3>2, <3>4 DEF Journey
    <3> QED BY <3>2, <3>5
  <2>2. CASE ~(lastSr # None /\ lastSr.ct = "event")
    <3>1. UNCHANGED <<race, lastSr>>
      BY <2>2 DEF SrGot
    <3>2. InFlight' = <<>> /\ InFlight = <<>>
      BY <2>2, <3>1 DEF InFlight
    <3>3. Journey' = Journey
      BY <1>0, <3>1, <3>2 DEF Journey
    <3> QED BY <3>2, <3>3
  <2> QED BY <2>1, <2>2
<1> QED BY <1>0, <1>4, <1>5 DEF OInv, Queueing, EventsInOrder

LEMMA QueueOrder ==
  ASSUME IInv, OInv, NEW t \in Thread, ReQueue(t)
  PROVE  Queueing' /\ QueueFirst' /\ EventsInOrder'
<1>0. /\ pc[t] = "re_queue" /\ op' = op /\ lastSr' = lastSr /\ buf' = buf /\ wire' = wire
      /\ eventsSent' = eventsSent /\ destroyed' = destroyed
  BY DEF ReQueue, server
<1>1. ASSUME NEW u \in Thread, u # t PROVE pc[u] \notin Inside
  BY <1>0, <1>1, Alone DEF Inside
<1>2. PICK label \in {"read", "idle"} : Goto(t, label)
  BY DEF ReQueue, Deliver, Give
<1>3. pc'[t] = label /\ \A u \in Thread : u # t => pc'[u] = pc[u]
  BY <1>2, OnlyMoves
<1>4. InFlight' = InFlight /\ InFlight = <<>> /\ Queueing'
  <2>1. InFlight = <<>>
    BY <1>0, NothingInFlight DEF Inside
  <2> QED BY <1>0, <2>1 DEF InFlight, Queueing
<1>5. op[t].name \in Receives /\ op[t].q
  <2>1. op[t].name \in Receives
    BY <1>0, AtPoint DEF MatchesIn
  <2> QED BY <2>1 DEF OInv, Asking
<1>6. CASE race # <<>>
  <2>1. race' = Tail(race) /\ Deliver(t, Head(race))
    BY <1>5, <1>6 DEF ReQueue
  <2>2. taken' = Append(taken, Head(race)) /\ pc'[t] = "idle"
    BY <2>1, OnlyMoves DEF Deliver, Give
  <2>3. /\ Head(race) \in Packet /\ Tail(race) \in Seq(Packet)
        /\ race = <<Head(race)>> \o Tail(race)
    BY <1>6, Halves, FirstAndRest
  <2>4. taken' \o race' = taken \o race
    <3>1. Append(taken, Head(race)) \o Tail(race) = taken \o (<<Head(race)>> \o Tail(race))
      <4> DEFINE h == Head(race)
                 q == Tail(race)
      <4>1. taken \in Seq(Packet) /\ h \in Packet /\ q \in Seq(Packet)
        BY <2>3, Halves
      <4> HIDE DEF h, q
      <4>2. Append(taken, h) \o q = taken \o (<<h>> \o q)
        BY <4>1, Border
      <4> QED BY <4>2 DEF h, q
    <3> QED BY <2>1, <2>2, <2>3, <3>1
  <2>5. Journey' = Journey
    BY <1>0, <1>4, <2>4 DEF Journey
  <2>6. QueueFirst'
    BY <1>1, <1>3, <2>2 DEF QueueFirst, Inside
  <2> QED BY <1>0, <1>4, <2>5, <2>6 DEF OInv, EventsInOrder
<1>7. CASE race = <<>>
  <2>1. race' = race /\ taken' = taken
    BY <1>7 DEF ReQueue
  <2>2. Journey' = Journey
    BY <1>0, <1>4, <2>1 DEF Journey
  <2>3. QueueFirst'
    BY <1>7, <2>1 DEF QueueFirst
  <2> QED BY <1>0, <1>4, <2>2, <2>3 DEF OInv, EventsInOrder
<1> QED BY <1>6, <1>7

LEMMA ReadOrder ==
  ASSUME IInv, OInv, NEW t \in Thread, Read(t)
  PROVE  Queueing' /\ QueueFirst' /\ EventsInOrder'
<1> DEFINE p == Head(buf)
           rest == Tail(buf)
<1>0. /\ pc[t] = "read" /\ buf # <<>> /\ connected /\ op' = op /\ race' = race
      /\ wire' = wire /\ eventsSent' = eventsSent /\ destroyed' = destroyed /\ buf' = rest
  BY DEF Read, server
<1>1. p \in Packet /\ rest \in Seq(Packet) /\ buf = <<p>> \o rest
  BY <1>0, Halves, FirstAndRest
<1>2. PICK label \in {"sr_got", "idle"} : Goto(t, label)
  BY DEF Read, Deliver, Give
<1>3. pc'[t] = label /\ \A u \in Thread : u # t => pc'[u] = pc[u]
  BY <1>2, OnlyMoves
<1>4. ~destroyed /\ InFlight = <<>>
  BY <1>0, NothingInFlight DEF IInv, Cleared, Inside
<1>5. QueueFirst'
  BY <1>0, <1>3 DEF OInv, QueueFirst
<1> DEFINE front == taken \o race
<1>6. front \in Seq(Packet) /\ Journey = front \o (<<p>> \o rest) \o wire
  BY <1>1, <1>4, Halves, ConcatProperties, ConcatEmptySeq DEF Journey
<1>7. rest \o wire \in Seq(Packet) /\ front \o rest \in Seq(Packet) /\ <<p>> \in Seq(Packet)
  BY <1>1, <1>6, Halves, ConcatProperties
<1> HIDE DEF p, rest, front
<1>8. Journey = front \o (<<p>> \o (rest \o wire))
  <2>1. <<p>> \o rest \in Seq(Packet)
    BY <1>1, <1>7, ConcatProperties
  <2>2. (front \o (<<p>> \o rest)) \o wire = front \o ((<<p>> \o rest) \o wire)
    <3> DEFINE mid == <<p>> \o rest
    <3>1. front \in Seq(Packet) /\ mid \in Seq(Packet) /\ wire \in Seq(Packet)
      BY <1>6, <2>1, Halves
    <3> HIDE DEF mid
    <3>2. (front \o mid) \o wire = front \o (mid \o wire)
      BY <3>1, Together
    <3> QED BY <3>2 DEF mid
  <2>3. (<<p>> \o rest) \o wire = <<p>> \o (rest \o wire)
    <3>1. p \in Packet /\ rest \in Seq(Packet) /\ wire \in Seq(Packet)
      BY <1>1, <1>7, Halves
    <3> HIDE DEF p
    <3> QED BY <3>1, OneMore
  <2> QED BY <1>6, <2>2, <2>3
<1>9. CASE op[t].name \in Requests
  <2>1. lastSr' = p /\ taken' = taken /\ Goto(t, "sr_got")
    BY <1>9 DEF Read, p
  <2>2. pc'[t] = "sr_got"
    BY <2>1, OnlyMoves
  <2>4. front' = front
    BY <1>0, <2>1 DEF front
  <2>5. CASE p.ct = "event"
    <3>1. InFlight' = <<p>>
      BY <1>1, <2>1, <2>5, HandleAssumption DEF InFlight
    <3>2. Journey' = front \o <<p>> \o rest \o wire
      <4>1. Journey' = front' \o InFlight' \o buf' \o wire'
        BY DEF Journey, front
      <4> QED BY <1>0, <2>4, <3>1, <4>1
    <3>3. (front \o <<p>>) \o rest = front \o (<<p>> \o rest)
      BY <1>1, <1>6, <1>7, Together
    <3>4. Journey' = Journey
      BY <1>6, <3>2, <3>3
    <3> QED BY <1>0, <1>5, <2>2, <3>4 DEF OInv, Queueing, EventsInOrder
  <2>6. CASE p.ct # "event"
    <3>2. InFlight' = <<>>
      BY <2>1, <2>6 DEF InFlight
    <3>3. Journey' = front \o <<>> \o rest \o wire
      <4>1. Journey' = front' \o InFlight' \o buf' \o wire'
        BY DEF Journey, front
      <4> QED BY <1>0, <2>4, <3>2, <4>1
    <3>4. Journey' = front \o (rest \o wire)
      <4>1. front \o <<>> = front
        BY <1>6, ConcatEmptySeq
      <4>2. (front \o rest) \o wire = front \o (rest \o wire)
        <5>1. front \in Seq(Packet) /\ rest \in Seq(Packet) /\ wire \in Seq(Packet)
          BY <1>1, <1>6, Halves
        <5> QED BY <5>1, Together
      <4> QED BY <3>3, <4>1, <4>2
    <3>5. InOrder(Journey, eventsSent)
      BY <1>4 DEF OInv, EventsInOrder
    <3>6. InOrder(Journey', eventsSent)
      <4> DEFINE back == rest \o wire
      <4>1. /\ front \in Seq(Packet) /\ back \in Seq(Packet) /\ p \in Packet
            /\ eventsSent \in Nat
        BY <1>1, <1>6, <1>7, Halves, ConcatProperties
      <4>2. InOrder(front \o (<<p>> \o back), eventsSent)
        BY <1>8, <3>5
      <4> HIDE DEF back, p
      <4>3. InOrder(front \o back, eventsSent)
        BY <2>6, <4>1, <4>2, Removed
      <4> QED BY <3>4, <4>3 DEF back
    <3> QED BY <1>0, <1>5, <2>2, <3>6 DEF Queueing, EventsInOrder
  <2> QED BY <2>5, <2>6
<1>10. CASE op[t].name \notin Requests
  <2>1. taken' = Append(taken, p) /\ lastSr' = lastSr
    BY <1>10 DEF Read, Deliver, p
  <2>2. race = <<>>
    <3>1. op[t].name \in Receives
      BY <1>0, <1>10, AtPoint DEF MatchesIn
    <3> QED BY <1>0, <1>4, <3>1 DEF OInv, QueueFirst
  <2>3. InFlight' = <<>>
    BY <1>4, <2>1 DEF InFlight
  <2>4. front = taken /\ taken' \o race' = taken' /\ taken' = taken \o <<p>>
    <3>1. taken' = taken \o <<p>>
      BY <1>1, <2>1, Halves, AppendIsConcat
    <3>2. taken' \in Seq(Packet)
      BY <1>7, <3>1, Halves, ConcatProperties
    <3> QED BY <1>0, <2>2, <3>1, <3>2, Halves, ConcatEmptySeq DEF front
  <2>5. Journey' = taken' \o <<>> \o rest \o wire
    BY <1>0, <2>3, <2>4 DEF Journey
  <2>6. taken' \in Seq(Packet)
    BY <1>7, <2>4, Halves, ConcatProperties
  <2>7. Journey' = (front \o <<p>>) \o rest \o wire
    <3>1. taken' \o <<>> = taken'
      BY <2>6, ConcatEmptySeq
    <3> QED BY <2>4, <2>5, <3>1
  <2>8. (front \o <<p>>) \o rest = front \o (<<p>> \o rest)
    BY <1>1, <1>6, <1>7, Together
  <2>9. Journey' = Journey
    BY <1>6, <2>7, <2>8
  <2> QED BY <1>0, <1>5, <2>3, <2>9 DEF OInv, Queueing, EventsInOrder
<1> QED BY <1>9, <1>10

LEMMA FetchOrder ==
  ASSUME IInv, OInv, NEW t \in Thread, Fetch(t)
  PROVE  Queueing' /\ QueueFirst' /\ EventsInOrder'
<1>0. /\ buf = <<>> /\ pc' = pc /\ op' = op /\ race' = race /\ taken' = taken
      /\ lastSr' = lastSr /\ eventsSent' = eventsSent /\ destroyed' = destroyed
  BY DEF Fetch, threads
<1>1. PICK n \in 1 .. Len(wire) : /\ buf' = SubSeq(wire, 1, n)
                                  /\ wire' = SubSeq(wire, n + 1, Len(wire))
  BY DEF Fetch
<1>2. InFlight' = InFlight
  BY <1>0 DEF InFlight
<1>3. Queueing' /\ QueueFirst'
  BY <1>0, <1>2 DEF OInv, Queueing, QueueFirst
<1>6. buf' \o wire' = wire /\ buf' \in Seq(Packet) /\ wire' \in Seq(Packet)
  <2>1. SubSeq(wire, 1, n) \o SubSeq(wire, n + 1, Len(wire)) = SubSeq(wire, 1, Len(wire))
    BY Halves, ConcatAdjacentSubSeq
  <2>2. SubSeq(wire, 1, Len(wire)) = wire
    BY Halves, SubSeqFull
  <2>3. SubSeq(wire, 1, n) \in Seq(Packet)
    BY Halves
  <2>4. SubSeq(wire, n + 1, Len(wire)) \in Seq(Packet)
    BY Halves
  <2> QED BY <1>1, <2>1, <2>2, <2>3, <2>4
<1> DEFINE front == taken \o race \o InFlight
<1>7. front \in Seq(Packet) /\ front' = front
  BY <1>0, <1>2, Halves, ConcatProperties
<1>8. Journey = front \o <<>> \o wire /\ Journey' = front \o buf' \o wire'
  BY <1>0, <1>7 DEF Journey
<1> HIDE DEF front
<1>9. Journey' = Journey
  <2>1. front \o <<>> = front
    BY <1>7, ConcatEmptySeq
  <2>2. (front \o buf') \o wire' = front \o (buf' \o wire')
    <3>1. front \in Seq(Packet) /\ buf' \in Seq(Packet) /\ wire' \in Seq(Packet)
      BY <1>6, <1>7
    <3> QED BY <3>1, Together
  <2> QED BY <1>6, <1>8, <2>1, <2>2
<1> QED BY <1>0, <1>3, <1>9 DEF OInv, EventsInOrder

LEMMA ClearOrder ==
  ASSUME IInv, OInv, NEW t \in Thread, DClear(t)
  PROVE  Queueing' /\ QueueFirst' /\ EventsInOrder'
<1>1. destroyed' = TRUE /\ lastSr' = None
  BY DEF DClear
<1> QED BY <1>1 DEF Queueing, InFlight, QueueFirst, EventsInOrder

-----------------------------------------------------------------------------
LEMMA OrderInit == Init => OInv
<1> SUFFICES ASSUME Init PROVE OInv
  OBVIOUS
<1>1. Asking /\ Queueing /\ QueueFirst
  BY DEF Init, Asking, Receives, Queueing, InFlight, QueueFirst
<1>3. Journey = <<>> /\ eventsSent = 0
  BY ConcatEmptySeq DEF Init, Journey, InFlight
<1>4. InOrder(<<>>, 0)
  <2>1. <<>> \in Seq(Packet) /\ Len(<<>>) = 0 /\ 1 .. 0 = {} /\ 0 \in Nat
    OBVIOUS
  <2> QED BY <2>1, InOrderPositions
<1> QED BY <1>1, <1>3, <1>4 DEF OInv, EventsInOrder

LEMMA OrderNext ==
  ASSUME IInv, OInv, Attentive, WholeEvents, [Next]_vars
  PROVE  OInv'
<1>1. Asking'
  BY AskingKept DEF OInv
<1>2. ASSUME NEW t \in Thread, Call(t)
      PROVE  Queueing' /\ QueueFirst' /\ EventsInOrder'
  BY <1>2, QuietCall, QuietKeeps
<1>3. ASSUME NEW t \in Thread, Continue(t)
      PROVE  Queueing' /\ QueueFirst' /\ EventsInOrder'
  <2>1. CASE \/ SrSend(t) \/ SrPoll(t) \/ SrTried(t) \/ SrWindow(t) \/ SrRelock(t)
             \/ SrCheck(t) \/ ReLock(t) \/ ReadFails(t) \/ ReFailed(t) \/ RtLook(t)
             \/ RtRecv(t) \/ RtEnter(t) \/ RtUnlock(t) \/ RtPoll(t) \/ RtTry(t) \/ RtTried(t) \/ DLock(t)
             \/ DRelock(t) \/ DDestroy(t)
    BY <2>1, QuietContinue, QuietKeeps
  <2>2. CASE SrSent(t) \/ SrRecv(t) \/ SrGot(t) \/ ReQueue(t) \/ Read(t) \/ Fetch(t) \/ DClear(t)
    BY <2>2, SendOrder, GotOrder, QueueOrder, ReadOrder, FetchOrder, ClearOrder
  <2> QED BY <1>3, <2>1, <2>2 DEF Continue
<1>4. CASE ServerReplies \/ ServerEvent \/ ServerCloses
  BY <1>1, <1>4, ServerOrder DEF OInv
<1>5. CASE UNCHANGED vars
  <2>1. UNCHANGED <<taken, race, lastSr, buf, wire, eventsSent, destroyed, pc, op>>
    BY <1>5 DEF vars, server, fields, threads
  <2>2. InFlight' = InFlight
    BY <2>1 DEF InFlight
  <2>3. Journey' = Journey
    BY <2>1, <2>2 DEF Journey
  <2> QED BY <1>1, <2>1, <2>2, <2>3 DEF OInv, Queueing, QueueFirst, EventsInOrder
<1> QED BY <1>1, <1>2, <1>3, <1>4, <1>5 DEF OInv, Next

(* Until the handle is disconnected, every event the server has sent (its  *)
(* packet with the content type, whatever packets come along with it) is   *)
(* once, and in the order it was sent, among the packets receivers were    *)
(* given, the race queue, the packet a request is about to queue, the      *)
(* packet buffer and the wire: esl_send_recv_timed, which gives up the     *)
(* mutex for every event it queues, loses and reorders none.               *)
THEOREM EventsKept ==
  ASSUME Attentive, WholeEvents
  PROVE  Spec => []EventsInOrder
<1>1. Init => IInv /\ OInv
  BY InvInit, OrderInit
<1>2. IInv /\ OInv /\ [Next]_vars => IInv' /\ OInv'
  BY InvNext, OrderNext
<1>3. OInv => EventsInOrder
  BY DEF OInv
<1> QED BY <1>1, <1>2, <1>3, PTL DEF Spec

-----------------------------------------------------------------------------
(* Requests and their replies.                                             *)

(* What the theorem is about: without either of these a request can take   *)
(* something else for its reply.                                           *)
RequestsOnly == \A t \in Thread : Ops[t] \subseteq Requests
NoEvents == MaxEvents = 0

ReplyTo(t) == [of |-> "reply", id |-> <<t, calls[t]>>, ct |-> "none"]

Waiting == {"sr_recv", "sr_poll", "sr_tried", "read"}

(* Threads that make nothing but requests.                                 *)
Requesting ==
  /\ sock /\ mutexSet /\ eventsSent = 0
  /\ \A t \in Thread :
       /\ pc[t] \in {"idle", "sr_lock", "sr_send", "sr_got", "re_failed"} \cup Waiting
       /\ pc[t] # "idle" => op[t].name \in Requests

(* The command of thread t, or the reply to it, and nothing else is on its *)
(* way.                                                                    *)
Carrying(t) ==
  \/ commands = <<<<t, calls[t]>>>> /\ wire = <<>> /\ buf = <<>>
  \/ commands = <<>> /\ wire = <<ReplyTo(t)>> /\ buf = <<>>
  \/ commands = <<>> /\ wire = <<>> /\ buf = <<ReplyTo(t)>>

Clear == commands = <<>> /\ wire = <<>> /\ buf = <<>>

(* On a good connection a command is on its way only for the thread that   *)
(* holds the mutex; one that has just lost the connection is about to mark *)
(* it as lost.                                                             *)
OnTheWay ==
  connected =>
    \/ \E t \in Thread : pc[t] = "re_failed"
    \/ \E t \in Thread : pc[t] \in Waiting /\ Carrying(t)
    \/ (\A t \in Thread : pc[t] \notin Waiting) /\ Clear

Answered == \A t \in Thread : pc[t] = "sr_got" => lastSr = ReplyTo(t)

RInv == Requesting /\ OnTheWay /\ Answered /\ ReplyMatches

(* The mutex is held by at most one of the threads at these points.        *)
Engaged == {"sr_send", "sr_got", "re_failed"} \cup Waiting

LEMMA OneEngaged ==
  ASSUME IInv, Requesting, NEW t \in Thread, NEW u \in Thread,
         pc[t] \in Engaged, pc[u] \in Engaged
  PROVE  t = u
<1>1. ASSUME NEW v \in Thread, pc[v] \in Engaged PROVE Owns(v)
  <2>1. op[v].name \in Requests
    BY <1>1 DEF Requesting, Engaged, Waiting
  <2> QED BY <1>1, <2>1, AtPoint DEF HoldsIn, HeldIn, Owns, Engaged, Waiting, Requests
<1> QED
  BY <1>1 DEF IInv, Locks, Holding

(* A step of a thread that leaves its call count alone.                    *)
LEMMA Steps ==
  ASSUME IInv, RInv, NEW t \in Thread, NEW label, Goto(t, label), calls' = calls, op' = op,
         label \in {"idle", "sr_lock", "sr_send", "sr_got", "re_failed"} \cup Waiting,
         pc[t] # "idle", sock' = sock, mutexSet' = mutexSet, eventsSent' = eventsSent
  PROVE  /\ pc'[t] = label /\ \A u \in Thread : u # t => pc'[u] = pc[u]
         /\ \A u \in Thread : ReplyTo(u)' = ReplyTo(u)
         /\ Requesting'
<1>1. pc'[t] = label /\ \A u \in Thread : u # t => pc'[u] = pc[u]
  BY OnlyMoves
<1>2. \A u \in Thread : ReplyTo(u)' = ReplyTo(u)
  BY DEF ReplyTo
<1>3. Requesting'
  BY <1>1 DEF RInv, Requesting
<1> QED BY <1>1, <1>2, <1>3

(* The results of a step that returns nothing, a failure, or a reply.      *)
LEMMA ResultKept ==
  ASSUME IInv, RInv, NEW t \in Thread, op' = op, calls' = calls,
         \A u \in Thread : u # t => pc'[u] = pc[u],
         \/ result' = result /\ pc'[t] # "idle"
         \/ result' = [result EXCEPT ![t] = Returned("FAIL", None)]
         \/ result' = [result EXCEPT ![t] = Returned("SUCCESS", ReplyTo(t))]
  PROVE  ReplyMatches'
<1>1. result \in [Thread -> ResultType]
  BY TypeParts DEF IInv, ThreadOK
<1>2. \A u \in Thread : u # t => result'[u] = result[u]
  BY <1>1
<1>3. \/ pc'[t] # "idle"
      \/ result'[t] = Returned("FAIL", None)
      \/ result'[t] = Returned("SUCCESS", ReplyTo(t))
  BY <1>1
<1>4. pc'[t] = "idle" /\ result'[t].status = "SUCCESS" => result'[t].packet = ReplyTo(t)
  BY <1>3 DEF Returned
<1> QED BY <1>2, <1>4 DEF RInv, ReplyMatches, ReplyTo

LEMMA RequestBegins ==
  ASSUME IInv, RInv, RequestsOnly, NEW t \in Thread, Call(t)
  PROVE  RInv'
<1>0. Requests \cap {"send", "disconnect", "recv", "recv_timed"} = {}
  BY DEF Requests
<1>1. PICK name \in Requests : SendRecv(t, name)
  BY <1>0 DEF Call, Send, Disconnect, Recv, RecvTimed, Begin, RequestsOnly
<1>2. /\ pc[t] = "idle" /\ Goto(t, "sr_lock") /\ UNCHANGED <<server, fields, mutex, taken, late, result>>
      /\ calls' = [calls EXCEPT ![t] = @ + 1]
      /\ op' = [op EXCEPT ![t] = [name |-> name, q |-> FALSE]]
  BY <1>1 DEF SendRecv, Begin, RInv, Requesting
<1>3. /\ pc \in [Thread -> Labels] /\ op \in [Thread -> CallType]
      /\ calls \in [Thread -> 0 .. MaxCalls]
  BY TypeParts DEF IInv, ThreadOK
<1>4. /\ pc'[t] = "sr_lock" /\ op'[t].name = name
      /\ \A u \in Thread : u # t => pc'[u] = pc[u] /\ op'[u] = op[u] /\ calls'[u] = calls[u]
  BY <1>2, <1>3 DEF Goto
<1>5. \A u \in Thread : u # t => ReplyTo(u)' = ReplyTo(u)
  BY <1>4 DEF ReplyTo
<1>6. Requesting'
  BY <1>2, <1>4 DEF RInv, Requesting, fields, server
<1>7. \A u \in Thread : u # t => (Carrying(u) => Carrying(u)')
  BY <1>2, <1>4, <1>5 DEF Carrying, server, fields
<1>8. OnTheWay'
  <2>1. connected' = connected /\ Clear' = Clear
    BY <1>2 DEF fields, server, Clear
  <2>2. \A u \in Thread : pc[u] \in Waiting \cup {"re_failed"} => u # t
    BY <1>2 DEF Waiting
  <2>3. "sr_lock" \notin Waiting
    BY DEF Waiting
  <2> QED BY <1>4, <1>7, <2>1, <2>2, <2>3 DEF RInv, OnTheWay
<1>9. Answered'
  BY <1>2, <1>4, <1>5 DEF RInv, Answered, fields
<1>10. ReplyMatches'
  BY <1>2, <1>4, <1>5 DEF RInv, ReplyMatches, ReplyTo
<1> QED BY <1>6, <1>8, <1>9, <1>10 DEF RInv

LEMMA RequestSends ==
  ASSUME IInv, RInv, NEW t \in Thread, SrSend(t) \/ SrSent(t)
  PROVE  RInv'
<1>1. CASE SrSend(t)
  <2>1. /\ pc[t] = "sr_lock" /\ Goto(t, "sr_send")
        /\ UNCHANGED <<server, fields, op, calls, result, taken>>
    BY <1>1 DEF SrSend
  <2>2. /\ pc'[t] = "sr_send" /\ \A u \in Thread : u # t => pc'[u] = pc[u]
        /\ \A u \in Thread : ReplyTo(u)' = ReplyTo(u)
        /\ Requesting'
    BY <2>1, Steps DEF fields, server
  <2>3. \A u \in Thread : Carrying(u)' = Carrying(u)
    BY <2>1, <2>2 DEF Carrying, server, fields
  <2>4. OnTheWay'
    BY <2>1, <2>2, <2>3 DEF RInv, OnTheWay, Waiting, Clear, server, fields
  <2>5. Answered' /\ ReplyMatches'
    BY <2>1, <2>2, ResultKept DEF RInv, Answered, fields
  <2> QED BY <2>2, <2>4, <2>5 DEF RInv
<1>2. CASE SrSent(t)
  <2>1. /\ pc[t] = "sr_send" /\ op' = op /\ calls' = calls /\ wire' = wire /\ buf' = buf
        /\ sock' = sock /\ mutexSet' = mutexSet /\ eventsSent' = eventsSent /\ sock
    BY <1>2 DEF SrSent, RInv, Requesting
  <2>2. ASSUME NEW u \in Thread, u # t PROVE pc[u] \notin Engaged
    BY <2>1, <2>2, OneEngaged DEF RInv, Engaged
  <2>3. PICK label \in {"sr_recv", "idle"} : Goto(t, label)
    BY <1>2 DEF SrSent, Return
  <2>4. /\ pc'[t] = label /\ \A u \in Thread : u # t => pc'[u] = pc[u]
        /\ \A u \in Thread : ReplyTo(u)' = ReplyTo(u)
        /\ Requesting'
    BY <2>1, <2>3, Steps DEF Waiting
  <2>5. Answered'
    BY <2>2, <2>4 DEF Answered, Engaged
  <2>6. ReplyMatches'
    <3>1. \/ result' = result /\ pc'[t] # "idle"
          \/ result' = [result EXCEPT ![t] = Returned("FAIL", None)]
      <4>1. CASE Goto(t, "sr_recv") /\ result' = result
        BY <4>1, OnlyMoves
      <4>2. CASE Return(t, "FAIL")
        BY <4>2 DEF Return
      <4> QED BY <1>2, <4>1, <4>2 DEF SrSent
    <3> QED BY <2>1, <2>4, <3>1, ResultKept
  <2>7. connected => Clear
    <3>1. \A u \in Thread : pc[u] \notin Waiting /\ pc[u] # "re_failed"
      BY <2>1, <2>2 DEF Engaged, Waiting
    <3> QED BY <3>1 DEF RInv, OnTheWay
  <2>8. OnTheWay'
    <3>1. CASE connected' /\ commands' = Append(commands, <<t, calls[t]>>)
              /\ connected /\ Goto(t, "sr_recv")
      <4>1. pc'[t] = "sr_recv"
        BY <3>1, OnlyMoves
      <4>2. commands' = <<<<t, calls[t]>>>> /\ wire' = <<>> /\ buf' = <<>>
        BY <2>1, <2>7, <3>1 DEF Clear
      <4>3. Carrying(t)'
        BY <2>1, <4>2 DEF Carrying
      <4> QED BY <4>1, <4>3 DEF OnTheWay, Waiting
    <3>2. CASE ~connected'
      BY <3>2 DEF OnTheWay
    <3> QED BY <1>2, <2>1, <3>1, <3>2 DEF SrSent
  <2> QED BY <2>4, <2>5, <2>6, <2>8 DEF RInv
<1> QED BY <1>1, <1>2

(* A step of the thread that waits for its reply, which leaves the packets *)
(* where they are.                                                         *)
LEMMA WaitsOn ==
  ASSUME IInv, RInv, NEW t \in Thread, pc[t] \in Waiting, NEW label, Goto(t, label),
         UNCHANGED <<commands, wire, buf, connected, op, calls, sock, mutexSet, eventsSent>>,
         \/ label \in Waiting \cup {"re_failed"} /\ result' = result
         \/ label = "idle" /\ ~connected /\ result' = [result EXCEPT ![t] = Returned("FAIL", None)]
  PROVE  RInv'
<1>1. /\ pc'[t] = label /\ \A u \in Thread : u # t => pc'[u] = pc[u]
      /\ \A u \in Thread : ReplyTo(u)' = ReplyTo(u)
      /\ Requesting'
  BY Steps DEF Waiting
<1>2. ASSUME NEW u \in Thread, u # t PROVE pc[u] \notin Engaged
  BY <1>2, OneEngaged DEF RInv, Engaged
<1>3. Answered'
  BY <1>1, <1>2 DEF Answered, Engaged, Waiting
<1>4. ReplyMatches'
  BY <1>1, ResultKept DEF Waiting
<1>5. OnTheWay'
  <2>1. CASE ~connected
    BY <2>1 DEF OnTheWay
  <2>2. CASE label = "re_failed"
    BY <1>1, <2>2 DEF OnTheWay
  <2>3. CASE connected /\ label \in Waiting
    <3>1. Carrying(t)
      BY <1>2, <2>3 DEF RInv, OnTheWay, Engaged, Waiting
    <3>2. Carrying(t)'
      BY <1>1, <3>1 DEF Carrying
    <3> QED BY <1>1, <2>3, <3>2 DEF OnTheWay
  <2> QED BY <2>1, <2>2, <2>3
<1> QED BY <1>1, <1>3, <1>4, <1>5 DEF RInv

LEMMA RequestWaits ==
  ASSUME IInv, RInv, NEW t \in Thread, SrRecv(t) \/ SrTried(t) \/ ReadFails(t)
  PROVE  RInv'
<1>0. sock /\ mutexSet
  BY DEF RInv, Requesting
<1>1. CASE SrRecv(t)
  <2>1. /\ pc[t] = "sr_recv"
        /\ UNCHANGED <<commands, wire, buf, connected, op, calls, sock, mutexSet, eventsSent>>
    BY <1>1 DEF SrRecv, server
  <2>2. CASE Usable
    <3>1. PICK label \in {"read", "sr_poll"} : Goto(t, label) /\ result' = result
      BY <1>1, <2>2 DEF SrRecv
    <3> QED BY <2>1, <3>1, WaitsOn DEF Waiting
  <2>3. CASE ~Usable
    <3>1. /\ Goto(t, "idle") /\ ~connected
          /\ result' = [result EXCEPT ![t] = Returned("FAIL", None)]
      BY <1>0, <1>1, <2>3 DEF SrRecv, Return, Usable
    <3> QED BY <2>1, <3>1, WaitsOn DEF Waiting
  <2> QED BY <2>2, <2>3
<1>2. CASE SrTried(t)
  <2>1. /\ pc[t] = "sr_tried"
        /\ UNCHANGED <<commands, wire, buf, connected, op, calls, sock, mutexSet, eventsSent>>
    BY <1>2 DEF SrTried, server, fields
  <2>2. CASE Usable
    <3>1. Goto(t, "read") /\ result' = result
      BY <1>2, <2>2 DEF SrTried
    <3> QED BY <2>1, <3>1, WaitsOn DEF Waiting
  <2>3. CASE ~Usable
    <3>1. /\ Goto(t, "idle") /\ ~connected
          /\ result' = [result EXCEPT ![t] = Returned("FAIL", None)]
      BY <1>0, <1>2, <2>3 DEF SrTried, Return, Usable
    <3> QED BY <2>1, <3>1, WaitsOn DEF Waiting
  <2> QED BY <2>2, <2>3
<1>3. CASE ReadFails(t)
  <2>1. /\ pc[t] = "read" /\ Goto(t, "re_failed") /\ result' = result
        /\ UNCHANGED <<commands, wire, buf, connected, op, calls, sock, mutexSet, eventsSent>>
    BY <1>3 DEF ReadFails, server, fields
  <2> QED BY <2>1, WaitsOn DEF Waiting
<1> QED BY <1>1, <1>2, <1>3

(* It goes on from the poll, finds the connection lost, or gives up.       *)
LEMMA RequestPolls ==
  ASSUME IInv, RInv, NEW t \in Thread, SrPoll(t)
  PROVE  late' \/ RInv'
<1>1. /\ pc[t] = "sr_poll"
      /\ UNCHANGED <<commands, wire, buf, op, calls, sock, mutexSet, eventsSent>>
  BY DEF SrPoll, server
<1>2. CASE Goto(t, "sr_tried") /\ UNCHANGED <<connected, result>>
  BY <1>1, <1>2, WaitsOn DEF Waiting
<1>3. CASE late' = TRUE
  BY <1>3
<1>4. CASE connected' = FALSE /\ Return(t, "FAIL")
  <2>1. Goto(t, "idle") /\ result' = [result EXCEPT ![t] = Returned("FAIL", None)]
    BY <1>4 DEF Return
  <2>2. /\ pc'[t] = "idle" /\ \A u \in Thread : u # t => pc'[u] = pc[u]
        /\ \A u \in Thread : ReplyTo(u)' = ReplyTo(u)
        /\ Requesting'
    BY <1>1, <2>1, Steps
  <2>3. ASSUME NEW u \in Thread, u # t PROVE pc[u] \notin Engaged
    BY <1>1, <2>3, OneEngaged DEF RInv, Engaged, Waiting
  <2>4. Answered'
    BY <2>2, <2>3 DEF Answered, Engaged
  <2>5. ReplyMatches'
    BY <1>1, <2>1, <2>2, ResultKept
  <2>6. OnTheWay'
    BY <1>4 DEF OnTheWay
  <2> QED BY <2>2, <2>4, <2>5, <2>6 DEF RInv
<1> QED BY <1>2, <1>3, <1>4 DEF SrPoll

(* What the thread that reads finds is the reply to its own command.       *)
LEMMA RequestReads ==
  ASSUME IInv, RInv, NEW t \in Thread, Read(t) \/ Fetch(t)
  PROVE  RInv'
<1>1. /\ pc[t] = "read" /\ connected /\ op[t].name \in Requests
  BY DEF Read, Fetch, RInv, Requesting
<1>2. ASSUME NEW u \in Thread, u # t PROVE pc[u] \notin Engaged
  BY <1>1, <1>2, OneEngaged DEF RInv, Engaged, Waiting
<1>3. Carrying(t)
  BY <1>1, <1>2 DEF RInv, OnTheWay, Engaged, Waiting
<1>4. CASE Read(t)
  <2>1. /\ buf # <<>> /\ buf' = Tail(buf) /\ lastSr' = Head(buf) /\ Goto(t, "sr_got")
        /\ UNCHANGED <<commands, wire, connected, op, calls, sock, mutexSet, eventsSent, result>>
    BY <1>1, <1>4 DEF Read, server
  <2>2. commands = <<>> /\ wire = <<>> /\ buf = <<ReplyTo(t)>>
    BY <1>3, <2>1 DEF Carrying
  <2>3. buf' = <<>> /\ lastSr' = ReplyTo(t)
    BY <2>1, <2>2
  <2>4. /\ pc'[t] = "sr_got" /\ \A u \in Thread : u # t => pc'[u] = pc[u]
        /\ \A u \in Thread : ReplyTo(u)' = ReplyTo(u)
        /\ Requesting'
    BY <1>1, <2>1, Steps
  <2>5. Answered'
    BY <1>2, <2>3, <2>4 DEF Answered, Engaged
  <2>6. ReplyMatches'
    BY <2>1, <2>4, ResultKept
  <2>7. OnTheWay'
    BY <1>2, <2>1, <2>2, <2>3, <2>4 DEF OnTheWay, Clear, Engaged, Waiting
  <2> QED BY <2>4, <2>5, <2>6, <2>7 DEF RInv
<1>5. CASE Fetch(t)
  <2>1. /\ wire # <<>> /\ buf = <<>> /\ pc' = pc
        /\ UNCHANGED <<commands, connected, op, calls, sock, mutexSet, eventsSent, result, lastSr>>
        /\ \E n \in 1 .. Len(wire) : /\ buf' = SubSeq(wire, 1, n)
                                     /\ wire' = SubSeq(wire, n + 1, Len(wire))
    BY <1>5 DEF Fetch, threads
  <2>2. commands = <<>> /\ wire = <<ReplyTo(t)>>
    BY <1>3, <2>1 DEF Carrying
  <2>3. wire' = <<>> /\ buf' = <<ReplyTo(t)>>
    <3> DEFINE r == ReplyTo(t)
    <3> HIDE DEF r
    <3>1. wire = <<r>>
      BY <2>2 DEF r
    <3>2. PICK n \in 1 .. Len(wire) : /\ buf' = SubSeq(wire, 1, n)
                                      /\ wire' = SubSeq(wire, n + 1, Len(wire))
      BY <2>1
    <3>3. Len(<<r>>) = 1 /\ n = 1
      BY <3>1
    <3>4. SubSeq(<<r>>, 1, 1) = <<r>>
      <4> DEFINE one == <<r>>
      <4>1. one \in Seq({r}) /\ Len(one) = 1
        OBVIOUS
      <4> HIDE DEF one
      <4>2. SubSeq(one, 1, Len(one)) = one
        BY <4>1, SubSeqFull
      <4> QED BY <4>1, <4>2 DEF one
    <3>5. SubSeq(<<r>>, 2, 1) = <<>>
      BY SubSeqEmpty
    <3> QED BY <3>1, <3>2, <3>3, <3>4, <3>5 DEF r
  <2>4. \A u \in Thread : ReplyTo(u)' = ReplyTo(u)
    BY <2>1 DEF ReplyTo
  <2>5. Carrying(t)'
    BY <2>1, <2>2, <2>3, <2>4 DEF Carrying
  <2>6. OnTheWay'
    BY <1>1, <2>1, <2>5 DEF OnTheWay, Waiting
  <2>7. Requesting' /\ Answered'
    BY <2>1, <2>4 DEF RInv, Requesting, Answered
  <2>8. ReplyMatches'
    BY <2>1 DEF RInv, ReplyMatches
  <2> QED BY <2>6, <2>7, <2>8 DEF RInv
<1> QED BY <1>4, <1>5

LEMMA RequestReturns ==
  ASSUME IInv, RInv, NEW t \in Thread, SrGot(t) \/ ReFailed(t)
  PROVE  RInv'
<1>1. CASE SrGot(t)
  <2>1. pc[t] = "sr_got" /\ lastSr = ReplyTo(t)
    BY <1>1 DEF SrGot, RInv, Answered
  <2>2. lastSr.ct # "event"
    BY <2>1 DEF ReplyTo
  <2>3. /\ Goto(t, "idle") /\ result' = [result EXCEPT ![t] = Returned("SUCCESS", ReplyTo(t))]
        /\ UNCHANGED <<commands, wire, buf, connected, op, calls, sock, mutexSet, eventsSent>>
    BY <1>1, <2>1, <2>2 DEF SrGot, Give, server
  <2>4. /\ pc'[t] = "idle" /\ \A u \in Thread : u # t => pc'[u] = pc[u]
        /\ \A u \in Thread : ReplyTo(u)' = ReplyTo(u)
        /\ Requesting'
    BY <2>1, <2>3, Steps
  <2>5. ASSUME NEW u \in Thread, u # t PROVE pc[u] \notin Engaged
    BY <2>1, <2>5, OneEngaged DEF RInv, Engaged
  <2>6. Answered'
    BY <2>4, <2>5 DEF Answered, Engaged
  <2>7. ReplyMatches'
    BY <2>3, <2>4, ResultKept
  <2>8. connected => Clear
    BY <2>1, <2>5 DEF RInv, OnTheWay, Engaged, Waiting
  <2>9. OnTheWay'
    BY <2>3, <2>4, <2>5, <2>8 DEF OnTheWay, Clear, Engaged, Waiting
  <2> QED BY <2>4, <2>6, <2>7, <2>9 DEF RInv
<1>2. CASE ReFailed(t)
  <2>1. /\ pc[t] = "re_failed" /\ connected' = FALSE /\ Goto(t, "idle")
        /\ result' = [result EXCEPT ![t] = Returned("FAIL", None)]
        /\ UNCHANGED <<op, calls, sock, mutexSet, eventsSent>>
    BY <1>2 DEF ReFailed, Return, server
  <2>2. /\ pc'[t] = "idle" /\ \A u \in Thread : u # t => pc'[u] = pc[u]
        /\ \A u \in Thread : ReplyTo(u)' = ReplyTo(u)
        /\ Requesting'
    BY <2>1, Steps
  <2>3. ASSUME NEW u \in Thread, u # t PROVE pc[u] \notin Engaged
    BY <2>1, <2>3, OneEngaged DEF RInv, Engaged
  <2>4. Answered'
    BY <2>2, <2>3 DEF Answered, Engaged
  <2>5. ReplyMatches'
    BY <2>1, <2>2, ResultKept
  <2>6. OnTheWay'
    BY <2>1 DEF OnTheWay
  <2> QED BY <2>2, <2>4, <2>5, <2>6 DEF RInv
<1> QED BY <1>1, <1>2

(* The server answers the one command it has.                              *)
LEMMA ServerAnswers ==
  ASSUME IInv, RInv, NoEvents, ServerReplies \/ ServerEvent \/ ServerCloses
  PROVE  RInv'
<1>0. /\ UNCHANGED <<buf, connected, pc, op, calls, result, lastSr, sock, mutexSet>>
  BY DEF ServerReplies, ServerEvent, ServerCloses, fields, threads
<1>1. \A u \in Thread : ReplyTo(u)' = ReplyTo(u)
  BY <1>0 DEF ReplyTo
<1>2. CASE ServerReplies
  <2>1. /\ commands # <<>> /\ commands' = Tail(commands) /\ eventsSent' = eventsSent
        /\ wire' = Append(wire, [of |-> "reply", id |-> Head(commands), ct |-> "none"])
    BY <1>2 DEF ServerReplies
  <2>2. ASSUME NEW t \in Thread, Carrying(t) PROVE Carrying(t)'
    <3>1. commands = <<<<t, calls[t]>>>> /\ wire = <<>> /\ buf = <<>>
      BY <2>1, <2>2 DEF Carrying
    <3>2. Head(commands) = <<t, calls[t]>> /\ Tail(commands) = <<>>
      BY <3>1
    <3>3. wire' = <<ReplyTo(t)>> /\ commands' = <<>>
      BY <2>1, <3>1, <3>2 DEF ReplyTo
    <3> QED BY <1>0, <1>1, <3>1, <3>3 DEF Carrying
  <2>3. ~Clear
    BY <2>1 DEF Clear
  <2>4. OnTheWay'
    BY <1>0, <2>2, <2>3 DEF RInv, OnTheWay
  <2>5. Requesting' /\ Answered' /\ ReplyMatches'
    BY <1>0, <1>1, <2>1 DEF RInv, Requesting, Answered, ReplyMatches
  <2> QED BY <2>4, <2>5 DEF RInv
<1>3. CASE ServerEvent
  BY <1>3 DEF ServerEvent, RInv, Requesting, NoEvents
<1>4. CASE ServerCloses
  <2>1. UNCHANGED <<commands, wire, eventsSent>>
    BY <1>4 DEF ServerCloses
  <2>2. \A u \in Thread : Carrying(u)' = Carrying(u)
    BY <1>0, <1>1, <2>1 DEF Carrying
  <2>3. OnTheWay'
    BY <1>0, <2>1, <2>2 DEF RInv, OnTheWay, Clear
  <2> QED BY <1>0, <1>1, <2>1, <2>3 DEF RInv, Requesting, Answered, ReplyMatches
<1> QED BY <1>2, <1>3, <1>4

LEMMA ReplyInit == Init => RInv
<1> SUFFICES ASSUME Init PROVE RInv
  OBVIOUS
<1>1. Requesting /\ OnTheWay /\ Answered
  BY DEF Init, Requesting, OnTheWay, Answered, Clear, Waiting
<1>2. ReplyMatches
  BY DEF Init, ReplyMatches, Requests
<1> QED BY <1>1, <1>2 DEF RInv

LEMMA ReplyNext ==
  ASSUME IInv, RInv, RequestsOnly, NoEvents, [Next]_vars
  PROVE  late' \/ RInv'
<1>1. CASE ServerReplies \/ ServerEvent \/ ServerCloses
  BY <1>1, ServerAnswers
<1>2. ASSUME NEW t \in Thread, Call(t) PROVE RInv'
  BY <1>2, RequestBegins
<1>3. ASSUME NEW t \in Thread, Continue(t) PROVE late' \/ RInv'
  <2>1. pc[t] \in {"idle", "sr_lock", "sr_send", "sr_got", "re_failed"} \cup Waiting
    BY DEF RInv, Requesting
  <2>2. CASE SrSend(t) \/ SrSent(t) \/ SrRecv(t) \/ SrPoll(t) \/ SrTried(t) \/ SrGot(t)
    BY <2>2, RequestSends, RequestWaits, RequestPolls, RequestReturns
  <2>3. CASE Read(t) \/ Fetch(t) \/ ReadFails(t) \/ ReFailed(t)
    BY <2>3, RequestReads, RequestWaits, RequestReturns
  <2>4. ~(SrWindow(t) \/ SrRelock(t) \/ SrCheck(t) \/ ReLock(t) \/ ReQueue(t))
    BY <2>1 DEF Waiting, SrWindow, SrRelock, SrCheck, ReLock, ReQueue
  <2>5. ~(RtLook(t) \/ RtRecv(t) \/ RtEnter(t) \/ RtUnlock(t) \/ RtPoll(t) \/ RtTry(t)
          \/ RtTried(t))
    BY <2>1 DEF Waiting, RtLook, RtRecv, RtEnter, RtUnlock, RtPoll, RtTry, RtTried
  <2>6. ~(DLock(t) \/ DClear(t) \/ DRelock(t) \/ DDestroy(t))
    BY <2>1 DEF Waiting, DLock, DClear, DRelock, DDestroy
  <2> QED BY <1>3, <2>2, <2>3, <2>4, <2>5, <2>6 DEF Continue
<1>4. CASE UNCHANGED vars
  <2>1. UNCHANGED <<commands, wire, buf, connected, pc, op, calls, result, lastSr, sock,
                    mutexSet, eventsSent>>
    BY <1>4 DEF vars, server, fields, threads
  <2>2. \A u \in Thread : ReplyTo(u)' = ReplyTo(u)
    BY <2>1 DEF ReplyTo
  <2>3. \A u \in Thread : Carrying(u)' = Carrying(u)
    BY <2>1, <2>2 DEF Carrying
  <2>4. OnTheWay'
    BY <2>1, <2>3 DEF RInv, OnTheWay, Clear
  <2> QED BY <2>1, <2>2, <2>4 DEF RInv, Requesting, Answered, ReplyMatches
<1> QED BY <1>1, <1>2, <1>3, <1>4 DEF Next

(* Whether a request has given up is not forgotten.                        *)
LEMMA LateForGood ==
  ASSUME late, [Next]_vars
  PROVE  late'
<1>1. ASSUME NEW t \in Thread, Call(t) PROVE late'
  BY <1>1 DEF Call, Send, Disconnect, SendRecv, Recv, RecvTimed
<1>2. ASSUME NEW t \in Thread, Continue(t) PROVE late'
  <2>1. CASE \/ SrSend(t) \/ SrSent(t) \/ SrRecv(t) \/ SrPoll(t) \/ SrTried(t) \/ SrGot(t)
             \/ SrWindow(t) \/ SrRelock(t) \/ SrCheck(t)
    BY <2>1 DEF SrSend, SrSent, SrRecv, SrPoll, SrTried, SrGot, SrWindow, SrRelock, SrCheck
  <2>2. CASE \/ ReLock(t) \/ ReQueue(t) \/ Read(t) \/ Fetch(t) \/ ReadFails(t) \/ ReFailed(t)
    BY <2>2 DEF ReLock, ReQueue, Read, Fetch, ReadFails, ReFailed, threads
  <2>3. CASE \/ RtLook(t) \/ RtRecv(t) \/ RtEnter(t) \/ RtUnlock(t) \/ RtPoll(t)
             \/ RtTry(t) \/ RtTried(t)
    BY <2>3 DEF RtLook, RtRecv, RtEnter, RtUnlock, RtPoll, RtTry, RtTried
  <2>4. CASE DLock(t) \/ DClear(t) \/ DRelock(t) \/ DDestroy(t)
    BY <2>4 DEF DLock, DClear, DRelock, DDestroy
  <2> QED BY <1>2, <2>1, <2>2, <2>3, <2>4 DEF Continue
<1>3. CASE ServerReplies \/ ServerEvent \/ ServerCloses \/ UNCHANGED vars
  BY <1>3 DEF ServerReplies, ServerEvent, ServerCloses, vars, threads
<1> QED BY <1>1, <1>2, <1>3 DEF Next

(* While nobody sends without waiting for the reply, and no event arrives, *)
(* esl_send_recv_timed returns the reply to the command it sent, however   *)
(* many threads share the handle and whenever the connection is lost,      *)
(* until a request gives up at its time limit and leaves its reply behind. *)
THEOREM OwnReply ==
  ASSUME RequestsOnly, NoEvents
  PROVE  Spec => []RepliesMatchInTime
<1>1. Init => IInv /\ (late \/ RInv)
  BY InvInit, ReplyInit
<1>2. IInv /\ (late \/ RInv) /\ [Next]_vars => IInv' /\ (late' \/ RInv')
  BY InvNext, ReplyNext, LateForGood
<1>3. late \/ RInv => RepliesMatchInTime
  BY DEF RInv, RepliesMatchInTime
<1> QED BY <1>1, <1>2, <1>3, PTL DEF Spec
=============================================================================
