---------------------------- MODULE EslLifecycle ----------------------------
(***************************************************************************)
(* The life of handles and of the descriptors they use: connecting and     *)
(* authenticating with every way to fail, attaching to an accepted socket, *)
(* disconnecting, and the listening loops that hand sockets to callbacks   *)
(* (src/src/esl.c).                                                        *)
(*                                                                         *)
(* Descriptors belong to the process: socket() and accept() take the       *)
(* lowest free number, so a number that is closed once too often may by    *)
(* then belong to somebody else.  owner says for whom a descriptor was     *)
(* opened; the code cannot see it.                                         *)
(*                                                                         *)
(* Each handle is used by one thread; calls on different handles           *)
(* interleave wherever the code waits for the network.  The caller keeps   *)
(* to what the example client and the callbacks' interface ask for: it     *)
(* connects a handle that is new or was disconnected, calls esl_disconnect *)
(* after a call that failed, and does not close a socket it gave away.     *)
(***************************************************************************)
EXTENDS Integers, Sequences

CONSTANTS
  Handle,
  Fd,          \* the descriptors the process can have open
  Free, App, Listener,
  InitialSock, \* sock of a new handle: zeroed memory, or ESL_SOCK_INVALID
  MayReattach, \* bound: whether a disconnected handle may be attached
  MaxCalls     \* bound: calls per handle

INVALID == -1   \* ESL_SOCK_INVALID

ASSUME LifecycleAssumption ==
  /\ Handle \cap {Free, App, Listener} = {}
  /\ Free \notin {App, Listener} /\ App # Listener
  /\ Fd \subseteq Nat
  /\ InitialSock \in {0, INVALID}
  /\ MayReattach \in BOOLEAN /\ MaxCalls \in Nat

VARIABLES
  owner,     \* who opened the descriptor, or Free
  lsock,     \* server_sock of the listening loop
  threaded,  \* the loop is esl_listen_threaded's
  handle,    \* struct esl_handle
  pc,
  client,    \* client_sock of the callback that uses the handle
  call,      \* the last call made on the handle
  result,    \* and what it returned
  calls,     \* how many there were
  inbox,     \* packets from the server that were not read
  session,   \* what the server thinks of the connection
  strays     \* owners of the descriptors that somebody else closed

vars == <<owner, lsock, threaded, handle, pc, client, call, result, calls,
          inbox, session, strays>>
loop == <<lsock, threaded>>
server == <<inbox, session>>

New == [sock |-> InitialSock, connected |-> FALSE, destroyed |-> FALSE,
        mutex |-> FALSE, packet_buf |-> FALSE]

(* What memset and destroyed = 1 leave behind.                             *)
Cleared == [sock |-> 0, connected |-> FALSE, destroyed |-> TRUE,
            mutex |-> FALSE, packet_buf |-> FALSE]

Init == /\ owner = [f \in Fd |-> IF f = 0 THEN App ELSE Free]
        /\ lsock = INVALID /\ threaded = FALSE
        /\ handle = [h \in Handle |-> New]
        /\ pc = [h \in Handle |-> "idle"]
        /\ client = [h \in Handle |-> INVALID]
        /\ call = [h \in Handle |-> "none"]
        /\ result = [h \in Handle |-> "none"]
        /\ calls = [h \in Handle |-> 0]
        /\ inbox = [h \in Handle |-> <<>>]
        /\ session = [h \in Handle |-> "none"]
        /\ strays = {}

-----------------------------------------------------------------------------
(* The descriptor table.                                                   *)
LowestFree(f) == /\ f \in Fd /\ owner[f] = Free
                 /\ \A g \in Fd : g < f => owner[g] # Free

Open(f, who) == owner' = [owner EXCEPT ![f] = who]

(* close(f) by one who believes to own it; INVALID is not closed.          *)
Close(f, who) ==
  IF f \in Fd
  THEN /\ owner' = [owner EXCEPT ![f] = Free]
       /\ strays' = IF owner[f] = who THEN strays ELSE strays \cup {owner[f]}
  ELSE UNCHANGED <<owner, strays>>

AppOpens == /\ \E f \in Fd : LowestFree(f) /\ Open(f, App)
            /\ UNCHANGED <<loop, handle, pc, client, call, result, calls, server, strays>>

AppCloses == /\ \E f \in Fd : owner[f] = App /\ Close(f, App)
             /\ UNCHANGED <<loop, handle, pc, client, call, result, calls, server>>

-----------------------------------------------------------------------------
Goto(h, label) == pc' = [pc EXCEPT ![h] = label]

Return(h, status) ==
  /\ Goto(h, "idle")
  /\ result' = [result EXCEPT ![h] = status]

Calling(h, name) ==
  /\ pc[h] = "idle" /\ calls[h] < MaxCalls
  /\ calls' = [calls EXCEPT ![h] = @ + 1]
  /\ call' = [call EXCEPT ![h] = name]

(* A closed connection takes with it what was not read.                    *)
Hangup(h) == /\ inbox' = [inbox EXCEPT ![h] = <<>>]
             /\ session' = [session EXCEPT ![h] = "none"]

(* Bug: the destroyed flag is not looked at.                               *)
DisconnectedAgain(h, s) ==
  /\ Close(s.sock, h) /\ Hangup(h)
  /\ handle' = [handle EXCEPT ![h] = Cleared]

(* Bug: connected survives.                                                *)
DisconnectedStill(h, s) ==
  IF s.destroyed
  THEN /\ handle' = [handle EXCEPT ![h] = s]
       /\ UNCHANGED <<owner, strays, server>>
  ELSE /\ Close(s.sock, h) /\ Hangup(h)
       /\ handle' = [handle EXCEPT ![h] = [Cleared EXCEPT !.connected = s.connected]]

(* What esl_disconnect does to a handle that is in state s: nothing, when  *)
(* it was destroyed before; zero in sock counts as a socket.               *)
Disconnected(h, s) ==
  IF s.destroyed
  THEN /\ handle' = [handle EXCEPT ![h] = s]
       /\ UNCHANGED <<owner, strays, server>>
  ELSE /\ Close(s.sock, h) /\ Hangup(h)
       /\ handle' = [handle EXCEPT ![h] = Cleared]

Disconnect(h) ==
  /\ call[h] # "none"
  /\ Calling(h, "disconnect")
  /\ Disconnected(h, handle[h])
  /\ Return(h, IF handle[h].destroyed \/ handle[h].sock = INVALID
               THEN "FAIL" ELSE "SUCCESS")
  /\ UNCHANGED <<loop, client>>

-----------------------------------------------------------------------------
(* esl_connect_timeout up to its socket.                                   *)
Ready(h) == [handle[h] EXCEPT !.mutex = TRUE, !.packet_buf = TRUE]

ConnectBegins(h) ==
  /\ \/ call[h] = "none" /\ client[h] = INVALID
     \/ handle[h].destroyed
  /\ Calling(h, "connect")
  /\ UNCHANGED <<loop, client>>

(* No memory for the mutex: the only failure that does not disconnect.     *)
ConnectNoMutex(h) ==
  /\ ConnectBegins(h) /\ ~handle[h].mutex
  /\ Return(h, "FAIL")
  /\ UNCHANGED <<owner, handle, server, strays>>

(* No memory for the packet buffer, a host that does not resolve, an       *)
(* address family that is not supported: there is no socket yet.           *)
ConnectNoAddress(h) ==
  /\ ConnectBegins(h)
  /\ \E b \in {handle[h].packet_buf, TRUE} :
       Disconnected(h, [Ready(h) EXCEPT !.packet_buf = b])
  /\ Return(h, "FAIL")

(* socket() fails.                                                         *)
ConnectNoSocket(h) ==
  /\ ConnectBegins(h)
  /\ Disconnected(h, [Ready(h) EXCEPT !.sock = INVALID])
  /\ Return(h, "FAIL")

(* Bug: destroyed is not reset by a new connection.                        *)
ConnectSocketStale(h) ==
  /\ ConnectBegins(h)
  /\ \E f \in Fd : /\ LowestFree(f) /\ Open(f, h)
                   /\ handle' = [handle EXCEPT ![h] = [Ready(h) EXCEPT !.sock = f]]
  /\ Goto(h, "connecting")
  /\ Hangup(h)
  /\ UNCHANGED <<result, strays>>

(* From here on a failure finds the socket in the handle.                  *)
ConnectSocket(h) ==
  /\ ConnectBegins(h)
  /\ \E f \in Fd :
       /\ LowestFree(f) /\ Open(f, h)
       /\ handle' = [handle EXCEPT ![h] = [Ready(h) EXCEPT !.sock = f,
                                                           !.destroyed = FALSE]]
  /\ Goto(h, "connecting")
  /\ Hangup(h)
  /\ UNCHANGED <<result, strays>>

(* connect(), the poll with the time limit and sock_setup succeeded.       *)
ConnectEstablished(h) ==
  /\ pc[h] = "connecting"
  /\ handle' = [handle EXCEPT ![h].connected = TRUE]
  /\ session' = [session EXCEPT ![h] = "open"]
  /\ Goto(h, "greeting")
  /\ UNCHANGED <<owner, loop, client, call, result, calls, inbox, strays>>

(* Reading a packet of the dialogue.                                       *)
Hears(h) == inbox[h] # <<>> /\ inbox' = [inbox EXCEPT ![h] = Tail(@)]

(* The greeting must ask for authentication; then the password is sent.    *)
ConnectGreeted(h) ==
  /\ pc[h] = "greeting" /\ Hears(h)
  /\ Head(inbox[h]) = "auth/request"
  /\ session' = [session EXCEPT ![h] = IF @ = "greeted" THEN "asked" ELSE @]
  /\ Goto(h, "authenticating")
  /\ UNCHANGED <<owner, loop, handle, client, call, result, calls, strays>>

(* Bug: any answer to the password will do.                                *)
ConnectAcceptedAny(h) ==
  /\ pc[h] = "authenticating" /\ Hears(h)
  /\ Return(h, "SUCCESS")
  /\ UNCHANGED <<owner, loop, handle, client, call, calls, session, strays>>

ConnectAccepted(h) ==
  /\ pc[h] = "authenticating" /\ Hears(h)
  /\ Head(inbox[h]) = "+OK accepted"
  /\ Return(h, "SUCCESS")
  /\ UNCHANGED <<owner, loop, handle, client, call, calls, session, strays>>

(* The time is over, the connection fails or the server says something     *)
(* else.                                                                   *)
ConnectFails(h) ==
  /\ pc[h] \in {"connecting", "greeting", "authenticating"}
  /\ Disconnected(h, handle[h])
  /\ Return(h, "FAIL")
  /\ UNCHANGED <<loop, client, call, calls>>

-----------------------------------------------------------------------------
(* The server speaks: it greets, or turns the client away; it judges the   *)
(* password; it answers the "connect" of an attached handle.               *)
ServerSays(h, packet, state) ==
  /\ inbox' = [inbox EXCEPT ![h] = Append(@, packet)]
  /\ session' = [session EXCEPT ![h] = state]
  /\ UNCHANGED <<owner, loop, handle, pc, client, call, result, calls, strays>>

Server(h) ==
  \/ session[h] = "open" /\ ServerSays(h, "auth/request", "greeted")
  \/ session[h] = "asked" /\ ServerSays(h, "+OK accepted", "accepted")
  \/ session[h] = "asked" /\ ServerSays(h, "-ERR invalid", "refused")
  \/ session[h] \in {"open", "greeted", "asked"} /\ ServerSays(h, "other", "refused")
  \/ session[h] = "attached" /\ ServerSays(h, "reply", "accepted")

-----------------------------------------------------------------------------
(* esl_listen and esl_listen_threaded: the loop owns the listening socket  *)
(* until it ends.  A loop that fails before it accepts changes nothing.    *)
Listen(th) ==
  /\ lsock = INVALID
  /\ \E f \in Fd : LowestFree(f) /\ Open(f, Listener) /\ lsock' = f
  /\ threaded' = th
  /\ UNCHANGED <<handle, pc, client, call, result, calls, server, strays>>

(* A callback of esl_listen runs in the loop, which waits for it; those of *)
(* esl_listen_threaded have threads of their own.                          *)
Accepting == /\ lsock # INVALID
             /\ threaded \/ \A g \in Handle : client[g] = INVALID

(* accept() fails, or a threaded loop has no memory or thread for the      *)
(* callback and closes the new socket again.                               *)
ListenEnds ==
  /\ Accepting
  /\ Close(lsock, Listener)
  /\ lsock' = INVALID
  /\ UNCHANGED <<threaded, handle, pc, client, call, result, calls, server>>

(* The callback gets the socket and has a new handle for it.  A socket     *)
(* that prepare_sock rejects is closed again, which changes nothing.       *)
Accept(h) ==
  /\ Accepting
  /\ pc[h] = "idle" /\ call[h] = "none" /\ client[h] = INVALID
  /\ \E f \in Fd : /\ LowestFree(f) /\ Open(f, h)
                   /\ client' = [client EXCEPT ![h] = f]
  /\ UNCHANGED <<loop, handle, pc, call, result, calls, server, strays>>

(* The callback does not want the connection.                              *)
Decline(h) ==
  /\ call[h] = "none" /\ client[h] # INVALID
  /\ Close(client[h], h)
  /\ client' = [client EXCEPT ![h] = INVALID]
  /\ UNCHANGED <<loop, handle, pc, call, result, calls, server>>

(* A callback that is done returns and its handle goes out of scope.       *)
CallbackReturns(h) ==
  /\ pc[h] = "idle" /\ client[h] # INVALID /\ call[h] = "disconnect"
  /\ client' = [client EXCEPT ![h] = INVALID]
  /\ call' = [call EXCEPT ![h] = "none"]
  /\ result' = [result EXCEPT ![h] = "none"]
  /\ handle' = [handle EXCEPT ![h] = New]
  /\ UNCHANGED <<owner, loop, pc, calls, server, strays>>

-----------------------------------------------------------------------------
(* esl_attach_handle stores the socket first.  When its options cannot be  *)
(* set or memory is short, the call fails and leaves it there.             *)
Attach(h, f) ==
  /\ Calling(h, "attach")
  /\ \/ /\ handle' = [handle EXCEPT ![h].sock = f]
        /\ Return(h, "FAIL")
        /\ UNCHANGED session
     \/ /\ handle' = [handle EXCEPT ![h] = [Ready(h) EXCEPT !.sock = f,
                                                            !.connected = TRUE]]
        /\ Goto(h, "attaching")
        /\ session' = [session EXCEPT ![h] = "attached"]
        /\ UNCHANGED result
  /\ inbox' = [inbox EXCEPT ![h] = <<>>]
  /\ UNCHANGED <<loop, client, strays>>

(* A callback attaches the socket that it was given.                       *)
AttachClient(h) ==
  /\ call[h] = "none" /\ client[h] # INVALID
  /\ Attach(h, client[h])
  /\ UNCHANGED owner

(* The application gives away a socket of its own.                         *)
AttachOwn(h) ==
  /\ \/ call[h] = "none" /\ client[h] = INVALID
     \/ MayReattach /\ handle[h].destroyed
  /\ \E f \in Fd : owner[f] = App /\ Open(f, h) /\ Attach(h, f)

(* Whatever answers "connect" will do.                                     *)
AttachAnswered(h) ==
  /\ pc[h] = "attaching" /\ Hears(h)
  /\ Return(h, "SUCCESS")
  /\ UNCHANGED <<owner, loop, handle, client, call, calls, session, strays>>

(* The connection is lost before an answer: esl_send_recv has cleared      *)
(* connected.                                                              *)
AttachFails(h) ==
  /\ pc[h] = "attaching"
  /\ Disconnected(h, [handle[h] EXCEPT !.connected = FALSE])
  /\ Return(h, "FAIL")
  /\ UNCHANGED <<loop, client, call, calls>>

-----------------------------------------------------------------------------
Next ==
  \/ AppOpens \/ AppCloses \/ ListenEnds
  \/ \E th \in BOOLEAN : Listen(th)
  \/ \E h \in Handle :
       \/ ConnectNoMutex(h) \/ ConnectNoAddress(h) \/ ConnectNoSocket(h)
       \/ ConnectSocket(h) \/ ConnectEstablished(h) \/ ConnectGreeted(h)
       \/ ConnectAccepted(h) \/ ConnectFails(h)
       \/ Disconnect(h) \/ Server(h)
       \/ Accept(h) \/ Decline(h) \/ CallbackReturns(h)
       \/ AttachClient(h) \/ AttachOwn(h) \/ AttachAnswered(h) \/ AttachFails(h)

Spec == Init /\ [][Next]_vars

-----------------------------------------------------------------------------
Labels == {"idle", "connecting", "greeting", "authenticating", "attaching"}
Statuses == {"none", "SUCCESS", "FAIL"}
Calls == {"none", "connect", "attach", "disconnect"}
Packets == {"auth/request", "+OK accepted", "-ERR invalid", "other", "reply"}
Sessions == {"none", "open", "greeted", "asked", "accepted", "refused", "attached"}
Owner == Handle \cup {Free, App, Listener}
Socket == Fd \cup {INVALID, 0}

Struct == [sock : Socket, connected : BOOLEAN, destroyed : BOOLEAN,
           mutex : BOOLEAN, packet_buf : BOOLEAN]

(* Every variable keeps the type of what it stands for.                    *)
TypeOK == /\ owner \in [Fd -> Owner] /\ strays \subseteq Owner
          /\ lsock \in Socket /\ threaded \in BOOLEAN
          /\ handle \in [Handle -> Struct]
          /\ pc \in [Handle -> Labels]
          /\ client \in [Handle -> Socket]
          /\ call \in [Handle -> Calls] /\ result \in [Handle -> Statuses]
          /\ calls \in [Handle -> 0 .. MaxCalls]
          /\ inbox \in [Handle -> Seq(Packets)]
          /\ session \in [Handle -> Sessions]

(* Neither a call on a handle nor a listening loop ever closes a           *)
(* descriptor that somebody else has opened, or one that is closed: not on *)
(* any error path of connect and attach, not by disconnecting twice, not   *)
(* after the number was taken by another handle (esl_disconnect).          *)
ClosesOwnOnly == strays = {}

(* No descriptor is lost: whatever was opened for a handle or given to it  *)
(* is in its sock between calls, and esl_disconnect will close it, because *)
(* the handle is not marked destroyed.                                     *)
NoOrphans ==
  \A h \in Handle, f \in Fd :
    owner[f] = h /\ pc[h] = "idle" =>
      \/ f = handle[h].sock /\ ~handle[h].destroyed
      \/ f = client[h] /\ call[h] = "none"

(* A handle that says it is connected has a socket, and it is its own: two *)
(* handles never talk over one descriptor.                                 *)
ConnectedOwnsSocket ==
  \A h \in Handle : handle[h].connected =>
    handle[h].sock \in Fd /\ owner[handle[h].sock] = h

(* esl_connect_timeout reports success only on a connection whose server   *)
(* has accepted the password.                                              *)
Authenticated ==
  \A h \in Handle :
    call[h] = "connect" /\ pc[h] = "idle" /\ result[h] = "SUCCESS" =>
      session[h] = "accepted"
=============================================================================
