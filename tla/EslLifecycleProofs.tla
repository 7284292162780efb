------------------------- MODULE EslLifecycleProofs -------------------------
(***************************************************************************)
(* For any number of handles and descriptors: no call closes what is not   *)
(* its own, provided handles start with ESL_SOCK_INVALID; no descriptor is *)
(* lost, provided no disconnected handle is attached; connecting succeeds  *)
(* only when the server has accepted the password.                         *)
(***************************************************************************)
EXTENDS EslLifecycle, SequenceTheorems, TLAPS

OwnerOK == owner \in [Fd -> Owner]
HandleOK == handle \in [Handle -> Struct]
ClientOK == client \in [Handle -> Socket]

(* Why ClosesOwnOnly is preserved: whatever a call or the loop is going to *)
(* close was opened for it.  A handle that is destroyed closes nothing.    *)
OwnsItsSockets(h) ==
  /\ ~handle[h].destroyed /\ handle[h].sock # INVALID =>
       handle[h].sock \in Fd /\ owner[handle[h].sock] = h
  /\ call[h] = "none" /\ client[h] # INVALID =>
       client[h] \in Fd /\ owner[client[h]] = h
  /\ call[h] = "none" => handle[h] = New /\ pc[h] = "idle"

Owning ==
  /\ DOMAIN pc = Handle /\ DOMAIN call = Handle
  /\ OwnerOK /\ HandleOK /\ ClientOK /\ lsock \in Socket
  /\ strays = {}
  /\ lsock # INVALID => lsock \in Fd /\ owner[lsock] = Listener
  /\ \A h \in Handle : OwnsItsSockets(h)

-----------------------------------------------------------------------------
(* Closing one's own descriptor, or none, strays on nobody.                *)
LEMMA CloseOwn ==
  ASSUME OwnerOK, strays = {}, NEW f, NEW who, f \in Fd => owner[f] = who,
         Close(f, who)
  PROVE  /\ owner' \in [Fd -> Owner] /\ strays' = {}
         /\ \A g \in Fd : owner'[g] = IF g = f THEN Free ELSE owner[g]
<1>1. Free \in Owner
  BY DEF Owner
<1>2. CASE f \in Fd
  BY <1>1, <1>2 DEF Close, OwnerOK
<1>3. CASE f \notin Fd
  BY <1>3 DEF Close, OwnerOK
<1> QED BY <1>2, <1>3

(* Opening takes a descriptor from nobody but Free or the one who gives    *)
(* it.                                                                     *)
LEMMA OpenFree ==
  ASSUME OwnerOK, NEW f \in Fd, NEW who \in Owner, Open(f, who)
  PROVE  /\ owner' \in [Fd -> Owner]
         /\ \A g \in Fd : owner'[g] = IF g = f THEN who ELSE owner[g]
BY DEF Open, OwnerOK

(* A new and a cleared handle are handles.                                 *)
LEMMA StructFacts ==
  /\ New \in Struct /\ Cleared \in Struct
  /\ New.sock = InitialSock /\ ~New.destroyed /\ ~New.connected
  /\ Cleared.destroyed /\ ~Cleared.connected
BY LifecycleAssumption DEF New, Cleared, Struct, Socket, INVALID

(* esl_disconnect, on a handle whose socket is its own.                    *)
LEMMA DisconnectOwn ==
  ASSUME OwnerOK, HandleOK, strays = {}, NEW h \in Handle, NEW s \in Struct,
         ~s.destroyed /\ s.sock # INVALID => s.sock \in Fd /\ owner[s.sock] = h,
         Disconnected(h, s)
  PROVE  /\ owner' \in [Fd -> Owner] /\ strays' = {}
         /\ handle' \in [Handle -> Struct]
         /\ handle'[h] = (IF s.destroyed THEN s ELSE Cleared)
         /\ \A k \in Handle : k # h => handle'[k] = handle[k]
         /\ \A g \in Fd : owner'[g] = IF g = s.sock /\ ~s.destroyed THEN Free
                                      ELSE owner[g]
<1>1. CASE s.destroyed
  BY <1>1 DEF Disconnected, OwnerOK, HandleOK
<1>2. CASE ~s.destroyed
  <2>1. /\ Close(s.sock, h)
        /\ handle' = [handle EXCEPT ![h] = Cleared]
    BY <1>2 DEF Disconnected
  <2>2. s.sock \in Fd => owner[s.sock] = h
    BY <1>2, LifecycleAssumption DEF INVALID
  <2>3. /\ owner' \in [Fd -> Owner] /\ strays' = {}
        /\ \A g \in Fd : owner'[g] = IF g = s.sock THEN Free ELSE owner[g]
    BY <2>1, <2>2, CloseOwn
  <2> QED BY <1>2, <2>1, <2>3, StructFacts DEF HandleOK
<1> QED BY <1>1, <1>2

-----------------------------------------------------------------------------
(* A handle that an action leaves alone, and whose descriptors it leaves   *)
(* alone, still owns them.                                                 *)
LEMMA OthersKeep ==
  ASSUME NEW k \in Handle, OwnsItsSockets(k),
         handle'[k] = handle[k], client'[k] = client[k],
         call'[k] = call[k], pc'[k] = pc[k],
         \A g \in Fd : owner[g] = k => owner'[g] = k
  PROVE  OwnsItsSockets(k)'
BY DEF OwnsItsSockets

(* What every action on a handle has to show.                              *)
LEMMA OwningStep ==
  ASSUME Owning, NEW h \in Handle,
         DOMAIN pc' = Handle, DOMAIN call' = Handle,
         owner' \in [Fd -> Owner], handle' \in [Handle -> Struct],
         client' \in [Handle -> Socket], lsock' = lsock, strays' = {},
         \A k \in Handle : k # h =>
           /\ handle'[k] = handle[k] /\ client'[k] = client[k]
           /\ call'[k] = call[k] /\ pc'[k] = pc[k],
         \A g \in Fd : owner[g] \notin {h, Free, App} => owner'[g] = owner[g],
         OwnsItsSockets(h)'
  PROVE  Owning'
<1>1. \A k \in Handle : OwnsItsSockets(k)'
  <2> SUFFICES ASSUME NEW k \in Handle, k # h
               PROVE  OwnsItsSockets(k)'
    OBVIOUS
  <2>1. k \notin {h, Free, App}
    BY LifecycleAssumption
  <2>2. \A g \in Fd : owner[g] = k => owner'[g] = k
    BY <2>1
  <2> QED BY <2>2, OthersKeep DEF Owning
<1>2. h # Listener /\ Listener \notin {Free, App}
  BY LifecycleAssumption
<1>3. lsock' # INVALID => lsock' \in Fd /\ owner'[lsock'] = Listener
  BY <1>2 DEF Owning
<1>4. OwnerOK' /\ HandleOK' /\ ClientOK' /\ lsock' \in Socket
  BY DEF Owning, OwnerOK, HandleOK, ClientOK
<1> QED BY <1>1, <1>3, <1>4 DEF Owning

(* A call that ends by disconnecting a state s of its handle.              *)
LEMMA OwningDisconnected ==
  ASSUME Owning, NEW h \in Handle, NEW s \in Struct,
         ~s.destroyed /\ s.sock # INVALID => s.sock \in Fd /\ owner[s.sock] = h,
         Disconnected(h, s), client' = client, lsock' = lsock,
         \/ call' = call /\ call[h] # "none"
         \/ \E c \in Calls : c # "none" /\ call' = [call EXCEPT ![h] = c],
         \E l \in Labels : pc' = [pc EXCEPT ![h] = l]
  PROVE  Owning'
<1>1. /\ owner' \in [Fd -> Owner] /\ strays' = {}
      /\ handle' \in [Handle -> Struct]
      /\ handle'[h] = (IF s.destroyed THEN s ELSE Cleared)
      /\ \A k \in Handle : k # h => handle'[k] = handle[k]
      /\ \A g \in Fd : owner'[g] = IF g = s.sock /\ ~s.destroyed THEN Free
                                   ELSE owner[g]
  BY DisconnectOwn DEF Owning
<1>2. /\ DOMAIN pc' = Handle /\ DOMAIN call' = Handle /\ call'[h] # "none"
      /\ \A k \in Handle : k # h => call'[k] = call[k] /\ pc'[k] = pc[k]
  BY DEF Owning
<1>3. OwnsItsSockets(h)'
  BY <1>1, <1>2, StructFacts DEF OwnsItsSockets
<1>4. \A g \in Fd : owner[g] \notin {h, Free, App} => owner'[g] = owner[g]
  <2> SUFFICES ASSUME NEW g \in Fd, owner[g] # h
               PROVE  owner'[g] = owner[g]
    OBVIOUS
  <2>1. ~(g = s.sock /\ ~s.destroyed)
    BY LifecycleAssumption DEF INVALID
  <2> QED BY <1>1, <2>1
<1>5. client' \in [Handle -> Socket]
  BY DEF Owning, ClientOK
<1> QED BY <1>1, <1>2, <1>3, <1>4, <1>5, OwningStep

(* A new handle with ESL_SOCK_INVALID owns nothing and closes nothing.     *)
LEMMA OwningInit == ASSUME InitialSock = INVALID, Init PROVE Owning
<1>1. OwnerOK
  BY DEF Init, OwnerOK, Owner
<1>2. \A h \in Handle : handle[h] = New /\ New.sock = INVALID
  BY StructFacts DEF Init
<1>3. HandleOK /\ ClientOK /\ lsock = INVALID /\ lsock \in Socket
  BY StructFacts DEF Init, HandleOK, ClientOK, Socket
<1>4. \A h \in Handle : OwnsItsSockets(h)
  BY <1>2 DEF Init, OwnsItsSockets
<1>5. DOMAIN pc = Handle /\ DOMAIN call = Handle /\ strays = {}
  BY DEF Init
<1> QED BY <1>1, <1>3, <1>4, <1>5 DEF Owning

(* The calls that connect and disconnect.                                  *)
LEMMA OwningConnect ==
  ASSUME InitialSock = INVALID, Owning, NEW h \in Handle,
         \/ Disconnect(h)
         \/ ConnectNoMutex(h) \/ ConnectNoAddress(h) \/ ConnectNoSocket(h)
         \/ ConnectSocket(h) \/ ConnectEstablished(h) \/ ConnectGreeted(h)
         \/ ConnectAccepted(h) \/ ConnectFails(h)
  PROVE  Owning'
<1>1. /\ handle[h] \in Struct /\ Ready(h) \in Struct
      /\ Ready(h).sock = handle[h].sock
      /\ Ready(h).destroyed = handle[h].destroyed
      /\ Ready(h).connected = handle[h].connected
  BY DEF Owning, HandleOK, Ready, Struct
<1>2. OwnsItsSockets(h) /\ DOMAIN pc = Handle /\ DOMAIN call = Handle
  BY DEF Owning
<1>3. ~handle[h].destroyed /\ handle[h].sock # INVALID =>
        handle[h].sock \in Fd /\ owner[handle[h].sock] = h
  BY <1>2 DEF OwnsItsSockets
<1>4. "idle" \in Labels /\ {"connect", "attach", "disconnect"} \subseteq Calls
  BY DEF Labels, Calls
<1>5. call[h] = "none" => handle[h] = New /\ pc[h] = "idle"
  BY <1>2 DEF OwnsItsSockets
<1>6. CASE Disconnect(h)
  BY <1>1, <1>3, <1>4, <1>6, OwningDisconnected
  DEF Disconnect, Calling, Return, Goto, loop
<1>7. CASE ConnectNoMutex(h)
  <2>1. OwnsItsSockets(h)'
    BY <1>2, <1>7 DEF ConnectNoMutex, ConnectBegins, Calling, OwnsItsSockets
  <2> QED BY <1>2, <1>7, <2>1, OwningStep
          DEF ConnectNoMutex, ConnectBegins, Calling, Return, Goto, loop,
              Owning, OwnerOK, HandleOK, ClientOK
<1>8. CASE ConnectNoAddress(h)
  <2>1. PICK b \in {handle[h].packet_buf, TRUE} :
          Disconnected(h, [Ready(h) EXCEPT !.packet_buf = b])
    BY <1>8 DEF ConnectNoAddress
  <2> DEFINE s == [Ready(h) EXCEPT !.packet_buf = b]
  <2>2. s \in Struct /\ s.sock = handle[h].sock /\ s.destroyed = handle[h].destroyed
    BY <1>1 DEF Struct
  <2> HIDE DEF s
  <2>3. Disconnected(h, s)
    BY <2>1 DEF s
  <2> QED BY <1>3, <1>4, <1>8, <2>2, <2>3, OwningDisconnected
          DEF ConnectNoAddress, ConnectBegins, Calling, Return, Goto, loop
<1>9. CASE ConnectNoSocket(h)
  <2> DEFINE s == [Ready(h) EXCEPT !.sock = INVALID]
  <2>1. s \in Struct /\ s.sock = INVALID
    BY <1>1 DEF Struct, Socket
  <2>2. Disconnected(h, s)
    BY <1>9 DEF ConnectNoSocket
  <2> HIDE DEF s
  <2> QED BY <1>4, <1>9, <2>1, <2>2, OwningDisconnected
          DEF ConnectNoSocket, ConnectBegins, Calling, Return, Goto, loop
<1>10. CASE ConnectSocket(h)
  <2>1. PICK f \in Fd :
          /\ LowestFree(f) /\ Open(f, h)
          /\ handle' = [handle EXCEPT ![h] = [Ready(h) EXCEPT !.sock = f,
                                                             !.destroyed = FALSE]]
    BY <1>10 DEF ConnectSocket
  <2> DEFINE s == [Ready(h) EXCEPT !.sock = f, !.destroyed = FALSE]
  <2>2. s \in Struct /\ s.sock = f
    BY <1>1 DEF Struct, Socket
  <2>3. handle' = [handle EXCEPT ![h] = s]
    BY <2>1
  <2> HIDE DEF s
  <2>4. /\ owner[f] = Free /\ owner' \in [Fd -> Owner]
        /\ \A g \in Fd : owner'[g] = IF g = f THEN h ELSE owner[g]
    BY <2>1, OpenFree DEF Owning, LowestFree, Owner
  <2>5. call' = [call EXCEPT ![h] = "connect"]
    BY <1>10 DEF ConnectSocket, ConnectBegins, Calling
  <2>6. OwnsItsSockets(h)'
    BY <1>2, <2>2, <2>3, <2>4, <2>5 DEF OwnsItsSockets, Owning, HandleOK
  <2> QED BY <1>2, <1>10, <2>2, <2>3, <2>4, <2>5, <2>6, OwningStep
          DEF ConnectSocket, ConnectBegins, Goto, loop, Owning, HandleOK, ClientOK
<1>11. CASE ConnectEstablished(h)
  <2> DEFINE s == [handle[h] EXCEPT !.connected = TRUE]
  <2>1. s \in Struct /\ s.sock = handle[h].sock /\ s.destroyed = handle[h].destroyed
    BY <1>1 DEF Struct
  <2>2. handle' = [handle EXCEPT ![h] = s]
    BY <1>11 DEF ConnectEstablished
  <2> HIDE DEF s
  <2>3. call[h] # "none"
    BY <1>5, <1>11 DEF ConnectEstablished
  <2>4. OwnsItsSockets(h)'
    BY <1>2, <1>11, <2>1, <2>2, <2>3
    DEF ConnectEstablished, OwnsItsSockets, Owning, HandleOK
  <2> QED BY <1>2, <1>11, <2>1, <2>2, <2>4, OwningStep
          DEF ConnectEstablished, Goto, loop, Owning, OwnerOK, HandleOK, ClientOK
<1>12. CASE ConnectGreeted(h) \/ ConnectAccepted(h)
  <2>1. OwnsItsSockets(h)'
    BY <1>2, <1>5, <1>12 DEF ConnectGreeted, ConnectAccepted, OwnsItsSockets
  <2> QED BY <1>2, <1>12, <2>1, OwningStep
          DEF ConnectGreeted, ConnectAccepted, Return, Goto, loop,
              Owning, OwnerOK, HandleOK, ClientOK
<1>13. CASE ConnectFails(h)
  <2>1. call[h] # "none"
    BY <1>5, <1>13 DEF ConnectFails
  <2> QED BY <1>1, <1>3, <1>4, <1>13, <2>1, OwningDisconnected
          DEF ConnectFails, Return, Goto, loop
<1> QED BY <1>6, <1>7, <1>8, <1>9, <1>10, <1>11, <1>12, <1>13

(* What callbacks do with the socket they get, and attaching.              *)
LEMMA OwningAttach ==
  ASSUME InitialSock = INVALID, Owning, NEW h \in Handle,
         \/ Accept(h) \/ Decline(h) \/ CallbackReturns(h)
         \/ AttachClient(h) \/ AttachOwn(h) \/ AttachAnswered(h) \/ AttachFails(h)
  PROVE  Owning'
<1>1. /\ handle[h] \in Struct /\ Ready(h) \in Struct
      /\ Ready(h).destroyed = handle[h].destroyed
  BY DEF Owning, HandleOK, Ready, Struct
<1>2. OwnsItsSockets(h) /\ DOMAIN pc = Handle /\ DOMAIN call = Handle
  BY DEF Owning
<1>3. call[h] = "none" => handle[h] = New /\ pc[h] = "idle"
  BY <1>2 DEF OwnsItsSockets
<1>4. "idle" \in Labels /\ h \in Owner /\ h \notin {Free, App, Listener}
  BY LifecycleAssumption DEF Labels, Owner
<1>5. CASE Accept(h)
  <2>1. PICK f \in Fd : /\ LowestFree(f) /\ Open(f, h)
                        /\ client' = [client EXCEPT ![h] = f]
    BY <1>5 DEF Accept
  <2>2. /\ owner[f] = Free /\ owner' \in [Fd -> Owner]
        /\ \A g \in Fd : owner'[g] = IF g = f THEN h ELSE owner[g]
    BY <1>4, <2>1, OpenFree DEF Owning, LowestFree
  <2>3. handle[h].sock = INVALID
    BY <1>3, <1>5, StructFacts DEF Accept
  <2>4. OwnsItsSockets(h)'
    BY <1>3, <1>5, <2>1, <2>2, <2>3 DEF Accept, OwnsItsSockets, Owning, ClientOK
  <2> QED BY <1>2, <1>5, <2>1, <2>2, <2>4, OwningStep
          DEF Accept, loop, Owning, HandleOK, ClientOK, Socket
<1>6. CASE Decline(h)
  <2>1. client[h] \in Fd /\ owner[client[h]] = h
    BY <1>2, <1>6 DEF Decline, OwnsItsSockets
  <2>2. /\ owner' \in [Fd -> Owner] /\ strays' = {}
        /\ \A g \in Fd : owner'[g] = IF g = client[h] THEN Free ELSE owner[g]
    BY <1>6, <2>1, CloseOwn DEF Decline, Owning
  <2>3. handle[h].sock = INVALID
    BY <1>3, <1>6, StructFacts DEF Decline
  <2>4. client' \in [Handle -> Socket] /\ client'[h] = INVALID
    BY <1>6 DEF Decline, Owning, ClientOK, Socket
  <2>5. OwnsItsSockets(h)'
    BY <1>3, <1>6, <2>3, <2>4 DEF Decline, OwnsItsSockets
  <2>6. \A g \in Fd : owner[g] \notin {h, Free, App} => owner'[g] = owner[g]
    BY <2>1, <2>2
  <2> QED BY <1>2, <1>6, <2>2, <2>4, <2>5, <2>6, OwningStep
          DEF Decline, loop, Owning, HandleOK
<1>7. CASE CallbackReturns(h)
  <2>1. /\ client' \in [Handle -> Socket] /\ client'[h] = INVALID
        /\ handle' \in [Handle -> Struct] /\ handle'[h] = New
    BY <1>7, StructFacts DEF CallbackReturns, Owning, ClientOK, HandleOK, Socket
  <2>2. OwnsItsSockets(h)'
    BY <1>2, <1>7, <2>1, StructFacts DEF CallbackReturns, OwnsItsSockets
  <2> QED BY <1>2, <1>7, <2>1, <2>2, OwningStep
          DEF CallbackReturns, loop, Owning, OwnerOK
<1>8. ASSUME NEW f \in Fd, Attach(h, f), owner' \in [Fd -> Owner], owner'[f] = h,
             \A g \in Fd : owner[g] \notin {h, Free, App} => owner'[g] = owner[g]
      PROVE  Owning'
  <2>1. /\ handle' \in [Handle -> Struct] /\ handle'[h].sock = f
        /\ \A k \in Handle : k # h => handle'[k] = handle[k]
    <3> DEFINE s1 == [handle[h] EXCEPT !.sock = f]
               s2 == [Ready(h) EXCEPT !.sock = f, !.connected = TRUE]
    <3>1. s1 \in Struct /\ s1.sock = f /\ s2 \in Struct /\ s2.sock = f
      BY <1>1 DEF Struct, Socket
    <3>2. \/ handle' = [handle EXCEPT ![h] = s1]
          \/ handle' = [handle EXCEPT ![h] = s2]
      BY <1>8 DEF Attach
    <3> HIDE DEF s1, s2
    <3> QED BY <3>1, <3>2 DEF Owning, HandleOK
  <2>2. call' = [call EXCEPT ![h] = "attach"] /\ client' = client /\ lsock' = lsock
        /\ strays' = {} /\ \E l \in Labels : pc' = [pc EXCEPT ![h] = l]
    BY <1>8 DEF Attach, Calling, loop, Owning, Return, Goto, Labels
  <2>3. OwnsItsSockets(h)'
    BY <1>2, <1>8, <2>1, <2>2 DEF OwnsItsSockets
  <2> QED BY <1>2, <1>8, <2>1, <2>2, <2>3, OwningStep DEF Owning, ClientOK
<1>9. CASE AttachClient(h)
  <2>1. client[h] \in Fd /\ owner[client[h]] = h
    BY <1>2, <1>9 DEF AttachClient, OwnsItsSockets
  <2> QED BY <1>8, <1>9, <2>1 DEF AttachClient, Owning, OwnerOK
<1>10. CASE AttachOwn(h)
  <2>1. PICK f \in Fd : owner[f] = App /\ Open(f, h) /\ Attach(h, f)
    BY <1>10 DEF AttachOwn
  <2>2. /\ owner' \in [Fd -> Owner]
        /\ \A g \in Fd : owner'[g] = IF g = f THEN h ELSE owner[g]
    BY <1>4, <2>1, OpenFree DEF Owning
  <2> QED BY <1>8, <2>1, <2>2
<1>11. CASE AttachAnswered(h)
  <2>1. OwnsItsSockets(h)'
    BY <1>2, <1>3, <1>11 DEF AttachAnswered, OwnsItsSockets
  <2> QED BY <1>2, <1>11, <2>1, OwningStep
          DEF AttachAnswered, Return, Goto, loop, Owning, OwnerOK, HandleOK, ClientOK
<1>12. CASE AttachFails(h)
  <2> DEFINE s == [handle[h] EXCEPT !.connected = FALSE]
  <2>1. s \in Struct /\ s.sock = handle[h].sock /\ s.destroyed = handle[h].destroyed
    BY <1>1 DEF Struct
  <2>2. Disconnected(h, s)
    BY <1>12 DEF AttachFails
  <2> HIDE DEF s
  <2>3. call[h] # "none"
    BY <1>3, <1>12 DEF AttachFails
  <2>4. ~s.destroyed /\ s.sock # INVALID => s.sock \in Fd /\ owner[s.sock] = h
    BY <1>2, <2>1 DEF OwnsItsSockets
  <2> QED BY <1>4, <1>12, <2>1, <2>2, <2>3, <2>4, OwningDisconnected
          DEF AttachFails, Return, Goto, loop
<1> QED BY <1>5, <1>6, <1>7, <1>9, <1>10, <1>11, <1>12

(* The loop, the application's own descriptors and the server.             *)
LEMMA OwningOthers ==
  ASSUME Owning,
         \/ AppOpens \/ AppCloses \/ ListenEnds
         \/ \E th \in BOOLEAN : Listen(th)
         \/ \E h \in Handle : Server(h)
         \/ UNCHANGED vars
  PROVE  Owning'
<1> DEFINE Rest == /\ handle' = handle /\ client' = client
                   /\ call' = call /\ pc' = pc
<1>1. Rest
  BY DEF AppOpens, AppCloses, ListenEnds, Listen, Server, ServerSays, vars, loop
<1>2. ASSUME owner' \in [Fd -> Owner], strays' = {}, lsock' \in Socket,
             lsock' # INVALID => lsock' \in Fd /\ owner'[lsock'] = Listener,
             \A g \in Fd : owner[g] \in Handle => owner'[g] = owner[g]
      PROVE  Owning'
  <2>1. \A k \in Handle : OwnsItsSockets(k)'
    BY <1>1, <1>2, OthersKeep DEF Owning
  <2> QED BY <1>1, <1>2, <2>1 DEF Owning, OwnerOK, HandleOK, ClientOK
<1>3. /\ Handle \cap {Free, App, Listener} = {} /\ Listener \notin {Free, App}
      /\ {Free, App, Listener} \subseteq Owner
  BY LifecycleAssumption DEF Owner
<1>4. /\ OwnerOK /\ strays = {} /\ lsock \in Socket
      /\ lsock # INVALID => lsock \in Fd /\ owner[lsock] = Listener
  BY DEF Owning
<1>5. CASE AppOpens
  <2>1. PICK f \in Fd : LowestFree(f) /\ Open(f, App)
    BY <1>5 DEF AppOpens
  <2>2. /\ owner[f] = Free /\ owner' \in [Fd -> Owner]
        /\ \A g \in Fd : owner'[g] = IF g = f THEN App ELSE owner[g]
    BY <1>3, <1>4, <2>1, OpenFree DEF LowestFree
  <2> QED BY <1>2, <1>3, <1>4, <1>5, <2>2 DEF AppOpens, loop
<1>6. CASE AppCloses
  <2>1. PICK f \in Fd : owner[f] = App /\ Close(f, App)
    BY <1>6 DEF AppCloses
  <2>2. /\ owner' \in [Fd -> Owner] /\ strays' = {}
        /\ \A g \in Fd : owner'[g] = IF g = f THEN Free ELSE owner[g]
    BY <1>4, <2>1, CloseOwn
  <2>3. \A g \in Fd : owner[g] # App => owner'[g] = owner[g]
    BY <2>1, <2>2
  <2> QED BY <1>2, <1>3, <1>4, <1>6, <2>2, <2>3 DEF AppCloses, loop
<1>7. CASE ListenEnds
  <2>1. lsock \in Fd /\ owner[lsock] = Listener /\ Close(lsock, Listener)
    BY <1>4, <1>7 DEF ListenEnds, Accepting
  <2>2. /\ owner' \in [Fd -> Owner] /\ strays' = {}
        /\ \A g \in Fd : owner'[g] = IF g = lsock THEN Free ELSE owner[g]
    BY <1>4, <2>1, CloseOwn
  <2> QED BY <1>2, <1>3, <1>7, <2>1, <2>2 DEF ListenEnds, Socket
<1>8. CASE \E th \in BOOLEAN : Listen(th)
  <2>1. PICK f \in Fd : LowestFree(f) /\ Open(f, Listener) /\ lsock' = f
    BY <1>8 DEF Listen
  <2>2. /\ owner[f] = Free /\ owner' \in [Fd -> Owner]
        /\ \A g \in Fd : owner'[g] = IF g = f THEN Listener ELSE owner[g]
    BY <1>3, <1>4, <2>1, OpenFree DEF LowestFree
  <2> QED BY <1>2, <1>3, <1>4, <1>8, <2>1, <2>2 DEF Listen, Socket
<1>9. CASE (\E h \in Handle : Server(h)) \/ UNCHANGED vars
  BY <1>2, <1>4, <1>9 DEF Server, ServerSays, loop, vars, OwnerOK
<1> QED BY <1>5, <1>6, <1>7, <1>8, <1>9

(* Handles that start with ESL_SOCK_INVALID never close a descriptor that  *)
(* is not theirs, however many there are and however their calls fail and  *)
(* interleave with each other and with listening loops.                    *)
THEOREM NoStrays ==
  ASSUME InitialSock = INVALID
  PROVE  Spec => []ClosesOwnOnly
<1>1. Init => Owning
  BY OwningInit
<1>2. Owning /\ [Next]_vars => Owning'
  BY OwningConnect, OwningAttach, OwningOthers DEF Next
<1>3. Owning => ClosesOwnOnly
  BY DEF Owning, ClosesOwnOnly
<1> QED BY <1>1, <1>2, <1>3, PTL DEF Spec

-----------------------------------------------------------------------------
(* Why NoOrphans is preserved, given Owning: a destroyed handle owns       *)
(* nothing and is in no call that waits, and every disconnected handle is  *)
(* a destroyed one.                                                        *)
Keeps(h) ==
  /\ handle[h].connected => ~handle[h].destroyed /\ handle[h].sock # INVALID
  /\ pc[h] # "idle" => ~handle[h].destroyed /\ handle[h].sock # INVALID
  /\ call[h] = "disconnect" => handle[h].destroyed
  /\ \A f \in Fd : owner[f] = h =>
       \/ f = handle[h].sock /\ ~handle[h].destroyed
       \/ f = client[h] /\ call[h] = "none"

Keeping == Owning /\ \A h \in Handle : Keeps(h)

(* An action on one handle loses no descriptor of the others.              *)
LEMMA OthersKeeping ==
  ASSUME NEW h \in Handle, \A k \in Handle : Keeps(k),
         \A k \in Handle : k # h =>
           /\ handle'[k] = handle[k] /\ client'[k] = client[k]
           /\ call'[k] = call[k] /\ pc'[k] = pc[k],
         \A g \in Fd : owner'[g] \in Handle \ {h} => owner'[g] = owner[g],
         Keeps(h)'
  PROVE  \A k \in Handle : Keeps(k)'
<1> SUFFICES ASSUME NEW k \in Handle, k # h
             PROVE  Keeps(k)'
  OBVIOUS
<1> QED BY DEF Keeps

(* A call that ends by disconnecting leaves nothing open behind it.        *)
LEMMA KeepingDisconnected ==
  ASSUME Keeping, NEW h \in Handle, NEW s \in Struct,
         ~s.destroyed /\ s.sock # INVALID => s.sock \in Fd /\ owner[s.sock] = h,
         \A f \in Fd : owner[f] = h => f = s.sock /\ ~s.destroyed,
         s.destroyed => ~s.connected,
         Disconnected(h, s), client' = client,
         \/ call' = call /\ call[h] # "none"
         \/ \E c \in Calls : c # "none" /\ call' = [call EXCEPT ![h] = c],
         pc' = [pc EXCEPT ![h] = "idle"]
  PROVE  \A k \in Handle : Keeps(k)'
<1>1. /\ handle'[h] = (IF s.destroyed THEN s ELSE Cleared)
      /\ \A k \in Handle : k # h => handle'[k] = handle[k]
      /\ \A g \in Fd : owner'[g] = IF g = s.sock /\ ~s.destroyed THEN Free
                                   ELSE owner[g]
  BY DisconnectOwn DEF Keeping, Owning
<1>2. /\ pc'[h] = "idle" /\ call'[h] # "none"
      /\ \A k \in Handle : k # h => call'[k] = call[k] /\ pc'[k] = pc[k]
  BY DEF Keeping, Owning
<1>3. Free \notin Handle
  BY LifecycleAssumption
<1>4. \A g \in Fd : owner'[g] # h
  BY <1>1, <1>3
<1>5. Keeps(h)'
  BY <1>1, <1>2, <1>4, StructFacts DEF Keeps
<1>6. \A g \in Fd : owner'[g] \in Handle \ {h} => owner'[g] = owner[g]
  BY <1>1, <1>3
<1> QED BY <1>1, <1>2, <1>5, <1>6, OthersKeeping DEF Keeping

(* Connecting and disconnecting lose no descriptor.                        *)
LEMMA KeepingConnect ==
  ASSUME InitialSock = INVALID, Keeping, NEW h \in Handle,
         \/ Disconnect(h)
         \/ ConnectNoMutex(h) \/ ConnectNoAddress(h) \/ ConnectNoSocket(h)
         \/ ConnectSocket(h) \/ ConnectEstablished(h) \/ ConnectGreeted(h)
         \/ ConnectAccepted(h) \/ ConnectFails(h)
  PROVE  \A k \in Handle : Keeps(k)'
<1>1. /\ handle[h] \in Struct /\ Ready(h) \in Struct
      /\ Ready(h).sock = handle[h].sock
      /\ Ready(h).destroyed = handle[h].destroyed
      /\ Ready(h).connected = handle[h].connected
  BY DEF Keeping, Owning, HandleOK, Ready, Struct
<1>2. /\ OwnsItsSockets(h) /\ Keeps(h) /\ \A k \in Handle : Keeps(k)
      /\ DOMAIN pc = Handle /\ DOMAIN call = Handle /\ DOMAIN handle = Handle
  BY DEF Keeping, Owning, HandleOK
<1>3. ~handle[h].destroyed /\ handle[h].sock # INVALID =>
        handle[h].sock \in Fd /\ owner[handle[h].sock] = h
  BY <1>2 DEF OwnsItsSockets
<1>4. /\ {"connect", "attach", "disconnect"} \subseteq Calls
      /\ \A g \in Fd : owner[g] \in Handle => owner[g] # Free
  BY LifecycleAssumption DEF Calls
<1>5. call[h] = "none" => handle[h] = New /\ pc[h] = "idle"
  BY <1>2 DEF OwnsItsSockets
<1>6. call[h] # "none" => \A f \in Fd : owner[f] = h =>
                            f = handle[h].sock /\ ~handle[h].destroyed
  BY <1>2 DEF Keeps
<1>7. handle[h].destroyed => ~handle[h].connected
  BY <1>2 DEF Keeps
<1>8. ((call[h] = "none" /\ client[h] = INVALID) \/ handle[h].destroyed) =>
        \A f \in Fd : owner[f] # h
  BY <1>2, <1>5, StructFacts, LifecycleAssumption DEF Keeps, INVALID
<1>9. CASE Disconnect(h)
  BY <1>1, <1>3, <1>4, <1>6, <1>7, <1>9, KeepingDisconnected
  DEF Disconnect, Calling, Return, Goto, loop
<1>10. CASE ConnectNoMutex(h)
  <2>1. Keeps(h)'
    BY <1>2, <1>8, <1>10
    DEF ConnectNoMutex, ConnectBegins, Calling, Return, Goto, Keeps
  <2> QED BY <1>2, <1>10, <2>1, OthersKeeping
          DEF ConnectNoMutex, ConnectBegins, Calling, Return, Goto, loop
<1>11. CASE ConnectNoAddress(h)
  <2>1. PICK b \in {handle[h].packet_buf, TRUE} :
          Disconnected(h, [Ready(h) EXCEPT !.packet_buf = b])
    BY <1>11 DEF ConnectNoAddress
  <2> DEFINE s == [Ready(h) EXCEPT !.packet_buf = b]
  <2>2. /\ s \in Struct /\ s.sock = handle[h].sock
        /\ s.destroyed = handle[h].destroyed /\ s.connected = handle[h].connected
    BY <1>1 DEF Struct
  <2> HIDE DEF s
  <2>3. Disconnected(h, s)
    BY <2>1 DEF s
  <2>4. \A f \in Fd : owner[f] # h
    BY <1>8, <1>11 DEF ConnectNoAddress, ConnectBegins
  <2> QED BY <1>3, <1>4, <1>7, <1>11, <2>2, <2>3, <2>4, KeepingDisconnected
          DEF ConnectNoAddress, ConnectBegins, Calling, Return, Goto
<1>12. CASE ConnectNoSocket(h)
  <2> DEFINE s == [Ready(h) EXCEPT !.sock = INVALID]
  <2>1. /\ s \in Struct /\ s.sock = INVALID
        /\ s.destroyed = handle[h].destroyed /\ s.connected = handle[h].connected
    BY <1>1 DEF Struct, Socket
  <2>2. Disconnected(h, s)
    BY <1>12 DEF ConnectNoSocket
  <2> HIDE DEF s
  <2>3. \A f \in Fd : owner[f] # h
    BY <1>8, <1>12 DEF ConnectNoSocket, ConnectBegins
  <2> QED BY <1>4, <1>7, <1>12, <2>1, <2>2, <2>3, KeepingDisconnected
          DEF ConnectNoSocket, ConnectBegins, Calling, Return, Goto
<1>13. CASE ConnectSocket(h)
  <2>1. PICK f \in Fd :
          /\ LowestFree(f) /\ Open(f, h)
          /\ handle' = [handle EXCEPT ![h] = [Ready(h) EXCEPT !.sock = f,
                                                             !.destroyed = FALSE]]
    BY <1>13 DEF ConnectSocket
  <2> DEFINE s == [Ready(h) EXCEPT !.sock = f, !.destroyed = FALSE]
  <2>2. s.sock = f /\ ~s.destroyed
    BY <1>1 DEF Struct
  <2>3. handle' = [handle EXCEPT ![h] = s]
    BY <2>1
  <2> HIDE DEF s
  <2>4. /\ \A g \in Fd : owner'[g] = IF g = f THEN h ELSE owner[g]
        /\ f # INVALID
    BY <2>1, OpenFree, LifecycleAssumption DEF Keeping, Owning, Owner, INVALID
  <2>5. \A g \in Fd : owner[g] # h
    BY <1>8, <1>13 DEF ConnectSocket, ConnectBegins
  <2>6. Keeps(h)'
    BY <1>2, <1>13, <2>2, <2>3, <2>4, <2>5
    DEF ConnectSocket, ConnectBegins, Calling, Keeps
  <2> QED BY <1>2, <1>13, <2>3, <2>4, <2>6, OthersKeeping
          DEF ConnectSocket, ConnectBegins, Calling, Goto, loop
<1>14. CASE ConnectEstablished(h)
  <2> DEFINE s == [handle[h] EXCEPT !.connected = TRUE]
  <2>1. s.sock = handle[h].sock /\ s.destroyed = handle[h].destroyed
    BY <1>1 DEF Struct
  <2>2. handle' = [handle EXCEPT ![h] = s]
    BY <1>14 DEF ConnectEstablished
  <2> HIDE DEF s
  <2>3. ~handle[h].destroyed /\ handle[h].sock # INVALID
    BY <1>2, <1>14 DEF ConnectEstablished, Keeps
  <2>4. Keeps(h)'
    BY <1>2, <1>14, <2>1, <2>2, <2>3 DEF ConnectEstablished, Keeps
  <2> QED BY <1>2, <1>14, <2>2, <2>4, OthersKeeping DEF ConnectEstablished, Goto
<1>15. CASE ConnectGreeted(h) \/ ConnectAccepted(h)
  <2>1. Keeps(h)'
    BY <1>2, <1>15 DEF ConnectGreeted, ConnectAccepted, Keeps
  <2> QED BY <1>2, <1>15, <2>1, OthersKeeping
          DEF ConnectGreeted, ConnectAccepted, Return, Goto
<1>16. CASE ConnectFails(h)
  <2>1. call[h] # "none"
    BY <1>5, <1>16 DEF ConnectFails
  <2> QED BY <1>1, <1>3, <1>6, <1>7, <1>16, <2>1, KeepingDisconnected
          DEF ConnectFails, Return, Goto, loop
<1> QED BY <1>9, <1>10, <1>11, <1>12, <1>13, <1>14, <1>15, <1>16

(* Neither do the callbacks, nor attaching a handle that is new.           *)
LEMMA KeepingAttach ==
  ASSUME InitialSock = INVALID, ~MayReattach, Keeping, NEW h \in Handle,
         \/ Accept(h) \/ Decline(h) \/ CallbackReturns(h)
         \/ AttachClient(h) \/ AttachOwn(h) \/ AttachAnswered(h) \/ AttachFails(h)
  PROVE  \A k \in Handle : Keeps(k)'
<1>1. /\ handle[h] \in Struct /\ Ready(h) \in Struct
      /\ Ready(h).destroyed = handle[h].destroyed
  BY DEF Keeping, Owning, HandleOK, Ready, Struct
<1>2. /\ OwnsItsSockets(h) /\ Keeps(h) /\ \A k \in Handle : Keeps(k)
      /\ DOMAIN pc = Handle /\ DOMAIN call = Handle /\ DOMAIN handle = Handle
      /\ DOMAIN client = Handle
  BY DEF Keeping, Owning, HandleOK, ClientOK
<1>3. /\ h \in Owner /\ h \notin {Free, App, Listener}
      /\ Handle \cap {Free, App, Listener} = {}
      /\ INVALID \notin Fd
  BY LifecycleAssumption DEF Owner, INVALID
<1>4. call[h] = "none" => /\ handle[h] = New /\ pc[h] = "idle"
                          /\ handle[h].sock = INVALID /\ ~handle[h].destroyed
  BY <1>2, StructFacts DEF OwnsItsSockets
<1>5. call[h] = "none" => \A f \in Fd : owner[f] = h => f = client[h]
  BY <1>2, <1>3, <1>4 DEF Keeps
<1>6. CASE Accept(h)
  <2>1. PICK f \in Fd : /\ LowestFree(f) /\ Open(f, h)
                        /\ client' = [client EXCEPT ![h] = f]
    BY <1>6 DEF Accept
  <2>2. \A g \in Fd : owner'[g] = IF g = f THEN h ELSE owner[g]
    BY <1>3, <2>1, OpenFree DEF Keeping, Owning
  <2>3. \A g \in Fd : owner[g] # h
    BY <1>3, <1>5, <1>6 DEF Accept
  <2>4. Keeps(h)'
    BY <1>2, <1>6, <2>1, <2>2, <2>3 DEF Accept, Keeps
  <2> QED BY <1>2, <1>6, <2>1, <2>2, <2>4, OthersKeeping DEF Accept
<1>7. CASE Decline(h)
  <2>1. client[h] \in Fd /\ owner[client[h]] = h
    BY <1>2, <1>7 DEF Decline, OwnsItsSockets
  <2>2. \A g \in Fd : owner'[g] = IF g = client[h] THEN Free ELSE owner[g]
    BY <1>7, <2>1, CloseOwn DEF Decline, Keeping, Owning
  <2>3. \A g \in Fd : owner'[g] # h
    BY <1>3, <1>5, <1>7, <2>2 DEF Decline
  <2>4. Keeps(h)'
    BY <1>2, <1>7, <2>3 DEF Decline, Keeps
  <2> QED BY <1>2, <1>3, <1>7, <2>2, <2>4, OthersKeeping DEF Decline
<1>8. CASE CallbackReturns(h)
  <2>1. \A g \in Fd : owner[g] = h => g = handle[h].sock /\ ~handle[h].destroyed
    BY <1>2, <1>8 DEF CallbackReturns, Keeps
  <2>2. handle[h].destroyed
    BY <1>2, <1>8 DEF CallbackReturns, Keeps
  <2>3. Keeps(h)'
    BY <1>2, <1>8, <2>1, <2>2, StructFacts DEF CallbackReturns, Keeps
  <2> QED BY <1>2, <1>8, <2>3, OthersKeeping DEF CallbackReturns
<1>9. ASSUME NEW f \in Fd, Attach(h, f), call[h] = "none",
             \A g \in Fd : owner'[g] = h => g = f,
             \A g \in Fd : owner'[g] \in Handle \ {h} => owner'[g] = owner[g]
      PROVE  \A k \in Handle : Keeps(k)'
  <2>1. /\ handle'[h].sock = f /\ ~handle'[h].destroyed
        /\ \A k \in Handle : k # h => handle'[k] = handle[k]
    <3> DEFINE s1 == [handle[h] EXCEPT !.sock = f]
               s2 == [Ready(h) EXCEPT !.sock = f, !.connected = TRUE]
    <3>1. s1.sock = f /\ ~s1.destroyed /\ s2.sock = f /\ ~s2.destroyed
      BY <1>1, <1>4, <1>9 DEF Struct
    <3>2. \/ handle' = [handle EXCEPT ![h] = s1]
          \/ handle' = [handle EXCEPT ![h] = s2]
      BY <1>9 DEF Attach
    <3> HIDE DEF s1, s2
    <3> QED BY <1>2, <3>1, <3>2
  <2>2. /\ call' = [call EXCEPT ![h] = "attach"] /\ client' = client
        /\ \A k \in Handle : k # h => pc'[k] = pc[k]
    BY <1>2, <1>9 DEF Attach, Calling, loop, Return, Goto
  <2>3. Keeps(h)'
    BY <1>2, <1>3, <1>9, <2>1, <2>2 DEF Keeps
  <2> QED BY <1>2, <1>9, <2>1, <2>2, <2>3, OthersKeeping
<1>10. CASE AttachClient(h)
  <2>1. client[h] \in Fd /\ owner[client[h]] = h /\ owner' = owner
    BY <1>2, <1>10 DEF AttachClient, OwnsItsSockets
  <2> QED BY <1>5, <1>9, <1>10, <2>1 DEF AttachClient
<1>11. CASE AttachOwn(h)
  <2>1. call[h] = "none" /\ \A g \in Fd : owner[g] # h
    BY <1>3, <1>5, <1>11 DEF AttachOwn
  <2>2. PICK f \in Fd : owner[f] = App /\ Open(f, h) /\ Attach(h, f)
    BY <1>11 DEF AttachOwn
  <2>3. \A g \in Fd : owner'[g] = IF g = f THEN h ELSE owner[g]
    BY <1>3, <2>2, OpenFree DEF Keeping, Owning
  <2> QED BY <1>9, <2>1, <2>2, <2>3
<1>12. CASE AttachAnswered(h)
  <2>1. Keeps(h)'
    BY <1>2, <1>12 DEF AttachAnswered, Keeps
  <2> QED BY <1>2, <1>12, <2>1, OthersKeeping DEF AttachAnswered, Return, Goto
<1>13. CASE AttachFails(h)
  <2> DEFINE s == [handle[h] EXCEPT !.connected = FALSE]
  <2>1. /\ s \in Struct /\ s.sock = handle[h].sock /\ ~s.connected
        /\ s.destroyed = handle[h].destroyed
    BY <1>1 DEF Struct
  <2>2. Disconnected(h, s)
    BY <1>13 DEF AttachFails
  <2> HIDE DEF s
  <2>3. call[h] # "none"
    BY <1>4, <1>13 DEF AttachFails
  <2>4. ~s.destroyed /\ s.sock # INVALID => s.sock \in Fd /\ owner[s.sock] = h
    BY <1>2, <2>1 DEF OwnsItsSockets
  <2>5. \A f \in Fd : owner[f] = h => f = s.sock /\ ~s.destroyed
    BY <1>2, <2>1, <2>3 DEF Keeps
  <2> QED BY <1>13, <2>1, <2>2, <2>3, <2>4, <2>5, KeepingDisconnected
          DEF AttachFails, Return, Goto, loop
<1> QED BY <1>6, <1>7, <1>8, <1>10, <1>11, <1>12, <1>13

(* Nor what the application, the loop and the server do.                   *)
LEMMA KeepingOthers ==
  ASSUME Keeping,
         \/ AppOpens \/ AppCloses \/ ListenEnds
         \/ \E th \in BOOLEAN : Listen(th)
         \/ \E h \in Handle : Server(h)
         \/ UNCHANGED vars
  PROVE  \A k \in Handle : Keeps(k)'
<1>1. handle' = handle /\ client' = client /\ call' = call /\ pc' = pc
  BY DEF AppOpens, AppCloses, ListenEnds, Listen, Server, ServerSays, vars, loop
<1>2. /\ Handle \cap {Free, App, Listener} = {} /\ OwnerOK
      /\ {Free, App, Listener} \subseteq Owner
  BY LifecycleAssumption DEF Owner, Keeping, Owning
<1>3. \A g \in Fd : owner'[g] \in Handle => owner'[g] = owner[g]
  BY <1>2 DEF AppOpens, AppCloses, ListenEnds, Listen, Server, ServerSays, vars,
              loop, Open, Close, OwnerOK
<1> QED BY <1>1, <1>3 DEF Keeping, Keeps

(* When handles start with ESL_SOCK_INVALID and no disconnected handle is  *)
(* attached, no descriptor that was opened for a handle or given to it is  *)
(* ever lost, and a connected handle talks over a descriptor of its own.   *)
THEOREM SocketsKept ==
  ASSUME InitialSock = INVALID, ~MayReattach
  PROVE  Spec => [](NoOrphans /\ ConnectedOwnsSocket)
<1>1. ASSUME Init PROVE Keeping
  <2>1. \A f \in Fd : owner[f] \notin Handle
    BY <1>1, LifecycleAssumption DEF Init
  <2>2. \A h \in Handle : Keeps(h)
    BY <1>1, <2>1, StructFacts DEF Init, Keeps
  <2> QED BY <1>1, <2>2, OwningInit DEF Keeping
<1>2. ASSUME Keeping, [Next]_vars PROVE Keeping'
  <2>1. Owning'
    BY <1>2, OwningConnect, OwningAttach, OwningOthers DEF Next, Keeping
  <2>2. \A k \in Handle : Keeps(k)'
    BY <1>2, KeepingConnect, KeepingAttach, KeepingOthers DEF Next
  <2> QED BY <2>1, <2>2 DEF Keeping
<1>3. ASSUME Keeping PROVE NoOrphans /\ ConnectedOwnsSocket
  BY <1>3 DEF Keeping, Owning, Keeps, OwnsItsSockets, NoOrphans, ConnectedOwnsSocket
<1> QED BY <1>1, <1>2, <1>3, PTL DEF Spec

(* Under the same conditions a connected handle never talks over a         *)
(* descriptor that was closed or belongs to somebody else.                 *)
COROLLARY OwnSocket ==
  ASSUME InitialSock = INVALID, ~MayReattach
  PROVE  Spec => []ConnectedOwnsSocket
<1>1. NoOrphans /\ ConnectedOwnsSocket => ConnectedOwnsSocket
  OBVIOUS
<1> QED BY <1>1, SocketsKept, PTL

-----------------------------------------------------------------------------
(* The server says "+OK accepted" only when it means it, and nothing that  *)
(* it says later changes that.                                             *)
Truthful(h) ==
  \A i \in 1 .. Len(inbox[h]) :
    inbox[h][i] = "+OK accepted" => session[h] = "accepted"

Accepted(h) ==
  call[h] = "connect" /\ pc[h] = "idle" /\ result[h] = "SUCCESS" =>
    session[h] = "accepted"

Consistent(h) ==
  /\ pc[h] # "idle" /\ pc[h] # "attaching" => call[h] = "connect"
  /\ pc[h] = "attaching" => call[h] = "attach"
  /\ call[h] = "none" => pc[h] = "idle"
  /\ pc[h] = "connecting" => inbox[h] = <<>> /\ session[h] = "none"
  /\ pc[h] = "greeting" => session[h] \in {"open", "greeted", "refused"}

Domains == /\ inbox \in [Handle -> Seq(Packets)] /\ DOMAIN session = Handle
           /\ result \in [Handle -> Statuses] /\ call \in [Handle -> Calls]
           /\ pc \in [Handle -> Labels]

Verified == Domains /\ \A h \in Handle : Truthful(h) /\ Accepted(h) /\ Consistent(h)

(* What every action on one handle's dialogue has to show.                 *)
LEMMA VerifiedStep ==
  ASSUME Verified, NEW h \in Handle, Domains',
         \A k \in Handle : k # h =>
           /\ inbox'[k] = inbox[k] /\ session'[k] = session[k]
           /\ result'[k] = result[k] /\ call'[k] = call[k] /\ pc'[k] = pc[k],
         Truthful(h)', Accepted(h)', Consistent(h)'
  PROVE  Verified'
<1>1. ASSUME NEW k \in Handle, k # h
      PROVE  Truthful(k)' /\ Accepted(k)' /\ Consistent(k)'
  <2>1. Truthful(k) /\ Accepted(k) /\ Consistent(k)
    BY DEF Verified
  <2>2. /\ inbox'[k] = inbox[k] /\ session'[k] = session[k]
        /\ result'[k] = result[k] /\ call'[k] = call[k] /\ pc'[k] = pc[k]
    BY <1>1
  <2>3. Truthful(k)'
    BY <2>1, <2>2 DEF Truthful
  <2> QED BY <2>1, <2>2, <2>3 DEF Accepted, Consistent
<1> QED BY <1>1 DEF Verified

(* A handle that hung up, or heard nothing new, in a call that did not     *)
(* succeed in connecting.                                                  *)
LEMMA VerifiedQuiet ==
  ASSUME Verified, NEW h \in Handle,
         NEW c \in Calls, NEW l \in Labels, NEW r \in Statuses,
         Hangup(h) \/ UNCHANGED server,
         call' = [call EXCEPT ![h] = c], pc' = [pc EXCEPT ![h] = l],
         result' = [result EXCEPT ![h] = r],
         l # "idle" /\ l # "attaching" => c = "connect",
         l = "attaching" => c = "attach", c = "none" => l = "idle",
         l # "greeting", l = "connecting" => Hangup(h),
         c = "connect" /\ l = "idle" => r # "SUCCESS"
  PROVE  Verified'
<1>1. Domains /\ Truthful(h)
  BY DEF Verified
<1>2. /\ inbox' \in [Handle -> Seq(Packets)] /\ DOMAIN session' = Handle
      /\ \A k \in Handle : k # h => inbox'[k] = inbox[k] /\ session'[k] = session[k]
      /\ Truthful(h)'
  <2>1. CASE Hangup(h)
    <3>1. inbox' = [inbox EXCEPT ![h] = <<>>] /\ session' = [session EXCEPT ![h] = "none"]
      BY <2>1 DEF Hangup
    <3>2. <<>> \in Seq(Packets) /\ 1 .. Len(<<>>) = {}
      OBVIOUS
    <3>3. inbox'[h] = <<>>
      BY <1>1, <3>1 DEF Domains
    <3>4. Truthful(h)'
      BY <3>2, <3>3 DEF Truthful
    <3> QED BY <1>1, <3>1, <3>2, <3>4 DEF Domains
  <2>2. CASE UNCHANGED server
    <3>1. inbox' = inbox /\ session' = session
      BY <2>2 DEF server
    <3> QED BY <1>1, <3>1 DEF Domains, Truthful
  <2> QED BY <2>1, <2>2
<1>3. /\ result' \in [Handle -> Statuses] /\ call' \in [Handle -> Calls]
      /\ pc' \in [Handle -> Labels]
      /\ call'[h] = c /\ pc'[h] = l /\ result'[h] = r
      /\ \A k \in Handle : k # h => /\ result'[k] = result[k] /\ call'[k] = call[k]
                                   /\ pc'[k] = pc[k]
  BY <1>1 DEF Domains
<1>4. l = "connecting" => inbox'[h] = <<>> /\ session'[h] = "none"
  BY <1>1 DEF Hangup, Domains
<1>5. Accepted(h)' /\ Consistent(h)'
  BY <1>3, <1>4 DEF Accepted, Consistent
<1>6. Domains'
  BY <1>2, <1>3 DEF Domains
<1> QED BY <1>2, <1>3, <1>5, <1>6, VerifiedStep

(* Nothing is said and nothing was called at first.                        *)
LEMMA VerifiedInit == Init => Verified
<1> SUFFICES ASSUME Init PROVE Verified
  OBVIOUS
<1>1. <<>> \in Seq(Packets) /\ 1 .. Len(<<>>) = {}
  OBVIOUS
<1>2. Domains
  BY <1>1 DEF Init, Domains, Statuses, Calls, Labels
<1>3. \A h \in Handle : inbox[h] = <<>>
  BY DEF Init
<1>4. \A h \in Handle : Truthful(h)
  BY <1>1, <1>3 DEF Truthful
<1>5. \A h \in Handle : Accepted(h) /\ Consistent(h)
  BY DEF Init, Accepted, Consistent
<1> QED BY <1>2, <1>4, <1>5 DEF Verified

(* The steps in which the handle's own dialogue does not move.             *)
LEMMA VerifiedCalls ==
  ASSUME Verified, NEW h \in Handle,
         \/ Disconnect(h)
         \/ ConnectNoMutex(h) \/ ConnectNoAddress(h) \/ ConnectNoSocket(h)
         \/ ConnectSocket(h) \/ ConnectFails(h)
         \/ CallbackReturns(h) \/ AttachFails(h)
  PROVE  Verified'
<1>1. /\ result[h] \in Statuses /\ result = [result EXCEPT ![h] = result[h]]
      /\ call[h] \in Calls /\ call = [call EXCEPT ![h] = call[h]]
      /\ pc[h] \in Labels /\ pc = [pc EXCEPT ![h] = pc[h]]
      /\ Consistent(h)
  BY DEF Verified, Domains
<1>2. /\ {"none", "connect", "disconnect"} \subseteq Calls
      /\ {"idle", "connecting"} \subseteq Labels
      /\ {"none", "FAIL", "SUCCESS"} \subseteq Statuses
  BY DEF Calls, Labels, Statuses
<1>3. ASSUME NEW s, Disconnected(h, s) PROVE Hangup(h) \/ UNCHANGED server
  BY <1>3 DEF Disconnected
<1>4. CASE Disconnect(h)
  <2> DEFINE r == IF handle[h].destroyed \/ handle[h].sock = INVALID
                  THEN "FAIL" ELSE "SUCCESS"
  <2>1. /\ Hangup(h) \/ UNCHANGED server
        /\ call' = [call EXCEPT ![h] = "disconnect"] /\ pc' = [pc EXCEPT ![h] = "idle"]
        /\ result' = [result EXCEPT ![h] = r] /\ r \in Statuses
    BY <1>2, <1>3, <1>4 DEF Disconnect, Calling, Return, Goto
  <2> HIDE DEF r
  <2> QED BY <1>2, <2>1, VerifiedQuiet
<1>5. CASE ConnectNoMutex(h) \/ ConnectNoAddress(h) \/ ConnectNoSocket(h)
  <2>1. /\ Hangup(h) \/ UNCHANGED server
        /\ call' = [call EXCEPT ![h] = "connect"] /\ pc' = [pc EXCEPT ![h] = "idle"]
        /\ result' = [result EXCEPT ![h] = "FAIL"]
    BY <1>3, <1>5 DEF ConnectNoMutex, ConnectNoAddress, ConnectNoSocket,
                      ConnectBegins, Calling, Return, Goto
  <2> QED BY <1>2, <2>1, VerifiedQuiet
<1>6. CASE ConnectSocket(h)
  <2>1. /\ Hangup(h)
        /\ call' = [call EXCEPT ![h] = "connect"]
        /\ pc' = [pc EXCEPT ![h] = "connecting"]
        /\ result' = [result EXCEPT ![h] = result[h]]
    BY <1>1, <1>6 DEF ConnectSocket, ConnectBegins, Calling, Goto
  <2> QED BY <1>1, <1>2, <2>1, VerifiedQuiet
<1>7. CASE ConnectFails(h) \/ AttachFails(h)
  <2>1. /\ Hangup(h) \/ UNCHANGED server
        /\ call' = [call EXCEPT ![h] = call[h]]
        /\ pc' = [pc EXCEPT ![h] = "idle"]
        /\ result' = [result EXCEPT ![h] = "FAIL"]
    BY <1>1, <1>3, <1>7 DEF ConnectFails, AttachFails, Return, Goto
  <2> QED BY <1>1, <1>2, <2>1, VerifiedQuiet
<1>8. CASE CallbackReturns(h)
  <2>1. /\ UNCHANGED server /\ call' = [call EXCEPT ![h] = "none"]
        /\ pc' = [pc EXCEPT ![h] = "idle"]
        /\ result' = [result EXCEPT ![h] = "none"]
    BY <1>1, <1>8 DEF CallbackReturns
  <2> QED BY <1>2, <2>1, VerifiedQuiet
<1> QED BY <1>4, <1>5, <1>6, <1>7, <1>8

(* Reading a packet, and hearing one more, from a truthful server.         *)
LEMMA TruthfulTail ==
  ASSUME Domains, NEW h \in Handle, Truthful(h), Hears(h),
         session'[h] = "accepted" <=> session[h] = "accepted"
  PROVE  /\ inbox' \in [Handle -> Seq(Packets)] /\ Truthful(h)'
         /\ \A k \in Handle : k # h => inbox'[k] = inbox[k]
<1> DEFINE q == inbox[h]
           t == Tail(q)
<1>1. q \in Seq(Packets) /\ q # <<>>
  BY DEF Domains, Hears
<1>2. inbox' = [inbox EXCEPT ![h] = t]
  BY DEF Hears
<1>3. \A i \in 1 .. Len(q) : q[i] = "+OK accepted" => session[h] = "accepted"
  BY DEF Truthful
<1> HIDE DEF q
<1>4. /\ t \in Seq(Packets)
      /\ \A i \in 1 .. Len(t) : i + 1 \in 1 .. Len(q) /\ t[i] = q[i + 1]
  BY <1>1
<1> HIDE DEF t
<1>5. \A i \in 1 .. Len(t) : t[i] = "+OK accepted" => session'[h] = "accepted"
  BY <1>3, <1>4
<1>6. inbox'[h] = t /\ \A k \in Handle : k # h => inbox'[k] = inbox[k]
  BY <1>2 DEF Domains
<1>7. Truthful(h)'
  BY <1>5, <1>6 DEF Truthful
<1> QED BY <1>2, <1>4, <1>6, <1>7 DEF Domains

(* An element of an extended sequence is an old one or the new one.        *)
LEMMA AppendElements ==
  ASSUME NEW s \in Seq(Packets), NEW e \in Packets
  PROVE  /\ Append(s, e) \in Seq(Packets)
         /\ \A i \in 1 .. Len(Append(s, e)) :
              \/ Append(s, e)[i] = e
              \/ i \in 1 .. Len(s) /\ Append(s, e)[i] = s[i]
<1> DEFINE t == Append(s, e)
<1>1. /\ t \in Seq(Packets) /\ Len(t) = Len(s) + 1
      /\ \A i \in 1 .. Len(s) : t[i] = s[i]
      /\ t[Len(s) + 1] = e
  BY AppendProperties
<1>2. Len(s) \in Nat
  OBVIOUS
<1> HIDE DEF t
<1> SUFFICES ASSUME NEW i \in 1 .. Len(t), i \notin 1 .. Len(s)
             PROVE  t[i] = e
  BY <1>1 DEF t
<1>3. i = Len(s) + 1
  BY <1>1, <1>2
<1> QED BY <1>1, <1>3

(* What the server adds keeps it truthful.                                 *)
LEMMA TruthfulAppend ==
  ASSUME Domains, NEW h \in Handle, Truthful(h),
         NEW packet \in Packets, NEW state \in Sessions, ServerSays(h, packet, state),
         session[h] = "accepted" => state = "accepted",
         packet = "+OK accepted" => state = "accepted"
  PROVE  /\ inbox' \in [Handle -> Seq(Packets)] /\ Truthful(h)'
         /\ \A k \in Handle : k # h => inbox'[k] = inbox[k]
<1>1. PICK q \in Seq(Packets) : q = inbox[h]
  BY DEF Domains
<1> DEFINE t == Append(q, packet)
<1>2. inbox' = [inbox EXCEPT ![h] = t] /\ session'[h] = state
  BY <1>1 DEF ServerSays, Domains
<1>3. \A i \in 1 .. Len(q) : q[i] = "+OK accepted" => session[h] = "accepted"
  BY <1>1 DEF Truthful
<1>4. /\ t \in Seq(Packets)
      /\ \A i \in 1 .. Len(t) : t[i] = packet \/ (i \in 1 .. Len(q) /\ t[i] = q[i])
  BY AppendElements
<1> HIDE DEF t
<1>5. \A i \in 1 .. Len(t) : t[i] = "+OK accepted" => session'[h] = "accepted"
  BY <1>2, <1>3, <1>4
<1>6. inbox'[h] = t /\ \A k \in Handle : k # h => inbox'[k] = inbox[k]
  BY <1>2 DEF Domains
<1>7. Truthful(h)'
  BY <1>5, <1>6 DEF Truthful
<1> QED BY <1>2, <1>4, <1>6, <1>7 DEF Domains

(* The dialogue with the server.                                           *)
LEMMA VerifiedDialogue ==
  ASSUME Verified, NEW h \in Handle,
         \/ ConnectEstablished(h) \/ ConnectGreeted(h) \/ ConnectAccepted(h)
         \/ AttachAnswered(h) \/ Server(h)
  PROVE  Verified'
<1>1. Domains /\ Truthful(h) /\ Accepted(h) /\ Consistent(h)
  BY DEF Verified
<1>2. {"idle", "greeting", "authenticating"} \subseteq Labels /\ "SUCCESS" \in Statuses
  BY DEF Labels, Statuses
<1>3. CASE ConnectEstablished(h)
  <2>1. /\ inbox' = inbox /\ call' = call /\ result' = result
        /\ session' = [session EXCEPT ![h] = "open"] /\ pc' = [pc EXCEPT ![h] = "greeting"]
        /\ pc[h] = "connecting"
    BY <1>3 DEF ConnectEstablished, Goto
  <2>2. inbox'[h] = <<>> /\ 1 .. Len(<<>>) = {}
    BY <1>1, <2>1 DEF Consistent
  <2>3. Truthful(h)'
    BY <2>2 DEF Truthful
  <2>4. /\ pc'[h] = "greeting" /\ session'[h] = "open" /\ call'[h] = "connect"
        /\ Domains'
    BY <1>1, <1>2, <2>1 DEF Domains, Consistent
  <2>5. Accepted(h)' /\ Consistent(h)'
    BY <2>4 DEF Accepted, Consistent
  <2> QED BY <1>1, <2>1, <2>3, <2>4, <2>5, VerifiedStep DEF Domains
<1>4. CASE ConnectGreeted(h)
  <2>1. /\ Hears(h) /\ call' = call /\ result' = result
        /\ session' = [session EXCEPT ![h] = IF @ = "greeted" THEN "asked" ELSE @]
        /\ pc' = [pc EXCEPT ![h] = "authenticating"] /\ pc[h] = "greeting"
    BY <1>4 DEF ConnectGreeted, Goto
  <2>2. /\ pc'[h] = "authenticating" /\ call'[h] = "connect"
        /\ session'[h] # "accepted" /\ session[h] # "accepted"
    BY <1>1, <2>1 DEF Domains, Consistent
  <2>3. /\ inbox' \in [Handle -> Seq(Packets)] /\ Truthful(h)'
        /\ \A k \in Handle : k # h => inbox'[k] = inbox[k]
    BY <1>1, <2>1, <2>2, TruthfulTail
  <2>4. Accepted(h)' /\ Consistent(h)'
    BY <2>2 DEF Accepted, Consistent
  <2>5. Domains'
    BY <1>1, <1>2, <2>1, <2>3 DEF Domains
  <2> QED BY <1>1, <2>1, <2>3, <2>4, <2>5, VerifiedStep DEF Domains
<1>5. CASE ConnectAccepted(h) \/ AttachAnswered(h)
  <2>1. /\ Hears(h) /\ call' = call /\ result' = [result EXCEPT ![h] = "SUCCESS"]
        /\ session' = session /\ pc' = [pc EXCEPT ![h] = "idle"]
        /\ \/ Head(inbox[h]) = "+OK accepted"
           \/ pc[h] = "attaching"
    BY <1>5 DEF ConnectAccepted, AttachAnswered, Return, Goto
  <2>2. Head(inbox[h]) = "+OK accepted" => session[h] = "accepted"
    <3> DEFINE q == inbox[h]
    <3>1. q \in Seq(Packets) /\ q # <<>>
      BY <1>1, <2>1 DEF Domains, Hears
    <3>2. \A i \in 1 .. Len(q) : q[i] = "+OK accepted" => session[h] = "accepted"
      BY <1>1 DEF Truthful
    <3> HIDE DEF q
    <3>3. 1 \in 1 .. Len(q) /\ Head(q) = q[1]
      BY <3>1
    <3>4. Head(q) = "+OK accepted" => session[h] = "accepted"
      BY <3>2, <3>3
    <3> QED BY <3>4 DEF q
  <2>3. /\ inbox' \in [Handle -> Seq(Packets)] /\ Truthful(h)'
        /\ \A k \in Handle : k # h => inbox'[k] = inbox[k]
    BY <1>1, <2>1, TruthfulTail
  <2>4. pc'[h] = "idle" /\ call'[h] = call[h] /\ session'[h] = session[h]
    BY <1>1, <2>1 DEF Domains
  <2>5. Accepted(h)' /\ Consistent(h)'
    BY <1>1, <2>1, <2>2, <2>4 DEF Accepted, Consistent
  <2>6. Domains'
    BY <1>1, <1>2, <2>1, <2>3 DEF Domains
  <2> QED BY <1>1, <2>1, <2>3, <2>5, <2>6, VerifiedStep DEF Domains
<1>6. CASE Server(h)
  <2>1. PICK packet \in Packets, state \in Sessions :
          /\ ServerSays(h, packet, state)
          /\ packet = "+OK accepted" => state = "accepted"
          /\ session[h] \in {"open", "greeted", "asked", "attached"}
          /\ session[h] \in {"open", "greeted"} => state \in {"greeted", "refused"}
    BY <1>6 DEF Server, Packets, Sessions
  <2>2. /\ inbox' \in [Handle -> Seq(Packets)] /\ Truthful(h)'
        /\ \A k \in Handle : k # h => inbox'[k] = inbox[k]
    BY <1>1, <2>1, TruthfulAppend
  <2>3. /\ session' = [session EXCEPT ![h] = state]
        /\ call' = call /\ result' = result /\ pc' = pc
    BY <2>1 DEF ServerSays
  <2>4. session'[h] = state /\ Domains'
    BY <1>1, <2>2, <2>3 DEF Domains
  <2>5. Accepted(h)' /\ Consistent(h)'
    BY <1>1, <2>1, <2>3, <2>4 DEF Accepted, Consistent
  <2> QED BY <1>1, <2>2, <2>3, <2>4, <2>5, VerifiedStep DEF Domains
<1> QED BY <1>3, <1>4, <1>5, <1>6

(* Attaching is no success of connecting.                                  *)
LEMMA VerifiedAttach ==
  ASSUME Verified, NEW h \in Handle, NEW f, Attach(h, f)
  PROVE  Verified'
<1>1. Domains
  BY DEF Verified
<1>2. /\ inbox' = [inbox EXCEPT ![h] = <<>>] /\ call' = [call EXCEPT ![h] = "attach"]
      /\ \/ /\ pc' = [pc EXCEPT ![h] = "idle"] /\ result' = [result EXCEPT ![h] = "FAIL"]
            /\ session' = session
         \/ /\ pc' = [pc EXCEPT ![h] = "attaching"] /\ result' = result
            /\ session' = [session EXCEPT ![h] = "attached"]
  BY DEF Attach, Calling, Return, Goto
<1>3. /\ <<>> \in Seq(Packets) /\ 1 .. Len(<<>>) = {}
      /\ "attach" \in Calls /\ {"idle", "attaching"} \subseteq Labels
      /\ "FAIL" \in Statuses
  BY DEF Calls, Labels, Statuses
<1>4. Domains'
  BY <1>1, <1>2, <1>3 DEF Domains
<1>5. inbox'[h] = <<>> /\ call'[h] = "attach" /\ pc'[h] \in {"idle", "attaching"}
  BY <1>1, <1>2 DEF Domains
<1>6. Truthful(h)'
  BY <1>3, <1>5 DEF Truthful
<1>7. Accepted(h)' /\ Consistent(h)'
  BY <1>5 DEF Accepted, Consistent
<1> QED BY <1>1, <1>2, <1>4, <1>6, <1>7, VerifiedStep DEF Domains

(* Success of a connection means that the server has accepted the          *)
(* password, whatever a new handle contains and however handles are        *)
(* reused.                                                                 *)
THEOREM AuthenticatedOnly == Spec => []Authenticated
<1>1. ASSUME Verified, [Next]_vars PROVE Verified'
  <2>1. CASE \/ AppOpens \/ AppCloses \/ ListenEnds \/ UNCHANGED vars
             \/ \E th \in BOOLEAN : Listen(th)
             \/ \E h \in Handle : Accept(h) \/ Decline(h)
    <3>1. /\ inbox' = inbox /\ session' = session /\ result' = result
          /\ call' = call /\ pc' = pc
      BY <2>1 DEF AppOpens, AppCloses, ListenEnds, Listen, Accept, Decline,
                  server, vars
    <3> QED BY <1>1, <3>1 DEF Verified, Domains, Truthful, Accepted, Consistent
  <2>2. CASE \E h \in Handle : AttachClient(h) \/ AttachOwn(h)
    BY <1>1, <2>2, VerifiedAttach DEF AttachClient, AttachOwn
  <2> QED BY <1>1, <2>1, <2>2, VerifiedCalls, VerifiedDialogue DEF Next
<1>2. Verified => Authenticated
  BY DEF Verified, Accepted, Authenticated
<1> QED BY <1>1, <1>2, VerifiedInit, PTL DEF Spec
=============================================================================
