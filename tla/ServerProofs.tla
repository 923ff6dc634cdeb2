--------------------------- MODULE ServerProofs ----------------------------
(***************************************************************************)
(* Proofs about the two services.  The MCTP service, for any number of     *)
(* clients, handles and messages: the table of deferred calls holds exactly*)
(* the blocked clients, no blocked client misses a message, and a message  *)
(* reaches the client it came for.                                         *)
(* Then the I2C server's loop, for any number of frames: the latch is never*)
(* full without the signal, frames keep their order, and the latch with    *)
(* its signal implements SlaveLatch.                                       *)
(***************************************************************************)
EXTENDS MctpServer, I2cRuntime, FiniteSetTheorems, TLAPS

\* A leaf that names no prover is tried with these, in this order, for so many seconds
\* each.  The repeated SMT only matters on a loaded machine, where one attempt can stall.
USE SMTT(30), SMTT(31), ZenonT(30), SMTT(32)

\* The part of the types the argument uses.
Shape ==
    /\ DOMAIN bound \subseteq Handle
    /\ \A h \in DOMAIN bound : bound[h] \in {"req", "listener"}
    /\ inbox \in [Handle -> Seq(Nat)]
    /\ arrived \in Nat
    /\ recv_buf \in Nat
    /\ undriven \in Nat
    /\ chan \in [Clients -> Handle \cup {None}]
    /\ call \in [Clients -> [since : Nat, timeout : Nat, waiting : BOOLEAN]]
    /\ now \in Nat

\* A client that holds a channel owns its handle; one that is blocked holds one.
Owned ==
    /\ \A c \in Clients : chan[c] # None => chan[c] \in DOMAIN bound
    /\ \A c, d \in Clients : chan[c] # None /\ chan[c] = chan[d] => c = d
    /\ \A c \in Waiting : chan[c] # None

\* The router keeps to its limits.
Limits ==
    /\ IsFiniteSet(Of("req")) /\ Cardinality(Of("req")) <= MaxRequests
    /\ IsFiniteSet(Of("listener")) /\ Cardinality(Of("listener")) <= MaxListeners

\* Each entry of the table is the deadline of the call that made it.
Deadlines ==
    \A c \in Waiting :
        outstanding[chan[c]] =
            IF call[c].timeout # 0 THEN call[c].since + call[c].timeout ELSE 0

\* The inductive invariant.
IInv == Shape /\ Owned /\ Limits /\ TableIsWaiting /\ Deadlines

USE ConfigAssumption

\* A server just built satisfies IInv.
LEMMA InitIInv == Init => IInv
  <1> SUFFICES ASSUME Init PROVE IInv
    OBVIOUS
  <1>1. Waiting = {}
    BY DEF Init, Waiting, NoCall
  <1>2. Of("req") = {} /\ Of("listener") = {}
    BY DEF Init, Of
  <1>3. Limits
    BY <1>2, FS_EmptySet DEF Limits
  <1>4. Shape
    BY DEF Init, Shape, NoCall
  <1>5. Owned /\ TableIsWaiting /\ Deadlines
    BY <1>1 DEF Init, Owned, TableIsWaiting, Deadlines
  <1>6. QED
    BY <1>3, <1>4, <1>5 DEF IInv

\* There is a place in the table for a client that is not blocked: the entries
\* are handles of other clients, and there are at most as many handles as places.
LEMMA PlaceInTable ==
    ASSUME IInv, NEW c \in Clients, c \notin Waiting, chan[c] # None
    PROVE  /\ chan[c] \notin DOMAIN outstanding
           /\ Cardinality(DOMAIN outstanding) \in Nat
           /\ Cardinality(DOMAIN outstanding) < Outstanding
  <1> DEFINE R == Of("req")
             L == Of("listener")
             H == DOMAIN bound
  <1>1. H = R \cup L
    BY ZenonT(30) DEF Of, IInv, Shape
  <1>2. IsFiniteSet(H) /\ Cardinality(H) <= MaxRequests + MaxListeners
    <2>1. IsFiniteSet(R) /\ IsFiniteSet(L) /\ IsFiniteSet(R \cap L)
      BY FS_Subset DEF IInv, Limits
    <2>2. /\ Cardinality(R) \in Nat /\ Cardinality(L) \in Nat
          /\ Cardinality(R \cap L) \in Nat
      BY <2>1, FS_CardinalityType
    <2>3. /\ IsFiniteSet(R \cup L)
          /\ Cardinality(R \cup L) = Cardinality(R) + Cardinality(L) - Cardinality(R \cap L)
      BY <2>1, FS_Union
    <2>4. Cardinality(R) <= MaxRequests /\ Cardinality(L) <= MaxListeners
      BY DEF IInv, Limits
    <2> HIDE DEF R, L
    <2>5. QED
      BY <1>1, <2>2, <2>3, <2>4
  <1>3. chan[c] \notin DOMAIN outstanding /\ DOMAIN outstanding \subseteq H \ {chan[c]}
    BY DEF IInv, Owned, TableIsWaiting, Waiting
  <1>4. chan[c] \in H
    BY DEF IInv, Owned
  <1>5. IsFiniteSet(H \ {chan[c]}) /\ Cardinality(H \ {chan[c]}) = Cardinality(H) - 1
    BY ZenonT(30), <1>2, <1>4, FS_RemoveElement
  <1>6. IsFiniteSet(DOMAIN outstanding)
        /\ Cardinality(DOMAIN outstanding) <= Cardinality(H \ {chan[c]})
    BY <1>3, <1>5, FS_Subset
  <1>7. Cardinality(H) \in Nat /\ Cardinality(DOMAIN outstanding) \in Nat
    BY <1>2, <1>6, FS_CardinalityType
  <1> HIDE DEF H
  <1>8. QED
    BY <1>2, <1>3, <1>5, <1>6, <1>7

----------------------------------------------------------------------------
(* Every step preserves the invariant *)

\* Taking from and adding to a queue of messages.
LEMMA QueueOps ==
    ASSUME NEW q \in Seq(Nat)
    PROVE  /\ \A m \in Nat : Append(q, m) \in Seq(Nat)
           /\ q # <<>> => Head(q) \in Nat /\ Tail(q) \in Seq(Nat)
  OBVIOUS

\* A packet or a tick of the clock keeps IInv.
LEMMA PlatformStep ==
    ASSUME IInv, Inbound \/ Tick
    PROVE  IInv'
  <1>1. /\ UNCHANGED <<bound, outstanding, chan, call>>
        /\ Shape'
    <2>1. inbox' \in [Handle -> Seq(Nat)]
      <3>1. CASE Tick
        BY <3>1 DEF Tick, IInv, Shape
      <3>2. CASE Inbound
        <4>1. PICK h \in DOMAIN bound : inbox' = [inbox EXCEPT ![h] = Append(@, arrived + 1)]
          BY ZenonT(30), <3>2 DEF Inbound
        <4>2. h \in Handle /\ Append(inbox[h], arrived + 1) \in Seq(Nat)
          BY QueueOps DEF IInv, Shape
        <4>3. QED
          BY <4>1, <4>2 DEF IInv, Shape
      <3>3. QED
        BY <3>1, <3>2
    <2>2. UNCHANGED <<bound, outstanding, recv_buf, chan, call>>
      BY DEF Inbound, Tick
    <2>3. arrived' \in Nat /\ undriven' \in Nat /\ now' \in Nat
      <3>1. arrived \in Nat /\ undriven \in Nat /\ now \in Nat
        BY DEF IInv, Shape
      <3>2. QED
        BY <3>1 DEF Inbound, Tick
    <2>4. QED
      BY <2>1, <2>2, <2>3 DEF IInv, Shape
  <1>2. Waiting' = Waiting /\ Of("req")' = Of("req") /\ Of("listener")' = Of("listener")
    BY <1>1 DEF Waiting, Of
  <1>3. QED
    BY <1>1, <1>2 DEF IInv, Owned, Limits, TableIsWaiting, Deadlines

\* The calls drive_pending answers leave the table, and their clients unblock.
LEMMA DriveStep ==
    ASSUME IInv, DrivePending
    PROVE  IInv'
  <1> DEFINE Done == Fulfilled \cup Expired
  <1>1. /\ UNCHANGED <<bound, chan, now>>
        /\ outstanding' = [h \in DOMAIN outstanding \ Done |-> outstanding[h]]
        /\ call' = [c \in Clients |-> IF chan[c] \in Done THEN NoCall ELSE call[c]]
    BY DEF DrivePending, Without
  <1>2. Shape'
    <2>1. call' \in [Clients -> [since : Nat, timeout : Nat, waiting : BOOLEAN]]
      BY <1>1 DEF IInv, Shape, NoCall
    <2>2. inbox' \in [Handle -> Seq(Nat)] /\ recv_buf' \in Nat
      <3>1. \A h \in Fulfilled : h \in Handle /\ inbox[h] \in Seq(Nat) /\ inbox[h] # <<>>
        BY DEF Fulfilled, IInv, TableIsWaiting, Waiting, Owned, Shape
      <3>2. \A h \in Fulfilled : Head(inbox[h]) \in Nat /\ Tail(inbox[h]) \in Seq(Nat)
        BY <3>1, QueueOps
      <3>3. QED
        BY <3>2 DEF DrivePending, IInv, Shape
    <2>3. QED
      BY <1>1, <2>1, <2>2 DEF DrivePending, IInv, Shape
  <1>3. Waiting' = {c \in Waiting : chan[c] \notin Done}
    BY <1>1 DEF Waiting, NoCall
  <1>4. Of("req")' = Of("req") /\ Of("listener")' = Of("listener")
    BY <1>1 DEF Of
  <1>5. Owned' /\ Limits'
    BY <1>1, <1>3, <1>4 DEF IInv, Owned, Limits
  <1>6. TableIsWaiting'
    BY <1>1, <1>3 DEF IInv, TableIsWaiting
  <1>7. Deadlines'
    <2> SUFFICES ASSUME NEW c \in Waiting'
                 PROVE  outstanding'[chan'[c]] =
                          IF call'[c].timeout # 0 THEN call'[c].since + call'[c].timeout ELSE 0
      BY DEF Deadlines
    <2>1. c \in Waiting /\ chan[c] \notin Done /\ c \in Clients
      BY <1>3 DEF Waiting
    <2>2. call'[c] = call[c] /\ outstanding'[chan[c]] = outstanding[chan[c]]
      BY <1>1, <2>1 DEF IInv, TableIsWaiting
    <2>3. QED
      BY <1>1, <2>1, <2>2 DEF IInv, Deadlines
  <1>8. QED
    BY <1>2, <1>5, <1>6, <1>7 DEF IInv

\* Binding a handle keeps IInv.
LEMMA OpenStep ==
    ASSUME IInv, NEW c \in Clients, NEW kind \in {"req", "listener"}, Open(c, kind)
    PROVE  IInv'
  <1>1. PICK h \in Handle \ DOMAIN bound :
            /\ bound' = [k \in DOMAIN bound \cup {h} |-> IF k = h THEN kind ELSE bound[k]]
            /\ inbox' = [inbox EXCEPT ![h] = <<>>]
            /\ chan' = [chan EXCEPT ![c] = h]
    BY ZenonT(30) DEF Open
  <1>2. /\ UNCHANGED <<now, arrived, outstanding, recv_buf, undriven, call>>
        /\ chan[c] = None /\ c \notin Waiting
    BY DEF Open, MayCall
  <1>3. Waiting' = Waiting
    BY <1>2 DEF Waiting
  <1>4. Shape'
    BY <1>1, <1>2 DEF IInv, Shape
  <1>5. Owned'
    BY <1>1, <1>2, <1>3 DEF IInv, Owned, Shape, Waiting
  <1>6. TableIsWaiting' /\ Deadlines'
    BY <1>1, <1>2, <1>3 DEF IInv, TableIsWaiting, Deadlines, Shape, Waiting
  <1>7. Limits'
    <2>1. \A k \in {"req", "listener"} : Of(k)' = IF k = kind THEN Of(k) \cup {h} ELSE Of(k)
      BY <1>1 DEF Of
    <2>2. h \notin Of(kind)
      BY DEF Of
    <2>3. IsFiniteSet(Of(kind)) /\ Cardinality(Of(kind)) \in Nat
      BY FS_CardinalityType DEF IInv, Limits
    <2>4. /\ IsFiniteSet(Of(kind) \cup {h})
          /\ Cardinality(Of(kind) \cup {h}) = Cardinality(Of(kind)) + 1
      BY <2>2, <2>3, FS_AddElement
    <2>5. Cardinality(Of(kind)) < (IF kind = "req" THEN MaxRequests ELSE MaxListeners)
      BY DEF Open, HasRoom
    <2>6. CASE kind = "req"
      BY <2>1, <2>3, <2>4, <2>5, <2>6 DEF IInv, Limits
    <2>7. CASE kind = "listener"
      BY <2>1, <2>3, <2>4, <2>5, <2>7 DEF IInv, Limits
    <2>8. QED
      BY <2>6, <2>7
  <1>8. QED
    BY <1>4, <1>5, <1>6, <1>7 DEF IInv

\* Sending, and receiving a message that is there, change neither table nor
\* ownership.
LEMMA SendStep ==
    ASSUME IInv, NEW c \in Clients, Send(c) \/ RecvNow(c)
    PROVE  IInv'
  <1>1. UNCHANGED <<now, bound, arrived, outstanding, undriven, chan, call>>
    BY DEF Send, RecvNow
  <1>2. Waiting' = Waiting /\ Of("req")' = Of("req") /\ Of("listener")' = Of("listener")
    BY <1>1 DEF Waiting, Of
  <1>3. inbox' \in [Handle -> Seq(Nat)] /\ recv_buf' \in Nat
    <2>1. CASE Send(c)
      BY <2>1 DEF Send, IInv, Shape
    <2>2. CASE RecvNow(c)
      <3>1. chan[c] \in Handle /\ inbox[chan[c]] \in Seq(Nat) /\ inbox[chan[c]] # <<>>
        BY <2>2 DEF RecvNow, MayRecv, IInv, Shape
      <3>2. Head(inbox[chan[c]]) \in Nat /\ Tail(inbox[chan[c]]) \in Seq(Nat)
        BY <3>1, QueueOps
      <3>3. QED
        BY <2>2, <3>1, <3>2 DEF RecvNow, IInv, Shape
    <2>3. QED
      BY <2>1, <2>2
  <1>4. Shape'
    BY ZenonT(30), <1>1, <1>3 DEF IInv, Shape
  <1>5. Owned' /\ Limits' /\ TableIsWaiting' /\ Deadlines'
    BY <1>1, <1>2 DEF IInv, Owned, Limits, TableIsWaiting, Deadlines
  <1>6. QED
    BY <1>4, <1>5 DEF IInv

\* A call that is deferred gets its place.
LEMMA RecvStep ==
    ASSUME IInv, NEW c \in Clients, NEW timeout \in Timeouts, RecvPending(c, timeout)
    PROVE  IInv'
  <1>1. c \notin Waiting /\ chan[c] # None /\ timeout \in Nat
    BY ZenonT(30) DEF RecvPending, MayRecv, MayCall
  <1>2. /\ UNCHANGED <<now, bound, inbox, arrived, recv_buf, undriven, chan>>
        /\ call' = [call EXCEPT ![c] = [since |-> now, timeout |-> timeout, waiting |-> TRUE]]
    BY DEF RecvPending, Defer
  <1>3. outstanding' = [k \in DOMAIN outstanding \cup {chan[c]} |->
            IF k = chan[c] THEN (IF timeout # 0 THEN now + timeout ELSE 0) ELSE outstanding[k]]
    <2>1. /\ chan[c] \notin DOMAIN outstanding
          /\ ~(Cardinality(DOMAIN outstanding) >= Outstanding)
      BY <1>1, PlaceInTable
    <2>2. QED
      BY <2>1 DEF RecvPending, Defer, RegisterRecv
  <1>4. Waiting' = Waiting \cup {c}
    BY <1>2 DEF Waiting, IInv, Shape
  <1>5. Of("req")' = Of("req") /\ Of("listener")' = Of("listener")
    BY <1>2 DEF Of
  <1>6. Shape'
    BY <1>1, <1>2 DEF IInv, Shape
  <1>7. Owned' /\ Limits'
    BY ZenonT(30), <1>1, <1>2, <1>4, <1>5 DEF IInv, Owned, Limits
  <1>8. TableIsWaiting'
    BY <1>2, <1>3, <1>4 DEF IInv, TableIsWaiting
  <1>9. Deadlines'
    <2> SUFFICES ASSUME NEW d \in Waiting'
                 PROVE  outstanding'[chan'[d]] =
                          IF call'[d].timeout # 0 THEN call'[d].since + call'[d].timeout ELSE 0
      BY DEF Deadlines
    <2>1. CASE d = c
      BY <1>1, <1>2, <1>3, <2>1 DEF IInv, Shape
    <2>2. CASE d # c
      <3>1. d \in Waiting /\ d \in Clients
        BY <1>4, <2>2 DEF Waiting
      <3>2. chan[d] # chan[c] /\ chan[d] \in DOMAIN outstanding
        BY <1>1, <2>2, <3>1 DEF IInv, Owned, TableIsWaiting
      <3>3. outstanding'[chan[d]] = outstanding[chan[d]] /\ call'[d] = call[d]
        BY <1>2, <1>3, <2>2, <3>1, <3>2 DEF IInv, Shape
      <3>4. QED
        BY <1>2, <3>1, <3>3 DEF IInv, Deadlines
    <2>3. QED
      BY <2>1, <2>2
  <1>10. QED
    BY <1>6, <1>7, <1>8, <1>9 DEF IInv

\* Closing a channel keeps IInv.
LEMMA CloseStep ==
    ASSUME IInv, NEW c \in Clients, Close(c)
    PROVE  IInv'
  <1>1. /\ UNCHANGED <<now, arrived, recv_buf, undriven, call>>
        /\ c \notin Waiting /\ chan[c] # None
        /\ bound' = [h \in DOMAIN bound \ {chan[c]} |-> bound[h]]
        /\ inbox' = [inbox EXCEPT ![chan[c]] = <<>>]
        /\ chan' = [chan EXCEPT ![c] = None]
        /\ outstanding' = [h \in DOMAIN outstanding \ {chan[c]} |-> outstanding[h]]
    BY DEF Close, MayCall, Without
  <1>2. Waiting' = Waiting
    BY <1>1 DEF Waiting
  <1>3. Shape'
    BY <1>1 DEF IInv, Shape
  <1>4. Owned'
    BY <1>1, <1>2 DEF IInv, Owned, Shape, Waiting
  <1>5. chan[c] \notin DOMAIN outstanding
    BY <1>1 DEF IInv, Owned, TableIsWaiting, Waiting
  <1>6. \A d \in Waiting : chan'[d] = chan[d] /\ chan[d] # chan[c]
    BY <1>1 DEF IInv, Owned, Shape, Waiting
  <1>7. TableIsWaiting' /\ Deadlines'
    BY <1>1, <1>2, <1>5, <1>6 DEF IInv, TableIsWaiting, Deadlines
  <1>8. Limits'
    <2>1. \A k \in {"req", "listener"} : Of(k)' = Of(k) \ {chan[c]}
      BY <1>1 DEF Of
    <2>2. ASSUME NEW k \in {"req", "listener"}
          PROVE  IsFiniteSet(Of(k)') /\ Cardinality(Of(k)') <= Cardinality(Of(k))
      <3>1. IsFiniteSet(Of(k)) /\ Of(k)' \in SUBSET Of(k)
        BY <2>1 DEF IInv, Limits
      <3>2. QED
        BY <3>1, FS_Subset
    <2>3. /\ Cardinality(Of("req")) \in Nat /\ Cardinality(Of("listener")) \in Nat
          /\ Cardinality(Of("req")') \in Nat /\ Cardinality(Of("listener")') \in Nat
      BY <2>2, FS_CardinalityType DEF IInv, Limits
    <2>4. QED
      BY <2>2, <2>3 DEF IInv, Limits
  <1>9. QED
    BY <1>3, <1>4, <1>7, <1>8 DEF IInv

\* Every step keeps IInv.
LEMMA NextIInv == IInv /\ [Next]_vars => IInv'
  <1> SUFFICES ASSUME IInv, [Next]_vars
               PROVE  IInv'
    BY ZenonT(30)
  <1>1. CASE UNCHANGED vars
    <2>1. Waiting' = Waiting /\ Of("req")' = Of("req") /\ Of("listener")' = Of("listener")
      BY <1>1 DEF vars, Waiting, Of
    <2>2. QED
      BY <1>1, <2>1 DEF vars, IInv, Shape, Owned, Limits, TableIsWaiting, Deadlines
  <1>2. QED
    BY <1>1, PlatformStep, DriveStep, OpenStep, SendStep, RecvStep, CloseStep
       DEF Next, Request

\* IInv holds for ever.
LEMMA SpecIInv == Spec => []IInv
  BY InitIInv, NextIInv, PTL DEF Spec

\* A blocked client is in the table of deferred calls, and the table holds
\* nothing else: the refusal of register_recv that the dispatcher ignores
\* cannot happen.
THEOREM TableIsWaitingAlways == Spec => []TableIsWaiting
  BY SpecIInv, PTL DEF IInv

----------------------------------------------------------------------------
(* Messages and answers *)

\* A blocked client has no answer yet.
Unanswered ==
    /\ answer \in [Clients -> [result : {"none", "TimedOut", "Message"}, meta : Nat, payload : Nat]]
    /\ \A c \in Waiting : answer[c] = NoAnswer

Delivery == Unanswered /\ NobodyMissesAMessage

\* At the start nobody waits.
LEMMA InitDelivery == Init => Delivery
  <1> SUFFICES ASSUME Init PROVE Delivery
    OBVIOUS
  <1>1. Waiting = {}
    BY DEF Init, Waiting, NoCall
  <1>2. QED
    BY <1>1 DEF Init, Delivery, Unanswered, NobodyMissesAMessage, NoAnswer

\* A packet or a tick keeps Delivery.
LEMMA InboundDelivery ==
    ASSUME IInv, Delivery, Inbound \/ Tick
    PROVE  Delivery'
  <1>1. UNCHANGED <<chan, call, answer>> /\ undriven' # 0
    BY DEF Inbound, Tick, IInv, Shape
  <1>2. Waiting' = Waiting
    BY <1>1 DEF Waiting
  <1>3. QED
    BY <1>1, <1>2 DEF Delivery, Unanswered, NobodyMissesAMessage

\* drive_pending answers every call that has a message.
LEMMA DriveDelivery ==
    ASSUME IInv, Delivery, DrivePending
    PROVE  Delivery'
  <1> DEFINE Done == Fulfilled \cup Expired
  <1>1. /\ UNCHANGED chan
        /\ undriven' = 0
        /\ call' = [c \in Clients |-> IF chan[c] \in Done THEN NoCall ELSE call[c]]
    BY DEF DrivePending
  <1>2. Waiting' = {c \in Waiting : chan[c] \notin Done}
    BY <1>1 DEF Waiting, NoCall
  <1>3. \A c \in Waiting : chan[c] \in DOMAIN outstanding /\ chan[c] \in Handle
    BY DEF IInv, TableIsWaiting, Owned, Shape, Waiting
  <1>4. PICK last \in IF Fulfilled = {} THEN {recv_buf} ELSE {Head(inbox[h]) : h \in Fulfilled} :
          answer' = [c \in Clients |->
            IF c \in Waiting /\ chan[c] \in Fulfilled
            THEN Message(Head(inbox[chan[c]]), last)
            ELSE IF c \in Waiting /\ chan[c] \in Expired THEN TimedOut ELSE answer[c]]
    BY ZenonT(30) DEF DrivePending
  <1>5. \A h \in Fulfilled : h \in Handle /\ Head(inbox[h]) \in Nat
    <2>1. \A h \in Fulfilled : h \in Handle /\ inbox[h] \in Seq(Nat) /\ inbox[h] # <<>>
      BY <1>3 DEF Fulfilled, IInv, TableIsWaiting, Shape
    <2>2. QED
      BY <2>1, QueueOps
  <1>6. Unanswered'
    <2>1. last \in Nat
      BY <1>4, <1>5 DEF IInv, Shape
    <2>2. answer' \in [Clients -> [result : {"none", "TimedOut", "Message"},
                                   meta : Nat, payload : Nat]]
      BY ZenonT(30), <1>4, <1>5, <2>1 DEF Delivery, Unanswered, Message, TimedOut
    <2>3. QED
      BY <1>2, <1>4, <2>2 DEF Delivery, Unanswered, Waiting
  <1>7. \A c \in Waiting' : inbox'[chan'[c]] = <<>>
    BY <1>1, <1>2, <1>3 DEF DrivePending, Fulfilled
  <1>8. NobodyMissesAMessage'
    BY <1>1, <1>7 DEF NobodyMissesAMessage
  <1>9. QED
    BY ZenonT(30), <1>6, <1>8 DEF Delivery

\* A request of one client leaves the messages of the blocked ones alone.
LEMMA RequestDelivery ==
    ASSUME IInv, Delivery, NEW c \in Clients, Request(c)
    PROVE  Delivery'
  <1>1. undriven = 0 /\ UNCHANGED undriven /\ c \notin Waiting
    BY DEF Request, Open, Send, RecvNow, RecvPending, MayRecv, MayCall, Defer, Close
  <1>2. \A d \in Waiting : d \in Clients /\ d # c /\ chan[d] \in DOMAIN bound
                          /\ chan[d] \in Handle /\ chan[d] # chan[c] /\ inbox[chan[d]] = <<>>
    BY ZenonT(30), <1>1 DEF Waiting, IInv, Owned, Shape, Delivery, NobodyMissesAMessage
  <1>3. Waiting' \subseteq Waiting \cup {c}
    BY ZenonT(30) DEF Request, Open, Send, RecvNow, RecvPending, Defer, Close, Waiting, IInv, Shape
  <1>4. /\ \A d \in Waiting : chan'[d] = chan[d] /\ inbox'[chan[d]] = <<>> /\ answer'[d] = answer[d]
        /\ c \in Waiting' => inbox'[chan'[c]] = <<>> /\ answer'[c] = NoAnswer
    <2>1. CASE \E kind \in {"req", "listener"} : Open(c, kind)
      BY <1>1, <1>2, <2>1 DEF Open, IInv, Shape, Waiting
    <2>2. CASE Send(c)
      BY ZenonT(30), <1>1, <1>2, <2>2 DEF Send, Waiting
    <2>3. CASE RecvNow(c)
      BY ZenonT(30), <1>1, <1>2, <2>3 DEF RecvNow, Waiting, IInv, Shape, Delivery, Unanswered
    <2>4. CASE \E timeout \in Timeouts : RecvPending(c, timeout)
      BY <1>1, <1>2, <2>4 DEF RecvPending, Defer, Delivery, Unanswered
    <2>5. CASE Close(c)
      BY ZenonT(30), <1>1, <1>2, <2>5 DEF Close, IInv, Shape, Waiting
    <2>6. QED
      BY ZenonT(30), <2>1, <2>2, <2>3, <2>4, <2>5 DEF Request
  <1>5. answer' \in [Clients -> [result : {"none", "TimedOut", "Message"},
                                 meta : Nat, payload : Nat]]
    <2>1. CASE UNCHANGED answer
      BY <2>1 DEF Delivery, Unanswered
    <2>2. CASE answer' = [answer EXCEPT ![c] = NoAnswer]
      BY <2>2 DEF Delivery, Unanswered, NoAnswer
    <2>3. CASE RecvNow(c)
      <3>1. inbox[chan[c]] \in Seq(Nat) /\ inbox[chan[c]] # <<>>
        BY <2>3 DEF RecvNow, MayRecv, IInv, Shape
      <3>2. recv_buf' \in Nat
        BY <2>3, <3>1, QueueOps DEF RecvNow
      <3>3. QED
        BY <2>3, <3>2 DEF RecvNow, Delivery, Unanswered, Message
    <2>4. QED
      BY <2>1, <2>2, <2>3 DEF Request, Open, Send, RecvPending, Defer, Close
  <1>6. QED
    BY ZenonT(30), <1>1, <1>2, <1>3, <1>4, <1>5
       DEF Delivery, Unanswered, NobodyMissesAMessage

\* Every step keeps Delivery.
LEMMA NextDelivery == IInv /\ Delivery /\ [Next]_vars => Delivery'
  <1> SUFFICES ASSUME IInv, Delivery, [Next]_vars
               PROVE  Delivery'
    BY ZenonT(30)
  <1>1. CASE UNCHANGED vars
    <2>1. Waiting' = Waiting
      BY <1>1 DEF vars, Waiting
    <2>2. QED
      BY <1>1, <2>1 DEF vars, Delivery, Unanswered, NobodyMissesAMessage
  <1>2. QED
    BY <1>1, InboundDelivery, DriveDelivery, RequestDelivery DEF Next

\* Delivery holds for ever.
LEMMA SpecDelivery == Spec => []Delivery
  BY SpecIInv, InitDelivery, NextDelivery, PTL DEF Spec

\* Between try_recv and register_recv no message slips through, for any number
\* of clients and packets per drive_pending.
THEOREM NobodyMissesAlways == Spec => []NobodyMissesAMessage
  BY SpecDelivery, PTL DEF Delivery

\* Taking from a queue, adding to it and leaving it alone are three things.
LEMMA QueueMoves ==
    ASSUME NEW q \in Seq(Nat), q # <<>>
    PROVE  Tail(q) # q /\ \A m \in Nat : Append(q, m) # Tail(q)
  <1> DEFINE n == Len(q)
             t == Len(Tail(q))
             a(m) == Len(Append(q, m))
  <1>1. t = n - 1 /\ n \in Nat
    OBVIOUS
  <1>2. \A m \in Nat : a(m) = n + 1
    OBVIOUS
  <1>3. t # n /\ \A m \in Nat : a(m) # t
    <2> HIDE DEF n, t, a
    <2>1. QED
      BY <1>1, <1>2
  <1>4. QED
    BY ZenonT(30), <1>3

\* What a step does to the channel and the answer of one client.
DeliveredTo(c) ==
    /\ Taken(c) => /\ answer'[c].result = "Message"
                   /\ answer'[c].meta = Head(inbox[chan[c]])
                   /\ Fulfilled \subseteq {chan[c]} => answer'[c].payload = answer'[c].meta
    /\ answer'[c] # answer[c] /\ answer'[c].result = "Message" => Taken(c)

\* Nothing is delivered where the channel's messages stay and the answer stays.
LEMMA NothingDelivered ==
    ASSUME IInv, NEW c \in Clients,
           chan[c] # None /\ chan'[c] = chan[c] =>
              \/ inbox'[chan[c]] = inbox[chan[c]]
              \/ \E m \in Nat : inbox'[chan[c]] = Append(inbox[chan[c]], m),
           answer'[c] = answer[c] \/ answer'[c] = NoAnswer
    PROVE  DeliveredTo(c)
  <1>1. chan[c] # None => inbox[chan[c]] \in Seq(Nat)
    BY DEF IInv, Shape
  <1>2. ~Taken(c)
    BY <1>1, QueueMoves DEF Taken
  <1>3. NoAnswer.result # "Message"
    BY DEF NoAnswer
  <1>4. QED
    BY <1>2, <1>3 DEF DeliveredTo

\* drive_pending delivers to the owner of each message it takes.
LEMMA DriveDelivers ==
    ASSUME IInv, Delivery, DrivePending, NEW c \in Clients
    PROVE  DeliveredTo(c)
  <1>1. PICK last \in IF Fulfilled = {} THEN {recv_buf} ELSE {Head(inbox[h]) : h \in Fulfilled} :
          answer' = [d \in Clients |->
            IF d \in Waiting /\ chan[d] \in Fulfilled
            THEN Message(Head(inbox[chan[d]]), last)
            ELSE IF d \in Waiting /\ chan[d] \in Expired THEN TimedOut ELSE answer[d]]
    BY ZenonT(30) DEF DrivePending
  <1>2. /\ chan' = chan
        /\ inbox' = [h \in Handle |-> IF h \in Fulfilled THEN Tail(inbox[h]) ELSE inbox[h]]
    BY DEF DrivePending
  <1>3. ASSUME c \in Waiting, chan[c] \in Fulfilled
        PROVE  DeliveredTo(c)
    <2>1. chan[c] # None /\ chan[c] \in Handle /\ inbox[chan[c]] # <<>>
      BY <1>3 DEF IInv, Owned, Shape, Fulfilled
    <2>2. Taken(c)
      BY <1>2, <1>3, <2>1 DEF Taken
    <2>3. answer'[c] = Message(Head(inbox[chan[c]]), last)
      BY ZenonT(30), <1>1, <1>3
    <2>4. /\ answer'[c].result = "Message"
          /\ answer'[c].meta = Head(inbox[chan[c]])
          /\ answer'[c].payload = last
      BY <2>3 DEF Message
    <2>5. Fulfilled \subseteq {chan[c]} => last = Head(inbox[chan[c]])
      BY <1>1, <1>3
    <2>6. QED
      BY <2>2, <2>4, <2>5 DEF DeliveredTo
  <1>4. ASSUME ~(c \in Waiting /\ chan[c] \in Fulfilled)
        PROVE  DeliveredTo(c)
    <2>1. answer'[c] = answer[c] \/ answer'[c] = TimedOut
      BY ZenonT(30), <1>1, <1>4
    <2>2. TimedOut.result # "Message"
      BY DEF TimedOut
    <2>3. ASSUME chan[c] # None PROVE chan[c] \notin Fulfilled
      <3>1. \A h \in Fulfilled : \E d \in Waiting : chan[d] = h
        BY DEF IInv, TableIsWaiting, Fulfilled
      <3>2. QED
        BY <1>4, <2>3, <3>1 DEF IInv, Owned, Waiting
    <2>4. chan[c] # None => inbox'[chan[c]] = inbox[chan[c]] /\ inbox[chan[c]] \in Seq(Nat)
      BY <1>2, <2>3 DEF IInv, Shape
    <2>5. ~Taken(c)
      BY <2>4, QueueMoves DEF Taken
    <2>6. QED
      BY <2>1, <2>2, <2>5 DEF DeliveredTo
  <1>5. QED
    BY <1>3, <1>4

\* A request delivers to the client that made it, and only what is its own.
LEMMA RequestDelivers ==
    ASSUME IInv, Delivery, NEW d \in Clients, Request(d), NEW c \in Clients
    PROVE  DeliveredTo(c)
  <1>0. /\ inbox \in [Handle -> Seq(Nat)]
        /\ answer \in [Clients -> [result : {"none", "TimedOut", "Message"},
                                   meta : Nat, payload : Nat]]
        /\ chan \in [Clients -> Handle \cup {None}]
    BY DEF IInv, Shape, Delivery, Unanswered
  <1>1. CASE \E kind \in {"req", "listener"} : Open(d, kind)
    <2>1. PICK h \in Handle \ DOMAIN bound : inbox' = [inbox EXCEPT ![h] = <<>>]
      BY ZenonT(30), <1>1 DEF Open
    <2>2. UNCHANGED answer
      BY <1>1 DEF Open
    <2>3. chan[c] # None => chan[c] \in DOMAIN bound /\ chan[c] \in Handle
      BY <1>0 DEF IInv, Owned
    <2>4. chan[c] # None => inbox'[chan[c]] = inbox[chan[c]]
      BY <1>0, <2>1, <2>3
    <2>5. QED
      BY <2>2, <2>4, NothingDelivered
  <1>2. CASE Send(d)
    BY <1>2, NothingDelivered DEF Send
  <1>3. CASE RecvNow(d)
    <2>1. /\ chan[d] # None /\ chan' = chan
          /\ inbox[chan[d]] # <<>>
          /\ answer' = [answer EXCEPT ![d] = Message(recv_buf', recv_buf')]
          /\ recv_buf' = Head(inbox[chan[d]])
          /\ inbox' = [inbox EXCEPT ![chan[d]] = Tail(@)]
      BY <1>3 DEF RecvNow, MayRecv
    <2>2. CASE c = d
      <3>1. Taken(c)
        BY <1>0, <2>1, <2>2 DEF Taken
      <3>2. answer'[c] = Message(recv_buf', recv_buf')
        BY ZenonT(30), <1>0, <2>1, <2>2
      <3>3. /\ answer'[c].result = "Message"
            /\ answer'[c].meta = recv_buf' /\ answer'[c].payload = recv_buf'
        BY <3>2 DEF Message
      <3>4. QED
        BY <2>1, <2>2, <3>1, <3>3 DEF DeliveredTo
    <2>3. CASE c # d
      <3>1. answer'[c] = answer[c]
        BY ZenonT(30), <1>0, <2>1, <2>3
      <3>2. chan[c] # None => chan[c] # chan[d]
        BY ZenonT(30), <2>3 DEF IInv, Owned
      <3>3. chan[c] # None => inbox'[chan[c]] = inbox[chan[c]]
        BY <1>0, <2>1, <3>2
      <3>4. QED
        BY <3>1, <3>3, NothingDelivered
    <2>4. QED
      BY <2>2, <2>3
  <1>4. CASE \E timeout \in Timeouts : RecvPending(d, timeout)
    <2>1. inbox' = inbox /\ answer' = [answer EXCEPT ![d] = NoAnswer]
      BY <1>4 DEF RecvPending, Defer
    <2>2. answer'[c] = answer[c] \/ answer'[c] = NoAnswer
      BY ZenonT(30), <1>0, <2>1
    <2>3. QED
      BY <2>1, <2>2, NothingDelivered
  <1>5. CASE Close(d)
    <2>1. /\ chan[d] # None /\ UNCHANGED answer
          /\ inbox' = [inbox EXCEPT ![chan[d]] = <<>>]
          /\ chan' = [chan EXCEPT ![d] = None]
      BY <1>5 DEF Close
    <2>2. chan[c] # None /\ chan'[c] = chan[c] => chan[c] # chan[d]
      BY <1>0, <2>1 DEF IInv, Owned
    <2>3. chan[c] # None /\ chan'[c] = chan[c] => inbox'[chan[c]] = inbox[chan[c]]
      BY <1>0, <2>1, <2>2
    <2>4. QED
      BY <2>1, <2>3, NothingDelivered
  <1>6. QED
    BY ZenonT(30), <1>1, <1>2, <1>3, <1>4, <1>5 DEF Request

\* Every message reaches the client it came for, with its own payload when it
\* is the only one of its round, for any clients, handles and packets per
\* drive_pending.
THEOREM DeliveredToItsOwnerAlways == Spec => DeliveredToItsOwner
  <1>1. ASSUME IInv, Delivery, [Next]_vars, NEW c \in Clients
        PROVE  DeliveredTo(c)
    <2>1. CASE UNCHANGED vars
      BY <1>1, <2>1, NothingDelivered DEF vars
    <2>2. CASE Tick
      BY <1>1, <2>2, NothingDelivered DEF Tick
    <2>3. CASE Inbound
      <3>1. PICK h \in DOMAIN bound : inbox' = [inbox EXCEPT ![h] = Append(@, arrived + 1)]
        BY ZenonT(30), <2>3 DEF Inbound
      <3>2. UNCHANGED <<chan, answer>> /\ arrived + 1 \in Nat
        BY <1>1, <2>3 DEF Inbound, IInv, Shape
      <3>3. chan[c] # None => chan[c] \in Handle
        BY <1>1 DEF IInv, Shape
      <3>4. chan[c] # None => \/ inbox'[chan[c]] = inbox[chan[c]]
                              \/ inbox'[chan[c]] = Append(inbox[chan[c]], arrived + 1)
        BY <1>1, <3>1, <3>3 DEF IInv, Shape
      <3>5. QED
        BY <1>1, <3>2, <3>4, NothingDelivered
    <2>4. QED
      BY <1>1, <2>1, <2>2, <2>3, DriveDelivers, RequestDelivers DEF Next
  <1>2. IInv /\ Delivery /\ [Next]_vars
          => [\A c \in Clients :
                /\ Taken(c) => /\ answer'[c].result = "Message"
                               /\ answer'[c].meta = Head(inbox[chan[c]])
                               /\ Fulfilled \subseteq {chan[c]} => answer'[c].payload = answer'[c].meta
                /\ answer'[c] # answer[c] /\ answer'[c].result = "Message" => Taken(c)]_vars
    BY ZenonT(30), <1>1 DEF DeliveredTo
  <1>3. QED
    BY <1>2, SpecIInv, SpecDelivery, PTL DEF Spec, DeliveredToItsOwner

\* A receive call times out only at its own deadline, and only without a message.
THEOREM HonestTimeoutAlways == Spec => HonestTimeout
  <1>1. ASSUME IInv, Delivery, [Next]_vars, NEW c \in Clients, c \in Waiting,
               answer'[c] = TimedOut
        PROVE  /\ call[c].timeout # 0 /\ now >= call[c].since + call[c].timeout
               /\ inbox[chan[c]] = <<>>
    <2>1. answer'[c] # answer[c]
      BY <1>1 DEF Delivery, Unanswered, TimedOut, NoAnswer
    <2>2. ASSUME NEW d \in Clients, Request(d) PROVE FALSE
      <3>1. d # c
        BY <1>1, <2>2 DEF Request, Open, Send, RecvNow, RecvPending, MayRecv, MayCall, Close
      <3>2. answer \in [Clients -> [result : {"none", "TimedOut", "Message"},
                                    meta : Nat, payload : Nat]]
        BY <1>1 DEF Delivery, Unanswered
      <3>3. \/ UNCHANGED answer
            \/ \E a : answer' = [answer EXCEPT ![d] = a]
        BY ZenonT(30), <2>2 DEF Request, Open, Send, RecvNow, RecvPending, Defer, Close
      <3>4. QED
        BY ZenonT(30), <1>1, <2>1, <3>1, <3>2, <3>3
    <2>3. DrivePending
      BY ZenonT(30), <1>1, <2>1, <2>2 DEF Next, vars, Inbound, Tick
    <2>4. chan[c] \in Expired
      <3>1. PICK last :
              answer' = [d \in Clients |->
                IF d \in Waiting /\ chan[d] \in Fulfilled
                THEN Message(Head(inbox[chan[d]]), last)
                ELSE IF d \in Waiting /\ chan[d] \in Expired THEN TimedOut ELSE answer[d]]
        BY ZenonT(30), <2>3 DEF DrivePending
      <3>2. \A m, p : Message(m, p) # TimedOut
        BY DEF Message, TimedOut
      <3> QED
        BY ZenonT(30), <1>1, <2>1, <3>1, <3>2
    <2>5. QED
      BY <1>1, <2>4 DEF Expired, IInv, Deadlines
  <1>2. IInv /\ Delivery /\ [Next]_vars
          => [\A c \in Clients :
                c \in Waiting /\ answer'[c] = TimedOut
                  => /\ call[c].timeout # 0 /\ now >= call[c].since + call[c].timeout
                     /\ inbox[chan[c]] = <<>>]_vars
    BY <1>1
  <1>3. QED
    BY <1>2, SpecIInv, SpecDelivery, PTL DEF Spec, HonestTimeout

HIDE ConfigAssumption

-----------------------------------------------------------------------------
\* Frames are numbers.
Numbers ==
    /\ rx_buf \in Nat
    /\ written \in Nat
    /\ rx \in Nat
    /\ received \in Nat

\* The frame of a status that is still pending has not been drained yet.
DrainedOnce == i2cs24 \in DataStatus => rx < rx_buf /\ received < rx_buf

\* The inductive invariant.  Order needs that the buffer holds the youngest frame
\* of the bus and that its status goes with the first drain.
RuntimeInv ==
    /\ Numbers
    /\ LatchedIsSignalled
    /\ FramesInOrder
    /\ rx_buf = written
    /\ DrainedOnce

USE MaxFramesAssumption

\* A server just started satisfies the invariant.
LEMMA RuntimeInitInv == RuntimeInit => RuntimeInv
  BY DEF RuntimeInit, TargetInit, RuntimeInv, Numbers, LatchedIsSignalled, FramesInOrder,
         DrainedOnce, DataStatus

\* The bus only adds a frame to the buffer, younger than any before.
LEMMA BusStep ==
    ASSUME RuntimeInv, Bus, UNCHANGED rvars
    PROVE  RuntimeInv'
  <1> USE DEF RuntimeInv, Numbers, LatchedIsSignalled, FramesInOrder,
              DrainedOnce, DataStatus, rvars, Raise
  <1>1. CASE \E s \in DataStatus : BusData(s)
    BY <1>1 DEF BusData
  <1>2. CASE BusMatch \/ BusMatchStop \/ BusInactive
    BY <1>2 DEF BusMatch, BusMatchStop, BusInactive
  <1>3. CASE BusWaitTx \/ BusReadStop \/ BusError
    BY <1>3 DEF BusWaitTx, BusReadStop, BusError
  <1>4. QED
    BY <1>1, <1>2, <1>3 DEF Bus

\* A status with data stands for the event that drains the buffer.
LEMMA IrqStep ==
    ASSUME RuntimeInv, IrqArmed
    PROVE  RuntimeInv'
  <1> USE DEF RuntimeInv, IrqArmed, HandleSlaveInterrupt
  <1>1. Numbers'
    BY DEF Numbers
  <1>2. LatchedIsSignalled'
    BY DEF LatchedIsSignalled, ShouldWake
  <1>3. FramesInOrder'
    BY DEF FramesInOrder, Numbers, HalEvent, DrainedOnce
  <1>4. DrainedOnce'
    BY ZenonT(30) DEF DrainedOnce, DataStatus
  <1>5. QED
    BY <1>1, <1>2, <1>3, <1>4

\* Every request of the client keeps it.
LEMMA ServeStep ==
    ASSUME RuntimeInv, Serve
    PROVE  RuntimeInv'
  <1> USE DEF RuntimeInv, Numbers, LatchedIsSignalled, FramesInOrder,
              DrainedOnce, DataStatus, tvars, Reply
  <1>1. CASE ServeTransaction
    BY <1>1 DEF ServeTransaction, MasterTransfer, RecoverBus
  <1>2. CASE ServeDevice
    BY <1>2 DEF ServeDevice, ConfigureSlave, EnableSlave, DisableSlave, SlaveWrite
  <1>3. CASE ServeEnableNotification
    BY <1>3 DEF ServeEnableNotification
  <1>4. CASE ServeDisableNotification
    BY <1>4 DEF ServeDisableNotification
  <1>5. CASE ServeSlaveReceive
    BY <1>5 DEF ServeSlaveReceive
  <1>6. QED
    BY <1>1, <1>2, <1>3, <1>4, <1>5 DEF Serve

\* So does every step.
LEMMA RuntimeNextInv == RuntimeInv /\ [RuntimeNext]_ivars => RuntimeInv'
  <1> SUFFICES ASSUME RuntimeInv, [RuntimeNext]_ivars
               PROVE  RuntimeInv'
    OBVIOUS
  <1>1. CASE \E op \in Op : SendRequest(op)
    BY <1>1 DEF SendRequest, RuntimeInv, Numbers, LatchedIsSignalled, FramesInOrder,
                DrainedOnce, tvars
  <1>2. CASE UNCHANGED ivars
    BY <1>2 DEF ivars, tvars, rvars, RuntimeInv, Numbers, LatchedIsSignalled,
                FramesInOrder, DrainedOnce
  <1>3. QED
    BY <1>1, <1>2, BusStep, IrqStep, ServeStep DEF RuntimeNext

\* The invariant holds for ever.
LEMMA RuntimeInvariance == RuntimeSpec => []RuntimeInv
  BY RuntimeInitInv, RuntimeNextInv, PTL DEF RuntimeSpec

\* Between the interrupt branch and SlaveReceive no wake-up is lost, for any
\* number of frames and any interleaving.
THEOREM LatchedIsSignalledAlways == RuntimeSpec => []LatchedIsSignalled
  BY RuntimeInvariance, PTL DEF RuntimeInv

\* No frame is handed to the owner twice or after a younger one.
THEOREM FramesInOrderAlways == RuntimeSpec => []FramesInOrder
  BY RuntimeInvariance, PTL DEF RuntimeInv

----------------------------------------------------------------------------
(* Refinement *)

\* The empty latch maps to the empty box.
LEMMA RefinesInit == RuntimeInit => Latch!Init
  BY DEF RuntimeInit, Latch!Init

\* A frame the interrupt branch latches is a Put: the buffer is younger than
\* both the latch and what was handed over.
LEMMA RefinesIrq ==
    ASSUME RuntimeInv, IrqArmed
    PROVE  [Latch!Next]_<<rx, user, received>>
  <1> USE DEF RuntimeInv, IrqArmed
  <1>1. CASE HalEvent = "SlaveWrRecvd"
    <2>1. rx < rx_buf /\ received < rx_buf
      BY <1>1 DEF HalEvent, DrainedOnce
    <2>2. rx' = rx_buf /\ rx' # 0 /\ user' = TRUE /\ UNCHANGED received
      BY <1>1, <2>1 DEF ShouldWake, Numbers
    <2>3. QED
      BY ZenonT(30), <2>1, <2>2 DEF Latch!Next, Latch!Put, Numbers
  <1>2. CASE HalEvent # "SlaveWrRecvd"
    BY <1>2 DEF Latch!Next, Latch!Wake, ShouldWake, LatchedIsSignalled
  <1>3. QED
    BY ZenonT(30), <1>1, <1>2

\* Every step of the loop is a step of the box or a stutter.
LEMMA RefinesNext == RuntimeInv /\ [RuntimeNext]_ivars => [Latch!Next]_<<rx, user, received>>
  <1> SUFFICES ASSUME RuntimeInv, [RuntimeNext]_ivars
               PROVE  [Latch!Next]_<<rx, user, received>>
    OBVIOUS
  <1>1. CASE (Bus /\ UNCHANGED rvars) \/ UNCHANGED ivars
    BY <1>1 DEF rvars, ivars
  <1>2. CASE IrqArmed
    BY <1>2, RefinesIrq
  <1>3. CASE ServeTransaction \/ ServeDevice \/ ServeEnableNotification
    BY <1>3 DEF ServeTransaction, ServeDevice, ServeEnableNotification
  <1>4. CASE ServeDisableNotification
    BY <1>4 DEF ServeDisableNotification, Latch!Next, Latch!Discard
  <1>5. CASE ServeSlaveReceive
    BY <1>5 DEF ServeSlaveReceive, Latch!Next, Latch!Take, Latch!TakeNothing
  <1>6. CASE \E op \in Op : SendRequest(op)
    BY <1>6 DEF SendRequest
  <1>7. QED
    BY <1>1, <1>2, <1>3, <1>4, <1>5, <1>6 DEF RuntimeNext, Serve

\* The latch of the loop, with the signal and what the owner got, implements
\* the one-frame box in which the newest wins.
THEOREM RefinesSlaveLatchAlways == RuntimeSpec => RefinesSlaveLatch
  <1>1. RuntimeInit => Latch!Init
    BY RefinesInit
  <1>2. RuntimeInv /\ [RuntimeNext]_ivars => [Latch!Next]_<<rx, user, received>>
    BY RefinesNext
  <1>3. QED
    BY <1>1, <1>2, RuntimeInvariance, PTL DEF RuntimeSpec, RefinesSlaveLatch, Latch!Spec

=============================================================================
