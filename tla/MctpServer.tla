----------------------------- MODULE MctpServer -----------------------------
(***************************************************************************)
(* The MCTP service: the table of deferred receive calls of                *)
(* services/mctp/server/src/server.rs, the request dispatch and            *)
(* drive_pending of services/mctp/server/src/dispatch.rs, and the channels *)
(* of services/mctp/api/src/stack.rs through which clients use it.         *)
(*                                                                         *)
(* External, modelled from their use: the mctp-lib Router, which binds     *)
(* handles and keeps arrived messages per handle, and the platform, which  *)
(* feeds packets, calls drive_pending after them and on timer ticks, and   *)
(* answers the client whose call is deferred on a handle.  Clients wait    *)
(* for every answer, and use only the handle they hold.                    *)
(*                                                                         *)
(* A message is its number, which stands for its metadata as well as for   *)
(* its payload: the server moves the two separately.                       *)
(***************************************************************************)
EXTENDS Naturals, Sequences, FiniteSets

CONSTANTS
    Clients,
    Handle,          \* AppCookies the router can give out
    MaxRequests,
    MaxListeners,
    None,            \* no handle
    Outstanding,     \* capacity of the table of deferred calls
    Timeouts,        \* timeout_millis of a receive call; 0: none
    MaxBatch,        \* packets the platform feeds before it calls drive_pending
    MaxTime,         \* bound: the clock
    MaxMsgs          \* bound: messages that arrive

\* ServerConfig: MAX_OUTSTANDING is the number of handles there can be.
ASSUME ConfigAssumption ==
    /\ MaxRequests \in Nat /\ MaxListeners \in Nat /\ Outstanding \in Nat
    /\ MaxRequests + MaxListeners <= Outstanding
    /\ Timeouts \subseteq Nat
    /\ None \notin Handle
    /\ MaxBatch \in Nat \ {0} /\ MaxTime \in Nat /\ MaxMsgs \in Nat

VARIABLES
    now,
    bound,           \* router: handles given out, each "req" or "listener"
    inbox,           \* router: messages that arrived for a handle
    arrived,         \* messages that have arrived so far
    outstanding,     \* server: handle -> deadline of the deferred call, 0: none
    recv_buf,        \* the receive buffer the platform passes in
    undriven,        \* packets and ticks since the last drive_pending
    chan,            \* client: the handle of the channel it holds, or None
    sent,            \* client: StackReqChannel::sent_tag is set
    call,            \* client: the receive call it is blocked in, or NoCall
    answer           \* client: what its last receive call returned

vars == <<now, bound, inbox, arrived, outstanding, recv_buf, undriven, chan, sent,
          call, answer>>

NoCall == [since |-> 0, timeout |-> 0, waiting |-> FALSE]
NoAnswer == [result |-> "none", meta |-> 0, payload |-> 0]
TimedOut == [result |-> "TimedOut", meta |-> 0, payload |-> 0]

\* encode_recv_response.
Message(m, p) == [result |-> "Message", meta |-> m, payload |-> p]

Waiting == {c \in Clients : call[c].waiting}

TypeOK ==
    /\ now \in 0..MaxTime
    /\ DOMAIN bound \subseteq Handle
    /\ \A h \in DOMAIN bound : bound[h] \in {"req", "listener"}
    /\ inbox \in [Handle -> Seq(1..MaxMsgs)]
    /\ arrived \in 0..MaxMsgs
    /\ DOMAIN outstanding \subseteq Handle
    /\ \A h \in DOMAIN outstanding : outstanding[h] \in Nat
    /\ recv_buf \in 0..MaxMsgs
    /\ undriven \in 0..MaxBatch
    /\ chan \in [Clients -> Handle \cup {None}]
    /\ sent \in [Clients -> BOOLEAN]
    /\ call \in [Clients -> [since : Nat, timeout : Nat, waiting : BOOLEAN]]
    /\ answer \in [Clients -> [result : {"none", "TimedOut", "Message"},
                               meta : 0..MaxMsgs, payload : 0..MaxMsgs]]

Init ==
    /\ now = 0
    /\ bound = [h \in {} |-> "req"]
    /\ inbox = [h \in Handle |-> <<>>]
    /\ arrived = 0
    /\ outstanding = [h \in {} |-> 0]
    /\ recv_buf = 0
    /\ undriven = 0
    /\ chan = [c \in Clients |-> None]
    /\ sent = [c \in Clients |-> FALSE]
    /\ call = [c \in Clients |-> NoCall]
    /\ answer = [c \in Clients |-> NoAnswer]

----------------------------------------------------------------------------
(* The table of deferred calls *)

Without(hs) == [h \in DOMAIN outstanding \ hs |-> outstanding[h]]

\* Mutant of RegisterRecv: the last place of the table is not used.
RegisterOneLess(h, timeout) ==
    outstanding' =
        IF h \in DOMAIN outstanding \/ Cardinality(DOMAIN outstanding) + 1 >= Outstanding
        THEN outstanding
        ELSE [k \in DOMAIN outstanding \cup {h} |->
                IF k = h THEN (IF timeout # 0 THEN now + timeout ELSE 0) ELSE outstanding[k]]

\* register_recv: an entry that is there is kept, a full table refuses.  The
\* dispatcher ignores which of them happened.
RegisterRecv(h, timeout) ==
    outstanding' =
        IF h \in DOMAIN outstanding \/ Cardinality(DOMAIN outstanding) >= Outstanding
        THEN outstanding
        ELSE [k \in DOMAIN outstanding \cup {h} |->
                IF k = h THEN (IF timeout # 0 THEN now + timeout ELSE 0) ELSE outstanding[k]]

\* update: calls with a message, and calls past their deadline without one.
Fulfilled == {h \in DOMAIN outstanding : inbox[h] # <<>>}

\* Mutant of Expired: the deadline itself is not past.
ExpiredLate ==
    {h \in DOMAIN outstanding : inbox[h] = <<>> /\ outstanding[h] # 0 /\ now > outstanding[h]}

\* Mutant of Expired: a call without a deadline expires too.
ExpiredWithoutDeadline ==
    {h \in DOMAIN outstanding : inbox[h] = <<>> /\ now >= outstanding[h]}

Expired ==
    {h \in DOMAIN outstanding : inbox[h] = <<>> /\ outstanding[h] # 0 /\ now >= outstanding[h]}

----------------------------------------------------------------------------
(* The platform *)

\* drive_pending.  update takes the metadata of one message per fulfilled call
\* and copies each payload to the start of the same buffer; the answers are
\* encoded from that buffer afterwards, so that all of them carry the payload
\* that was copied last.  The order of the table is not fixed.
DrivePending ==
    /\ undriven > 0
    /\ undriven' = 0
    /\ \E last \in IF Fulfilled = {} THEN {recv_buf} ELSE {Head(inbox[h]) : h \in Fulfilled} :
          /\ recv_buf' = last
          /\ answer' = [c \in Clients |->
                IF c \in Waiting /\ chan[c] \in Fulfilled
                THEN Message(Head(inbox[chan[c]]), last)
                ELSE IF c \in Waiting /\ chan[c] \in Expired THEN TimedOut ELSE answer[c]]
    /\ call' = [c \in Clients |-> IF chan[c] \in Fulfilled \cup Expired THEN NoCall ELSE call[c]]
    /\ sent' = [c \in Clients |-> sent[c] /\ ~(c \in Waiting /\ chan[c] \in Fulfilled)]
    /\ inbox' = [h \in Handle |-> IF h \in Fulfilled THEN Tail(inbox[h]) ELSE inbox[h]]
    /\ outstanding' = Without(Fulfilled \cup Expired)
    /\ UNCHANGED <<now, bound, arrived, chan>>

\* Router: a packet completes a message for a bound handle.  A request handle
\* takes one response per request.
Inbound ==
    /\ undriven < MaxBatch
    /\ arrived < MaxMsgs
    /\ \E h \in DOMAIN bound :
          /\ bound[h] = "req" => inbox[h] = <<>> /\ \E c \in Clients : chan[c] = h /\ sent[c]
          /\ inbox' = [inbox EXCEPT ![h] = Append(@, arrived + 1)]
    /\ arrived' = arrived + 1
    /\ undriven' = undriven + 1
    /\ UNCHANGED <<now, bound, outstanding, recv_buf, chan, sent, call, answer>>

Tick ==
    /\ undriven = 0
    /\ now < MaxTime
    /\ now' = now + 1
    /\ undriven' = 1
    /\ UNCHANGED <<bound, inbox, arrived, outstanding, recv_buf, chan, sent, call, answer>>

----------------------------------------------------------------------------
(* Requests.  The platform serves one when drive_pending is not due. *)

MayCall(c) == undriven = 0 /\ c \notin Waiting

\* Router: room for one more handle of a kind.
Of(kind) == {h \in DOMAIN bound : bound[h] = kind}
HasRoom(kind) == Cardinality(Of(kind)) < (IF kind = "req" THEN MaxRequests ELSE MaxListeners)

\* Stack::req and Stack::listener; without room the client gets NoSpace.
Open(c, kind) ==
    /\ MayCall(c)
    /\ chan[c] = None
    /\ HasRoom(kind)
    /\ \E h \in Handle \ DOMAIN bound :
          /\ bound' = [k \in DOMAIN bound \cup {h} |-> IF k = h THEN kind ELSE bound[k]]
          /\ inbox' = [inbox EXCEPT ![h] = <<>>]
          /\ chan' = [chan EXCEPT ![c] = h]
    /\ sent' = [sent EXCEPT ![c] = FALSE]
    /\ UNCHANGED <<now, arrived, outstanding, recv_buf, undriven, call, answer>>

\* StackReqChannel::send: refused while a response is due, also after a receive
\* call that timed out.
Send(c) ==
    /\ MayCall(c)
    /\ chan[c] # None
    /\ bound[chan[c]] = "req"
    /\ ~sent[c]
    /\ sent' = [sent EXCEPT ![c] = TRUE]
    /\ UNCHANGED <<now, bound, inbox, arrived, outstanding, recv_buf, undriven, chan, call,
                   answer>>

MayRecv(c) == MayCall(c) /\ chan[c] # None /\ (bound[chan[c]] = "req" => sent[c])

\* Mutant of RecvNow: try_recv does not copy the payload.
RecvNowStale(c) ==
    /\ MayRecv(c)
    /\ inbox[chan[c]] # <<>>
    /\ answer' = [answer EXCEPT ![c] = Message(Head(inbox[chan[c]]), recv_buf)]
    /\ inbox' = [inbox EXCEPT ![chan[c]] = Tail(@)]
    /\ sent' = [sent EXCEPT ![c] = FALSE]
    /\ UNCHANGED <<now, bound, arrived, outstanding, recv_buf, undriven, chan, call>>

\* MctpOp::Recv when try_recv has a message.
RecvNow(c) ==
    /\ MayRecv(c)
    /\ inbox[chan[c]] # <<>>
    /\ recv_buf' = Head(inbox[chan[c]])
    /\ answer' = [answer EXCEPT ![c] = Message(recv_buf', recv_buf')]
    /\ inbox' = [inbox EXCEPT ![chan[c]] = Tail(@)]
    /\ sent' = [sent EXCEPT ![c] = FALSE]
    /\ UNCHANGED <<now, bound, arrived, outstanding, undriven, chan, call>>

Defer(c, timeout) ==
    /\ now + timeout <= MaxTime
    /\ RegisterRecv(chan[c], timeout)
    /\ call' = [call EXCEPT ![c] = [since |-> now, timeout |-> timeout, waiting |-> TRUE]]
    /\ answer' = [answer EXCEPT ![c] = NoAnswer]
    /\ UNCHANGED <<now, bound, inbox, arrived, recv_buf, undriven, chan, sent>>

\* Mutant of RecvPending: the call is deferred without looking first.
RecvAlwaysPending(c, timeout) == MayRecv(c) /\ Defer(c, timeout)

\* MctpOp::Recv when it has none: the call is deferred.
RecvPending(c, timeout) ==
    /\ MayRecv(c)
    /\ inbox[chan[c]] = <<>>
    /\ Defer(c, timeout)

\* Dropping a channel unbinds its handle.
Close(c) ==
    /\ MayCall(c)
    /\ chan[c] # None
    /\ bound' = [h \in DOMAIN bound \ {chan[c]} |-> bound[h]]
    /\ inbox' = [inbox EXCEPT ![chan[c]] = <<>>]
    /\ outstanding' = Without({chan[c]})
    /\ chan' = [chan EXCEPT ![c] = None]
    /\ sent' = [sent EXCEPT ![c] = FALSE]
    /\ UNCHANGED <<now, arrived, recv_buf, undriven, call, answer>>

Request(c) ==
    \/ \E kind \in {"req", "listener"} : Open(c, kind)
    \/ Send(c)
    \/ RecvNow(c)
    \/ \E timeout \in Timeouts : RecvPending(c, timeout)
    \/ Close(c)

Next ==
    \/ Inbound \/ Tick \/ DrivePending
    \/ \E c \in Clients : Request(c)

\* Time passes, and the platform calls drive_pending when it is due.
Fairness == WF_vars(Tick) /\ WF_vars(DrivePending)

Spec == Init /\ [][Next]_vars /\ Fairness

----------------------------------------------------------------------------
(* Properties *)

\* The table and the clients agree.  A blocked client is in the table, although
\* dispatch_mctp_op ignores that register_recv may refuse, so that it will be
\* answered; and nothing else is, so that update never takes a message nobody
\* waits for.
TableIsWaiting == DOMAIN outstanding = {chan[c] : c \in Waiting}

\* No client stays blocked while its message lies in the router: try_recv and
\* register_recv leave no gap for a message to slip through.
NobodyMissesAMessage ==
    undriven = 0 => \A c \in Waiting : inbox[chan[c]] = <<>>

\* In this step the oldest message of c's channel leaves the router.
Taken(c) ==
    /\ chan[c] # None /\ chan'[c] = chan[c]
    /\ inbox[chan[c]] # <<>> /\ inbox'[chan[c]] = Tail(inbox[chan[c]])

\* A message leaves the router only into the answer of the client whose channel
\* it came for, oldest first; its payload comes along, out of the buffer that
\* all calls share, unless the same drive_pending answers another call; and a
\* client is given no message but one that leaves.
DeliveredToItsOwner ==
    [][\A c \in Clients :
          /\ Taken(c) => /\ answer'[c].result = "Message"
                         /\ answer'[c].meta = Head(inbox[chan[c]])
                         /\ Fulfilled \subseteq {chan[c]} => answer'[c].payload = answer'[c].meta
          /\ answer'[c] # answer[c] /\ answer'[c].result = "Message" => Taken(c)]_vars

\* What MctpListener::recv promises: the payload of an answer belongs to its
\* metadata.  It does not hold: when two calls are ready in one drive_pending,
\* both answers carry the payload that update copied last.
RightPayload == \A c \in Clients : answer[c].meta = answer[c].payload

\* A receive call never times out before its own deadline, whatever deadlines
\* earlier calls on the same handle had, nor without one; and never while its
\* message is there.
HonestTimeout ==
    [][\A c \in Clients :
          c \in Waiting /\ answer'[c] = TimedOut
              => /\ call[c].timeout # 0 /\ now >= call[c].since + call[c].timeout
                 /\ inbox[chan[c]] = <<>>]_vars

\* A receive call with a timeout returns.
EveryTimeoutReturns ==
    \A c \in Clients : (c \in Waiting /\ call[c].timeout # 0) ~> (c \notin Waiting)
====
