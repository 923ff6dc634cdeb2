------------------------- MODULE I3cTransferProofs -------------------------
(***************************************************************************)
(* Proofs about the transfers of the I3C controller: for any number of     *)
(* commands, transfers and in-band interrupts, and any depth of the ring.  *)
(*                                                                         *)
(* Two invariants that share no state are proved side by side.  XferInv    *)
(* says, for every point the driver's thread can be at, what the queues of *)
(* the engine hold; RingInv says that the ring and the hardware's queue    *)
(* together are the last events, without a hole.                           *)
(***************************************************************************)
EXTENDS I3cTransfer, FiniteSetTheorems, TLAPS

\* A leaf that names no prover is tried with these, in this order, for so many seconds
\* each.  The repeated SMT only matters on a loaded machine, where one attempt can stall.
USE SMTT(30), SMTT(31), ZenonT(30), SMTT(32)

Transfers == [id : 0..MaxXfers, op : Ops, n : 1..MaxCmds, want : 0..1]

\* The types the transfers rest on.
XferTypes ==
    /\ engine \in {"Ready", "Halted"}
    /\ cmdq \in Seq(Cmd) /\ respq \in Seq(Response) /\ rxfifo \in Seq(Word)
    /\ threshold \in 0..MaxCmds - 1
    /\ err_due \in BOOLEAN /\ err_stat \in BOOLEAN
    /\ irqs \in {"On", "Masked", "Off"}
    /\ pending \subseteq {"RESP", "ERR"} /\ took \subseteq {"RESP", "ERR"}
    /\ xfer_faulted \in BOOLEAN
    /\ pc \in Pcs
    /\ xfer \in Transfers
    /\ ret \in Errors \cup {"Ok", "Invalid"}
    /\ recovered \in BOOLEAN
    /\ inits \in 0..MaxInits

\* Nothing is in flight and nothing was left behind.
Clean == engine = "Ready" /\ cmdq = <<>> /\ respq = <<>> /\ rxfifo = <<>>

\* The commands that wait are the last ones of the transfer, in order.
CommandsLeft ==
    /\ Len(cmdq) <= xfer.n
    /\ \A i \in 1..Len(cmdq) :
          cmdq[i] = [xfer |-> xfer.id, tid |-> xfer.n - Len(cmdq) + i - 1, want |-> xfer.want]

\* The responses are those of its first commands, in order; only the last may be an
\* error, and it is one only when the engine has halted on it.
ResponsesSoFar ==
    /\ \A i \in 1..Len(respq) : respq[i].xfer = xfer.id /\ respq[i].tid = i - 1
    /\ \A i \in 1..Len(respq) - 1 : respq[i].err = "Ok"
    /\ engine = "Ready" => \A i \in 1..Len(respq) : respq[i].err = "Ok"
    /\ \/ Len(respq) + Len(cmdq) = xfer.n
       \/ engine = "Halted" /\ Len(respq) + Len(cmdq) = xfer.n - 1
    /\ engine = "Halted" /\ Len(respq) + Len(cmdq) = xfer.n =>
           Len(respq) > 0 /\ respq[Len(respq)].err # "Ok"

\* Words, of any queue of responses.
WordsOf(q, n) == Cardinality({i \in 1..n : q[i].len = 1})

\* Every response that came with data finds its own word at its place of the FIFO.
WordsInStep ==
    /\ WordsOf(respq, Len(respq)) <= Len(rxfifo)
    /\ engine = "Ready" => WordsOf(respq, Len(respq)) = Len(rxfifo)
    /\ \A i \in 1..Len(respq) :
          respq[i].len = 1 =>
              /\ WordsOf(respq, i) \in 1..WordsOf(respq, Len(respq))
              /\ rxfifo[WordsOf(respq, i)] = [xfer |-> xfer.id, tid |-> i - 1]

\* The transfer is in the hands of the engine.
InFlight ==
    /\ threshold = xfer.n - 1
    /\ CommandsLeft /\ ResponsesSoFar /\ WordsInStep

\* What a transfer has received when its responses are in order.
Received ==
    /\ Len(got) = xfer.n
    /\ \A i \in 1..xfer.n :
          /\ got[i].resp.xfer = xfer.id /\ got[i].resp.tid = i - 1
          /\ got[i].resp.err = "Ok"
          /\ got[i].resp.len = 1 => got[i].word = [xfer |-> xfer.id, tid |-> i - 1]

\* The queues, at every point of the driver's thread.
QueuesInv ==
    /\ pc \in {"idle", "clear_status", "clear_pending", "unmask", "finish"} /\ ~xfer_faulted
           => Clean
    /\ pc \in {"drain", "rearm", "push"} =>
           ~xfer_faulted /\ Clean /\ "RESP" \notin pending
    /\ pc \in {"poll", "process"} => ~xfer_faulted /\ InFlight
    /\ pc = "poll" /\ "RESP" \in pending => Len(respq) = xfer.n
    /\ pc = "process" => took # {} /\ ("RESP" \in took => Len(respq) = xfer.n)
    /\ pc \in {"halt", "finish"} /\ took # {} /\ ret = "Ok" => pc = "finish" /\ Received
    /\ pc = "finish" => took # {}
    /\ pc \in {"reset", "resume"} /\ recovered => engine = "Halted"
    /\ pc = "resume" /\ recovered => cmdq = <<>> /\ respq = <<>> /\ rxfifo = <<>>
    /\ pc \in {"reset", "resume"} /\ took # {} => ret # "Ok"
    /\ err_due => engine = "Halted"
    /\ pc # "idle" => xfer.id > 0

\* The interrupt sources: off only in a faulted driver at rest, and masked only with
\* a latched bit where the thread will look for one.
IrqInv ==
    /\ irqs = "Off" => pc = "idle" /\ xfer_faulted
    /\ NeverDeaf

XferInv == XferTypes /\ QueuesInv /\ IrqInv

\* The slot j places after slot h.
Slot(h, j) == (h + j) % IBIQ_DEPTH

\* A ring that holds the events up to last, without a hole.
Consecutive(r, last) ==
    /\ r \in Ring
    /\ r.len <= last
    /\ \A j \in 0..r.len - 1 : r.buf[Slot(r.head, j)] = last - r.len + 1 + j
    /\ r.overflowed => r.len = IBIQ_DEPTH

\* The ring and the hardware's queue, and what the consumer expects.
RingInv ==
    /\ raised \in 0..MaxIbis /\ expect \in 1..raised + 1
    /\ ibiq \in Seq(1..MaxIbis)
    /\ Len(ibiq) <= raised
    /\ \A i \in 1..Len(ibiq) : ibiq[i] = raised - Len(ibiq) + i
    /\ Consecutive(ring, raised - Len(ibiq))
    /\ ring.overflowed \/ expect = raised - Len(ibiq) - ring.len + 1

IInv == XferInv /\ RingInv

-----------------------------------------------------------------------------
(* The ring of in-band interrupts.                                         *)

\* One sequence after another.
LEMMA Joined ==
    ASSUME NEW S, NEW a \in Seq(S), NEW b \in Seq(S)
    PROVE  /\ Len(a \o b) = Len(a) + Len(b)
           /\ \A i \in 1..Len(a) + Len(b) :
                 (a \o b)[i] = IF i <= Len(a) THEN a[i] ELSE b[i - Len(a)]
  OBVIOUS

\* A remainder of a number below twice the modulus.
LEMMA ModWraps ==
    ASSUME NEW k \in Nat, NEW d \in Nat, k < d + d
    PROVE  k % d = IF k < d THEN k ELSE k - d
OBVIOUS

\* An index wraps around at most once (the index arithmetic of IbiRing).
LEMMA SlotWraps ==
    ASSUME NEW h \in Slots, NEW j \in 0..IBIQ_DEPTH
    PROVE  /\ Slot(h, j) \in Slots
           /\ Slot(h, j) = IF h + j < IBIQ_DEPTH THEN h + j ELSE (h + j) - IBIQ_DEPTH
<1>1. /\ IBIQ_DEPTH \in Nat /\ IBIQ_DEPTH > 0
      /\ h + j \in Nat /\ h + j < IBIQ_DEPTH + IBIQ_DEPTH
  BY DepthAssumption DEF Slots
<1> DEFINE k == h + j
<1> HIDE DEF k
<1>2. k % IBIQ_DEPTH = IF k < IBIQ_DEPTH THEN k ELSE k - IBIQ_DEPTH
  BY <1>1, ModWraps DEF k
<1>3. Slot(h, j) = k % IBIQ_DEPTH
  BY DEF k, Slot
<1>4. /\ Slot(h, j) \in Slots
      /\ Slot(h, j) = IF k < IBIQ_DEPTH THEN k ELSE k - IBIQ_DEPTH
  BY <1>1, <1>2, <1>3 DEF Slots, k
<1> QED
  BY <1>4 DEF k

\* A push onto a ring without a hole leaves none, and tells when it dropped an item
\* (IbiRing::push).
LEMMA PushConsecutive ==
    ASSUME NEW r, NEW last \in Nat, Consecutive(r, last)
    PROVE  /\ Consecutive(push(r, last + 1), last + 1)
           /\ ~push(r, last + 1).overflowed => ~r.overflowed /\ push(r, last + 1).len = r.len + 1
<1> DEFINE d == IBIQ_DEPTH
           q == push(r, last + 1)
           h == IF r.len >= d THEN Slot(r.head, 1) ELSE r.head
           l == IF r.len >= d THEN d - 1 ELSE r.len
<1>1. /\ d \in Nat /\ d > 0 /\ r.head \in Slots /\ r.len \in 0..d /\ r.len <= last
      /\ r.overflowed \in BOOLEAN /\ r.buf \in [Slots -> Nat]
      /\ r.overflowed => r.len = d
  BY DepthAssumption DEF Consecutive, Ring
<1>2. /\ q.buf = [r.buf EXCEPT ![Slot(h, l)] = last + 1]
      /\ q.head = h /\ q.len = l + 1
      /\ q.overflowed \in BOOLEAN
      /\ q.overflowed <=> r.overflowed \/ r.len >= d
      /\ q = [buf |-> q.buf, head |-> q.head, len |-> q.len, overflowed |-> q.overflowed]
  BY ZenonT(30) DEF push, Slot
<1>3. /\ r.len = d => h = Slot(r.head, 1) /\ l = d - 1
      /\ r.len # d => h = r.head /\ l = r.len
  BY <1>1
<1> HIDE DEF d, q, h, l
<1>4. /\ r.head \in 0..d - 1
      /\ r.len = d => h = IF r.head + 1 < d THEN r.head + 1 ELSE (r.head + 1) - d
      /\ h \in 0..d - 1 /\ l \in 0..d - 1
  <2>1. r.head \in 0..d - 1 /\ 1 \in 0..IBIQ_DEPTH
    BY <1>1 DEF d, Slots
  <2>2. Slot(r.head, 1) = IF r.head + 1 < d THEN r.head + 1 ELSE (r.head + 1) - d
    BY ZenonT(30), <2>1, <1>1, SlotWraps DEF d
  <2>3. r.len = d => h = IF r.head + 1 < d THEN r.head + 1 ELSE (r.head + 1) - d
    BY <2>2, <1>3
  <2> QED
    BY <2>1, <2>3, <1>1, <1>3
<1>5. ASSUME NEW j \in 0..d - 1
      PROVE  /\ Slot(h, j) \in Slots
             /\ Slot(h, j) = IF h + j < d THEN h + j ELSE (h + j) - d
  <2>1. h \in Slots /\ j \in 0..IBIQ_DEPTH
    BY <1>1, <1>4 DEF d, Slots
  <2> QED
    BY <2>1, SlotWraps DEF d
<1>6. ASSUME NEW j \in 0..d - 1
      PROVE  Slot(r.head, j) = IF r.head + j < d THEN r.head + j ELSE (r.head + j) - d
  <2>1. j \in 0..IBIQ_DEPTH
    BY <1>1 DEF d
  <2> QED
    BY <2>1, <1>1, SlotWraps DEF d
<1>7. q \in Ring
  <2>1. q.buf \in [Slots -> Nat]
    BY <1>1, <1>2, <1>4, <1>5
  <2>2. q.head \in Slots /\ q.len \in 0..d
    BY <1>1, <1>2, <1>4 DEF d, Slots
  <2> QED
    BY <2>1, <2>2, <1>2 DEF Ring, d
<1>8. ASSUME NEW j \in 0..q.len - 1 PROVE q.buf[Slot(q.head, j)] = (last + 1) - q.len + 1 + j
  <2>1. j \in 0..l /\ j \in 0..d - 1
    BY <1>2, <1>4, <1>1
  <2>2. CASE j = l
    BY <2>2, <1>1, <1>2, <1>4, <1>5
  <2>3. CASE j # l
    <3>1. Slot(h, j) # Slot(h, l)
      <4>1. /\ Slot(h, j) = IF h + j < d THEN h + j ELSE (h + j) - d
            /\ Slot(h, l) = IF h + l < d THEN h + l ELSE (h + l) - d
        BY ZenonT(30), <2>1, <1>4, <1>5
      <4>2. \A x, y, z, m \in Nat :
              /\ x < m /\ y < m /\ z < m /\ y # z
              => (IF x + y < m THEN x + y ELSE (x + y) - m)
                   # (IF x + z < m THEN x + z ELSE (x + z) - m)
        OBVIOUS
      <4>3. h \in Nat /\ j \in Nat /\ l \in Nat /\ h < d /\ j < d /\ l < d
        BY <2>1, <1>1, <1>4
      <4> QED
        BY ZenonT(30), <4>1, <4>2, <4>3, <2>3, <1>1
    <3>2. q.buf[Slot(q.head, j)] = r.buf[Slot(h, j)]
      BY <3>1, <2>1, <1>1, <1>2, <1>5
    <3>3. CASE r.len = d
      <4>1. j + 1 \in 0..r.len - 1 /\ j + 1 \in 0..d - 1
        BY <2>1, <2>3, <3>3, <1>1, <1>3, <1>4
      <4>2. r.buf[Slot(r.head, j + 1)] = last - r.len + 1 + (j + 1)
        BY <4>1 DEF Consecutive
      <4>3. Slot(r.head, j + 1) = Slot(h, j)
        <5> DEFINE i == j + 1
        <5>1. Slot(r.head, i) = IF r.head + i < d THEN r.head + i ELSE (r.head + i) - d
          BY <4>1, <1>6
        <5>2. Slot(h, j) = IF h + j < d THEN h + j ELSE (h + j) - d
          BY <2>1, <1>5
        <5> QED
          BY <5>1, <5>2, <4>1, <2>1, <3>3, <1>1, <1>4
      <4> QED
        BY <4>2, <4>3, <3>2, <3>3, <2>1, <1>1, <1>2, <1>3, <1>4
    <3>4. CASE r.len # d
      <4>1. j \in 0..r.len - 1 /\ h = r.head
        BY <2>1, <2>3, <3>4, <1>1, <1>3, <1>4
      <4>2. r.buf[Slot(r.head, j)] = last - r.len + 1 + j
        BY <4>1 DEF Consecutive
      <4> QED
        BY <4>1, <4>2, <3>2, <3>4, <2>1, <1>1, <1>2, <1>3, <1>4
    <3> QED
      BY <3>3, <3>4
  <2> QED
    BY <2>2, <2>3
<1>9. q.len <= last + 1 /\ (q.overflowed => q.len = d)
  <2>1. q.overflowed => r.len = d
    BY <1>1, <1>2
  <2>2. r.len = d => q.len = d
    BY <1>1, <1>2, <1>3
  <2>3. q.len <= last + 1
    BY <1>1, <1>2, <1>3, <1>4
  <2> QED
    BY <2>1, <2>2, <2>3, ZenonT(30)
<1>10. ~q.overflowed => ~r.overflowed /\ q.len = r.len + 1
  BY <1>1, <1>2, <1>3, <1>4
<1> QED
  <2>1. Consecutive(q, last + 1)
    BY <1>7, <1>8, <1>9, ZenonT(30) DEF Consecutive, d
  <2> QED
    BY <2>1, <1>10, ZenonT(30) DEF q

\* A set of numbers that is not empty has a least element.
LEMMA LeastElement ==
    ASSUME NEW T, T \subseteq Nat, T # {}
    PROVE  \E m \in T : \A k \in T : m <= k
<1>1. PICK m \in T : \A k \in T : ~(<<k, m>> \in OpToRel(<, Nat))
  BY NatLessThanWellFounded, WFMin, ZenonT(30)
<1>2. \A k \in T : ~(k < m)
  BY <1>1, ZenonT(30) DEF OpToRel
<1> QED
  BY <1>2

\* A function of the results of a step that is repeated n times from a.
Runs(S, a, n, step) ==
    \E g \in [0..n -> S] : g[0] = a /\ \A k \in 1..n : g[k] = step[<<g[k - 1], k>>]

\* A step that is repeated n times from a has a function of its results: what the
\* recursive function of a loop needs in order to be defined.
LEMMA LoopExists ==
    ASSUME NEW S, NEW a \in S, NEW n \in Nat, NEW step \in [S \X (1..n) -> S]
    PROVE  Runs(S, a, n, step)
<1> DEFINE Good(g, m) == g[0] = a /\ \A k \in 1..m : g[k] = step[<<g[k - 1], k>>]
           T == {m \in 0..n : ~\E g \in [0..m -> S] : Good(g, m)}
<1>0. n \in 0..n
  OBVIOUS
<1>1. SUFFICES ASSUME T # {} PROVE FALSE
  BY <1>0, ZenonT(30) DEF Runs
<1>2. PICK m \in T : \A k \in T : m <= k
  <2>1. T \subseteq Nat
    OBVIOUS
  <2> HIDE DEF T
  <2> QED
    BY ZenonT(30), <2>1, <1>1, LeastElement
<1>3. m # 0
  <2>1. [k \in 0..0 |-> a] \in [0..0 -> S] /\ Good([k \in 0..0 |-> a], 0)
    OBVIOUS
  <2> QED
    BY ZenonT(30), <2>1
<1>4. m \in 1..n /\ m - 1 \in 0..n /\ m - 1 \notin T
  BY <1>2, <1>3
<1>5. PICK g \in [0..m - 1 -> S] : Good(g, m - 1)
  BY <1>4
<1> DEFINE h == [k \in 0..m |-> IF k = m THEN step[<<g[m - 1], m>>] ELSE g[k]]
<1>6. h \in [0..m -> S]
  BY <1>4, <1>5
<1>7. h[0] = a /\ h[m] = step[<<h[m - 1], m>>]
  BY <1>4, <1>5
<1>8. ASSUME NEW k \in 1..m - 1 PROVE h[k] = step[<<h[k - 1], k>>]
  <2>1. h[k] = g[k] /\ h[k - 1] = g[k - 1]
    BY <1>4
  <2> QED
    BY <2>1, <1>5
<1> HIDE DEF h
<1>9. Good(h, m)
  <2>1. \A k \in 1..m : k = m \/ k \in 1..m - 1
    BY <1>4
  <2> QED
    BY <2>1, <1>7, <1>8, ZenonT(30)
<1> QED
  BY <1>2, <1>6, <1>9

\* What the handler's loop over the hardware's queue leaves in the ring: the newest
\* events, without a hole, and the overflow flag when any was dropped.
LEMMA PushAllConsecutive ==
    ASSUME NEW r, NEW last \in Nat, Consecutive(r, last),
           NEW works \in Seq(Nat), \A k \in 1..Len(works) : works[k] = last + k
    PROVE  /\ Consecutive(PushAll(r, works), last + Len(works))
           /\ ~PushAll(r, works).overflowed =>
                  ~r.overflowed /\ PushAll(r, works).len = r.len + Len(works)
<1> DEFINE n == Len(works)
           Body(g) == [k \in 0..n |-> IF k = 0 THEN r ELSE push(g[k - 1], works[k])]
<1>1. n \in Nat /\ r \in Ring
  BY DEF Consecutive
<1>2. ASSUME NEW q \in Ring, NEW w \in Nat PROVE push(q, w) \in Ring
  <2> DEFINE h == IF q.len >= IBIQ_DEPTH THEN Slot(q.head, 1) ELSE q.head
             l == IF q.len >= IBIQ_DEPTH THEN IBIQ_DEPTH - 1 ELSE q.len
  <2>1. /\ IBIQ_DEPTH \in Nat /\ IBIQ_DEPTH > 0
        /\ q.head \in Slots /\ q.len \in 0..IBIQ_DEPTH /\ q.buf \in [Slots -> Nat]
    BY DepthAssumption DEF Ring
  <2>2. push(q, w) = [buf |-> [q.buf EXCEPT ![Slot(h, l)] = w], head |-> h, len |-> l + 1,
                      overflowed |-> q.overflowed \/ q.len >= IBIQ_DEPTH]
    BY DEF push, Slot
  <2>3. l \in 0..IBIQ_DEPTH - 1 /\ l \in 0..IBIQ_DEPTH /\ l + 1 \in 0..IBIQ_DEPTH
        /\ 1 \in 0..IBIQ_DEPTH
    BY <2>1
  <2>4. Slot(q.head, 1) \in Slots
    BY ZenonT(30), <2>1, <2>3, SlotWraps
  <2>5. h \in Slots
    BY <2>1, <2>4
  <2> HIDE DEF h, l
  <2>6. Slot(h, l) \in Slots
    BY <2>3, <2>5, SlotWraps
  <2>7. [q.buf EXCEPT ![Slot(h, l)] = w] \in [Slots -> Nat]
    BY <2>1, <2>6
  <2> QED
    BY <2>2, <2>3, <2>5, <2>7 DEF Ring
<1>3. \E g : g = Body(g)
  <2> DEFINE step == [p \in Ring \X (1..n) |-> push(p[1], works[p[2]])]
  <2>1. step \in [Ring \X (1..n) -> Ring]
    <3>1. \A k \in 1..n : works[k] \in Nat
      OBVIOUS
    <3> HIDE DEF n
    <3> QED
      BY <3>1, <1>2
  <2> HIDE DEF n
  <2>2. \A q \in Ring, k \in 1..n : step[<<q, k>>] = push(q, works[k])
    OBVIOUS
  <2> HIDE DEF step
  <2>3. PICK g \in [0..n -> Ring] : g[0] = r /\ \A k \in 1..n : g[k] = step[<<g[k - 1], k>>]
    <3>1. Runs(Ring, r, n, step)
      BY <1>1, <2>1, LoopExists, ZenonT(30)
    <3> QED
      BY <3>1, ZenonT(30) DEF Runs
  <2>4. ASSUME NEW k \in 1..n PROVE g[k] = push(g[k - 1], works[k])
    <3>1. k - 1 \in 0..n
      BY <1>1
    <3> QED
      BY ZenonT(30), <3>1, <2>2, <2>3
  <2>5. g = Body(g)
    <3>1. \A k \in 0..n : g[k] = IF k = 0 THEN r ELSE push(g[k - 1], works[k])
      <4>1. \A k \in 0..n : k = 0 \/ k \in 1..n
        BY <1>1
      <4>2. 0 \notin 1..n
        OBVIOUS
      <4> QED
        BY <4>1, <4>2, <2>3, <2>4, ZenonT(30)
    <3> QED
      BY <2>3, <3>1, ZenonT(30)
  <2> QED
    BY <2>5, ZenonT(30)
<1>4. PICK g : g = Body(g) /\ PushAll(r, works) = g[n]
  <2>1. PushAll(r, works) = (CHOOSE g : g = Body(g))[n]
    BY ZenonT(30) DEF PushAll
  <2> QED
    BY ZenonT(30), <2>1, <1>3
<1> HIDE DEF n
<1>5. g[0] = r /\ \A k \in 1..n : g[k] = push(g[k - 1], works[k])
  BY <1>1, <1>4
<1> DEFINE Done(k) == /\ Consecutive(g[k], last + k)
                      /\ ~g[k].overflowed => ~r.overflowed /\ g[k].len = r.len + k
           T == {k \in 0..n : ~Done(k)}
<1>6. SUFFICES T = {}
  <2>1. n \in 0..n
    BY <1>1
  <2>2. SUFFICES Done(n)
    BY <1>4, ZenonT(30) DEF n
  <2> QED
    BY <2>1, ZenonT(30)
<1>7. SUFFICES ASSUME T # {} PROVE FALSE
  OBVIOUS
<1>8. PICK k \in T : \A j \in T : k <= j
  <2>1. T \subseteq Nat
    BY <1>1
  <2> HIDE DEF T
  <2> QED
    BY ZenonT(30), <2>1, <1>7, LeastElement
<1>9. r.len \in Int
  BY <1>1, DepthAssumption DEF Ring
<1>10. k # 0
  <2>1. Done(0)
    BY <1>5, <1>9
  <2> QED
    BY <2>1, <1>8, ZenonT(30)
<1>11. k \in 1..n /\ k - 1 \in 0..n /\ k - 1 \notin T
  <2>1. k \in 0..n
    BY <1>8, ZenonT(30)
  <2> HIDE DEF T
  <2> QED
    BY <2>1, <1>1, <1>8, <1>10
<1>12. Done(k - 1) /\ last + (k - 1) \in Nat /\ (last + (k - 1)) + 1 = last + k /\ works[k] = last + k
  BY <1>1, <1>11 DEF n
<1>13. g[k] = push(g[k - 1], (last + (k - 1)) + 1)
  BY <1>5, <1>11, <1>12
<1>14. /\ Consecutive(g[k], last + k)
       /\ ~g[k].overflowed => ~g[k - 1].overflowed /\ g[k].len = g[k - 1].len + 1
  <2>1. Consecutive(g[k - 1], last + (k - 1))
    BY <1>12
  <2> QED
    BY ZenonT(30), <2>1, <1>12, <1>13, PushConsecutive
<1>15. Done(k)
  BY <1>9, <1>11, <1>12, <1>14
<1> QED
  BY <1>8, <1>15

\* What a pop takes from a ring without a hole, and what it leaves (IbiRing::pop): the
\* overflow flag alone, or the oldest event.
LEMMA PopConsecutive ==
    ASSUME NEW r, NEW last \in Nat, Consecutive(r, last), popped(r) # None
    PROVE  /\ Consecutive(pop(r), last) /\ ~pop(r).overflowed
           /\ r.len > 0 /\ Items(r)[1] = last - r.len + 1
           /\ r.overflowed => popped(r) = Overflow /\ pop(r).len = r.len
           /\ ~r.overflowed => /\ popped(r) = last - r.len + 1 /\ popped(r) # Overflow
                               /\ pop(r).len = r.len - 1
<1> DEFINE d == IBIQ_DEPTH
<1>1. /\ d \in Nat /\ d > 0 /\ r \in Ring /\ r.head \in Slots /\ r.len \in 0..d /\ r.len <= last
      /\ r.overflowed \in BOOLEAN /\ r.buf \in [Slots -> Nat]
      /\ r.overflowed => r.len = d
  BY DepthAssumption DEF Consecutive, Ring
<1>2. r.len > 0
  BY <1>1 DEF popped
<1>3. r.head \in 0..d - 1
  BY <1>1 DEF Slots
<1>4. Slot(r.head, 0) = r.head
  BY <1>1, <1>3, SlotWraps
<1>5. r.buf[r.head] = last - r.len + 1
  <2>1. r.buf[Slot(r.head, 0)] = last - r.len + 1 + 0
    BY <1>1, <1>2 DEF Consecutive
  <2> QED
    BY <2>1, <1>1, <1>4
<1>6. Items(r)[1] = last - r.len + 1
  <2>1. (r.head + 1 - 1) = r.head + 0 /\ 1 \in 1..r.len
    BY <1>1, <1>2
  <2>2. Items(r)[1] = r.buf[Slot(r.head, 0)]
    BY <2>1 DEF Items, Slot
  <2> QED
    BY <2>2, <1>4, <1>5
<1>7. CASE r.overflowed
  <2>1. /\ popped(r) = Overflow /\ pop(r) = [r EXCEPT !.overflowed = FALSE]
    BY <1>7 DEF popped, pop
  <2>2. /\ pop(r) \in Ring /\ pop(r).buf = r.buf /\ pop(r).head = r.head /\ pop(r).len = r.len
        /\ ~pop(r).overflowed
    BY ZenonT(30), <2>1, <1>1 DEF Ring
  <2>3. Consecutive(pop(r), last)
    BY <2>2 DEF Consecutive
  <2> QED
    BY <2>1, <2>2, <2>3, <1>2, <1>6, <1>7
<1>8. CASE ~r.overflowed
  <2> DEFINE q == pop(r)
  <2>1. /\ popped(r) = r.buf[r.head]
        /\ q = [r EXCEPT !.buf[r.head] = None, !.head = Slot(r.head, 1), !.len = r.len - 1]
    BY <1>8, <1>1, <1>2 DEF popped, pop, Slot
  <2>2. /\ q.buf = [r.buf EXCEPT ![r.head] = None]
        /\ q.head = Slot(r.head, 1) /\ q.len = r.len - 1 /\ q.overflowed = FALSE
        /\ q = [buf |-> q.buf, head |-> q.head, len |-> q.len, overflowed |-> q.overflowed]
    BY ZenonT(30), <2>1, <1>1, <1>8 DEF Ring
  <2> HIDE DEF q
  <2>3. /\ Slot(r.head, 1) \in Slots
        /\ Slot(r.head, 1) = IF r.head + 1 < d THEN r.head + 1 ELSE (r.head + 1) - d
    <3>1. 1 \in 0..IBIQ_DEPTH
      BY <1>1
    <3> QED
      BY <3>1, <1>1, SlotWraps
  <2>4. q \in Ring
    <3>1. q.buf \in [Slots -> Nat]
      BY <2>2, <1>1 DEF None
    <3>2. q.len \in 0..d
      BY <2>2, <1>1, <1>2
    <3> QED
      BY ZenonT(30), <3>1, <3>2, <2>2, <2>3 DEF Ring
  <2>5. ASSUME NEW j \in 0..q.len - 1 PROVE q.buf[Slot(q.head, j)] = last - q.len + 1 + j
    <3> DEFINE i == j + 1
    <3>1. i \in 0..r.len - 1 /\ i \in 0..IBIQ_DEPTH /\ j \in 0..IBIQ_DEPTH /\ i > 0 /\ i < d
      BY <2>2, <1>1
    <3>2. /\ Slot(r.head, i) \in Slots
          /\ Slot(r.head, i) = IF r.head + i < d THEN r.head + i ELSE (r.head + i) - d
      BY ZenonT(30), <3>1, <1>1, SlotWraps
    <3>3. Slot(q.head, j) = IF q.head + j < d THEN q.head + j ELSE (q.head + j) - d
      BY <3>1, <2>2, <2>3, SlotWraps
    <3>4. Slot(q.head, j) = Slot(r.head, i) /\ Slot(r.head, i) # r.head
      BY <3>1, <3>2, <3>3, <2>2, <2>3, <1>1, <1>3
    <3>5. r.buf[Slot(r.head, i)] = last - r.len + 1 + i
      BY <3>1 DEF Consecutive
    <3> QED
      BY <3>1, <3>2, <3>4, <3>5, <2>2, <1>1
  <2>6. Consecutive(q, last)
    BY <2>2, <2>4, <2>5, <1>1 DEF Consecutive
  <2>7. popped(r) = last - r.len + 1 /\ popped(r) # Overflow
    BY <2>1, <1>1, <1>5 DEF Overflow
  <2> QED
    BY <2>2, <2>6, <2>7, <1>2, <1>6, <1>8 DEF q
<1> QED
  BY <1>7, <1>8

\* The events of the ring and of the hardware's queue stay the last ones, without a
\* hole, and the consumer is told of a gap before it meets one.
LEMMA RingStep ==
    ASSUME RingInv, [Next]_vars
    PROVE  RingInv'
<1> USE BoundsAssumption
<1>0. raised - Len(ibiq) \in Nat /\ raised \in Nat /\ Len(ibiq) \in Nat /\ ring.len \in Nat
  BY DepthAssumption DEF RingInv, Consecutive, Ring
<1>1. CASE UNCHANGED ibis
  BY <1>1 DEF RingInv, ibis
<1>2. CASE RaiseIbi
  <2>1. /\ raised' = raised + 1 /\ ibiq' = Append(ibiq, raised + 1) /\ ring' = ring
        /\ expect' = expect /\ raised < MaxIbis
    BY <1>2 DEF RaiseIbi
  <2>2. ibiq' \in Seq(1..MaxIbis) /\ Len(ibiq') = Len(ibiq) + 1
    BY <2>1, <1>0 DEF RingInv
  <2>3. ASSUME NEW i \in 1..Len(ibiq') PROVE ibiq'[i] = raised' - Len(ibiq') + i
    <3>1. CASE i = Len(ibiq) + 1
      BY <3>1, <2>1, <2>2, <1>0 DEF RingInv
    <3>2. CASE i \in 1..Len(ibiq)
      <4>1. ibiq'[i] = ibiq[i] /\ ibiq[i] = raised - Len(ibiq) + i
        BY <3>2, <2>1, <1>0 DEF RingInv
      <4> QED
        BY <4>1, <3>2, <2>1, <2>2, <1>0
    <3> QED
      BY <3>1, <3>2, <2>2, <1>0
  <2>4. raised' - Len(ibiq') = raised - Len(ibiq)
    BY <2>1, <2>2, <1>0
  <2>5. raised' \in 0..MaxIbis /\ expect' \in 1..raised' + 1 /\ Len(ibiq') <= raised'
    BY <2>1, <2>2, <1>0 DEF RingInv
  <2> QED
    BY <2>1, <2>2, <2>3, <2>4, <2>5 DEF RingInv
<1>3. CASE isr_service
  <2> DEFINE last == raised - Len(ibiq)
  <2>1. ring' = PushAll(ring, ibiq) /\ ibiq' = <<>> /\ raised' = raised /\ expect' = expect
    BY <1>3 DEF isr_service
  <2>2. ibiq \in Seq(Nat) /\ \A k \in 1..Len(ibiq) : ibiq[k] = last + k
    BY <1>0 DEF RingInv
  <2>3. /\ Consecutive(ring', last + Len(ibiq))
        /\ ~ring'.overflowed => ~ring.overflowed /\ ring'.len = ring.len + Len(ibiq)
    BY <2>1, <2>2, <1>0, PushAllConsecutive DEF RingInv
  <2>4. last + Len(ibiq) = raised /\ Len(ibiq') = 0 /\ ibiq' \in Seq(1..MaxIbis)
    BY <2>1, <1>0
  <2>5. Consecutive(ring', raised' - Len(ibiq'))
    BY <2>1, <2>3, <2>4, <1>0
  <2>6. ring'.overflowed \/ expect' = raised' - Len(ibiq') - ring'.len + 1
    BY <2>1, <2>3, <2>4, <1>0 DEF RingInv
  <2> QED
    BY <2>1, <2>4, <2>5, <2>6, <1>0 DEF RingInv
<1>4. CASE init
  <2>1. ring' = EmptyRing /\ ibiq' = <<>> /\ expect' = raised + 1 /\ raised' = raised
    BY <1>4 DEF init
  <2>2. EmptyRing.len = 0 /\ EmptyRing.overflowed = FALSE /\ EmptyRing \in Ring
    BY DepthAssumption DEF EmptyRing, Ring, Slots, None
  <2>3. Consecutive(ring', raised')
    BY <2>1, <2>2, <1>0 DEF Consecutive
  <2>4. raised' - Len(ibiq') = raised' /\ ibiq' \in Seq(1..MaxIbis) /\ Len(ibiq') = 0
    BY <2>1, <1>0
  <2> QED
    BY <2>1, <2>2, <2>3, <2>4, <1>0 DEF RingInv
<1>5. CASE dequeue
  <2> DEFINE last == raised - Len(ibiq)
  <2>1. /\ ring' = pop(ring) /\ ibiq' = ibiq /\ raised' = raised /\ popped(ring) # None
        /\ expect' = IF popped(ring) # Overflow THEN popped(ring) + 1
                     ELSE IF ring.len = 0 THEN expect ELSE Items(ring)[1]
    BY <1>5 DEF dequeue
  <2>2. last \in Nat /\ Consecutive(ring, last) /\ ring.len <= last
    BY <1>0 DEF RingInv, Consecutive
  <2> HIDE DEF last
  <2>3. /\ Consecutive(pop(ring), last) /\ ~pop(ring).overflowed
        /\ ring.len > 0 /\ Items(ring)[1] = last - ring.len + 1
        /\ ring.overflowed => popped(ring) = Overflow /\ pop(ring).len = ring.len
        /\ ~ring.overflowed => /\ popped(ring) = last - ring.len + 1
                               /\ popped(ring) # Overflow /\ pop(ring).len = ring.len - 1
    BY <2>1, <2>2, PopConsecutive
  <2>4. expect' = last - ring'.len + 1 /\ ring'.len \in 0..last
    BY <2>1, <2>2, <2>3, <1>0
  <2>5. Consecutive(ring', raised' - Len(ibiq')) /\ expect' = raised' - Len(ibiq') - ring'.len + 1
    BY <2>1, <2>3, <2>4 DEF last
  <2>6. expect' \in 1..raised' + 1
    BY <2>1, <2>2, <2>4, <1>0 DEF last
  <2> QED
    BY <2>1, <2>5, <2>6 DEF RingInv
<1> QED
  <2>1. Next => UNCHANGED ibis \/ RaiseIbi \/ isr_service \/ init \/ dequeue
    BY ZenonT(30) DEF Next, Hardware, AnswerOk, AnswerError, FailSilently, RaiseError, Thread, priv_xfer,
       i2c_priv_xfer, do_ccc, do_entdaa, Start, Working, Wait, Recovery, DrainStale, Rearm,
       PushCommands, TakePending, Timeout, process_responses, enter_halt, reset_ctrl, exit_halt,
       ClearStatus, ClearPending, UnmaskAfterTimeout, Finish, recover_bus_full
  <2>2. UNCHANGED vars => UNCHANGED ibis
    BY DEF vars, ibis
  <2> QED
    BY <2>1, <2>2, <1>1, <1>2, <1>3, <1>4, <1>5

-----------------------------------------------------------------------------
(* The transfers.                                                          *)

\* WordsOf counts words.
LEMMA WordsType ==
    ASSUME NEW q, NEW n \in Nat
    PROVE  WordsOf(q, n) \in Nat
<1>1. IsFiniteSet(1..n)
  BY FS_Interval
<1>2. IsFiniteSet({i \in 1..n : q[i].len = 1})
  BY <1>1, FS_Subset
<1> QED
  BY <1>2, FS_CardinalityType DEF WordsOf

\* A new response leaves the words of the others where they are.
LEMMA WordsAppend ==
    ASSUME NEW q \in Seq(Response), NEW r \in Response
    PROVE  /\ \A i \in 0..Len(q) : WordsOf(Append(q, r), i) = WordsOf(q, i)
           /\ WordsOf(Append(q, r), Len(q) + 1) = WordsOf(q, Len(q)) + r.len
<1> DEFINE n == Len(q)
           p == Append(q, r)
           A == {i \in 1..n : q[i].len = 1}
           B == {i \in 1..n + 1 : p[i].len = 1}
<1>1. n \in Nat /\ r.len \in 0..1 /\ p[n + 1] = r /\ \A i \in 1..n : p[i] = q[i]
  BY DEF Response
<1>2. ASSUME NEW i \in 0..n PROVE WordsOf(p, i) = WordsOf(q, i)
  <2>1. {j \in 1..i : p[j].len = 1} = {j \in 1..i : q[j].len = 1}
    BY <1>1
  <2> QED
    BY <2>1, ZenonT(30) DEF WordsOf
<1>3. WordsOf(q, n) = Cardinality(A) /\ WordsOf(p, n + 1) = Cardinality(B)
  BY ZenonT(30) DEF WordsOf
<1>4. IsFiniteSet(A)
  <2>1. IsFiniteSet(1..n)
    BY <1>1, FS_Interval
  <2> QED
    BY <2>1, FS_Subset
<1> HIDE DEF n, p
<1>5. CASE r.len = 1
  <2>1. B = A \cup {n + 1} /\ n + 1 \notin A
    BY <1>1, <1>5
  <2> HIDE DEF A, B
  <2>2. Cardinality(A \cup {n + 1}) = Cardinality(A) + 1
    BY ZenonT(30), <2>1, <1>4, FS_AddElement
  <2>3. WordsOf(p, n + 1) = WordsOf(q, n) + r.len
    BY <2>1, <2>2, <1>3, <1>5
  <2> QED
    BY <2>3, <1>2 DEF n, p
<1>6. CASE r.len = 0
  <2>1. B = A
    BY <1>1, <1>6
  <2> HIDE DEF A, B
  <2>2. Cardinality(A) \in Nat
    BY <1>4, FS_CardinalityType
  <2>3. WordsOf(p, n + 1) = WordsOf(q, n) + r.len
    BY <2>1, <2>2, <1>3, <1>6
  <2> QED
    BY <2>3, <1>2 DEF n, p
<1> QED
  BY <1>1, <1>5, <1>6

\* No response, no words.
LEMMA WordsNone == \A q : WordsOf(q, 0) = 0
<1>1. \A q : {i \in 1..0 : q[i].len = 1} = {}
  OBVIOUS
<1> QED
  BY <1>1, FS_EmptySet DEF WordsOf

\* The engine answers the next command: the queues stay in step.
LEMMA AnswerInFlight ==
    ASSUME XferTypes, InFlight, NEW err \in Errors \cup {"Ok"}, NEW len \in 0..1,
           Answer(err, len), UNCHANGED <<threshold, xfer>>,
           engine' = IF err = "Ok" THEN engine ELSE "Halted"
    PROVE  InFlight' /\ Len(respq) < xfer.n
<1> DEFINE c == Head(cmdq)
           m == Len(cmdq)
           n == Len(respq)
           r == [xfer |-> c.xfer, tid |-> c.tid, err |-> err, len |-> len]
           w == [xfer |-> c.xfer, tid |-> c.tid]
<1>1. /\ engine = "Ready" /\ cmdq # <<>> /\ cmdq' = Tail(cmdq) /\ respq' = Append(respq, r)
      /\ rxfifo' = IF len = 1 THEN Append(rxfifo, w) ELSE rxfifo
  BY ZenonT(30) DEF Answer
<1>2. /\ m \in Nat /\ m > 0 /\ n \in Nat /\ Len(rxfifo) \in Nat /\ xfer.n \in Nat
      /\ xfer \in Transfers /\ c = cmdq[1] /\ c \in Cmd
  BY <1>1, BoundsAssumption DEF XferTypes, Transfers
<1>3. /\ n + m = xfer.n
      /\ c = [xfer |-> xfer.id, tid |-> n, want |-> xfer.want]
  <2>1. n + m = xfer.n
    BY <1>1, <1>2 DEF InFlight, ResponsesSoFar
  <2>2. cmdq[1] = [xfer |-> xfer.id, tid |-> xfer.n - m + 1 - 1, want |-> xfer.want]
    <3>1. 1 \in 1..Len(cmdq)
      BY <1>2
    <3> QED
      BY <3>1, ZenonT(30) DEF InFlight, CommandsLeft
  <2> QED
    BY <2>1, <2>2, <1>2
<1>4. r \in Response
  BY ZenonT(30), <1>2 DEF Cmd, Response
<1>5. r.xfer = xfer.id /\ r.tid = n /\ r.err = err /\ r.len = len /\ w = [xfer |-> xfer.id, tid |-> n]
  BY <1>3
<1>6. respq \in Seq(Response) /\ rxfifo \in Seq(Word) /\ cmdq \in Seq(Cmd)
  BY DEF XferTypes
<1>7. /\ Len(cmdq') = m - 1 /\ \A i \in 1..m - 1 : cmdq'[i] = cmdq[i + 1]
  BY <1>1, <1>2, <1>6
<1> HIDE DEF r, c, w
<1>8. /\ Len(respq') = n + 1 /\ respq'[n + 1] = r /\ \A i \in 1..n : respq'[i] = respq[i]
  BY <1>1, <1>4, <1>6
<1>9. /\ \A i \in 0..n : WordsOf(respq', i) = WordsOf(respq, i)
      /\ WordsOf(respq', n + 1) = WordsOf(respq, n) + len
      /\ WordsOf(respq, n) \in Nat
  BY ZenonT(30), <1>1, <1>2, <1>4, <1>5, <1>6, WordsAppend, WordsType
<1>10. CommandsLeft'
  <2>1. ASSUME NEW i \in 1..m - 1
        PROVE  cmdq'[i] = [xfer |-> xfer.id, tid |-> xfer.n - (m - 1) + i - 1, want |-> xfer.want]
    <3>1. i + 1 \in 1..m /\ xfer.n - m + (i + 1) - 1 = xfer.n - (m - 1) + i - 1
      BY <1>2
    <3>2. cmdq[i + 1] = [xfer |-> xfer.id, tid |-> xfer.n - m + (i + 1) - 1, want |-> xfer.want]
      BY <3>1 DEF InFlight, CommandsLeft
    <3> QED
      BY <3>1, <3>2, <1>7
  <2> QED
    BY <2>1, <1>2, <1>3, <1>7 DEF CommandsLeft
<1>11. ResponsesSoFar'
  <2>0. \A i \in 1..n : respq[i].xfer = xfer.id /\ respq[i].tid = i - 1
    BY DEF InFlight, ResponsesSoFar
  <2>1. \A i \in 1..n + 1 : respq'[i].xfer = xfer.id /\ respq'[i].tid = i - 1
    <3>1. \A i \in 1..n + 1 : i \in 1..n \/ (i = n + 1 /\ n = i - 1)
      BY <1>2
    <3> QED
      BY <3>1, <2>0, <1>5, <1>8, ZenonT(30)
  <2>2. \A i \in 1..n : respq'[i].err = "Ok"
    BY <1>1, <1>8 DEF InFlight, ResponsesSoFar
  <2>3. engine' = "Ready" => \A i \in 1..n + 1 : respq'[i].err = "Ok"
    BY <2>2, <1>2, <1>5, <1>8
  <2>4. Len(respq') + Len(cmdq') = xfer.n /\ (n + 1) - 1 = n
    BY <1>2, <1>3, <1>7, <1>8
  <2>5. engine' = "Halted" => respq'[n + 1].err # "Ok"
    BY ZenonT(30), <1>1, <1>5, <1>8
  <2> QED
    BY <2>1, <2>2, <2>3, <2>4, <2>5, <1>2, <1>8 DEF ResponsesSoFar
<1>12. WordsInStep'
  <2>1. WordsOf(respq, n) = Len(rxfifo)
    BY ZenonT(30), <1>1 DEF InFlight, WordsInStep
  <2>2. Len(rxfifo') = WordsOf(respq, n) + len
    BY <2>1, <1>1, <1>2, <1>6
  <2>3. ASSUME NEW i \in 1..n + 1, respq'[i].len = 1
        PROVE  /\ WordsOf(respq', i) \in 1..WordsOf(respq', n + 1)
               /\ rxfifo'[WordsOf(respq', i)] = [xfer |-> xfer.id, tid |-> i - 1]
    <3>1. CASE i = n + 1
      <4>1. len = 1 /\ WordsOf(respq', i) = Len(rxfifo) + 1
        BY ZenonT(30), <3>1, <2>1, <2>3, <1>5, <1>8, <1>9
      <4>2. rxfifo'[Len(rxfifo) + 1] = w
        BY <4>1, <1>1, <1>2, <1>6
      <4> QED
        BY <4>1, <4>2, <3>1, <2>1, <1>2, <1>5, <1>9
    <3>2. CASE i \in 1..n
      <4>1. respq[i].len = 1 /\ WordsOf(respq', i) = WordsOf(respq, i)
        BY <3>2, <2>3, <1>2, <1>8, <1>9
      <4>2. /\ WordsOf(respq, i) \in 1..WordsOf(respq, n)
            /\ rxfifo[WordsOf(respq, i)] = [xfer |-> xfer.id, tid |-> i - 1]
        BY <4>1, <3>2 DEF InFlight, WordsInStep
      <4>3. rxfifo'[WordsOf(respq, i)] = rxfifo[WordsOf(respq, i)]
        BY <4>2, <2>1, <1>1, <1>2, <1>6
      <4> QED
        BY <4>1, <4>2, <4>3, <1>9
    <3> QED
      BY <3>1, <3>2, <1>2
  <2> QED
    BY <2>2, <2>3, <1>8, <1>9 DEF WordsInStep
<1>13. threshold' = xfer'.n - 1
  BY DEF InFlight
<1> QED
  BY <1>2, <1>3, <1>10, <1>11, <1>12, <1>13 DEF InFlight

\* The transfer dies without a response: those that are there are still in step.
LEMMA FailInFlight ==
    ASSUME XferTypes, InFlight, FailSilently
    PROVE  InFlight' /\ Len(respq) < xfer.n
<1> DEFINE m == Len(cmdq)
           n == Len(respq)
           k == Len(rxfifo)
<1>1. /\ engine = "Ready" /\ cmdq # <<>> /\ cmdq' = Tail(cmdq) /\ respq' = respq
      /\ \/ rxfifo' = rxfifo
         \/ rxfifo' = Append(rxfifo, [xfer |-> Head(cmdq).xfer, tid |-> Head(cmdq).tid])
      /\ engine' = "Halted" /\ threshold' = threshold /\ xfer' = xfer
  BY DEF FailSilently, thread
<1>2. /\ m \in Nat /\ m > 0 /\ n \in Nat /\ k \in Nat /\ xfer.n \in Nat
      /\ rxfifo \in Seq(Word) /\ cmdq \in Seq(Cmd)
  BY <1>1, BoundsAssumption DEF XferTypes, Transfers
<1>3. n + m = xfer.n
  BY <1>1, <1>2 DEF InFlight, ResponsesSoFar
<1>4. /\ Len(cmdq') = m - 1 /\ \A i \in 1..m - 1 : cmdq'[i] = cmdq[i + 1]
  BY <1>1, <1>2
<1>5. /\ Len(rxfifo') >= k /\ \A i \in 1..k : rxfifo'[i] = rxfifo[i]
  <2>1. CASE rxfifo' = rxfifo
    BY <2>1, <1>2
  <2>2. ASSUME NEW w, rxfifo' = Append(rxfifo, w)
        PROVE  Len(rxfifo') >= k /\ \A i \in 1..k : rxfifo'[i] = rxfifo[i]
    BY <2>2, <1>2
  <2> QED
    BY <2>1, <2>2, <1>1
<1>6. CommandsLeft'
  <2>1. ASSUME NEW i \in 1..m - 1
        PROVE  cmdq'[i] = [xfer |-> xfer.id, tid |-> xfer.n - (m - 1) + i - 1, want |-> xfer.want]
    <3>1. i + 1 \in 1..m /\ xfer.n - m + (i + 1) - 1 = xfer.n - (m - 1) + i - 1
      BY <1>2
    <3>2. cmdq[i + 1] = [xfer |-> xfer.id, tid |-> xfer.n - m + (i + 1) - 1, want |-> xfer.want]
      BY ZenonT(30), <3>1 DEF InFlight, CommandsLeft
    <3> QED
      BY <3>1, <3>2, <1>4
  <2> QED
    BY <2>1, <1>1, <1>2, <1>3, <1>4 DEF CommandsLeft
<1>7. ResponsesSoFar'
  <2>1. Len(respq') + Len(cmdq') = xfer.n - 1 /\ xfer.n - 1 # xfer.n
    BY <1>1, <1>2, <1>3, <1>4
  <2> QED
    BY <2>1, <1>1 DEF InFlight, ResponsesSoFar
<1>8. WordsInStep'
  <2>1. WordsOf(respq, n) = k
    BY ZenonT(30), <1>1 DEF InFlight, WordsInStep
  <2>2. ASSUME NEW i \in 1..n, respq[i].len = 1
        PROVE  /\ WordsOf(respq, i) \in 1..WordsOf(respq, n)
               /\ rxfifo'[WordsOf(respq, i)] = [xfer |-> xfer.id, tid |-> i - 1]
    <3>1. /\ WordsOf(respq, i) \in 1..WordsOf(respq, n)
          /\ rxfifo[WordsOf(respq, i)] = [xfer |-> xfer.id, tid |-> i - 1]
      BY <2>2 DEF InFlight, WordsInStep
    <3> QED
      BY ZenonT(30), <3>1, <2>1, <1>5
  <2> QED
    BY ZenonT(30), <2>1, <2>2, <1>1, <1>2, <1>5 DEF WordsInStep
<1> QED
  BY <1>1, <1>2, <1>3, <1>6, <1>7, <1>8 DEF InFlight

\* The command and response queues keep their types while the hardware runs.
LEMMA HardwareTypes ==
    ASSUME XferTypes, Hardware
    PROVE  XferTypes'
<1>1. ASSUME NEW err \in Errors \cup {"Ok"}, NEW len \in 0..1, Answer(err, len)
      PROVE  cmdq' \in Seq(Cmd) /\ respq' \in Seq(Response) /\ rxfifo' \in Seq(Word)
  <2>1. cmdq # <<>> /\ cmdq \in Seq(Cmd) /\ respq \in Seq(Response) /\ rxfifo \in Seq(Word)
    BY <1>1 DEF Answer, XferTypes
  <2>2. Head(cmdq) \in Cmd
    BY <2>1
  <2>3. /\ [xfer |-> Head(cmdq).xfer, tid |-> Head(cmdq).tid, err |-> err, len |-> len] \in Response
        /\ [xfer |-> Head(cmdq).xfer, tid |-> Head(cmdq).tid] \in Word
    BY <2>2, BoundsAssumption DEF Cmd, Response, Word
  <2> QED
    BY <1>1, <2>1, <2>3 DEF Answer
<1>2. CASE AnswerOk
  <2>1. cmdq' \in Seq(Cmd) /\ respq' \in Seq(Response) /\ rxfifo' \in Seq(Word)
    BY <1>1, <1>2, ZenonT(30) DEF AnswerOk
  <2> QED
    BY <1>2, <2>1 DEF AnswerOk, XferTypes, thread
<1>3. CASE AnswerError
  <2>1. cmdq' \in Seq(Cmd) /\ respq' \in Seq(Response) /\ rxfifo' \in Seq(Word)
    <3>1. PICK err \in Errors, len \in 0..1 : Answer(err, len)
      BY <1>3, ZenonT(30) DEF AnswerError
    <3> QED
      BY <3>1, <1>1, ZenonT(30)
  <2> QED
    BY <1>3, <2>1 DEF AnswerError, XferTypes, thread
<1>4. CASE FailSilently
  <2>1. cmdq # <<>> /\ cmdq \in Seq(Cmd) /\ rxfifo \in Seq(Word)
    BY <1>4 DEF FailSilently, XferTypes
  <2>2. Head(cmdq) \in Cmd
    BY <2>1
  <2>3. [xfer |-> Head(cmdq).xfer, tid |-> Head(cmdq).tid] \in Word
    BY <2>2, BoundsAssumption DEF Cmd, Word
  <2>4. cmdq' \in Seq(Cmd) /\ rxfifo' \in Seq(Word)
    <3> DEFINE w == [xfer |-> Head(cmdq).xfer, tid |-> Head(cmdq).tid]
    <3>1. cmdq' = Tail(cmdq) /\ (rxfifo' = rxfifo \/ rxfifo' = Append(rxfifo, w))
      BY <1>4 DEF FailSilently
    <3> HIDE DEF w
    <3>2. w \in Word
      BY <2>3 DEF w
    <3> QED
      <4>1. cmdq' \in Seq(Cmd)
        BY <3>1, <2>1
      <4>2. Append(rxfifo, w) \in Seq(Word)
        BY <3>2, <2>1
      <4> QED
        BY <4>1, <4>2, <3>1, <2>1, ZenonT(30)
  <2> QED
    BY <1>4, <2>4 DEF FailSilently, XferTypes, thread
<1>5. CASE RaiseError
  BY ZenonT(30), <1>5 DEF RaiseError, XferTypes, thread
<1>6. CASE RaiseIbi
  BY <1>6 DEF RaiseIbi, XferTypes, thread, hardware
<1> QED
  BY ZenonT(30), <1>2, <1>3, <1>4, <1>5, <1>6 DEF Hardware

\* The state of a transfer that the engine, its queues and the call itself decide.
LEMMA InFlightKept ==
    ASSUME UNCHANGED <<engine, cmdq, respq, rxfifo, threshold, xfer>>
    PROVE  InFlight' <=> InFlight
BY ZenonT(30) DEF InFlight, CommandsLeft, ResponsesSoFar, WordsInStep

\* What was received does not change with the hardware's queues.
LEMMA ReceivedKept ==
    ASSUME UNCHANGED <<xfer, got>>
    PROVE  Received' <=> Received
BY ZenonT(30) DEF Received

\* A bounded set of numbers that is not empty has a greatest element.
LEMMA GreatestElement ==
    ASSUME NEW n \in Nat, NEW T, T \subseteq 1..n, T # {}
    PROVE  \E m \in T : \A k \in T : k <= m
<1> DEFINE U == {n - k : k \in T}
<1>1. U \subseteq Nat /\ U # {}
  <2>1. \A k \in T : n - k \in Nat
    OBVIOUS
  <2> QED
    BY <2>1, ZenonT(30)
<1> HIDE DEF U
<1>2. PICK u \in U : \A v \in U : u <= v
  BY ZenonT(30), <1>1, LeastElement
<1>3. PICK m \in T : u = n - m
  BY <1>2 DEF U
<1>4. \A k \in T : n - m <= n - k
  BY ZenonT(30), <1>2, <1>3 DEF U
<1> QED
  BY <1>3, <1>4

\* A transfer's verdict over its responses (process_responses): it is in order only
\* when every response is.
LEMMA RetIsSound ==
    ASSUME XferTypes
    PROVE  /\ RetOfResponses \in Errors \cup {"Ok", "Invalid"}
           /\ RetOfResponses = "Ok" => \A i \in 1..Len(respq) : Verdict(respq[i]) = "Ok"
<1> DEFINE bad == {i \in 1..Len(respq) : Verdict(respq[i]) # "Ok"}
           pick == CHOOSE i \in bad : \A j \in bad : j <= i
<1>1. Len(respq) \in Nat /\ \A i \in 1..Len(respq) : respq[i] \in Response
  BY DEF XferTypes
<1>2. RetOfResponses = IF bad = {} THEN "Ok" ELSE Verdict(respq[pick])
  BY ZenonT(30) DEF RetOfResponses
<1>3. CASE bad = {}
  BY <1>2, <1>3
<1>4. CASE bad # {}
  <2>1. \E i \in bad : \A j \in bad : j <= i
    <3>1. bad \subseteq 1..Len(respq)
      OBVIOUS
    <3> HIDE DEF bad
    <3> QED
      BY ZenonT(30), <3>1, <1>1, <1>4, GreatestElement
  <2>2. pick \in bad
    BY <2>1, ZenonT(30)
  <2>3. Verdict(respq[pick]) # "Ok" /\ respq[pick] \in Response
    BY <2>2, <1>1
  <2> HIDE DEF pick, bad
  <2>4. Verdict(respq[pick]) \in Errors \cup {"Ok", "Invalid"}
    BY <2>3 DEF Verdict, Response
  <2> QED
    BY <2>3, <2>4, <1>2, <1>4
<1> QED
  BY <1>3, <1>4

\* What is left of the receive FIFO when every response was popped.
LEMMA PopTypes ==
    ASSUME XferTypes, PopResponses
    PROVE  /\ respq' = <<>> /\ respq' \in Seq(Response) /\ rxfifo' \in Seq(Word)
           /\ WordsOf(respq, Len(respq)) = Len(rxfifo) => rxfifo' = <<>>
<1> DEFINE w == WordsOf(respq, Len(respq))
<1>1. /\ respq \in Seq(Response) /\ rxfifo \in Seq(Word) /\ Len(respq) \in Nat
      /\ Len(rxfifo) \in Nat
  BY DEF XferTypes
<1>2. w \in Nat
  BY <1>1, WordsType
<1>3. respq' = <<>> /\ rxfifo' = SubSeq(rxfifo, w + 1, Len(rxfifo))
  BY ZenonT(30) DEF PopResponses, Words, WordsOf
<1> HIDE DEF w
<1>4. SubSeq(rxfifo, w + 1, Len(rxfifo)) \in Seq(Word)
  BY <1>1, <1>2
<1>5. w = Len(rxfifo) => SubSeq(rxfifo, w + 1, Len(rxfifo)) = <<>>
  BY <1>1, <1>2
<1> QED
  BY <1>3, <1>4, <1>5 DEF w

\* The handler and the driver's thread keep the types.
LEMMA ThreadTypes ==
    ASSUME XferTypes, isr_service \/ Thread, pc # "idle" => xfer.id > 0
    PROVE  XferTypes'
<1> USE BoundsAssumption
<1>0. <<>> \in Seq(Cmd) /\ <<>> \in Seq(Response) /\ <<>> \in Seq(Word)
  OBVIOUS
<1>1. CASE isr_service
  BY ZenonT(30), <1>1 DEF isr_service, Status, XferTypes, thread, hardware
<1>2. ASSUME NEW op \in Ops, Start(op)
      PROVE  XferTypes'
  <2>1. xfer' \in Transfers
    BY <1>2 DEF Start, XferTypes, Transfers
  <2> QED
    BY ZenonT(30), <1>2, <2>1 DEF Start, XferTypes, hardware, Pcs
<1>3. CASE priv_xfer \/ i2c_priv_xfer \/ do_ccc \/ do_entdaa
  BY ZenonT(30), <1>2, <1>3 DEF priv_xfer, i2c_priv_xfer, do_ccc, do_entdaa, Ops
<1>4. CASE DrainStale
  <2>1. respq' \in Seq(Response) /\ rxfifo' \in Seq(Word)
    BY ZenonT(30), <1>4, PopTypes DEF DrainStale
  <2> QED
    BY <1>4, <2>1 DEF DrainStale, XferTypes, Pcs
<1>5. CASE Rearm
  BY <1>5 DEF Rearm, XferTypes, hardware, Pcs
<1>6. CASE PushCommands
  <2> DEFINE c == [i \in 1..xfer.n |-> [xfer |-> xfer.id, tid |-> i - 1, want |-> xfer.want]]
  <2>1. /\ xfer.n \in 1..MaxCmds /\ xfer.id \in 1..MaxXfers /\ xfer.want \in 0..1
        /\ cmdq \in Seq(Cmd)
    BY <1>6 DEF PushCommands, XferTypes, Transfers
  <2>2. c \in Seq(Cmd)
    <3>1. \A i \in 1..xfer.n : [xfer |-> xfer.id, tid |-> i - 1, want |-> xfer.want] \in Cmd
      BY <2>1 DEF Cmd
    <3>2. xfer.n \in Nat
      BY <2>1
    <3> QED
      BY <3>1, <3>2
  <2> HIDE DEF c
  <2>3. cmdq' \in Seq(Cmd)
    <3>1. cmdq' = cmdq \o c
      BY ZenonT(30), <1>6 DEF PushCommands, c
    <3> QED
      BY <3>1, <2>1, <2>2
  <2>4. threshold' \in 0..MaxCmds - 1
    BY <1>6, <2>1 DEF PushCommands
  <2> QED
    BY ZenonT(30), <1>6, <2>3, <2>4 DEF PushCommands, XferTypes, Pcs
<1>7. CASE TakePending
  BY ZenonT(30), <1>7 DEF TakePending, XferTypes, hardware, Pcs
<1>8. CASE Timeout
  BY ZenonT(30), <1>8 DEF Timeout, XferTypes, hardware, Pcs
<1>9. CASE process_responses
  <2>1. respq' \in Seq(Response) /\ rxfifo' \in Seq(Word)
    BY <1>9, PopTypes DEF process_responses
  <2>2. ret' \in Errors \cup {"Ok", "Invalid"}
    BY <1>9, RetIsSound DEF process_responses
  <2> QED
    BY ZenonT(30), <1>9, <2>1, <2>2 DEF process_responses, XferTypes, Pcs
<1>10. CASE enter_halt
  <2>1. respq' \in Seq(Response)
    <3>1. CASE respq' = respq
      BY <3>1 DEF XferTypes
    <3>2. CASE cmdq # <<>> /\ respq' = Append(respq, [xfer |-> Head(cmdq).xfer, tid |-> Head(cmdq).tid,
                                                   err |-> "Other", len |-> 0])
      <4>1. Head(cmdq) \in Cmd /\ respq \in Seq(Response)
        BY <3>2 DEF XferTypes
      <4>2. [xfer |-> Head(cmdq).xfer, tid |-> Head(cmdq).tid, err |-> "Other", len |-> 0]
                \in Response
        BY <4>1 DEF Cmd, Response, Errors
      <4> QED
        BY <3>2, <4>1, <4>2
    <3> QED
      BY ZenonT(30), <1>10, <3>1, <3>2 DEF enter_halt
  <2> QED
    BY ZenonT(30), <1>10, <2>1 DEF enter_halt, XferTypes, Pcs
<1>11. CASE reset_ctrl
  <2>1. cmdq' \in {cmdq, <<>>} /\ respq' \in {respq, <<>>} /\ rxfifo' \in {rxfifo, <<>>}
    BY <1>11 DEF reset_ctrl
  <2>2. cmdq' \in Seq(Cmd) /\ respq' \in Seq(Response) /\ rxfifo' \in Seq(Word)
    BY <2>1, <1>0, ZenonT(30) DEF XferTypes
  <2> QED
    BY ZenonT(30), <1>11, <2>2 DEF reset_ctrl, XferTypes, Pcs
<1>12. CASE exit_halt
  BY ZenonT(30), <1>12 DEF exit_halt, XferTypes, Pcs
<1>13. CASE ClearStatus
  BY ZenonT(30), <1>13 DEF ClearStatus, XferTypes, hardware, Pcs
<1>14. CASE ClearPending
  BY ZenonT(30), <1>14 DEF ClearPending, XferTypes, hardware, Pcs
<1>15. CASE UnmaskAfterTimeout \/ Finish
  <2>1. xfer' \in Transfers
    BY <1>15 DEF UnmaskAfterTimeout, Finish, Return, NoXfer, XferTypes, Transfers, Ops
  <2> QED
    BY ZenonT(30), <1>15, <2>1 DEF UnmaskAfterTimeout, Finish, Return, XferTypes, hardware, Pcs
<1>16. CASE init
  <2>1. cmdq' \in {cmdq, <<>>} /\ respq' \in {respq, <<>>} /\ rxfifo' \in {rxfifo, <<>>}
    BY <1>16 DEF init
  <2>2. cmdq' \in Seq(Cmd) /\ respq' \in Seq(Response) /\ rxfifo' \in Seq(Word)
    BY <2>1, <1>0, ZenonT(30) DEF XferTypes
  <2> QED
    <3>1. threshold' \in 0..MaxCmds - 1 /\ inits' \in 0..MaxInits
      BY <1>16 DEF init, XferTypes
    <3> QED
      BY ZenonT(30), <1>16, <2>2, <3>1 DEF init, XferTypes
<1>17. CASE recover_bus_full
  <2>1. cmdq' \in {cmdq, <<>>} /\ respq' \in {respq, <<>>} /\ rxfifo' \in {rxfifo, <<>>}
    BY <1>17 DEF recover_bus_full
  <2>2. cmdq' \in Seq(Cmd) /\ respq' \in Seq(Response) /\ rxfifo' \in Seq(Word)
    BY <2>1, <1>0, ZenonT(30) DEF XferTypes
  <2> QED
    BY ZenonT(30), <1>17, <2>2 DEF recover_bus_full, XferTypes
<1>18. CASE dequeue
  BY ZenonT(30), <1>18 DEF dequeue, XferTypes, hardware, thread
<1> QED
  BY ZenonT(30), <1>1, <1>3, <1>4, <1>5, <1>6, <1>7, <1>8, <1>9, <1>10, <1>11, <1>12, <1>13, <1>14, <1>15,
     <1>16, <1>17, <1>18 DEF Thread, Working, Wait, Recovery

\* While the engine answers commands, the thread waits for them or has given up.
LEMMA HardwareInv ==
    ASSUME XferInv, Hardware
    PROVE  QueuesInv' /\ IrqInv'
<1> USE DEF XferInv
<1>1. Received' <=> Received
  <2>1. UNCHANGED thread
    BY DEF Hardware, AnswerOk, AnswerError, FailSilently, RaiseError, RaiseIbi
  <2>2. UNCHANGED <<xfer, got>>
    BY ZenonT(30), <2>1 DEF thread
  <2> QED
    BY ZenonT(30), <2>2, ReceivedKept
<1>2. IrqInv'
  BY ZenonT(30) DEF Hardware, AnswerOk, AnswerError, FailSilently, RaiseError, RaiseIbi, thread, IrqInv,
     NeverDeaf
<1>3. CASE AnswerOk \/ AnswerError \/ FailSilently
  <2>1. /\ engine = "Ready" /\ cmdq # <<>> /\ UNCHANGED <<thread, pending, threshold>>
        /\ err_due' => engine' = "Halted"
    <3>1. CASE AnswerOk
      BY ZenonT(30), <3>1 DEF AnswerOk, Answer, QueuesInv
    <3>2. CASE AnswerError
      BY <3>2 DEF AnswerError, Answer
    <3>3. CASE FailSilently
      BY <3>3 DEF FailSilently
    <3> QED
      BY ZenonT(30), <1>3, <3>1, <3>2, <3>3
  <2>2. UNCHANGED <<xfer_faulted, pc, xfer, took, got, ret, recovered>>
    BY <2>1 DEF thread
  <2>3. /\ ~(pc \in {"idle", "clear_status", "clear_pending", "unmask", "finish"} /\ ~xfer_faulted)
        /\ pc \notin {"drain", "rearm", "push"}
        /\ ~(pc \in {"reset", "resume"} /\ recovered)
    BY <2>1 DEF QueuesInv, Clean
  <2>4. ASSUME pc \in {"poll", "process"}
        PROVE  InFlight' /\ Len(respq) < xfer.n
    <3>1. InFlight
      BY <2>4 DEF QueuesInv
    <3>2. CASE AnswerOk
      <4>1. PICK len \in 0..1 : Answer("Ok", len)
        BY <3>2, ZenonT(30) DEF AnswerOk
      <4>2. engine' = IF "Ok" = "Ok" THEN engine ELSE "Halted"
        BY <3>2 DEF AnswerOk
      <4> QED
        BY <4>1, <4>2, <2>1, <2>2, <3>1, AnswerInFlight
    <3>3. CASE AnswerError
      <4>1. PICK err \in Errors, len \in 0..1 : Answer(err, len)
        BY <3>3, ZenonT(30) DEF AnswerError
      <4>2. engine' = IF err = "Ok" THEN engine ELSE "Halted"
        BY <3>3, <4>1 DEF AnswerError, Errors
      <4> QED
        BY <4>1, <4>2, <2>1, <2>2, <3>1, AnswerInFlight
    <3>4. CASE FailSilently
      BY ZenonT(30), <3>1, <3>4, FailInFlight
    <3> QED
      BY ZenonT(30), <1>3, <3>2, <3>3, <3>4
  <2>5. pc = "poll" /\ "RESP" \in pending => FALSE
    BY <2>4 DEF QueuesInv, XferTypes, Transfers
  <2>6. pc = "process" => took # {} /\ "RESP" \notin took
    BY <2>4 DEF QueuesInv, XferTypes, Transfers
  <2> QED
    BY ZenonT(30), <1>1, <1>2, <2>1, <2>2, <2>3, <2>4, <2>5, <2>6 DEF QueuesInv
<1>4. CASE RaiseError \/ RaiseIbi
  <2>1. /\ UNCHANGED <<engine, cmdq, respq, rxfifo, threshold, thread, pending>>
        /\ err_due' => engine' = "Halted"
    BY <1>4 DEF RaiseError, RaiseIbi, hardware, QueuesInv
  <2>2. UNCHANGED <<xfer_faulted, pc, xfer, took, got, ret, recovered>>
    BY <2>1 DEF thread
  <2>3. (InFlight' <=> InFlight) /\ (Clean' <=> Clean)
    BY <2>1, <2>2, InFlightKept DEF Clean
  <2> QED
    BY ZenonT(30), <1>1, <1>2, <2>1, <2>2, <2>3 DEF QueuesInv
<1> QED
  BY <1>3, <1>4 DEF Hardware

\* The handler latches a completion only when every response is there.
LEMMA IsrInv ==
    ASSUME XferInv, isr_service
    PROVE  QueuesInv' /\ IrqInv'
<1> USE DEF XferInv
<1>1. /\ UNCHANGED <<engine, cmdq, respq, rxfifo, threshold, err_due>>
      /\ UNCHANGED <<xfer_faulted, pc, xfer, took, got, ret, recovered>>
      /\ pending' = pending \cup Status /\ irqs' = IF Status = {} THEN irqs ELSE "Masked"
      /\ irqs # "Off"
  BY DEF isr_service, hardware, thread
<1>2. (InFlight' <=> InFlight) /\ (Clean' <=> Clean) /\ (Received' <=> Received)
  BY <1>1, InFlightKept, ReceivedKept DEF Clean
<1>3. "RESP" \in Status => Len(respq) > threshold
  BY DEF Status
<1>4. pc \in {"drain", "rearm", "push"} => "RESP" \notin Status
  BY <1>3 DEF QueuesInv, Clean, XferTypes
<1>5. pc = "poll" /\ "RESP" \in Status => Len(respq) = xfer.n
  <2> SUFFICES ASSUME pc = "poll", "RESP" \in Status PROVE Len(respq) = xfer.n
    OBVIOUS
  <2>1. InFlight /\ Len(respq) \in Nat /\ Len(cmdq) \in Nat /\ xfer.n \in Nat
    BY DEF QueuesInv, XferTypes, Transfers
  <2>2. Len(respq) > xfer.n - 1
    BY ZenonT(30), <2>1, <1>3 DEF InFlight
  <2> QED
    BY <2>1, <2>2 DEF InFlight, ResponsesSoFar
<1>6. QueuesInv'
  BY ZenonT(30), <1>1, <1>2, <1>4, <1>5 DEF QueuesInv
<1>7. IrqInv'
  BY <1>1 DEF IrqInv, NeverDeaf
<1> QED
  BY <1>6, <1>7

\* A transfer starts on clean queues and hands its commands to the engine.
LEMMA StartInv ==
    ASSUME XferInv,
           (\E op \in Ops : Start(op)) \/ DrainStale \/ Rearm \/ PushCommands
    PROVE  QueuesInv' /\ IrqInv'
<1> USE DEF XferInv
<1>1. ASSUME NEW op \in Ops, Start(op)
      PROVE  QueuesInv' /\ IrqInv'
  <2>1. /\ UNCHANGED <<engine, cmdq, respq, rxfifo, err_due, irqs, xfer_faulted, took>>
        /\ pc = "idle" /\ ~xfer_faulted /\ pc' = "drain" /\ pending' = {} /\ xfer'.id = xfer.id + 1
    BY <1>1 DEF Start, hardware
  <2>2. xfer.id \in Nat
    BY BoundsAssumption DEF XferTypes, Transfers
  <2> QED
    BY <2>1, <2>2 DEF QueuesInv, Clean, IrqInv, NeverDeaf
<1>2. CASE DrainStale
  <2>1. /\ UNCHANGED <<engine, cmdq, err_due, irqs, xfer_faulted, xfer, pending>>
        /\ pc = "drain" /\ pc' = "rearm" /\ PopResponses
    BY <1>2 DEF DrainStale
  <2>2. Clean /\ ~xfer_faulted
    BY <2>1 DEF QueuesInv
  <2>3. WordsOf(respq, Len(respq)) = Len(rxfifo)
    <3>1. respq = <<>> /\ rxfifo = <<>>
      BY <2>2 DEF Clean
    <3>2. Len(respq) = 0 /\ Len(rxfifo) = 0
      BY <3>1
    <3> QED
      BY <3>2, WordsNone
  <2>4. Clean'
    BY ZenonT(30), <2>1, <2>2, <2>3, PopTypes DEF Clean
  <2> QED
    BY ZenonT(30), <2>1, <2>2, <2>4 DEF QueuesInv, IrqInv, NeverDeaf
<1>3. CASE Rearm
  <2>1. /\ UNCHANGED <<engine, cmdq, respq, rxfifo, err_due, xfer_faulted, xfer, pending>>
        /\ pc = "rearm" /\ pc' = "push" /\ irqs' = "On"
    BY ZenonT(30), <1>3 DEF Rearm, hardware
  <2> QED
    BY ZenonT(30), <2>1 DEF QueuesInv, Clean, IrqInv, NeverDeaf
<1>4. CASE PushCommands
  <2> DEFINE n == xfer.n
             c == [i \in 1..n |-> [xfer |-> xfer.id, tid |-> i - 1, want |-> xfer.want]]
  <2>1. /\ UNCHANGED <<engine, respq, rxfifo, err_due, irqs, xfer_faulted, xfer, pending>>
        /\ pc = "push" /\ pc' = "poll" /\ threshold' = n - 1 /\ cmdq' = cmdq \o c
    BY ZenonT(30), <1>4 DEF PushCommands
  <2>2. Clean /\ ~xfer_faulted /\ "RESP" \notin pending
    BY <2>1 DEF QueuesInv
  <2>3. engine = "Ready" /\ cmdq = <<>> /\ respq = <<>> /\ rxfifo = <<>>
    BY <2>2 DEF Clean
  <2>4. n \in Nat
    BY BoundsAssumption DEF XferTypes, Transfers
  <2>5. Len(cmdq') = n /\ \A i \in 1..n : cmdq'[i] = c[i]
    <3>1. c \in Seq(Cmd) /\ Len(c) = n
      <4>1. /\ xfer.n \in 1..MaxCmds /\ xfer.id \in 1..MaxXfers /\ xfer.want \in 0..1
        BY <2>1, BoundsAssumption DEF XferTypes, Transfers, QueuesInv
      <4>2. \A i \in 1..n : [xfer |-> xfer.id, tid |-> i - 1, want |-> xfer.want] \in Cmd
        BY <4>1, BoundsAssumption DEF Cmd
      <4> QED
        BY <4>2, <2>4
    <3> HIDE DEF c, n
    <3>2. cmdq' = <<>> \o c
      BY <2>1, <2>3
    <3>3. <<>> \o c = c
      BY <3>1
    <3> QED
      BY ZenonT(30), <3>1, <3>2, <3>3
  <2>6. CommandsLeft'
    <3>1. ASSUME NEW i \in 1..n
          PROVE  cmdq'[i] = [xfer |-> xfer.id, tid |-> n - n + i - 1, want |-> xfer.want]
      <4>1. n - n + i - 1 = i - 1
        BY <2>4
      <4>2. cmdq'[i] = [xfer |-> xfer.id, tid |-> i - 1, want |-> xfer.want]
        BY ZenonT(30), <2>5
      <4> QED
        BY <4>1, <4>2, ZenonT(30)
    <3>2. Len(cmdq') <= xfer'.n
      BY <2>1, <2>4, <2>5
    <3> QED
      BY <3>1, <3>2, <2>1, <2>5, ZenonT(30) DEF CommandsLeft
  <2>7. ResponsesSoFar'
    <3>1. Len(respq') = 0
      BY <2>1, <2>3
    <3> QED
      BY <3>1, <2>1, <2>3, <2>4, <2>5 DEF ResponsesSoFar
  <2>8. WordsInStep'
    <3>1. Len(respq') = 0 /\ Len(rxfifo') = 0
      BY <2>1, <2>3
    <3> QED
      BY <3>1, WordsNone DEF WordsInStep
  <2>9. InFlight'
    BY <2>1, <2>6, <2>7, <2>8 DEF InFlight
  <2> QED
    BY ZenonT(30), <2>1, <2>2, <2>3, <2>9 DEF QueuesInv, IrqInv, NeverDeaf
<1> QED
  BY ZenonT(30), <1>1, <1>2, <1>3, <1>4

\* The thread takes the latched bits, or gives up; a transfer whose responses are in
\* order has its own responses and words, and leaves clean queues.
LEMMA WaitInv ==
    ASSUME XferInv, Wait
    PROVE  QueuesInv' /\ IrqInv'
<1> USE DEF XferInv
<1>1. CASE TakePending \/ Timeout
  <2>1. /\ UNCHANGED <<engine, cmdq, respq, rxfifo, threshold, err_due, irqs, xfer_faulted, xfer, ret>>
        /\ pc = "poll"
        /\ \/ pending # {} /\ took' = pending /\ pc' = "process"
           \/ took' = {} /\ pc' = "halt"
    BY <1>1 DEF TakePending, Timeout, hardware
  <2>2. InFlight' <=> InFlight
    BY ZenonT(30), <2>1, InFlightKept
  <2> QED
    BY <2>1, <2>2 DEF QueuesInv, IrqInv, NeverDeaf
<1>2. CASE process_responses
  <2> DEFINE n == xfer.n
  <2>1. /\ UNCHANGED <<engine, cmdq, err_due, irqs, xfer_faulted, xfer, took>>
        /\ pc = "process" /\ PopResponses /\ pc' = IF ret' # "Ok" THEN "halt" ELSE "finish"
        /\ got' = [i \in 1..Len(respq) |-> Scatter(i)]
        /\ ret' = "Ok" => RetOfResponses = "Ok" /\ "ERR" \notin took
    BY ZenonT(30), <1>2 DEF process_responses
  <2>2. /\ InFlight /\ took # {}
        /\ "RESP" \in took => Len(respq) = n
        /\ took \subseteq {"RESP", "ERR"} /\ ~xfer_faulted
        /\ n \in Nat /\ Len(respq) \in Nat /\ Len(cmdq) \in Nat /\ Len(rxfifo) \in Nat
        /\ cmdq \in Seq(Cmd)
    BY <2>1, BoundsAssumption DEF QueuesInv, XferTypes, Transfers
  <2>3. ASSUME ret' = "Ok" PROVE Clean' /\ Received'
    <3>1. Len(respq) = n /\ \A i \in 1..n : Verdict(respq[i]) = "Ok"
      <4>1. "RESP" \in took
        BY ZenonT(30), <2>1, <2>2, <2>3
      <4> QED
        BY <4>1, <2>1, <2>2, <2>3, RetIsSound
    <3>2. \A i \in 1..n : respq[i].err = "Ok"
      BY <3>1 DEF Verdict
    <3>3. ResponsesSoFar /\ WordsInStep
      BY ZenonT(30), <2>2 DEF InFlight
    <3>4. Len(cmdq) = 0 /\ engine = "Ready"
      <4>1. Len(respq) + Len(cmdq) = n
        BY <3>1, <3>3, <2>2 DEF ResponsesSoFar
      <4>2. engine # "Halted"
        BY <4>1, <3>1, <3>2, <3>3, <2>2 DEF ResponsesSoFar
      <4> QED
        BY <4>1, <4>2, <3>1, <2>2 DEF XferTypes
    <3>5. cmdq = <<>>
      BY <3>4, <2>2
    <3>6. Clean'
      <4>1. WordsOf(respq, Len(respq)) = Len(rxfifo)
        BY ZenonT(30), <3>3, <3>4 DEF WordsInStep
      <4> QED
        BY <4>1, <3>4, <3>5, <2>1, PopTypes DEF Clean
    <3>7. ASSUME NEW i \in 1..n
          PROVE  /\ got'[i].resp = respq[i]
                 /\ respq[i].len = 1 => got'[i].word = [xfer |-> xfer.id, tid |-> i - 1]
      <4>1. got'[i] = Scatter(i)
        BY <3>1, <2>1
      <4>2. respq[i].len = 1 =>
                /\ WordsOf(respq, i) <= Len(rxfifo)
                /\ rxfifo[WordsOf(respq, i)] = [xfer |-> xfer.id, tid |-> i - 1]
        <5>1. WordsOf(respq, Len(respq)) \in Nat /\ Len(rxfifo) \in Nat
          BY <2>2, WordsType
        <5>2. i \in 1..Len(respq)
          BY <3>1
        <5>3. WordsOf(respq, Len(respq)) <= Len(rxfifo)
          BY <3>3, ZenonT(30) DEF WordsInStep
        <5>4. ASSUME respq[i].len = 1
              PROVE  /\ WordsOf(respq, i) \in 1..WordsOf(respq, Len(respq))
                     /\ rxfifo[WordsOf(respq, i)] = [xfer |-> xfer.id, tid |-> i - 1]
          BY <5>2, <5>4, <3>3, ZenonT(30) DEF WordsInStep
        <5>5. ASSUME respq[i].len = 1 PROVE WordsOf(respq, i) <= Len(rxfifo)
          <6>1. WordsOf(respq, i) \in 1..WordsOf(respq, Len(respq))
            BY <5>4, <5>5
          <6> HIDE DEF n
          <6> QED
            BY <5>1, <5>3, <6>1
        <5> QED
          BY <5>4, <5>5, ZenonT(30)
      <4>3. Scatter(i) = [resp |-> respq[i],
                          word |-> IF respq[i].len = 1 /\ WordsOf(respq, i) <= Len(rxfifo)
                                   THEN rxfifo[WordsOf(respq, i)] ELSE NoWord]
        BY ZenonT(30) DEF Scatter, Words, WordsOf
      <4> DEFINE w == IF respq[i].len = 1 /\ WordsOf(respq, i) <= Len(rxfifo)
                      THEN rxfifo[WordsOf(respq, i)] ELSE NoWord
      <4>4. got'[i] = [resp |-> respq[i], word |-> w]
        BY ZenonT(30), <4>1, <4>3
      <4>5. respq[i].len = 1 => w = [xfer |-> xfer.id, tid |-> i - 1]
        BY ZenonT(30), <4>2
      <4> HIDE DEF w
      <4>6. got'[i].resp = respq[i] /\ got'[i].word = w
        BY <4>4
      <4> QED
        BY ZenonT(30), <4>5, <4>6
    <3>8. Len(got') = n
      BY <3>1, <2>1, <2>2
    <3>9. \A i \in 1..n : respq[i].xfer = xfer.id /\ respq[i].tid = i - 1
      BY ZenonT(30), <3>1, <3>3 DEF ResponsesSoFar
    <3> HIDE DEF n
    <3>10. Received'
      <4>1. n = xfer'.n /\ xfer.id = xfer'.id
        BY <2>1 DEF n
      <4>2. ASSUME NEW i \in 1..n
            PROVE  /\ got'[i].resp.xfer = xfer'.id /\ got'[i].resp.tid = i - 1
                   /\ got'[i].resp.err = "Ok"
                   /\ got'[i].resp.len = 1 => got'[i].word = [xfer |-> xfer'.id, tid |-> i - 1]
        <5>1. got'[i].resp = respq[i]
          BY ZenonT(30), <3>7
        <5>2. respq[i].len = 1 => got'[i].word = [xfer |-> xfer.id, tid |-> i - 1]
          BY <3>7
        <5>3. respq[i].xfer = xfer.id /\ respq[i].tid = i - 1 /\ respq[i].err = "Ok"
          BY <3>2, <3>9
        <5> QED
          BY <5>1, <5>2, <5>3, <4>1, ZenonT(30)
      <4> QED
        BY <4>1, <4>2, <3>8, ZenonT(30) DEF Received
    <3> QED
      BY ZenonT(30), <3>6, <3>10
  <2> QED
    BY <2>1, <2>2, <2>3 DEF QueuesInv, IrqInv, NeverDeaf
<1> QED
  BY ZenonT(30), <1>1, <1>2 DEF Wait

\* A recovery either leaves clean queues or a driver that knows it is faulted.
LEMMA RecoveryInv ==
    ASSUME XferInv, Recovery \/ Finish
    PROVE  QueuesInv' /\ IrqInv'
<1> USE DEF XferInv
<1>1. CASE enter_halt
  <2>1. /\ UNCHANGED <<err_due, irqs, xfer_faulted, xfer, took, ret>>
        /\ pc = "halt" /\ pc' = "reset"
        /\ recovered' => engine' = "Halted"
        /\ engine' # engine => engine' = "Halted"
    BY ZenonT(30), <1>1 DEF enter_halt, XferTypes
  <2> QED
    BY <2>1 DEF QueuesInv, IrqInv, NeverDeaf, XferTypes
<1>2. CASE reset_ctrl
  <2>1. /\ UNCHANGED <<engine, err_due, irqs, xfer_faulted, xfer, took, ret>>
        /\ pc = "reset" /\ pc' = "resume"
        /\ recovered' => recovered /\ cmdq' = <<>> /\ respq' = <<>> /\ rxfifo' = <<>>
    BY <1>2 DEF reset_ctrl
  <2> QED
    BY ZenonT(30), <2>1 DEF QueuesInv, IrqInv, NeverDeaf
<1>3. CASE exit_halt
  <2>1. /\ UNCHANGED <<cmdq, respq, rxfifo, irqs, xfer, took, ret, got>>
        /\ pc = "resume" /\ pc' = IF took = {} THEN "clear_status" ELSE "finish"
        /\ ~xfer_faulted' => recovered /\ (engine # "Halted" \/ engine' = "Ready")
        /\ err_due' => err_due /\ engine' = engine
    <3>1. /\ UNCHANGED <<cmdq, respq, rxfifo, irqs, xfer, took, ret, got>>
          /\ pc = "resume" /\ pc' = IF took = {} THEN "clear_status" ELSE "finish"
      BY <1>3 DEF exit_halt
    <3>2. ~xfer_faulted' => recovered /\ (engine # "Halted" \/ engine' = "Ready")
      BY <1>3, ZenonT(30) DEF exit_halt
    <3>3. err_due' => err_due /\ engine' = engine
      BY <1>3, ZenonT(30) DEF exit_halt
    <3> QED
      BY ZenonT(30), <3>1, <3>2, <3>3
  <2>2. ~xfer_faulted' => Clean'
    BY ZenonT(30), <2>1 DEF QueuesInv, Clean
  <2> QED
    BY ZenonT(30), <2>1, <2>2 DEF QueuesInv, IrqInv, NeverDeaf
<1>4. CASE ClearStatus \/ ClearPending
  <2>1. /\ UNCHANGED <<engine, cmdq, respq, rxfifo, err_due, irqs, xfer_faulted, xfer, took>>
        /\ pc \in {"clear_status", "clear_pending"} /\ pc' \in {"clear_pending", "unmask"}
    BY ZenonT(30), <1>4 DEF ClearStatus, ClearPending, hardware
  <2> QED
    BY ZenonT(30), <2>1 DEF QueuesInv, Clean, IrqInv, NeverDeaf
<1>5. CASE UnmaskAfterTimeout \/ Finish
  <2>1. /\ UNCHANGED <<engine, cmdq, respq, rxfifo, err_due, xfer_faulted>>
        /\ pc \in {"unmask", "finish"} /\ pc' = "idle" /\ irqs' = "On"
    BY <1>5 DEF UnmaskAfterTimeout, Finish, Return, hardware
  <2> QED
    BY ZenonT(30), <2>1 DEF QueuesInv, Clean, IrqInv, NeverDeaf
<1> QED
  BY ZenonT(30), <1>1, <1>2, <1>3, <1>4, <1>5 DEF Recovery

\* At rest: a new init, a bus recovery, the consumer of the in-band interrupts.
LEMMA RestInv ==
    ASSUME XferInv, init \/ recover_bus_full \/ dequeue
    PROVE  QueuesInv' /\ IrqInv'
<1> USE DEF XferInv
<1>1. CASE init
  BY ZenonT(30), <1>1 DEF init, QueuesInv, Clean, IrqInv, NeverDeaf
<1>2. CASE recover_bus_full
  BY ZenonT(30), <1>2 DEF recover_bus_full, QueuesInv, Clean, IrqInv, NeverDeaf
<1>3. CASE dequeue
  <2>1. /\ UNCHANGED <<engine, cmdq, respq, rxfifo, err_due, irqs, xfer_faulted, pending, pc>>
        /\ pc = "idle"
    BY <1>3 DEF dequeue, hardware, thread
  <2> QED
    BY ZenonT(30), <2>1 DEF QueuesInv, Clean, IrqInv, NeverDeaf
<1> QED
  BY ZenonT(30), <1>1, <1>2, <1>3

\* Every step keeps the invariant of the transfer.
LEMMA XferStep ==
    ASSUME XferInv, [Next]_vars
    PROVE  XferInv'
<1>1. CASE Hardware
  BY <1>1, HardwareTypes, HardwareInv DEF XferInv
<1>2. CASE isr_service \/ Thread
  <2>1. XferTypes'
    BY <1>2, ThreadTypes DEF XferInv, QueuesInv
  <2>2. QueuesInv' /\ IrqInv'
    <3>1. CASE isr_service
      BY <3>1, IsrInv
    <3>2. CASE priv_xfer \/ i2c_priv_xfer \/ do_ccc \/ do_entdaa
      <4>1. \E op \in Ops : Start(op)
        BY <3>2 DEF priv_xfer, i2c_priv_xfer, do_ccc, do_entdaa, Ops
      <4> QED
        BY <4>1, StartInv
    <3>3. CASE Working
      BY <3>3, StartInv, WaitInv, RecoveryInv DEF Working
    <3>4. CASE init \/ recover_bus_full \/ dequeue
      BY ZenonT(30), <3>4, RestInv
    <3> QED
      BY ZenonT(30), <1>2, <3>1, <3>2, <3>3, <3>4 DEF Thread
  <2> QED
    BY <2>1, <2>2 DEF XferInv
<1>3. CASE UNCHANGED vars
  <2>1. /\ UNCHANGED <<engine, cmdq, respq, rxfifo, threshold, err_due, err_stat, irqs, pending>>
        /\ UNCHANGED <<xfer_faulted, pc, xfer, took, got, ret, recovered, inits>>
    BY <1>3 DEF vars, hardware, thread
  <2>2. (InFlight' <=> InFlight) /\ (Clean' <=> Clean) /\ (Received' <=> Received)
    BY <2>1, InFlightKept, ReceivedKept DEF Clean
  <2>3. XferTypes'
    BY ZenonT(30), <2>1 DEF XferInv, XferTypes
  <2>4. QueuesInv' /\ IrqInv'
    BY <2>1, <2>2 DEF XferInv, QueuesInv, IrqInv, NeverDeaf
  <2> QED
    BY <2>3, <2>4 DEF XferInv
<1> QED
  BY <1>1, <1>2, <1>3 DEF Next

\* The controller after a successful start().
LEMMA InitInv == Init => XferInv /\ RingInv
<1> SUFFICES ASSUME Init PROVE XferInv /\ RingInv
  OBVIOUS
<1>1. <<>> \in Seq(Cmd) /\ <<>> \in Seq(Response) /\ <<>> \in Seq(Word) /\ <<>> \in Seq(1..MaxIbis)
  OBVIOUS
<1>2. NoXfer(0) \in Transfers
  BY BoundsAssumption DEF NoXfer, Transfers, Ops
<1>3. XferTypes
  <2>1. cmdq \in Seq(Cmd) /\ respq \in Seq(Response) /\ rxfifo \in Seq(Word)
    BY <1>1, ZenonT(30) DEF Init
  <2>2. threshold \in 0..MaxCmds - 1 /\ inits \in 0..MaxInits /\ xfer \in Transfers
    BY <1>2, BoundsAssumption DEF Init
  <2> QED
    BY ZenonT(30), <2>1, <2>2 DEF Init, XferTypes, Pcs
<1>4. QueuesInv /\ IrqInv
  BY ZenonT(30) DEF Init, QueuesInv, Clean, IrqInv, NeverDeaf
<1>5. EmptyRing.len = 0 /\ EmptyRing.overflowed = FALSE /\ EmptyRing \in Ring
  BY DepthAssumption DEF EmptyRing, Ring, Slots, None
<1>6. Consecutive(ring, 0) /\ ring.len = 0 /\ ring.overflowed = FALSE
  BY <1>5 DEF Init, Consecutive
<1>7. raised = 0 /\ expect = 1 /\ ibiq = <<>> /\ Len(ibiq) = 0 /\ raised - Len(ibiq) = 0
  <2>1. raised = 0 /\ expect = 1 /\ ibiq = <<>>
    BY DEF Init
  <2>2. Len(ibiq) = 0
    BY <2>1
  <2>3. raised - Len(ibiq) = 0
    <3>1. 0 - 0 = 0
      OBVIOUS
    <3> QED
      BY <3>1, <2>1, <2>2, ZenonT(30)
  <2> QED
    BY <2>1, <2>2, <2>3
<1>8. RingInv
  BY <1>1, <1>6, <1>7, BoundsAssumption DEF RingInv
<1> QED
  BY <1>3, <1>4, <1>8 DEF XferInv

\* XferInv and RingInv are inductive: the queues of the engine and the thread agree at
\* every point of a transfer, and the ring and the IBI queue hold the last events.
THEOREM TransferInvariance == Spec => []IInv
<1>1. Init => IInv
  BY InitInv DEF IInv
<1>2. IInv /\ [Next]_vars => IInv'
  BY XferStep, RingStep DEF IInv
<1> QED
  BY <1>1, <1>2, PTL DEF Spec

\* The driver's fields, the engine's queues and the ring keep their types, for any
\* bounds.
THEOREM TypeCorrect == Spec => []TypeOK
<1>1. IInv => TypeOK
  <2> SUFFICES ASSUME IInv PROVE TypeOK
    BY ZenonT(30)
  <2>1. ring \in Ring
    BY DEF IInv, RingInv, Consecutive
  <2>2. xfer.id \in 0..MaxXfers /\ xfer.op \in Ops
    BY DEF IInv, XferInv, XferTypes, Transfers
  <2> QED
    BY <2>1, <2>2 DEF IInv, XferInv, XferTypes, RingInv, TypeOK
<1> QED
  BY <1>1, TransferInvariance, PTL

\* HonestSuccess, for any number of commands and transfers: a transfer that returns Ok
\* got its own responses and words, whatever an earlier one left behind.
THEOREM HonestSuccessAlways == Spec => []HonestSuccess
<1>1. IInv => HonestSuccess
  <2> SUFFICES ASSUME IInv, pc = "finish", ret = "Ok"
               PROVE  Received
    BY ZenonT(30) DEF HonestSuccess, Received
  <2> QED
    BY ZenonT(30) DEF IInv, XferInv, QueuesInv
<1> QED
  BY <1>1, TransferInvariance, PTL

\* CleanBetweenTransfers, for any number of commands and transfers: a driver that is not
\* faulted rests on empty queues and a ready engine.
THEOREM CleanBetweenTransfersAlways == Spec => []CleanBetweenTransfers
<1>1. IInv => CleanBetweenTransfers
  BY DEF IInv, XferInv, QueuesInv, Clean, CleanBetweenTransfers
<1> QED
  BY <1>1, TransferInvariance, PTL

\* NeverDeaf, for any number of commands and transfers: no completion interrupt stays
\* masked with nobody to unmask it.
THEOREM NeverDeafAlways == Spec => []NeverDeaf
<1>1. IInv => NeverDeaf
  BY DEF IInv, XferInv, IrqInv
<1> QED
  BY <1>1, TransferInvariance, PTL

\* GapIsAnnounced, for a ring of any depth and any number of in-band interrupts: the
\* consumer gets the events in order and hears of an overflow before a gap.
THEOREM GapIsAnnouncedAlways == Spec => []GapIsAnnounced
<1>1. IInv => GapIsAnnounced
  <2> SUFFICES ASSUME IInv PROVE GapIsAnnounced
    OBVIOUS
  <2> DEFINE m == ring.len
             n == Len(ibiq)
             last == raised - n
             items == Items(ring)
             queue == items \o ibiq
  <2>1. /\ m \in Nat /\ n \in Nat /\ raised \in Nat /\ last \in Nat /\ m <= last
        /\ ibiq \in Seq(Nat) /\ ring.buf \in [Slots -> Nat] /\ ring.head \in Slots
        /\ m <= IBIQ_DEPTH
    BY BoundsAssumption, DepthAssumption DEF IInv, RingInv, Consecutive, Ring
  <2>2. ASSUME NEW i \in 1..m PROVE items[i] = last - m + i /\ items[i] \in Nat
    <3>1. items[i] = ring.buf[Slot(ring.head, i - 1)]
      BY DEF Items, Slot
    <3>2. i - 1 \in 0..m - 1
      BY <2>1
    <3>3. ring.buf[Slot(ring.head, i - 1)] = last - m + 1 + (i - 1)
      BY ZenonT(30), <3>2 DEF IInv, RingInv, Consecutive
    <3> QED
      BY <3>1, <3>3, <2>1
  <2>3. items \in Seq(Nat) /\ Len(items) = m
    <3> DEFINE e(i) == ring.buf[(ring.head + i - 1) % IBIQ_DEPTH]
    <3>1. items = [i \in 1..m |-> e(i)]
      BY DEF Items
    <3>2. \A i \in 1..m : e(i) \in Nat
      BY ZenonT(30), <2>2 DEF Items
    <3> HIDE DEF items, e, m
    <3> QED
      BY <3>1, <3>2, <2>1
  <2>4. \A i \in 1..n : ibiq[i] = last + i
    BY DEF IInv, RingInv
  <2>5. ring.overflowed \/ expect = last - m + 1
    BY DEF IInv, RingInv
  <2>6. GapIsAnnounced <=> /\ ring.overflowed \/ queue = <<>> \/ queue[1] = expect
                           /\ \A i \in 1..Len(queue) : queue[i] = raised - Len(queue) + i
    BY ZenonT(30) DEF GapIsAnnounced
  <2>7. last = raised - n /\ Len(ibiq) = n
    OBVIOUS
  <2> HIDE DEF m, n, last, items
  <2>8. /\ Len(queue) = m + n
        /\ \A i \in 1..m + n : queue[i] = IF i <= m THEN items[i] ELSE ibiq[i - m]
    BY <2>1, <2>3, <2>7, Joined, ZenonT(30)
  <2> HIDE DEF queue
  <2>9. ASSUME NEW i \in 1..m + n PROVE queue[i] = last - m + i
    <3>1. CASE i <= m
      <4>1. i \in 1..m
        BY <3>1, <2>1
      <4> QED
        BY <4>1, <3>1, <2>2, <2>8
    <3>2. CASE i > m
      <4>1. i - m \in 1..n /\ queue[i] = ibiq[i - m]
        BY <3>2, <2>1, <2>8
      <4> QED
        BY <4>1, <2>1, <2>4
    <3> QED
      BY <3>1, <3>2, <2>1
  <2>10. \A i \in 1..Len(queue) : queue[i] = raised - Len(queue) + i
    <3>1. \A i \in 1..m + n : last - m + i = raised - (m + n) + i
      BY <2>1, <2>7
    <3> QED
      BY <3>1, <2>8, <2>9, ZenonT(30)
  <2>11. ring.overflowed \/ queue = <<>> \/ queue[1] = expect
    <3>1. CASE m + n = 0
      <4>1. m = 0 /\ n = 0
        BY <3>1, <2>1
      <4>2. queue = <<>>
        <5>1. items = <<>> /\ ibiq = <<>>
          BY <4>1, <2>1, <2>3, <2>7
        <5> QED
          BY <5>1 DEF queue
      <4> QED
        BY ZenonT(30), <4>2
    <3>2. CASE m + n > 0
      <4>1. queue[1] = last - m + 1
        BY <3>2, <2>1, <2>9
      <4> QED
        BY ZenonT(30), <4>1, <2>5
    <3> QED
      BY <3>1, <3>2, <2>1
  <2> QED
    BY <2>6, <2>10, <2>11, ZenonT(30) DEF queue
<1> QED
  BY <1>1, TransferInvariance, PTL
====
