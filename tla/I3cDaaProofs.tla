---------------------------- MODULE I3cDaaProofs ----------------------------
(***************************************************************************)
(* Proofs about I3cDaa for any number of targets, slots and addresses: the *)
(* table and its maps, for a caller that knows its bus; then, when it has  *)
(* cleared unknown owners with RSTDAA before it calls bus_daa, who answers *)
(* to which address.                                                       *)
(***************************************************************************)
EXTENDS I3cDaa, WellFoundedInduction, TLAPS

\* A leaf that names no prover is tried with these, in this order, for so many seconds
\* each.  The repeated SMT only matters on a loaded machine, where one attempt can stall.
USE SMTT(30), SMTT(31), ZenonT(30), SMTT(32)

Ents == DOMAIN devices

Shape ==
    /\ devices \in Seq(Entry)
    /\ by_pos \in [Slots -> Nat]
    /\ dat \in [Slots -> Nat]
    /\ held \in [Targets -> Nat]
    /\ in_use \subseteq Addrs
    /\ pos \in Slots /\ need \subseteq Slots

\* The table of devices and the map of positions are inverse to each other, and the DAT
\* of an engine that works holds the addresses of the table.
MapsAgree ==
    /\ \A i \in Ents : by_pos[devices[i].pos] = i
    /\ \A s \in Slots : by_pos[s] # 0 => by_pos[s] \in Ents /\ devices[by_pos[s]].pos = s
    /\ \A i, j \in Ents : devices[i].addr = devices[j].addr => i = j
    /\ ~xfer_faulted => \A i \in Ents : dat[devices[i].pos] = devices[i].addr

\* An I2C device has no PID and no dynamic address; an I3C device has a PID of its own.
Kinds ==
    /\ \A i \in Ents : devices[i].kind = "I2c" =>
          devices[i].pid = NoPid /\ devices[i].da_state = "Unassigned"
    /\ \A i \in Ents : devices[i].kind = "I3c" => devices[i].pid \in Targets
    /\ \A i, j \in Ents : devices[i].kind = "I3c" /\ devices[i].pid = devices[j].pid => i = j

Mid == {"getpid", "own", "move", "park", "assign_pid", "assign_bcr"}

\* What an operation under way knows of the entry it works on, and of the winner.
Local ==
    /\ pc \in {"idle", "assign_pid", "assign_bcr"} => need = {}
    /\ \A s \in need : by_pos[s] # 0 /\ devices[by_pos[s]].kind = "I3c"
    /\ pc \in Mid => ~xfer_faulted
    /\ pc \in Mid \cup {"verify", "verify_lost"} =>
          /\ Here # 0 /\ devices[Here].kind = "I3c"
    /\ pc \in {"own", "move", "verify", "verify_lost"} =>
          /\ who \in Targets
          /\ \E i \in Ents : devices[i].pid = who
    /\ pc \in {"own", "assign_bcr"} => devices[Here].pid = who
    /\ pc \in {"move", "verify", "verify_lost"} => devices[Here].pid # who

TableInv == Shape /\ MapsAgree /\ Kinds /\ Local /\ HeldIsReserved

-----------------------------------------------------------------------------

\* A function on 1..n is a sequence of length n.
LEMMA Seqs ==
    ASSUME NEW S, NEW n \in Nat, NEW f \in [1..n -> S]
    PROVE  f \in Seq(S) /\ Len(f) = n
<1>1. f \in Seq(S)
    OBVIOUS
<1>. QED BY <1>1

\* Writing one element of a sequence keeps its length and the others.
LEMMA Written ==
    ASSUME NEW S, NEW q \in Seq(S), NEW at \in 1..Len(q), NEW x \in S
    PROVE  LET w == [q EXCEPT ![at] = x]
           IN  /\ w \in Seq(S) /\ Len(w) = Len(q)
               /\ \A k \in 1..Len(q) : w[k] = IF k = at THEN x ELSE q[k]
OBVIOUS

\* What Append yields.
LEMMA Appended ==
    ASSUME NEW S, NEW q \in Seq(S), NEW x \in S
    PROVE  LET w == Append(q, x)
           IN  /\ w \in Seq(S) /\ Len(w) = Len(q) + 1 /\ w[Len(q) + 1] = x
               /\ \A k \in 1..Len(q) : w[k] = q[k]
OBVIOUS

\* Where Append puts its element, whatever that element is.
LEMMA AppendedAt ==
    ASSUME NEW S, NEW q \in Seq(S), NEW x
    PROVE  LET w == Append(q, x)
           IN  /\ DOMAIN w = 1..Len(q) + 1 /\ w[Len(q) + 1] = x
               /\ \A k \in 1..Len(q) : w[k] = q[k]
OBVIOUS

\* The positions of a sequence.
LEMMA Positions ==
    ASSUME NEW S, NEW q \in Seq(S) PROVE Len(q) \in Nat /\ DOMAIN q = 1..Len(q)
OBVIOUS

\* Only the states of some I3C entries change: the table stays what it was.
Restated ==
    /\ devices' \in Seq(Entry)
    /\ Ents' = Ents
    /\ \A i \in Ents : /\ devices'[i].kind = devices[i].kind /\ devices'[i].pid = devices[i].pid
                       /\ devices'[i].addr = devices[i].addr /\ devices'[i].pos = devices[i].pos
                       /\ devices[i].kind = "I2c" => devices'[i].da_state = devices[i].da_state

\* Marking one I3C entry changes its state and nothing else of the table.
LEMMA MarkedRestates ==
    ASSUME NEW i \in Ents, NEW st \in {"Unassigned", "Verified", "Unknown"},
           devices \in Seq(Entry), devices[i].kind = "I3c", devices' = Marked(i, st)
    PROVE  Restated /\ devices'[i].da_state = st
               /\ \A j \in Ents \ {i} : devices'[j] = devices[j]
<1>1. devices[i] \in Entry
    BY DEF Ents
<1>2. [devices[i] EXCEPT !.da_state = st] \in Entry
    BY <1>1 DEF Entry
<1>3. devices' = [devices EXCEPT ![i] = [devices[i] EXCEPT !.da_state = st]]
    BY DEF Marked
<1>4. devices' \in Seq(Entry) /\ Ents' = Ents
    BY <1>2, <1>3, Written DEF Ents
<1>5. \A j \in Ents : devices'[j] = IF j = i THEN [devices[i] EXCEPT !.da_state = st] ELSE devices[j]
    BY <1>3 DEF Ents
<1>. QED BY <1>1, <1>4, <1>5 DEF Restated, Entry

\* So does marking two.
LEMMA MarkedTwiceRestates ==
    ASSUME NEW i \in Ents, NEW j \in Ents, i # j, devices \in Seq(Entry),
           devices[i].kind = "I3c", devices[j].kind = "I3c",
           NEW x \in {"Unassigned", "Verified", "Unknown"},
           NEW y \in {"Unassigned", "Verified", "Unknown"},
           devices' = [devices EXCEPT ![i].da_state = x, ![j].da_state = y]
    PROVE  Restated /\ devices'[i].da_state = x /\ devices'[j].da_state = y
               /\ \A k \in Ents \ {i, j} : devices'[k] = devices[k]
<1>. DEFINE di == [devices[i] EXCEPT !.da_state = x]
            dj == [devices[j] EXCEPT !.da_state = y]
            m == [devices EXCEPT ![i] = di]
<1>1. devices[i] \in Entry /\ devices[j] \in Entry
    BY DEF Ents
<1>2. di \in Entry /\ di.kind = devices[i].kind /\ di.pid = devices[i].pid
          /\ di.addr = devices[i].addr /\ di.pos = devices[i].pos /\ di.da_state = x
    BY <1>1 DEF Entry
<1>3. dj \in Entry /\ dj.kind = devices[j].kind /\ dj.pid = devices[j].pid
          /\ dj.addr = devices[j].addr /\ dj.pos = devices[j].pos /\ dj.da_state = y
    BY <1>1 DEF Entry
<1>4. devices' = [m EXCEPT ![j] = dj]
    BY ZenonT(30) DEF Ents
<1>. HIDE DEF di, dj
<1>5. m \in Seq(Entry) /\ Len(m) = Len(devices)
          /\ \A k \in 1..Len(devices) : m[k] = IF k = i THEN di ELSE devices[k]
    BY <1>2, Written DEF Ents
<1>. HIDE DEF m
<1>6. devices' \in Seq(Entry) /\ Len(devices') = Len(m)
          /\ \A k \in 1..Len(m) : devices'[k] = IF k = j THEN dj ELSE m[k]
  <2>1. j \in 1..Len(m)
      BY <1>5 DEF Ents
  <2>2. /\ [m EXCEPT ![j] = dj] \in Seq(Entry) /\ Len([m EXCEPT ![j] = dj]) = Len(m)
        /\ \A k \in 1..Len(m) : [m EXCEPT ![j] = dj][k] = IF k = j THEN dj ELSE m[k]
      BY <1>3, <1>5, <2>1, Written
  <2>. QED BY ZenonT(30), <1>4, <2>2
<1>7. Ents' = Ents /\ Ents = 1..Len(devices)
    BY <1>5, <1>6 DEF Ents
<1>8. devices'[i] = di /\ devices'[j] = dj /\ \A k \in Ents \ {i, j} : devices'[k] = devices[k]
    BY ZenonT(30), <1>5, <1>6, <1>7
<1>9. Restated
    BY <1>2, <1>3, <1>6, <1>7, <1>8, ZenonT(40) DEF Restated
<1>. QED BY ZenonT(30), <1>2, <1>3, <1>8, <1>9

\* When only states change, the maps still agree and the same addresses are reserved.
LEMMA RestatedKeeps ==
    ASSUME Shape, MapsAgree, Kinds, Restated, UNCHANGED <<by_pos, dat>>,
           xfer_faulted => xfer_faulted'
    PROVE  MapsAgree' /\ Kinds' /\ Reserved(devices)' = Reserved(devices)
<1>1. MapsAgree'
  <2>1. \A i \in Ents' : by_pos'[devices'[i].pos] = i
      BY DEF MapsAgree, Restated
  <2>2. \A s \in Slots : by_pos'[s] # 0 => by_pos'[s] \in Ents' /\ devices'[by_pos'[s]].pos = s
      BY DEF MapsAgree, Restated
  <2>3. \A i, j \in Ents' : devices'[i].addr = devices'[j].addr => i = j
      BY DEF MapsAgree, Restated
  <2>4. ASSUME ~xfer_faulted' PROVE \A i \in Ents' : dat'[devices'[i].pos] = devices'[i].addr
    <3>1. ~xfer_faulted
        BY <2>4
    <3>. QED BY <3>1 DEF MapsAgree, Restated
  <2>. QED BY <2>1, <2>2, <2>3, <2>4 DEF MapsAgree
<1>2. Kinds'
    BY DEF Kinds, Restated
<1>3. Reserved(devices)' = Reserved(devices)
    BY DEF Reserved, Restated, Ents
<1>. QED BY <1>1, <1>2, <1>3

\* The slot the walk is at holds an entry.
LEMMA HereIsEntry ==
    ASSUME Shape, MapsAgree, Here # 0
    PROVE  Here \in Ents /\ devices[Here].pos = pos /\ devices[Here] \in Entry
BY DEF Shape, MapsAgree, Here, Ents

\* A PID in the table has an entry.
LEMMA OwnerIsEntry ==
    ASSUME Shape, Kinds, NEW t \in Targets, \E i \in Ents : devices[i].pid = t
    PROVE  OwnerOf(t) \in Ents /\ devices[OwnerOf(t)].pid = t
<1>1. PICK i \in Ents : devices[i].pid = t
    OBVIOUS
<1>2. i \in Nat /\ devices[i].kind \in {"I3c", "I2c"}
  <2>1. devices[i] \in Entry /\ i \in Nat
      BY DEF Shape, Ents
  <2>. QED BY <2>1 DEF Entry
<1>3. \A j \in Ents : devices[j].pid = t => i = j
    BY <1>1, <1>2, DaaAssumption DEF Kinds
<1>4. \A j \in Ents : devices[j].pid = t => i <= j
    BY <1>2, <1>3
<1>. QED BY <1>1, <1>4, ZenonT(30) DEF OwnerOf, Ents

\* 0 is no address.
LEMMA AddrsArePositive == Addrs \subseteq Nat \ {0}
BY DaaAssumption

\* The address of an entry is reserved.
LEMMA ReservedHolds ==
    ASSUME NEW i \in Ents
    PROVE  devices[i].addr \in Reserved(devices)
BY DEF Reserved, Ents

\* The address of an entry is an address.
LEMMA AddrOfEntry ==
    ASSUME Shape, NEW i \in Ents
    PROVE  devices[i].addr \in Addrs
<1>1. devices[i] \in Entry
    BY DEF Shape, Ents
<1>. QED BY <1>1 DEF Entry

\* Reservations only grow and a target latches the address of an entry ...
LEMMA LatchIsReserved ==
    ASSUME Shape, MapsAgree, HeldIsReserved, ~xfer_faulted, NEW i \in Ents,
           Latch(devices[i].pos), Reserved(devices)' = Reserved(devices), in_use \subseteq in_use'
    PROVE  HeldIsReserved' /\ held' \in [Targets -> Nat]
<1>1. PICK t \in Targets : held' = [held EXCEPT ![t] = dat[devices[i].pos]]
    BY ZenonT(30) DEF Latch, Holders
<1>2. dat[devices[i].pos] = devices[i].addr /\ devices[i].addr \in Addrs
  <2>1. dat[devices[i].pos] = devices[i].addr
      BY DEF MapsAgree
  <2>2. devices[i].addr \in Addrs
      BY AddrOfEntry
  <2>. QED BY <2>1, <2>2
<1>3. devices[i].addr \in in_use'
    BY ReservedHolds DEF HeldIsReserved
<1>4. held' \in [Targets -> Nat]
    BY ZenonT(30), <1>1, <1>2, AddrsArePositive DEF Shape
<1>5. \A u \in Targets : held'[u] # 0 => held'[u] \in in_use'
    BY <1>1, <1>2, <1>3 DEF HeldIsReserved, Shape
<1>. QED BY <1>4, <1>5 DEF HeldIsReserved

\* ... or targets move to an address that is reserved ...
LEMMA MoveIsReserved ==
    ASSUME Shape, HeldIsReserved, NEW a, NEW b \in Nat, Move(a, b), b \in in_use',
           Reserved(devices)' \subseteq in_use', 
           \A t \in Targets : held[t] # 0 /\ held[t] # a => held[t] \in in_use'
    PROVE  HeldIsReserved' /\ held' \in [Targets -> Nat]
<1>1. held' \in [Targets -> Nat]
    BY DEF Move, Shape
<1>2. \A u \in Targets : held'[u] # 0 => held'[u] \in in_use'
    BY DEF HeldIsReserved, Shape, Move
<1>. QED BY <1>1, <1>2 DEF HeldIsReserved

\* ... or nothing changes on the bus.
LEMMA StillReserved ==
    ASSUME Shape, HeldIsReserved, UNCHANGED held, Reserved(devices)' = Reserved(devices),
           in_use \subseteq in_use'
    PROVE  HeldIsReserved' /\ held' \in [Targets -> Nat]
BY DEF Shape, HeldIsReserved

\* A call that returns leaves its locals as they are between calls.
LEMMA ReturnIsLocal ==
    ASSUME Return
    PROVE  Local' /\ pos' \in Slots /\ need' \subseteq Slots
<1>1. 0 \in Slots
    BY DaaAssumption DEF Slots
<1>. QED BY <1>1 DEF Return, Local, Mid

-----------------------------------------------------------------------------
(* The steps of the walk keep the table.                                   *)

\* What mark_da_unknown does to an I3C device.
LEMMA MarkedUnknown ==
    ASSUME NEW i, devices[i].kind = "I3c", NEW C, mark_da_unknown(i, C)
    PROVE  devices' = Marked(i, "Unknown") /\ in_use' = in_use \cup {devices[i].addr} \cup C
BY ZenonT(30) DEF mark_da_unknown

\* mark_da_unknown keeps the maps and reserves the candidates.
LEMMA MarkUnknownKeeps ==
    ASSUME Shape, MapsAgree, Kinds, NEW i \in Ents, devices[i].kind = "I3c", NEW C \in SUBSET Addrs,
           mark_da_unknown(i, C), UNCHANGED <<by_pos, dat>>, xfer_faulted => xfer_faulted'
    PROVE  /\ Restated /\ MapsAgree' /\ Kinds' /\ Reserved(devices)' = Reserved(devices)
           /\ in_use \subseteq in_use' /\ C \subseteq in_use' /\ in_use' \subseteq Addrs
           /\ devices'[i].da_state = "Unknown" /\ \A j \in Ents \ {i} : devices'[j] = devices[j]
<1>1. Restated /\ devices'[i].da_state = "Unknown" /\ \A j \in Ents \ {i} : devices'[j] = devices[j]
    BY MarkedUnknown, MarkedRestates DEF Shape
<1>2. MapsAgree' /\ Kinds' /\ Reserved(devices)' = Reserved(devices)
    BY <1>1, RestatedKeeps
<1>3. devices[i].addr \in Addrs
    BY AddrOfEntry
<1>4. in_use \subseteq in_use' /\ C \subseteq in_use' /\ in_use' \subseteq Addrs
    BY <1>3, MarkedUnknown DEF Shape
<1>. QED BY <1>1, <1>2, <1>4

\* A failed transfer never clears the fault.
LEMMA FailedKeeps ==
    ASSUME Failed PROVE xfer_faulted => xfer_faulted'
BY ZenonT(30) DEF Failed

\* A call that returns, and one that goes on with the walk.
LEMMA ReturnTable ==
    ASSUME TableInv, Return, xfer_faulted => xfer_faulted', Restated, UNCHANGED <<by_pos, dat>>,
           in_use' \subseteq Addrs, HeldIsReserved', held' \in [Targets -> Nat]
    PROVE  TableInv'
<1>1. Local' /\ pos' \in Slots /\ need' \subseteq Slots
    BY ReturnIsLocal
<1>2. MapsAgree' /\ Kinds'
    BY RestatedKeeps DEF TableInv
<1>3. Shape'
    BY <1>1 DEF TableInv, Shape, Restated
<1>. QED BY <1>1, <1>2, <1>3 DEF TableInv

\* The slots that need an address are still slots of I3C entries.
LEMMA NeedKept ==
    ASSUME TableInv, Restated, UNCHANGED by_pos, need' \subseteq need
    PROVE  \A s \in need' : by_pos'[s] # 0 /\ devices'[by_pos'[s]].kind = "I3c"
<1>1. \A s \in need : by_pos[s] \in Ents
    BY DEF TableInv, Local, MapsAgree, Shape
<1>. QED BY <1>1 DEF TableInv, Local, Restated

\* Going on with the walk, with no more than states changed, keeps TableInv.
LEMMA OnWalkTable ==
    ASSUME TableInv, pc' = "walk", xfer_faulted => xfer_faulted', Restated, UNCHANGED <<by_pos, dat>>,
           need' \subseteq need, pos' \in Slots, in_use' \subseteq Addrs, HeldIsReserved',
           held' \in [Targets -> Nat]
    PROVE  TableInv'
<1>1. MapsAgree' /\ Kinds'
    BY RestatedKeeps DEF TableInv
<1>2. Shape'
    BY DEF TableInv, Shape, Restated
<1>3. Local'
    BY NeedKept DEF Local, Mid
<1>. QED BY <1>1, <1>2, <1>3 DEF TableInv

\* A table that is left alone is restated.
LEMMA Unchanged ==
    ASSUME TableInv, UNCHANGED devices
    PROVE  Restated /\ Reserved(devices)' = Reserved(devices)
BY DEF TableInv, Restated, Shape, Ents

\* A bus and an address book that are left alone stay consistent.
LEMMA UnchangedBus ==
    ASSUME TableInv, UNCHANGED <<held, in_use>>, Reserved(devices)' = Reserved(devices)
    PROVE  HeldIsReserved' /\ held' \in [Targets -> Nat] /\ in_use' \subseteq Addrs
BY DEF TableInv, Shape, HeldIsReserved

\* The walk goes from slot to slot.
LEMMA NextPosIsSlot == ASSUME pos \in Slots PROVE NextPos \in Slots
BY DaaAssumption DEF Slots, NextPos

\* ENTDAA, for whichever target wins it, keeps TableInv.
LEMMA EntdaaTable ==
    ASSUME TableInv, WalkEntdaa
    PROVE  TableInv'
<1>. USE DEF TableInv
<1>1. pos \in need /\ Here # 0 /\ devices[Here].kind = "I3c" /\ UNCHANGED <<by_pos, dat>>
    BY DEF WalkEntdaa, Local, Here
<1>2. Here \in Ents /\ devices[Here].pos = pos
    BY <1>1, HereIsEntry
<1>a. CASE /\ ~xfer_faulted /\ Latch(pos) /\ mark_da_unknown(Here, {}) /\ pc' = "getpid"
           /\ UNCHANGED <<need, pos, who, xfer_faulted>>
  <2>1. /\ Restated /\ MapsAgree' /\ Kinds' /\ Reserved(devices)' = Reserved(devices)
        /\ in_use \subseteq in_use' /\ in_use' \subseteq Addrs
      BY <1>a, <1>1, <1>2, MarkUnknownKeeps
  <2>2. HeldIsReserved' /\ held' \in [Targets -> Nat]
      BY <1>a, <1>2, <2>1, LatchIsReserved
  <2>3. Shape'
      BY <1>1, <1>a, <2>1, <2>2 DEF Shape, Restated
  <2>4. Local'
    <3>1. \A s \in need : by_pos[s] \in Ents
        BY DEF Local, MapsAgree, Shape
    <3>2. ~xfer_faulted'
        BY <1>a
    <3>. QED BY <1>1, <1>2, <1>a, <2>1, <3>1, <3>2 DEF Local, Restated, Mid, Here
  <2>. QED BY <2>1, <2>2, <2>3, <2>4
<1>b. CASE Fail /\ UNCHANGED <<held, devices, in_use>>
  <2>1. xfer_faulted => xfer_faulted'
      BY <1>b, FailedKeeps DEF Fail
  <2>. QED BY <1>1, <1>b, <2>1, ReturnTable, Unchanged, UnchangedBus DEF Fail
<1>c. CASE /\ ~xfer_faulted /\ (Latch(pos) \/ UNCHANGED held)
           /\ mark_da_unknown(Here, {}) /\ Fail
  <2>2. xfer_faulted => xfer_faulted'
      BY <1>c, FailedKeeps DEF Fail
  <2>3. /\ Restated /\ MapsAgree' /\ Kinds' /\ Reserved(devices)' = Reserved(devices)
        /\ in_use \subseteq in_use' /\ in_use' \subseteq Addrs
      BY <1>c, <1>1, <1>2, <2>2, MarkUnknownKeeps
  <2>4. HeldIsReserved' /\ held' \in [Targets -> Nat]
      BY <1>c, <1>2, <2>3, LatchIsReserved, StillReserved
  <2>. QED BY <1>1, <1>c, <2>2, <2>3, <2>4, ReturnTable DEF Fail
<1>. QED BY <1>a, <1>b, <1>c DEF WalkEntdaa

\* The end of a walk keeps TableInv.
LEMMA DoneTable ==
    ASSUME TableInv, WalkDone
    PROVE  TableInv'
BY ReturnTable, Unchanged, UnchangedBus DEF WalkDone, table

\* Skipping a slot keeps TableInv.
LEMMA SkipTable ==
    ASSUME TableInv, WalkSkip
    PROVE  TableInv'
<1>1. pos' \in Slots
    BY NextPosIsSlot DEF WalkSkip, TableInv, Shape
<1>. QED BY <1>1, OnWalkTable, Unchanged, UnchangedBus DEF WalkSkip, table

\* GETPID after ENTDAA keeps TableInv.
LEMMA GetpidTable ==
    ASSUME TableInv, WalkGetpid
    PROVE  TableInv'
<1>1. UNCHANGED <<devices, by_pos, in_use, dat, held>>
    BY DEF WalkGetpid, table
<1>a. CASE Fail
  <2>1. xfer_faulted => xfer_faulted'
      BY <1>a, FailedKeeps DEF Fail
  <2>. QED BY <1>1, <1>a, <2>1, ReturnTable, Unchanged, UnchangedBus DEF Fail
<1>b. ASSUME NEW t \in Holders(dat[pos]), who' = t, UNCHANGED <<xfer_faulted, need, pos, budget>>,
             pc' = IF \A i \in DOMAIN devices : devices[i].pid # t THEN "park"
                   ELSE IF devices[OwnerOf(t)].addr = devices[Here].addr THEN "own" ELSE "move"
      PROVE  TableInv'
  <2>1. Here \in Ents /\ devices[Here].kind = "I3c" /\ Here # 0 /\ ~xfer_faulted
    <3>1. pc \in Mid
        BY DEF WalkGetpid, Mid
    <3>. QED BY <3>1, HereIsEntry DEF TableInv, Local
  <2>2. pc' # "park" => OwnerOf(t) \in Ents /\ devices[OwnerOf(t)].pid = t
    <3>1. t \in Targets
        BY DEF Holders
    <3>. QED BY <1>b, <3>1, OwnerIsEntry DEF Ents, TableInv
  <2>3. t \in Targets
      BY DEF Holders
  <2>4. pc' = "own" => devices[Here].pid = t
      BY <1>b, <2>1, <2>2 DEF TableInv, MapsAgree
  <2>5. pc' = "move" => devices[Here].pid # t
      BY <1>b, <2>1, <2>2 DEF TableInv, Kinds
  <2>6. pc' \in {"park", "own", "move"}
      BY <1>b
  <2>7. Local'
    <3>1. ~xfer_faulted'
        BY <1>b, <2>1
    <3>2. Here' = Here
        BY <1>1, <1>b DEF Here
    <3>3. pc' # "park" => \E i \in Ents' : devices'[i].pid = who'
        BY <1>1, <1>b, <2>2 DEF Ents
    <3>4. \A s \in need' : by_pos'[s] # 0 /\ devices'[by_pos'[s]].kind = "I3c"
        BY <1>1, <1>b, NeedKept, Unchanged
    <3>. QED BY <1>1, <1>b, <2>1, <2>3, <2>4, <2>5, <2>6, <3>1, <3>2, <3>3, <3>4 DEF Local
  <2>. QED BY <1>1, <1>b, <2>7 DEF TableInv, Shape, MapsAgree, Kinds, HeldIsReserved, Ents
<1>. QED BY <1>a, <1>b DEF WalkGetpid

\* Accepting the expected target keeps TableInv.
LEMMA OwnTable ==
    ASSUME TableInv, WalkOwn
    PROVE  TableInv'
<1>1. UNCHANGED <<by_pos, in_use, dat, held>>
    BY DEF WalkOwn
<1>2. Here \in Ents /\ devices[Here].kind = "I3c"
  <2>1. pc \in Mid
      BY DEF WalkOwn, Mid
  <2>. QED BY <2>1, HereIsEntry DEF TableInv, Local
<1>a. CASE devices' = Marked(Here, "Verified") /\ need' = need \ {pos} /\ pos' = NextPos
           /\ OnWalk /\ UNCHANGED xfer_faulted
  <2>1. Restated
      BY <1>2, <1>a, MarkedRestates DEF TableInv, Shape
  <2>2. Reserved(devices)' = Reserved(devices)
      BY <1>1, <1>a, <2>1, RestatedKeeps DEF TableInv
  <2>3. pos' \in Slots
      BY <1>a, NextPosIsSlot DEF TableInv, Shape
  <2>. QED BY <1>1, <1>a, <2>1, <2>2, <2>3, OnWalkTable, UnchangedBus DEF OnWalk
<1>b. CASE Fail /\ UNCHANGED devices
  <2>1. xfer_faulted => xfer_faulted'
      BY <1>b, FailedKeeps DEF Fail
  <2>. QED BY <1>1, <1>b, <2>1, ReturnTable, Unchanged, UnchangedBus DEF Fail
<1>. QED BY <1>a, <1>b DEF WalkOwn

\* The owner of the PID that won somebody else's slot.
LEMMA Winner ==
    ASSUME TableInv, pc \in {"move", "verify", "verify_lost"}
    PROVE  /\ Here \in Ents /\ devices[Here].kind = "I3c" /\ devices[Here].pos = pos
           /\ OwnerOf(who) \in Ents /\ devices[OwnerOf(who)].pid = who
           /\ OwnerOf(who) # Here /\ devices[OwnerOf(who)].kind = "I3c"
           /\ who \in Targets
<1>1. Here # 0 /\ devices[Here].kind = "I3c" /\ who \in Targets /\ devices[Here].pid # who
    BY DEF TableInv, Local, Mid
<1>2. Here \in Ents /\ devices[Here].pos = pos
    BY <1>1, HereIsEntry DEF TableInv
<1>3. OwnerOf(who) \in Ents /\ devices[OwnerOf(who)].pid = who
    BY <1>1, OwnerIsEntry DEF TableInv, Local
<1>4. devices[OwnerOf(who)].kind \in {"I3c", "I2c"}
  <2>1. devices[OwnerOf(who)] \in Entry
      BY <1>3 DEF TableInv, Shape, Ents
  <2>. QED BY <2>1 DEF Entry
<1>5. devices[OwnerOf(who)].kind = "I3c"
    BY <1>1, <1>3, <1>4, DaaAssumption DEF TableInv, Kinds
<1>. QED BY <1>1, <1>2, <1>3, <1>5

\* Moving another entry's target to its own address keeps TableInv.
LEMMA MoveTable ==
    ASSUME TableInv, WalkMove
    PROVE  TableInv'
<1>. DEFINE owner == OwnerOf(who)
            expected == devices[owner].addr
<1>1. UNCHANGED <<by_pos, in_use, dat>> /\ pc = "move"
    BY DEF WalkMove
<1>2. /\ Here \in Ents /\ devices[Here].kind = "I3c"
      /\ owner \in Ents /\ devices[owner].kind = "I3c" /\ owner # Here
      /\ devices[owner].pid = who /\ who \in Targets /\ devices[Here].pid # who /\ Here # 0
  <2>1. devices[Here].pid # who /\ Here # 0
      BY <1>1 DEF TableInv, Local, Mid
  <2>. QED BY <1>1, <2>1, Winner
<1>3. expected \in in_use /\ expected \in Addrs /\ expected \in Nat
    BY ZenonT(30), <1>2, ReservedHolds, AddrOfEntry, AddrsArePositive DEF TableInv, HeldIsReserved
<1>4. ASSUME Restated, Move(dat[pos], expected) \/ UNCHANGED held,
             pc' \in {"verify", "verify_lost"}, UNCHANGED <<need, pos, who>>,
             xfer_faulted => xfer_faulted'
      PROVE  TableInv'
  <2>1. MapsAgree' /\ Kinds' /\ Reserved(devices)' = Reserved(devices)
      BY <1>1, <1>4, RestatedKeeps DEF TableInv
  <2>2. Reserved(devices)' \subseteq in_use'
      BY <1>1, <2>1 DEF TableInv, HeldIsReserved
  <2>3. CASE Move(dat[pos], expected)
    <3>1. HeldIsReserved' /\ held' \in [Targets -> Nat]
        BY <1>1, <1>3, <2>2, <2>3, MoveIsReserved DEF TableInv, HeldIsReserved
    <3>2. Shape'
        BY <1>1, <1>4, <3>1 DEF TableInv, Shape, Restated
    <3>3. Local'
      <4>1. \A s \in need' : by_pos'[s] # 0 /\ devices'[by_pos'[s]].kind = "I3c"
          BY <1>1, <1>4, NeedKept
      <4>. QED BY <1>1, <1>2, <1>4, <4>1 DEF Local, Mid, Restated, Here
    <3>. QED BY <2>1, <3>1, <3>2, <3>3 DEF TableInv
  <2>4. CASE UNCHANGED held
    <3>1. HeldIsReserved' /\ held' \in [Targets -> Nat]
        BY <1>1, <2>1, <2>4, UnchangedBus
    <3>2. Shape'
        BY <1>1, <1>4, <3>1 DEF TableInv, Shape, Restated
    <3>3. Local'
      <4>1. \A s \in need' : by_pos'[s] # 0 /\ devices'[by_pos'[s]].kind = "I3c"
          BY <1>1, <1>4, NeedKept
      <4>. QED BY <1>1, <1>2, <1>4, <4>1 DEF Local, Mid, Restated, Here
    <3>. QED BY <2>1, <3>1, <3>2, <3>3 DEF TableInv
  <2>. QED BY <1>4, <2>3, <2>4
<1>a. CASE /\ Move(dat[pos], expected)
           /\ devices' = [devices EXCEPT ![Here].da_state = "Unassigned",
                                         ![owner].da_state = "Unknown"]
           /\ pc' = "verify" /\ UNCHANGED <<xfer_faulted, need, pos, budget, who>>
  <2>1. Restated
      BY <1>2, <1>a, MarkedTwiceRestates, ZenonT(30) DEF TableInv, Shape
  <2>. QED BY <1>a, <1>4, <2>1
<1>b. CASE /\ Move(dat[pos], expected) \/ UNCHANGED held
           /\ devices' = Marked(owner, "Unknown")
           /\ Failed /\ pc' = "verify_lost" /\ UNCHANGED <<need, pos, budget, who>>
  <2>1. Restated
      BY <1>2, <1>b, MarkedRestates DEF TableInv, Shape
  <2>2. xfer_faulted => xfer_faulted'
      BY <1>b, FailedKeeps
  <2>. QED BY <1>b, <1>4, <2>1, <2>2
<1>c. CASE Fail /\ UNCHANGED <<devices, held>>
  <2>1. xfer_faulted => xfer_faulted'
      BY <1>c, FailedKeeps DEF Fail
  <2>. QED BY <1>1, <1>c, <2>1, ReturnTable, Unchanged, UnchangedBus DEF Fail
<1>. QED BY <1>a, <1>b, <1>c DEF WalkMove

\* Verifying the move keeps TableInv.
LEMMA VerifyTable ==
    ASSUME TableInv, WalkVerify
    PROVE  TableInv'
<1>. DEFINE owner == OwnerOf(who)
<1>1. UNCHANGED <<by_pos, in_use, dat, held>> /\ pc \in {"verify", "verify_lost"}
    BY DEF WalkVerify
<1>2. /\ Here \in Ents /\ devices[Here].kind = "I3c"
      /\ owner \in Ents /\ devices[owner].kind = "I3c" /\ owner # Here
    BY <1>1, Winner
<1>a. CASE /\ devices' = [devices EXCEPT ![Here].da_state = "Unassigned",
                                         ![owner].da_state = "Verified"]
           /\ need' = need \ {devices[owner].pos} /\ pos' = NextPos
           /\ OnWalk /\ UNCHANGED xfer_faulted
  <2>1. Restated
      BY <1>2, <1>a, MarkedTwiceRestates, ZenonT(30) DEF TableInv, Shape
  <2>2. Reserved(devices)' = Reserved(devices)
      BY <1>1, <1>a, <2>1, RestatedKeeps DEF TableInv
  <2>3. pos' \in Slots
      BY <1>a, NextPosIsSlot DEF TableInv, Shape
  <2>. QED BY <1>1, <1>a, <2>1, <2>2, <2>3, OnWalkTable, UnchangedBus DEF OnWalk
<1>b. CASE Fail /\ UNCHANGED devices
  <2>1. xfer_faulted => xfer_faulted'
      BY <1>b, FailedKeeps DEF Fail
  <2>. QED BY <1>1, <1>b, <2>1, ReturnTable, Unchanged, UnchangedBus DEF Fail
<1>. QED BY <1>a, <1>b DEF WalkVerify

\* A set of naturals that is not empty has a least element.
LEMMA LeastOf ==
    ASSUME NEW S \in SUBSET Nat, S # {}
    PROVE  \E a \in S : \A b \in S : a <= b
<1>. DEFINE R == {ss \in Nat \X Nat : ss[1] < ss[2]}
<1>1. IsWellFoundedOn(R, Nat)
    BY NatLessThanWellFounded DEF OpToRel
<1>2. PICK a \in S : \A b \in S : <<b, a>> \notin R
  <2>. HIDE DEF R
  <2>. QED BY ZenonT(30), <1>1, WFMin
<1>3. ASSUME NEW b \in S PROVE a <= b
  <2>1. SUFFICES ASSUME b < a PROVE FALSE
      OBVIOUS
  <2>2. <<b, a>> \in Nat \X Nat /\ <<b, a>>[1] < <<b, a>>[2]
      BY <2>1
  <2>3. <<b, a>> \in R
      BY <2>2
  <2>. QED BY <1>2, <2>3
<1>. QED BY <1>3

\* alloc_from returns an address that is free.
LEMMA AllocIsFree ==
    ASSUME Addrs \ in_use # {}
    PROVE  alloc_from \in Addrs \ in_use
<1>. DEFINE Free == Addrs \ in_use
<1>1. Free \subseteq Nat /\ Free # {}
    BY ZenonT(30), AddrsArePositive
<1>2. PICK a \in Free : \A b \in Free : a <= b
    BY ZenonT(30), <1>1, LeastOf
<1>. QED BY <1>2 DEF alloc_from

\* Parking a target that has no entry keeps TableInv.
LEMMA ParkTable ==
    ASSUME TableInv, WalkPark
    PROVE  TableInv'
<1>1. UNCHANGED <<by_pos, dat>> /\ pc = "park"
    BY DEF WalkPark
<1>2. Here \in Ents /\ devices[Here].kind = "I3c"
  <2>1. pc \in Mid
      BY <1>1 DEF Mid
  <2>. QED BY <2>1, HereIsEntry DEF TableInv, Local
<1>3. Addrs \ in_use # {} => alloc_from \in Addrs /\ alloc_from \in Nat
    BY ZenonT(30), AllocIsFree, AddrsArePositive
<1>a. CASE Return /\ UNCHANGED <<devices, in_use, held, xfer_faulted>>
    BY <1>1, <1>a, ReturnTable, Unchanged, UnchangedBus
<1>b. CASE /\ Addrs \ in_use # {} /\ Move(dat[pos], alloc_from)
           /\ in_use' = in_use \cup {alloc_from} /\ devices' = Marked(Here, "Unassigned")
           /\ OnWalk /\ UNCHANGED <<xfer_faulted, need, pos>>
  <2>1. Restated
      BY <1>2, <1>b, MarkedRestates DEF TableInv, Shape
  <2>2. Reserved(devices)' = Reserved(devices)
      BY <1>1, <1>b, <2>1, RestatedKeeps DEF TableInv
  <2>3. Reserved(devices)' \subseteq in_use' /\ alloc_from \in in_use' /\ in_use' \subseteq Addrs
      BY <1>b, <1>3, <2>2 DEF TableInv, HeldIsReserved, Shape
  <2>4. HeldIsReserved' /\ held' \in [Targets -> Nat]
      BY <1>b, <1>3, <2>3, MoveIsReserved DEF TableInv, HeldIsReserved
  <2>5. pos' \in Slots /\ need' \subseteq need
      BY <1>b DEF TableInv, Shape
  <2>. QED BY <1>1, <1>b, <2>1, <2>3, <2>4, <2>5, OnWalkTable DEF OnWalk
<1>c. CASE /\ Addrs \ in_use # {} /\ (Move(dat[pos], alloc_from) \/ UNCHANGED held)
           /\ mark_da_unknown(Here, {alloc_from}) /\ Fail
  <2>1. xfer_faulted => xfer_faulted'
      BY <1>c, FailedKeeps DEF Fail
  <2>2. /\ Restated /\ MapsAgree' /\ Kinds' /\ Reserved(devices)' = Reserved(devices)
        /\ in_use \subseteq in_use' /\ alloc_from \in in_use' /\ in_use' \subseteq Addrs
      BY <1>1, <1>2, <1>3, <1>c, <2>1, MarkUnknownKeeps DEF TableInv
  <2>3. HeldIsReserved' /\ held' \in [Targets -> Nat]
    <3>1. CASE Move(dat[pos], alloc_from)
        BY <1>c, <1>3, <2>2, <3>1, MoveIsReserved DEF TableInv, HeldIsReserved
    <3>2. CASE UNCHANGED held
        BY <2>2, <3>2, StillReserved DEF TableInv
    <3>. QED BY <1>c, <3>1, <3>2
  <2>. QED BY <1>1, <1>c, <2>1, <2>2, <2>3, ReturnTable DEF Fail
<1>d. CASE Fail /\ UNCHANGED <<devices, in_use, held>>
  <2>1. xfer_faulted => xfer_faulted'
      BY <1>d, FailedKeeps DEF Fail
  <2>. QED BY <1>1, <1>d, <2>1, ReturnTable, Unchanged, UnchangedBus DEF Fail
<1>. QED BY <1>a, <1>b, <1>c, <1>d DEF WalkPark

\* A target that loses power keeps TableInv.
LEMMA LeaveTable ==
    ASSUME TableInv, Leave
    PROVE  TableInv'
<1>1. UNCHANGED <<devices, by_pos, in_use, dat, xfer_faulted, pc, need, pos, budget, who>>
    BY DEF Leave, table, walk
<1>2. HeldIsReserved' /\ held' \in [Targets -> Nat]
  <2>1. PICK t \in Targets : held' = [held EXCEPT ![t] = 0]
      BY ZenonT(30) DEF Leave
  <2>2. held' \in [Targets -> Nat] /\ \A q \in Targets : held'[q] = 0 \/ held'[q] = held[q]
      BY <2>1 DEF TableInv, Shape
  <2>. QED BY <1>1, <2>2 DEF TableInv, HeldIsReserved, Reserved
<1>. QED BY ZenonT(30), <1>1, <1>2 DEF TableInv, Shape, MapsAgree, Kinds, Local, Here, Ents

\* The start of bus_daa keeps TableInv.
LEMMA DaaTable ==
    ASSUME TableInv, bus_daa
    PROVE  TableInv'
<1>1. UNCHANGED <<devices, by_pos, in_use, dat, xfer_faulted, held, who>> /\ pc' = "walk" /\ pos' = 0
    BY ZenonT(30) DEF bus_daa, table
<1>2. \A s \in need' : s \in Slots /\ by_pos[s] # 0 /\ devices[by_pos[s]].kind = "I3c"
  <2>1. ASSUME NEW i \in Ents, devices[i].kind = "I3c"
        PROVE  /\ devices[i].pos \in Slots /\ by_pos[devices[i].pos] # 0
               /\ devices[by_pos[devices[i].pos]].kind = "I3c"
    <3>1. devices[i] \in Entry /\ i # 0
        BY DEF TableInv, Shape, Ents
    <3>. QED BY <2>1, <3>1 DEF TableInv, MapsAgree, Entry
  <2>. QED BY <2>1 DEF bus_daa, Ents
<1>3. 0 \in Slots
    BY DaaAssumption DEF Slots
<1>4. Local'
    BY <1>1, <1>2 DEF Local, Mid
<1>5. Shape'
    BY <1>1, <1>2, <1>3 DEF TableInv, Shape
<1>. QED BY ZenonT(30), <1>1, <1>4, <1>5 DEF TableInv, MapsAgree, Kinds, HeldIsReserved, Ents

\* The first half of assign_dynamic_address keeps TableInv.
LEMMA AssignTable ==
    ASSUME TableInv, assign_dynamic_address, CallerKnowsBus
    PROVE  TableInv'
<1>1. UNCHANGED <<by_pos, dat, need>> /\ need = {} /\ pc = "idle" /\ ~xfer_faulted
    BY DEF assign_dynamic_address, TableInv, Local
<1>2. PICK i \in Ents :
        /\ devices[i].kind = "I3c"
        /\ \/ /\ pc' = "assign_pid" /\ pos' = devices[i].pos
              /\ UNCHANGED <<devices, in_use, held, xfer_faulted>>
           \/ /\ Latch(devices[i].pos) /\ mark_da_unknown(i, {})
              /\ pc' = "assign_pid" /\ pos' = devices[i].pos /\ UNCHANGED xfer_faulted
           \/ Failed /\ UNCHANGED <<devices, in_use, held, pc, pos>>
           \/ /\ Latch(devices[i].pos) \/ UNCHANGED held
              /\ mark_da_unknown(i, {}) /\ Failed /\ UNCHANGED <<pc, pos>>
    BY DEF assign_dynamic_address, Ents
<1>3. xfer_faulted => xfer_faulted'
    BY <1>1
<1>4. /\ Restated /\ Reserved(devices)' = Reserved(devices)
      /\ in_use \subseteq in_use' /\ in_use' \subseteq Addrs
  <2>1. CASE UNCHANGED <<devices, in_use>>
      BY <2>1, Unchanged DEF TableInv, Shape
  <2>2. CASE mark_da_unknown(i, {})
      BY <1>1, <1>2, <1>3, <2>2, MarkUnknownKeeps DEF TableInv
  <2>. QED BY <1>2, <2>1, <2>2
<1>5. MapsAgree' /\ Kinds'
    BY <1>1, <1>3, <1>4, RestatedKeeps DEF TableInv
<1>6. HeldIsReserved' /\ held' \in [Targets -> Nat]
  <2>1. CASE UNCHANGED held
      BY <1>4, <2>1, StillReserved DEF TableInv
  <2>2. CASE Latch(devices[i].pos)
      BY <1>1, <1>4, <2>2, LatchIsReserved DEF TableInv
  <2>. QED BY <1>2, <2>1, <2>2
<1>7. pos' \in Slots
  <2>1. devices[i] \in Entry
      BY DEF TableInv, Shape, Ents
  <2>. QED BY <1>2, <2>1 DEF TableInv, Shape, Entry
<1>8. Shape'
    BY <1>1, <1>4, <1>6, <1>7 DEF TableInv, Shape, Restated
<1>9. Local'
  <2>1. CASE UNCHANGED <<pc, pos>>
      BY <1>1, <2>1 DEF Local, Mid
  <2>2. CASE pc' = "assign_pid" /\ pos' = devices[i].pos /\ UNCHANGED xfer_faulted
    <3>1. Here' = i /\ i # 0
        BY <1>1, <2>2 DEF Here, TableInv, MapsAgree, Ents, Shape
    <3>2. ~xfer_faulted'
        BY <1>1, <2>2
    <3>. QED BY ZenonT(30), <1>1, <1>2, <1>4, <2>2, <3>1, <3>2 DEF Local, Restated, Mid
  <2>. QED BY <1>2, <2>1, <2>2
<1>. QED BY <1>5, <1>6, <1>8, <1>9 DEF TableInv

\* Its GETPID keeps TableInv.
LEMMA AssignGetpidTable ==
    ASSUME TableInv, AssignGetpid
    PROVE  TableInv'
<1>1. UNCHANGED <<by_pos, in_use, dat, held>> /\ pc = "assign_pid"
    BY DEF AssignGetpid
<1>2. Here \in Ents /\ devices[Here].kind = "I3c"
  <2>1. pc \in Mid
      BY <1>1 DEF Mid
  <2>. QED BY <2>1, HereIsEntry DEF TableInv, Local
<1>a. CASE /\ pc' = "assign_bcr" /\ devices[Here].pid \in {who', NoPid}
           /\ UNCHANGED <<devices, xfer_faulted, need, pos, budget>>
  <2>1. Local'
    <3>1. ~xfer_faulted'
        BY <1>1, <1>a DEF TableInv, Local, Mid
    <3>2. devices[Here].pid = who'
        BY ZenonT(30), <1>2, <1>a, DaaAssumption DEF TableInv, Kinds
    <3>. QED BY ZenonT(30), <1>1, <1>a, <3>1, <3>2 DEF TableInv, Local, Mid, Here
  <2>. QED BY ZenonT(30), <1>1, <1>a, <2>1 DEF TableInv, Shape, MapsAgree, Kinds, HeldIsReserved, Ents
<1>b. CASE devices' = Marked(Here, "Unknown") /\ Return /\ UNCHANGED xfer_faulted
  <2>1. Restated
      BY <1>2, <1>b, MarkedRestates DEF TableInv, Shape
  <2>2. Reserved(devices)' = Reserved(devices)
      BY <1>1, <1>b, <2>1, RestatedKeeps DEF TableInv
  <2>. QED BY <1>1, <1>b, <2>1, <2>2, ReturnTable, UnchangedBus
<1>c. CASE Fail /\ UNCHANGED devices
  <2>1. xfer_faulted => xfer_faulted'
      BY <1>c, FailedKeeps DEF Fail
  <2>. QED BY <1>1, <1>c, <2>1, ReturnTable, Unchanged, UnchangedBus DEF Fail
<1>. QED BY <1>a, <1>b, <1>c DEF AssignGetpid

\* Its last transfer finds the PID in the entry already.
LEMMA PidIsKnown ==
    ASSUME Shape, Here \in Ents, devices[Here].pid = who,
           devices' = [devices EXCEPT ![Here].pid = who, ![Here].da_state = "Verified"]
    PROVE  devices' = Marked(Here, "Verified")
<1>. DEFINE h == Here
            e == [devices[h] EXCEPT !.pid = who]
<1>1. devices \in Seq(Entry) /\ devices[h] \in Entry /\ h \in DOMAIN devices
    BY DEF Shape, Ents
<1>2. e = devices[h]
    BY <1>1 DEF Entry
<1>3. devices' = [[devices EXCEPT ![h] = e] EXCEPT ![h].da_state = "Verified"]
    OBVIOUS
<1>. HIDE DEF h, e
<1>4. [devices EXCEPT ![h] = e] = devices
    BY <1>1, <1>2
<1>. QED BY ZenonT(30), <1>3, <1>4 DEF Marked, h

\* Its last transfer keeps TableInv.
LEMMA AssignVerifyTable ==
    ASSUME TableInv, AssignVerify
    PROVE  TableInv'
<1>1. UNCHANGED <<by_pos, in_use, dat, held>> /\ pc = "assign_bcr" /\ Return
    BY DEF AssignVerify, Fail
<1>2. Here \in Ents /\ devices[Here].kind = "I3c"
  <2>1. pc \in Mid
      BY <1>1 DEF Mid
  <2>. QED BY <2>1, HereIsEntry DEF TableInv, Local
<1>3. xfer_faulted => xfer_faulted'
    BY ZenonT(30), FailedKeeps DEF AssignVerify, Fail
<1>4. Restated
  <2>1. CASE devices' = [devices EXCEPT ![Here].pid = who, ![Here].da_state = "Verified"]
    <3>1. devices' = Marked(Here, "Verified")
        BY ZenonT(30), <1>1, <1>2, <2>1, PidIsKnown DEF TableInv, Local
    <3>. QED BY <1>2, <3>1, MarkedRestates DEF TableInv, Shape
  <2>. QED BY ZenonT(30), <2>1, Unchanged DEF AssignVerify
<1>5. Reserved(devices)' = Reserved(devices)
    BY <1>1, <1>3, <1>4, RestatedKeeps DEF TableInv
<1>. QED BY <1>1, <1>3, <1>4, <1>5, ReturnTable, UnchangedBus

-----------------------------------------------------------------------------
(* The operations of the table.                                            *)

\* A call made between walks leaves the locals alone.
LEMMA IdleIsLocal ==
    ASSUME TableInv, pc = "idle", UNCHANGED walk
    PROVE  Local' /\ pos' \in Slots /\ need' \subseteq Slots
BY DEF TableInv, Shape, Local, walk, Mid

\* reinit keeps TableInv.
LEMMA ReinitTable ==
    ASSUME TableInv, reinit
    PROVE  TableInv'
<1>1. UNCHANGED <<devices, by_pos, in_use, held>> /\ pc = "idle" /\ UNCHANGED walk
    BY DEF reinit
<1>2. Local' /\ pos' \in Slots /\ need' \subseteq Slots
    BY <1>1, IdleIsLocal
<1>3. \A s \in Slots : by_pos[s] # 0 => devices[by_pos[s]].addr \in Nat
    BY ZenonT(30), AddrOfEntry, AddrsArePositive DEF TableInv, MapsAgree
<1>4. Shape'
  <2>1. \/ dat' = [s \in Slots |-> IF by_pos[s] = 0 THEN 0 ELSE devices[by_pos[s]].addr]
        \/ dat' = [s \in Slots |-> 0]
      BY DEF reinit
  <2>2. dat' \in [Slots -> Nat]
      BY <1>3, <2>1
  <2>. QED BY <1>1, <1>2, <2>2 DEF TableInv, Shape
<1>5. MapsAgree'
  <2>1. ASSUME ~xfer_faulted' PROVE \A i \in Ents' : dat'[devices'[i].pos] = devices'[i].addr
    <3>1. dat' = [s \in Slots |-> IF by_pos[s] = 0 THEN 0 ELSE devices[by_pos[s]].addr]
        BY <2>1 DEF reinit
    <3>2. \A i \in Ents : devices[i] \in Entry /\ i # 0
        BY DEF TableInv, Shape, Ents
    <3>3. \A i \in Ents : devices[i].pos \in Slots
        BY <3>2 DEF Entry
    <3>. QED BY <1>1, <3>1, <3>2, <3>3 DEF TableInv, MapsAgree, Ents
  <2>. QED BY <1>1, <2>1 DEF TableInv, MapsAgree, Ents
<1>. QED BY <1>1, <1>2, <1>4, <1>5 DEF TableInv, Kinds, HeldIsReserved, Ents

\* Shape', MapsAgree' and Kinds' once the entries behind detached index i have moved.
LEMMA DetachTable ==
    ASSUME TableInv, NEW i \in Ents, Detach(i), CallerKnowsBus
    PROVE  TableInv'
<1>. DEFINE n == Len(devices)
            old(j) == IF j < i THEN j ELSE j + 1
<1>1. /\ pc = "idle" /\ UNCHANGED walk /\ UNCHANGED <<xfer_faulted, held>>
      /\ Holders(devices[i].addr) = {} /\ in_use' = in_use \ {devices[i].addr}
      /\ dat' = [dat EXCEPT ![devices[i].pos] = 0]
      /\ devices' = [j \in 1..n - 1 |-> devices[old(j)]]
      /\ by_pos' = [s \in Slots |-> IF s = devices[i].pos THEN 0
                                    ELSE IF by_pos[s] > i THEN by_pos[s] - 1 ELSE by_pos[s]]
    BY DEF Detach, detach
<1>2. Local' /\ pos' \in Slots /\ need' \subseteq Slots
    BY <1>1, IdleIsLocal
<1>3. n \in Nat /\ Ents = 1..n /\ i \in 1..n /\ n - 1 \in Nat
    BY DEF TableInv, Shape, Ents
<1>4. \A j \in 1..n - 1 : old(j) \in Ents /\ old(j) # i
    BY <1>3
<1>5. \A j, k \in 1..n - 1 : old(j) = old(k) => j = k
    BY <1>3
<1>6. \A j \in Ents : devices[j] \in Entry
    BY DEF TableInv, Shape, Ents
<1>7. \A j \in Ents : devices[j].pos \in Slots /\ devices[j].addr \in Addrs
    BY <1>6 DEF Entry
<1>8. devices' \in [1..n - 1 -> Entry] /\ \A j \in 1..n - 1 : devices'[j] = devices[old(j)]
    BY <1>1, <1>4, <1>6
<1>9. devices' \in Seq(Entry) /\ Ents' = 1..n - 1
    BY ZenonT(30), <1>3, <1>8, Seqs DEF Ents
<1>. HIDE DEF old
<1>10. Shape'
  <2>1. by_pos' \in [Slots -> Nat]
    <3>1. \A s \in Slots : by_pos[s] \in Nat /\ (by_pos[s] > i => by_pos[s] - 1 \in Nat)
        BY <1>3 DEF TableInv, Shape
    <3>. QED BY <1>1, <3>1
  <2>2. dat' \in [Slots -> Nat]
      BY ZenonT(30), <1>1 DEF TableInv, Shape
  <2>. QED BY ZenonT(30), <1>1, <1>2, <1>9, <2>1, <2>2 DEF TableInv, Shape
<1>11. Kinds'
  <2>1. ASSUME NEW j \in Ents'
        PROVE  /\ devices'[j].kind = "I2c" =>
                      devices'[j].pid = NoPid /\ devices'[j].da_state = "Unassigned"
               /\ devices'[j].kind = "I3c" => devices'[j].pid \in Targets
      BY <1>4, <1>8, <1>9 DEF TableInv, Kinds
  <2>2. ASSUME NEW j \in Ents', NEW k \in Ents', devices'[j].kind = "I3c",
               devices'[j].pid = devices'[k].pid
        PROVE  j = k
    <3>1. old(j) = old(k)
        BY <1>4, <1>8, <1>9, <2>2 DEF TableInv, Kinds
    <3>. QED BY <1>5, <1>9, <3>1
  <2>. QED BY <2>1, <2>2 DEF Kinds
<1>12. \A j \in 1..n - 1 : devices[old(j)].pos # devices[i].pos /\ by_pos[devices[old(j)].pos] = old(j)
    BY <1>4 DEF TableInv, MapsAgree
<1>13. MapsAgree'
  <2>1. \A j \in Ents' : by_pos'[devices'[j].pos] = j
    <3>1. ASSUME NEW j \in 1..n - 1 PROVE by_pos'[devices[old(j)].pos] = j
      <4>1. by_pos'[devices[old(j)].pos] = IF old(j) > i THEN old(j) - 1 ELSE old(j)
          BY <1>1, <1>4, <1>7, <1>12
      <4>. QED BY <4>1, <1>3 DEF old
    <3>. QED BY <1>8, <1>9, <3>1
  <2>2. ASSUME NEW s \in Slots, by_pos'[s] # 0
        PROVE  by_pos'[s] \in Ents' /\ devices'[by_pos'[s]].pos = s
    <3>1. s # devices[i].pos /\ by_pos'[s] = IF by_pos[s] > i THEN by_pos[s] - 1 ELSE by_pos[s]
        BY <1>1, <2>2
    <3>2. by_pos[s] # 0 /\ by_pos[s] \in Nat
        BY <1>3, <2>2, <3>1 DEF TableInv, Shape
    <3>3. by_pos[s] \in 1..n /\ devices[by_pos[s]].pos = s /\ by_pos[s] # i
        BY <1>3, <3>1, <3>2 DEF TableInv, MapsAgree
    <3>4. by_pos'[s] \in 1..n - 1 /\ old(by_pos'[s]) = by_pos[s]
        BY <1>3, <3>1, <3>3 DEF old
    <3>. QED BY ZenonT(30), <1>8, <1>9, <3>3, <3>4
  <2>3. \A j, k \in Ents' : devices'[j].addr = devices'[k].addr => j = k
      BY <1>4, <1>5, <1>8, <1>9 DEF TableInv, MapsAgree
  <2>4. ASSUME ~xfer_faulted' PROVE \A j \in Ents' : dat'[devices'[j].pos] = devices'[j].addr
    <3>1. \A j \in Ents : dat[devices[j].pos] = devices[j].addr
        BY <1>1, <2>4 DEF TableInv, MapsAgree
    <3>. QED BY ZenonT(30), <1>1, <1>4, <1>7, <1>8, <1>9, <1>12, <3>1 DEF TableInv, Shape
  <2>. QED BY <2>1, <2>2, <2>3, <2>4 DEF MapsAgree
<1>14. HeldIsReserved'
  <2>1. \A t \in Targets : held'[t] # 0 => held'[t] \in in_use'
      BY <1>1 DEF TableInv, HeldIsReserved, Holders
  <2>2. \A j \in 1..n - 1 : devices[old(j)].addr \in in_use /\ devices[old(j)].addr # devices[i].addr
      BY <1>4, ReservedHolds DEF TableInv, HeldIsReserved, MapsAgree
  <2>3. Reserved(devices)' \subseteq in_use'
      BY <1>1, <1>8, <1>9, <2>2 DEF Reserved, Ents
  <2>. QED BY <2>1, <2>3 DEF HeldIsReserved
<1>. QED BY <1>2, <1>10, <1>11, <1>13, <1>14 DEF TableInv

\* A device of either kind, with a PID and an address of its own.
LEMMA AttachTable ==
    ASSUME TableInv, NEW a \in Addrs, NEW s \in Slots, NEW kind, NEW pid, Attach(kind, pid, a, s),
           \/ kind = "I2c" /\ pid = NoPid
           \/ kind = "I3c" /\ pid \in Targets /\ \A i \in Ents : devices[i].pid # pid
    PROVE  TableInv'
<1>. DEFINE n == Len(devices)
            e == [kind |-> kind, pid |-> pid, addr |-> a, pos |-> s, da_state |-> "Unassigned"]
<1>1. /\ pc = "idle" /\ UNCHANGED walk /\ UNCHANGED <<xfer_faulted, held>>
      /\ by_pos[s] = 0 /\ (\A i \in Ents : devices[i].addr # a)
      /\ in_use' = in_use \cup {a} /\ dat' = [dat EXCEPT ![s] = a]
      /\ devices' = Append(devices, e) /\ by_pos' = [by_pos EXCEPT ![s] = n + 1]
    BY DEF Attach, Ents
<1>2. Local' /\ pos' \in Slots /\ need' \subseteq Slots
    BY <1>1, IdleIsLocal
<1>3. n \in Nat /\ Ents = 1..n
    BY DEF TableInv, Shape, Ents
<1>4. /\ e \in Entry /\ e.kind = kind /\ e.pid = pid /\ e.addr = a /\ e.pos = s
      /\ e.da_state = "Unassigned"
    BY ZenonT(30) DEF Entry
<1>. HIDE DEF e
<1>5. devices' \in Seq(Entry) /\ Len(devices') = n + 1 /\ devices'[n + 1] = e
          /\ \A j \in 1..n : devices'[j] = devices[j]
    BY <1>1, <1>4, Appended DEF TableInv, Shape
<1>6. Ents' = 1..n + 1
    BY <1>5, <1>3 DEF Ents
<1>7. \A j \in Ents : devices[j] \in Entry
    BY DEF TableInv, Shape, Ents
<1>8. \A j \in Ents : devices[j].pos \in Slots /\ devices[j].pos # s
  <2>1. \A j \in Ents : devices[j].pos \in Slots
      BY ZenonT(30), <1>7 DEF Entry
  <2>. QED BY <1>1, <1>3, <2>1 DEF TableInv, MapsAgree
<1>9. Shape'
  <2>1. a \in Nat
      BY AddrsArePositive
  <2>. QED BY <1>1, <1>2, <1>3, <1>5, <2>1 DEF TableInv, Shape
<1>10. \A j \in 1..n + 1 : j = n + 1 \/ j \in 1..n
    BY <1>3
<1>. HIDE DEF n
<1>11. Kinds'
  <2>1. kind = "I3c" => \A j \in Ents : devices[j].pid # pid
      OBVIOUS
  <2>2. ASSUME kind = "I2c", NEW j \in Ents, devices[j].kind = "I3c" PROVE devices[j].pid # pid
      BY <2>2, DaaAssumption DEF TableInv, Kinds
  <2>3. ASSUME NEW j \in 1..n, devices[j].kind = "I3c" \/ kind = "I3c" PROVE devices[j].pid # pid
      BY <1>3, <2>1, <2>2, <2>3
  <2>4. /\ \A j \in 1..n : devices[j].kind = "I2c" =>
              devices[j].pid = NoPid /\ devices[j].da_state = "Unassigned"
        /\ \A j \in 1..n : devices[j].kind = "I3c" => devices[j].pid \in Targets
        /\ \A j, k \in 1..n : devices[j].kind = "I3c" /\ devices[j].pid = devices[k].pid => j = k
      BY <1>3 DEF TableInv, Kinds
  <2>. QED BY <1>4, <1>5, <1>6, <1>10, <2>3, <2>4 DEF Kinds
<1>12. MapsAgree'
  <2>1. \A j \in Ents' : by_pos'[devices'[j].pos] = j
    <3>1. by_pos'[s] = n + 1 /\ \A q \in Slots \ {s} : by_pos'[q] = by_pos[q]
        BY <1>1 DEF TableInv, Shape
    <3>2. \A j \in 1..n : by_pos[devices[j].pos] = j
        BY <1>3 DEF TableInv, MapsAgree
    <3>3. \A j \in 1..n : by_pos'[devices'[j].pos] = j
        BY <1>3, <1>5, <1>8, <3>1, <3>2
    <3>. QED BY ZenonT(30), <1>4, <1>5, <1>6, <1>10, <3>1, <3>3
  <2>2. ASSUME NEW q \in Slots, by_pos'[q] # 0
        PROVE  by_pos'[q] \in Ents' /\ devices'[by_pos'[q]].pos = q
    <3>1. CASE q = s
        BY <1>1, <1>3, <1>4, <1>5, <1>6, <3>1 DEF TableInv, Shape
    <3>2. CASE q # s
      <4>1. by_pos'[q] = by_pos[q] /\ by_pos[q] \in 1..n /\ devices[by_pos[q]].pos = q
          BY ZenonT(30), <1>1, <1>3, <2>2, <3>2 DEF TableInv, Shape, MapsAgree
      <4>2. devices'[by_pos'[q]] = devices[by_pos[q]]
          BY <1>5, <4>1
      <4>3. by_pos'[q] \in 1..n + 1
          BY <1>3, <4>1
      <4>. QED BY ZenonT(30), <1>6, <4>1, <4>2, <4>3
    <3>. QED BY <3>1, <3>2
  <2>3. \A j, k \in Ents' : devices'[j].addr = devices'[k].addr => j = k
    <3>1. \A j \in Ents : devices[j].addr # a
        BY <1>1
    <3>2. \A j, k \in Ents : devices[j].addr = devices[k].addr => j = k
        BY DEF TableInv, MapsAgree
    <3>. QED BY <1>3, <1>4, <1>5, <1>6, <1>10, <3>1, <3>2
  <2>4. ASSUME ~xfer_faulted' PROVE \A j \in Ents' : dat'[devices'[j].pos] = devices'[j].addr
    <3>1. \A j \in Ents : dat[devices[j].pos] = devices[j].addr
        BY ZenonT(30), <1>1, <2>4 DEF TableInv, MapsAgree
    <3>2. dat'[s] = a /\ \A q \in Slots \ {s} : dat'[q] = dat[q]
        BY <1>1 DEF TableInv, Shape
    <3>3. \A j \in 1..n : dat'[devices'[j].pos] = devices'[j].addr
        BY <1>3, <1>5, <1>8, <3>1, <3>2
    <3>. QED BY ZenonT(30), <1>4, <1>5, <1>6, <1>10, <3>2, <3>3
  <2>. QED BY <2>1, <2>2, <2>3, <2>4 DEF MapsAgree
<1>13. HeldIsReserved'
  <2>1. \A j \in 1..n : devices[j].addr \in in_use
      BY <1>3, ReservedHolds DEF TableInv, HeldIsReserved
  <2>2. Reserved(devices)' \subseteq in_use'
      BY <1>1, <1>4, <1>5, <1>6, <1>10, <2>1 DEF Reserved, Ents
  <2>. QED BY <1>1, <2>2 DEF TableInv, HeldIsReserved
<1>. QED BY <1>2, <1>9, <1>11, <1>12, <1>13 DEF TableInv

OnlyAddr(i, a) ==
    /\ Ents' = Ents /\ devices'[i].addr = a
    /\ \A j \in Ents : /\ devices'[j].kind = devices[j].kind /\ devices'[j].pid = devices[j].pid
                       /\ devices'[j].pos = devices[j].pos
                       /\ devices'[j].da_state = devices[j].da_state
                       /\ j # i => devices'[j].addr = devices[j].addr

\* SETNEWDA was acknowledged: the target, the DAT and the tables have the new address.
LEMMA Readdressed ==
    ASSUME TableInv, ~xfer_faulted, pc = "idle", UNCHANGED walk, NEW i \in Ents, NEW a \in Addrs,
           a \notin in_use, devices[i].kind = "I3c",
           Move(dat[devices[i].pos], a), dat' = [dat EXCEPT ![devices[i].pos] = a],
           in_use' = (in_use \ {devices[i].addr}) \cup {a},
           devices' = [devices EXCEPT ![i].addr = a], UNCHANGED by_pos
    PROVE  TableInv' /\ OnlyAddr(i, a)
<1>. DEFINE d == [devices[i] EXCEPT !.addr = a]
<1>1. \A j \in Ents : devices[j] \in Entry
    BY DEF TableInv, Shape, Ents
<1>2. d \in Entry /\ d.kind = devices[i].kind /\ d.pid = devices[i].pid /\ d.addr = a
          /\ d.pos = devices[i].pos /\ d.da_state = devices[i].da_state
    BY <1>1 DEF Entry
<1>3. devices' = [devices EXCEPT ![i] = d]
    OBVIOUS
<1>. HIDE DEF d
<1>4. devices' \in Seq(Entry) /\ Ents' = Ents
  <2>1. devices \in Seq(Entry) /\ i \in 1..Len(devices)
      BY DEF TableInv, Shape, Ents
  <2>2. /\ [devices EXCEPT ![i] = d] \in Seq(Entry)
        /\ Len([devices EXCEPT ![i] = d]) = Len(devices)
      BY <1>2, <2>1, Written
  <2>. QED BY ZenonT(30), <1>3, <2>1, <2>2 DEF Ents
<1>5. \A j \in Ents : devices'[j] = IF j = i THEN d ELSE devices[j]
    BY ZenonT(30), <1>3 DEF Ents, TableInv, Shape
<1>6. \A j \in Ents : /\ devices'[j].kind = devices[j].kind /\ devices'[j].pid = devices[j].pid
                      /\ devices'[j].pos = devices[j].pos /\ devices'[j].da_state = devices[j].da_state
                      /\ devices'[j].addr = IF j = i THEN a ELSE devices[j].addr
    BY <1>2, <1>5
<1>7. \A j \in Ents : devices[j].addr \in in_use /\ devices[j].addr # a
    BY ReservedHolds DEF TableInv, HeldIsReserved
<1>8. Local' /\ pos' \in Slots /\ need' \subseteq Slots
    BY IdleIsLocal
<1>9. \A j \in Ents : devices[j].pos \in Slots
    BY <1>1 DEF Entry
<1>10. \A j \in Ents : j # i => devices[j].addr # devices[i].addr /\ devices[j].pos # devices[i].pos
    BY DEF TableInv, MapsAgree
<1>11. MapsAgree'
  <2>1. \A j \in Ents' : by_pos'[devices'[j].pos] = j
      BY <1>4, <1>6 DEF TableInv, MapsAgree
  <2>2. \A q \in Slots : by_pos'[q] # 0 => by_pos'[q] \in Ents' /\ devices'[by_pos'[q]].pos = q
      BY <1>4, <1>6 DEF TableInv, MapsAgree
  <2>3. \A j, k \in Ents' : devices'[j].addr = devices'[k].addr => j = k
      BY <1>4, <1>6, <1>7 DEF TableInv, MapsAgree
  <2>4. \A j \in Ents' : dat'[devices'[j].pos] = devices'[j].addr
    <3>1. \A j \in Ents : dat[devices[j].pos] = devices[j].addr
        BY DEF TableInv, MapsAgree
    <3>. QED BY <1>4, <1>6, <1>9, <1>10, <3>1 DEF TableInv, Shape
  <2>. QED BY <2>1, <2>2, <2>3, <2>4 DEF MapsAgree
<1>12. Kinds'
  <2>1. \A j \in Ents' : devices'[j].kind = "I2c" =>
            devices'[j].pid = NoPid /\ devices'[j].da_state = "Unassigned"
      BY <1>4, <1>6 DEF TableInv, Kinds
  <2>2. \A j \in Ents' : devices'[j].kind = "I3c" => devices'[j].pid \in Targets
      BY <1>4, <1>6 DEF TableInv, Kinds
  <2>3. \A j, k \in Ents' : devices'[j].kind = "I3c" /\ devices'[j].pid = devices'[k].pid => j = k
      BY <1>4, <1>6 DEF TableInv, Kinds
  <2>. QED BY <2>1, <2>2, <2>3 DEF Kinds
<1>13. HeldIsReserved' /\ held' \in [Targets -> Nat]
  <2>1. Reserved(devices)' \subseteq in_use'
      BY <1>4, <1>6, <1>7, <1>10 DEF Reserved, Ents
  <2>2. dat[devices[i].pos] = devices[i].addr
      BY DEF TableInv, MapsAgree
  <2>3. \A t \in Targets : held[t] # 0 /\ held[t] # devices[i].addr => held[t] \in in_use'
      BY DEF TableInv, HeldIsReserved
  <2>4. a \in Nat
      BY AddrsArePositive
  <2>. QED BY ZenonT(30), <2>1, <2>2, <2>3, <2>4, MoveIsReserved DEF TableInv
<1>14. Shape'
  <2>1. a \in Nat
      BY AddrsArePositive
  <2>. QED BY ZenonT(30), <1>4, <1>8, <1>13, <2>1 DEF TableInv, Shape
<1>15. OnlyAddr(i, a)
    BY <1>4, <1>6 DEF OnlyAddr
<1>. QED BY <1>8, <1>11, <1>12, <1>13, <1>14, <1>15 DEF TableInv

\* A target told to keep its address does not move ...
LEMMA MovedNowhere ==
    ASSUME TableInv, ~xfer_faulted, NEW i \in Ents, Move(dat[devices[i].pos], devices[i].addr)
    PROVE  UNCHANGED held
<1>1. dat[devices[i].pos] = devices[i].addr
    BY DEF TableInv, MapsAgree
<1>2. held' \in [Targets -> Nat] /\ \A t \in Targets : held'[t] = held[t]
    BY <1>1 DEF Move, TableInv, Shape
<1>. QED BY <1>2 DEF TableInv, Shape

\* ... and neither the DAT nor the table changes.
LEMMA SameAddress ==
    ASSUME TableInv, ~xfer_faulted, NEW i \in Ents, NEW a, a = devices[i].addr,
           dat' = [dat EXCEPT ![devices[i].pos] = a], in_use' = (in_use \ {a}) \cup {a},
           devices' = [devices EXCEPT ![i].addr = a]
    PROVE  UNCHANGED <<devices, in_use, dat>>
<1>. DEFINE d == [devices[i] EXCEPT !.addr = a]
<1>1. devices \in Seq(Entry) /\ devices[i] \in Entry /\ i \in DOMAIN devices
    BY DEF TableInv, Shape, Ents
<1>2. d = devices[i]
    BY <1>1 DEF Entry
<1>3. devices' = [devices EXCEPT ![i] = d]
    OBVIOUS
<1>4. UNCHANGED in_use
    BY ReservedHolds DEF TableInv, HeldIsReserved
<1>5. UNCHANGED dat
    BY DEF TableInv, Shape, MapsAgree
<1>. HIDE DEF d
<1>6. UNCHANGED devices
    BY <1>1, <1>2, <1>3
<1>. QED BY <1>4, <1>5, <1>6

\* SETNEWDA keeps TableInv, whether or not its completion is lost.
LEMMA SetnewdaTable ==
    ASSUME TableInv, ccc_setnewda
    PROVE  TableInv'
<1>1. pc = "idle" /\ ~xfer_faulted /\ UNCHANGED walk
    BY DEF ccc_setnewda
<1>2. PICK i \in Ents, a \in Addrs :
        /\ devices[i].kind = "I3c" /\ (a \notin in_use \/ a = devices[i].addr)
        /\ \/ Failed /\ UNCHANGED <<table, held>>
           \/ /\ Move(dat[devices[i].pos], a)
              /\ dat' = [dat EXCEPT ![devices[i].pos] = a]
              /\ in_use' = (in_use \ {devices[i].addr}) \cup {a}
              /\ devices' = [devices EXCEPT ![i].addr = a]
              /\ UNCHANGED by_pos
           \/ /\ Move(dat[devices[i].pos], a) \/ UNCHANGED held
              /\ mark_da_unknown(i, {a}) /\ Failed /\ UNCHANGED <<by_pos, dat>>
    BY ZenonT(30) DEF ccc_setnewda, is_free, Ents
<1>3. xfer_faulted => xfer_faulted'
    BY <1>1
<1>4. Local' /\ pos' \in Slots /\ need' \subseteq Slots
    BY <1>1, IdleIsLocal
<1>a. CASE UNCHANGED <<table, held>>
  <2>1. MapsAgree' /\ Kinds'
      BY <1>a, <1>3, Unchanged, RestatedKeeps DEF TableInv, table
  <2>. QED BY <1>4, <1>a, <2>1 DEF TableInv, Shape, HeldIsReserved, table, Reserved
<1>b. CASE /\ Move(dat[devices[i].pos], a) /\ dat' = [dat EXCEPT ![devices[i].pos] = a]
           /\ in_use' = (in_use \ {devices[i].addr}) \cup {a}
           /\ devices' = [devices EXCEPT ![i].addr = a] /\ UNCHANGED by_pos
  <2>1. CASE a \notin in_use
      BY ZenonT(30), <1>1, <1>2, <1>b, <2>1, Readdressed
  <2>2. CASE a = devices[i].addr
    <3>1. UNCHANGED held
        BY ZenonT(30), <1>1, <1>b, <2>2, MovedNowhere
    <3>2. UNCHANGED <<devices, in_use, dat>>
        BY ZenonT(30), <1>1, <1>b, <2>2, SameAddress
    <3>. QED BY ZenonT(30), <1>a, <1>b, <3>1, <3>2 DEF table
  <2>. QED BY ZenonT(30), <1>2, <2>1, <2>2
<1>c. CASE /\ Move(dat[devices[i].pos], a) \/ UNCHANGED held
           /\ mark_da_unknown(i, {a}) /\ UNCHANGED <<by_pos, dat>>
  <2>1. /\ Restated /\ MapsAgree' /\ Kinds' /\ Reserved(devices)' = Reserved(devices)
        /\ in_use \subseteq in_use' /\ a \in in_use' /\ in_use' \subseteq Addrs
      BY <1>2, <1>3, <1>c, MarkUnknownKeeps DEF TableInv
  <2>2. HeldIsReserved' /\ held' \in [Targets -> Nat]
    <3>1. a \in Nat
        BY AddrsArePositive
    <3>2. CASE Move(dat[devices[i].pos], a)
        BY ZenonT(30), <2>1, <3>1, <3>2, MoveIsReserved DEF TableInv, HeldIsReserved
    <3>3. CASE UNCHANGED held
        BY <2>1, <3>3, StillReserved DEF TableInv
    <3>. QED BY <1>c, <3>2, <3>3
  <2>. QED BY <1>4, <1>c, <2>1, <2>2 DEF TableInv, Shape, Restated
<1>. QED BY <1>2, <1>a, <1>b, <1>c

\* RSTDAA is broadcast: every I3C entry changes state at once.
LEMMA AllRestated ==
    ASSUME TableInv, NEW st \in {"Unassigned", "Unknown"},
           devices' = [i \in DOMAIN devices |->
                         IF devices[i].kind = "I3c" THEN [devices[i] EXCEPT !.da_state = st]
                                                   ELSE devices[i]]
    PROVE  Restated /\ \A i \in Ents : devices[i].kind = "I3c" => devices'[i].da_state = st
<1>1. Len(devices) \in Nat /\ Ents = 1..Len(devices) /\ \A i \in Ents : devices[i] \in Entry
    BY DEF TableInv, Shape, Ents
<1>2. \A i \in Ents : devices'[i] = IF devices[i].kind = "I3c" THEN [devices[i] EXCEPT !.da_state = st]
                                                              ELSE devices[i]
    BY DEF Ents
<1>3. \A i \in Ents : [devices[i] EXCEPT !.da_state = st] \in Entry
    BY <1>1 DEF Entry
<1>4. devices' \in [1..Len(devices) -> Entry]
    BY <1>1, <1>2, <1>3 DEF Ents
<1>5. devices' \in Seq(Entry) /\ Ents' = Ents
    BY <1>1, <1>4, Seqs DEF Ents
<1>6. \A i \in Ents : devices[i].kind = "I3c" =>
          /\ devices'[i].kind = devices[i].kind /\ devices'[i].pid = devices[i].pid
          /\ devices'[i].addr = devices[i].addr /\ devices'[i].pos = devices[i].pos
          /\ devices'[i].da_state = st
    BY <1>1, <1>2 DEF Entry
<1>7. \A i \in Ents : devices[i].kind # "I3c" => devices'[i] = devices[i]
    BY ZenonT(30), <1>2
<1>8. \A i \in Ents : devices[i].kind = "I2c" => devices[i].kind # "I3c"
    OBVIOUS
<1>. QED BY <1>5, <1>6, <1>7, <1>8 DEF Restated

\* RSTDAA keeps TableInv, whether or not its completion is lost.
LEMMA RstdaaTable ==
    ASSUME TableInv, ccc_rstdaa_all
    PROVE  TableInv'
<1>1. pc = "idle" /\ ~xfer_faulted /\ UNCHANGED walk /\ UNCHANGED <<by_pos, dat>>
    BY DEF ccc_rstdaa_all
<1>2. xfer_faulted => xfer_faulted'
    BY <1>1
<1>3. Local' /\ pos' \in Slots /\ need' \subseteq Slots
    BY <1>1, IdleIsLocal
<1>4. \A i \in Ents : devices[i].addr \in Addrs /\ devices[i].addr \in in_use
    BY AddrOfEntry, ReservedHolds DEF TableInv, HeldIsReserved
<1>5. Restated
    BY AllRestated, Unchanged DEF ccc_rstdaa_all, commit_rstdaa, mark_rstdaa_unknown
<1>6. MapsAgree' /\ Kinds' /\ Reserved(devices)' = Reserved(devices)
    BY <1>1, <1>2, <1>5, RestatedKeeps DEF TableInv
<1>7. held' \in [Targets -> Nat] /\ in_use' \subseteq Addrs /\ HeldIsReserved'
  <2>1. CASE held' = [t \in Targets |-> 0] /\ in_use' = Reserved(devices)
    <3>1. Reserved(devices) \subseteq Addrs
        BY <1>4 DEF Reserved, Ents
    <3>. QED BY <1>6, <2>1, <3>1 DEF HeldIsReserved
  <2>2. CASE UNCHANGED <<in_use, held>>
      BY <1>6, <2>2 DEF TableInv, Shape, HeldIsReserved
  <2>3. CASE /\ \E deaf \in SUBSET Targets : held' = [t \in Targets |-> IF t \in deaf THEN held[t] ELSE 0]
             /\ in_use' = in_use \cup
                    {devices[i].addr : i \in {j \in DOMAIN devices : devices[j].kind = "I3c"}}
    <3>1. in_use' = in_use
        BY <1>4, <2>3 DEF Ents
    <3>. QED BY <1>6, <2>3, <3>1 DEF TableInv, Shape, HeldIsReserved
  <2>. QED BY <2>1, <2>2, <2>3 DEF ccc_rstdaa_all, commit_rstdaa, mark_rstdaa_unknown
<1>8. Shape'
    BY <1>1, <1>3, <1>5, <1>7 DEF TableInv, Shape, Restated
<1>. QED BY <1>3, <1>6, <1>7, <1>8 DEF TableInv

\* An empty table satisfies TableInv.
LEMMA TableInit == Init => TableInv
<1>. SUFFICES ASSUME Init PROVE TableInv
    OBVIOUS
<1>1. 0 \in Slots
    BY DaaAssumption DEF Slots
<1>2. devices = <<>> /\ Ents = {}
    BY DEF Init, Ents
<1>3. Shape
    BY <1>1 DEF Init, Shape
<1>4. MapsAgree /\ Kinds
    BY <1>2 DEF Init, MapsAgree, Kinds
<1>5. Local
    BY DEF Init, Local, Mid
<1>6. HeldIsReserved
    BY <1>2 DEF Init, HeldIsReserved, Reserved, Ents
<1>. QED BY <1>3, <1>4, <1>5, <1>6 DEF TableInv

\* Every call and every step of a walk keeps TableInv, for a caller that knows its bus.
LEMMA TableStep == CallerKnowsBus /\ TableInv /\ [Next]_vars => TableInv'
<1>. SUFFICES ASSUME CallerKnowsBus, TableInv, [Next]_vars PROVE TableInv'
    OBVIOUS
<1>1. CASE attach_i3c_dev
  <2>1. PICK w \in Wanted, s \in Slots : /\ \A i \in Ents : devices[i].pid # w[1]
                                         /\ Attach("I3c", w[1], w[2], s)
      BY <1>1 DEF attach_i3c_dev, Ents
  <2>2. w[1] \in Targets /\ w[2] \in Addrs
      BY DaaAssumption
  <2>. QED BY <2>1, <2>2, AttachTable
<1>2. CASE attach_i2c_dev
  <2>1. PICK a \in Legacy, s \in Slots : Attach("I2c", NoPid, a, s)
      BY <1>2 DEF attach_i2c_dev
  <2>2. a \in Addrs
      BY DaaAssumption
  <2>. QED BY <2>1, <2>2, AttachTable
<1>3. CASE detach_i3c_dev
  <2>1. PICK s \in Slots : by_pos[s] # 0 /\ Detach(by_pos[s])
      BY <1>3 DEF detach_i3c_dev
  <2>2. by_pos[s] \in Ents
      BY <2>1 DEF TableInv, MapsAgree
  <2>. QED BY <2>1, <2>2, DetachTable
<1>4. CASE detach_i3c_dev_by_idx
    BY <1>4, DetachTable DEF detach_i3c_dev_by_idx, Ents
<1>5. CASE Walk
    BY <1>5, DoneTable, SkipTable, EntdaaTable, GetpidTable, OwnTable, MoveTable, VerifyTable,
       ParkTable, ZenonT(30) DEF Walk
<1>6. CASE Assign
    BY <1>6, AssignTable, AssignGetpidTable, AssignVerifyTable DEF Assign
<1>7. CASE UNCHANGED vars
    BY ZenonT(30), <1>7 DEF vars, table, walk, TableInv, Shape, MapsAgree, Kinds, Local, HeldIsReserved, Here, Ents
<1>. QED BY ZenonT(30), <1>1, <1>2, <1>3, <1>4, <1>5, <1>6, <1>7, ReinitTable, SetnewdaTable, RstdaaTable,
            DaaTable, LeaveTable DEF Next

\* Whatever transfers are lost, every address a target may answer to stays reserved, for
\* any number of targets, DAT slots and addresses, with or without a reset by the caller
\* (I3cConfig::mark_da_unknown, mark_rstdaa_unknown, commit_rstdaa and reassign_da), as
\* long as the caller detaches no device that still answers and assigns no address to an
\* I2C device.
THEOREM HeldIsReservedAlways == ASSUME CallerKnowsBus PROVE Spec => []HeldIsReserved
<1>1. TableInv => HeldIsReserved
    BY DEF TableInv
<1>. QED BY <1>1, TableInit, TableStep, PTL DEF Spec

-----------------------------------------------------------------------------
\* Who holds the address of an entry is unknown, or the entry's own target once verified.
Owners ==
    \A i \in Ents, t \in Targets : held[t] = devices[i].addr =>
        \/ devices[i].da_state = "Unknown"
        \/ devices[i].da_state = "Verified" /\ t = devices[i].pid

\* No two targets answer to one address.
Distinct == \A t, u \in Targets : held[t] # 0 /\ held[t] = held[u] => t = u

Trying == {"getpid", "own", "move", "park"}
Moved == {"verify", "verify_lost"}

\* During a walk only the slot being tried, and the winner's own, may be Unknown; what the
\* walk has learnt of their holders; and which slots still need an address.
Walking ==
    /\ pc = "walk" => \A i \in Ents : devices[i].da_state # "Unknown"
    /\ pc \in Trying => \A i \in Ents : devices[i].da_state = "Unknown" => i = Here
    /\ pc \in Moved => \A i \in Ents : devices[i].da_state = "Unknown" => i \in {Here, OwnerOf(who)}
    /\ pc = "verify" => devices[Here].da_state = "Unassigned"
    /\ pc \in {"own", "move", "park", "verify_lost"} =>
          \A t \in Targets : held[t] = devices[Here].addr => t = who
    /\ pc \in Moved => \A t \in Targets : held[t] = devices[OwnerOf(who)].addr => t = who
    /\ pc = "assign_bcr" => \A t \in Targets : held[t] = devices[Here].addr => t = devices[Here].pid
    /\ pc \in Trying \cup Moved => pos \in need
    /\ pc \in Trying \cup Moved \cup {"walk"} =>
          \A i \in Ents : devices[i].kind = "I3c" /\ devices[i].da_state # "Unknown" =>
              (devices[i].pos \in need <=> devices[i].da_state = "Unassigned")

BusInv == TableInv /\ Owners /\ Distinct /\ Walking

\* Outside a walk there is nothing to know of one.
LEMMA NotWalking ==
    ASSUME pc' \in {"idle", "assign_pid"}
    PROVE  Walking'
BY DEF Walking, Trying, Moved

\* Steps that leave the bus and the table alone, or only mark an entry Unknown.
LEMMA QuietBus ==
    ASSUME BusInv, UNCHANGED held, UNCHANGED devices
    PROVE  Owners' /\ Distinct'
BY DEF BusInv, Owners, Distinct, Ents

\* Marking an entry Unknown claims nothing of who answers there.
LEMMA UnknownBus ==
    ASSUME BusInv, UNCHANGED held, NEW i \in Ents, Restated, devices'[i].da_state = "Unknown",
           \A j \in Ents \ {i} : devices'[j] = devices[j]
    PROVE  Owners' /\ Distinct'
<1>1. Distinct'
    BY DEF BusInv, Distinct
<1>2. ASSUME NEW j \in Ents', NEW t \in Targets, held'[t] = devices'[j].addr, devices'[j].da_state # "Unknown"
      PROVE  devices'[j].da_state = "Verified" /\ t = devices'[j].pid
  <2>1. j \in Ents \ {i} /\ devices'[j] = devices[j]
      BY <1>2 DEF Restated
  <2>. QED BY <1>2, <2>1 DEF BusInv, Owners
<1>. QED BY <1>1, <1>2 DEF Owners

\* A target latches the address of an entry nobody has claimed.
LEMMA LatchBus ==
    ASSUME BusInv, ~xfer_faulted, NEW i \in Ents, devices[i].da_state = "Unassigned",
           Latch(devices[i].pos), Restated, devices'[i].da_state = "Unknown",
           \A j \in Ents \ {i} : devices'[j] = devices[j]
    PROVE  Owners' /\ Distinct'
<1>. DEFINE a == devices[i].addr
<1>1. dat[devices[i].pos] = a
    BY DEF BusInv, TableInv, MapsAgree
<1>2. PICK w \in Targets : held[w] = 0 /\ held' = [held EXCEPT ![w] = a]
    BY ZenonT(30), <1>1 DEF Latch, Holders
<1>3. \A t \in Targets : held[t] # a
    BY DEF BusInv, Owners
<1>4. \A t \in Targets : held'[t] = IF t = w THEN a ELSE held[t]
    BY <1>2 DEF BusInv, TableInv, Shape
<1>. HIDE DEF a
<1>5. Distinct'
    BY <1>3, <1>4 DEF BusInv, Distinct
<1>6. ASSUME NEW j \in Ents', NEW t \in Targets, held'[t] = devices'[j].addr, devices'[j].da_state # "Unknown"
      PROVE  devices'[j].da_state = "Verified" /\ t = devices'[j].pid
  <2>1. j \in Ents /\ j # i /\ devices'[j] = devices[j]
      BY <1>6 DEF Restated
  <2>2. devices[j].addr # a
      BY <2>1 DEF BusInv, TableInv, MapsAgree, a
  <2>3. held[t] = devices[j].addr
      BY <1>4, <1>6, <2>1, <2>2
  <2>. QED BY <1>6, <2>1, <2>3 DEF BusInv, Owners
<1>. QED BY <1>5, <1>6 DEF Owners

Owned(a, b, w) == \A t \in Targets : held[t] = a \/ held[t] = b => t = w
MovedTo(a, b, w) ==
    /\ Distinct'
    /\ \A t \in Targets : held'[t] = a \/ held'[t] = b => t = w
    /\ \A t \in Targets : held'[t] \notin {a, b} => held'[t] = held[t]
    /\ Move(a, b) => \A t \in Targets : held'[t] # a

\* The one holder of a, if any, moves to b, which nobody else holds.
LEMMA MoveBus ==
    ASSUME BusInv, NEW a, NEW b \in Nat \ {0}, a # b, NEW w,
           Move(a, b) \/ UNCHANGED held, Owned(a, b, w)
    PROVE  MovedTo(a, b, w)
<1>. USE DEF Owned, MovedTo
<1>1. CASE UNCHANGED held
  <2>1. Move(a, b) => \A t \in Targets : held[t] # a
      BY <1>1 DEF Move, BusInv, TableInv, Shape
  <2>. QED BY <1>1, <2>1 DEF BusInv, Distinct
<1>2. CASE Move(a, b)
  <2>1. \A t \in Targets : held'[t] = IF held[t] = a THEN b ELSE held[t]
      BY <1>2 DEF Move
  <2>. QED BY <2>1 DEF BusInv, Distinct
<1>. QED BY <1>1, <1>2

\* What the invariant says of the slot being tried and of the winner's entry.
LEMMA HereFacts ==
    ASSUME BusInv, pc \in Trying \cup Moved
    PROVE  /\ Here \in Ents /\ devices[Here].kind = "I3c" /\ devices[Here].pos = pos
           /\ devices[Here].addr \in Nat \ {0} /\ pos \in need
<1>1. Here # 0 /\ devices[Here].kind = "I3c"
    BY DEF BusInv, TableInv, Local, Trying, Moved, Mid
<1>2. Here \in Ents /\ devices[Here].pos = pos
    BY <1>1, HereIsEntry DEF BusInv, TableInv
<1>. QED BY ZenonT(30), <1>1, <1>2, AddrOfEntry, AddrsArePositive DEF BusInv, TableInv, Walking

\* The entry of the target that answered is another one than the walk's.
LEMMA OwnerFacts ==
    ASSUME BusInv, pc \in {"move"} \cup Moved
    PROVE  /\ OwnerOf(who) \in Ents /\ OwnerOf(who) # Here /\ devices[OwnerOf(who)].kind = "I3c"
           /\ devices[OwnerOf(who)].pid = who /\ devices[OwnerOf(who)].addr \in Nat \ {0}
           /\ devices[OwnerOf(who)].addr # devices[Here].addr
<1>1. pc \in {"move", "verify", "verify_lost"}
    BY DEF Moved
<1>2. /\ OwnerOf(who) \in Ents /\ OwnerOf(who) # Here
      /\ devices[OwnerOf(who)].kind = "I3c" /\ devices[OwnerOf(who)].pid = who
    BY <1>1, Winner DEF BusInv
<1>3. Here \in Ents
    BY HereFacts, <1>1 DEF Trying, Moved
<1>4. devices[OwnerOf(who)].addr # devices[Here].addr
    BY <1>2, <1>3 DEF BusInv, TableInv, MapsAgree
<1>. QED BY ZenonT(30), <1>2, <1>4, AddrOfEntry, AddrsArePositive DEF BusInv, TableInv

\* ENTDAA keeps BusInv: whoever won it answers at this slot's address only.
LEMMA EntdaaBus ==
    ASSUME BusInv, WalkEntdaa
    PROVE  Owners' /\ Distinct' /\ Walking'
<1>1. pos \in need /\ Here # 0 /\ devices[Here].kind = "I3c" /\ UNCHANGED <<by_pos, dat>> /\ pc = "walk"
    BY DEF WalkEntdaa, BusInv, TableInv, Local, Here
<1>2. Here \in Ents /\ devices[Here].pos = pos
    BY ZenonT(30), <1>1, HereIsEntry DEF BusInv, TableInv
<1>3. devices[Here].da_state = "Unassigned"
    BY <1>1, <1>2 DEF BusInv, Walking
<1>4. ASSUME mark_da_unknown(Here, {})
      PROVE  /\ Restated /\ devices'[Here].da_state = "Unknown"
             /\ \A j \in Ents \ {Here} : devices'[j] = devices[j]
    BY <1>1, <1>2, <1>4, MarkedUnknown, MarkedRestates DEF BusInv, TableInv, Shape
<1>a. CASE /\ ~xfer_faulted /\ Latch(pos) /\ mark_da_unknown(Here, {}) /\ pc' = "getpid"
           /\ UNCHANGED <<need, pos, who, xfer_faulted>>
  <2>1. Owners' /\ Distinct'
      BY ZenonT(30), <1>a, <1>2, <1>3, <1>4, LatchBus
  <2>2. Here' = Here /\ Ents' = Ents
      BY <1>1, <1>a, <1>4 DEF Here, Restated
  <2>3. \A i \in Ents : devices'[i].da_state # "Unknown" => i # Here /\ devices'[i] = devices[i]
      BY ZenonT(30), <1>4, <1>a
  <2>4. \A i \in Ents : devices'[i].da_state = "Unknown" => i = Here
      BY <1>1, <1>4, <1>a DEF BusInv, Walking
  <2>5. Walking'
      BY ZenonT(30), <1>1, <1>a, <2>2, <2>3, <2>4 DEF BusInv, Walking, Trying, Moved
  <2>. QED BY ZenonT(30), <2>1, <2>5
<1>b. CASE Fail /\ UNCHANGED <<held, devices, in_use>>
    BY <1>b, QuietBus, NotWalking DEF Fail, Return
<1>c. CASE /\ ~xfer_faulted /\ (Latch(pos) \/ UNCHANGED held)
           /\ mark_da_unknown(Here, {}) /\ Fail
  <2>1. Owners' /\ Distinct'
      BY ZenonT(30), <1>c, <1>2, <1>3, <1>4, LatchBus, UnknownBus
  <2>. QED BY <1>c, <2>1, NotWalking DEF Fail, Return
<1>. QED BY ZenonT(30), <1>a, <1>b, <1>c DEF WalkEntdaa

\* GETPID leaves the table alone and tells the walk who answers at the slot.
LEMMA GetpidBus ==
    ASSUME BusInv, WalkGetpid
    PROVE  Owners' /\ Distinct' /\ Walking'
<1>1. UNCHANGED <<devices, by_pos, in_use, dat, held>> /\ pc = "getpid"
    BY DEF WalkGetpid, table
<1>2. Owners' /\ Distinct'
    BY <1>1, QuietBus
<1>3. Here \in Ents /\ devices[Here].pos = pos /\ devices[Here].addr \in Nat \ {0} /\ pos \in need
    BY <1>1, HereFacts DEF Trying
<1>a. ASSUME NEW t \in Holders(dat[pos]), who' = t, pc' \in {"park", "own", "move"},
             UNCHANGED <<xfer_faulted, need, pos, budget>>
      PROVE  Walking'
  <2>1. ~xfer_faulted
      BY ZenonT(30), <1>1 DEF BusInv, TableInv, Local, Mid
  <2>2. dat[pos] = devices[Here].addr
      BY <1>3, <2>1 DEF BusInv, TableInv, MapsAgree
  <2>3. t \in Targets /\ held[t] = devices[Here].addr
      BY ZenonT(30), <1>a, <2>2 DEF Holders
  <2>4. \A u \in Targets : held[u] = devices[Here].addr => u = t
      BY ZenonT(30), <1>3, <2>3 DEF BusInv, Distinct
  <2>5. Here' = Here /\ Ents' = Ents
      BY <1>1, <1>a DEF Here, Ents
  <2>. QED BY ZenonT(30), <1>1, <1>3, <1>a, <2>4, <2>5 DEF BusInv, Walking, Trying, Moved
<1>b. CASE Fail
    BY <1>2, <1>b, NotWalking DEF Fail, Return
<1>. QED BY <1>2, <1>a, <1>b DEF WalkGetpid

\* Accepting the expected target makes its entry Verified.
LEMMA OwnBus ==
    ASSUME BusInv, WalkOwn
    PROVE  Owners' /\ Distinct' /\ Walking'
<1>1. UNCHANGED <<by_pos, in_use, dat, held>> /\ pc = "own"
    BY DEF WalkOwn
<1>2. Here \in Ents /\ devices[Here].kind = "I3c" /\ devices[Here].pos = pos
    BY ZenonT(30), <1>1, HereFacts DEF Trying
<1>3. devices[Here].pid = who /\ \A t \in Targets : held[t] = devices[Here].addr => t = who
    BY ZenonT(30), <1>1 DEF BusInv, TableInv, Local, Walking
<1>a. CASE /\ devices' = Marked(Here, "Verified") /\ need' = need \ {pos} /\ OnWalk
  <2>1. /\ Restated /\ devices'[Here].da_state = "Verified"
        /\ \A j \in Ents \ {Here} : devices'[j] = devices[j]
      BY ZenonT(30), <1>2, <1>a, MarkedRestates DEF BusInv, TableInv, Shape
  <2>2. Owners'
    <3>1. ASSUME NEW j \in Ents', NEW t \in Targets, held'[t] = devices'[j].addr
          PROVE  \/ devices'[j].da_state = "Unknown"
                 \/ devices'[j].da_state = "Verified" /\ t = devices'[j].pid
      <4>1. CASE j = Here
          BY ZenonT(30), <1>1, <1>2, <1>3, <2>1, <3>1, <4>1 DEF Restated
      <4>2. CASE j # Here
        <5>1. j \in Ents /\ devices'[j] = devices[j]
            BY <2>1, <4>2 DEF Restated
        <5>. QED BY ZenonT(30), <1>1, <3>1, <5>1 DEF BusInv, Owners
      <4>. QED BY ZenonT(30), <4>1, <4>2
    <3>. QED BY <3>1 DEF Owners
  <2>3. Distinct'
      BY ZenonT(30), <1>1 DEF BusInv, Distinct
  <2>4. \A i \in Ents \ {Here} : devices[i].da_state # "Unknown" /\ devices[i].pos # pos
      BY <1>1, <1>2 DEF BusInv, Walking, Trying, TableInv, MapsAgree
  <2>5. Ents' = Ents /\ devices'[Here].pos = pos
      BY <1>2, <2>1 DEF Restated
  <2>6. \A i \in Ents : devices'[i].da_state # "Unknown"
      BY <2>1, <2>4
  <2>7. ASSUME NEW i \in Ents, devices'[i].kind = "I3c"
        PROVE  devices'[i].pos \in need' <=> devices'[i].da_state = "Unassigned"
    <3>1. CASE i = Here
        BY ZenonT(30), <1>a, <2>1, <2>5, <3>1
    <3>2. CASE i # Here
        BY <1>1, <1>a, <2>1, <2>4, <2>7, <3>2 DEF BusInv, Walking, Trying
    <3>. QED BY <3>1, <3>2
  <2>8. pc' = "walk"
      BY ZenonT(30), <1>a DEF OnWalk
  <2>9. Walking'
      BY <2>5, <2>6, <2>7, <2>8 DEF Walking, Trying, Moved
  <2>. QED BY ZenonT(30), <2>2, <2>3, <2>9
<1>b. CASE Fail /\ UNCHANGED devices
    BY <1>1, <1>b, QuietBus, NotWalking DEF Fail, Return
<1>. QED BY <1>a, <1>b DEF WalkOwn

\* The entry of a PID stays its entry when only states change.
LEMMA OwnerKept ==
    ASSUME BusInv, Restated, UNCHANGED who, OwnerOf(who) \in Ents, devices[OwnerOf(who)].pid = who,
           devices[OwnerOf(who)].kind = "I3c"
    PROVE  OwnerOf(who)' = OwnerOf(who)
<1>. DEFINE i == OwnerOf(who)
            k == OwnerOf(who)'
<1>1. i \in Ents' /\ devices'[i].pid = who'
    BY DEF Restated
<1>2. k \in Ents' /\ devices'[k].pid = who'
  <2>1. i \in Nat
      BY DEF BusInv, TableInv, Shape, Ents
  <2>2. \A j \in Ents' : devices'[j].pid = who' => i <= j
    <3>1. \A j \in Ents : devices[j].pid = who => i = j
        BY ZenonT(30) DEF BusInv, TableInv, Kinds
    <3>. HIDE DEF i
    <3>. QED BY <2>1, <3>1 DEF Restated
  <2>. QED BY ZenonT(30), <1>1, <2>2 DEF OwnerOf, Ents
<1>. HIDE DEF i, k
<1>3. k \in Ents /\ devices[k].pid = who
    BY <1>2 DEF Restated
<1>4. i \in Ents /\ devices[i].kind = "I3c" /\ devices[i].pid = devices[k].pid
    BY <1>3 DEF i
<1>5. i = k
    BY <1>3, <1>4 DEF BusInv, TableInv, Kinds
<1>. QED BY <1>5 DEF i, k

\* SETNEWDA from the slot that was tried to the winner's own address.
LEMMA WinnerMoves ==
    ASSUME BusInv, WalkMove
    PROVE  Owners' /\ Distinct' /\ Walking'
<1>. DEFINE owner == OwnerOf(who)
            a == devices[Here].addr
            b == devices[owner].addr
<1>1. UNCHANGED <<by_pos, in_use, dat>> /\ pc = "move" /\ ~xfer_faulted
    BY DEF WalkMove, BusInv, TableInv, Local, Mid
<1>2. Here \in Ents /\ devices[Here].kind = "I3c" /\ devices[Here].pos = pos /\ a \in Nat \ {0}
          /\ pos \in need
    BY <1>1, HereFacts DEF Trying
<1>3. owner \in Ents /\ owner # Here /\ devices[owner].kind = "I3c" /\ devices[owner].pid = who
          /\ b \in Nat \ {0} /\ b # a
    BY ZenonT(30), <1>1, OwnerFacts
<1>4. dat[pos] = a
    BY ZenonT(30), <1>1, <1>2 DEF BusInv, TableInv, MapsAgree
<1>5. \A t \in Targets : held[t] = a \/ held[t] = b => t = who
  <2>1. \A t \in Targets : held[t] = a => t = who
      BY ZenonT(30), <1>1 DEF BusInv, Walking
  <2>2. devices[owner].da_state # "Unknown"
      BY ZenonT(30), <1>1, <1>3 DEF BusInv, Walking, Trying
  <2>3. \A t \in Targets : held[t] = b => t = who
      BY <1>3, <2>2 DEF BusInv, Owners
  <2>. QED BY <2>1, <2>3
<1>. HIDE DEF owner, a, b
<1>6. ASSUME Move(a, b) \/ UNCHANGED held
      PROVE  /\ Distinct'
             /\ \A t \in Targets : held'[t] = a \/ held'[t] = b => t = who
             /\ \A t \in Targets : held'[t] \notin {a, b} => held'[t] = held[t]
             /\ Move(a, b) => \A t \in Targets : held'[t] # a
  <2>1. Owned(a, b, who) /\ a # b /\ b \in Nat \ {0}
      BY <1>2, <1>3, <1>5 DEF Owned
  <2>2. MovedTo(a, b, who)
      BY <1>6, <2>1, MoveBus
  <2>. QED BY <2>2 DEF MovedTo
<1>7. \A j \in Ents \ {Here, owner} : /\ devices[j].addr \notin {a, b} /\ devices[j].da_state # "Unknown"
    BY ZenonT(30), <1>1, <1>2, <1>3 DEF a, b, BusInv, TableInv, MapsAgree, Walking, Trying
<1>8. ASSUME Move(a, b) \/ UNCHANGED held, Restated, \A j \in Ents \ {Here, owner} : devices'[j] = devices[j],
             NEW j \in Ents' \ {Here, owner}, NEW t \in Targets, held'[t] = devices'[j].addr
      PROVE  devices'[j].da_state = "Verified" /\ t = devices'[j].pid
  <2>1. j \in Ents \ {Here, owner} /\ devices'[j] = devices[j]
      BY ZenonT(30), <1>8 DEF Restated
  <2>2. held[t] = devices[j].addr
      BY ZenonT(30), <1>6, <1>7, <1>8, <2>1
  <2>. QED BY ZenonT(30), <1>7, <2>1, <2>2 DEF BusInv, Owners
<1>a. CASE /\ Move(a, b)
           /\ devices' = [devices EXCEPT ![Here].da_state = "Unassigned",
                                         ![owner].da_state = "Unknown"]
           /\ pc' = "verify" /\ UNCHANGED <<need, pos, who>>
  <2>1. /\ Restated /\ devices'[Here].da_state = "Unassigned" /\ devices'[owner].da_state = "Unknown"
        /\ \A j \in Ents \ {Here, owner} : devices'[j] = devices[j]
      BY <1>2, <1>3, <1>a, MarkedTwiceRestates, ZenonT(30) DEF BusInv, TableInv, Shape
  <2>2. /\ Ents' = Ents /\ Here' = Here /\ OwnerOf(who)' = owner
        /\ devices'[Here].addr = a /\ devices'[owner].addr = b /\ devices'[Here].pos = pos
      BY ZenonT(30), <1>1, <1>2, <1>3, <1>a, <2>1, OwnerKept DEF Restated, Here, owner, a, b
  <2>3. Owners'
    <3>1. \A t \in Targets : held'[t] # devices'[Here].addr
        BY <1>6, <1>a, <2>2
    <3>. QED BY ZenonT(30), <1>8, <1>a, <2>1, <3>1 DEF Owners
  <2>4. ASSUME NEW i \in Ents, devices'[i].kind = "I3c", devices'[i].da_state # "Unknown"
        PROVE  devices'[i].pos \in need' <=> devices'[i].da_state = "Unassigned"
    <3>1. CASE i = Here
        BY <1>2, <1>a, <2>1, <2>2, <3>1
    <3>2. CASE i # Here
      <4>1. i \in Ents \ {Here, owner} /\ devices'[i] = devices[i]
          BY <2>1, <2>4, <3>2
      <4>. QED BY <1>1, <1>a, <2>4, <4>1 DEF BusInv, Walking, Trying
    <3>. QED BY <3>1, <3>2
  <2>5. \A i \in Ents : devices'[i].da_state = "Unknown" => i = owner
      BY <1>7, <2>1
  <2>6. \A t \in Targets : held'[t] = b => t = who
      BY <1>6, <1>a
  <2>7. Walking'
      BY ZenonT(30), <1>2, <1>a, <2>1, <2>2, <2>4, <2>5, <2>6 DEF Walking, Trying, Moved
  <2>. QED BY <1>6, <1>a, <2>3, <2>7
<1>b. CASE /\ Move(a, b) \/ UNCHANGED held
           /\ devices' = Marked(owner, "Unknown")
           /\ pc' = "verify_lost" /\ UNCHANGED <<need, pos, who>>
  <2>1. /\ Restated /\ devices'[owner].da_state = "Unknown"
        /\ \A j \in Ents \ {owner} : devices'[j] = devices[j]
      BY <1>3, <1>b, MarkedRestates DEF BusInv, TableInv, Shape
  <2>2. /\ Ents' = Ents /\ Here' = Here /\ OwnerOf(who)' = owner
        /\ devices'[Here].addr = a /\ devices'[owner].addr = b /\ devices'[Here] = devices[Here]
      BY ZenonT(30), <1>1, <1>2, <1>3, <1>b, <2>1, OwnerKept DEF Restated, Here, owner, a, b
  <2>3. Owners'
    <3>1. ASSUME NEW t \in Targets, held'[t] = devices'[Here].addr
          PROVE  \/ devices'[Here].da_state = "Unknown"
                 \/ devices'[Here].da_state = "Verified" /\ t = devices'[Here].pid
      <4>1. UNCHANGED held
          BY ZenonT(30), <1>6, <1>b, <2>2, <3>1
      <4>. QED BY <1>2, <2>2, <3>1, <4>1 DEF BusInv, Owners
    <3>. QED BY ZenonT(30), <1>8, <1>b, <2>1, <3>1 DEF Owners
  <2>4. ASSUME NEW i \in Ents, devices'[i].kind = "I3c", devices'[i].da_state # "Unknown"
        PROVE  devices'[i].pos \in need' <=> devices'[i].da_state = "Unassigned"
    <3>1. i \in Ents \ {owner} /\ devices'[i] = devices[i]
        BY <2>1, <2>4
    <3>. QED BY <1>1, <1>b, <2>4, <3>1 DEF BusInv, Walking, Trying
  <2>5. \A i \in Ents : devices'[i].da_state = "Unknown" => i \in {Here, owner}
      BY <1>7, <2>1
  <2>6. \A t \in Targets : held'[t] = a \/ held'[t] = b => t = who
      BY ZenonT(30), <1>6, <1>b
  <2>7. Walking'
      BY ZenonT(30), <1>2, <1>b, <2>2, <2>4, <2>5, <2>6 DEF Walking, Trying, Moved
  <2>. QED BY ZenonT(30), <1>6, <1>b, <2>3, <2>7
<1>c. CASE Fail /\ UNCHANGED <<devices, held>>
    BY ZenonT(30), <1>c, QuietBus, NotWalking DEF Fail, Return
<1>. QED BY ZenonT(30), <1>4, <1>a, <1>b, <1>c DEF WalkMove, owner, a, b

\* A move that was verified leaves this slot without a holder.
LEMMA VerifyBus ==
    ASSUME BusInv, WalkVerify
    PROVE  Owners' /\ Distinct' /\ Walking'
<1>. DEFINE owner == OwnerOf(who)
<1>1. UNCHANGED <<by_pos, in_use, dat, held>> /\ pc \in Moved
    BY ZenonT(30) DEF WalkVerify, Moved
<1>2. Here \in Ents /\ devices[Here].kind = "I3c" /\ devices[Here].pos = pos /\ pos \in need
    BY <1>1, HereFacts
<1>3. owner \in Ents /\ owner # Here /\ devices[owner].kind = "I3c" /\ devices[owner].pid = who
          /\ devices[owner].addr # devices[Here].addr
    BY <1>1, OwnerFacts
<1>a. CASE /\ ~xfer_faulted /\ Holders(dat[devices[owner].pos]) # {}
           /\ devices' = [devices EXCEPT ![Here].da_state = "Unassigned",
                                         ![owner].da_state = "Verified"]
           /\ need' = need \ {devices[owner].pos} /\ OnWalk
  <2>1. /\ Restated /\ devices'[Here].da_state = "Unassigned" /\ devices'[owner].da_state = "Verified"
        /\ \A j \in Ents \ {Here, owner} : devices'[j] = devices[j]
      BY <1>2, <1>3, <1>a, MarkedTwiceRestates, ZenonT(30) DEF BusInv, TableInv, Shape
  <2>2. Ents' = Ents /\ pc' = "walk"
      BY <1>a, <2>1 DEF Restated, OnWalk
  <2>3. dat[devices[owner].pos] = devices[owner].addr
      BY ZenonT(30), <1>3, <1>a DEF BusInv, TableInv, MapsAgree
  <2>4. \A t \in Targets : held[t] = devices[owner].addr => t = who
      BY <1>1 DEF BusInv, Walking
  <2>5. \A t \in Targets : held[t] # devices[Here].addr
    <3>1. CASE pc = "verify"
      <4>1. devices[Here].da_state = "Unassigned"
          BY <3>1 DEF BusInv, Walking
      <4>. QED BY ZenonT(30), <1>2, <4>1 DEF BusInv, Owners
    <3>2. CASE pc = "verify_lost"
      <4>1. PICK w \in Targets : held[w] = devices[owner].addr
          BY ZenonT(30), <1>a, <2>3 DEF Holders
      <4>2. \A t \in Targets : held[t] = devices[Here].addr => t = who
          BY ZenonT(30), <3>2 DEF BusInv, Walking
      <4>. QED BY <1>3, <2>4, <4>1, <4>2
    <3>. QED BY <1>1, <3>1, <3>2 DEF Moved
  <2>6. \A j \in Ents \ {Here, owner} : devices[j].da_state # "Unknown"
      BY <1>1 DEF BusInv, Walking
  <2>. HIDE DEF owner
  <2>7. Owners'
    <3>1. ASSUME NEW j \in Ents, NEW t \in Targets, held[t] = devices'[j].addr
          PROVE  devices'[j].da_state = "Verified" /\ t = devices'[j].pid
      <4>1. CASE j = Here
          BY ZenonT(30), <1>2, <2>1, <2>5, <3>1, <4>1 DEF Restated
      <4>2. CASE j = owner
          BY ZenonT(30), <1>3, <2>1, <2>4, <3>1, <4>2 DEF Restated
      <4>3. CASE j \notin {Here, owner}
          BY <2>1, <2>6, <3>1, <4>3 DEF BusInv, Owners
      <4>. QED BY <4>1, <4>2, <4>3
    <3>. QED BY <1>1, <2>2, <3>1 DEF Owners
  <2>8. Distinct'
      BY <1>1 DEF BusInv, Distinct
  <2>9. \A i \in Ents : devices'[i].da_state # "Unknown"
      BY ZenonT(30), <2>1, <2>6
  <2>10. ASSUME NEW i \in Ents, devices'[i].kind = "I3c"
         PROVE  devices'[i].pos \in need' <=> devices'[i].da_state = "Unassigned"
    <3>1. devices'[i].pos = devices[i].pos /\ (i # owner => devices[i].pos # devices[owner].pos)
      <4>1. devices'[i].pos = devices[i].pos
          BY <2>1, <2>10 DEF Restated
      <4>2. by_pos[devices[i].pos] = i /\ by_pos[devices[owner].pos] = owner
          BY <1>3 DEF BusInv, TableInv, MapsAgree
      <4>. QED BY ZenonT(30), <4>1, <4>2
    <3>2. CASE i = Here
        BY <1>2, <1>3, <1>a, <2>1, <3>1, <3>2
    <3>3. CASE i = owner
        BY <1>a, <2>1, <3>1, <3>3
    <3>4. CASE i \notin {Here, owner}
      <4>1. devices'[i] = devices[i] /\ devices[i].da_state # "Unknown" /\ devices[i].kind = "I3c"
          BY ZenonT(30), <2>1, <2>6, <2>10, <3>4
      <4>2. devices[i].pos \in need <=> devices[i].da_state = "Unassigned"
          BY ZenonT(30), <1>1, <4>1 DEF BusInv, Walking
      <4>. QED BY <1>a, <3>1, <3>4, <4>1, <4>2
    <3>. QED BY <3>2, <3>3, <3>4
  <2>11. Walking'
      BY <2>2, <2>9, <2>10 DEF Walking, Trying, Moved
  <2>. QED BY <2>7, <2>8, <2>11
<1>b. CASE Fail /\ UNCHANGED devices
    BY <1>1, <1>b, QuietBus, NotWalking DEF Fail, Return
<1>. QED BY <1>a, <1>b DEF WalkVerify

\* A device nobody attached leaves the slot for an address nobody holds.
LEMMA ParkBus ==
    ASSUME BusInv, WalkPark
    PROVE  Owners' /\ Distinct' /\ Walking'
<1>. DEFINE a == devices[Here].addr
            b == alloc_from
<1>1. UNCHANGED <<by_pos, dat>> /\ pc = "park" /\ ~xfer_faulted
    BY ZenonT(30) DEF WalkPark, BusInv, TableInv, Local, Mid
<1>2. Here \in Ents /\ devices[Here].kind = "I3c" /\ devices[Here].pos = pos /\ a \in Nat \ {0}
          /\ pos \in need
    BY ZenonT(30), <1>1, HereFacts DEF Trying
<1>3. dat[pos] = a
    BY <1>1, <1>2 DEF BusInv, TableInv, MapsAgree
<1>4. \A j \in Ents \ {Here} : devices[j].da_state # "Unknown" /\ devices[j].addr # a
    BY ZenonT(30), <1>1, <1>2 DEF BusInv, Walking, Trying, TableInv, MapsAgree
<1>a. CASE Return /\ UNCHANGED <<devices, held>>
    BY <1>a, QuietBus, NotWalking DEF Return
<1>b. CASE /\ Addrs \ in_use # {} /\ (Move(a, b) \/ UNCHANGED held)
           /\ \/ Move(a, b) /\ devices' = Marked(Here, "Unassigned") /\ OnWalk /\ UNCHANGED <<need, pos>>
              \/ mark_da_unknown(Here, {b}) /\ Return
  <2>1. b \in Addrs \ in_use /\ b \in Nat \ {0}
      BY ZenonT(30), <1>b, AllocIsFree, AddrsArePositive
  <2>2. (\A j \in Ents : devices[j].addr # b) /\ \A t \in Targets : held[t] # b
      BY <2>1, ReservedHolds DEF BusInv, TableInv, HeldIsReserved
  <2>3. \A t \in Targets : held[t] = a => t = who
      BY <1>1 DEF BusInv, Walking
  <2>. HIDE DEF a, b
  <2>4. /\ Distinct'
        /\ \A t \in Targets : held'[t] = a \/ held'[t] = b => t = who
        /\ \A t \in Targets : held'[t] \notin {a, b} => held'[t] = held[t]
        /\ Move(a, b) => \A t \in Targets : held'[t] # a
    <3>1. a # b
        BY ZenonT(30), <1>2, <2>2 DEF a
    <3>2. Owned(a, b, who)
        BY <2>2, <2>3 DEF Owned
    <3>3. MovedTo(a, b, who)
        BY ZenonT(30), <1>b, <2>1, <3>1, <3>2, MoveBus
    <3>. QED BY <3>3 DEF MovedTo
  <2>5. Restated /\ \A j \in Ents \ {Here} : devices'[j] = devices[j]
    <3>1. \E st \in {"Unassigned", "Unknown"} : devices' = Marked(Here, st)
      <4>1. CASE mark_da_unknown(Here, {b})
          BY ZenonT(30), <1>2, <4>1, MarkedUnknown
      <4>. QED BY ZenonT(30), <1>b, <4>1
    <3>. QED BY <1>2, <3>1, MarkedRestates DEF BusInv, TableInv, Shape
  <2>6. ASSUME NEW j \in Ents' \ {Here}, NEW t \in Targets, held'[t] = devices'[j].addr
        PROVE  devices'[j].da_state = "Verified" /\ t = devices'[j].pid
    <3>1. j \in Ents \ {Here} /\ devices'[j] = devices[j]
        BY ZenonT(30), <2>5, <2>6 DEF Restated
    <3>2. held[t] = devices[j].addr
        BY ZenonT(30), <1>4, <2>2, <2>4, <2>6, <3>1
    <3>. QED BY <1>4, <3>1, <3>2 DEF BusInv, Owners
  <2>7. Ents' = Ents /\ devices'[Here].addr = a /\ devices'[Here].pos = pos
      BY <1>2, <2>5 DEF Restated, a
  <2>8. CASE mark_da_unknown(Here, {b}) /\ Return
    <3>1. devices'[Here].da_state = "Unknown"
        BY ZenonT(30), <1>2, <2>8, MarkedUnknown, MarkedRestates DEF BusInv, TableInv, Shape
    <3>2. Owners'
        BY <2>6, <3>1 DEF Owners
    <3>. QED BY ZenonT(30), <2>4, <2>8, <3>2, NotWalking DEF Return
  <2>9. CASE Move(a, b) /\ devices' = Marked(Here, "Unassigned") /\ OnWalk /\ UNCHANGED <<need, pos>>
    <3>1. devices'[Here].da_state = "Unassigned"
        BY ZenonT(30), <1>2, <2>9, MarkedRestates DEF BusInv, TableInv, Shape
    <3>2. Owners'
        BY ZenonT(30), <2>4, <2>6, <2>7, <2>9 DEF Owners
    <3>3. ASSUME NEW i \in Ents, devices'[i].kind = "I3c"
          PROVE  /\ devices'[i].da_state # "Unknown"
                 /\ devices'[i].pos \in need' <=> devices'[i].da_state = "Unassigned"
      <4>1. CASE i = Here
          BY ZenonT(30), <1>2, <2>7, <2>9, <3>1, <4>1
      <4>2. CASE i # Here
        <5>1. devices'[i] = devices[i] /\ devices[i].da_state # "Unknown" /\ devices[i].kind = "I3c"
            BY ZenonT(30), <1>4, <2>5, <3>3, <4>2
        <5>. QED BY ZenonT(30), <1>1, <2>9, <5>1 DEF BusInv, Walking, Trying
      <4>. QED BY <4>1, <4>2
    <3>4. \A i \in Ents : devices'[i].da_state # "Unknown"
        BY <1>4, <2>5, <3>1
    <3>5. pc' = "walk"
        BY ZenonT(30), <2>9 DEF OnWalk
    <3>6. Walking'
        BY <2>7, <3>3, <3>4, <3>5 DEF Walking, Trying, Moved
    <3>. QED BY ZenonT(30), <2>4, <3>2, <3>6
  <2>. QED BY <1>b, <2>8, <2>9
<1>. QED BY ZenonT(30), <1>3, <1>a, <1>b DEF WalkPark, Fail, a, b

\* The end of a walk keeps BusInv.
LEMMA DoneBus == ASSUME BusInv, WalkDone PROVE Owners' /\ Distinct' /\ Walking'
BY QuietBus, NotWalking DEF WalkDone, Return, table

\* Skipping a slot keeps BusInv.
LEMMA SkipBus == ASSUME BusInv, WalkSkip PROVE Owners' /\ Distinct' /\ Walking'
<1>1. UNCHANGED <<devices, held, need>> /\ pc = "walk" /\ pc' = "walk"
    BY DEF WalkSkip, table
<1>. QED BY ZenonT(30), <1>1, QuietBus DEF BusInv, Walking, Trying, Moved, Ents

\* A target that loses power answers nowhere.
LEMMA LeaveBus == ASSUME BusInv, Leave PROVE Owners' /\ Distinct' /\ Walking'
<1>1. UNCHANGED <<devices, by_pos, pc, need, pos, who>> /\ Ents' = Ents /\ Here' = Here
          /\ OwnerOf(who)' = OwnerOf(who)
    BY DEF Leave, table, walk, Ents, Here, OwnerOf
<1>2. \A t \in Targets : held'[t] # 0 => held'[t] = held[t]
    BY DEF Leave, BusInv, TableInv, Shape
<1>3. \A i \in Ents : devices[i].addr # 0
    BY ZenonT(30), AddrOfEntry, AddrsArePositive DEF BusInv, TableInv
<1>4. Owners' /\ Distinct'
    BY <1>1, <1>2, <1>3 DEF BusInv, Owners, Distinct
<1>5. pc \in Trying \cup Moved \cup {"assign_bcr"} => Here \in Ents
    BY HereIsEntry DEF BusInv, TableInv, Local, Trying, Moved, Mid
<1>6. pc \in Moved => OwnerOf(who) \in Ents
    BY OwnerFacts
<1>7. \A i \in Ents, t \in Targets : held'[t] = devices[i].addr => held[t] = devices[i].addr
    BY <1>2, <1>3
<1>8. Walking'
    BY ZenonT(30), <1>1, <1>5, <1>6, <1>7 DEF BusInv, Walking, Trying, Moved
<1>. QED BY <1>4, <1>8

\* A walk that starts after RSTDAA has cleared unknown owners meets none.
LEMMA StartBus ==
    ASSUME BusInv, bus_daa, CallerResets
    PROVE  Owners' /\ Distinct' /\ Walking'
<1>1. UNCHANGED <<devices, by_pos, held>> /\ pc' = "walk" /\ Ents' = Ents
    BY DEF bus_daa, table, Ents
<1>2. \A i \in Ents : devices[i].da_state # "Unknown"
    BY DEF bus_daa, Ents
<1>3. ASSUME NEW i \in Ents, devices[i].kind = "I3c"
      PROVE  devices[i].pos \in need' <=> devices[i].da_state = "Unassigned"
  <2>1. need' = {devices[j].pos : j \in {k \in Ents : devices[k].kind = "I3c" /\ devices[k].da_state = "Unassigned"}}
      BY ZenonT(30) DEF bus_daa, Ents
  <2>2. \A j \in Ents : devices[j].pos = devices[i].pos => j = i
      BY DEF BusInv, TableInv, MapsAgree
  <2>. QED BY <1>3, <2>1, <2>2
<1>4. Walking'
    BY ZenonT(30), <1>1, <1>2, <1>3 DEF Walking, Trying, Moved
<1>. QED BY <1>1, <1>4, QuietBus

\* assign_dynamic_address may leave its entry Unknown.
LEMMA AssignBus ==
    ASSUME BusInv, assign_dynamic_address, CallerKnowsBus
    PROVE  Owners' /\ Distinct' /\ Walking'
<1>1. UNCHANGED <<by_pos, dat>> /\ pc = "idle" /\ ~xfer_faulted /\ pc' \in {"idle", "assign_pid"}
    BY ZenonT(30) DEF assign_dynamic_address
<1>2. PICK i \in Ents :
        /\ devices[i].kind = "I3c"
        /\ \/ UNCHANGED <<devices, held>>
           \/ /\ devices[i].da_state = "Unassigned"
              /\ Latch(devices[i].pos) \/ UNCHANGED held
              /\ mark_da_unknown(i, {})
    BY DEF assign_dynamic_address, Ents
<1>3. CASE UNCHANGED <<devices, held>>
    BY <1>1, <1>3, QuietBus, NotWalking
<1>4. CASE /\ devices[i].da_state = "Unassigned" /\ (Latch(devices[i].pos) \/ UNCHANGED held)
           /\ mark_da_unknown(i, {})
  <2>1. /\ Restated /\ devices'[i].da_state = "Unknown"
        /\ \A j \in Ents \ {i} : devices'[j] = devices[j]
      BY ZenonT(30), <1>2, <1>4, MarkedUnknown, MarkedRestates DEF BusInv, TableInv, Shape
  <2>2. Owners' /\ Distinct'
      BY <1>1, <1>4, <2>1, LatchBus, UnknownBus
  <2>. QED BY <1>1, <2>2, NotWalking
<1>. QED BY ZenonT(30), <1>2, <1>3, <1>4

\* Its GETPID tells who answers at the entry.
LEMMA AssignGetpidBus ==
    ASSUME BusInv, AssignGetpid
    PROVE  Owners' /\ Distinct' /\ Walking'
<1>1. UNCHANGED <<by_pos, dat, held>> /\ pc = "assign_pid" /\ ~xfer_faulted
    BY ZenonT(30) DEF AssignGetpid, BusInv, TableInv, Local, Mid
<1>2. Here \in Ents /\ devices[Here].kind = "I3c" /\ devices[Here].pos = pos
  <2>1. pc \in Mid
      BY <1>1 DEF Mid
  <2>. QED BY <2>1, HereIsEntry DEF BusInv, TableInv, Local
<1>3. devices[Here].pid # NoPid
    BY ZenonT(30), <1>2, DaaAssumption DEF BusInv, TableInv, Kinds
<1>a. CASE /\ devices[Here].pid \in Holders(dat[pos]) /\ pc' = "assign_bcr"
           /\ UNCHANGED <<devices, pos>>
  <2>1. dat[pos] = devices[Here].addr /\ devices[Here].addr # 0
      BY ZenonT(30), <1>1, <1>2, AddrOfEntry, AddrsArePositive DEF BusInv, TableInv, MapsAgree
  <2>2. \A t \in Targets : held[t] = devices[Here].addr => t = devices[Here].pid
      BY ZenonT(30), <1>a, <2>1 DEF Holders, BusInv, Distinct
  <2>3. Here' = Here
      BY ZenonT(30), <1>1, <1>a DEF Here
  <2>4. Walking'
      BY <1>1, <1>a, <2>2, <2>3 DEF Walking, Trying, Moved
  <2>. QED BY ZenonT(30), <1>1, <1>a, <2>4, QuietBus
<1>b. CASE devices' = Marked(Here, "Unknown") /\ Return
  <2>1. /\ Restated /\ devices'[Here].da_state = "Unknown"
        /\ \A j \in Ents \ {Here} : devices'[j] = devices[j]
      BY <1>2, <1>b, MarkedRestates DEF BusInv, TableInv, Shape
  <2>. QED BY ZenonT(30), <1>1, <1>2, <1>b, <2>1, UnknownBus, NotWalking DEF Return
<1>c. CASE Fail /\ UNCHANGED devices
    BY <1>1, <1>c, QuietBus, NotWalking DEF Fail, Return
<1>. QED BY ZenonT(30), <1>3, <1>a, <1>b, <1>c DEF AssignGetpid

\* Its last transfer makes the entry Verified only for its own target.
LEMMA AssignVerifyBus ==
    ASSUME BusInv, AssignVerify
    PROVE  Owners' /\ Distinct' /\ Walking'
<1>1. UNCHANGED <<by_pos, dat, held>> /\ pc = "assign_bcr" /\ pc' = "idle"
    BY ZenonT(30) DEF AssignVerify, Fail, Return
<1>2. Here \in Ents /\ devices[Here].kind = "I3c"
  <2>1. pc \in Mid
      BY <1>1 DEF Mid
  <2>. QED BY <2>1, HereIsEntry DEF BusInv, TableInv, Local
<1>3. Walking'
    BY <1>1, NotWalking
<1>4. CASE UNCHANGED devices
    BY <1>1, <1>3, <1>4, QuietBus
<1>5. CASE devices' = Marked(Here, "Verified")
  <2>1. /\ Restated /\ devices'[Here].da_state = "Verified"
        /\ \A j \in Ents \ {Here} : devices'[j] = devices[j]
      BY ZenonT(30), <1>2, <1>5, MarkedRestates DEF BusInv, TableInv, Shape
  <2>2. \A t \in Targets : held[t] = devices[Here].addr => t = devices[Here].pid
      BY ZenonT(30), <1>1 DEF BusInv, Walking
  <2>3. Owners'
    <3>1. ASSUME NEW j \in Ents', NEW t \in Targets, held'[t] = devices'[j].addr
          PROVE  \/ devices'[j].da_state = "Unknown"
                 \/ devices'[j].da_state = "Verified" /\ t = devices'[j].pid
      <4>1. CASE j = Here
          BY ZenonT(30), <1>1, <1>2, <2>1, <2>2, <3>1, <4>1 DEF Restated
      <4>2. CASE j # Here
        <5>1. j \in Ents /\ devices'[j] = devices[j]
            BY <2>1, <4>2 DEF Restated
        <5>. QED BY ZenonT(30), <1>1, <3>1, <5>1 DEF BusInv, Owners
      <4>. QED BY <4>1, <4>2
    <3>. QED BY <3>1 DEF Owners
  <2>4. Distinct'
      BY <1>1 DEF BusInv, Distinct
  <2>. QED BY <1>3, <2>3, <2>4
<1>6. CASE devices' = [devices EXCEPT ![Here].pid = who, ![Here].da_state = "Verified"]
    BY ZenonT(30), <1>1, <1>2, <1>5, <1>6, PidIsKnown DEF BusInv, TableInv, Local
<1>. QED BY ZenonT(30), <1>4, <1>6 DEF AssignVerify

\* reinit keeps BusInv.
LEMMA ReinitBus == ASSUME BusInv, reinit PROVE Owners' /\ Distinct' /\ Walking'
BY QuietBus, NotWalking DEF reinit, walk

\* Attaching a device keeps BusInv: nobody answers at its new address.
LEMMA AttachBus ==
    ASSUME BusInv, NEW a \in Addrs, NEW s \in Slots, NEW kind, NEW pid, Attach(kind, pid, a, s)
    PROVE  Owners' /\ Distinct' /\ Walking'
<1>. DEFINE n == Len(devices)
            e == [kind |-> kind, pid |-> pid, addr |-> a, pos |-> s, da_state |-> "Unassigned"]
<1>1. UNCHANGED held /\ devices' = Append(devices, e) /\ pc' = "idle" /\ a \notin in_use
    BY DEF Attach, walk, is_free
<1>2. devices \in Seq(Entry) /\ n \in Nat /\ Ents = 1..n
  <2>1. devices \in Seq(Entry)
      BY ZenonT(30) DEF BusInv, TableInv, Shape
  <2>. QED BY ZenonT(30), <2>1, Positions DEF Ents
<1>5. e.addr = a
    OBVIOUS
<1>. HIDE DEF e
<1>3. Ents' = 1..n + 1 /\ devices'[n + 1] = e /\ \A j \in 1..n : devices'[j] = devices[j]
  <2>1. /\ DOMAIN Append(devices, e) = 1..n + 1 /\ Append(devices, e)[n + 1] = e
        /\ \A j \in 1..n : Append(devices, e)[j] = devices[j]
      BY <1>2, AppendedAt
  <2>. QED BY ZenonT(30), <1>1, <2>1 DEF Ents
<1>4. \A t \in Targets : held[t] # a
    BY <1>1, AddrsArePositive DEF BusInv, TableInv, HeldIsReserved
<1>6. ASSUME NEW j \in Ents', NEW t \in Targets, held'[t] = devices'[j].addr
      PROVE  \/ devices'[j].da_state = "Unknown"
             \/ devices'[j].da_state = "Verified" /\ t = devices'[j].pid
  <2>1. j # n + 1
      BY ZenonT(30), <1>1, <1>3, <1>4, <1>5, <1>6
  <2>2. j \in 1..n
      BY <1>2, <1>3, <2>1
  <2>. QED BY ZenonT(30), <1>1, <1>2, <1>3, <1>6, <2>2 DEF BusInv, Owners
<1>7. Owners'
    BY <1>6 DEF Owners
<1>8. Distinct'
    BY <1>1 DEF BusInv, Distinct
<1>. QED BY ZenonT(30), <1>1, <1>7, <1>8, NotWalking

\* Detaching a device keeps BusInv.
LEMMA DetachBus ==
    ASSUME BusInv, NEW i \in Ents, Detach(i)
    PROVE  Owners' /\ Distinct' /\ Walking'
<1>. DEFINE n == Len(devices)
            old(j) == IF j < i THEN j ELSE j + 1
<1>1. pc' = "idle" /\ UNCHANGED held /\ devices' = [j \in 1..n - 1 |-> devices[old(j)]]
    BY DEF Detach, detach, walk
<1>2. n \in Nat /\ Ents = 1..n /\ i \in 1..n
    BY DEF BusInv, TableInv, Shape, Ents
<1>3. Ents' = 1..n - 1 /\ \A j \in Ents' : devices'[j] = devices[old(j)] /\ old(j) \in Ents
    BY <1>1, <1>2 DEF Ents
<1>. HIDE DEF old
<1>4. Owners' /\ Distinct'
    BY <1>1, <1>3 DEF BusInv, Owners, Distinct
<1>. QED BY ZenonT(30), <1>1, <1>4, NotWalking

\* Only a verified target is moved, to an address nobody holds.
LEMMA SetnewdaBus ==
    ASSUME BusInv, ccc_setnewda
    PROVE  Owners' /\ Distinct' /\ Walking'
<1>1. pc' = "idle" /\ ~xfer_faulted /\ UNCHANGED walk /\ pc = "idle"
    BY DEF ccc_setnewda, walk
<1>2. PICK i \in DOMAIN devices, a \in Addrs :
        LET curr == devices[i].addr
            s == devices[i].pos
        IN  /\ devices[i].kind = "I3c" /\ devices[i].da_state = "Verified"
            /\ is_free(a) \/ a = curr
            /\ \/ Failed /\ UNCHANGED <<table, held>>
               \/ /\ Holders(dat[s]) # {}
                  /\ Move(dat[s], a)
                  /\ dat' = [dat EXCEPT ![s] = a]
                  /\ in_use' = (in_use \ {curr}) \cup {a}
                  /\ devices' = [devices EXCEPT ![i].addr = a]
                  /\ Failed
                  /\ UNCHANGED by_pos
               \/ /\ Move(dat[s], a) \/ UNCHANGED held
                  /\ mark_da_unknown(i, {a})
                  /\ Failed
                  /\ UNCHANGED <<by_pos, dat>>
    BY ZenonT(30) DEF ccc_setnewda
<1>. i \in Ents /\ devices[i].kind = "I3c" /\ devices[i].da_state = "Verified"
    BY <1>2 DEF Ents
<1>3. Walking'
    BY ZenonT(30), <1>1, NotWalking
<1>s. CASE a = devices[i].addr
  <2>1. Move(dat[devices[i].pos], a) => UNCHANGED held
      BY ZenonT(30), <1>1, <1>s, MovedNowhere DEF BusInv
  <2>2. CASE UNCHANGED <<devices, held>>
      BY ZenonT(30), <1>3, <2>2, QuietBus
  <2>3. CASE UNCHANGED held /\ mark_da_unknown(i, {a})
    <3>1. /\ Restated /\ devices'[i].da_state = "Unknown"
          /\ \A j \in Ents \ {i} : devices'[j] = devices[j]
        BY ZenonT(30), <2>3, MarkedUnknown, MarkedRestates DEF BusInv, TableInv, Shape
    <3>. QED BY ZenonT(30), <1>3, <2>3, <3>1, UnknownBus
  <2>4. CASE /\ UNCHANGED held /\ dat' = [dat EXCEPT ![devices[i].pos] = a]
             /\ in_use' = (in_use \ {devices[i].addr}) \cup {a}
             /\ devices' = [devices EXCEPT ![i].addr = a]
    <3>1. UNCHANGED devices
        BY ZenonT(30), <1>1, <1>s, <2>4, SameAddress DEF BusInv
    <3>. QED BY ZenonT(30), <2>2, <2>4, <3>1
  <2>. QED BY ZenonT(30), <1>2, <2>1, <2>2, <2>3, <2>4 DEF table
<1>. SUFFICES ASSUME a \notin in_use PROVE Owners' /\ Distinct' /\ Walking'
    BY ZenonT(30), <1>2, <1>s DEF is_free
<1>. DEFINE curr == devices[i].addr
            pid == devices[i].pid
<1>4. dat[devices[i].pos] = curr
    BY <1>1 DEF BusInv, TableInv, MapsAgree
<1>5. (\A j \in Ents : devices[j].addr # a) /\ (\A t \in Targets : held[t] # a) /\ a \in Nat \ {0}
    BY ZenonT(30), <1>2, ReservedHolds, AddrsArePositive DEF BusInv, TableInv, HeldIsReserved
<1>6. \A j \in Ents \ {i} : devices[j].addr # curr
    BY ZenonT(30) DEF BusInv, TableInv, MapsAgree
<1>7. \A t \in Targets : held[t] = curr \/ held[t] = a => t = pid
    BY <1>2, <1>5 DEF BusInv, Owners
<1>8. ASSUME Move(curr, a) \/ UNCHANGED held
      PROVE  /\ Distinct'
             /\ \A t \in Targets : held'[t] = curr \/ held'[t] = a => t = pid
             /\ \A t \in Targets : held'[t] \notin {curr, a} => held'[t] = held[t]
             /\ Move(curr, a) => \A t \in Targets : held'[t] # curr
  <2>1. curr # a
      BY ZenonT(30), <1>5
  <2>. HIDE DEF curr, pid
  <2>2. Owned(curr, a, pid) /\ a \in Nat \ {0}
      BY ZenonT(30), <1>5, <1>7 DEF Owned
  <2>3. MovedTo(curr, a, pid)
      BY ZenonT(30), <1>8, <2>1, <2>2, MoveBus
  <2>. QED BY ZenonT(30), <2>3 DEF MovedTo
<1>. HIDE DEF curr, pid
<1>a. CASE UNCHANGED <<table, held>>
    BY <1>3, <1>a, QuietBus DEF table
<1>b. CASE /\ Move(curr, a) /\ dat' = [dat EXCEPT ![devices[i].pos] = a]
           /\ in_use' = (in_use \ {curr}) \cup {a}
           /\ devices' = [devices EXCEPT ![i].addr = a] /\ UNCHANGED by_pos
  <2>1. /\ Ents' = Ents /\ devices'[i].addr = a
        /\ \A j \in Ents : /\ devices'[j].pid = devices[j].pid
                           /\ devices'[j].da_state = devices[j].da_state
                           /\ j # i => devices'[j].addr = devices[j].addr
    <3>1. Move(dat[devices[i].pos], a) /\ in_use' = (in_use \ {devices[i].addr}) \cup {a}
        BY <1>4, <1>b DEF curr
    <3>2. TableInv /\ devices[i].kind = "I3c" /\ a \notin in_use
        BY <1>2 DEF BusInv
    <3>3. /\ devices' = [devices EXCEPT ![i].addr = a] /\ UNCHANGED by_pos
          /\ dat' = [dat EXCEPT ![devices[i].pos] = a] /\ ~xfer_faulted /\ pc = "idle" /\ UNCHANGED walk
        BY <1>1, <1>b
    <3>4. OnlyAddr(i, a)
        BY ZenonT(30), <3>1, <3>2, <3>3, Readdressed
    <3>. QED BY ZenonT(30), <3>4 DEF OnlyAddr
  <2>2. ASSUME NEW j \in Ents, NEW t \in Targets, held'[t] = devices'[j].addr
        PROVE  \/ devices'[j].da_state = "Unknown"
               \/ devices'[j].da_state = "Verified" /\ t = devices'[j].pid
    <3>1. CASE j = i
        BY ZenonT(30), <1>2, <1>8, <1>b, <2>1, <2>2, <3>1 DEF pid
    <3>2. CASE j # i
      <4>1. held[t] = devices[j].addr
        <5>1. devices'[j].addr = devices[j].addr
            BY ZenonT(30), <2>1, <3>2
        <5>2. devices[j].addr # a /\ devices[j].addr # curr
            BY ZenonT(30), <1>5, <1>6, <3>2
        <5>3. held'[t] \notin {curr, a}
            BY ZenonT(30), <2>2, <5>1, <5>2
        <5>4. held'[t] = held[t]
            BY ZenonT(30), <1>8, <1>b, <5>3
        <5>. QED BY ZenonT(30), <2>2, <5>1, <5>4
      <4>. QED BY ZenonT(30), <2>1, <4>1 DEF BusInv, Owners
    <3>. QED BY ZenonT(30), <3>1, <3>2
  <2>3. Owners'
      BY ZenonT(30), <2>1, <2>2 DEF Owners
  <2>. QED BY ZenonT(30), <1>3, <1>8, <1>b, <2>3
<1>c. CASE (Move(curr, a) \/ UNCHANGED held) /\ mark_da_unknown(i, {a})
  <2>1. /\ Restated /\ devices'[i].da_state = "Unknown"
        /\ \A j \in Ents \ {i} : devices'[j] = devices[j]
      BY ZenonT(30), <1>2, <1>c, MarkedUnknown, MarkedRestates DEF BusInv, TableInv, Shape
  <2>2. ASSUME NEW j \in Ents \ {i}, NEW t \in Targets, held'[t] = devices'[j].addr
        PROVE  \/ devices'[j].da_state = "Unknown"
               \/ devices'[j].da_state = "Verified" /\ t = devices'[j].pid
    <3>1. held[t] = devices[j].addr
        BY ZenonT(30), <1>5, <1>6, <1>8, <1>c, <2>1, <2>2
    <3>. QED BY ZenonT(30), <2>1, <3>1 DEF BusInv, Owners
  <2>3. Owners'
      BY ZenonT(30), <2>1, <2>2 DEF Owners, Restated
  <2>. QED BY ZenonT(30), <1>3, <1>8, <1>c, <2>3
<1>. QED BY <1>2, <1>4, <1>a, <1>b, <1>c DEF curr

\* RSTDAA keeps BusInv.
LEMMA RstdaaBus ==
    ASSUME BusInv, ccc_rstdaa_all
    PROVE  Owners' /\ Distinct' /\ Walking'
<1>1. Walking'
    BY ZenonT(30), NotWalking DEF ccc_rstdaa_all, walk
<1>2. \A i \in Ents : devices[i].addr # 0
    BY AddrOfEntry, AddrsArePositive DEF BusInv, TableInv
<1>a. CASE held' = [t \in Targets |-> 0] /\ commit_rstdaa
  <2>1. Restated
      BY <1>a, AllRestated DEF commit_rstdaa, BusInv
  <2>2. \A t \in Targets : held'[t] = 0
      BY <1>a
  <2>. QED BY <1>1, <1>2, <2>1, <2>2 DEF Owners, Distinct, Restated
<1>b. CASE UNCHANGED <<devices, held>>
    BY <1>1, <1>b, QuietBus
<1>c. CASE /\ \E deaf \in SUBSET Targets : held' = [t \in Targets |-> IF t \in deaf THEN held[t] ELSE 0]
           /\ mark_rstdaa_unknown
  <2>1. Restated /\ \A i \in Ents : devices[i].kind = "I3c" => devices'[i].da_state = "Unknown"
      BY <1>c, AllRestated DEF mark_rstdaa_unknown, BusInv
  <2>2. \A t \in Targets : held'[t] # 0 => held'[t] = held[t]
      BY <1>c
  <2>3. Distinct'
      BY <2>2 DEF BusInv, Distinct
  <2>4. ASSUME NEW i \in Ents, NEW t \in Targets, held'[t] = devices'[i].addr
        PROVE  devices'[i].da_state = "Unknown"
    <3>1. held[t] = devices[i].addr
        BY <1>2, <2>1, <2>2, <2>4 DEF Restated
    <3>2. devices[i] \in Entry
        BY DEF BusInv, TableInv, Shape, Ents
    <3>3. devices[i].kind \in {"I3c", "I2c"}
        BY ZenonT(30), <3>2 DEF Entry
    <3>4. devices[i].kind = "I2c" => devices[i].da_state = "Unassigned"
        BY ZenonT(30) DEF BusInv, TableInv, Kinds
    <3>5. devices[i].kind = "I3c"
        BY ZenonT(30), <3>1, <3>3, <3>4 DEF BusInv, Owners
    <3>. QED BY ZenonT(30), <2>1, <3>5
  <2>5. Owners'
      BY ZenonT(30), <2>1, <2>4 DEF Owners, Restated
  <2>. QED BY <1>1, <2>3, <2>5
<1>. QED BY <1>a, <1>b, <1>c DEF ccc_rstdaa_all

\* An empty table satisfies BusInv.
LEMMA BusInit == Init => BusInv
<1>. SUFFICES ASSUME Init PROVE BusInv
    OBVIOUS
<1>1. Ents = {} /\ pc = "idle" /\ \A t \in Targets : held[t] = 0
    BY DEF Init, Ents
<1>. QED BY <1>1, TableInit DEF BusInv, Owners, Distinct, Walking, Trying, Moved

\* Every step of a caller that resets keeps BusInv.
LEMMA BusStep == CallerResets /\ CallerKnowsBus /\ BusInv /\ [Next]_vars => BusInv'
<1>. SUFFICES ASSUME CallerResets, CallerKnowsBus, BusInv, [Next]_vars PROVE BusInv'
    OBVIOUS
<1>1. TableInv'
    BY TableStep DEF BusInv
<1>2. Owners' /\ Distinct' /\ Walking'
  <2>1. CASE attach_i3c_dev
    <3>1. PICK w \in Wanted, s \in Slots : Attach("I3c", w[1], w[2], s)
        BY <2>1 DEF attach_i3c_dev
    <3>2. w[2] \in Addrs
        BY DaaAssumption
    <3>. QED BY <3>1, <3>2, AttachBus
  <2>2. CASE attach_i2c_dev
    <3>1. PICK a \in Legacy, s \in Slots : Attach("I2c", NoPid, a, s)
        BY <2>2 DEF attach_i2c_dev
    <3>2. a \in Addrs
        BY DaaAssumption
    <3>. QED BY <3>1, <3>2, AttachBus
  <2>3. CASE detach_i3c_dev
    <3>1. PICK s \in Slots : by_pos[s] # 0 /\ Detach(by_pos[s])
        BY ZenonT(30), <2>3 DEF detach_i3c_dev
    <3>2. by_pos[s] \in Ents
        BY <3>1 DEF BusInv, TableInv, MapsAgree
    <3>. QED BY <3>1, <3>2, DetachBus
  <2>4. CASE detach_i3c_dev_by_idx
      BY <2>4, DetachBus DEF detach_i3c_dev_by_idx, Ents
  <2>5. CASE Walk
      BY ZenonT(30), <2>5, DoneBus, SkipBus, EntdaaBus, GetpidBus, OwnBus, WinnerMoves, VerifyBus, ParkBus DEF Walk
  <2>6. CASE Assign
      BY <2>6, AssignBus, AssignGetpidBus, AssignVerifyBus DEF Assign
  <2>7. CASE UNCHANGED vars
    <3>1. UNCHANGED <<devices, by_pos, held, pc, need, pos, who>>
        BY <2>7 DEF vars, table, walk
    <3>. QED BY <3>1, QuietBus, ZenonT(30) DEF BusInv, Walking, Here, OwnerOf, Ents
  <2>. QED BY ZenonT(30), <2>1, <2>2, <2>3, <2>4, <2>5, <2>6, <2>7, ReinitBus, SetnewdaBus, RstdaaBus,
              StartBus, LeaveBus DEF Next
<1>. QED BY <1>1, <1>2 DEF BusInv

\* BusInv holds for ever under a caller that resets and knows its bus.
LEMMA BusAlways == ASSUME CallerResets, CallerKnowsBus PROVE Spec => []BusInv
<1>1. BusInv /\ [Next]_vars => BusInv'
    BY BusStep
<1>. QED BY <1>1, BusInit, PTL DEF Spec

\* When unknown owners are cleared by RSTDAA before the next walk, and the caller detaches
\* no device that still answers and assigns only to I3C devices, no two targets ever
\* answer to one address and none to that of an I2C device, for any number of targets,
\* slots and addresses (bus_daa, assign_dynamic_address, ccc_setnewda).
THEOREM NoSharedAddressAlways == ASSUME CallerResets, CallerKnowsBus PROVE Spec => []NoSharedAddress
<1>1. BusInv => NoSharedAddress
  <2>. SUFFICES ASSUME BusInv PROVE NoSharedAddress
      OBVIOUS
  <2>1. ASSUME NEW i \in Ents, devices[i].kind = "I2c" PROVE Holders(devices[i].addr) = {}
    <3>1. devices[i].da_state = "Unassigned"
        BY ZenonT(30), <2>1 DEF BusInv, TableInv, Kinds
    <3>. QED BY <3>1 DEF BusInv, Owners, Holders
  <2>. QED BY <2>1 DEF NoSharedAddress, BusInv, Distinct, Ents
<1>. QED BY <1>1, BusAlways, PTL

\* Under the same discipline a transfer routed by PID reaches that target or nobody,
\* however entries were detached and re-indexed (priv_xfer, Attached::pos_of_pid).
THEOREM RightTargetAlways == ASSUME CallerResets, CallerKnowsBus PROVE Spec => []RightTarget
<1>1. BusInv => RightTarget
  <2>. SUFFICES ASSUME BusInv, NEW i \in Ents, devices[i].da_state = "Verified", ~xfer_faulted
                PROVE  \E s \in Slots : by_pos[s] = i /\ Holders(dat[s]) \subseteq {devices[i].pid}
      BY ZenonT(30) DEF RightTarget, Ents
  <2>1. devices[i] \in Entry
      BY DEF BusInv, TableInv, Shape, Ents
  <2>2. devices[i].pos \in Slots
      BY ZenonT(30), <2>1 DEF Entry
  <2>3. by_pos[devices[i].pos] = i /\ dat[devices[i].pos] = devices[i].addr
      BY ZenonT(30) DEF BusInv, TableInv, MapsAgree
  <2>4. Holders(devices[i].addr) \subseteq {devices[i].pid}
      BY ZenonT(30) DEF BusInv, Owners, Holders
  <2>. QED BY ZenonT(30), <2>2, <2>3, <2>4
<1>. QED BY <1>1, BusAlways, PTL

\* Under the same discipline a walk that has run out of slots to serve has verified every
\* attached I3C device (the success path of bus_daa).
THEOREM WalkCoversAllAlways == ASSUME CallerResets, CallerKnowsBus PROVE Spec => []WalkCoversAll
<1>1. BusInv => WalkCoversAll
  <2>. SUFFICES ASSUME BusInv, pc = "walk", need = {}, NEW i \in Ents, devices[i].kind = "I3c"
                PROVE  devices[i].da_state = "Verified"
      BY ZenonT(30) DEF WalkCoversAll, Ents
  <2>1. devices[i].da_state # "Unknown" /\ devices[i].da_state # "Unassigned"
      BY DEF BusInv, Walking
  <2>2. devices[i] \in Entry
      BY DEF BusInv, TableInv, Shape, Ents
  <2>. QED BY <2>1, <2>2 DEF Entry
<1>. QED BY <1>1, BusAlways, PTL

=============================================================================
