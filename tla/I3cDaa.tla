------------------------------- MODULE I3cDaa -------------------------------
(***************************************************************************)
(* Dynamic addresses of an I3C bus, as its primary controller manages them *)
(* (target/ast10x0/peripherals/i3c: controller.rs, config.rs, ccc.rs): the *)
(* table of attached devices, the address book, the device address table   *)
(* (DAT) of the hardware, and the operations that move targets between     *)
(* addresses.  A target is known by its PID.  Each bus transfer is one     *)
(* step; the targets may lose power between any two.                       *)
(*                                                                         *)
(* External, modelled from how the driver uses it: the targets and the     *)
(* address each of them answers to.  A transfer that fails with Timeout or *)
(* RespError may or may not have reached its target; a target that answers *)
(* to an address acknowledges a broadcast.                                 *)
(***************************************************************************)
EXTENDS Integers, Sequences, FiniteSets

CONSTANTS
    Targets,         \* the I3C targets on the bus, by PID
    NoPid,           \* the pid of an I2C device
    Addrs,           \* the addresses that are not reserved
    NSlots,          \* DAT positions (MAX_DEVICES_PER_BUS)
    Wanted,          \* the devices the platform attaches: <<pid, address>>
    Legacy,          \* static addresses of the I2C devices it attaches
    LAPS,            \* steps of a walk per DAT position (8 in bus_daa)
    CallerResets,    \* the caller clears unknown owners before the next walk
    CallerKnowsBus   \* it detaches only what is gone, assigns only to I3C devices

ASSUME DaaAssumption ==
    /\ NoPid \notin Targets
    /\ Addrs \subseteq Nat \ {0} /\ Legacy \subseteq Addrs
    /\ NSlots \in Nat \ {0} /\ LAPS \in Nat \ {0}
    /\ Wanted \subseteq Targets \X Addrs
    /\ CallerResets \in BOOLEAN /\ CallerKnowsBus \in BOOLEAN

VARIABLES
    devices,         \* Attached::devices
    by_pos,          \* Attached::by_pos, 0 for None
    in_use,          \* AddrBook::in_use
    dat,             \* hardware: the address in each DAT position, 0 for none
    xfer_faulted,
    held,            \* bus: the address each target answers to, 0 for none
    pc,              \* where an operation of several transfers is
    need, pos, budget,
    who              \* the PID that GETPID returned

table == <<devices, by_pos, in_use, dat>>
walk == <<pc, need, pos, budget, who>>
vars == <<table, xfer_faulted, held, walk>>

Slots == 0..NSlots - 1

Entry == [kind : {"I3c", "I2c"}, pid : Targets \cup {NoPid}, addr : Addrs, pos : Slots,
          da_state : {"Unassigned", "Verified", "Unknown"}]

Pcs == {"idle", "walk", "getpid", "own", "move", "verify", "verify_lost", "park",
        "assign_pid", "assign_bcr"}

TypeOK ==
    /\ devices \in Seq(Entry)
    /\ by_pos \in [Slots -> 0..NSlots]
    /\ in_use \subseteq Addrs
    /\ dat \in [Slots -> Addrs \cup {0}]
    /\ xfer_faulted \in BOOLEAN
    /\ held \in [Targets -> Addrs \cup {0}]
    /\ pc \in Pcs /\ need \subseteq Slots /\ pos \in Slots
    /\ budget \in 0..LAPS * NSlots /\ who \in Targets \cup {NoPid}

\* A controller that start() has brought up, and a bus nobody has addressed.
Init ==
    /\ devices = <<>> /\ by_pos = [s \in Slots |-> 0] /\ in_use = {}
    /\ dat = [s \in Slots |-> 0] /\ xfer_faulted = FALSE
    /\ held = [t \in Targets |-> 0]
    /\ pc = "idle" /\ need = {} /\ pos = 0 /\ budget = 0 /\ who = NoPid

-----------------------------------------------------------------------------
(* The bus.                                                                *)

Holders(a) == {t \in Targets : held[t] = a}

\* Some target without an address wins the arbitration and latches DAT[s].
Latch(s) == \E t \in Holders(0) : held' = [held EXCEPT ![t] = dat[s]]

\* SETNEWDA reaches whoever answers to a.
Move(a, b) == held' = [t \in Targets |-> IF held[t] = a THEN b ELSE held[t]]

\* A target loses power, or resets, and forgets its address.
Leave ==
    /\ \E t \in Targets : held[t] # 0 /\ held' = [held EXCEPT ![t] = 0]
    /\ UNCHANGED <<table, xfer_faulted, walk>>

-----------------------------------------------------------------------------
(* config.rs                                                               *)

is_free(a) == a \in Addrs \ in_use

\* alloc_from: the lowest free address.
alloc_from == CHOOSE a \in Addrs \ in_use : \A b \in Addrs \ in_use : a <= b

Marked(i, st) == [devices EXCEPT ![i].da_state = st]

\* Mutant of mark_da_unknown: the address the target may have moved to stays free.
mark_da_unknown_only(i, candidates) ==
    /\ devices' = Marked(i, "Unknown")
    /\ in_use' = in_use \cup {devices[i].addr}

\* Nothing is recorded of an I2C device.
mark_da_unknown(i, candidates) ==
    IF devices[i].kind = "I3c"
    THEN /\ devices' = Marked(i, "Unknown")
         /\ in_use' = in_use \cup {devices[i].addr} \cup candidates
    ELSE UNCHANGED <<devices, in_use>>

\* Attached::detach removes the entry and shifts the indices behind it.
detach(i) ==
    /\ devices' = [j \in 1..Len(devices) - 1 |-> devices[IF j < i THEN j ELSE j + 1]]
    /\ by_pos' = [s \in Slots |-> IF s = devices[i].pos THEN 0
                                 ELSE IF by_pos[s] > i THEN by_pos[s] - 1 ELSE by_pos[s]]

Reserved(devs) == {devs[i].addr : i \in DOMAIN devs}

\* What an ambiguous RSTDAA, and a confirmed one, leave in the table.
mark_rstdaa_unknown ==
    /\ devices' = [i \in DOMAIN devices |->
                     IF devices[i].kind = "I3c" THEN [devices[i] EXCEPT !.da_state = "Unknown"]
                                               ELSE devices[i]]
    /\ in_use' = in_use \cup {devices[i].addr : i \in {j \in DOMAIN devices : devices[j].kind = "I3c"}}

commit_rstdaa ==
    /\ devices' = [i \in DOMAIN devices |->
                     IF devices[i].kind = "I3c" THEN [devices[i] EXCEPT !.da_state = "Unassigned"]
                                               ELSE devices[i]]
    /\ in_use' = Reserved(devices)

-----------------------------------------------------------------------------
(* Attaching and detaching.                                                *)

\* What the two kinds of attach have in common: the slot, the DAT, the tables.
Attach(kind, pid, a, s) ==
    /\ pc = "idle"
    /\ by_pos[s] = 0
    /\ is_free(a) /\ \A i \in DOMAIN devices : devices[i].addr # a
    /\ dat' = [dat EXCEPT ![s] = a]
    /\ devices' = Append(devices, [kind |-> kind, pid |-> pid, addr |-> a, pos |-> s,
                                   da_state |-> "Unassigned"])
    /\ by_pos' = [by_pos EXCEPT ![s] = Len(devices) + 1]
    /\ in_use' = in_use \cup {a}
    /\ UNCHANGED <<xfer_faulted, held, walk>>

attach_i3c_dev ==
    \E w \in Wanted, s \in Slots :
        /\ \A i \in DOMAIN devices : devices[i].pid # w[1]
        /\ Attach("I3c", w[1], w[2], s)

attach_i2c_dev == \E a \in Legacy, s \in Slots : Attach("I2c", NoPid, a, s)

\* The address is free again.  The driver does not ask whether somebody still answers
\* to it: a caller that knows the bus detaches what has left it, or lost its address.
Detach(i) ==
    /\ pc = "idle"
    /\ CallerKnowsBus => Holders(devices[i].addr) = {}
    /\ devices[i].da_state # "Unknown"
    /\ in_use' = in_use \ {devices[i].addr}
    /\ dat' = [dat EXCEPT ![devices[i].pos] = 0]
    /\ detach(i)
    /\ UNCHANGED <<xfer_faulted, held, walk>>

detach_i3c_dev == \E s \in Slots : by_pos[s] # 0 /\ Detach(by_pos[s])

detach_i3c_dev_by_idx == \E i \in DOMAIN devices : Detach(i)

\* hw.init clears the DAT with the core, and may fail; then it is rebuilt.
reinit ==
    /\ pc = "idle"
    /\ \/ /\ xfer_faulted' = FALSE
          /\ dat' = [s \in Slots |-> IF by_pos[s] = 0 THEN 0 ELSE devices[by_pos[s]].addr]
       \/ xfer_faulted' = TRUE /\ dat' = [s \in Slots |-> 0]
    /\ UNCHANGED <<devices, by_pos, in_use, held, walk>>

-----------------------------------------------------------------------------
(* Operations of one transfer.                                             *)

\* A transfer failed; the recovery of the engine may have failed as well.
Failed == xfer_faulted' \in {TRUE, xfer_faulted}

\* Only a verified target is moved, to a free address or its own.  Nobody answers, the
\* target moves (then its IBIs are enabled again, which may fail), or the outcome is lost.
ccc_setnewda ==
    /\ pc = "idle" /\ ~xfer_faulted
    /\ \E i \in DOMAIN devices, a \in Addrs :
          LET curr == devices[i].addr
              s == devices[i].pos
          IN  /\ devices[i].kind = "I3c" /\ devices[i].da_state = "Verified"
              /\ is_free(a) \/ a = curr
              /\ \/ Failed /\ UNCHANGED <<table, held>>
                 \/ /\ Holders(dat[s]) # {}
                    /\ Move(dat[s], a)
                    /\ dat' = [dat EXCEPT ![s] = a]
                    /\ in_use' = (in_use \ {curr}) \cup {a}
                    /\ devices' = [devices EXCEPT ![i].addr = a]
                    /\ Failed
                    /\ UNCHANGED by_pos
                 \/ /\ Move(dat[s], a) \/ UNCHANGED held
                    /\ mark_da_unknown(i, {a})
                    /\ Failed
                    /\ UNCHANGED <<by_pos, dat>>
    /\ UNCHANGED walk

\* Everybody hears the broadcast, it fails for sure, or it is lost on some.  One that
\* nobody acknowledges (IBA_NACK) succeeds too: there was no address left to reset.
ccc_rstdaa_all ==
    /\ pc = "idle" /\ ~xfer_faulted
    /\ \/ /\ held' = [t \in Targets |-> 0]
          /\ commit_rstdaa
          /\ UNCHANGED xfer_faulted
       \/ Failed /\ UNCHANGED <<devices, in_use, held>>
       \/ /\ \E deaf \in SUBSET Targets :
                held' = [t \in Targets |-> IF t \in deaf THEN held[t] ELSE 0]
          /\ mark_rstdaa_unknown
          /\ Failed
    /\ UNCHANGED <<by_pos, dat, walk>>

-----------------------------------------------------------------------------
(* bus_daa                                                                 *)

Here == by_pos[pos]                       \* provisional_idx
OwnerOf(pid) ==                           \* the first entry with that PID
    CHOOSE i \in DOMAIN devices :
        devices[i].pid = pid /\ \A j \in DOMAIN devices : devices[j].pid = pid => i <= j
NextPos == (pos + 1) % NSlots

Return == pc' = "idle" /\ need' = {} /\ pos' = 0 /\ budget' = 0 /\ who' = NoPid

\* The call returns an error.
Fail == Return /\ Failed

OnWalk == pc' = "walk" /\ who' = NoPid /\ UNCHANGED budget

bus_daa ==
    /\ pc = "idle"
    /\ CallerResets => \A i \in DOMAIN devices : devices[i].da_state # "Unknown"
    /\ need' = {devices[i].pos : i \in {j \in DOMAIN devices :
                    devices[j].kind = "I3c" /\ devices[j].da_state = "Unassigned"}}
    /\ pos' = 0 /\ budget' = LAPS * NSlots
    /\ pc' = "walk"
    /\ UNCHANGED <<table, xfer_faulted, held, who>>

WalkDone ==
    /\ pc = "walk" /\ (need = {} \/ budget = 0)
    /\ Return
    /\ UNCHANGED <<table, xfer_faulted, held>>

WalkSkip ==
    /\ pc = "walk" /\ budget > 0 /\ need # {} /\ pos \notin need
    /\ pos' = NextPos /\ budget' = budget - 1
    /\ UNCHANGED <<table, xfer_faulted, held, pc, need, who>>

\* Mutant of WalkEntdaa: a slot whose completion was lost is not marked.
WalkEntdaaForgets ==
    /\ pc = "walk" /\ budget > 0 /\ pos \in need
    /\ \/ /\ ~xfer_faulted /\ Latch(pos)
          /\ mark_da_unknown(Here, {})
          /\ pc' = "getpid" /\ budget' = budget - 1
          /\ UNCHANGED <<need, pos, who, xfer_faulted>>
       \/ Fail /\ UNCHANGED <<held, devices, in_use>>
       \/ ~xfer_faulted /\ Latch(pos) /\ Fail /\ UNCHANGED <<devices, in_use>>
    /\ UNCHANGED <<by_pos, dat>>

\* ENTDAA for the slot: somebody wins it, nobody answers, or the outcome is lost.
WalkEntdaa ==
    /\ pc = "walk" /\ budget > 0 /\ pos \in need
    /\ \/ /\ ~xfer_faulted /\ Latch(pos)
          /\ mark_da_unknown(Here, {})
          /\ pc' = "getpid" /\ budget' = budget - 1
          /\ UNCHANGED <<need, pos, who, xfer_faulted>>
       \/ Fail /\ UNCHANGED <<held, devices, in_use>>
       \/ /\ ~xfer_faulted
          /\ Latch(pos) \/ UNCHANGED held
          /\ mark_da_unknown(Here, {})
          /\ Fail
    /\ UNCHANGED <<by_pos, dat>>

\* GETPID at the slot's address tells who won it.
WalkGetpid ==
    /\ pc = "getpid"
    /\ \/ \E t \in Holders(dat[pos]) :
             /\ who' = t
             /\ pc' = IF \A i \in DOMAIN devices : devices[i].pid # t THEN "park"
                      ELSE IF devices[OwnerOf(t)].addr = devices[Here].addr THEN "own" ELSE "move"
             /\ UNCHANGED <<xfer_faulted, need, pos, budget>>
       \/ Fail
    /\ UNCHANGED <<table, held>>

\* GETBCR and GETDCR from the device that won its own slot.
WalkOwn ==
    /\ pc = "own"
    /\ \/ /\ Holders(dat[pos]) # {}
          /\ devices' = Marked(Here, "Verified")
          /\ need' = need \ {pos} /\ pos' = NextPos
          /\ OnWalk /\ UNCHANGED xfer_faulted
       \/ Fail /\ UNCHANGED devices
    /\ UNCHANGED <<by_pos, in_use, dat, held>>

\* SETNEWDA from the slot's address to the winner's own.
WalkMove ==
    LET owner == OwnerOf(who)
        expected == devices[owner].addr
    IN  /\ pc = "move"
        /\ \/ /\ Holders(dat[pos]) # {}
              /\ Move(dat[pos], expected)
              /\ devices' = [devices EXCEPT ![Here].da_state = "Unassigned",
                                            ![owner].da_state = "Unknown"]
              /\ pc' = "verify"
              /\ UNCHANGED <<xfer_faulted, need, pos, budget, who>>
           \/ /\ Move(dat[pos], expected) \/ UNCHANGED held
              /\ devices' = Marked(owner, "Unknown")
              /\ Failed
              /\ pc' = "verify_lost"
              /\ UNCHANGED <<need, pos, budget, who>>
           \/ Fail /\ UNCHANGED <<devices, held>>
        /\ UNCHANGED <<by_pos, in_use, dat>>

\* Mutant of WalkVerify: the slot that was tried counts as done with the winner's.
WalkVerifyBoth ==
    LET owner == OwnerOf(who)
    IN  /\ pc \in {"verify", "verify_lost"}
        /\ \/ /\ ~xfer_faulted /\ Holders(dat[devices[owner].pos]) # {}
              /\ devices' = [devices EXCEPT ![Here].da_state = "Unassigned",
                                            ![owner].da_state = "Verified"]
              /\ need' = need \ {pos, devices[owner].pos} /\ pos' = NextPos
              /\ OnWalk /\ UNCHANGED xfer_faulted
           \/ Fail /\ UNCHANGED devices
        /\ UNCHANGED <<by_pos, in_use, dat, held>>

\* GETBCR and GETDCR from the winner at its own address; after an ambiguous move
\* they also tell that the slot is free again, and it is retried for its owner.
WalkVerify ==
    LET owner == OwnerOf(who)
    IN  /\ pc \in {"verify", "verify_lost"}
        /\ \/ /\ ~xfer_faulted /\ Holders(dat[devices[owner].pos]) # {}
              /\ devices' = [devices EXCEPT ![Here].da_state = "Unassigned",
                                            ![owner].da_state = "Verified"]
              /\ need' = need \ {devices[owner].pos} /\ pos' = NextPos
              /\ OnWalk /\ UNCHANGED xfer_faulted
           \/ Fail /\ UNCHANGED devices
        /\ UNCHANGED <<by_pos, in_use, dat, held>>

\* A device nobody attached is parked on a fresh address.
WalkPark ==
    /\ pc = "park"
    /\ \/ /\ Addrs \ in_use = {}
          /\ Return /\ UNCHANGED <<devices, in_use, held, xfer_faulted>>
       \/ /\ Addrs \ in_use # {}
          /\ \/ /\ Holders(dat[pos]) # {}
                /\ Move(dat[pos], alloc_from)
                /\ in_use' = in_use \cup {alloc_from}
                /\ devices' = Marked(Here, "Unassigned")
                /\ OnWalk /\ UNCHANGED <<xfer_faulted, need, pos>>
             \/ /\ Move(dat[pos], alloc_from) \/ UNCHANGED held
                /\ mark_da_unknown(Here, {alloc_from})
                /\ Fail
             \/ Fail /\ UNCHANGED <<devices, in_use, held>>
    /\ UNCHANGED <<by_pos, dat>>

Walk ==
    \/ WalkDone \/ WalkSkip \/ WalkEntdaa \/ WalkGetpid \/ WalkOwn \/ WalkMove
    \/ WalkVerify \/ WalkPark

-----------------------------------------------------------------------------
(* assign_dynamic_address                                                  *)

\* ENTDAA for the device's slot, unless its address may be claimed already.
assign_dynamic_address ==
    /\ pc = "idle" /\ ~xfer_faulted
    /\ \E i \in DOMAIN devices :
          /\ CallerKnowsBus => devices[i].kind = "I3c"
          /\ \/ /\ devices[i].da_state # "Unassigned"
                /\ pc' = "assign_pid" /\ pos' = devices[i].pos
                /\ UNCHANGED <<devices, in_use, held, xfer_faulted>>
             \/ /\ devices[i].da_state = "Unassigned"
                /\ Latch(devices[i].pos)
                /\ mark_da_unknown(i, {})
                /\ pc' = "assign_pid" /\ pos' = devices[i].pos
                /\ UNCHANGED xfer_faulted
             \/ /\ devices[i].da_state = "Unassigned"
                /\ Failed
                /\ UNCHANGED <<devices, in_use, held, pc, pos>>
             \/ /\ devices[i].da_state = "Unassigned"
                /\ Latch(devices[i].pos) \/ UNCHANGED held
                /\ mark_da_unknown(i, {})
                /\ Failed
                /\ UNCHANGED <<pc, pos>>
    /\ UNCHANGED <<by_pos, dat, need, budget, who>>

\* Mutant of AssignGetpid: whoever answers is taken for the device.
AssignAnyPid ==
    /\ pc = "assign_pid"
    /\ \/ /\ Holders(dat[pos]) # {}
          /\ pc' = "assign_bcr" /\ who' = devices[Here].pid
          /\ UNCHANGED <<devices, xfer_faulted, need, pos, budget>>
       \/ Fail /\ UNCHANGED devices
    /\ UNCHANGED <<by_pos, in_use, dat, held>>

\* GETPID at the device's address: its own PID, or any for an entry that has none.
AssignGetpid ==
    /\ pc = "assign_pid"
    /\ \/ \E t \in Holders(dat[pos]) :
             \/ /\ devices[Here].pid \in {t, NoPid}
                /\ pc' = "assign_bcr" /\ who' = t
                /\ UNCHANGED <<devices, xfer_faulted, need, pos, budget>>
             \/ /\ devices[Here].pid \notin {t, NoPid}
                /\ devices' = Marked(Here, "Unknown")
                /\ Return /\ UNCHANGED xfer_faulted
       \/ Fail /\ UNCHANGED devices
    /\ UNCHANGED <<by_pos, in_use, dat, held>>

\* GETBCR and GETDCR; then IBIs are enabled, which may fail.
AssignVerify ==
    /\ pc = "assign_bcr"
    /\ \/ /\ Holders(dat[pos]) # {}
          /\ devices' = [devices EXCEPT ![Here].pid = who, ![Here].da_state = "Verified"]
          /\ Fail \/ (Return /\ UNCHANGED xfer_faulted)
       \/ Fail /\ UNCHANGED devices
    /\ UNCHANGED <<by_pos, in_use, dat, held>>

Assign == assign_dynamic_address \/ AssignGetpid \/ AssignVerify

Next ==
    \/ attach_i3c_dev \/ attach_i2c_dev \/ detach_i3c_dev \/ detach_i3c_dev_by_idx \/ reinit
    \/ ccc_setnewda \/ ccc_rstdaa_all \/ bus_daa \/ Walk \/ Assign \/ Leave

Spec == Init /\ [][Next]_vars

-----------------------------------------------------------------------------

\* Every address a target answers to, and every address of the table, is marked in
\* use: alloc_from and attach can never hand it out a second time, whatever transfers
\* were lost (mark_da_unknown: "The old and candidate addresses stay reserved").
HeldIsReserved ==
    /\ \A t \in Targets : held[t] # 0 => held[t] \in in_use
    /\ Reserved(devices) \subseteq in_use

\* No two targets answer to one address, and none to that of an I2C device, through
\* mis-assignments, lost completions and power losses (mark_da_unknown: neither
\* address is "handed to another target before the owner is verified").
NoSharedAddress ==
    /\ \A t, u \in Targets : held[t] # 0 /\ held[t] = held[u] => t = u
    /\ \A i \in DOMAIN devices : devices[i].kind = "I2c" => Holders(devices[i].addr) = {}

\* A private transfer to a verified PID goes to the DAT position its entry maps to,
\* and reaches that target or nobody (priv_xfer, Attached::pos_of_pid).
RightTarget ==
    \A i \in DOMAIN devices :
        devices[i].da_state = "Verified" /\ ~xfer_faulted =>
            \E s \in Slots : by_pos[s] = i /\ Holders(dat[s]) \subseteq {devices[i].pid}

\* bus_daa reports success only when every attached I3C device has been verified,
\* its own or another's slot having been won in any order (doc of bus_daa: "only when
\* every attached device that needed an address was verified").
WalkCoversAll ==
    pc = "walk" /\ need = {} =>
        \A i \in DOMAIN devices : devices[i].kind = "I3c" => devices[i].da_state = "Verified"
====
