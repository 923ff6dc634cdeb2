------------------------------- MODULE IbiRing -------------------------------
(***************************************************************************)
(* The per-bus ring of in-band interrupt work items of                     *)
(* target/ast10x0/peripherals/i3c/ibi.rs.  The interrupt handler pushes,   *)
(* the driver's loop pops; each call runs in a critical section, so it is  *)
(* one step.  A work item is the number of the event it reports.           *)
(***************************************************************************)
EXTENDS Integers, Sequences

CONSTANT IBIQ_DEPTH

ASSUME DepthAssumption == IBIQ_DEPTH \in Nat \ {0}

None == 0             \* an empty slot, and what pop returns from an empty ring
Overflow == -1        \* IbiWork::Overflow

Slots == 0..IBIQ_DEPTH - 1

Ring == [buf : [Slots -> Nat], head : Slots, len : 0..IBIQ_DEPTH,
         overflowed : BOOLEAN]

EmptyRing == [buf |-> [i \in Slots |-> None], head |-> 0, len |-> 0,
              overflowed |-> FALSE]

\* Mutant of push: the oldest item is dropped without a trace.
push_silently(r, work) ==
    LET full == r.len >= IBIQ_DEPTH
        h == IF full THEN (r.head + 1) % IBIQ_DEPTH ELSE r.head
        l == IF full THEN IBIQ_DEPTH - 1 ELSE r.len
    IN  [r EXCEPT !.buf[(h + l) % IBIQ_DEPTH] = work, !.head = h, !.len = l + 1]

\* A full ring gives up its oldest item and remembers that it did.
push(r, work) ==
    LET full == r.len >= IBIQ_DEPTH
        h == IF full THEN (r.head + 1) % IBIQ_DEPTH ELSE r.head
        l == IF full THEN IBIQ_DEPTH - 1 ELSE r.len
    IN  [buf |-> [r.buf EXCEPT ![(h + l) % IBIQ_DEPTH] = work],
         head |-> h, len |-> l + 1, overflowed |-> r.overflowed \/ full]

\* What pop returns, and the ring it leaves: the overflow is told first.
popped(r) ==
    IF r.overflowed THEN Overflow ELSE IF r.len = 0 THEN None ELSE r.buf[r.head]

pop(r) ==
    IF r.overflowed THEN [r EXCEPT !.overflowed = FALSE]
    ELSE IF r.len = 0 THEN r
    ELSE [r EXCEPT !.buf[r.head] = None, !.head = (r.head + 1) % IBIQ_DEPTH,
                   !.len = r.len - 1]

\* The handler's loop over the events of the hardware's queue.
PushAll(r, works) ==
    LET upto[k \in 0..Len(works)] == IF k = 0 THEN r ELSE push(upto[k - 1], works[k])
    IN  upto[Len(works)]

\* The items of the ring, oldest first.
Items(r) == [i \in 1..r.len |-> r.buf[(r.head + i - 1) % IBIQ_DEPTH]]
====
