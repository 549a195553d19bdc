----------------------------- MODULE RouteDrain -----------------------------
(***************************************************************************)
(* How handle_route_events empties the route socket: receives of up to     *)
(* slots packets until the socket is empty or the budget is used up, a     *)
(* ring that grows with full receives and shrinks after calm drains, and   *)
(* the budget of the next drain adapted by RouteBudgetState::update.       *)
(* AddrSync has the effect on the pending map; packets are only counted    *)
(* here.                                                                   *)
(***************************************************************************)
EXTENDS Integers

CONSTANTS
    MinBudget, DefaultBudget, MaxBudget,    \* ROUTE_DRAIN_*_BUDGET
    MinSlots, MaxSlots,                     \* ROUTE_RING_*_SLOTS
    FullLimit, LowLimit, CalmLimit,         \* streaks that trigger a change
    StreakMax,                              \* streaks saturate (u8::MAX)
    QueueMax                                \* bound: packets on the socket

ASSUME DrainAssumption ==
    /\ MinSlots \in Nat \ {0, 1} /\ MaxSlots \in Nat /\ MinSlots <= MaxSlots
    /\ MinBudget \in Nat /\ DefaultBudget \in Nat /\ MaxBudget \in Nat
    /\ MaxSlots <= MinBudget /\ MinBudget <= DefaultBudget /\ DefaultBudget <= MaxBudget
    /\ FullLimit \in Nat \ {0} /\ LowLimit \in Nat \ {0} /\ CalmLimit \in Nat \ {0}
    /\ StreakMax \in Nat
    /\ FullLimit <= StreakMax /\ LowLimit <= StreakMax /\ CalmLimit <= StreakMax
    /\ QueueMax \in Nat

VARIABLES
    queue,                              \* packets on the route socket
    current, full_streak, low_streak,   \* RouteBudgetState
    slots, route_ring_calm_streak,      \* the receive ring
    draining,                           \* inside handle_route_events
    packets_left, processed_packets, full,   \* its locals
    lost                                \* packets this drain received and never
                                        \* looked at, counted up to MaxSlots

budget     == <<current, full_streak, low_streak>>
ring       == <<slots, route_ring_calm_streak>>
drain_vars == <<queue, budget, ring, draining, packets_left, processed_packets, full, lost>>

Smaller(a, b) == IF a < b THEN a ELSE b
Larger(a, b)  == IF a > b THEN a ELSE b
Raised(streak) == Smaller(streak + 1, StreakMax)    \* saturating_add(1)

DrainInit ==
    /\ queue = 0
    /\ current = DefaultBudget /\ full_streak = 0 /\ low_streak = 0
    /\ slots = MinSlots /\ route_ring_calm_streak = 0
    /\ draining = FALSE
    /\ packets_left = 0 /\ processed_packets = 0
    /\ full = FALSE
    /\ lost = 0

-----------------------------------------------------------------------------
\* The kernel queues another packet, also while the handler runs.
PacketArrives ==
    /\ queue < QueueMax
    /\ queue' = queue + 1
    /\ UNCHANGED <<budget, ring, draining, packets_left, processed_packets, full, lost>>

begin_drain ==
    /\ ~draining
    /\ queue > 0
    /\ draining' = TRUE
    /\ packets_left' = current
    /\ processed_packets' = 0
    /\ full' = FALSE
    /\ lost' = 0
    /\ UNCHANGED <<queue, budget, ring>>

\* Mutant: the loop only stops when the socket is empty.
DrainUntilEmpty == draining /\ queue > 0

\* The loop goes on: budget is left and the receive finds packets.
DrainMore == draining /\ packets_left > 0 /\ queue > 0

\* One receive.  The ring grows before the packets are looked at; packets
\* beyond the budget are left in the ring, which the next receive overwrites.
receive ==
    LET count == Smaller(queue, slots)
        seen  == Smaller(count, packets_left)
    IN /\ DrainMore
       /\ queue' = queue - count
       /\ slots' = IF count = slots THEN Larger(slots, Smaller(2 * slots, MaxSlots)) ELSE slots
       /\ packets_left' = packets_left - seen
       /\ processed_packets' = processed_packets + seen
       /\ lost' = Smaller(lost + (count - seen), MaxSlots)
       /\ full' = (full \/ count = slots \/ seen < count)
       /\ UNCHANGED <<budget, route_ring_calm_streak, draining>>

\* RouteBudgetState::update
update(processed, budget_hit) ==
    LET low == processed <= Larger(current \div 4, 1)
        up  == Raised(full_streak)
        dn  == Raised(low_streak)
    IN \/ /\ budget_hit
          /\ low_streak' = 0
          /\ full_streak' = IF up >= FullLimit THEN 0 ELSE up
          /\ current' = IF up >= FullLimit THEN Smaller(2 * current, MaxBudget) ELSE current
       \/ /\ ~budget_hit /\ low
          /\ full_streak' = 0
          /\ low_streak' = IF dn >= LowLimit THEN 0 ELSE dn
          /\ current' = IF dn >= LowLimit THEN Larger(current \div 2, MinBudget) ELSE current
       \/ /\ ~budget_hit /\ ~low
          /\ low_streak' = 0 /\ full_streak' = 0
          /\ current' = current

\* Mutant: the ring shrinks after any drain that would fit it.
CalmWhenItFits ==
    LET calm   == processed_packets <= slots
        streak == Raised(route_ring_calm_streak)
        shrink == calm /\ streak >= CalmLimit /\ slots > MinSlots
    IN /\ slots' = IF shrink THEN Larger(slots \div 2, MinSlots) ELSE slots
       /\ route_ring_calm_streak' = IF calm /\ ~shrink THEN streak ELSE 0

\* The ring shrinks after CalmLimit drains that used a quarter of it.
calm_ring ==
    LET calm   == processed_packets <= Larger(slots \div 4, 1)
        streak == Raised(route_ring_calm_streak)
        shrink == calm /\ streak >= CalmLimit /\ slots > MinSlots
    IN /\ slots' = IF shrink THEN Larger(slots \div 2, MinSlots) ELSE slots
       /\ route_ring_calm_streak' = IF calm /\ ~shrink THEN streak ELSE 0

end_drain ==
    /\ draining
    /\ packets_left = 0 \/ queue = 0
    /\ draining' = FALSE
    /\ update(processed_packets, full)
    /\ calm_ring
    /\ UNCHANGED <<queue, packets_left, processed_packets, full, lost>>

\* The steps of handle_route_events.
DrainLoop == begin_drain \/ receive \/ end_drain

DrainNext == PacketArrives \/ DrainLoop

DrainSpec == DrainInit /\ [][DrainNext]_drain_vars

\* The thread keeps running, however fast packets arrive.
FairDrainSpec == DrainSpec /\ WF_drain_vars(DrainLoop)

-----------------------------------------------------------------------------
(* Properties.                                                              *)

\* Budget and ring stay within their configured ranges, and no drain uses more
\* than its budget (RouteBudgetState::update, ensure_slots, shrink_slots).
DrainTypeOK ==
    /\ queue \in 0 .. QueueMax
    /\ current \in MinBudget .. MaxBudget
    /\ full_streak \in 0 .. FullLimit - 1 /\ low_streak \in 0 .. LowLimit - 1
    /\ slots \in MinSlots .. MaxSlots
    /\ route_ring_calm_streak \in 0 .. StreakMax
    /\ draining \in BOOLEAN
    /\ packets_left \in 0 .. MaxBudget /\ processed_packets \in 0 .. MaxBudget
    /\ full \in BOOLEAN
    /\ lost \in 0 .. MaxSlots

\* A drain that runs out of budget in the middle of a receive loses less than
\* one ring of packets, and loses them only then: whatever arrives meanwhile,
\* nothing more is received once the budget is used up (the while condition of
\* handle_route_events against the break in its for loop).
LossIsBounded == /\ lost < MaxSlots
                 /\ lost > 0 => packets_left = 0 /\ full

\* A drain that filled the ring never ends by shrinking it: growth and shrinking
\* do not fight, although the ring grows in the middle of a drain and the calm
\* test at its end already uses the new size.
FullRingIsKept == [][draining /\ ~draining' /\ full => slots' = slots]_drain_vars

\* handle_route_events returns although packets never stop arriving, so signals
\* and acknowledgements get their turn (the drain budget).
DrainEnds == draining ~> ~draining
=============================================================================
