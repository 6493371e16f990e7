-------------------------------- MODULE Relay --------------------------------
(***************************************************************************)
(* What the data path promises, without queues, channels or compression:   *)
(* packets are taken from the tun device in order; each one taken is       *)
(* carried until it is either passed on to the gateway, once, or given up. *)
(***************************************************************************)
EXTENDS Integers

VARIABLES
    next,     \* the next packet of the tun device
    carried,  \* packets taken and not yet passed on
    passed,   \* packets passed on
    lost      \* packets given up

vars == <<next, carried, passed, lost>>

Init == next = 1 /\ carried = {} /\ passed = {} /\ lost = {}

\* Some more packets are taken.
Take ==
    /\ next' > next
    /\ carried' = carried \cup next..(next' - 1)
    /\ UNCHANGED <<passed, lost>>

\* One packet is passed on.
PassOn(p) ==
    /\ carried' = carried \ {p} /\ passed' = passed \cup {p}
    /\ UNCHANGED <<next, lost>>

\* One packet is given up.
Lose(p) ==
    /\ carried' = carried \ {p} /\ lost' = lost \cup {p}
    /\ UNCHANGED <<next, passed>>

Next == Take \/ \E p \in carried : PassOn(p) \/ Lose(p)

Spec == Init /\ [][Next]_vars
=============================================================================
