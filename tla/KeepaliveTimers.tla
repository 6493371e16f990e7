--------------------------- MODULE KeepaliveTimers ---------------------------
(***************************************************************************)
(* The timers of struct keepalive_info and the three functions of          *)
(* mainloop.c that read them.  A connection (CSTP or DTLS) keeps four      *)
(* timestamps in seconds; each pass of the main loop asks                  *)
(* keepalive_action what is due, and the deadlines that are not yet due    *)
(* shorten the timeout of the select() that ends the pass (in seconds).    *)
(***************************************************************************)
EXTENDS Integers

CONSTANTS
    Dpd,        \* ka->dpd: dead peer detection period, 0 when off
    Keepalive,  \* ka->keepalive: keepalive period, 0 when off
    Rekey,      \* ka->rekey: rekey period, 0 stands for REKEY_NONE
    Never       \* INT_MAX: the timeout of a pass that found no deadline

ASSUME TimerAssumption ==
    /\ Dpd \in Nat
    /\ Keepalive \in Nat
    /\ Rekey \in Nat
    /\ Never \in Nat

\* The timestamps of struct keepalive_info that change while connected.
Timers == [last_rx : Nat, last_tx : Nat, last_dpd : Nat, last_rekey : Nat]

-----------------------------------------------------------------------------
\* Mutant: a quarter of the period, which is 0 for the shortest one.
ProbeDueQuarter(ka) ==
    IF ka.last_dpd > ka.last_rx THEN ka.last_dpd + Dpd \div 4
                                ELSE ka.last_rx + Dpd

\* Mutant: a probe is repeated after a whole period.
ProbeDueWhole(ka) ==
    IF ka.last_dpd > ka.last_rx THEN ka.last_dpd + Dpd ELSE ka.last_rx + Dpd

\* When the next probe goes out: dpd seconds after the peer was heard, or half
\* the period after an unanswered probe (integer division, as in C).
ProbeDue(ka) ==
    IF ka.last_dpd > ka.last_rx THEN ka.last_dpd + Dpd \div 2
                                ELSE ka.last_rx + Dpd

\* Mutant: the deadline moves with every probe.
OverdueFromProbe(ka) ==
    (IF ka.last_dpd > ka.last_rx THEN ka.last_dpd ELSE ka.last_rx) + 2 * Dpd

\* Mutant: dead after one period.
OverdueOnePeriod(ka) == ka.last_rx + Dpd

\* The last second at which an unanswered peer is still given a chance.
Overdue(ka) == ka.last_rx + 2 * Dpd

\* Mutant: the keepalive is forgotten.
KeepaliveIsNeverDue(ka, now) == FALSE

\* The tests, in the order in which keepalive_action makes them.
RekeyIsDue(ka, now) == Rekey > 0 /\ now >= ka.last_rekey + Rekey
PeerIsDead(ka, now) == Dpd > 0 /\ now > Overdue(ka)
ProbeIsDue(ka, now) == Dpd > 0 /\ now >= ProbeDue(ka)
KeepaliveIsDue(ka, now) == Keepalive > 0 /\ now >= ka.last_tx + Keepalive

\* What keepalive_action returns: the first of the tests above that holds.
keepalive_action(ka, now) ==
    IF RekeyIsDue(ka, now) THEN "KA_REKEY"
    ELSE IF PeerIsDead(ka, now) THEN "KA_DPD_DEAD"
    ELSE IF ProbeIsDue(ka, now) THEN "KA_DPD"
    ELSE IF KeepaliveIsDue(ka, now) THEN "KA_KEEPALIVE"
    ELSE "KA_NONE"

\* What ka_stalled_action returns, while a write is stuck in the socket.  The
\* comparison is >= here, through ka_check_deadline, and > in PeerIsDead.
ka_stalled_action(ka, now) ==
    IF RekeyIsDue(ka, now) THEN "KA_REKEY"
    ELSE IF Dpd > 0 /\ now >= Overdue(ka) THEN "KA_DPD_DEAD"
    ELSE "KA_NONE"

\* The fields the two functions write before they return act.
Acted(ka, act, now) ==
    CASE act = "KA_REKEY" -> [ka EXCEPT !.last_rekey = now]
      [] act = "KA_DPD" -> [ka EXCEPT !.last_dpd = now]
      [] OTHER -> ka

-----------------------------------------------------------------------------
\* ka_check_deadline shortens the timeout t to a deadline that is not yet due.
Sooner(t, wait) == IF wait < t THEN wait ELSE t

SoonerIf(on, t, wait) == IF on THEN Sooner(t, wait) ELSE t

\* Mutant: the keepalive deadline does not reach the timeout.
ShortenedNoKeepalive(ka, act, now, t) ==
    LET rekey == SoonerIf(Rekey > 0 /\ act # "KA_REKEY",
                          t, ka.last_rekey + Rekey - now)
    IN  SoonerIf(Dpd > 0 /\ act \in {"KA_KEEPALIVE", "KA_NONE"},
                 rekey, ProbeDue(ka) - now)

\* The timeout after keepalive_action returned act: a deadline counts only if
\* its test was reached and failed, so KA_DPD leaves out the keepalive.
Shortened(ka, act, now, t) ==
    LET rekey == SoonerIf(Rekey > 0 /\ act # "KA_REKEY",
                          t, ka.last_rekey + Rekey - now)
        probe == SoonerIf(Dpd > 0 /\ act \in {"KA_KEEPALIVE", "KA_NONE"},
                          rekey, ProbeDue(ka) - now)
    IN  SoonerIf(Keepalive > 0 /\ act = "KA_NONE",
                 probe, ka.last_tx + Keepalive - now)

\* Mutant: a stalled write waits for the socket alone.
ShortenedStalledNoDpd(ka, now, t) ==
    SoonerIf(Rekey > 0, t, ka.last_rekey + Rekey - now)

\* The timeout after ka_stalled_action returned KA_NONE.
ShortenedStalled(ka, now, t) ==
    SoonerIf(Dpd > 0, SoonerIf(Rekey > 0, t, ka.last_rekey + Rekey - now),
             Overdue(ka) - now)

\* A connection just made: every clock but last_dpd starts again.
Restarted(ka, now) ==
    [ka EXCEPT !.last_rx = now, !.last_tx = now, !.last_rekey = now]
=============================================================================
