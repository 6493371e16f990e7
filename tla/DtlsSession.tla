----------------------------- MODULE DtlsSession -----------------------------
(***************************************************************************)
(* The life of the DTLS channel (dtls.c) and its clocks: handshakes that   *)
(* are given HandshakeTimeout seconds, sleep between attempts, DPD and     *)
(* keepalive once connected, rekeying, and the two ways in which the rest  *)
(* of the program closes it: a CSTP reconnect and a pause command.         *)
(*                                                                         *)
(* A pass of openconnect_mainloop goes from "dtls" (dtls_mainloop) through *)
(* "decide" (its switch on keepalive_action) and "drain" (its send loop)   *)
(* to "cstp" (cstp_mainloop, tun_mainloop and the commands), and sleeps if *)
(* no work was done.  A pass takes no time here, with one exception: when  *)
(* CSTP connects again the loop is held up in "reconnect" (cstp_reconnect) *)
(* for any time, and DTLS is neither read nor probed nor given up          *)
(* meanwhile.  CstpTimers has passes with slack.  CSTP's own deadlines     *)
(* bound every sleep by Other.  Datagrams may be lost: up to MaxLost       *)
(* probes between two packets heard.                                       *)
(***************************************************************************)
EXTENDS Integers

CONSTANTS
    Dpd,               \* dtls_times.dpd, keepalive and rekey, and INT_MAX
    Keepalive,
    Rekey,
    Never,
    MaxTime,           \* bound on the clock
    MaxQueue,          \* vpninfo->max_qlen
    HandshakeTimeout,  \* 12 in dtls_try_handshake
    Period,            \* the dtls_attempt_period given to openconnect_setup_dtls
    Methods,           \* the values of dtls_times.rekey_method to consider
    Other,             \* the longest sleep CSTP's own deadlines allow
    Rtt,               \* a live server answers a probe it gets within Rtt seconds
    MaxLost            \* probes (or answers) lost in a row

ASSUME DtlsAssumption ==
    /\ {Dpd, Keepalive, Rekey, Never} \subseteq Nat
    /\ {MaxTime, MaxQueue, HandshakeTimeout, Period, Other, Rtt, MaxLost} \subseteq Nat
    /\ Methods \subseteq {"NONE", "TUNNEL", "SSL"}
    /\ Rekey = 0 => Methods = {"NONE"}

VARIABLES
    now,         \* time(NULL)
    dtls_state,  \* vpninfo->dtls_state
    dtls_open,   \* dtls_ssl is not NULL and dtls_fd is not -1
    started,     \* vpninfo->new_dtls_started
    period,      \* vpninfo->dtls_attempt_period
    ka,          \* vpninfo->dtls_times, without
    method,      \* dtls_times.rekey_method, as the gateway chose it
    pc,          \* where the loop is
    timeout,     \* seconds select() will sleep, or still has to sleep
    work,        \* did_work
    cstp_up,     \* vpninfo->ssl_fd is not -1
    queued,      \* vpninfo->outgoing_qlen
    rx,          \* a datagram waits in the socket
    alive,       \* the server still has this DTLS session
    answer,      \* latest arrival of the answer to a probe, or Never
    lost,        \* probes lost since the server was last heard
    held,        \* history: seconds that CSTP reconnects held the loop up since the
                 \* channel was last heard, or since its handshake began
    wronged      \* history: a server that answers was declared dead on a channel that
                 \* no CSTP reconnect had held up

\* The timers of a channel that rekeys, or does not (REKEY_NONE).
INSTANCE KeepaliveTimers WITH Rekey <- (IF method = "NONE" THEN 0 ELSE Rekey)

channel == <<dtls_state, dtls_open, started, period, ka, method>>
loop == <<pc, timeout, work, cstp_up>>
net == <<rx, alive, answer, lost>>
vars == <<now, channel, loop, queued, net, held, wronged>>

TypeOK ==
    /\ now \in Nat
    /\ dtls_state \in {"SLEEPING", "CONNECTING", "CONNECTED"}
    /\ dtls_open \in BOOLEAN /\ work \in BOOLEAN /\ cstp_up \in BOOLEAN
    /\ started \in Nat /\ period \in Nat
    /\ ka \in Timers /\ method \in Methods
    /\ pc \in {"dtls", "decide", "drain", "cstp", "sleep", "reconnect", "paused"}
    /\ timeout \in Nat /\ held \in Nat
    /\ queued \in 0..MaxQueue
    /\ rx \in BOOLEAN /\ alive \in BOOLEAN /\ wronged \in BOOLEAN
    /\ answer \in Nat /\ lost \in 0..MaxLost

\* After openconnect_setup_dtls: the first handshake is under way or has failed.
Init ==
    /\ now = 1 /\ started = 1 /\ period = Period
    /\ \/ dtls_state = "CONNECTING" /\ dtls_open = TRUE
       \/ dtls_state = "SLEEPING" /\ dtls_open = FALSE
    /\ method \in Methods
    /\ ka = [last_rx |-> 0, last_tx |-> 0, last_dpd |-> 0, last_rekey |-> 0]
    /\ pc = "dtls" /\ timeout = Never /\ work = FALSE /\ cstp_up = TRUE
    /\ queued = 0
    /\ rx = FALSE /\ alive = TRUE /\ answer = Never /\ lost = 0
    /\ held = 0 /\ wronged = FALSE

-----------------------------------------------------------------------------
\* A new or closed session has nothing in flight.
FreshNet == rx' = FALSE /\ alive' = TRUE /\ answer' = Never /\ lost' = 0

\* Mutant: the time of a handshake is never over.
dtls_try_handshake_patient(s) ==
    \/ /\ dtls_state' = "CONNECTED" /\ dtls_open' = TRUE /\ started' = s
       /\ ka' = Restarted(ka, now)
    \/ /\ dtls_state' = "CONNECTING" /\ dtls_open' = TRUE /\ started' = s
       /\ ka' = ka

\* dtls_try_handshake on an open session begun at second s: it completes, goes
\* on (only while its time is not over) or fails, which closes the session.
dtls_try_handshake(s) ==
    \/ /\ dtls_state' = "CONNECTED" /\ dtls_open' = TRUE /\ started' = s
       /\ ka' = Restarted(ka, now)
    \/ /\ now < s + HandshakeTimeout
       /\ dtls_state' = "CONNECTING" /\ dtls_open' = TRUE /\ started' = s
       /\ ka' = ka
    \/ /\ dtls_state' = "SLEEPING" /\ dtls_open' = FALSE /\ started' = now
       /\ ka' = ka

\* connect_dtls_socket, with the channel open or not: it refuses a channel that
\* is open; setting up OpenSSL may fail for good; the socket may fail; or the
\* handshake begins, which tries it once.  p and s are the attempt period and
\* new_dtls_started so far.
connect_dtls_socket(isOpen, p, s) ==
    \/ /\ isOpen
       /\ dtls_state' = "SLEEPING" /\ dtls_open' = TRUE
       /\ period' = 0
       /\ started' = s /\ ka' = ka
    \/ /\ ~isOpen
       /\ dtls_state' = "SLEEPING" /\ dtls_open' = FALSE
       /\ period' \in {0, p}
       /\ started' = s /\ ka' = ka
    \/ /\ ~isOpen
       /\ dtls_try_handshake(now)
       /\ period' = p

\* Mutant: the session is not closed before the new one is made.
dtls_reconnect_no_close(p, s) ==
    connect_dtls_socket(dtls_open, p, s) /\ FreshNet /\ held' = 0

\* dtls_reconnect: close, then connect.
dtls_reconnect(p, s) ==
    connect_dtls_socket(FALSE, p, s) /\ FreshNet /\ held' = 0

-----------------------------------------------------------------------------
\* dtls_mainloop while CONNECTING: one more try, and no deadline for select().
Handshake ==
    /\ pc = "dtls" /\ dtls_state = "CONNECTING"
    /\ dtls_try_handshake(started)
    /\ FreshNet
    /\ held' = IF dtls_state' = "CONNECTING" THEN held ELSE 0
    /\ pc' = "cstp"
    /\ UNCHANGED <<now, method, period, timeout, work, cstp_up, queued, wronged>>

\* dtls_mainloop while SLEEPING and the attempt period is over.
Attempt ==
    /\ pc = "dtls" /\ dtls_state = "SLEEPING"
    /\ now >= started + period
    /\ connect_dtls_socket(dtls_open, period, started)
    /\ FreshNet /\ held' = 0
    /\ pc' = "cstp"
    /\ UNCHANGED <<now, method, timeout, work, cstp_up, queued, wronged>>

\* dtls_mainloop while SLEEPING and it is not: the rest bounds the sleep.
NotYet ==
    /\ pc = "dtls" /\ dtls_state = "SLEEPING"
    /\ now < started + period
    /\ timeout' = Sooner(timeout, started + period - now)
    /\ pc' = "cstp"
    /\ UNCHANGED <<now, channel, work, cstp_up, queued, net, held, wronged>>

\* dtls_mainloop while CONNECTED: the read loop.  Data asks for another pass.
Read ==
    /\ pc = "dtls" /\ dtls_state = "CONNECTED"
    /\ ka' = IF rx THEN [ka EXCEPT !.last_rx = now] ELSE ka
    /\ lost' = IF rx THEN 0 ELSE lost
    /\ held' = IF rx THEN 0 ELSE held
    /\ work' \in IF rx THEN BOOLEAN ELSE {work}
    /\ rx' = FALSE
    /\ pc' = "decide"
    /\ UNCHANGED <<now, method, dtls_state, dtls_open, started, period, timeout, cstp_up,
                   queued, alive, answer, wronged>>

\* KA_REKEY.  REKEY_SSL renegotiates in place, and connects again if that
\* fails at once; REKEY_TUNNEL only restarts the rekey clock.
RekeyChannel ==
    LET rekeyed == Acted(ka, "KA_REKEY", now)
    IN  /\ pc = "decide" /\ keepalive_action(ka, now) = "KA_REKEY"
        /\ pc' = "cstp"
        /\ \/ method = "TUNNEL" /\ ka' = rekeyed /\ work' = TRUE
              /\ UNCHANGED <<dtls_state, dtls_open, started, period, net, held>>
           \/ method = "SSL" /\ ka' = Restarted(rekeyed, now) /\ dtls_state' = "CONNECTED"
              /\ started' = now /\ work' = TRUE /\ held' = 0
              /\ UNCHANGED <<dtls_open, period, net>>
           \/ method = "SSL" /\ ka' = rekeyed /\ dtls_state' = "CONNECTING"
              /\ started' = now /\ work' = TRUE /\ held' = 0
              /\ UNCHANGED <<dtls_open, period, net>>
           \/ method = "SSL" /\ dtls_reconnect(period, now) /\ work' \in BOOLEAN
        /\ UNCHANGED <<now, method, timeout, cstp_up, queued, wronged>>

\* KA_DPD_DEAD: fall back to CSTP and start again.
Dead ==
    /\ pc = "decide" /\ keepalive_action(ka, now) = "KA_DPD_DEAD"
    /\ dtls_reconnect(period, started)
    /\ wronged' = (wronged \/ (alive /\ held = 0))
    /\ work' = TRUE /\ pc' = "cstp"
    /\ UNCHANGED <<now, method, timeout, cstp_up, queued>>

\* KA_DPD: one datagram, which may be lost.
Probe ==
    /\ pc = "decide" /\ keepalive_action(ka, now) = "KA_DPD"
    /\ ka' = [ka EXCEPT !.last_dpd = now, !.last_tx = now]
    /\ timeout' = Shortened(ka, "KA_DPD", now, timeout)
    /\ \/ ~alive /\ UNCHANGED <<lost, answer>>
       \/ alive /\ lost < MaxLost /\ lost' = lost + 1 /\ answer' = answer
       \/ alive /\ answer' = Sooner(answer, now + Rtt) /\ lost' = lost
    /\ work' = TRUE /\ pc' = "drain"
    /\ UNCHANGED <<now, method, dtls_state, dtls_open, started, period, cstp_up, queued,
                   rx, alive, held, wronged>>

\* KA_KEEPALIVE, left out when there is data to send, and KA_NONE.
NoProbe ==
    LET act == keepalive_action(ka, now)
        send == act = "KA_KEEPALIVE" /\ queued = 0
    IN  /\ pc = "decide" /\ act \in {"KA_KEEPALIVE", "KA_NONE"}
        /\ timeout' = Shortened(ka, act, now, timeout)
        /\ ka' = IF send THEN [ka EXCEPT !.last_tx = now] ELSE ka
        /\ work' = (work \/ send)
        /\ pc' = "drain"
        /\ UNCHANGED <<now, method, dtls_state, dtls_open, started, period, cstp_up, queued,
                       net, held, wronged>>

\* The send loop takes packets off the queue until it is empty, or until the
\* socket is full and n packets stay behind.
Drain ==
    /\ pc = "drain"
    /\ \E n \in 0..queued :
        /\ queued' = n
        /\ ka' = IF n < queued THEN [ka EXCEPT !.last_tx = now] ELSE ka
    /\ pc' = "cstp"
    /\ UNCHANGED <<now, method, dtls_state, dtls_open, started, period, timeout, work,
                   cstp_up, net, held, wronged>>

\* The send loop meets a real error: the packet stays, the channel starts again.
DrainFails ==
    /\ pc = "drain" /\ queued > 0
    /\ dtls_reconnect(period, started)
    /\ queued' \in 1..queued
    /\ work' = TRUE /\ pc' = "cstp"
    /\ UNCHANGED <<now, method, timeout, cstp_up, wronged>>

-----------------------------------------------------------------------------
\* CSTP has nothing to do but to send the queue when DTLS is not connected; the
\* tun device fills it again; the loop sleeps if nobody did any work.
EndPass ==
    LET left == IF dtls_state = "CONNECTED" THEN queued ELSE 0
    IN  /\ pc = "cstp" /\ cstp_up
        /\ queued' \in left..MaxQueue
        /\ IF work \/ queued' > left
           THEN pc' = "dtls" /\ timeout' = Never
           ELSE pc' = "sleep" /\ timeout' = Sooner(timeout, Other)
        /\ work' = FALSE
        /\ UNCHANGED <<now, channel, cstp_up, net, held, wronged>>

\* CSTP closes its connection, which it lost, has to rekey or lost to a pause, and
\* begins to make another: cstp_reconnect blocks in connect, in reads without a
\* timeout and in the waits between attempts.
CstpLost ==
    /\ pc = "cstp"
    /\ cstp_up' = FALSE
    /\ pc' = "reconnect"
    /\ UNCHANGED <<now, channel, timeout, work, queued, net, held, wronged>>

\* The connection is made, or renegotiated in place.  A gateway that gives no
\* DTLS session id clears the attempt period.  A channel that does not rekey
\* itself is made anew; any other stays as the reconnect found it.
CstpReconnects ==
    /\ pc = "reconnect"
    /\ cstp_up' = TRUE
    /\ \E p \in {period, 0} :
        IF method = "NONE"
        THEN dtls_reconnect(p, started)
        ELSE period' = p /\ UNCHANGED <<dtls_state, dtls_open, started, ka, net, held>>
    /\ pc' = "dtls" /\ timeout' = Never /\ work' = FALSE
    /\ UNCHANGED <<now, method, queued, wronged>>

\* OC_CMD_PAUSE at the end of a pass closes both connections.  Read between two
\* attempts of a reconnect it ends the reconnect, and with it the pass.
Pause ==
    /\ (pc = "cstp" /\ cstp_up) \/ pc = "reconnect"
    /\ period' \in IF pc = "reconnect" THEN {period, 0} ELSE {period}
    /\ cstp_up' = FALSE
    /\ dtls_state' = "SLEEPING" /\ dtls_open' = FALSE /\ started' = 0
    /\ FreshNet /\ held' = 0
    /\ pc' = "paused" /\ work' = FALSE
    /\ UNCHANGED <<now, method, ka, timeout, queued, wronged>>

\* The application calls openconnect_mainloop again.
Resume ==
    /\ pc = "paused"
    /\ pc' = "dtls" /\ timeout' = Never
    /\ UNCHANGED <<now, channel, work, cstp_up, queued, net, held, wronged>>

\* select() returns.
Wake ==
    /\ pc = "sleep"
    /\ pc' = "dtls" /\ timeout' = Never
    /\ UNCHANGED <<now, channel, work, cstp_up, queued, net, held, wronged>>

-----------------------------------------------------------------------------
\* The clock: select() does not oversleep, answers are not late, and only a sleep,
\* a pause and a CSTP reconnect take time.
Tick ==
    /\ now < MaxTime
    /\ answer # Never => now < answer
    /\ \/ pc = "sleep" /\ timeout > 0 /\ ~rx /\ timeout' = timeout - 1
       \/ pc \in {"paused", "reconnect"} /\ timeout' = timeout
    /\ now' = now + 1
    /\ held' = IF pc = "reconnect" THEN held + 1 ELSE held
    /\ UNCHANGED <<channel, pc, work, cstp_up, queued, net, wronged>>

\* A datagram arrives.
Arrive ==
    /\ dtls_state = "CONNECTED" /\ alive
    /\ rx' = TRUE /\ answer' = Never
    /\ UNCHANGED <<now, channel, loop, queued, alive, lost, held, wronged>>

\* The server forgets the session, or UDP stops getting through.
ServerDies ==
    /\ dtls_state = "CONNECTED" /\ alive
    /\ alive' = FALSE /\ answer' = Never
    /\ UNCHANGED <<now, channel, loop, queued, rx, lost, held, wronged>>

Next ==
    \/ Handshake \/ Attempt \/ NotYet \/ Read
    \/ RekeyChannel \/ Dead \/ Probe \/ NoProbe \/ Drain \/ DrainFails
    \/ EndPass \/ CstpLost \/ CstpReconnects \/ Pause \/ Resume \/ Wake
    \/ Tick \/ Arrive \/ ServerDies

Spec == Init /\ [][Next]_vars
-----------------------------------------------------------------------------
\* The state names the socket: connect_dtls_socket's "existing fd" check (dtls.c
\* 467-472) never trips, whichever of handshake, rekey, dead peer, write error,
\* CSTP reconnect and pause came before, and no open socket is forgotten.
FdMatchesState == dtls_open <=> dtls_state # "SLEEPING"

\* A handshake that gets nowhere is given up (dtls.c 283-307), although nobody
\* wakes the loop for it: CSTP's deadlines must.  The time a CSTP reconnect takes
\* comes on top, since dtls_try_handshake is not called meanwhile.
HandshakeBounded ==
    dtls_state = "CONNECTING" => now <= started + HandshakeTimeout + Other + held

\* The pass that completes a handshake returns before keepalive_action is asked
\* (dtls.c 680-683), so the first sleep of a channel is bounded by CSTP alone.
LongestSilence ==
    IF 2 * Dpd + Dpd \div 2 > Other THEN 2 * Dpd + Dpd \div 2 ELSE Other

\* A channel on which nothing is heard is given up within two and a half DPD
\* periods, or after its first sleep, so that data falls back to CSTP; the time
\* CSTP reconnects take comes on top, since nothing is asked of DTLS meanwhile.
DeadPeerNoticed ==
    Dpd > 0 /\ dtls_state = "CONNECTED" => now <= ka.last_rx + LongestSilence + held

\* One lost probe does not cost the channel: when CSTP wakes the loop at least
\* every DTLS DPD period (Other <= Dpd), a server that answers what it gets is
\* not declared dead (mainloop.c 281-291 repeats the probe in time).  This is
\* about channels that no CSTP reconnect has held up since the server was last
\* heard: after one that took more than two periods a channel that rekeys itself
\* and has no datagram waiting is given up without a probe (mainloop.c 276).
SurvivesLostProbe == Other <= Dpd => ~wronged
=============================================================================
