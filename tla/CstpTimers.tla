------------------------------ MODULE CstpTimers ------------------------------
(***************************************************************************)
(* Time in the CSTP half of the main loop: cstp_mainloop and the select()  *)
(* at the end of openconnect_mainloop.  One pass reads whatever the server *)
(* sent, retries or makes the packet that is due, and goes on sending      *)
(* until nothing is due and nothing is queued, or a write stalls; then the *)
(* loop sleeps until the nearest deadline keepalive_action reported.       *)
(*                                                                         *)
(* The server is the environment: while it is alive it answers a probe     *)
(* within Rtt seconds and may send at any moment; it may die silently.     *)
(* Packet contents are left out: a packet read matters here only because   *)
(* it moves last_rx and may ask for a DPD answer.                          *)
(***************************************************************************)
EXTENDS KeepaliveTimers

CONSTANTS
    MaxTime,    \* bound on the clock
    MaxQueue,   \* bound on the packets the tun device hands over at once
    Slack,      \* seconds the clock may advance during one pass of the loop
    Rtt         \* a live server answers a probe within Rtt seconds

ASSUME CstpAssumption ==
    /\ MaxTime \in Nat
    /\ MaxQueue \in Nat
    /\ Slack \in Nat
    /\ Rtt \in Nat

VARIABLES
    now,      \* time(NULL)
    ka,       \* vpninfo->ssl_times
    pc,       \* where the loop is: see Places
    timeout,  \* seconds select() will sleep, or still has to sleep
    busy,     \* seconds spent in this pass (bounded by Slack)
    current,  \* vpninfo->current_ssl_pkt: the packet SSL_write must be given
    owe,      \* vpninfo->owe_ssl_dpd_response
    queued,   \* length of vpninfo->outgoing_queue, DTLS not being connected
    rx,       \* what the socket holds, unread
    alive,    \* the server is there
    answer,   \* latest arrival of the answer to a probe, or Never
    why,      \* why the loop gave up the connection, at pc = "reconnect"
    stalled   \* some write stalled since the server was last heard

loop == <<pc, timeout, busy, why, stalled>>
server == <<rx, alive, answer>>
vars == <<now, ka, loop, current, owe, queued, server>>

\* "read" and "decide" are the two halves of cstp_mainloop around its label
\* handle_outgoing ("write"); "reconnect" is its label do_reconnect.
Places == {"read", "write", "decide", "sleep", "reconnect"}
Packets == {"none", "data", "dpd", "dpd_resp", "keepalive"}

TypeOK ==
    /\ now \in Nat
    /\ ka \in Timers
    /\ pc \in Places
    /\ timeout \in Nat
    /\ busy \in Nat
    /\ current \in Packets
    /\ owe \in BOOLEAN
    /\ queued \in Nat
    /\ rx \in {"none", "packet", "dpd_out"}
    /\ alive \in BOOLEAN
    /\ answer \in Nat
    /\ why \in {"none", "rekey", "dead", "stalled", "io"}
    /\ stalled \in BOOLEAN

\* start_cstp_connection has just set the clocks; last_dpd is still 0.
Init ==
    /\ now = 1
    /\ ka = [last_rx |-> 1, last_tx |-> 1, last_dpd |-> 0, last_rekey |-> 1]
    /\ pc = "read" /\ timeout = Never /\ busy = 0 /\ why = "none" /\ stalled = FALSE
    /\ current = "none" /\ owe = FALSE /\ queued = 0
    /\ rx = "none" /\ alive = TRUE /\ answer = Never

-----------------------------------------------------------------------------
\* The read loop empties the socket: each packet moves last_rx, a DPD request
\* is noted.  A packet kept from an earlier pass is retried before all else.
Read ==
    /\ pc = "read"
    /\ ka' = IF rx = "none" THEN ka ELSE [ka EXCEPT !.last_rx = now]
    /\ owe' = (owe \/ rx = "dpd_out")
    /\ stalled' = (stalled /\ rx = "none")
    /\ rx' = "none"
    /\ pc' = IF current = "none" THEN "decide" ELSE "write"
    /\ UNCHANGED <<now, timeout, busy, why, current, queued, alive, answer>>

\* The read loop fails: the server closed the connection.
ReadFails ==
    /\ pc = "read"
    /\ pc' = "reconnect" /\ why' = "io"
    /\ UNCHANGED <<now, ka, timeout, busy, stalled, current, owe, queued, server>>

\* handle_outgoing, SSL_write taking the whole packet.  The server will answer
\* a probe it gets.
WriteDone ==
    /\ pc = "write"
    /\ ka' = [ka EXCEPT !.last_tx = now]
    /\ current' = "none"
    /\ answer' = IF current = "dpd" /\ alive THEN Sooner(answer, now + Rtt)
                                             ELSE answer
    /\ pc' = "decide"
    /\ UNCHANGED <<now, timeout, busy, why, stalled, owe, queued, rx, alive>>

\* handle_outgoing, SSL_write wanting the socket to drain: ka_stalled_action
\* decides between waiting, rekeying and giving up.
WriteStalls ==
    LET sent == [ka EXCEPT !.last_tx = now]
        act == ka_stalled_action(sent, now)
    IN  /\ pc = "write"
        /\ ka' = Acted(sent, act, now)
        /\ stalled' = TRUE
        /\ pc' = IF act = "KA_NONE" THEN "sleep" ELSE "reconnect"
        /\ timeout' = IF act = "KA_NONE" THEN ShortenedStalled(sent, now, timeout) ELSE timeout
        /\ why' = CASE act = "KA_NONE" -> why
                    [] act = "KA_REKEY" -> "rekey"
                    [] act = "KA_DPD_DEAD" -> "stalled"
        /\ UNCHANGED <<now, busy, current, owe, queued, server>>

\* handle_outgoing, SSL_write failing.
WriteFails ==
    /\ pc = "write"
    /\ ka' = [ka EXCEPT !.last_tx = now]
    /\ pc' = "reconnect" /\ why' = "io"
    /\ UNCHANGED <<now, timeout, busy, stalled, current, owe, queued, server>>

\* A DPD request of the server is answered before anything else.
AnswerProbe ==
    /\ pc = "decide" /\ owe
    /\ owe' = FALSE /\ current' = "dpd_resp"
    /\ pc' = "write"
    /\ UNCHANGED <<now, ka, timeout, busy, why, stalled, queued, server>>

\* switch (keepalive_action(...)), the two cases that give up the connection.
\* Every rekey method ends in a new tunnel: cstp_handshake is not supported.
GiveUp ==
    LET act == keepalive_action(ka, now)
    IN  /\ pc = "decide" /\ ~owe
        /\ act \in {"KA_REKEY", "KA_DPD_DEAD"}
        /\ ka' = Acted(ka, act, now)
        /\ pc' = "reconnect"
        /\ why' = IF act = "KA_REKEY" THEN "rekey" ELSE "dead"
        /\ UNCHANGED <<now, timeout, busy, stalled, current, owe, queued, server>>

\* The two cases that make a packet of their own.  A keepalive is left out
\* when there is data to send.
SendControl ==
    LET act == keepalive_action(ka, now)
    IN  /\ pc = "decide" /\ ~owe
        /\ act = "KA_DPD" \/ (act = "KA_KEEPALIVE" /\ queued = 0)
        /\ ka' = Acted(ka, act, now)
        /\ timeout' = Shortened(ka, act, now, timeout)
        /\ current' = IF act = "KA_DPD" THEN "dpd" ELSE "keepalive"
        /\ pc' = "write"
        /\ UNCHANGED <<now, busy, why, stalled, owe, queued, server>>

\* Nothing else is due: the next packet of the outgoing queue, if there is one.
SendData ==
    LET act == keepalive_action(ka, now)
    IN  /\ pc = "decide" /\ ~owe /\ queued > 0
        /\ act \in {"KA_KEEPALIVE", "KA_NONE"}
        /\ timeout' = Shortened(ka, act, now, timeout)
        /\ queued' = queued - 1 /\ current' = "data"
        /\ pc' = "write"
        /\ UNCHANGED <<now, ka, busy, why, stalled, owe, server>>

\* Nothing is due and nothing is queued: the pass ends in select().  (After a
\* pass that read data the loop goes round once more without sleeping: that is
\* a Wake before the next Tick.)
Sleep ==
    /\ pc = "decide" /\ ~owe /\ queued = 0
    /\ keepalive_action(ka, now) = "KA_NONE"
    /\ timeout' = Shortened(ka, "KA_NONE", now, timeout)
    /\ pc' = "sleep"
    /\ UNCHANGED <<now, ka, busy, why, stalled, current, owe, queued, server>>

\* select() returns: a deadline, a packet, room in the socket, a command, or
\* packets from the tun device, which tun_mainloop queues.
Wake ==
    /\ pc = "sleep"
    /\ pc' = "read" /\ timeout' = Never /\ busy' = 0
    /\ queued' \in queued..MaxQueue
    /\ UNCHANGED <<now, ka, why, stalled, current, owe, server>>

\* cstp_reconnect makes a new connection, to a live server, at once.
Reconnect ==
    /\ pc = "reconnect"
    /\ ka' = Restarted(ka, now)
    /\ pc' = "read" /\ timeout' = Never /\ busy' = 0 /\ why' = "none"
    /\ stalled' = FALSE
    /\ rx' = "none" /\ alive' = TRUE /\ answer' = Never
    /\ UNCHANGED <<now, current, owe, queued>>

-----------------------------------------------------------------------------
\* The clock.  select() does not oversleep, a pass takes at most Slack
\* seconds, and the answer to a probe is not later than promised.
Tick ==
    /\ now < MaxTime
    /\ alive /\ answer # Never => now < answer
    /\ \/ /\ pc = "sleep" /\ rx = "none" /\ timeout > 0
          /\ timeout' = timeout - 1 /\ busy' = busy
       \/ /\ pc # "sleep" /\ busy < Slack
          /\ busy' = busy + 1 /\ timeout' = timeout
    /\ now' = now + 1
    /\ UNCHANGED <<ka, pc, why, stalled, current, owe, queued, server>>

\* A packet from the server reaches the socket.
Arrive ==
    /\ alive /\ pc # "reconnect"
    /\ rx' \in {IF rx = "none" THEN "packet" ELSE rx, "dpd_out"}
    /\ answer' = Never
    /\ UNCHANGED <<now, ka, loop, current, owe, queued, alive>>

\* The server, or the path to it, disappears without a word.
ServerDies ==
    /\ alive /\ alive' = FALSE /\ answer' = Never
    /\ UNCHANGED <<now, ka, loop, current, owe, queued, rx>>

\* One step inside a pass of the loop.
Step ==
    \/ Read \/ ReadFails
    \/ WriteDone \/ WriteStalls \/ WriteFails
    \/ AnswerProbe \/ GiveUp \/ SendControl \/ SendData \/ Sleep

Next == Step \/ Wake \/ Reconnect \/ Tick \/ Arrive \/ ServerDies

Spec == Init /\ [][Next]_vars

\* The loop is one thread: it does not stop between two statements of a pass.
FairSpec == Spec /\ WF_vars(Step)
-----------------------------------------------------------------------------
\* A silent server is noticed in time: whatever the traffic and the stalls,
\* the loop never keeps a connection on which nothing was heard for two and a
\* half DPD periods (mainloop.c 273-291: dead after two periods, and the loop
\* is awake again at the latest half a period after its last probe).
DeadPeerNoticed ==
    Dpd > 0 => now <= ka.last_rx + 2 * Dpd + Dpd \div 2 + Slack

\* A server that is there and answers probes within Rtt is never declared dead
\* by keepalive_action, unless a stalled write held back the probe: each probe
\* leaves early enough and its answer is read before the verdict (cstp.c
\* 739-1012 reads before it asks keepalive_action).
NoFalseDeath == why = "dead" => ~alive \/ stalled

\* The gateway hears something at least every keepalive period (mainloop.c
\* 294-299), unless the socket itself is stuck: the deadline always reaches
\* the timeout of select().
KeepaliveKept ==
    Keepalive > 0 /\ current = "none" => now <= ka.last_tx + Keepalive + Slack

\* Every pass of cstp_mainloop comes to an end, so the socket is read again:
\* sending one packet never makes another one due for ever.
PassEnds == pc = "read" ~> pc \in {"sleep", "reconnect"}

=============================================================================
