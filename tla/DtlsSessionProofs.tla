-------------------------- MODULE DtlsSessionProofs --------------------------
(***************************************************************************)
(* For every period, timeout and rekey method: the DTLS channel is type    *)
(* correct, its state names its socket, a handshake is given up in time, a *)
(* silent channel is noticed in time, and one lost probe does not cost it. *)
(***************************************************************************)
EXTENDS DtlsSession, TLAPS

\* A timeout is never negative: a deadline counts only if it is not yet due
\* (ka_check_deadline, mainloop.c 232-239).
LEMMA ShortenedType ==
    ASSUME NEW k \in Timers, NEW n \in Nat, NEW t \in Nat
    PROVE  Shortened(k, keepalive_action(k, n), n, t) \in Nat
  BY DtlsAssumption DEF Shortened, SoonerIf, Sooner, keepalive_action, RekeyIsDue,
     PeerIsDead, ProbeIsDue, KeepaliveIsDue, ProbeDue, Overdue, Timers

\* What connect_dtls_socket (dtls.c 459-510) leaves of a channel that was closed.
LEMMA Connects ==
    ASSUME TypeOK, NEW p \in Nat, NEW s \in Nat, connect_dtls_socket(FALSE, p, s)
    PROVE  /\ dtls_state' \in {"SLEEPING", "CONNECTING", "CONNECTED"}
           /\ dtls_open' \in BOOLEAN /\ (dtls_open' <=> dtls_state' # "SLEEPING")
           /\ started' \in Nat /\ period' \in Nat /\ ka' \in Timers
           /\ dtls_state' = "CONNECTING" => started' = now /\ now < now + HandshakeTimeout
           /\ dtls_state' = "CONNECTED" => ka' = Restarted(ka, now)
           /\ dtls_state' # "CONNECTED" => ka' = ka
<1>1. now \in Nat /\ ka \in Timers
  BY DEF TypeOK
<1>2. Restarted(ka, now) \in Timers
  BY <1>1 DEF Restarted, Timers
<1>3. CASE /\ dtls_state' = "SLEEPING" /\ dtls_open' = FALSE /\ period' \in {0, p}
           /\ started' \in {s, now} /\ ka' = ka
  <2>1. dtls_open' \in BOOLEAN /\ (dtls_open' <=> dtls_state' # "SLEEPING")
    BY <1>3, Zenon
  <2>2. started' \in Nat /\ period' \in Nat /\ ka' \in Timers
    BY <1>1, <1>3
  <2> QED
    BY <1>3, <2>1, <2>2
<1>4. CASE /\ dtls_state' = "CONNECTED" /\ dtls_open' = TRUE /\ period' = p
           /\ started' = now /\ ka' = Restarted(ka, now)
  BY <1>1, <1>2, <1>4
<1>5. CASE /\ now < now + HandshakeTimeout
           /\ dtls_state' = "CONNECTING" /\ dtls_open' = TRUE /\ period' = p
           /\ started' = now /\ ka' = ka
  BY <1>1, <1>5
<1> QED
  BY <1>3, <1>4, <1>5, Zenon DEF connect_dtls_socket, dtls_try_handshake

-----------------------------------------------------------------------------
\* The parts of TypeOK: flags, the channel, and the rest.
Flags ==
    /\ work \in BOOLEAN /\ cstp_up \in BOOLEAN /\ rx \in BOOLEAN
    /\ alive \in BOOLEAN /\ wronged \in BOOLEAN

Numbers ==
    /\ now \in Nat /\ timeout \in Nat /\ queued \in 0..MaxQueue
    /\ answer \in Nat /\ lost \in 0..MaxLost
    /\ method \in Methods /\ held \in Nat
    /\ pc \in {"dtls", "decide", "drain", "cstp", "sleep", "reconnect", "paused"}

Channel ==
    /\ dtls_state \in {"SLEEPING", "CONNECTING", "CONNECTED"}
    /\ dtls_open \in BOOLEAN /\ FdMatchesState
    /\ started \in Nat /\ period \in Nat /\ ka \in Timers
    /\ pc \in {"decide", "drain"} => dtls_state = "CONNECTED"

\* The inductive invariant behind TypeOK and FdMatchesState: dtls_mainloop goes on to
\* keepalive_action and the send loop only if the channel is connected, so that a
\* rekey in place finds an open socket.
ChannelInv == Flags /\ Numbers /\ Channel

\* ChannelInv is TypeOK and a little more.
LEMMA ChannelType == ChannelInv => TypeOK
  BY DEF ChannelInv, Flags, Numbers, Channel, TypeOK

\* The flags stay Boolean.
LEMMA FlagStep == Flags /\ [Next]_vars => Flags'
<1> SUFFICES ASSUME Flags, [Next]_vars PROVE Flags'
  OBVIOUS
<1> USE DEF Flags, FreshNet
<1>1. CASE Handshake \/ Attempt \/ NotYet
  BY <1>1, Zenon DEF Handshake, Attempt, NotYet, net
<1>2. CASE Read
  <2>1. work' \in BOOLEAN
    BY <1>2 DEF Read
  <2> QED
    BY <1>2, <2>1, Zenon DEF Read
<1>3. CASE RekeyChannel
  BY <1>3, Zenon DEF RekeyChannel, dtls_reconnect, net
<1>4. CASE Dead \/ Probe
  BY <1>4, Zenon DEF Dead, Probe, dtls_reconnect
<1>5. CASE NoProbe
  BY <1>5, Zenon DEF NoProbe, net
<1>6. CASE Drain \/ DrainFails
  BY <1>6, Zenon DEF Drain, DrainFails, dtls_reconnect, net
<1>7. CASE EndPass
  BY <1>7, Zenon DEF EndPass, net
<1>8. CASE CstpLost \/ CstpReconnects
  BY <1>8, Zenon DEF CstpLost, CstpReconnects, dtls_reconnect, net
<1>9. CASE Pause \/ Resume \/ Wake \/ Tick
  BY <1>9, Zenon DEF Pause, Resume, Wake, Tick, net
<1>10. CASE Arrive \/ ServerDies \/ UNCHANGED vars
  BY <1>10, Zenon DEF Arrive, ServerDies, loop, vars, net
<1> QED
  BY <1>1, <1>2, <1>3, <1>4, <1>5, <1>6, <1>7, <1>8, <1>9, <1>10 DEF Next

\* The clock, the timeout, the queue and the network stay in their ranges.
LEMMA NumberStep == ChannelInv /\ [Next]_vars => Numbers'
<1> SUFFICES ASSUME ChannelInv, [Next]_vars PROVE Numbers'
  OBVIOUS
<1>k. ka \in Timers /\ started \in Nat /\ period \in Nat /\ Numbers
  BY DEF ChannelInv, Channel
<1> USE DtlsAssumption DEF Numbers, FreshNet
<1>1. CASE Handshake \/ Attempt
  BY <1>k, <1>1 DEF Handshake, Attempt
<1>2. CASE NotYet
  BY <1>k, <1>2 DEF NotYet, Sooner, channel, net
<1>3. CASE Read
  BY <1>k, <1>3 DEF Read
<1>4. CASE RekeyChannel
  <2>1. (answer' = answer /\ lost' = lost) \/ (answer' = Never /\ lost' = 0)
    BY <1>4, Zenon DEF RekeyChannel, dtls_reconnect, net
  <2>2. held' = held \/ held' = 0
    BY <1>4, Zenon DEF RekeyChannel, dtls_reconnect
  <2> QED
    BY <1>k, <1>4, <2>1, <2>2 DEF RekeyChannel
<1>5. CASE Dead
  BY <1>k, <1>5 DEF Dead, dtls_reconnect
<1>6. CASE Probe
  <2>1. timeout' \in Nat
    BY <1>k, <1>6, ShortenedType DEF Probe
  <2>2. answer' \in Nat /\ lost' \in 0..MaxLost
    BY <1>k, <1>6 DEF Probe, Sooner
  <2> QED
    BY <1>k, <1>6, <2>1, <2>2 DEF Probe
<1>7. CASE NoProbe
  <2>1. timeout' \in Nat
    BY <1>k, <1>7, ShortenedType DEF NoProbe
  <2> QED
    BY <1>k, <1>7, <2>1 DEF NoProbe, net
<1>8. CASE Drain \/ DrainFails
  <2>1. (answer' = answer /\ lost' = lost) \/ (answer' = Never /\ lost' = 0)
    BY <1>8, Zenon DEF Drain, DrainFails, dtls_reconnect, net
  <2>2. queued' \in 0..MaxQueue
    BY <1>k, <1>8 DEF Drain, DrainFails
  <2>3. held' = held \/ held' = 0
    BY <1>8, Zenon DEF Drain, DrainFails, dtls_reconnect
  <2> QED
    BY <1>k, <1>8, <2>1, <2>2, <2>3 DEF Drain, DrainFails
<1>9. CASE EndPass
  BY <1>k, <1>9 DEF EndPass, Sooner, channel, net
<1>10. CASE CstpReconnects
  <2>1. (answer' = answer /\ lost' = lost) \/ (answer' = Never /\ lost' = 0)
    BY <1>10, Zenon DEF CstpReconnects, dtls_reconnect, net
  <2>2. held' = held \/ held' = 0
    BY <1>10, Zenon DEF CstpReconnects, dtls_reconnect
  <2> QED
    BY <1>k, <1>10, <2>1, <2>2 DEF CstpReconnects
<1>11. CASE CstpLost \/ Pause \/ Resume \/ Wake \/ Tick
  BY <1>k, <1>11 DEF CstpLost, Pause, Resume, Wake, Tick, channel, net
<1>12. CASE Arrive \/ ServerDies \/ UNCHANGED vars
  BY <1>k, <1>12 DEF Arrive, ServerDies, loop, vars, channel, net
<1> QED
  BY <1>1, <1>2, <1>3, <1>4, <1>5, <1>6, <1>7, <1>8, <1>9, <1>10, <1>11, <1>12 DEF Next

\* Every step keeps the socket and the state of the channel together.
LEMMA ChannelStep == ChannelInv /\ [Next]_vars => ChannelInv'
<1> SUFFICES ASSUME ChannelInv, [Next]_vars PROVE Channel'
  BY FlagStep, NumberStep DEF ChannelInv
<1>0. TypeOK /\ Channel /\ now \in Nat
  BY ChannelType DEF ChannelInv, Numbers
<1> USE DEF Channel, FdMatchesState
<1>1. CASE Handshake
  BY <1>0, <1>1 DEF Handshake, dtls_try_handshake, Restarted, Timers
<1>2. CASE Attempt
  <2>1. dtls_open = FALSE
    BY <1>0, <1>2 DEF Attempt
  <2>2. connect_dtls_socket(FALSE, period, started) /\ pc' = "cstp"
    BY <1>2, <2>1 DEF Attempt
  <2> QED
    BY <1>0, <2>2, Connects
<1>3. CASE Dead \/ DrainFails
  <2>1. connect_dtls_socket(FALSE, period, started) /\ pc' = "cstp"
    BY <1>3 DEF Dead, DrainFails, dtls_reconnect
  <2> QED
    BY <1>0, <2>1, Connects
<1>4. CASE RekeyChannel
  <2>0. dtls_state = "CONNECTED" /\ dtls_open = TRUE /\ pc' = "cstp"
    BY <1>0, <1>4 DEF RekeyChannel
  <2> DEFINE rekeyed == Acted(ka, "KA_REKEY", now)
  <2>1. rekeyed \in Timers /\ Restarted(rekeyed, now) \in Timers
    BY <1>0 DEF Acted, Restarted, Timers
  <2>2. CASE connect_dtls_socket(FALSE, period, now)
    BY <1>0, <2>0, <2>2, Connects
  <2>3. CASE ~connect_dtls_socket(FALSE, period, now)
    BY <1>0, <1>4, <2>0, <2>1, <2>3 DEF RekeyChannel, dtls_reconnect
  <2> QED
    BY <2>2, <2>3
<1>5. CASE CstpReconnects
  <2>1. PICK p \in {period, 0} :
            \/ connect_dtls_socket(FALSE, p, started)
            \/ period' = p /\ UNCHANGED <<dtls_state, dtls_open, started, ka>>
    BY <1>5 DEF CstpReconnects, dtls_reconnect
  <2>2. p \in Nat /\ pc' = "dtls"
    BY <1>0, <1>5 DEF CstpReconnects
  <2>3. CASE connect_dtls_socket(FALSE, p, started)
    BY <1>0, <2>2, <2>3, Connects
  <2>4. CASE period' = p /\ UNCHANGED <<dtls_state, dtls_open, started, ka>>
    BY <1>0, <2>2, <2>4
  <2> QED
    BY <2>1, <2>3, <2>4
<1>6. CASE NotYet \/ EndPass \/ CstpLost \/ Resume \/ Wake
  BY <1>0, <1>6 DEF NotYet, EndPass, CstpLost, Resume, Wake, channel
<1>7. CASE Read \/ Probe
  BY <1>0, <1>7 DEF Read, Probe, Timers
<1>8. CASE NoProbe \/ Drain
  BY <1>0, <1>8 DEF NoProbe, Drain, Timers
<1>9. CASE Pause
  <2>1. period' \in Nat
    BY <1>0, <1>9 DEF Pause
  <2>2. dtls_state' = "SLEEPING" /\ dtls_open' = FALSE /\ started' = 0 /\ ka' = ka
    BY <1>9, Zenon DEF Pause
  <2>3. pc' = "paused"
    BY <1>9 DEF Pause
  <2> QED
    BY <1>0, <2>1, <2>2, <2>3
<1>10. CASE Tick \/ Arrive \/ ServerDies \/ UNCHANGED vars
  BY <1>0, <1>10 DEF Tick, Arrive, ServerDies, loop, channel, vars
<1> QED
  BY <1>1, <1>2, <1>3, <1>4, <1>5, <1>6, <1>7, <1>8, <1>9, <1>10 DEF Next

\* openconnect_setup_dtls leaves a channel that is open while it connects.
LEMMA ChannelInit == Init => ChannelInv
<1> SUFFICES ASSUME Init PROVE ChannelInv
  OBVIOUS
<1>1. Flags
  BY Zenon DEF Init, Flags
<1>2. Numbers
  BY DtlsAssumption DEF Init, Numbers
<1>3. Channel
  BY DtlsAssumption DEF Init, Channel, FdMatchesState, Timers
<1> QED
  BY <1>1, <1>2, <1>3 DEF ChannelInv

\* The DTLS channel (dtls.c) is type correct: no timeout is negative, and neither the
\* queue nor the count of lost probes passes its bound.
THEOREM TypeCorrect == Spec => []TypeOK
  BY ChannelInit, ChannelStep, ChannelType, PTL DEF Spec

\* The state of the channel names its socket: the "existing fd" check of
\* connect_dtls_socket (dtls.c 467-472) never trips and no open socket is forgotten.
THEOREM FdMatchesStateAlways == Spec => []FdMatchesState
<1>1. ChannelInv => FdMatchesState
  BY DEF ChannelInv, Channel
<1> QED
  BY <1>1, ChannelInit, ChannelStep, PTL DEF Spec

-----------------------------------------------------------------------------
\* HandshakeBounded is not inductive: how long the loop is about to sleep counts, and
\* a pass that leaves the handshake under way does so within its time, however long a
\* CSTP reconnect held it up before.
HandshakeInv ==
    dtls_state = "CONNECTING" =>
        /\ pc # "paused"
        /\ now <= started + HandshakeTimeout + Other + held
        /\ pc = "cstp" => now <= started + HandshakeTimeout
        /\ pc = "sleep" => now + timeout <= started + HandshakeTimeout + Other

\* DeadPeerNoticed is not inductive: it takes how long the loop is about to sleep, that
\* the last probe left while the server still had a chance to answer, and that a pass
\* which set no deadline of its own has just connected.
DeadlineInv ==
    /\ ka.last_rx <= now /\ ka.last_dpd <= now
    /\ Dpd > 0 /\ dtls_state = "CONNECTED" =>
        /\ pc # "paused"
        /\ ka.last_dpd <= Overdue(ka)
        /\ now <= ka.last_rx + LongestSilence + held
        /\ pc = "drain" /\ ~work => now + timeout <= ProbeDue(ka)
        /\ pc = "cstp" /\ ~work /\ ka.last_rx # now => now + timeout <= ProbeDue(ka)
        /\ pc = "sleep" => now + timeout <= ka.last_rx + LongestSilence

\* While CSTP wakes the loop often enough and no reconnect of its holds the loop up, it
\* is never late for a probe.
InTime ==
    Dpd > 0 /\ Other <= Dpd /\ dtls_state = "CONNECTED" /\ held = 0 =>
        /\ now <= ProbeDue(ka)
        /\ pc = "sleep" => now + timeout <= ProbeDue(ka)

\* The answer on its way from a server that answers is not late.  On a channel that was
\* not held up, such a server has been heard since the last probe, or its answer is in
\* the socket or will be there in time, or the one probe that may be lost went out
\* early enough for another.
AnswerInTime ==
    Dpd > 0 /\ Other <= Dpd /\ dtls_state = "CONNECTED" /\ alive =>
        /\ answer # Never => now <= answer /\ answer <= ka.last_dpd + Rtt
        /\ held = 0 =>
            /\ now <= Overdue(ka)
            /\ answer # Never /\ ~rx => answer <= Overdue(ka)
            /\ ka.last_dpd > ka.last_rx /\ ~rx /\ answer = Never =>
                 lost > 0 /\ ka.last_dpd <= ka.last_rx + Dpd

\* The constants of the deadlines.
LEMMA Silence ==
    /\ Dpd \in Nat /\ Other \in Nat /\ Rtt \in Nat /\ Never \in Nat /\ HandshakeTimeout \in Nat
    /\ Dpd \div 2 \in Nat /\ 2 * (Dpd \div 2) <= Dpd
    /\ LongestSilence \in Nat
    /\ LongestSilence >= 2 * Dpd + Dpd \div 2 /\ LongestSilence >= Other
  BY DtlsAssumption DEF LongestSilence

\* The two deadlines of a channel, and how far apart they can be.
LEMMA ProbeDueBounds ==
    ASSUME NEW k \in Timers
    PROVE  /\ ProbeDue(k) \in Nat /\ Overdue(k) = k.last_rx + 2 * Dpd /\ Overdue(k) \in Nat
           /\ k.last_dpd <= Overdue(k) => ProbeDue(k) <= k.last_rx + LongestSilence
           /\ k.last_dpd <= k.last_rx => ProbeDue(k) = k.last_rx + Dpd
           /\ k.last_dpd > k.last_rx => ProbeDue(k) = k.last_dpd + Dpd \div 2
  BY Silence DEF ProbeDue, Overdue, Timers

\* When keepalive_action does not ask for a probe, one is due no earlier than the end
\* of the sleep it allows.
LEMMA SleepsUntilProbe ==
    ASSUME NEW k \in Timers, NEW n \in Nat, NEW t \in Nat, Dpd > 0,
           keepalive_action(k, n) \in {"KA_KEEPALIVE", "KA_NONE"}
    PROVE  /\ n + Shortened(k, keepalive_action(k, n), n, t) <= ProbeDue(k)
           /\ n <= ProbeDue(k)
  BY DtlsAssumption, Silence, ProbeDueBounds DEF Shortened, SoonerIf, Sooner, keepalive_action,
     RekeyIsDue, PeerIsDead, ProbeIsDue, KeepaliveIsDue, Timers

\* What keepalive_action has seen when it answers.
LEMMA ActionMeans ==
    ASSUME NEW k \in Timers, NEW n \in Nat
    PROVE  /\ keepalive_action(k, n) = "KA_DPD_DEAD" => Dpd > 0 /\ n > Overdue(k)
           /\ keepalive_action(k, n) = "KA_DPD" => Dpd > 0 /\ n <= Overdue(k) /\ n >= ProbeDue(k)
  BY ProbeDueBounds, Silence DEF keepalive_action, RekeyIsDue, PeerIsDead, ProbeIsDue,
     KeepaliveIsDue, Timers

\* Every channel that connect_dtls_socket makes starts its clocks.
LEMMA FreshStart ==
    ASSUME ChannelInv, DeadlineInv, now' = now, pc' \in {"cstp", "dtls"},
           dtls_state' \in {"SLEEPING", "CONNECTING", "CONNECTED"}, held' \in Nat,
           dtls_state' = "CONNECTING" => now <= started' + HandshakeTimeout /\ started' \in Nat,
           dtls_state' = "CONNECTED" => ka' = Restarted(ka, now),
           dtls_state' # "CONNECTED" => ka' = ka \/ ka' = Acted(ka, "KA_REKEY", now)
    PROVE  /\ HandshakeInv' /\ DeadlineInv' /\ InTime'
           /\ dtls_state' = "CONNECTED" => ka'.last_rx = now /\ ka'.last_dpd = ka.last_dpd
<1>0. ka \in Timers /\ now \in Nat /\ ka.last_dpd <= now /\ ka.last_rx <= now
  BY DEF ChannelInv, Channel, Numbers, DeadlineInv
<1>1. /\ ka' \in Timers /\ ka'.last_dpd = ka.last_dpd
      /\ dtls_state' = "CONNECTED" => ka'.last_rx = now
      /\ dtls_state' # "CONNECTED" => ka'.last_rx = ka.last_rx
  BY <1>0 DEF Restarted, Acted, Timers
<1>2. HandshakeInv'
  BY <1>0, Silence DEF HandshakeInv
<1>3. dtls_state' = "CONNECTED" => ProbeDue(ka') = now + Dpd
  BY <1>0, <1>1, ProbeDueBounds
<1>4. dtls_state' = "CONNECTED" => Overdue(ka') = now + 2 * Dpd
  BY <1>0, <1>1, ProbeDueBounds
<1>5. DeadlineInv'
  <2>1. ka'.last_rx <= now' /\ ka'.last_dpd <= now'
    BY <1>0, <1>1
  <2>2. dtls_state' = "CONNECTED" =>
            /\ pc' # "paused" /\ pc' # "drain" /\ pc' # "sleep" /\ ka'.last_rx = now'
            /\ ka'.last_dpd <= Overdue(ka')
            /\ now' <= ka'.last_rx + LongestSilence + held'
    BY <1>0, <1>1, <1>4, Silence DEF Timers
  <2> QED
    BY <2>1, <2>2, Zenon DEF DeadlineInv
<1>6. InTime'
  BY <1>0, <1>3, Silence DEF InTime
<1> QED
  BY <1>1, <1>2, <1>5, <1>6

\* The clocks are numbers that have passed, and the deadlines follow from them.
LEMMA ClockFacts ==
    ASSUME ChannelInv, DeadlineInv
    PROVE  /\ now \in Nat /\ timeout \in Nat /\ started \in Nat /\ held \in Nat
           /\ ka \in Timers /\ ka.last_rx \in Nat /\ ka.last_dpd \in Nat
           /\ ka.last_rx <= now /\ ka.last_dpd <= now
           /\ ProbeDue(ka) \in Nat /\ Overdue(ka) = ka.last_rx + 2 * Dpd
<1>1. now \in Nat /\ timeout \in Nat /\ started \in Nat /\ held \in Nat /\ ka \in Timers
  BY DEF ChannelInv, Numbers, Channel
<1>2. ka.last_rx \in Nat /\ ka.last_dpd \in Nat
  BY <1>1 DEF Timers
<1> QED
  BY <1>1, <1>2, ProbeDueBounds DEF DeadlineInv

\* Timers that differ in last_tx or last_rekey alone have the same deadlines.
LEMMA SameDeadlines ==
    ASSUME NEW k, NEW l, k.last_rx = l.last_rx, k.last_dpd = l.last_dpd
    PROVE  ProbeDue(k) = ProbeDue(l) /\ Overdue(k) = Overdue(l)
  BY DEF ProbeDue, Overdue

\* The actions after which the channel has been made anew.
LEMMA FreshSteps ==
    ASSUME ChannelInv, DeadlineInv,
           \/ Handshake \/ Attempt \/ Dead \/ DrainFails
           \/ RekeyChannel /\ method # "TUNNEL" 
           \/ CstpReconnects /\ method = "NONE"
    PROVE  /\ HandshakeInv' /\ DeadlineInv' /\ InTime'
           /\ dtls_state' = "CONNECTED" => ka'.last_rx = now /\ ka'.last_dpd = ka.last_dpd
<1>0. TypeOK /\ Channel /\ now \in Nat /\ started \in Nat /\ period \in Nat /\ ka \in Timers
  BY ChannelType DEF ChannelInv, Numbers, Channel
<1>h. HandshakeTimeout \in Nat
  BY DtlsAssumption
<1>u. held' \in Nat
  <2>1. held' = held \/ held' = 0
    BY Zenon DEF Handshake, Attempt, Dead, DrainFails, RekeyChannel, CstpReconnects,
       dtls_reconnect
  <2> QED
    BY <2>1 DEF ChannelInv, Numbers
<1>1. CASE Handshake
  <2>1. now' = now /\ pc' = "cstp"
    BY <1>1 DEF Handshake
  <2>2. /\ dtls_state' \in {"SLEEPING", "CONNECTING", "CONNECTED"}
        /\ dtls_state' = "CONNECTING" => now <= started' + HandshakeTimeout /\ started' \in Nat
        /\ dtls_state' = "CONNECTED" => ka' = Restarted(ka, now)
        /\ dtls_state' # "CONNECTED" => ka' = ka
    BY <1>0, <1>1, <1>h DEF Handshake, dtls_try_handshake
  <2> QED
    BY <1>u, <2>1, <2>2, FreshStart
<1>2. CASE \/ Attempt \/ Dead \/ DrainFails
           \/ RekeyChannel /\ dtls_reconnect(period, now)
           \/ CstpReconnects /\ method = "NONE"
  <2>1. now' = now /\ pc' \in {"cstp", "dtls"}
    BY <1>2 DEF Attempt, Dead, DrainFails, RekeyChannel, CstpReconnects
  <2>2. PICK p \in {period, 0}, s \in {started, now} : connect_dtls_socket(FALSE, p, s)
    <3>1. CASE Attempt
      <4>1. dtls_open = FALSE
        BY <1>0, <3>1 DEF Attempt, Channel, FdMatchesState
      <4> QED
        BY <3>1, <4>1, Zenon DEF Attempt
    <3>2. CASE Dead \/ DrainFails
      BY <3>2, Zenon DEF Dead, DrainFails, dtls_reconnect
    <3>3. CASE RekeyChannel /\ dtls_reconnect(period, now)
      BY <3>3, Zenon DEF dtls_reconnect
    <3>4. CASE CstpReconnects /\ method = "NONE"
      BY <3>4, Zenon DEF CstpReconnects, dtls_reconnect
    <3> QED
      BY <1>2, <3>1, <3>2, <3>3, <3>4
  <2>3. p \in Nat /\ s \in Nat
    BY <1>0, <2>2
  <2>4. /\ dtls_state' \in {"SLEEPING", "CONNECTING", "CONNECTED"}
        /\ started' \in Nat
        /\ dtls_state' = "CONNECTING" => started' = now
        /\ dtls_state' = "CONNECTED" => ka' = Restarted(ka, now)
        /\ dtls_state' # "CONNECTED" => ka' = ka
    BY <1>0, <2>2, <2>3, Connects
  <2>5. dtls_state' = "CONNECTING" => now <= started' + HandshakeTimeout
    BY <1>0, <1>h, <2>4
  <2> QED
    BY <1>u, <2>1, <2>4, <2>5, FreshStart
<1>3. CASE RekeyChannel /\ method # "TUNNEL" /\ ~dtls_reconnect(period, now)
  <2>1. now' = now /\ pc' = "cstp"
    BY <1>3 DEF RekeyChannel
  <2>2. /\ dtls_state' \in {"CONNECTING", "CONNECTED"} /\ started' = now
        /\ dtls_state' = "CONNECTED" => ka' = Restarted(Acted(ka, "KA_REKEY", now), now)
        /\ dtls_state' # "CONNECTED" => ka' = Acted(ka, "KA_REKEY", now)
    BY <1>3 DEF RekeyChannel
  <2>3. Restarted(Acted(ka, "KA_REKEY", now), now) = Restarted(ka, now)
    BY <1>0 DEF Restarted, Acted, Timers
  <2>4. now <= now + HandshakeTimeout
    BY <1>0, <1>h
  <2> QED
    BY <1>0, <1>u, <2>1, <2>2, <2>3, <2>4, FreshStart
<1> QED
  BY <1>1, <1>2, <1>3

\* A handshake is tried in every pass, and no sleep is longer than Other.
LEMMA HandshakeStep ==
    ASSUME ChannelInv, DeadlineInv, HandshakeInv, [Next]_vars
    PROVE  HandshakeInv'
<1>0. now \in Nat /\ timeout \in Nat /\ started \in Nat /\ held \in Nat
  BY ClockFacts
<1>1. CASE \/ Handshake \/ Attempt \/ Dead \/ DrainFails
           \/ RekeyChannel /\ method # "TUNNEL"
           \/ CstpReconnects /\ method = "NONE"
  BY <1>1, FreshSteps
<1>2. CASE RekeyChannel /\ method = "TUNNEL"
  BY <1>2 DEF RekeyChannel, ChannelInv, Channel, HandshakeInv
<1>3. CASE CstpReconnects /\ method # "NONE"
  BY <1>3 DEF CstpReconnects, HandshakeInv
<1>4. CASE NotYet \/ Read \/ Probe \/ NoProbe \/ Drain
  BY <1>4 DEF NotYet, Read, Probe, NoProbe, Drain, ChannelInv, Channel, HandshakeInv, channel
<1>5. CASE EndPass
  <2>1. timeout' <= Other \/ pc' = "dtls"
    BY <1>0, <1>5, Silence DEF EndPass, Sooner
  <2>2. /\ now' = now /\ dtls_state' = dtls_state /\ started' = started /\ held' = held
        /\ pc = "cstp"
    BY <1>5 DEF EndPass, channel
  <2>3. pc' \in {"dtls", "sleep"} /\ (pc' = "sleep" => timeout' \in Nat)
    BY <1>0, <1>5, Silence DEF EndPass, Sooner
  <2> QED
    BY <1>0, <2>1, <2>2, <2>3, Silence DEF HandshakeInv
<1>6. CASE CstpLost \/ Pause \/ Resume \/ Wake
  BY <1>6 DEF CstpLost, Pause, Resume, Wake, HandshakeInv, channel
<1>7. CASE Tick
  <2>1. CASE pc = "sleep"
    BY <1>0, <1>7, <2>1, Silence DEF Tick, HandshakeInv, channel
  <2>2. CASE pc = "paused"
    BY <1>7, <2>2 DEF Tick, HandshakeInv, channel
  <2>3. CASE pc = "reconnect"
    BY <1>0, <1>7, <2>3, Silence DEF Tick, HandshakeInv, channel
  <2> QED
    BY <1>7, <2>1, <2>2, <2>3 DEF Tick
<1>8. CASE Arrive \/ ServerDies \/ UNCHANGED vars
  BY <1>8 DEF Arrive, ServerDies, HandshakeInv, vars, channel, loop
<1> QED
  BY <1>1, <1>2, <1>3, <1>4, <1>5, <1>6, <1>7, <1>8 DEF Next

\* The parts of DeadlineInv that a step with the same clocks and state keeps.
LEMMA DeadlineKept ==
    ASSUME ChannelInv, DeadlineInv, now' = now, held' = held, pc' # "paused", pc' # "sleep",
           ka'.last_rx = ka.last_rx, ka'.last_dpd = ka.last_dpd, dtls_state' = dtls_state,
           Dpd > 0 /\ pc' \in {"drain", "cstp"} /\ ~work' => now + timeout' <= ProbeDue(ka)
    PROVE  DeadlineInv'
<1>0. ProbeDue(ka') = ProbeDue(ka) /\ Overdue(ka') = Overdue(ka)
  BY SameDeadlines
<1>1. pc' = "drain" => pc' \in {"drain", "cstp"}
  OBVIOUS
<1>2. pc' = "cstp" => pc' \in {"drain", "cstp"}
  OBVIOUS
<1> QED
  BY <1>0, <1>1, <1>2, Zenon DEF DeadlineInv

\* No sleep ends after the next probe is due, the first one after a handshake excepted.
LEMMA DeadlineStep ==
    ASSUME ChannelInv, DeadlineInv, [Next]_vars
    PROVE  DeadlineInv'
<1>0. /\ now \in Nat /\ timeout \in Nat /\ ka \in Timers
      /\ ka.last_rx \in Nat /\ ka.last_dpd \in Nat /\ held \in Nat
      /\ ka.last_rx <= now /\ ka.last_dpd <= now
      /\ ProbeDue(ka) \in Nat /\ Overdue(ka) = ka.last_rx + 2 * Dpd
  BY ClockFacts
<1>1. CASE \/ Handshake \/ Attempt \/ Dead \/ DrainFails
           \/ RekeyChannel /\ method # "TUNNEL"
           \/ CstpReconnects /\ method = "NONE"
  BY <1>1, FreshSteps
<1>2. CASE RekeyChannel /\ method = "TUNNEL"
  <2>1. /\ now' = now /\ pc' = "cstp" /\ dtls_state' = dtls_state /\ held' = held
        /\ ka' = Acted(ka, "KA_REKEY", now)
    BY <1>2 DEF RekeyChannel
  <2>2. work' = TRUE
    BY <1>2 DEF RekeyChannel
  <2>3. ka'.last_rx = ka.last_rx /\ ka'.last_dpd = ka.last_dpd
    BY <1>0, <2>1 DEF Acted, Timers
  <2> QED
    BY <2>1, <2>2, <2>3, DeadlineKept
<1>3. CASE CstpReconnects /\ method # "NONE"
  BY <1>3, DeadlineKept DEF CstpReconnects
<1>4. CASE NotYet
  BY <1>4, Zenon DEF NotYet, DeadlineInv, channel
<1>5. CASE Read
  <2>1. now' = now /\ dtls_state' = dtls_state /\ pc' = "decide"
    BY <1>5 DEF Read
  <2>2. CASE rx
    <3>1. ka' = [ka EXCEPT !.last_rx = now]
      BY <1>5, <2>2 DEF Read
    <3>2. ka'.last_rx = now /\ ka'.last_dpd = ka.last_dpd /\ ka' \in Timers
      BY <1>0, <3>1 DEF Timers
    <3>3. ka'.last_dpd <= Overdue(ka') /\ now <= now + LongestSilence + 0 /\ held' = 0
      BY <1>0, <1>5, <2>2, <3>2, Silence DEF Overdue, Read
    <3>4. /\ ka'.last_rx <= now' /\ ka'.last_dpd <= now'
          /\ now' <= ka'.last_rx + LongestSilence + held'
      BY <1>0, <2>1, <3>2, <3>3
    <3>5. pc' # "paused" /\ pc' # "drain" /\ pc' # "sleep" /\ pc' # "cstp"
      BY <2>1
    <3> QED
      BY <3>3, <3>4, <3>5, Zenon DEF DeadlineInv
  <2>3. CASE ~rx
    BY <1>5, <2>1, <2>3, DeadlineKept DEF Read
  <2> QED
    BY <2>2, <2>3
<1>6. CASE Probe
  <2>1. now' = now /\ dtls_state' = dtls_state /\ pc' = "drain" /\ held' = held
    BY <1>6 DEF Probe
  <2>2. work' = TRUE
    BY <1>6 DEF Probe
  <2>3. ka'.last_rx = ka.last_rx /\ ka'.last_dpd = now /\ ka' \in Timers
    BY <1>0, <1>6 DEF Probe, Timers
  <2>4. Dpd > 0 /\ now <= Overdue(ka)
    BY <1>0, <1>6, ActionMeans DEF Probe
  <2>5. ka'.last_dpd <= Overdue(ka')
    BY <2>3, <2>4 DEF Overdue
  <2>6. ka'.last_rx <= now' /\ ka'.last_dpd <= now'
    BY <1>0, <2>1, <2>3
  <2>7. pc' # "paused" /\ pc' # "sleep" /\ pc' # "cstp"
    BY <2>1
  <2> QED
    BY <2>1, <2>2, <2>3, <2>5, <2>6, <2>7, Zenon DEF DeadlineInv
<1>7. CASE NoProbe
  <2>1. now' = now /\ dtls_state' = dtls_state /\ pc' = "drain" /\ held' = held
    BY <1>7 DEF NoProbe
  <2>2. ka'.last_rx = ka.last_rx /\ ka'.last_dpd = ka.last_dpd
    BY <1>0, <1>7 DEF NoProbe, Timers
  <2>3. Dpd > 0 => now + timeout' <= ProbeDue(ka)
    BY <1>0, <1>7, SleepsUntilProbe DEF NoProbe
  <2> QED
    BY <2>1, <2>2, <2>3, DeadlineKept
<1>8. CASE Drain
  <2>1. /\ now' = now /\ dtls_state' = dtls_state /\ pc = "drain" /\ pc' = "cstp"
        /\ timeout' = timeout /\ held' = held
    BY <1>8 DEF Drain
  <2>2. work' = work
    BY <1>8 DEF Drain
  <2>3. ka'.last_rx = ka.last_rx /\ ka'.last_dpd = ka.last_dpd
    BY <1>0, <1>8 DEF Drain, Timers
  <2>4. dtls_state = "CONNECTED"
    BY <2>1 DEF ChannelInv, Channel
  <2>5. Dpd > 0 /\ ~work' => now + timeout' <= ProbeDue(ka)
    BY <2>1, <2>2, <2>4, Zenon DEF DeadlineInv
  <2> QED
    BY <2>1, <2>3, <2>5, DeadlineKept
<1>9. CASE EndPass
  <2>1. /\ now' = now /\ dtls_state' = dtls_state /\ ka' = ka /\ pc = "cstp"
        /\ pc' \in {"dtls", "sleep"} /\ held' = held
    BY <1>9, Zenon DEF EndPass, channel
  <2>2. CASE pc' = "dtls"
    BY <2>1, <2>2, DeadlineKept
  <2>3. CASE pc' = "sleep"
    <3>1. ~work /\ timeout' = Sooner(timeout, Other)
      BY <1>9, <2>3 DEF EndPass
    <3>2. CASE Dpd > 0 /\ dtls_state = "CONNECTED"
      <4>1. ka.last_rx # now => now + timeout <= ProbeDue(ka)
        BY <2>1, <3>1, <3>2, Zenon DEF DeadlineInv
      <4>2. ka.last_dpd <= Overdue(ka)
        BY <3>2, Zenon DEF DeadlineInv
      <4>3. timeout' \in Nat /\ timeout' <= timeout /\ timeout' <= Other
        BY <1>0, <3>1, Silence DEF Sooner
      <4>4. ProbeDue(ka) <= ka.last_rx + LongestSilence
        BY <1>0, <4>2, ProbeDueBounds
      <4>5. now + timeout' <= ka.last_rx + LongestSilence
        BY <1>0, <4>1, <4>3, <4>4, Silence
      <4>6. pc' # "paused" /\ pc' # "drain" /\ pc' # "cstp"
        BY <2>3
      <4>7. now' + timeout' <= ka'.last_rx + LongestSilence
        BY <2>1, <4>5
      <4> QED
        BY <2>1, <4>6, <4>7, Zenon DEF DeadlineInv
    <3>3. CASE ~(Dpd > 0 /\ dtls_state = "CONNECTED")
      BY <2>1, <3>3, Zenon DEF DeadlineInv
    <3> QED
      BY <3>2, <3>3
  <2> QED
    BY <2>1, <2>2, <2>3
<1>10. CASE Pause
  BY <1>10, Zenon DEF Pause, DeadlineInv
<1>11. CASE CstpLost \/ Resume \/ Wake
  BY <1>11, DeadlineKept DEF CstpLost, Resume, Wake, channel
<1>12. CASE Tick
  <2>1. now' = now + 1 /\ ka' = ka /\ dtls_state' = dtls_state /\ pc' = pc
    BY <1>12 DEF Tick, channel
  <2>2. ka'.last_rx <= now' /\ ka'.last_dpd <= now'
    BY <1>0, <2>1
  <2>3. CASE Dpd > 0 /\ dtls_state = "CONNECTED" /\ pc # "reconnect"
    <3>1. pc = "sleep" /\ timeout > 0 /\ timeout' = timeout - 1
      <4>1. pc # "paused"
        BY <2>3, Zenon DEF DeadlineInv
      <4> QED
        BY <1>12, <2>3, <4>1 DEF Tick
    <3>2. now + timeout <= ka.last_rx + LongestSilence /\ ka.last_dpd <= Overdue(ka)
      BY <2>3, <3>1, Zenon DEF DeadlineInv
    <3>3. /\ now' + timeout' <= ka'.last_rx + LongestSilence
          /\ now' <= ka'.last_rx + LongestSilence + held'
      BY <1>0, <1>12, <2>1, <2>3, <3>1, <3>2, Silence DEF Tick
    <3>4. pc' # "paused" /\ pc' # "drain" /\ pc' # "cstp"
      BY <2>1, <3>1
    <3> QED
      BY <2>1, <2>2, <3>2, <3>3, <3>4, Zenon DEF DeadlineInv
  <2>4. CASE ~(Dpd > 0 /\ dtls_state = "CONNECTED")
    BY <2>1, <2>2, <2>4, Zenon DEF DeadlineInv
  <2>5. CASE Dpd > 0 /\ dtls_state = "CONNECTED" /\ pc = "reconnect"
    <3>1. now <= ka.last_rx + LongestSilence + held /\ ka.last_dpd <= Overdue(ka)
      BY <2>5, Zenon DEF DeadlineInv
    <3>2. now' <= ka'.last_rx + LongestSilence + held'
      BY <1>0, <1>12, <2>1, <2>5, <3>1, Silence DEF Tick
    <3>3. pc' # "paused" /\ pc' # "drain" /\ pc' # "cstp" /\ pc' # "sleep"
      BY <2>1, <2>5
    <3> QED
      BY <2>1, <2>2, <3>1, <3>2, <3>3, Zenon DEF DeadlineInv
  <2> QED
    BY <2>3, <2>4, <2>5
<1>13. CASE Arrive \/ ServerDies \/ UNCHANGED vars
  BY <1>13, Zenon DEF Arrive, ServerDies, DeadlineInv, vars, channel, loop
<1> QED
  BY <1>1, <1>2, <1>3, <1>4, <1>5, <1>6, <1>7, <1>8, <1>9, <1>10, <1>11, <1>12, <1>13 DEF Next

\* If CSTP wakes the loop once in a DPD period, that exception makes no difference.
LEMMA InTimeStep ==
    ASSUME ChannelInv, DeadlineInv, InTime, [Next]_vars
    PROVE  InTime'
<1>0. /\ now \in Nat /\ timeout \in Nat /\ ka \in Timers
      /\ ka.last_rx \in Nat /\ ka.last_dpd \in Nat
      /\ ka.last_rx <= now /\ ka.last_dpd <= now
      /\ ProbeDue(ka) \in Nat
  BY ClockFacts
<1>1. CASE \/ Handshake \/ Attempt \/ Dead \/ DrainFails
           \/ RekeyChannel /\ method # "TUNNEL"
           \/ CstpReconnects /\ method = "NONE"
  BY <1>1, FreshSteps
<1>2. CASE \/ RekeyChannel /\ method = "TUNNEL"
           \/ CstpReconnects /\ method # "NONE"
           \/ NoProbe \/ Drain \/ CstpLost \/ Resume \/ Wake
  <2>1. now' = now /\ dtls_state' = dtls_state /\ pc' # "sleep" /\ held' = held
    BY <1>2 DEF RekeyChannel, CstpReconnects, NoProbe, Drain, CstpLost, Resume, Wake, channel
  <2>2. ka'.last_rx = ka.last_rx /\ ka'.last_dpd = ka.last_dpd
    BY <1>0, <1>2 DEF RekeyChannel, CstpReconnects, NoProbe, Drain, CstpLost, Resume, Wake,
       channel, Acted, Timers
  <2>3. ProbeDue(ka') = ProbeDue(ka)
    BY <2>2, SameDeadlines
  <2> QED
    BY <2>1, <2>3 DEF InTime
<1>3. CASE NotYet \/ Pause
  BY <1>3 DEF NotYet, Pause, InTime, channel
<1>4. CASE Read
  <2>1. now' = now /\ pc' = "decide" /\ dtls_state' = dtls_state
    BY <1>4 DEF Read
  <2>2. CASE rx
    <3>1. ka' = [ka EXCEPT !.last_rx = now]
      BY <1>4, <2>2 DEF Read
    <3>2. now <= ProbeDue(ka')
      BY <1>0, <3>1, Silence DEF ProbeDue, Timers
    <3> QED
      BY <2>1, <3>2 DEF InTime
  <2>3. CASE ~rx
    <3>1. ka' = ka /\ held' = held
      BY <1>4, <2>3 DEF Read
    <3> QED
      BY <2>1, <3>1 DEF InTime
  <2> QED
    BY <2>2, <2>3
<1>5. CASE Probe
  <2>1. now' = now /\ pc' = "drain" /\ ka' = [ka EXCEPT !.last_dpd = now, !.last_tx = now]
    BY <1>5 DEF Probe
  <2>2. now <= ProbeDue(ka')
    BY <1>0, <2>1, Silence DEF ProbeDue, Timers
  <2> QED
    BY <2>1, <2>2 DEF InTime
<1>6. CASE EndPass
  <2>1. /\ now' = now /\ dtls_state' = dtls_state /\ ka' = ka /\ pc = "cstp"
        /\ pc' \in {"dtls", "sleep"} /\ held' = held
    BY <1>6, Zenon DEF EndPass, channel
  <2>2. CASE pc' = "dtls"
    BY <2>1, <2>2 DEF InTime
  <2>3. CASE pc' = "sleep" /\ Dpd > 0 /\ Other <= Dpd /\ dtls_state = "CONNECTED"
    <3>1. ~work /\ timeout' = Sooner(timeout, Other)
      BY <1>6, <2>3 DEF EndPass
    <3>2. ka.last_rx # now => now + timeout <= ProbeDue(ka)
      BY <2>1, <2>3, <3>1, Zenon DEF DeadlineInv
    <3>3. timeout' \in Nat /\ timeout' <= timeout /\ timeout' <= Other
      BY <1>0, <3>1, Silence DEF Sooner
    <3>4. ka.last_rx = now => ProbeDue(ka) = now + Dpd
      BY <1>0, ProbeDueBounds
    <3>5. now + timeout' <= ProbeDue(ka)
      BY <1>0, <2>3, <3>2, <3>3, <3>4, Silence
    <3> QED
      BY <2>1, <2>3, <3>5 DEF InTime
  <2>4. CASE ~(Dpd > 0 /\ Other <= Dpd /\ dtls_state = "CONNECTED")
    BY <2>1, <2>4 DEF InTime
  <2> QED
    BY <2>1, <2>2, <2>3, <2>4
<1>7. CASE Tick
  <2>1. now' = now + 1 /\ ka' = ka /\ dtls_state' = dtls_state /\ pc' = pc
    BY <1>7 DEF Tick, channel
  <2>2. CASE Dpd > 0 /\ dtls_state = "CONNECTED" /\ held' = 0
    <3>1. pc # "paused"
      BY <2>2, Zenon DEF DeadlineInv
    <3>2. pc # "reconnect"
      BY <1>7, <2>2, ClockFacts DEF Tick
    <3>3. pc = "sleep" /\ timeout > 0 /\ timeout' = timeout - 1 /\ held' = held
      BY <1>7, <3>1, <3>2 DEF Tick
    <3> QED
      BY <1>0, <2>1, <2>2, <3>3 DEF InTime
  <2>3. CASE ~(Dpd > 0 /\ dtls_state = "CONNECTED" /\ held' = 0)
    BY <2>1, <2>3 DEF InTime
  <2> QED
    BY <2>2, <2>3
<1>8. CASE Arrive \/ ServerDies \/ UNCHANGED vars
  BY <1>8 DEF Arrive, ServerDies, InTime, vars, channel, loop
<1> QED
  BY <1>1, <1>2, <1>3, <1>4, <1>5, <1>6, <1>7, <1>8 DEF Next

-----------------------------------------------------------------------------
\* What the clocks are to a loop that keeps them: all of the above.
ClockInv == ChannelInv /\ HandshakeInv /\ DeadlineInv /\ InTime

\* The channel begins unconnected, with clocks at 0.
LEMMA ClockInit == Init => ClockInv
<1> SUFFICES ASSUME Init PROVE ClockInv
  OBVIOUS
<1>1. ChannelInv
  BY ChannelInit
<1>2. HandshakeInv
  BY Silence DEF Init, HandshakeInv
<1>3. DeadlineInv
  <2>1. ka.last_rx <= now /\ ka.last_dpd <= now /\ dtls_state # "CONNECTED"
    BY DEF Init
  <2> QED
    BY <2>1, Zenon DEF DeadlineInv
<1>4. InTime
  BY DEF Init, InTime
<1> QED
  BY <1>1, <1>2, <1>3, <1>4 DEF ClockInv

\* All of it together is inductive.
LEMMA ClockStep == ClockInv /\ [Next]_vars => ClockInv'
  BY ChannelStep, HandshakeStep, DeadlineStep, InTimeStep DEF ClockInv

\* A handshake that gets nowhere is given up (dtls.c 283-307), at the latest when CSTP
\* next wakes the loop after its time, the time that CSTP reconnects took apart.
THEOREM HandshakeBoundedAlways == Spec => []HandshakeBounded
<1>1. ClockInv => HandshakeBounded
  BY DEF ClockInv, HandshakeInv, HandshakeBounded
<1> QED
  BY <1>1, ClockInit, ClockStep, PTL DEF Spec

\* A channel on which nothing is heard is given up (dtls.c 785-789) within two and a half
\* DPD periods, or after the sleep that follows its handshake, the time that CSTP
\* reconnects took apart.
THEOREM DeadPeerNoticedAlways == Spec => []DeadPeerNoticed
<1>1. ClockInv => DeadPeerNoticed
  BY Zenon DEF ClockInv, DeadlineInv, DeadPeerNoticed
<1> QED
  BY <1>1, ClockInit, ClockStep, PTL DEF Spec

-----------------------------------------------------------------------------
\* What the theorem below asks of the network: of the probes that leave between two
\* packets heard at most one is lost, and an answer takes at most half a DPD period;
\* Never, which is INT_MAX in the code, is beyond every deadline.
AnswersInTime == MaxLost <= 1 /\ Rtt <= Dpd \div 2 /\ MaxTime + 1 + Rtt < Never

\* The clock does not pass its bound.
Bounded == now <= MaxTime + 1

\* Only Tick moves the clock.
LEMMA BoundedStep == ChannelInv /\ Bounded /\ [Next]_vars => Bounded'
<1> SUFFICES ASSUME ChannelInv, Bounded, [Next]_vars PROVE Bounded'
  OBVIOUS
<1>0. now \in Nat /\ MaxTime \in Nat
  BY DtlsAssumption DEF ChannelInv, Numbers
<1>1. CASE Tick
  BY <1>0, <1>1 DEF Tick, Bounded
<1>2. CASE ~Tick
  BY <1>2 DEF Bounded, Next, vars, Handshake, Attempt, NotYet, Read, RekeyChannel, Dead,
     Probe, NoProbe, Drain, DrainFails, EndPass, CstpLost, CstpReconnects, Pause, Resume, Wake, Arrive,
     ServerDies
<1> QED
  BY <1>1, <1>2

\* A channel that has just been made waits for no answer; one that renegotiates in place
\* has just been heard, and what is in flight stays so.
LEMMA FreshNetwork ==
    ASSUME \/ Handshake \/ Attempt \/ Dead \/ DrainFails
           \/ RekeyChannel /\ method # "TUNNEL"
           \/ CstpReconnects /\ method = "NONE"
    PROVE  \/ answer' = Never
           \/ pc = "decide" /\ answer' = answer /\ alive' = alive
<1>1. CASE Handshake \/ Attempt \/ Dead \/ DrainFails
  BY <1>1 DEF Handshake, Attempt, Dead, DrainFails, dtls_reconnect, FreshNet
<1>2. CASE RekeyChannel /\ method # "TUNNEL"
  BY <1>2, Zenon DEF RekeyChannel, dtls_reconnect, FreshNet, net
<1>3. CASE CstpReconnects /\ method = "NONE"
  BY <1>3, Zenon DEF CstpReconnects, dtls_reconnect, FreshNet
<1> QED
  BY <1>1, <1>2, <1>3

\* The arithmetic of a probe: it leaves at the second it is due, and when it or one
\* that left before it is answered, the answer is there before the peer is overdue.
LEMMA ProbeAnswered ==
    ASSUME NEW k \in Timers, NEW n \in Nat, NEW a \in Nat, Dpd > 0, Rtt <= Dpd \div 2,
           n = ProbeDue(k), k.last_rx <= n, k.last_dpd <= n, n + Rtt < Never,
           \/ a # Never /\ n <= a /\ a <= Overdue(k)
           \/ a = Never /\ k.last_dpd <= k.last_rx
           \/ a = Never /\ k.last_dpd <= k.last_rx + Dpd
    PROVE  Sooner(a, n + Rtt) # Never /\ Sooner(a, n + Rtt) <= Overdue(k)
<1>0. k.last_rx \in Nat /\ k.last_dpd \in Nat
  BY DEF Timers
<1>1. Overdue(k) = k.last_rx + 2 * Dpd
  BY ProbeDueBounds
<1>2. a = Never => n <= k.last_rx + Dpd + Dpd \div 2
  BY <1>0, ProbeDueBounds, Silence
<1>3. a = Never => n + Rtt <= Overdue(k)
  BY <1>0, <1>1, <1>2, Silence
<1> QED
  BY <1>0, <1>1, <1>3, Silence DEF Sooner

\* Every step keeps the answer of a live server in time.
LEMMA AnswerStep ==
    ASSUME ClockInv, ClockInv', Bounded, AnswerInTime, AnswersInTime, [Next]_vars,
           Dpd > 0, Other <= Dpd, dtls_state' = "CONNECTED", alive'
    PROVE  /\ answer' # Never => now' <= answer' /\ answer' <= ka'.last_dpd + Rtt
           /\ held' = 0 =>
               /\ now' <= Overdue(ka')
               /\ answer' # Never /\ ~rx' => answer' <= Overdue(ka')
               /\ ka'.last_dpd > ka'.last_rx /\ ~rx' /\ answer' = Never =>
                    lost' > 0 /\ ka'.last_dpd <= ka'.last_rx + Dpd
<1>0. /\ ChannelInv /\ DeadlineInv /\ InTime /\ Flags
      /\ now \in Nat /\ ka \in Timers /\ ka.last_rx \in Nat /\ ka.last_dpd \in Nat
      /\ ka.last_rx <= now /\ ka.last_dpd <= now
      /\ ProbeDue(ka) \in Nat /\ Overdue(ka) = ka.last_rx + 2 * Dpd
      /\ answer \in Nat /\ lost \in Nat /\ lost <= MaxLost /\ MaxLost <= 1 /\ MaxLost \in Nat
      /\ Rtt <= Dpd \div 2 /\ now + Rtt < Never
  <2>1. ChannelInv /\ DeadlineInv /\ InTime /\ Flags
    BY DEF ClockInv, ChannelInv
  <2>2. answer \in Nat /\ lost \in 0..MaxLost /\ MaxLost \in Nat /\ MaxTime \in Nat
    BY <2>1, DtlsAssumption DEF ChannelInv, Numbers
  <2>3. now \in Nat
    BY <2>1, ClockFacts
  <2>4. now + Rtt < Never
    BY <2>2, <2>3, Silence DEF Bounded, AnswersInTime
  <2> QED
    BY <2>1, <2>2, <2>4, ClockFacts DEF AnswersInTime
<1>p. dtls_state = "CONNECTED" /\ held = 0 => now <= ProbeDue(ka)
  BY <1>0, Zenon DEF InTime
<1>a. dtls_state = "CONNECTED" /\ alive =>
        /\ answer # Never => now <= answer /\ answer <= ka.last_dpd + Rtt
        /\ held = 0 =>
            /\ now <= Overdue(ka)
            /\ answer # Never /\ ~rx => answer <= Overdue(ka)
            /\ ka.last_dpd > ka.last_rx /\ ~rx /\ answer = Never =>
                 lost > 0 /\ ka.last_dpd <= ka.last_rx + Dpd
  BY Zenon DEF AnswerInTime
<1>1. CASE \/ Handshake \/ Attempt \/ Dead \/ DrainFails
           \/ RekeyChannel /\ method # "TUNNEL"
           \/ CstpReconnects /\ method = "NONE"
  <2>1. ka'.last_rx = now /\ ka'.last_dpd = ka.last_dpd
    BY <1>0, <1>1, FreshSteps
  <2>2. now' = now
    BY <1>1 DEF Handshake, Attempt, Dead, DrainFails, RekeyChannel, CstpReconnects
  <2>3. Overdue(ka') = now + 2 * Dpd /\ ~(ka'.last_dpd > ka'.last_rx)
    BY <1>0, <2>1, Silence DEF Overdue
  <2>4. answer' # Never => now <= answer' /\ answer' <= ka.last_dpd + Rtt
    <3>1. CASE answer' = Never
      BY <3>1
    <3>2. CASE pc = "decide" /\ answer' = answer /\ alive' = alive
      <4>1. dtls_state = "CONNECTED" /\ alive
        BY <1>0, <3>2 DEF ChannelInv, Channel
      <4> QED
        BY <1>a, <3>2, <4>1, Zenon
    <3> QED
      BY <1>1, <3>1, <3>2, FreshNetwork
  <2>5. now <= now + 2 * Dpd /\ ka.last_dpd + Rtt <= now + 2 * Dpd
    BY <1>0, Silence
  <2>6. answer' \in Nat
    BY DEF ClockInv, ChannelInv, Numbers
  <2>7. answer' # Never => answer' <= Overdue(ka')
    BY <1>0, <2>3, <2>4, <2>5, <2>6, Silence
  <2> QED
    BY <2>1, <2>2, <2>3, <2>4, <2>5, <2>7, Zenon
<1>2. CASE \/ RekeyChannel /\ method = "TUNNEL"
           \/ CstpReconnects /\ method # "NONE"
           \/ NoProbe \/ Drain \/ CstpLost \/ Resume \/ Wake \/ NotYet \/ EndPass
           \/ UNCHANGED vars
  <2>1. now' = now /\ dtls_state' = dtls_state /\ held' = held
    BY <1>2 DEF RekeyChannel, CstpReconnects, NoProbe, Drain, CstpLost, Resume, Wake, NotYet,
       EndPass, channel, vars
  <2>2. ka'.last_rx = ka.last_rx /\ ka'.last_dpd = ka.last_dpd
    BY <1>0, <1>2 DEF RekeyChannel, CstpReconnects, NoProbe, Drain, CstpLost, Resume, Wake,
       NotYet, EndPass, channel, vars, Acted, Timers
  <2>3. Overdue(ka') = Overdue(ka)
    BY <2>2, SameDeadlines
  <2>4. UNCHANGED net
    BY <1>2, Zenon DEF RekeyChannel, CstpReconnects, NoProbe, Drain, CstpLost, Resume, Wake,
       NotYet, EndPass, vars, net
  <2>5. answer' = answer /\ rx' = rx /\ alive' = alive /\ lost' = lost
    BY <2>4, Zenon DEF net
  <2> QED
    BY <1>a, <2>1, <2>2, <2>3, <2>5, Zenon
<1>3. CASE Read
  <2>1. /\ now' = now /\ dtls_state' = dtls_state /\ answer' = answer /\ alive' = alive
        /\ dtls_state = "CONNECTED"
    BY <1>3, Zenon DEF Read
  <2>2. CASE rx
    <3>1. ka' = [ka EXCEPT !.last_rx = now]
      BY <1>3, <2>2 DEF Read
    <3>2. ka'.last_rx = now /\ ka'.last_dpd = ka.last_dpd
      BY <1>0, <3>1 DEF Timers
    <3>3. Overdue(ka') = now + 2 * Dpd /\ ~(ka'.last_dpd > ka'.last_rx)
      BY <1>0, <3>2, Silence DEF Overdue
    <3>4. answer # Never => now <= answer /\ answer <= ka.last_dpd + Rtt
      BY <1>a, <2>1, Zenon
    <3>5. now <= now + 2 * Dpd /\ (answer # Never => answer <= now + 2 * Dpd)
      BY <1>0, <3>4, Silence
    <3> QED
      BY <2>1, <3>2, <3>3, <3>4, <3>5, Zenon
  <2>3. CASE ~rx
    <3>1. ka' = ka /\ lost' = lost /\ held' = held
      BY <1>3, <2>3 DEF Read
    <3> QED
      BY <1>a, <2>1, <2>3, <3>1, Zenon
  <2> QED
    BY <2>2, <2>3
<1>4. CASE Probe
  <2>1. /\ now' = now /\ dtls_state = "CONNECTED" /\ held' = held
        /\ ka' = [ka EXCEPT !.last_dpd = now, !.last_tx = now]
    BY <1>0, <1>4 DEF Probe, ChannelInv, Channel
  <2>2. alive /\ rx' = rx
    BY <1>4, Zenon DEF Probe
  <2>3. held = 0 => now = ProbeDue(ka)
    BY <1>0, <1>4, <1>p, <2>1, ActionMeans DEF Probe
  <2>4. ka'.last_rx = ka.last_rx /\ ka'.last_dpd = now /\ Overdue(ka') = Overdue(ka)
    BY <1>0, <2>1 DEF Timers, Overdue
  <2>5. /\ answer # Never => now <= answer /\ answer <= ka.last_dpd + Rtt
        /\ held = 0 =>
            /\ now <= Overdue(ka)
            /\ answer # Never /\ ~rx => answer <= Overdue(ka)
            /\ ka.last_dpd > ka.last_rx /\ ~rx /\ answer = Never =>
                 lost > 0 /\ ka.last_dpd <= ka.last_rx + Dpd
    BY <1>a, <2>1, <2>2, Zenon
  <2>6. CASE lost < MaxLost /\ lost' = lost + 1 /\ answer' = answer
    <3>1. answer # Never => now <= answer /\ answer <= now + Rtt
      BY <1>0, <2>5, Silence
    <3>2. lost = 0 /\ lost' > 0
      BY <1>0, <2>6
    <3>3. held = 0 /\ ~rx /\ answer = Never => ~(ka.last_dpd > ka.last_rx)
      <4>1. ~(lost > 0)
        BY <3>2
      <4> QED
        BY <2>5, <4>1, Zenon
    <3>4. held = 0 /\ ~(ka.last_dpd > ka.last_rx) => now <= ka.last_rx + Dpd
      BY <1>0, <2>3, ProbeDueBounds, Silence
    <3> QED
      BY <2>1, <2>2, <2>4, <2>5, <2>6, <3>1, <3>2, <3>3, <3>4, Zenon
  <2>7. CASE answer' = Sooner(answer, now + Rtt) /\ lost' = lost
    <3>1. answer' # Never /\ now <= answer' /\ answer' <= now + Rtt
      BY <1>0, <2>5, <2>7, Silence DEF Sooner
    <3>2. held = 0 /\ ~rx => answer' <= Overdue(ka)
      <4> SUFFICES ASSUME held = 0, ~rx PROVE answer' <= Overdue(ka)
        OBVIOUS
      <4>1. \/ answer # Never /\ now <= answer /\ answer <= Overdue(ka)
            \/ answer = Never /\ ~(ka.last_dpd > ka.last_rx)
            \/ answer = Never /\ ka.last_dpd <= ka.last_rx + Dpd
        BY <2>5, Zenon
      <4>2. ~(ka.last_dpd > ka.last_rx) => ka.last_dpd <= ka.last_rx
        BY <1>0
      <4> QED
        BY <1>0, <2>3, <2>7, <4>1, <4>2, ProbeAnswered
    <3> QED
      BY <2>1, <2>2, <2>4, <2>5, <3>1, <3>2, Zenon
  <2> QED
    BY <1>4, <2>2, <2>6, <2>7, Zenon DEF Probe
<1>5. CASE Pause
  BY <1>5 DEF Pause
<1>6. CASE Tick
  <2>1. /\ now' = now + 1 /\ ka' = ka /\ dtls_state' = dtls_state /\ dtls_state = "CONNECTED"
        /\ answer # Never => now < answer
    BY <1>6 DEF Tick, channel
  <2>2. answer' = answer /\ rx' = rx /\ alive' = alive /\ lost' = lost
    BY <1>6, Zenon DEF Tick, net
  <2>3. answer # Never => now + 1 <= answer /\ answer <= ka.last_dpd + Rtt
    <3>1. answer # Never => answer <= ka.last_dpd + Rtt
      BY <1>a, <2>1, <2>2, Zenon
    <3> QED
      BY <1>0, <2>1, <3>1
  <2>4. ASSUME held' = 0
        PROVE  /\ now' <= Overdue(ka')
               /\ answer' # Never /\ ~rx' => answer' <= Overdue(ka')
               /\ ka'.last_dpd > ka'.last_rx /\ ~rx' /\ answer' = Never =>
                    lost' > 0 /\ ka'.last_dpd <= ka'.last_rx + Dpd
    <3>1. pc # "reconnect" /\ pc # "paused"
      <4>1. pc # "paused"
        BY <1>0, <2>1, Zenon DEF DeadlineInv
      <4>2. held \in Nat
        BY <1>0, ClockFacts
      <4>3. held + 1 # 0
        BY <4>2
      <4>4. pc # "reconnect"
        BY <1>6, <2>4, <4>3 DEF Tick
      <4> QED
        BY <4>1, <4>4
    <3>2. ~rx
      <4>1. pc \notin {"paused", "reconnect"}
        BY <3>1
      <4> QED
        BY <1>6, <4>1, Zenon DEF Tick
    <3>3. held = 0
      BY <1>6, <2>4, <3>1 DEF Tick
    <3>4. /\ answer # Never => answer <= Overdue(ka)
          /\ ka.last_dpd > ka.last_rx /\ answer = Never =>
               lost > 0 /\ ka.last_dpd <= ka.last_rx + Dpd
      BY <1>a, <2>1, <2>2, <3>2, <3>3, Zenon
    <3>5. now' <= ProbeDue(ka')
      BY <2>1, <2>4, Zenon DEF ClockInv, InTime
    <3>6. now + 1 <= Overdue(ka)
      <4>1. CASE answer # Never
        BY <1>0, <2>1, <3>4, <4>1, Silence
      <4>2. CASE answer = Never
        BY <1>0, <2>1, <3>4, <3>5, <4>2, ProbeDueBounds, Silence
      <4> QED
        BY <4>1, <4>2
    <3> QED
      BY <2>1, <2>2, <3>2, <3>4, <3>6, Zenon
  <2> QED
    BY <2>1, <2>2, <2>3, <2>4, Zenon
<1>7. CASE Arrive
  <2>1. /\ now' = now /\ ka' = ka /\ dtls_state = "CONNECTED" /\ answer' = Never
        /\ held' = held
    BY <1>7 DEF Arrive, channel
  <2>2. alive /\ rx' = TRUE
    BY <1>7, Zenon DEF Arrive
  <2> QED
    BY <1>a, <2>1, <2>2, Zenon
<1>8. CASE ServerDies
  BY <1>8, Zenon DEF ServerDies
<1> QED
  BY <1>1, <1>2, <1>3, <1>4, <1>5, <1>6, <1>7, <1>8 DEF Next

\* A peer is declared dead only when it is overdue, which a server that answers is not.
LEMMA NotWronged ==
    ASSUME ClockInv, AnswerInTime, SurvivesLostProbe, [Next]_vars
    PROVE  SurvivesLostProbe'
<1> SUFFICES ASSUME Other <= Dpd, ~wronged PROVE ~wronged'
  BY DEF SurvivesLostProbe
<1>1. CASE Dead
  <2>1. pc = "decide" /\ keepalive_action(ka, now) = "KA_DPD_DEAD"
    BY <1>1 DEF Dead
  <2>2. now \in Nat /\ ka \in Timers /\ ka.last_rx \in Nat /\ dtls_state = "CONNECTED"
    BY <2>1, ClockFacts DEF ClockInv, ChannelInv, Channel
  <2>3. Dpd > 0 /\ ~(now <= Overdue(ka))
    BY <2>1, <2>2, ActionMeans, Silence DEF Overdue
  <2>4. ~(alive /\ held = 0)
    BY <2>2, <2>3, Zenon DEF AnswerInTime
  <2> QED
    BY <1>1, <2>4, Zenon DEF Dead
<1>2. CASE ~Dead
  BY <1>2 DEF Next, vars, Handshake, Attempt, NotYet, Read, RekeyChannel,
     Probe, NoProbe, Drain, DrainFails, EndPass, CstpLost, CstpReconnects, Pause, Resume, Wake, Tick,
     Arrive, ServerDies
<1> QED
  BY <1>1, <1>2

\* One lost probe does not cost a channel whose server answers in time (mainloop.c
\* 281-291), for every DPD period, rekey method and sequence of reconnects and pauses,
\* if CSTP wakes the loop once in a DTLS DPD period and no CSTP reconnect has held the
\* loop up since the server was last heard.
THEOREM SurvivesLostProbeAlways ==
    ASSUME AnswersInTime
    PROVE  Spec => []SurvivesLostProbe
<1> DEFINE Inv == ClockInv /\ Bounded /\ AnswerInTime /\ SurvivesLostProbe
<1>1. Init => Inv
  <2> SUFFICES ASSUME Init PROVE Inv
    OBVIOUS
  <2>1. now = 1 /\ dtls_state # "CONNECTED" /\ MaxTime \in Nat
    BY DtlsAssumption DEF Init
  <2>2. Bounded
    BY <2>1 DEF Bounded
  <2>3. ~wronged
    BY Zenon DEF Init
  <2> QED
    BY <2>1, <2>2, <2>3, ClockInit, Zenon DEF AnswerInTime, SurvivesLostProbe
<1>2. Inv /\ [Next]_vars => Inv'
  <2> SUFFICES ASSUME Inv, [Next]_vars PROVE Inv'
    OBVIOUS
  <2>1. ClockInv'
    BY ClockStep
  <2>2. Bounded'
    BY BoundedStep DEF ClockInv
  <2>3. AnswerInTime'
    BY <2>1, AnswerStep, Zenon DEF AnswerInTime
  <2>4. SurvivesLostProbe'
    BY NotWronged
  <2> QED
    BY <2>1, <2>2, <2>3, <2>4
<1> QED
  BY <1>1, <1>2, PTL DEF Spec
=============================================================================
