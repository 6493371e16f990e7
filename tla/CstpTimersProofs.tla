--------------------------- MODULE CstpTimersProofs ---------------------------
(***************************************************************************)
(* For every DPD, keepalive and rekey period, every slack and every round  *)
(* trip: CstpTimers is type correct, a silent server is noticed within two *)
(* and a half DPD periods, the keepalive is not forgotten, and a server    *)
(* that answers in time is not declared dead.                              *)
(***************************************************************************)
EXTENDS CstpTimers, TLAPS

\* The last second before which the loop must be awake on a silent connection.
Limit(k) == k.last_rx + 2 * Dpd + Dpd \div 2

\* DeadPeerNoticed is not inductive: that the loop is never late depends on how
\* long it is about to sleep, and on the last probe having left while the
\* server still had a chance to answer.
DeadlineInv ==
    Dpd > 0 =>
        /\ busy <= Slack
        /\ ka.last_dpd <= Overdue(ka)
        /\ ka.last_rx <= now
        /\ pc # "sleep" => now <= Limit(ka) + busy
        /\ pc = "sleep" => now + timeout <= Limit(ka)

\* A timeout is never negative: a deadline is subtracted from only if it is not
\* yet due (ka_check_deadline, mainloop.c 232-239).
LEMMA ShortenedType ==
    ASSUME NEW k \in Timers, NEW n \in Nat, NEW t \in Nat
    PROVE  Shortened(k, keepalive_action(k, n), n, t) \in Nat
  BY TimerAssumption DEF Shortened, SoonerIf, Sooner, keepalive_action, RekeyIsDue,
     PeerIsDead, ProbeIsDue, KeepaliveIsDue, ProbeDue, Overdue, Timers

\* The same of the stalled case (ka_stalled_action, mainloop.c 243-259).
LEMMA ShortenedStalledType ==
    ASSUME NEW k \in Timers, NEW n \in Nat, NEW t \in Nat,
           ka_stalled_action(k, n) = "KA_NONE"
    PROVE  ShortenedStalled(k, n, t) \in Nat
  BY TimerAssumption DEF ShortenedStalled, SoonerIf, Sooner, ka_stalled_action,
     RekeyIsDue, Overdue, Timers

\* When keepalive_action finds nothing to do, the loop wakes up before the limit.
LEMMA SleepsWithinLimit ==
    ASSUME NEW k \in Timers, NEW n \in Nat, NEW t \in Nat, Dpd > 0,
           k.last_dpd <= Overdue(k),
           keepalive_action(k, n) = "KA_NONE"
    PROVE  n + Shortened(k, "KA_NONE", n, t) <= Limit(k)
  BY TimerAssumption DEF Shortened, SoonerIf, Sooner, keepalive_action, RekeyIsDue,
     PeerIsDead, ProbeIsDue, KeepaliveIsDue, ProbeDue, Overdue, Timers, Limit

\* A stalled write sleeps no longer than the overdue second.
LEMMA StallsWithinLimit ==
    ASSUME NEW k \in Timers, NEW n \in Nat, NEW t \in Nat, Dpd > 0,
           ka_stalled_action(k, n) = "KA_NONE"
    PROVE  n + ShortenedStalled(k, n, t) <= Limit(k)
  BY TimerAssumption DEF ShortenedStalled, SoonerIf, Sooner, ka_stalled_action,
     RekeyIsDue, Overdue, Timers, Limit

-----------------------------------------------------------------------------
\* Every step of the loop, of the clock and of the server keeps the types.
LEMMA TypeStep == TypeOK /\ [Next]_vars => TypeOK'
<1> SUFFICES ASSUME TypeOK, [Next]_vars PROVE TypeOK'
  OBVIOUS
<1> USE TimerAssumption, CstpAssumption DEF TypeOK, Timers, Places, Packets
<1>1. CASE Read
  BY <1>1 DEF Read
<1>2. CASE ReadFails
  BY <1>2 DEF ReadFails, server
<1>3. CASE WriteDone
  BY <1>3 DEF WriteDone, Sooner
<1>4. CASE WriteStalls
  <2> DEFINE sent == [ka EXCEPT !.last_tx = now]
             act == ka_stalled_action(sent, now)
  <2>1. sent \in Timers
    OBVIOUS
  <2>2. act \in {"KA_NONE", "KA_REKEY", "KA_DPD_DEAD"}
    BY DEF ka_stalled_action
  <2>3. ka' \in Timers
    BY <1>4, <2>1, <2>2 DEF WriteStalls, Acted
  <2>4. timeout' \in Nat
    BY <1>4, <2>1, ShortenedStalledType DEF WriteStalls
  <2>5. why' \in {"none", "rekey", "dead", "stalled", "io"} /\ pc' \in Places
    BY <1>4, <2>2 DEF WriteStalls
  <2> QED
    BY <1>4, <2>3, <2>4, <2>5 DEF WriteStalls, server
<1>5. CASE WriteFails
  BY <1>5 DEF WriteFails, server
<1>6. CASE AnswerProbe
  BY <1>6 DEF AnswerProbe, server
<1>7. CASE GiveUp
  BY <1>7 DEF GiveUp, Acted, server
<1>8. CASE SendControl
  BY <1>8, ShortenedType DEF SendControl, Acted, server
<1>9. CASE SendData
  BY <1>9, ShortenedType DEF SendData, server
<1>10. CASE Sleep
  <2>1. timeout' \in Nat
    BY <1>10, ShortenedType DEF Sleep
  <2> QED
    BY <1>10, <2>1 DEF Sleep, server
<1>11. CASE Wake
  BY <1>11 DEF Wake, server
<1>12. CASE Reconnect
  BY <1>12 DEF Reconnect, Restarted
<1>13. CASE Tick
  BY <1>13 DEF Tick, server
<1>14. CASE Arrive
  BY <1>14 DEF Arrive, loop
<1>15. CASE ServerDies
  BY <1>15 DEF ServerDies, loop
<1>16. CASE UNCHANGED vars
  BY <1>16 DEF vars, loop, server
<1> QED
  BY <1>1, <1>2, <1>3, <1>4, <1>5, <1>6, <1>7, <1>8, <1>9, <1>10, <1>11, <1>12,
     <1>13, <1>14, <1>15, <1>16 DEF Next, Step

\* Type correctness of the CSTP timers (struct keepalive_info, the timeout and
\* the packet in hand) in every reachable state.
THEOREM TypeCorrect == Spec => []TypeOK
<1>1. Init => TypeOK
  <2> SUFFICES ASSUME Init PROVE TypeOK
    OBVIOUS
  <2>1. ka \in Timers /\ now \in Nat /\ busy \in Nat /\ queued \in Nat
    BY DEF Init, Timers
  <2>2. timeout \in Nat /\ answer \in Nat
    BY TimerAssumption DEF Init
  <2> QED
    BY <2>1, <2>2 DEF Init, TypeOK, Places, Packets
<1> QED
  BY <1>1, TypeStep, PTL DEF Spec

-----------------------------------------------------------------------------
\* No step makes the loop later on a silent connection than DeadlineInv allows.
LEMMA DeadlineStep == TypeOK /\ DeadlineInv /\ [Next]_vars => DeadlineInv'
<1> SUFFICES ASSUME TypeOK, DeadlineInv, [Next]_vars, Dpd > 0
             PROVE  DeadlineInv'
  BY DEF DeadlineInv
<1> USE TimerAssumption, CstpAssumption DEF TypeOK, Timers, DeadlineInv, Overdue, Limit
<1>1. CASE Read
  BY <1>1 DEF Read
<1>2. CASE ReadFails
  BY <1>2 DEF ReadFails
<1>3. CASE WriteDone
  BY <1>3 DEF WriteDone
<1>4. CASE WriteStalls
  <2> DEFINE sent == [ka EXCEPT !.last_tx = now]
             act == ka_stalled_action(sent, now)
  <2>1. sent \in Timers /\ sent.last_rx = ka.last_rx /\ sent.last_dpd = ka.last_dpd
    OBVIOUS
  <2>2. act \in {"KA_NONE", "KA_REKEY", "KA_DPD_DEAD"}
    BY DEF ka_stalled_action
  <2>3. ka'.last_rx = ka.last_rx /\ ka'.last_dpd = ka.last_dpd
    BY <1>4, <2>1, <2>2 DEF WriteStalls, Acted
  <2>4. pc' = "sleep" => now + timeout' <= Limit(ka')
    <3>1. pc' = "sleep" => act = "KA_NONE" /\ timeout' = ShortenedStalled(sent, now, timeout)
      BY <1>4 DEF WriteStalls
    <3> QED
      BY <2>1, <2>3, <3>1, StallsWithinLimit
  <2> QED
    BY <1>4, <2>3, <2>4 DEF WriteStalls
<1>5. CASE WriteFails
  BY <1>5 DEF WriteFails
<1>6. CASE AnswerProbe
  BY <1>6 DEF AnswerProbe
<1>7. CASE GiveUp
  BY <1>7 DEF GiveUp, Acted
<1>8. CASE SendControl
  BY <1>8 DEF SendControl, Acted, keepalive_action, RekeyIsDue, PeerIsDead,
     ProbeIsDue, KeepaliveIsDue, ProbeDue
<1>9. CASE SendData
  BY <1>9 DEF SendData
<1>10. CASE Sleep
  <2>1. now + timeout' <= Limit(ka)
    BY <1>10, SleepsWithinLimit DEF Sleep
  <2> QED
    BY <1>10, <2>1 DEF Sleep
<1>11. CASE Wake
  BY <1>11 DEF Wake
<1>12. CASE Reconnect
  BY <1>12 DEF Reconnect, Restarted
<1>13. CASE Tick
  BY <1>13 DEF Tick
<1>14. CASE Arrive
  BY <1>14 DEF Arrive, loop
<1>15. CASE ServerDies
  BY <1>15 DEF ServerDies, loop
<1>16. CASE UNCHANGED vars
  BY <1>16 DEF vars, loop
<1> QED
  BY <1>1, <1>2, <1>3, <1>4, <1>5, <1>6, <1>7, <1>8, <1>9, <1>10, <1>11, <1>12,
     <1>13, <1>14, <1>15, <1>16 DEF Next, Step

\* Dead peer detection has a deadline: for every DPD period, no connection is
\* kept more than two and a half periods, and the slack of one pass, after the
\* last packet from the server.
THEOREM DeadPeerNoticedAlways == Spec => []DeadPeerNoticed
<1>1. Init => DeadlineInv
  BY TimerAssumption, CstpAssumption DEF Init, DeadlineInv, Overdue, Limit
<1>2. TypeOK /\ DeadlineInv => DeadPeerNoticed
  BY TimerAssumption, CstpAssumption
     DEF TypeOK, Timers, Places, DeadlineInv, DeadPeerNoticed, Limit, Overdue
<1> QED
  BY <1>1, <1>2, TypeCorrect, DeadlineStep, PTL DEF Spec
-----------------------------------------------------------------------------
\* The strengthening of KeepaliveKept: how long the loop may still sleep counts,
\* and a write in progress always has a packet in hand.
KeepaliveInv ==
    /\ pc = "write" => current # "none"
    /\ busy <= Slack
    /\ Keepalive > 0 /\ current = "none" =>
         /\ pc # "sleep" => now <= ka.last_tx + Keepalive + busy
         /\ pc = "sleep" => now + timeout <= ka.last_tx + Keepalive

\* When keepalive_action finds nothing to do, the keepalive is within the timeout.
LEMMA SleepsWithinKeepalive ==
    ASSUME NEW k \in Timers, NEW n \in Nat, NEW t \in Nat, Keepalive > 0,
           keepalive_action(k, n) = "KA_NONE"
    PROVE  n + Shortened(k, "KA_NONE", n, t) <= k.last_tx + Keepalive
  BY TimerAssumption DEF Shortened, SoonerIf, Sooner, keepalive_action, RekeyIsDue,
     PeerIsDead, ProbeIsDue, KeepaliveIsDue, ProbeDue, Overdue, Timers

\* No step postpones the next packet to the gateway beyond the period.
LEMMA KeepaliveStep == TypeOK /\ KeepaliveInv /\ [Next]_vars => KeepaliveInv'
<1> SUFFICES ASSUME TypeOK, KeepaliveInv, [Next]_vars PROVE KeepaliveInv'
  OBVIOUS
<1> USE TimerAssumption, CstpAssumption DEF TypeOK, Timers, KeepaliveInv
<1>1. CASE Read
  BY <1>1 DEF Read
<1>2. CASE ReadFails
  BY <1>2 DEF ReadFails
<1>3. CASE WriteDone
  BY <1>3 DEF WriteDone
<1>4. CASE WriteStalls
  BY <1>4 DEF WriteStalls
<1>5. CASE WriteFails
  BY <1>5 DEF WriteFails
<1>6. CASE AnswerProbe
  BY <1>6 DEF AnswerProbe
<1>7. CASE GiveUp
  BY <1>7 DEF GiveUp, Acted
<1>8. CASE SendControl
  BY <1>8 DEF SendControl
<1>9. CASE SendData
  BY <1>9 DEF SendData
<1>10. CASE Sleep
  <2>1. Keepalive > 0 => now + timeout' <= ka.last_tx + Keepalive
    BY <1>10, SleepsWithinKeepalive DEF Sleep
  <2> QED
    BY <1>10, <2>1 DEF Sleep
<1>11. CASE Wake
  BY <1>11 DEF Wake
<1>12. CASE Reconnect
  BY <1>12 DEF Reconnect, Restarted
<1>13. CASE Tick
  BY <1>13 DEF Tick
<1>14. CASE Arrive
  BY <1>14 DEF Arrive, loop
<1>15. CASE ServerDies
  BY <1>15 DEF ServerDies, loop
<1>16. CASE UNCHANGED vars
  BY <1>16 DEF vars, loop
<1> QED
  BY <1>1, <1>2, <1>3, <1>4, <1>5, <1>6, <1>7, <1>8, <1>9, <1>10, <1>11, <1>12,
     <1>13, <1>14, <1>15, <1>16 DEF Next, Step

\* The CSTP keepalive is never forgotten: whatever else the loop sends, the
\* gateway hears from it within every keepalive period while the socket drains.
THEOREM KeepaliveKeptAlways == Spec => []KeepaliveKept
<1>1. Init => KeepaliveInv
  BY TimerAssumption, CstpAssumption DEF Init, KeepaliveInv
<1>2. TypeOK /\ KeepaliveInv => KeepaliveKept
  BY TimerAssumption, CstpAssumption DEF TypeOK, Timers, KeepaliveInv, KeepaliveKept
<1> QED
  BY <1>1, <1>2, TypeCorrect, KeepaliveStep, PTL DEF Spec
-----------------------------------------------------------------------------
\* What NoFalseDeath asks of the network and of the machine: an answer and the two
\* passes it may meet, the one that sends the probe and the one that is asked about the
\* peer, fit into a DPD period; and Never, which is INT_MAX, is beyond every deadline.
PromptEnough == 2 * Slack + Rtt <= Dpd /\ MaxTime + 1 + Rtt < Never

\* The latest second at which the first probe is answered.
Latest(k) == k.last_rx + Dpd + Slack + Rtt

\* The loop is awake when a probe is due, unless a write stalled.
Punctual ==
    Dpd > 0 =>
        /\ busy <= Slack /\ ka.last_rx <= now /\ ka.last_dpd <= now /\ now <= MaxTime + 1
        /\ ~stalled =>
             /\ pc = "sleep" => now + timeout <= ProbeDue(ka)
             /\ pc # "sleep" => now <= ProbeDue(ka) + busy

\* A live server's answer is on its way and will be there in time, or the probe is still
\* in hand, or something arrived in this pass and is read in the next.
Heard ==
    Dpd > 0 /\ alive =>
        /\ answer # Never => now <= answer /\ answer <= now + Rtt
        /\ ~stalled /\ pc # "reconnect" =>
             /\ rx = "none" /\ answer # Never => answer <= Latest(ka)
             /\ rx = "none" /\ answer = Never /\ ka.last_dpd > ka.last_rx =>
                  pc = "write" /\ current = "dpd" /\ now <= ka.last_rx + Dpd + busy
             /\ rx # "none" /\ pc \in {"write", "decide"} => now <= Latest(ka) + busy

\* The two ways ProbeDue is computed.
LEMMA ProbeDueCases ==
    ASSUME NEW k \in Timers
    PROVE  /\ Dpd \in Nat /\ Dpd \div 2 \in Nat /\ ProbeDue(k) \in Nat
           /\ k.last_rx \in Nat /\ k.last_dpd \in Nat
           /\ Overdue(k) = k.last_rx + 2 * Dpd
           /\ k.last_dpd <= k.last_rx => ProbeDue(k) = k.last_rx + Dpd
           /\ k.last_dpd > k.last_rx => ProbeDue(k) = k.last_dpd + Dpd \div 2
  BY TimerAssumption DEF ProbeDue, Overdue, Timers

\* Timers that differ in last_tx or last_rekey alone have the same deadlines.
LEMMA SameProbeDue ==
    ASSUME NEW k, NEW l, k.last_rx = l.last_rx, k.last_dpd = l.last_dpd
    PROVE  ProbeDue(k) = ProbeDue(l) /\ Latest(k) = Latest(l)
  BY DEF ProbeDue, Latest

\* When keepalive_action finds nothing to do, the next probe is within the timeout.
LEMMA SleepsUntilProbe ==
    ASSUME NEW k \in Timers, NEW n \in Nat, NEW t \in Nat, Dpd > 0,
           keepalive_action(k, n) = "KA_NONE"
    PROVE  n + Shortened(k, "KA_NONE", n, t) <= ProbeDue(k)
  BY TimerAssumption DEF Shortened, SoonerIf, Sooner, keepalive_action, RekeyIsDue,
     PeerIsDead, ProbeIsDue, KeepaliveIsDue, ProbeDue, Overdue, Timers

\* The steps of the loop that leave last_rx and last_dpd alone.
LEMMA OtherClocks ==
    ASSUME TypeOK,
           \/ ReadFails \/ WriteDone \/ WriteStalls \/ WriteFails \/ AnswerProbe \/ GiveUp
           \/ SendControl /\ keepalive_action(ka, now) # "KA_DPD"
           \/ SendData \/ Sleep \/ Wake
    PROVE  ka'.last_rx = ka.last_rx /\ ka'.last_dpd = ka.last_dpd /\ now' = now
<1>1. ka \in Timers
  BY DEF TypeOK
<1>2. ka_stalled_action([ka EXCEPT !.last_tx = now], now) # "KA_DPD"
  BY DEF ka_stalled_action
<1>3. CASE WriteStalls
  BY <1>1, <1>2, <1>3 DEF WriteStalls, Acted, Timers
<1>4. CASE GiveUp
  BY <1>1, <1>4 DEF GiveUp, Acted, Timers
<1>5. CASE SendControl /\ keepalive_action(ka, now) # "KA_DPD"
  BY <1>1, <1>5 DEF SendControl, Acted, Timers
<1>6. CASE ReadFails \/ WriteDone \/ WriteFails \/ AnswerProbe \/ SendData \/ Sleep \/ Wake
  BY <1>1, <1>6 DEF ReadFails, WriteDone, WriteFails, AnswerProbe, SendData, Sleep, Wake, Timers
<1> QED
  BY <1>3, <1>4, <1>5, <1>6

\* The loop stays punctual.
LEMMA PunctualStep == TypeOK /\ Punctual /\ [Next]_vars => Punctual'
<1> SUFFICES ASSUME TypeOK, Punctual, [Next]_vars, Dpd > 0
             PROVE  /\ busy' <= Slack /\ ka'.last_rx <= now' /\ ka'.last_dpd <= now'
                    /\ now' <= MaxTime + 1
                    /\ ~stalled' =>
                         /\ pc' = "sleep" => now' + timeout' <= ProbeDue(ka')
                         /\ pc' # "sleep" => now' <= ProbeDue(ka') + busy'
  BY DEF Punctual
<1>0. /\ now \in Nat /\ timeout \in Nat /\ busy \in Nat /\ Slack \in Nat /\ MaxTime \in Nat
      /\ ka \in Timers /\ ka.last_rx \in Nat /\ ka.last_dpd \in Nat /\ ProbeDue(ka) \in Nat
      /\ busy <= Slack /\ ka.last_rx <= now /\ ka.last_dpd <= now /\ now <= MaxTime + 1
      /\ Dpd \in Nat /\ Dpd \div 2 \in Nat
  <2>1. /\ now \in Nat /\ timeout \in Nat /\ busy \in Nat /\ ka \in Timers
        /\ Slack \in Nat /\ MaxTime \in Nat
    BY CstpAssumption DEF TypeOK
  <2>2. busy <= Slack /\ ka.last_rx <= now /\ ka.last_dpd <= now /\ now <= MaxTime + 1
    BY Zenon DEF Punctual
  <2> QED
    BY <2>1, <2>2, ProbeDueCases
<1>p. ~stalled => /\ pc = "sleep" => now + timeout <= ProbeDue(ka)
                  /\ pc # "sleep" => now <= ProbeDue(ka) + busy
  BY Zenon DEF Punctual
<1>1. CASE Read
  <2>1. now' = now /\ busy' = busy /\ pc = "read" /\ pc' # "sleep"
    BY <1>1 DEF Read
  <2>2. CASE rx = "none"
    <3>1. ka' = ka
      BY <1>1, <2>2 DEF Read
    <3>2. ~stalled' => ~stalled
      BY <1>1, <2>2, Zenon DEF Read
    <3> QED
      BY <1>0, <1>p, <2>1, <3>1, <3>2
  <2>3. CASE rx # "none"
    <3>1. ka' = [ka EXCEPT !.last_rx = now]
      BY <1>1, <2>3 DEF Read
    <3>2. ka'.last_rx = now /\ ka'.last_dpd = ka.last_dpd /\ ka' \in Timers
      BY <1>0, <3>1 DEF Timers
    <3>3. ProbeDue(ka') = now + Dpd
      BY <1>0, <3>2, ProbeDueCases
    <3> QED
      BY <1>0, <2>1, <3>2, <3>3
  <2> QED
    BY <2>2, <2>3
<1>2. CASE SendControl /\ keepalive_action(ka, now) = "KA_DPD"
  <2>1. now' = now /\ busy' = busy /\ pc' = "write" /\ ka' = [ka EXCEPT !.last_dpd = now]
    BY <1>2 DEF SendControl, Acted
  <2>2. ka'.last_rx = ka.last_rx /\ ka'.last_dpd = now /\ ka' \in Timers
    BY <1>0, <2>1 DEF Timers
  <2>3. now <= ProbeDue(ka') /\ ProbeDue(ka') \in Nat
    BY <1>0, <2>2, ProbeDueCases
  <2> QED
    BY <1>0, <2>1, <2>2, <2>3
<1>3. CASE WriteStalls
  <2>1. ka'.last_rx = ka.last_rx /\ ka'.last_dpd = ka.last_dpd /\ now' = now
    BY <1>3, OtherClocks
  <2>2. stalled' = TRUE /\ busy' = busy
    BY <1>3, Zenon DEF WriteStalls
  <2> QED
    BY <1>0, <2>1, <2>2
<1>4. CASE \/ ReadFails \/ WriteDone \/ WriteFails \/ AnswerProbe \/ GiveUp
           \/ SendControl /\ keepalive_action(ka, now) # "KA_DPD"
           \/ SendData
  <2>1. ka'.last_rx = ka.last_rx /\ ka'.last_dpd = ka.last_dpd /\ now' = now
    BY <1>4, OtherClocks
  <2>2. ProbeDue(ka') = ProbeDue(ka)
    BY <2>1, SameProbeDue
  <2>3. busy' = busy /\ pc # "sleep" /\ pc' # "sleep"
    BY <1>4 DEF ReadFails, WriteDone, WriteFails, AnswerProbe, GiveUp, SendControl, SendData
  <2>4. stalled' = stalled
    BY <1>4, Zenon DEF ReadFails, WriteDone, WriteFails, AnswerProbe, GiveUp, SendControl, SendData
  <2> QED
    BY <1>0, <1>p, <2>1, <2>2, <2>3, <2>4
<1>5. CASE Sleep
  <2>1. ka' = ka /\ now' = now /\ busy' = busy /\ pc' = "sleep"
    BY <1>5 DEF Sleep
  <2>2. now + timeout' <= ProbeDue(ka)
    BY <1>0, <1>5, SleepsUntilProbe DEF Sleep
  <2> QED
    BY <1>0, <2>1, <2>2
<1>6. CASE Wake
  <2>1. ka' = ka /\ now' = now /\ busy' = 0 /\ pc = "sleep" /\ pc' = "read"
    BY <1>6 DEF Wake
  <2>2. stalled' = stalled
    BY <1>6, Zenon DEF Wake
  <2>3. ~stalled => now <= ProbeDue(ka)
    BY <1>0, <1>p, <2>1
  <2> QED
    BY <1>0, <2>1, <2>2, <2>3
<1>7. CASE Reconnect
  <2>1. now' = now /\ busy' = 0 /\ pc' = "read" /\ ka' = Restarted(ka, now)
    BY <1>7 DEF Reconnect
  <2>2. ka'.last_rx = now /\ ka'.last_dpd = ka.last_dpd /\ ka' \in Timers
    BY <1>0, <2>1 DEF Restarted, Timers
  <2>3. ProbeDue(ka') = now + Dpd
    BY <1>0, <2>2, ProbeDueCases
  <2> QED
    BY <1>0, <2>1, <2>2, <2>3
<1>8. CASE Tick
  <2>1. now' = now + 1 /\ now < MaxTime /\ ka' = ka /\ pc' = pc
    BY <1>8 DEF Tick
  <2>2. stalled' = stalled
    BY <1>8, Zenon DEF Tick
  <2>3. \/ pc = "sleep" /\ timeout > 0 /\ timeout' = timeout - 1 /\ busy' = busy
        \/ pc # "sleep" /\ busy < Slack /\ busy' = busy + 1
    BY <1>8, Zenon DEF Tick
  <2>4. busy' <= Slack /\ ka'.last_rx <= now' /\ ka'.last_dpd <= now' /\ now' <= MaxTime + 1
    BY <1>0, <2>1, <2>3
  <2>5. ~stalled => /\ pc' = "sleep" => now' + timeout' <= ProbeDue(ka')
                    /\ pc' # "sleep" => now' <= ProbeDue(ka') + busy'
    BY <1>0, <1>p, <2>1, <2>3
  <2> QED
    BY <2>2, <2>4, <2>5, Zenon
<1>9. CASE Arrive \/ ServerDies \/ UNCHANGED vars
  <2>1. UNCHANGED <<ka, now, loop>>
    BY <1>9, Zenon DEF Arrive, ServerDies, vars
  <2>2. UNCHANGED <<ka, now, pc, busy, timeout, stalled>>
    BY <2>1, Zenon DEF loop
  <2> QED
    BY <1>0, <1>p, <2>2
<1> QED
  BY <1>1, <1>2, <1>3, <1>4, <1>5, <1>6, <1>7, <1>8, <1>9 DEF Next, Step

\* Every step keeps the answer of a live server in time.
LEMMA HeardStep ==
    ASSUME TypeOK, TypeOK', Punctual, Heard, PromptEnough, [Next]_vars, Dpd > 0, alive'
    PROVE  /\ answer' # Never => now' <= answer' /\ answer' <= now' + Rtt
           /\ ~stalled' /\ pc' # "reconnect" =>
                /\ rx' = "none" /\ answer' # Never => answer' <= Latest(ka')
                /\ rx' = "none" /\ answer' = Never /\ ka'.last_dpd > ka'.last_rx =>
                     pc' = "write" /\ current' = "dpd" /\ now' <= ka'.last_rx + Dpd + busy'
                /\ rx' # "none" /\ pc' \in {"write", "decide"} => now' <= Latest(ka') + busy'
<1>0. /\ now \in Nat /\ busy \in Nat /\ Slack \in Nat /\ Rtt \in Nat /\ answer \in Nat
      /\ Never \in Nat /\ Dpd \in Nat /\ timeout \in Nat
      /\ ka \in Timers /\ ka.last_rx \in Nat /\ ka.last_dpd \in Nat /\ ProbeDue(ka) \in Nat
      /\ busy <= Slack /\ ka.last_rx <= now /\ ka.last_dpd <= now
      /\ now + Rtt < Never
  <2>1. /\ now \in Nat /\ busy \in Nat /\ answer \in Nat /\ timeout \in Nat /\ ka \in Timers
        /\ Slack \in Nat /\ Rtt \in Nat /\ Never \in Nat /\ MaxTime \in Nat
    BY CstpAssumption, TimerAssumption DEF TypeOK
  <2>2. busy <= Slack /\ ka.last_rx <= now /\ ka.last_dpd <= now /\ now <= MaxTime + 1
    BY Zenon DEF Punctual
  <2>3. now + Rtt < Never
    BY <2>1, <2>2 DEF PromptEnough
  <2> QED
    BY <2>1, <2>2, <2>3, ProbeDueCases
<1>p. ~stalled => /\ pc = "sleep" => now + timeout <= ProbeDue(ka)
                  /\ pc # "sleep" => now <= ProbeDue(ka) + busy
  BY Zenon DEF Punctual
<1>q. ~stalled /\ ~(ka.last_dpd > ka.last_rx) => now <= ka.last_rx + Dpd + busy
  <2>1. ~(ka.last_dpd > ka.last_rx) => ProbeDue(ka) = ka.last_rx + Dpd
    BY <1>0, ProbeDueCases
  <2>2. ~stalled => now <= ProbeDue(ka) + busy
    BY <1>0, <1>p
  <2> QED
    BY <2>1, <2>2
<1>h. alive => /\ answer # Never => now <= answer /\ answer <= now + Rtt
               /\ ~stalled /\ pc # "reconnect" =>
                    /\ rx = "none" /\ answer # Never => answer <= Latest(ka)
                    /\ rx = "none" /\ answer = Never /\ ka.last_dpd > ka.last_rx =>
                         pc = "write" /\ current = "dpd" /\ now <= ka.last_rx + Dpd + busy
                    /\ rx # "none" /\ pc \in {"write", "decide"} => now <= Latest(ka) + busy
  BY Zenon DEF Heard
<1>l. Latest(ka) = ka.last_rx + Dpd + Slack + Rtt
  BY DEF Latest
<1>1. CASE Read
  <2>1. now' = now /\ answer' = answer /\ busy' = busy /\ pc = "read" /\ rx' = "none"
    BY <1>1 DEF Read
  <2>2. alive' = alive
    BY <1>1, Zenon DEF Read
  <2>3. answer # Never => now <= answer /\ answer <= now + Rtt
    BY <1>h, <2>2, Zenon
  <2>4. CASE rx = "none"
    <3>1. ka' = ka
      BY <1>1, <2>4 DEF Read
    <3>2. ~stalled' => ~stalled
      BY <1>1, <2>4, Zenon DEF Read
    <3>3. pc # "reconnect" /\ pc # "write"
      BY <2>1
    <3>4. ~stalled => /\ answer # Never => answer <= Latest(ka)
                      /\ ~(answer = Never /\ ka.last_dpd > ka.last_rx)
      BY <1>h, <2>2, <2>4, <3>3, Zenon
    <3> QED
      BY <2>1, <2>3, <3>1, <3>2, <3>4, Zenon
  <2>5. CASE rx # "none"
    <3>1. ka' = [ka EXCEPT !.last_rx = now]
      BY <1>1, <2>5 DEF Read
    <3>2. ka'.last_rx = now /\ ka'.last_dpd = ka.last_dpd
      BY <1>0, <3>1 DEF Timers
    <3>3. ~(ka'.last_dpd > ka'.last_rx)
      BY <1>0, <3>2
    <3>4. answer # Never => answer <= Latest(ka')
      BY <1>0, <2>3, <3>2 DEF Latest
    <3> QED
      BY <2>1, <2>3, <3>3, <3>4, Zenon
  <2> QED
    BY <2>4, <2>5
<1>2. CASE WriteDone
  <2>1. /\ now' = now /\ busy' = busy /\ pc = "write" /\ pc' = "decide" /\ rx' = rx
        /\ pc # "reconnect"
    BY <1>2 DEF WriteDone
  <2>2. alive' = alive /\ stalled' = stalled
    BY <1>2, Zenon DEF WriteDone
  <2>3. ka'.last_rx = ka.last_rx /\ ka'.last_dpd = ka.last_dpd
    BY <1>2, OtherClocks
  <2>4. Latest(ka') = Latest(ka)
    BY <2>3, SameProbeDue
  <2>5. pc \in {"write", "decide"}
    BY <2>1
  <2>6. /\ answer # Never => now <= answer /\ answer <= now + Rtt
        /\ ~stalled => /\ rx = "none" /\ answer # Never => answer <= Latest(ka)
                       /\ rx = "none" /\ answer = Never /\ ka.last_dpd > ka.last_rx =>
                            current = "dpd" /\ now <= ka.last_rx + Dpd + busy
                       /\ rx # "none" => now <= Latest(ka) + busy
    BY <1>h, <2>1, <2>2, <2>5, Zenon
  <2>7. CASE current = "dpd"
    <3>1. answer' = Sooner(answer, now + Rtt)
      BY <1>2, <2>2, <2>7 DEF WriteDone
    <3>2. answer' # Never /\ now <= answer' /\ answer' <= now + Rtt
      BY <1>0, <2>6, <3>1 DEF Sooner
    <3>3. ~stalled /\ rx = "none" => answer' <= Latest(ka)
      <4> SUFFICES ASSUME ~stalled, rx = "none" PROVE answer' <= Latest(ka)
        OBVIOUS
      <4>1. CASE answer # Never
        <5>1. answer <= Latest(ka)
          BY <2>6, <4>1, Zenon
        <5> QED
          BY <1>0, <1>l, <3>1, <5>1 DEF Sooner
      <4>2. CASE answer = Never
        <5>1. now <= ka.last_rx + Dpd + busy
          BY <1>q, <2>6, <4>2, Zenon
        <5> QED
          BY <1>0, <1>l, <3>1, <5>1 DEF Sooner
      <4> QED
        BY <4>1, <4>2
    <3> QED
      BY <2>1, <2>2, <2>4, <2>6, <3>2, <3>3, Zenon
  <2>8. CASE current # "dpd"
    <3>1. answer' = answer
      BY <1>2, <2>8 DEF WriteDone
    <3> QED
      BY <2>1, <2>2, <2>3, <2>4, <2>6, <2>8, <3>1, Zenon
  <2> QED
    BY <2>7, <2>8
<1>3. CASE WriteStalls
  <2>1. stalled' = TRUE /\ alive' = alive /\ answer' = answer /\ now' = now
    BY <1>3, Zenon DEF WriteStalls, server
  <2> QED
    BY <1>h, <2>1, Zenon
<1>4. CASE ReadFails \/ WriteFails \/ GiveUp
  <2>1. pc' = "reconnect" /\ now' = now
    BY <1>4 DEF ReadFails, WriteFails, GiveUp
  <2>2. alive' = alive /\ answer' = answer
    BY <1>4, Zenon DEF ReadFails, WriteFails, GiveUp, server
  <2> QED
    BY <1>h, <2>1, <2>2, Zenon
<1>5. CASE SendControl /\ keepalive_action(ka, now) = "KA_DPD"
  <2>1. /\ now' = now /\ busy' = busy /\ pc = "decide" /\ pc' = "write" /\ current' = "dpd"
        /\ ka' = [ka EXCEPT !.last_dpd = now]
    BY <1>5 DEF SendControl, Acted
  <2>2. alive' = alive /\ answer' = answer /\ rx' = rx /\ stalled' = stalled
    BY <1>5, Zenon DEF SendControl, server
  <2>3. ka'.last_rx = ka.last_rx /\ Latest(ka') = Latest(ka)
    BY <1>0, <2>1 DEF Timers, Latest
  <2>4. pc # "reconnect" /\ pc # "write" /\ pc \in {"write", "decide"}
    BY <2>1
  <2>5. ~stalled /\ rx = "none" /\ answer = Never => now <= ka.last_rx + Dpd + busy
    BY <1>h, <1>q, <2>2, <2>4, Zenon
  <2> QED
    BY <1>h, <2>1, <2>2, <2>3, <2>4, <2>5, Zenon
<1>6. CASE \/ AnswerProbe \/ SendData \/ Sleep
           \/ SendControl /\ keepalive_action(ka, now) # "KA_DPD"
  <2>1. now' = now /\ busy' = busy /\ pc = "decide"
    BY <1>6 DEF AnswerProbe, SendData, Sleep, SendControl
  <2>2. alive' = alive /\ answer' = answer /\ rx' = rx /\ stalled' = stalled
    BY <1>6, Zenon DEF AnswerProbe, SendData, Sleep, SendControl, server
  <2>3. ka'.last_rx = ka.last_rx /\ ka'.last_dpd = ka.last_dpd
    BY <1>6, OtherClocks
  <2>4. Latest(ka') = Latest(ka)
    BY <2>3, SameProbeDue
  <2>5. pc # "reconnect" /\ pc # "write" /\ pc \in {"write", "decide"}
    BY <2>1
  <2> QED
    BY <1>h, <2>1, <2>2, <2>3, <2>4, <2>5, Zenon
<1>7. CASE Wake
  <2>1. now' = now /\ ka' = ka /\ pc = "sleep" /\ pc' = "read"
    BY <1>7 DEF Wake
  <2>2. alive' = alive /\ answer' = answer /\ rx' = rx /\ stalled' = stalled
    BY <1>7, Zenon DEF Wake, server
  <2>3. pc # "reconnect" /\ pc # "write" /\ pc' \notin {"write", "decide"}
    BY <2>1
  <2> QED
    BY <1>h, <2>1, <2>2, <2>3, Zenon
<1>8. CASE Reconnect
  <2>1. answer' = Never /\ rx' = "none" /\ ka' = Restarted(ka, now)
    BY <1>8 DEF Reconnect
  <2>2. ~(ka'.last_dpd > ka'.last_rx)
    BY <1>0, <2>1 DEF Restarted, Timers
  <2> QED
    BY <2>1, <2>2, Zenon
<1>9. CASE Tick
  <2>1. now' = now + 1 /\ ka' = ka /\ pc' = pc /\ current' = current
    BY <1>9 DEF Tick
  <2>2. alive' = alive /\ answer' = answer /\ rx' = rx /\ stalled' = stalled
    BY <1>9, Zenon DEF Tick, server
  <2>3. \/ pc = "sleep" /\ busy' = busy
        \/ pc # "sleep" /\ busy' = busy + 1
    BY <1>9, Zenon DEF Tick
  <2>4. answer # Never => now < answer
    BY <1>9, <2>2, Zenon DEF Tick
  <2>5. answer # Never => now <= answer /\ answer <= now + Rtt
    BY <1>h, <2>2, Zenon
  <2>6. answer' # Never => now' <= answer' /\ answer' <= now' + Rtt
    BY <1>0, <2>1, <2>2, <2>4, <2>5
  <2>7. pc = "write" /\ now <= ka.last_rx + Dpd + busy => now' <= ka.last_rx + Dpd + busy'
    BY <1>0, <2>1, <2>3
  <2>8. pc \in {"write", "decide"} /\ now <= Latest(ka) + busy => now' <= Latest(ka) + busy'
    BY <1>0, <1>l, <2>1, <2>3
  <2> QED
    BY <1>h, <2>1, <2>2, <2>6, <2>7, <2>8, Zenon
<1>10. CASE Arrive
  <2>1. now' = now /\ ka' = ka /\ answer' = Never /\ rx' # "none" /\ pc # "reconnect"
    BY <1>10 DEF Arrive
  <2>2. UNCHANGED loop /\ alive
    BY <1>10, Zenon DEF Arrive
  <2>3. pc' = pc /\ busy' = busy /\ stalled' = stalled
    BY <2>2, Zenon DEF loop
  <2>4. ASSUME ~stalled, pc \in {"write", "decide"} PROVE now <= Latest(ka) + busy
    <3>1. CASE rx # "none"
      BY <1>h, <2>1, <2>2, <2>4, <3>1, Zenon
    <3>2. CASE rx = "none" /\ answer # Never
      <4>1. now <= answer /\ answer <= Latest(ka)
        BY <1>h, <2>1, <2>2, <2>4, <3>2, Zenon
      <4> QED
        BY <1>0, <1>l, <4>1
    <3>3. CASE rx = "none" /\ answer = Never
      <4>1. now <= ka.last_rx + Dpd + busy
        BY <1>h, <1>q, <2>1, <2>2, <2>4, <3>3, Zenon
      <4> QED
        BY <1>0, <1>l, <4>1
    <3> QED
      BY <3>1, <3>2, <3>3
  <2> QED
    BY <2>1, <2>3, <2>4, Zenon
<1>11. CASE ServerDies
  BY <1>11, Zenon DEF ServerDies
<1>12. CASE UNCHANGED vars
  <2>1. /\ now' = now /\ ka' = ka /\ pc' = pc /\ busy' = busy /\ current' = current
        /\ alive' = alive /\ answer' = answer /\ rx' = rx /\ stalled' = stalled
    BY <1>12, Zenon DEF vars, loop, server
  <2> QED
    BY <1>h, <2>1, Zenon
<1> QED
  BY <1>1, <1>2, <1>3, <1>4, <1>5, <1>6, <1>7, <1>8, <1>9, <1>10, <1>11, <1>12 DEF Next, Step

\* The verdict of keepalive_action is asked for while the server is not overdue.
LEMMA NotOverdue ==
    ASSUME TypeOK, Punctual, Heard, PromptEnough, Dpd > 0, pc = "decide", alive, ~stalled
    PROVE  now <= Overdue(ka)
<1>0. /\ now \in Nat /\ busy \in Nat /\ answer \in Nat /\ ka \in Timers
      /\ Slack \in Nat /\ Rtt \in Nat
  BY CstpAssumption DEF TypeOK
<1>1. pc # "reconnect" /\ pc # "write" /\ pc # "sleep" /\ pc \in {"write", "decide"}
  OBVIOUS
<1>2. busy <= Slack /\ now <= ProbeDue(ka) + busy
  BY <1>1, Zenon DEF Punctual
<1>3. /\ answer # Never => now <= answer
      /\ rx = "none" /\ answer # Never => answer <= Latest(ka)
      /\ rx = "none" /\ answer = Never => ~(ka.last_dpd > ka.last_rx)
      /\ rx # "none" => now <= Latest(ka) + busy
  BY <1>1, Zenon DEF Heard
<1>4. Latest(ka) + busy <= Overdue(ka) /\ ka.last_rx + Dpd + busy <= Overdue(ka)
  BY <1>0, <1>2, ProbeDueCases DEF Latest, PromptEnough
<1> QED
  BY <1>0, <1>2, <1>3, <1>4, ProbeDueCases DEF Latest

\* A verdict, once reached, was just: the server may still die, but it does not come back
\* and the socket does not drain before the new connection.
LEMMA DeathStep ==
    ASSUME TypeOK, Punctual, Heard, PromptEnough, NoFalseDeath,
           why = "dead" => pc = "reconnect", [Next]_vars
    PROVE  NoFalseDeath' /\ (why' = "dead" => pc' = "reconnect")
<1>1. CASE GiveUp
  <2>1. pc = "decide" /\ pc' = "reconnect"
    BY <1>1 DEF GiveUp
  <2>2. alive' = alive /\ stalled' = stalled
    BY <1>1, Zenon DEF GiveUp, server
  <2>3. why' = "dead" => Dpd > 0 /\ ~(now <= Overdue(ka))
    <3>1. now \in Nat /\ ka \in Timers /\ ka.last_rx \in Nat
      BY ProbeDueCases DEF TypeOK
    <3>2. why' = "dead" => keepalive_action(ka, now) = "KA_DPD_DEAD"
      BY <1>1 DEF GiveUp
    <3>3. keepalive_action(ka, now) = "KA_DPD_DEAD" => PeerIsDead(ka, now)
      BY DEF keepalive_action
    <3> QED
      BY <3>1, <3>2, <3>3, ProbeDueCases DEF PeerIsDead
  <2>4. why' = "dead" => ~alive \/ stalled
    BY <2>1, <2>3, NotOverdue, Zenon
  <2> QED
    BY <2>1, <2>2, <2>4, Zenon DEF NoFalseDeath
<1>2. CASE ReadFails \/ WriteFails
  BY <1>2 DEF ReadFails, WriteFails, NoFalseDeath
<1>3. CASE WriteStalls
  <2>1. pc = "write" /\ stalled' = TRUE
    BY <1>3 DEF WriteStalls
  <2>2. why' # "dead"
    <3>1. why # "dead"
      BY <2>1
    <3>2. ka_stalled_action([ka EXCEPT !.last_tx = now], now)
            \in {"KA_NONE", "KA_REKEY", "KA_DPD_DEAD"}
      BY DEF ka_stalled_action
    <3> QED
      BY <1>3, <3>1, <3>2 DEF WriteStalls
  <2> QED
    BY <2>2 DEF NoFalseDeath
<1>4. CASE Read \/ WriteDone \/ AnswerProbe \/ SendControl \/ SendData \/ Sleep \/ Wake \/ Reconnect
  <2>1. why' # "dead"
    BY <1>4 DEF Read, WriteDone, AnswerProbe, SendControl, SendData, Sleep, Wake, Reconnect
  <2> QED
    BY <2>1 DEF NoFalseDeath
<1>5. CASE Tick \/ Arrive \/ UNCHANGED vars
  <2>1. why' = why /\ pc' = pc /\ stalled' = stalled /\ alive' = alive
    BY <1>5, Zenon DEF Tick, Arrive, loop, server, vars
  <2> QED
    BY <2>1, Zenon DEF NoFalseDeath
<1>6. CASE ServerDies
  <2>1. why' = why /\ pc' = pc /\ alive' = FALSE
    BY <1>6, Zenon DEF ServerDies, loop
  <2> QED
    BY <2>1, Zenon DEF NoFalseDeath
<1> QED
  BY <1>1, <1>2, <1>3, <1>4, <1>5, <1>6 DEF Next, Step

\* A server that answers in time is never declared dead by keepalive_action (mainloop.c
\* 273-279), unless a stalled write held back the probe: for every DPD period into which
\* the round trip and two passes of the loop fit.
THEOREM NoFalseDeathAlways ==
    ASSUME PromptEnough
    PROVE  Spec => []NoFalseDeath
<1> DEFINE Verdict == why = "dead" => pc = "reconnect"
           Inv == TypeOK /\ Punctual /\ Heard /\ NoFalseDeath /\ Verdict
<1>1. Init /\ TypeOK => Inv
  <2> SUFFICES ASSUME Init, TypeOK PROVE Inv
    OBVIOUS
  <2>1. /\ now = 1 /\ busy = 0 /\ ka.last_rx = 1 /\ ka.last_dpd = 0 /\ ka \in Timers
        /\ pc = "read" /\ answer = Never /\ why = "none" /\ rx = "none"
    BY DEF Init, TypeOK
  <2>2. /\ busy <= Slack /\ ka.last_rx <= now /\ ka.last_dpd <= now /\ now <= MaxTime + 1
        /\ now <= ProbeDue(ka) + busy /\ pc # "sleep" /\ ~(ka.last_dpd > ka.last_rx)
    BY <2>1, ProbeDueCases, CstpAssumption
  <2>3. Punctual
    BY <2>2, Zenon DEF Punctual
  <2>4. Heard
    BY <2>1, <2>2, Zenon DEF Heard
  <2>5. NoFalseDeath /\ Verdict
    BY <2>1 DEF NoFalseDeath
  <2> QED
    BY <2>3, <2>4, <2>5
<1>2. Inv /\ [Next]_vars => Inv'
  <2> SUFFICES ASSUME Inv, [Next]_vars PROVE Inv'
    OBVIOUS
  <2>1. TypeOK'
    BY TypeStep
  <2>2. Punctual'
    BY PunctualStep
  <2>3. Heard'
    BY <2>1, HeardStep, Zenon DEF Heard
  <2>4. NoFalseDeath' /\ Verdict'
    BY DeathStep
  <2> QED
    BY <2>1, <2>2, <2>3, <2>4
<1>3. Inv => NoFalseDeath
  OBVIOUS
<1> QED
  BY <1>1, <1>2, <1>3, TypeCorrect, PTL DEF Spec
=============================================================================
