----------------------------- MODULE TunnelProofs -----------------------------
(***************************************************************************)
(* For every queue limit, every number of packets, with and without        *)
(* compression: types; the tun device is watched only while there is room  *)
(* in the queue; the counter is the length of the queue but for the        *)
(* packets cstp_reconnect requeued, and the queue exceeds its limit by no  *)
(* more than those; a compressed packet is in hand only on a connection    *)
(* that compresses.                                                        *)
(***************************************************************************)
EXTENDS Tunnel, SequenceTheorems, TLAPS

\* The packets tun_mainloop appends (mainloop.c 61-86) are packets, n of them.
LEMMA TakenIsSeq ==
    ASSUME NEW k \in 1..(MaxPkt + 1), NEW n \in 0..(MaxPkt + 1 - k)
    PROVE  /\ [i \in 1..n |-> k + i - 1] \in Seq(Packet)
           /\ Len([i \in 1..n |-> k + i - 1]) = n
<1> DEFINE s == [i \in 1..n |-> k + i - 1]
<1>1. n \in Nat /\ \A i \in 1..n : k + i - 1 \in Packet
  BY TunnelAssumption DEF Packet
<1>2. s \in [1..n -> Packet]
  BY <1>1
<1> HIDE DEF s
<1>3. s \in Seq(Packet)
  BY <1>1, <1>2, SeqDef
<1>4. Len(s) = n
  BY <1>1, <1>2, <1>3, LenProperties
<1> QED
  BY <1>3, <1>4 DEF s

-----------------------------------------------------------------------------
\* The device is watched only while the counter leaves room.  Only tun_mainloop
\* raises the counter, and it stops watching when the counter reaches the limit;
\* that it never passes the limit is because the invariant held before.
GateInv == outgoing_qlen \in Int /\ tun_monitored \in BOOLEAN /\ TunGate

LEMMA GateStep == GateInv /\ [Next]_vars => GateInv'
<1> SUFFICES ASSUME GateInv, [Next]_vars PROVE GateInv'
  OBVIOUS
<1> USE TunnelAssumption DEF GateInv, TunGate
<1>1. CASE UNCHANGED <<outgoing_qlen, tun_monitored>>
  BY <1>1
<1>2. CASE outgoing_qlen' = outgoing_qlen - 1 /\ UNCHANGED tun_monitored
  BY <1>2
<1>3. CASE TunPass
  <2>1. PICK n \in 0..(MaxPkt + 1 - next) :
            ReadTun(n) /\ outgoing_qlen' = outgoing_qlen + n
    BY <1>3 DEF TunPass
  <2>2. n \in Nat
    OBVIOUS
  <2>3. CASE tun_monitored
    <3>1. tun_monitored' = (n = 0 \/ outgoing_qlen + n # MaxQlen)
      BY <2>1, <2>3 DEF ReadTun
    <3>2. outgoing_qlen' <= MaxQlen /\ (n = 0 => outgoing_qlen' < MaxQlen)
      BY <2>1, <2>2, <2>3 DEF ReadTun
    <3>3. tun_monitored' \in BOOLEAN /\ (tun_monitored' => n = 0 \/ outgoing_qlen' # MaxQlen)
      BY <2>1, <3>1, Zenon
    <3> QED
      BY <2>1, <2>2, <3>2, <3>3
  <2>4. CASE ~tun_monitored
    <3>1. tun_monitored' = (outgoing_qlen < MaxQlen) /\ n = 0
      BY <2>1, <2>4 DEF ReadTun
    <3>2. (outgoing_qlen < MaxQlen) \in BOOLEAN
      OBVIOUS
    <3>3. tun_monitored' \in BOOLEAN /\ (tun_monitored' => outgoing_qlen < MaxQlen)
      BY <3>1, <3>2, Zenon
    <3> QED
      BY <2>1, <2>2, <3>1, <3>3
  <2> QED
    BY <2>3, <2>4
<1>4. CASE DtlsSend \/ DtlsSendDrops \/ CstpSend
  BY <1>2, <1>4 DEF DtlsSend, DtlsSendDrops, CstpSend
<1>5. CASE \/ DtlsDisabled \/ DtlsNotConnected \/ DtlsRead \/ DtlsDead \/ DtlsRekeyFails
           \/ DtlsSendDone \/ DtlsSendBlocks \/ DtlsSendFails
  BY <1>1, <1>5 DEF DtlsDisabled, DtlsNotConnected, DtlsRead, DtlsDead, DtlsRekeyFails, DtlsSendDone,
     DtlsSendBlocks, DtlsSendFails, queue
<1>6. CASE \/ CstpLost \/ CstpRead \/ CstpEnds \/ CstpWrite \/ CstpWriteStalls
           \/ CstpWriteShort \/ CstpControl \/ CstpGivesUp \/ CstpIdle
           \/ CstpReconnects \/ CstpReconnectFails
  BY <1>1, <1>6 DEF CstpLost, CstpRead, CstpEnds, CstpWrite, CstpWriteStalls,
     CstpWriteShort, CstpControl, CstpGivesUp, CstpIdle, CstpReconnects,
     CstpReconnectFails, queue
<1>7. CASE TunGone \/ EndPass \/ PauseAndResume \/ Wake \/ Quit \/ UNCHANGED vars
  BY <1>1, <1>7 DEF TunGone, EndPass, PauseAndResume, Wake, Quit, vars, queue
<1> QED
  BY <1>3, <1>4, <1>5, <1>6, <1>7 DEF Next

\* tun_mainloop's equality test (mainloop.c 82) cannot be jumped over: for every
\* limit, the device is watched only while the counter is below it.
THEOREM TunGateAlways == Spec => []TunGate
<1>1. Init => GateInv
  BY TunnelAssumption DEF Init, GateInv, TunGate
<1>2. GateInv => TunGate
  BY DEF GateInv
<1> QED
  BY <1>1, <1>2, GateStep, PTL DEF Spec

-----------------------------------------------------------------------------
\* The strengthening of TypeOK: what CSTP has in hand is a packet.  Appending it
\* to the queue (cstp.c 570-576) or to what was sent needs that.
TypeInv ==
    /\ TypeOK
    /\ current = "data" => held \in Packet
    /\ current = "deflate_pkt" => pending \in Packet

\* A step that touches only flags and the program counter.
LEMMA TypeKept ==
    ASSUME TypeInv,
           UNCHANGED <<queue, current, held, pending>>,
           deflate' \in BOOLEAN, owe' \in BOOLEAN, ssl_up' \in BOOLEAN,
           tun_monitored' \in BOOLEAN, incoming' \in BOOLEAN, work' \in BOOLEAN,
           dtls_waits' \in {"no", "socket", "handshake"},
           dtls_state' \in {"DISABLED", "SLEEPING", "CONNECTING", "CONNECTED"},
           pc' \in {"dtls", "dtls_send", "cstp", "write", "decide", "reconnect", "tun",
                    "cmd", "select", "quit"}
    PROVE  TypeInv'
  BY DEF TypeInv, TypeOK, queue, Packet, Control

LEMMA TypeStep == TypeInv /\ GateInv /\ [Next]_vars => TypeInv'
<1> SUFFICES ASSUME TypeInv, GateInv, [Next]_vars PROVE TypeInv'
  OBVIOUS
<1>0. /\ deflate \in BOOLEAN /\ owe \in BOOLEAN /\ ssl_up \in BOOLEAN
      /\ tun_monitored \in BOOLEAN /\ incoming \in BOOLEAN /\ work \in BOOLEAN
      /\ dtls_waits \in {"no", "socket", "handshake"}
      /\ dtls_state \in {"DISABLED", "SLEEPING", "CONNECTING", "CONNECTED"}
      /\ TypeOK
  BY DEF TypeInv, TypeOK
<1>1. CASE \/ DtlsDisabled \/ DtlsNotConnected \/ DtlsDead \/ DtlsRekeyFails
           \/ DtlsSendDone \/ DtlsSendBlocks \/ DtlsSendFails
  BY <1>0, <1>1, TypeKept DEF DtlsDisabled, DtlsNotConnected, DtlsDead, DtlsRekeyFails, DtlsSendDone,
     DtlsSendBlocks, DtlsSendFails, DtlsConnect, dtls_reconnect, cstp, dtls
<1>2. CASE DtlsRead
  <2>1. incoming' \in BOOLEAN /\ work' \in BOOLEAN
    BY <1>0, <1>2, Zenon DEF DtlsRead
  <2> QED
    BY <1>0, <1>2, <2>1, TypeKept DEF DtlsRead, cstp
<1>3. CASE CstpLost \/ CstpRead
  <2>1. incoming' \in BOOLEAN /\ work' \in BOOLEAN /\ owe' \in BOOLEAN
    BY <1>0, <1>3, Zenon DEF CstpLost, CstpRead
  <2> QED
    BY <1>0, <1>3, <2>1, TypeKept DEF CstpLost, CstpRead, dtls
<1>4. CASE \/ CstpEnds \/ CstpWriteStalls \/ CstpWriteShort \/ CstpGivesUp \/ CstpIdle
           \/ TunGone \/ EndPass \/ PauseAndResume \/ Wake \/ Quit \/ UNCHANGED vars
  <2>1. CASE CstpEnds \/ CstpWriteStalls \/ CstpWriteShort \/ CstpGivesUp \/ CstpIdle
    BY <1>0, <2>1, TypeKept DEF CstpEnds, CstpWriteStalls, CstpWriteShort, CstpGivesUp,
       CstpIdle, cstp, dtls
  <2>2. CASE TunGone \/ PauseAndResume \/ Wake
    BY <1>0, <2>2, TypeKept DEF TunGone, PauseAndResume, Wake, cstp, dtls
  <2>3. CASE EndPass
    BY <1>0, <2>3, TypeKept DEF EndPass, cstp, dtls
  <2>4. CASE Quit \/ UNCHANGED vars
    BY <1>0, <2>4, TypeKept DEF Quit, vars, cstp, dtls, TypeOK
  <2> QED
    BY <1>4, <2>1, <2>2, <2>3, <2>4
<1>5. CASE CstpControl
  <2>1. current' \in Control
    BY <1>5 DEF CstpControl, Control
  <2>2. /\ current' \notin {"data", "deflate_pkt"} /\ owe' \in BOOLEAN
        /\ UNCHANGED <<queue, held, pending, deflate, ssl_up, dtls, tun_monitored, incoming, work>>
        /\ pc' = "write"
    BY <1>5, <2>1 DEF CstpControl, Control
  <2> QED
    BY <1>0, <2>1, <2>2 DEF TypeInv, TypeOK, queue, dtls, Packet
<1>6. CASE CstpWrite
  <2>1. sent' \in [{"cstp", "dtls"} -> Seq(Packet)]
    <3>1. sent["cstp"] \in Seq(Packet)
      BY <1>0 DEF TypeOK
    <3>2. \A p \in Packet : Append(sent["cstp"], p) \in Seq(Packet)
      BY <3>1, AppendProperties
    <3> QED
      BY <1>0, <1>6, <3>2 DEF CstpWrite, TypeInv, TypeOK
  <2> QED
    BY <1>0, <1>6, <2>1 DEF CstpWrite, TypeInv, TypeOK, dtls, Packet, Control
<1>7. CASE DtlsSend \/ DtlsSendDrops \/ CstpSend
  <2>1. Tail(outgoing_queue) \in Seq(Packet) /\ Head(outgoing_queue) \in Packet
    BY <1>0, <1>7, HeadTailProperties DEF TypeOK, DtlsSend, DtlsSendDrops, CstpSend
  <2>2. CASE DtlsSend
    <3>1. Append(sent["dtls"], Head(outgoing_queue)) \in Seq(Packet)
      BY <1>0, <2>1, AppendProperties DEF TypeOK
    <3> QED
      BY <1>0, <2>1, <2>2, <3>1
         DEF DtlsSend, TypeInv, TypeOK, cstp, dtls, Packet, Control
  <2>3. CASE DtlsSendDrops
    <3>1. dropped' \subseteq Packet
      BY <1>0, <2>1, <2>3 DEF DtlsSendDrops, TypeOK
    <3> QED
      BY <1>0, <2>1, <2>3, <3>1 DEF DtlsSendDrops, TypeInv, TypeOK, cstp, Packet, Control
  <2>4. CASE CstpSend
    <3>1. /\ current' \in {"deflate_pkt", "data"}
          /\ current' = "data" => held' \in Packet
          /\ current' = "deflate_pkt" => pending' \in Packet
          /\ held' \in Packet \cup {0} /\ pending' \in Packet \cup {0}
      BY <1>0, <2>1, <2>4 DEF CstpSend, TypeOK
    <3> QED
      BY <1>0, <2>1, <2>4, <3>1 DEF CstpSend, TypeInv, TypeOK, dtls, Packet, Control
  <2> QED
    BY <1>7, <2>2, <2>3, <2>4
<1>8. CASE CstpReconnects \/ CstpReconnectFails
  <2>1. /\ outgoing_queue' \in Seq(Packet) /\ uncounted' \in Nat
        /\ current' \in Control \cup {"none", "data", "deflate_pkt"}
        /\ pending' \in Packet \cup {0}
        /\ current' = "data" => current = "data"
        /\ current' = "deflate_pkt" => current = "deflate_pkt" /\ pending' = pending
    <3>1. RequeueDeflated
      BY <1>8 DEF CstpReconnects, CstpReconnectFails
    <3>2. CASE deflate /\ current = "deflate_pkt"
      <4>1. pending \in Packet /\ outgoing_queue \in Seq(Packet) /\ uncounted \in Nat
        BY <3>2 DEF TypeInv, TypeOK
      <4> QED
        BY <3>1, <3>2, <4>1, AppendProperties DEF RequeueDeflated
    <3>3. CASE ~(deflate /\ current = "deflate_pkt")
      BY <3>1, <3>3 DEF RequeueDeflated, TypeInv, TypeOK
    <3> QED
      BY <3>2, <3>3
  <2>2. /\ deflate' \in BOOLEAN /\ ssl_up' \in BOOLEAN /\ work' \in BOOLEAN
        /\ dtls_waits' \in {"no", "socket", "handshake"}
        /\ dtls_state' \in {"DISABLED", "SLEEPING", "CONNECTING", "CONNECTED"}
        /\ pc' \in {"tun", "quit"}
    BY <1>0, <1>8 DEF CstpReconnects, CstpReconnectFails, DtlsConnect, dtls_reconnect, dtls
  <2>3. UNCHANGED <<outgoing_qlen, next, sent, dropped, held, owe, tun_monitored, incoming>>
    BY <1>8 DEF CstpReconnects, CstpReconnectFails
  <2> QED
    BY <1>0, <2>1, <2>2, <2>3 DEF TypeInv, TypeOK, Packet, Control
<1>9. CASE TunPass
  <2>1. PICK n \in 0..(MaxPkt + 1 - next) :
            /\ ReadTun(n)
            /\ outgoing_queue' = outgoing_queue \o [i \in 1..n |-> next + i - 1]
            /\ outgoing_qlen' = outgoing_qlen + n
            /\ next' = next + n
            /\ work' = (work \/ n > 0)
    BY <1>9 DEF TunPass
  <2>2. outgoing_queue' \in Seq(Packet)
    BY <1>0, <2>1, TakenIsSeq, ConcatProperties DEF TypeOK
  <2>3. n \in Nat /\ next' \in 1..(MaxPkt + 1) /\ outgoing_qlen' \in Int
    BY <1>0, <2>1, TunnelAssumption DEF TypeOK
  <2>4. tun_monitored' \in BOOLEAN /\ work' \in BOOLEAN
    <3>1. work' \in BOOLEAN
      BY <2>1, Zenon
    <3> QED
      BY <3>1, GateStep DEF GateInv
  <2>5. /\ UNCHANGED <<sent, dropped, uncounted, cstp, dtls>>
        /\ incoming' = FALSE /\ pc' = "cmd"
    BY <1>9 DEF TunPass
  <2> QED
    BY <1>0, <2>2, <2>3, <2>4, <2>5 DEF TypeInv, TypeOK, cstp, dtls, Packet
<1> QED
  BY <1>1, <1>2, <1>3, <1>4, <1>5, <1>6, <1>7, <1>8, <1>9 DEF Next

LEMMA TypeInit == Init => TypeInv
<1> SUFFICES ASSUME Init PROVE TypeInv
  OBVIOUS
<1>1. <<>> \in Seq(Packet)
  BY EmptySeq
<1>2. deflate \in BOOLEAN
  BY TunnelAssumption, Zenon DEF Init
<1>3. sent \in [{"cstp", "dtls"} -> Seq(Packet)] /\ dropped \subseteq Packet
  BY <1>1 DEF Init
<1>4. next \in 1..(MaxPkt + 1) /\ outgoing_qlen \in Int /\ uncounted \in Nat
  BY TunnelAssumption DEF Init
<1>5. /\ owe \in BOOLEAN /\ ssl_up \in BOOLEAN /\ tun_monitored \in BOOLEAN
      /\ incoming \in BOOLEAN /\ work \in BOOLEAN
  BY Zenon DEF Init
<1>6. /\ outgoing_queue = <<>> /\ current = "none" /\ held = 0 /\ pending = 0
      /\ dtls_state \in {"DISABLED", "SLEEPING", "CONNECTING", "CONNECTED"}
      /\ dtls_waits = "no" /\ pc = "dtls"
  BY DEF Init
<1> QED
  BY <1>1, <1>2, <1>3, <1>4, <1>5, <1>6 DEF TypeInv, TypeOK

\* Every packet that is queued, sent or given up is one the tun device delivered:
\* the stale pending_deflated_pkt that handle_outgoing leaves behind is never used.
THEOREM TypeAlways == Spec => []TypeOK
<1>1. Init => GateInv
  BY TunnelAssumption DEF Init, GateInv, TunGate
<1>2. TypeInv => TypeOK
  BY DEF TypeInv
<1> QED
  BY <1>1, <1>2, TypeInit, TypeStep, GateStep, PTL DEF Spec

-----------------------------------------------------------------------------
\* The counter and what was requeued uncounted make up the length of the queue, and
\* the counter is at most the limit.
CountInv ==
    /\ TypeInv
    /\ GateInv
    /\ QlenAccounted
    /\ outgoing_qlen <= MaxQlen

\* A step that leaves the queue alone.
LEMMA QueueKept ==
    ASSUME CountInv, TypeInv', GateInv', UNCHANGED <<outgoing_queue, outgoing_qlen, uncounted>>
    PROVE  CountInv'
  BY DEF CountInv, QlenAccounted

LEMMA CountStep == CountInv /\ [Next]_vars => CountInv'
<1> SUFFICES ASSUME CountInv, [Next]_vars PROVE CountInv'
  OBVIOUS
<1>0. TypeInv' /\ GateInv' /\ outgoing_qlen \in Int /\ uncounted \in Nat
      /\ outgoing_queue \in Seq(Packet) /\ next \in 1..(MaxPkt + 1)
  BY TypeStep, GateStep DEF CountInv, TypeInv, TypeOK
<1>1. CASE DtlsSend \/ DtlsSendDrops \/ CstpSend
  <2>1. /\ outgoing_queue' = Tail(outgoing_queue) /\ outgoing_qlen' = outgoing_qlen - 1
        /\ uncounted' = uncounted /\ outgoing_queue # <<>>
    BY <1>1 DEF DtlsSend, DtlsSendDrops, CstpSend
  <2>2. Len(outgoing_queue') = Len(outgoing_queue) - 1
    BY <1>0, <2>1, HeadTailProperties
  <2> QED
    BY <1>0, <2>1, <2>2, LenProperties, TunnelAssumption DEF CountInv, QlenAccounted
<1>2. CASE TunPass
  <2>1. PICK n \in 0..(MaxPkt + 1 - next) :
            /\ ReadTun(n)
            /\ outgoing_queue' = outgoing_queue \o [i \in 1..n |-> next + i - 1]
            /\ outgoing_qlen' = outgoing_qlen + n
    BY <1>2 DEF TunPass
  <2>2. Len(outgoing_queue') = Len(outgoing_queue) + n
    BY <1>0, <2>1, TakenIsSeq, ConcatProperties
  <2>3. n \in Nat /\ uncounted' = uncounted
    BY <1>2 DEF TunPass
  <2>4. outgoing_qlen + n <= MaxQlen
    BY <1>0, <2>1, <2>3, TunnelAssumption DEF ReadTun, CountInv, GateInv, TunGate
  <2>5. QlenAccounted'
    <3>1. outgoing_qlen + uncounted = Len(outgoing_queue) /\ Len(outgoing_queue) \in Nat
      BY <1>0, LenProperties DEF CountInv, QlenAccounted
    <3>2. outgoing_qlen' = outgoing_qlen + n
      BY <2>1
    <3> QED
      BY <1>0, <2>2, <2>3, <3>1, <3>2 DEF QlenAccounted
  <2>6. outgoing_qlen' <= MaxQlen
    BY <2>1, <2>4
  <2> QED
    BY <1>0, <2>5, <2>6 DEF CountInv
<1>3. CASE CstpReconnects \/ CstpReconnectFails
  <2>1. CASE deflate /\ current = "deflate_pkt"
    <3>1. /\ outgoing_queue' = Append(outgoing_queue, pending) /\ pending \in Packet
          /\ uncounted' = uncounted + 1 /\ outgoing_qlen' = outgoing_qlen
      BY <1>3, <2>1 DEF CstpReconnects, CstpReconnectFails, RequeueDeflated, CountInv, TypeInv
    <3>2. Len(outgoing_queue') = Len(outgoing_queue) + 1
      BY <1>0, <3>1, AppendProperties
    <3> QED
      BY <1>0, <3>1, <3>2, LenProperties DEF CountInv, QlenAccounted
  <2>2. CASE ~(deflate /\ current = "deflate_pkt")
    BY <1>0, <1>3, <2>2, QueueKept DEF CstpReconnects, CstpReconnectFails, RequeueDeflated
  <2> QED
    BY <2>1, <2>2
<1>4. CASE \/ DtlsDisabled \/ DtlsNotConnected \/ DtlsRead \/ DtlsDead \/ DtlsRekeyFails
           \/ DtlsSendDone \/ DtlsSendBlocks \/ DtlsSendFails
  BY <1>0, <1>4, QueueKept DEF DtlsDisabled, DtlsNotConnected, DtlsRead, DtlsDead, DtlsRekeyFails,
     DtlsSendDone, DtlsSendBlocks, DtlsSendFails, queue
<1>5. CASE \/ CstpLost \/ CstpRead \/ CstpEnds \/ CstpWrite \/ CstpWriteStalls
           \/ CstpWriteShort \/ CstpControl \/ CstpGivesUp \/ CstpIdle
  BY <1>0, <1>5, QueueKept DEF CstpLost, CstpRead, CstpEnds, CstpWrite, CstpWriteStalls,
     CstpWriteShort, CstpControl, CstpGivesUp, CstpIdle, queue
<1>6. CASE TunGone \/ EndPass \/ PauseAndResume \/ Wake \/ Quit \/ UNCHANGED vars
  BY <1>0, <1>6, QueueKept DEF TunGone, EndPass, PauseAndResume, Wake, Quit, vars, queue
<1> QED
  BY <1>1, <1>2, <1>3, <1>4, <1>5, <1>6 DEF Next

LEMMA CountInit == Init => CountInv
<1> SUFFICES ASSUME Init PROVE CountInv
  OBVIOUS
<1>1. Len(<<>>) = 0
  BY EmptySeq
<1>2. Init => GateInv
  BY TunnelAssumption DEF Init, GateInv, TunGate
<1>3. QlenAccounted /\ outgoing_qlen <= MaxQlen
  BY <1>1, TunnelAssumption DEF Init, QlenAccounted
<1> QED
  BY <1>2, <1>3, TypeInit DEF CountInv

\* The counter that tun_mainloop tests is the length of the queue, but for what
\* cstp_reconnect requeued, through every stall, error, pause and change of channel.
THEOREM QlenAccountedAlways == Spec => []QlenAccounted
<1>1. CountInv => QlenAccounted
  BY DEF CountInv
<1> QED
  BY <1>1, CountInit, CountStep, PTL DEF Spec

\* The queue exceeds max_qlen by no more than the packets requeued uncounted.
THEOREM QueueBoundedAlways == Spec => []QueueBounded
<1>1. CountInv => QueueBounded
  BY LenProperties, TunnelAssumption DEF CountInv, TypeInv, TypeOK, QlenAccounted, QueueBounded
<1> QED
  BY <1>1, CountInit, CountStep, PTL DEF Spec

-----------------------------------------------------------------------------
\* A step that does not put a compressed packet in hand, nor turn compression off.
LEMMA HandKept ==
    ASSUME CompressedInHand, deflate' = deflate, current' = "deflate_pkt" => current = "deflate_pkt"
    PROVE  CompressedInHand'
  BY DEF CompressedInHand

LEMMA HandStep == CompressedInHand /\ [Next]_vars => CompressedInHand'
<1> SUFFICES ASSUME CompressedInHand, [Next]_vars PROVE CompressedInHand'
  OBVIOUS
<1>1. CASE CstpReconnects \/ CstpReconnectFails
  BY <1>1 DEF CstpReconnects, CstpReconnectFails, RequeueDeflated, CompressedInHand
<1>2. CASE CstpSend
  BY <1>2 DEF CstpSend, CompressedInHand
<1>3. CASE \/ DtlsDisabled \/ DtlsNotConnected \/ DtlsRead \/ DtlsDead \/ DtlsRekeyFails \/ DtlsSend
           \/ DtlsSendDone \/ DtlsSendBlocks \/ DtlsSendDrops \/ DtlsSendFails
  BY <1>3, HandKept DEF DtlsDisabled, DtlsNotConnected, DtlsRead, DtlsDead, DtlsRekeyFails, DtlsSend,
     DtlsSendDone, DtlsSendBlocks, DtlsSendDrops, DtlsSendFails, cstp
<1>4. CASE \/ CstpLost \/ CstpRead \/ CstpEnds \/ CstpWrite \/ CstpWriteStalls
           \/ CstpWriteShort \/ CstpControl \/ CstpGivesUp \/ CstpIdle
  BY <1>4, HandKept DEF CstpLost, CstpRead, CstpEnds, CstpWrite, CstpWriteStalls,
     CstpWriteShort, CstpControl, CstpGivesUp, CstpIdle, cstp
<1>5. CASE \/ TunPass \/ TunGone \/ EndPass \/ PauseAndResume \/ Wake \/ Quit
           \/ UNCHANGED vars
  BY <1>5, HandKept DEF TunPass, TunGone, EndPass, PauseAndResume, Wake, Quit, vars, cstp
<1> QED
  BY <1>1, <1>2, <1>3, <1>4, <1>5 DEF Next

\* A connection that agreed on no compression never finds a compressed packet in
\* CSTP's hand: cstp_reconnect requeues it before the new connection is made.
THEOREM CompressedInHandAlways == Spec => []CompressedInHand
<1>1. Init => CompressedInHand
  BY DEF Init, CompressedInHand
<1> QED
  BY <1>1, HandStep, PTL DEF Spec
=============================================================================
