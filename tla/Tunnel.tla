-------------------------------- MODULE Tunnel --------------------------------
(***************************************************************************)
(* The data path: packets read from the tun device wait in one queue and   *)
(* leave over DTLS while it is connected, over CSTP otherwise.  A pass of  *)
(* openconnect_mainloop runs dtls_mainloop ("dtls", "dtls_send"),          *)
(* cstp_mainloop ("cstp", "write", "decide", "reconnect") and              *)
(* tun_mainloop ("tun"), looks for a command ("cmd"), and goes round again *)
(* or sleeps ("select").                                                   *)
(*                                                                         *)
(* A packet is a number, in the order the tun device delivered it.  Clocks *)
(* are left out (see CstpTimers and DtlsSession): a keepalive, a probe, a  *)
(* rekey or a dead peer may be due at any time.  What the two sockets and  *)
(* the gateway do is nondeterministic.                                     *)
(***************************************************************************)
EXTENDS Integers, Sequences, FiniteSets

CONSTANTS
    MaxQlen,   \* vpninfo->max_qlen
    MaxPkt,    \* bound on the packets the tun device delivers
    MaxDrift,  \* bound on the packets that are requeued without being counted
    Deflate    \* the gateway may agree to compression

ASSUME TunnelAssumption ==
    /\ MaxQlen \in Nat \ {0}
    /\ MaxPkt \in Nat /\ MaxDrift \in Nat
    /\ Deflate \in BOOLEAN

VARIABLES
    outgoing_queue,  \* vpninfo->outgoing_queue
    outgoing_qlen,   \* vpninfo->outgoing_qlen
    current,         \* vpninfo->current_ssl_pkt: what kind of packet, and
    held,            \* which one if it is "data", else 0
    pending,         \* vpninfo->pending_deflated_pkt, 0 for NULL
    deflate,         \* vpninfo->deflate
    owe,             \* vpninfo->owe_ssl_dpd_response
    ssl_up,          \* vpninfo->ssl_fd is not -1
    dtls_state,      \* vpninfo->dtls_state
    dtls_waits,      \* why this pass of the DTLS send loop left the queue, if it did
    tun_monitored,   \* read_fd_monitored(vpninfo, tun)
    incoming,        \* vpninfo->incoming_queue is not empty
    work,            \* did_work
    pc,              \* where the loop is
    next,            \* the next packet of the tun device
    sent,            \* what each channel has taken, in order
    dropped,         \* packets given up by the DTLS send loop
    uncounted        \* how many packets cstp_reconnect requeued without counting

queue == <<outgoing_queue, outgoing_qlen, next, sent, dropped, uncounted>>
cstp == <<current, held, pending, deflate, owe, ssl_up>>
dtls == <<dtls_state, dtls_waits>>
vars == <<queue, cstp, dtls, tun_monitored, incoming, work, pc>>

Packet == 1..MaxPkt

\* The packets cstp.c keeps as static structs, and deflate_pkt, the one buffer
\* that holds the compressed form of pending.
Control == {"dpd", "dpd_resp", "keepalive"}

TypeOK ==
    /\ outgoing_queue \in Seq(Packet)
    /\ outgoing_qlen \in Int
    /\ current \in Control \cup {"none", "data", "deflate_pkt"}
    /\ held \in Packet \cup {0}
    /\ pending \in Packet \cup {0}
    /\ deflate \in BOOLEAN /\ owe \in BOOLEAN /\ ssl_up \in BOOLEAN
    /\ dtls_waits \in {"no", "socket", "handshake"}
    /\ tun_monitored \in BOOLEAN
    /\ incoming \in BOOLEAN /\ work \in BOOLEAN
    /\ dtls_state \in {"DISABLED", "SLEEPING", "CONNECTING", "CONNECTED"}
    /\ pc \in {"dtls", "dtls_send", "cstp", "write", "decide", "reconnect", "tun",
               "cmd", "select", "quit"}
    /\ next \in 1..(MaxPkt + 1)
    /\ sent \in [{"cstp", "dtls"} -> Seq(Packet)]
    /\ dropped \subseteq Packet
    /\ uncounted \in Nat

\* The session is set up: CSTP connected, compressing or not, the tun device handed
\* over, and the DTLS channel wherever openconnect_setup_dtls left it; it stays
\* disabled when that was not called or found no address or cipher.
Init ==
    /\ outgoing_queue = <<>> /\ outgoing_qlen = 0
    /\ current = "none" /\ held = 0 /\ pending = 0 /\ owe = FALSE
    /\ deflate \in {FALSE, Deflate}
    /\ ssl_up = TRUE
    /\ dtls_state \in {"DISABLED", "SLEEPING", "CONNECTING", "CONNECTED"}
    /\ dtls_waits = "no"
    /\ tun_monitored = TRUE /\ incoming = FALSE /\ work = FALSE
    /\ pc = "dtls"
    /\ next = 1 /\ sent = [c \in {"cstp", "dtls"} |-> <<>>] /\ dropped = {}
    /\ uncounted = 0

-----------------------------------------------------------------------------
\* connect_dtls_socket leaves the channel asleep, in a handshake, or connected.
DtlsConnect == dtls_state' \in {"SLEEPING", "CONNECTING", "CONNECTED"}

\* dtls_reconnect closes the channel, and with it the wait for its socket.
dtls_reconnect == DtlsConnect /\ dtls_waits' = "no"

\* dtls_mainloop is skipped while DTLS is disabled.
DtlsDisabled ==
    /\ pc = "dtls" /\ dtls_state = "DISABLED"
    /\ pc' = "cstp"
    /\ UNCHANGED <<queue, cstp, dtls, tun_monitored, incoming, work>>

\* CONNECTING: the handshake goes on, ends or fails.  SLEEPING: wait, or connect.
\* A handshake that ends is no work, and leaves the queue to the next pass.
DtlsNotConnected ==
    /\ pc = "dtls" /\ dtls_state \in {"SLEEPING", "CONNECTING"}
    /\ DtlsConnect
    /\ dtls_waits' = IF dtls_state' = "CONNECTED" THEN "handshake" ELSE "no"
    /\ pc' = "cstp"
    /\ UNCHANGED <<queue, cstp, tun_monitored, incoming, work>>

\* CONNECTED: read; then keepalive_action.  A datagram of data, a probe or a
\* keepalive count as work.
DtlsRead ==
    /\ pc = "dtls" /\ dtls_state = "CONNECTED"
    /\ incoming' \in {incoming, TRUE}
    /\ work' \in {incoming', TRUE}
    /\ dtls_waits' = "no"
    /\ pc' = "dtls_send"
    /\ UNCHANGED <<queue, cstp, dtls_state, tun_monitored>>

\* CONNECTED, and the peer is dead or a rekey is due.
DtlsDead ==
    /\ pc = "dtls" /\ dtls_state = "CONNECTED"
    /\ incoming' \in {incoming, TRUE}
    /\ dtls_reconnect
    /\ work' = TRUE /\ pc' = "cstp"
    /\ UNCHANGED <<queue, cstp, tun_monitored>>

\* The handshake of a rekey fails, and a new channel is begun: no work, whatever
\* was read before it, and the queue is left as after any other handshake.
DtlsRekeyFails ==
    /\ pc = "dtls" /\ dtls_state = "CONNECTED"
    /\ incoming' \in {incoming, TRUE}
    /\ dtls_state' \in {"CONNECTING", "CONNECTED"}
    /\ dtls_waits' = IF dtls_state' = "CONNECTED" THEN "handshake" ELSE "no"
    /\ pc' = "cstp"
    /\ UNCHANGED <<queue, cstp, tun_monitored, work>>

\* The DTLS send loop takes the head of the queue, and is done when it is empty.
DtlsSend ==
    /\ pc = "dtls_send" /\ outgoing_queue # <<>>
    /\ outgoing_queue' = Tail(outgoing_queue)
    /\ outgoing_qlen' = outgoing_qlen - 1
    /\ sent' = [sent EXCEPT !["dtls"] = Append(@, Head(outgoing_queue))]
    /\ UNCHANGED <<cstp, dtls, tun_monitored, incoming, work, pc, next, dropped,
                   uncounted>>

DtlsSendDone ==
    /\ pc = "dtls_send" /\ outgoing_queue = <<>>
    /\ pc' = "cstp"
    /\ UNCHANGED <<queue, cstp, dtls, tun_monitored, incoming, work>>

\* Mutant: the packet is taken off the queue and not put back.
DtlsSendBlocksForgets ==
    /\ pc = "dtls_send" /\ outgoing_queue # <<>>
    /\ outgoing_queue' = Tail(outgoing_queue)
    /\ outgoing_qlen' = outgoing_qlen - 1
    /\ dtls_waits' = "socket"
    /\ pc' = "cstp"
    /\ UNCHANGED <<next, sent, dropped, uncounted, cstp, dtls_state, tun_monitored,
                   incoming, work>>

\* SSL_ERROR_WANT_WRITE: the packet goes back to the head of the queue.
DtlsSendBlocks ==
    /\ pc = "dtls_send" /\ outgoing_queue # <<>>
    /\ dtls_waits' = "socket"
    /\ pc' = "cstp"
    /\ UNCHANGED <<queue, cstp, dtls_state, tun_monitored, incoming, work>>

\* SSL_ERROR_WANT_READ: the packet is neither requeued nor sent.
DtlsSendDrops ==
    /\ pc = "dtls_send" /\ outgoing_queue # <<>>
    /\ outgoing_queue' = Tail(outgoing_queue)
    /\ outgoing_qlen' = outgoing_qlen - 1
    /\ dropped' = dropped \cup {Head(outgoing_queue)}
    /\ dtls_waits' = "socket"
    /\ pc' = "cstp"
    /\ UNCHANGED <<cstp, dtls_state, tun_monitored, incoming, work, next, sent,
                   uncounted>>

\* Mutant: the packet that could not be sent goes to the end of the queue.
DtlsSendFailsToTail ==
    /\ pc = "dtls_send" /\ outgoing_queue # <<>>
    /\ outgoing_queue' = Append(Tail(outgoing_queue), Head(outgoing_queue))
    /\ dtls_reconnect
    /\ work' = TRUE /\ pc' = "cstp"
    /\ UNCHANGED <<outgoing_qlen, next, sent, dropped, uncounted, cstp, tun_monitored,
                   incoming>>

\* Mutant: the packet that could not be sent is requeued but not counted.
DtlsSendFailsUncounted ==
    /\ pc = "dtls_send" /\ outgoing_queue # <<>>
    /\ outgoing_qlen' = outgoing_qlen - 1
    /\ dtls_reconnect
    /\ work' = TRUE /\ pc' = "cstp"
    /\ UNCHANGED <<outgoing_queue, next, sent, dropped, uncounted, cstp, tun_monitored,
                   incoming>>

\* Any other error: fall back to CSTP, with the packet back at the head.
DtlsSendFails ==
    /\ pc = "dtls_send" /\ outgoing_queue # <<>>
    /\ dtls_reconnect
    /\ work' = TRUE /\ pc' = "cstp"
    /\ UNCHANGED <<queue, cstp, tun_monitored, incoming>>

-----------------------------------------------------------------------------
\* cstp_mainloop goes to do_reconnect when there is no connection (after a
\* pause), and when reading fails, which may be after some packets.
CstpLost ==
    /\ pc = "cstp"
    /\ incoming' \in {incoming, incoming \/ ssl_up}
    /\ owe' \in {owe, owe \/ ssl_up}
    /\ pc' = "reconnect"
    /\ UNCHANGED <<queue, current, held, pending, deflate, ssl_up, dtls, tun_monitored, work>>

\* The read loop: data for the tun device, a DPD request, both or neither.
CstpRead ==
    /\ pc = "cstp" /\ ssl_up
    /\ incoming' \in {incoming, TRUE}
    /\ work' = (work \/ incoming')
    /\ owe' \in {owe, TRUE}
    /\ pc' = IF current = "none" THEN "decide" ELSE "write"
    /\ UNCHANGED <<queue, current, held, pending, deflate, ssl_up, dtls, tun_monitored>>

\* A disconnect, a packet of an unknown type or a checksum error ends the session.
CstpEnds ==
    /\ pc = "cstp" /\ ssl_up
    /\ pc' = "quit"
    /\ UNCHANGED <<queue, cstp, dtls, tun_monitored, incoming, work>>

\* handle_outgoing, the packet is taken.  deflate_pkt stands for pending, which
\* is freed; the pointer to it stays, stale.
CstpWrite ==
    /\ pc = "write"
    /\ sent' = IF current \in {"data", "deflate_pkt"}
               THEN [sent EXCEPT !["cstp"] =
                        Append(@, IF current = "data" THEN held ELSE pending)]
               ELSE sent
    /\ current' = "none" /\ held' = 0
    /\ pc' = "decide"
    /\ UNCHANGED <<outgoing_queue, outgoing_qlen, next, dropped, uncounted, pending, deflate,
                   owe, ssl_up, dtls, tun_monitored, incoming, work>>

\* handle_outgoing, the socket is full: keep the very same packet for later,
\* unless the write failed, the stall has lasted too long or a rekey is due.
CstpWriteStalls ==
    /\ pc = "write"
    /\ pc' \in {"tun", "reconnect"}
    /\ UNCHANGED <<queue, cstp, dtls, tun_monitored, incoming, work>>

\* A write that was cut short is an internal error.
CstpWriteShort ==
    /\ pc = "write"
    /\ pc' = "quit"
    /\ UNCHANGED <<queue, cstp, dtls, tun_monitored, incoming, work>>

\* An answer that is owed goes first; then a probe, or a keepalive when there
\* is no data for CSTP to send.
CstpControl ==
    /\ pc = "decide"
    /\ \/ owe /\ current' = "dpd_resp"
       \/ ~owe /\ current' = "dpd"
       \/ /\ ~owe /\ current' = "keepalive"
          /\ dtls_state = "CONNECTED" \/ outgoing_queue = <<>>
    /\ owe' = FALSE
    /\ pc' = "write"
    /\ UNCHANGED <<queue, held, pending, deflate, ssl_up, dtls, tun_monitored, incoming, work>>

\* The peer is dead, or the session must be rekeyed.
CstpGivesUp ==
    /\ pc = "decide" /\ ~owe
    /\ pc' = "reconnect"
    /\ UNCHANGED <<queue, cstp, dtls, tun_monitored, incoming, work>>

\* The next packet of the queue, compressed or not (deflate may fail, and fails
\* at the bound MaxDrift: see RequeueDeflated).
CstpSend ==
    /\ pc = "decide" /\ ~owe
    /\ dtls_state # "CONNECTED" /\ outgoing_queue # <<>>
    /\ outgoing_queue' = Tail(outgoing_queue)
    /\ outgoing_qlen' = outgoing_qlen - 1
    /\ \/ /\ deflate /\ uncounted < MaxDrift
          /\ current' = "deflate_pkt" /\ pending' = Head(outgoing_queue) /\ held' = 0
       \/ /\ current' = "data" /\ held' = Head(outgoing_queue) /\ pending' = pending
    /\ pc' = "write"
    /\ UNCHANGED <<next, sent, dropped, uncounted, deflate, owe, ssl_up, dtls, tun_monitored,
                   incoming, work>>

\* Mutant: the queue is left to the next pass.
CstpIdleEarly ==
    /\ pc = "decide" /\ ~owe
    /\ pc' = "tun"
    /\ UNCHANGED <<queue, cstp, dtls, tun_monitored, incoming, work>>

\* Nothing is due, and there is nothing that CSTP should send.
CstpIdle ==
    /\ pc = "decide" /\ ~owe
    /\ dtls_state = "CONNECTED" \/ outgoing_queue = <<>>
    /\ pc' = "tun"
    /\ UNCHANGED <<queue, cstp, dtls, tun_monitored, incoming, work>>

\* Mutant: the compressed packet is kept for the new connection as well.
RequeueDeflatedKept ==
    IF deflate /\ current = "deflate_pkt"
    THEN /\ outgoing_queue' = Append(outgoing_queue, pending)
         /\ uncounted' = uncounted + 1
         /\ UNCHANGED <<current, pending>>
    ELSE UNCHANGED <<outgoing_queue, uncounted, current, pending>>

\* Mutant: the compressed packet is not requeued.
RequeueDeflatedNot ==
    /\ current' = IF current = "deflate_pkt" THEN "none" ELSE current
    /\ UNCHANGED <<outgoing_queue, uncounted, pending>>

\* cstp_reconnect gives the packet that was compressed back to the queue: its
\* compressed form means nothing to a new connection.  outgoing_qlen stays.
RequeueDeflated ==
    IF deflate /\ current = "deflate_pkt"
    THEN /\ current' = "none" /\ pending' = 0
         /\ outgoing_queue' = Append(outgoing_queue, pending)
         /\ uncounted' = uncounted + 1
    ELSE UNCHANGED <<outgoing_queue, uncounted, current, pending>>

\* do_reconnect and do_dtls_reconnect: the new connection may come without
\* compression, for good; any other packet in hand is kept and sent again.  A
\* pause interrupts cstp_reconnect, which then returns 0 all the same.  A DTLS
\* channel that rekeys itself is left alone.
CstpReconnects ==
    /\ pc = "reconnect"
    /\ RequeueDeflated
    /\ ssl_up' \in BOOLEAN
    /\ deflate' \in {deflate, FALSE}
    /\ \/ dtls_state # "DISABLED" /\ dtls_reconnect
       \/ UNCHANGED dtls
    /\ work' = TRUE /\ pc' = "tun"
    /\ UNCHANGED <<outgoing_qlen, next, sent, dropped, held, owe, tun_monitored, incoming>>

\* The reconnect times out or is cancelled.
CstpReconnectFails ==
    /\ pc = "reconnect"
    /\ RequeueDeflated
    /\ ssl_up' = FALSE
    /\ pc' = "quit"
    /\ UNCHANGED <<outgoing_qlen, next, sent, dropped, held, deflate, owe, dtls,
                   tun_monitored, incoming, work>>

-----------------------------------------------------------------------------
\* Mutant: the device is watched again one packet too early.
ReadTunEarly(n) ==
    /\ IF tun_monitored
       THEN outgoing_qlen < MaxQlen => n <= MaxQlen - outgoing_qlen
       ELSE n = 0
    /\ tun_monitored' = IF tun_monitored
                        THEN n = 0 \/ outgoing_qlen + n # MaxQlen
                        ELSE outgoing_qlen <= MaxQlen

\* tun_mainloop reads n packets from a device that is watched: it stops, and
\* stops watching, when the length of the queue equals the limit.  A device that
\* is not watched is watched again as soon as there is room.
ReadTun(n) ==
    /\ IF tun_monitored
       THEN outgoing_qlen < MaxQlen => n <= MaxQlen - outgoing_qlen
       ELSE n = 0
    /\ tun_monitored' = IF tun_monitored
                        THEN n = 0 \/ outgoing_qlen + n # MaxQlen
                        ELSE outgoing_qlen < MaxQlen

\* tun_mainloop; what came in is written to the device.
TunPass ==
    /\ pc = "tun"
    /\ \E n \in 0..(MaxPkt + 1 - next) :
        /\ ReadTun(n)
        /\ outgoing_queue' = outgoing_queue \o [i \in 1..n |-> next + i - 1]
        /\ outgoing_qlen' = outgoing_qlen + n
        /\ next' = next + n
        /\ work' = (work \/ n > 0)
    /\ incoming' = FALSE
    /\ pc' = "cmd"
    /\ UNCHANGED <<sent, dropped, uncounted, cstp, dtls>>

\* The script at the other end of the tun socket is gone.
TunGone ==
    /\ pc = "tun" /\ incoming
    /\ pc' = "quit"
    /\ UNCHANGED <<queue, cstp, dtls, tun_monitored, incoming, work>>

\* No command: the pass is repeated if anybody did any work.
EndPass ==
    /\ pc = "cmd"
    /\ pc' = IF work THEN "dtls" ELSE "select"
    /\ work' = FALSE
    /\ UNCHANGED <<queue, cstp, dtls, tun_monitored, incoming>>

\* OC_CMD_PAUSE closes both connections; then openconnect_mainloop is called again.
PauseAndResume ==
    /\ pc = "cmd"
    /\ ssl_up' = FALSE
    /\ dtls_state' = IF dtls_state = "DISABLED" THEN "DISABLED" ELSE "SLEEPING"
    /\ dtls_waits' = "no"
    /\ work' = FALSE /\ pc' = "dtls"
    /\ UNCHANGED <<queue, current, held, pending, deflate, owe, tun_monitored, incoming>>

\* select() returns: a packet, room in a socket, or a deadline.
Wake ==
    /\ pc = "select"
    /\ pc' = "dtls"
    /\ UNCHANGED <<queue, cstp, dtls, tun_monitored, incoming, work>>

Quit == pc = "quit" /\ UNCHANGED vars

Next ==
    \/ DtlsDisabled \/ DtlsNotConnected \/ DtlsRead \/ DtlsDead \/ DtlsRekeyFails
    \/ DtlsSend \/ DtlsSendDone \/ DtlsSendBlocks \/ DtlsSendDrops \/ DtlsSendFails
    \/ CstpLost \/ CstpRead \/ CstpEnds
    \/ CstpWrite \/ CstpWriteStalls \/ CstpWriteShort
    \/ CstpControl \/ CstpGivesUp \/ CstpSend \/ CstpIdle
    \/ CstpReconnects \/ CstpReconnectFails
    \/ TunPass \/ TunGone \/ EndPass \/ PauseAndResume \/ Wake \/ Quit

Spec == Init /\ [][Next]_vars
-----------------------------------------------------------------------------
Times(s, p) == Cardinality({i \in DOMAIN s : s[i] = p})
Holds(b) == IF b THEN 1 ELSE 0

\* No packet is lost, none is sent twice: whatever the stalls, errors, requeues,
\* reconnects and changes of channel, every packet read from the tun device is
\* in exactly one place - the queue, CSTP's hand (possibly compressed), one of
\* the two channels - or was given up by the DTLS send loop.
Custody ==
    \A p \in 1..(next - 1) :
        Times(outgoing_queue, p) + Holds(current = "data" /\ held = p)
          + Holds(current = "deflate_pkt" /\ pending = p)
          + Times(sent["cstp"], p) + Times(sent["dtls"], p)
          + Holds(p \in dropped) = 1

\* The packets of a channel or a queue.
Elements(s) == {s[i] : i \in DOMAIN s}

\* The packets the program is answerable for: queued, in CSTP's hand as they are,
\* or in its hand compressed.
Carried ==
    Elements(outgoing_queue)
      \cup (IF current = "data" THEN {held} ELSE {})
      \cup (IF current = "deflate_pkt" THEN {pending} ELSE {})

\* The data path implements the relay: a step takes packets, passes one on, gives
\* one up, or is invisible - as are all requeues, reconnects, stalls and changes
\* of channel (cstp.c 562-606, 837-1008; dtls.c 824-887).
R ==
    INSTANCE Relay WITH carried <- Carried, lost <- dropped,
                        passed <- Elements(sent["cstp"]) \cup Elements(sent["dtls"])
ImplementsRelay == R!Spec

\* tun_mainloop's test for a full queue is an equality (mainloop.c 82), so the
\* device may only be watched while there is room: past the limit it would be
\* read for ever.
TunGate == tun_monitored => outgoing_qlen < MaxQlen

\* The counter is the length of the queue (mainloop.c 155: the tun bit is set
\* and cleared "according to the queue length").
QlenMatches == outgoing_qlen = Len(outgoing_queue)

\* Through every stall, error, requeue, pause and change of channel the counter is
\* the length of the queue, but for the packets cstp_reconnect gave back to the
\* queue (cstp.c 570-576): those are taken off it again with a decrement, and never
\* had their increment.
QlenAccounted == outgoing_qlen + uncounted = Len(outgoing_queue)

\* The queue never holds more than max_qlen packets, and as many more as were
\* requeued without being counted.
QueueBounded == Len(outgoing_queue) <= MaxQlen + uncounted

\* A compressed packet is kept only for a connection that compresses: it is never
\* handed to one that agreed on no compression (cstp.c 570-576).
CompressedInHand == current = "deflate_pkt" => deflate

\* Each channel carries its packets in the order the tun device delivered them,
\* whatever DTLS puts back (dtls.c 843-861) or CSTP holds on to, until a compressed
\* packet is requeued, which goes behind the others.
InOrder ==
    uncounted = 0 =>
        \A c \in {"cstp", "dtls"} : \A i, j \in DOMAIN sent[c] :
            i < j => sent[c][i] < sent[c][j]

\* The loop never sleeps on packets that a channel could send: when it sleeps with
\* packets queued, a send is waiting for its socket (cstp.c 838-863, dtls.c 841-861),
\* or the DTLS handshake has ended in this very pass, which dtls_mainloop does not
\* report as work (dtls.c 680-684), and the packets wait for the next event.
NoSleepOnQueue ==
    pc = "select" /\ outgoing_queue # <<>>
        => \/ current # "none"
           \/ dtls_state = "CONNECTED" /\ dtls_waits # "no"
=============================================================================
