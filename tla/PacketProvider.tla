---------------------------- MODULE PacketProvider ----------------------------
(***************************************************************************)
(* The packet tunnel provider of the iOS extension: how packets the system *)
(* reads from the tun interface reach the UDP session.  Three kinds of     *)
(* code run beside each other: blocks of the serial queue "manager", the   *)
(* completion handlers of packetFlow, and those of the UDP session.  All   *)
(* share _UDPSession and _outgoingBuffer.                                  *)
(*                                                                         *)
(* Packets are numbered as they are read.  NetworkExtension is external: a *)
(* read completes with one or more packets, a session becomes ready and    *)
(* may cease to be, a write that is reported as failed delivered nothing.  *)
(***************************************************************************)
EXTENDS Naturals, Sequences, Functions

CONSTANTS
    MaxPackets,   \* packets the system reads from the interface
    MaxChanges    \* how often the session changes between ready and not ready

ASSUME ProviderAssumption == MaxPackets \in Nat /\ MaxChanges \in Nat

VARIABLES
    phase,      \* setTunnelNetworkSettings: "asked", "applied" or "failed"
    queue,      \* blocks waiting in _dispatchQueue
    session,    \* _UDPSession: nil is "none"
    reader,     \* readTun: not begun, waiting, or at one of its two last steps
    oneshot,    \* tunToUDP: it reads once
    buffer,     \* _outgoingBuffer
    hand,       \* datas of processOutgoingBuffer
    flights,    \* batches whose completion handler has not run
    singles,    \* datagrams of tunToUDP whose completion handler has not run
    stop,       \* stopTunnelWithReason: "no", "called" or "complete"
    next,       \* history: packets read so far
    changes,    \* history: changes of the session's state
    kept,       \* history: packets readTun put into the buffer
    delivered,  \* history: packets the session sent
    dropped     \* history: packets of readTun's batches that were written to nil

history == <<next, changes, kept, delivered, dropped>>
vars == <<phase, queue, session, reader, oneshot, buffer, hand, flights, singles, stop, history>>

Packets == 1..MaxPackets

TypeOK ==
    /\ phase \in {"asked", "applied", "failed"}
    /\ queue \in Seq({"setup", "stop"})
    /\ session \in {"none", "waiting", "ready"}
    /\ reader \in {"off", "armed", "process", "write"} /\ oneshot \in BOOLEAN
    /\ buffer \in Seq(Packets) /\ hand \in Seq(Packets)
    /\ \A b \in flights : b \in Seq(Packets) \ {<<>>}
    /\ singles \subseteq Packets
    /\ stop \in {"no", "called", "complete"}
    /\ next \in 0..MaxPackets /\ changes \in 0..MaxChanges
    /\ kept \subseteq Packets /\ delivered \subseteq Packets /\ dropped \subseteq Packets

\* startTunnelWithOptions has asked for the settings and begun the first read.
Init ==
    /\ phase = "asked" /\ queue = <<>> /\ session = "none"
    /\ reader = "off" /\ oneshot = TRUE
    /\ buffer = <<>> /\ hand = <<>> /\ flights = {} /\ singles = {}
    /\ stop = "no" /\ next = 0 /\ changes = 0
    /\ kept = {} /\ delivered = {} /\ dropped = {}

-----------------------------------------------------------------------------
\* The completion handler of setTunnelNetworkSettings.
SettingsApplied ==
    /\ phase = "asked"
    /\ phase' = "applied" /\ queue' = Append(queue, "setup")
    /\ UNCHANGED <<session, reader, oneshot, buffer, hand, flights, singles, stop, history>>

SettingsFail ==
    /\ phase = "asked"
    /\ phase' = "failed"
    /\ UNCHANGED <<queue, session, reader, oneshot, buffer, hand, flights, singles, stop, history>>

stopTunnelWithReason ==
    /\ stop = "no"
    /\ stop' = "called" /\ queue' = Append(queue, "stop")
    /\ UNCHANGED <<phase, session, reader, oneshot, buffer, hand, flights, singles, history>>

\* setupUDPSession makes a session unless there is one.
setupUDPSession == session' = IF session = "none" THEN "waiting" ELSE session

SetupBlock ==
    /\ queue # <<>> /\ Head(queue) = "setup"
    /\ queue' = Tail(queue)
    /\ setupUDPSession
    /\ reader' = "armed"
    /\ UNCHANGED <<phase, oneshot, buffer, hand, flights, singles, stop, history>>

StopBlock ==
    /\ queue # <<>> /\ Head(queue) = "stop"
    /\ queue' = Tail(queue)
    /\ session' = "none" /\ stop' = "complete"
    /\ UNCHANGED <<phase, reader, oneshot, buffer, hand, flights, singles, history>>

\* The network decides whether the session is ready.
SessionChanges ==
    /\ changes < MaxChanges /\ session # "none"
    /\ session' = IF session = "ready" THEN "waiting" ELSE "ready"
    /\ changes' = changes + 1
    /\ UNCHANGED <<phase, queue, reader, oneshot, buffer, hand, flights, singles, stop,
                   next, kept, delivered, dropped>>

-----------------------------------------------------------------------------
\* The packets of the next read, n of them.
Batch(n) == next + 1 .. next + n

\* tunToUDP: the first read.  Its packets never see the buffer, and the histories
\* do not follow them: without a session, as before the set-up, they are written to
\* nil and lost.
tunToUDP(n) ==
    /\ oneshot /\ next + n <= MaxPackets
    /\ oneshot' = FALSE /\ next' = next + n
    /\ singles' = IF session = "none" THEN {} ELSE Batch(n)
    /\ UNCHANGED <<phase, queue, session, reader, buffer, hand, flights, stop,
                   changes, kept, delivered, dropped>>

\* Its completion handler, with or without an error, makes sure of a session.
SingleDone(p) ==
    /\ p \in singles
    /\ singles' = singles \ {p}
    /\ setupUDPSession
    /\ UNCHANGED <<phase, queue, reader, oneshot, buffer, hand, flights, stop, history>>

\* The IPv4 packets among those of a read, in their order.
Ipv4(n) ==
    {s \in UNION {[1..m -> Batch(n)] : m \in 0..n} :
        \A i, j \in DOMAIN s : i < j => s[i] < s[j]}

\* readTun: the IPv4 packets of a read are appended to the buffer.
readTun(n) ==
    /\ reader = "armed" /\ next + n <= MaxPackets
    /\ next' = next + n
    /\ \E datas \in Ipv4(n) :
        buffer' = buffer \o datas /\ kept' = kept \cup Range(datas)
    /\ reader' = "process"
    /\ UNCHANGED <<phase, queue, session, oneshot, hand, flights, singles, stop,
                   changes, delivered, dropped>>

\* Mutant: the buffer is not emptied.
TakeBufferCopies ==
    /\ reader = "process" /\ session = "ready" /\ buffer # <<>>
    /\ hand' = buffer /\ buffer' = buffer
    /\ reader' = "write"
    /\ UNCHANGED <<phase, queue, session, oneshot, flights, singles, stop, history>>

\* Mutant: an empty buffer is taken as well.
TakeBufferEmpty ==
    /\ reader = "process" /\ session = "ready"
    /\ hand' = buffer /\ buffer' = <<>>
    /\ reader' = "write"
    /\ UNCHANGED <<phase, queue, session, oneshot, flights, singles, stop, history>>

\* processOutgoingBuffer takes all there is, if the session is ready,
TakeBuffer ==
    /\ reader = "process" /\ session = "ready" /\ buffer # <<>>
    /\ hand' = buffer /\ buffer' = <<>>
    /\ reader' = "write"
    /\ UNCHANGED <<phase, queue, session, oneshot, flights, singles, stop, history>>

\* and otherwise leaves it; readTun reads on.
KeepBuffer ==
    /\ reader = "process" /\ (session # "ready" \/ buffer = <<>>)
    /\ reader' = "armed"
    /\ UNCHANGED <<phase, queue, session, oneshot, buffer, hand, flights, singles, stop, history>>

\* Mutant: the session that was checked is taken for granted.
WriteBatchBlind ==
    /\ reader = "write"
    /\ hand' = <<>> /\ reader' = "armed"
    /\ dropped' = dropped \cup (IF session = "ready" THEN {} ELSE Range(hand))
    /\ flights' = IF session = "ready" THEN flights \cup {hand} ELSE flights
    /\ UNCHANGED <<phase, queue, session, oneshot, buffer, singles, stop,
                   next, changes, kept, delivered>>

\* The batch is written to the session there is now; nil has no completion handler.
WriteBatch ==
    /\ reader = "write"
    /\ hand' = <<>> /\ reader' = "armed"
    /\ dropped' = dropped \cup (IF session = "none" THEN Range(hand) ELSE {})
    /\ flights' = IF session = "none" THEN flights ELSE flights \cup {hand}
    /\ UNCHANGED <<phase, queue, session, oneshot, buffer, singles, stop,
                   next, changes, kept, delivered>>

BatchSent(b) ==
    /\ b \in flights
    /\ flights' = flights \ {b} /\ delivered' = delivered \cup Range(b)
    /\ UNCHANGED <<phase, queue, session, reader, oneshot, buffer, hand, singles, stop,
                   next, changes, kept, dropped>>

\* A batch that failed goes back into the buffer, behind what was read meanwhile.
BatchFails(b) ==
    /\ b \in flights
    /\ flights' = flights \ {b} /\ buffer' = buffer \o b
    /\ UNCHANGED <<phase, queue, session, reader, oneshot, hand, singles, stop, history>>

Sizes == 1..2

Blocks == SetupBlock \/ StopBlock
Handler == TakeBuffer \/ KeepBuffer \/ WriteBatch

Next ==
    \/ Blocks \/ Handler
    \/ SettingsApplied \/ SettingsFail \/ stopTunnelWithReason \/ SessionChanges
    \/ \E n \in Sizes : tunToUDP(n) \/ readTun(n)
    \/ \E p \in singles : SingleDone(p)
    \/ \E b \in flights : BatchSent(b) \/ BatchFails(b)

Spec == Init /\ [][Next]_vars

-----------------------------------------------------------------------------
\* Where a packet of readTun can be.
InFlight == UNION {Range(b) : b \in flights}
Places == Range(buffer) \cup Range(hand) \cup InFlight \cup delivered \cup dropped

\* No packet is in two of them, or twice in one.
Once ==
    /\ IsInjective(buffer) /\ IsInjective(hand) /\ \A b \in flights : IsInjective(b)
    /\ \A b, c \in flights : b # c => Range(b) \cap Range(c) = {}
    /\ Range(buffer) \cap (Range(hand) \cup InFlight \cup delivered \cup dropped) = {}
    /\ Range(hand) \cap (InFlight \cup delivered \cup dropped) = {}
    /\ InFlight \cap (delivered \cup dropped) = {}
    /\ delivered \cap dropped = {}

\* Every packet readTun kept is in one place and once: in the buffer, taken from
\* it, on its way, sent, or written to nil.  Handlers that take, write and put back
\* beside each other neither lose a packet nor send one twice
\* (PacketTunnelProvider.m 182-195 and 214-216).
Conservation == Places = kept /\ Once

\* A batch that processOutgoingBuffer took while the session was ready is written to
\* nil (PacketTunnelProvider.m 189, after the check of 178) only if the tunnel was
\* told to stop: nothing else that runs takes the session away between the check
\* and the write.  The packets of tunToUDP (170) are not meant: they are written to nil
\* whenever the first read completes before the session is set up.
DroppedOnlyByStop == dropped # {} => stop = "complete"
=============================================================================
