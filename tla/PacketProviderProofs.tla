------------------------ MODULE PacketProviderProofs ------------------------
(***************************************************************************)
(* For every number of packets and of changes of the session: the provider *)
(* is type correct, its reader is started once, no packet it keeps is lost *)
(* or doubled, and only a stop makes it write a batch to nil.              *)
(***************************************************************************)
EXTENDS PacketProvider, SequenceTheorems, TLAPS

\* Two sequences without repetition and without a common packet make one.
LEMMA InjectiveConcat ==
    ASSUME NEW S, NEW s \in Seq(S), NEW t \in Seq(S), IsInjective(s), IsInjective(t),
           Range(s) \cap Range(t) = {}
    PROVE  IsInjective(s \o t)
<1>1. /\ s \o t \in Seq(S) /\ Len(s \o t) = Len(s) + Len(t)
      /\ \A i \in 1..Len(s) + Len(t) :
            (s \o t)[i] = IF i <= Len(s) THEN s[i] ELSE t[i - Len(s)]
  BY ConcatProperties
<1>2. /\ Len(s) \in Nat /\ Len(t) \in Nat
      /\ DOMAIN s = 1..Len(s) /\ DOMAIN t = 1..Len(t) /\ DOMAIN (s \o t) = 1..Len(s) + Len(t)
  BY <1>1, LenProperties
<1> SUFFICES ASSUME NEW i \in DOMAIN (s \o t), NEW j \in DOMAIN (s \o t), (s \o t)[i] = (s \o t)[j]
             PROVE  i = j
  BY DEF IsInjective
<1>3. CASE i <= Len(s) /\ j <= Len(s)
  <2>1. i \in DOMAIN s /\ j \in DOMAIN s /\ s[i] = s[j]
    BY <1>1, <1>2, <1>3
  <2> QED
    BY <2>1 DEF IsInjective
<1>4. CASE ~(i <= Len(s)) /\ ~(j <= Len(s))
  <2>1. i - Len(s) \in DOMAIN t /\ j - Len(s) \in DOMAIN t /\ t[i - Len(s)] = t[j - Len(s)]
    BY <1>1, <1>2, <1>4
  <2>2. i - Len(s) = j - Len(s)
    BY <2>1 DEF IsInjective
  <2> QED
    BY <1>2, <2>2
<1>5. CASE i <= Len(s) /\ ~(j <= Len(s))
  <2>1. i \in DOMAIN s /\ j - Len(s) \in DOMAIN t /\ s[i] = t[j - Len(s)]
    BY <1>1, <1>2, <1>5
  <2> QED
    BY <2>1 DEF Range
<1>6. CASE ~(i <= Len(s)) /\ j <= Len(s)
  <2>1. j \in DOMAIN s /\ i - Len(s) \in DOMAIN t /\ s[j] = t[i - Len(s)]
    BY <1>1, <1>2, <1>6
  <2> QED
    BY <2>1 DEF Range
<1> QED
  BY <1>3, <1>4, <1>5, <1>6

\* An empty batch has no packets.
LEMMA EmptyRange == Range(<<>>) = {} /\ IsInjective(<<>>)
<1>1. <<>> \in Seq({}) /\ Len(<<>>) = 0
  BY EmptySeq
<1>2. DOMAIN <<>> = 1..0
  BY <1>1, LenProperties
<1>3. DOMAIN <<>> = {}
  BY <1>2
<1> QED
  BY <1>3 DEF Range, IsInjective

\* What readTun appends: new packets, each once.
LEMMA Ipv4Means ==
    ASSUME next \in Nat, NEW n \in Nat, NEW s \in Ipv4(n)
    PROVE  /\ s \in Seq(next + 1 .. next + n) /\ IsInjective(s)
           /\ Range(s) \subseteq next + 1 .. next + n
<1>1. PICK m \in 0..n : s \in [1..m -> Batch(n)]
  BY DEF Ipv4
<1>2. s \in Seq(Batch(n))
  BY <1>1
<1>3. \A i, j \in DOMAIN s : i < j => s[i] < s[j]
  BY DEF Ipv4
<1>4. ASSUME NEW i \in DOMAIN s, NEW j \in DOMAIN s, s[i] = s[j] PROVE i = j
  <2>1. i \in Nat /\ j \in Nat /\ s[i] \in Nat /\ s[j] \in Nat
    BY <1>1 DEF Batch
  <2>2. ~(s[i] < s[j]) /\ ~(s[j] < s[i])
    BY <1>4, <2>1
  <2> QED
    BY <1>3, <2>1, <2>2
<1> QED
  BY <1>2, <1>4, RangeOfSeq DEF Batch, IsInjective

-----------------------------------------------------------------------------
\* The set-up block is queued once, before the reader is started by it: this is why
\* no block starts a reader that is in the middle of a batch.
StartedOnce ==
    /\ phase = "asked" => reader = "off"
    /\ \A i \in DOMAIN queue : queue[i] = "setup" => phase = "applied" /\ reader = "off"
    /\ \A i, j \in DOMAIN queue : queue[i] = "setup" /\ queue[j] = "setup" => i = j

\* processOutgoingBuffer has a batch in its hand exactly while it writes.
InHand == hand # <<>> <=> reader = "write"

\* The inductive invariant behind TypeOK.
ReaderInv == TypeOK /\ StartedOnce /\ InHand

\* Appending a block, and running the first one.
LEMMA QueueFacts ==
    ASSUME NEW q \in Seq({"setup", "stop"}), NEW b \in {"setup", "stop"}
    PROVE  /\ Append(q, b) \in Seq({"setup", "stop"})
           /\ \A i \in DOMAIN Append(q, b) :
                 \/ i \in DOMAIN q /\ Append(q, b)[i] = q[i]
                 \/ i = Len(q) + 1 /\ Append(q, b)[i] = b
           /\ q # <<>> => /\ Tail(q) \in Seq({"setup", "stop"})
                          /\ 1 \in DOMAIN q /\ q[1] = Head(q)
                          /\ \A i \in DOMAIN Tail(q) :
                                i \in Nat /\ i # 0 /\ i + 1 \in DOMAIN q /\ Tail(q)[i] = q[i + 1]
<1>1. Append(q, b) \in Seq({"setup", "stop"})
  OBVIOUS
<1>2. \A i \in DOMAIN Append(q, b) :
        \/ i \in DOMAIN q /\ Append(q, b)[i] = q[i]
        \/ i = Len(q) + 1 /\ Append(q, b)[i] = b
  BY AppendProperties, LenProperties
<1>3. ASSUME q # <<>>
      PROVE  /\ Tail(q) \in Seq({"setup", "stop"})
             /\ 1 \in DOMAIN q /\ q[1] = Head(q)
             /\ \A i \in DOMAIN Tail(q) :
                   i \in Nat /\ i # 0 /\ i + 1 \in DOMAIN q /\ Tail(q)[i] = q[i + 1]
  BY <1>3, HeadTailProperties, LenProperties
<1> QED
  BY <1>1, <1>2, <1>3

\* Every step keeps the reader started at most once.
LEMMA StartStep == ReaderInv /\ [Next]_vars => StartedOnce'
<1> SUFFICES ASSUME ReaderInv, [Next]_vars PROVE StartedOnce'
  OBVIOUS
<1>0. queue \in Seq({"setup", "stop"}) /\ StartedOnce
  BY DEF ReaderInv, TypeOK
<1> USE DEF StartedOnce
<1>1. CASE SettingsApplied
  <2>1. /\ phase = "asked" /\ phase' = "applied" /\ reader' = reader
        /\ queue' = Append(queue, "setup")
    BY <1>1 DEF SettingsApplied
  <2>2. \A i \in DOMAIN queue : queue[i] # "setup"
    BY <1>0, <2>1
  <2>3. \A i \in DOMAIN queue' :
          \/ i \in DOMAIN queue /\ queue'[i] = queue[i]
          \/ i = Len(queue) + 1 /\ queue'[i] = "setup"
    BY <1>0, <2>1, QueueFacts
  <2> QED
    BY <1>0, <2>1, <2>2, <2>3
<1>2. CASE stopTunnelWithReason
  <2>1. phase' = phase /\ reader' = reader /\ queue' = Append(queue, "stop")
    BY <1>2 DEF stopTunnelWithReason
  <2>2. \A i \in DOMAIN queue' :
          \/ i \in DOMAIN queue /\ queue'[i] = queue[i]
          \/ i = Len(queue) + 1 /\ queue'[i] = "stop"
    BY <1>0, <2>1, QueueFacts
  <2> QED
    BY <1>0, <2>1, <2>2
<1>3. CASE SetupBlock
  <2>1. /\ queue # <<>> /\ queue' = Tail(queue) /\ Head(queue) = "setup" /\ phase' = phase
    BY <1>3 DEF SetupBlock
  <2>2. /\ 1 \in DOMAIN queue /\ queue[1] = "setup"
        /\ \A i \in DOMAIN queue' :
              i \in Nat /\ i # 0 /\ i + 1 \in DOMAIN queue /\ queue'[i] = queue[i + 1]
    BY <1>0, <2>1, QueueFacts
  <2>3. \A i \in DOMAIN queue' : queue'[i] # "setup"
    BY <1>0, <2>2
  <2>4. phase # "asked"
    BY <1>0, <2>2
  <2> QED
    BY <2>1, <2>3, <2>4
<1>4. CASE StopBlock
  <2>1. queue # <<>> /\ queue' = Tail(queue) /\ phase' = phase /\ reader' = reader
    BY <1>4 DEF StopBlock
  <2>2. \A i \in DOMAIN queue' :
              i \in Nat /\ i # 0 /\ i + 1 \in DOMAIN queue /\ queue'[i] = queue[i + 1]
    BY <1>0, <2>1, QueueFacts
  <2> QED
    BY <1>0, <2>1, <2>2
<1>5. CASE SettingsFail
  BY <1>0, <1>5 DEF SettingsFail
<1>6. CASE TakeBuffer \/ KeepBuffer \/ WriteBatch \/ \E n \in Sizes : readTun(n)
  BY <1>0, <1>6 DEF TakeBuffer, KeepBuffer, WriteBatch, readTun
<1>7. CASE \/ SessionChanges \/ \E n \in Sizes : tunToUDP(n)
           \/ \E p \in singles : SingleDone(p)
           \/ \E b \in flights : BatchSent(b) \/ BatchFails(b)
           \/ UNCHANGED vars
  BY <1>0, <1>7 DEF SessionChanges, tunToUDP, SingleDone, BatchSent, BatchFails, vars
<1> QED
  BY <1>1, <1>2, <1>3, <1>4, <1>5, <1>6, <1>7 DEF Next, Blocks, Handler

\* The batch that is taken is not empty, and it is put down when it is written.
LEMMA HandStep == ReaderInv /\ [Next]_vars => InHand'
<1> SUFFICES ASSUME ReaderInv, [Next]_vars PROVE InHand'
  OBVIOUS
<1>0. queue \in Seq({"setup", "stop"}) /\ StartedOnce /\ InHand
  BY DEF ReaderInv, TypeOK
<1> USE DEF InHand
<1>1. CASE SetupBlock
  <2>1. 1 \in DOMAIN queue /\ queue[1] = "setup"
    BY <1>0, <1>1, QueueFacts DEF SetupBlock
  <2>2. reader = "off"
    BY <1>0, <2>1 DEF StartedOnce
  <2> QED
    BY <1>0, <1>1, <2>2 DEF SetupBlock
<1>2. CASE TakeBuffer \/ KeepBuffer \/ WriteBatch \/ \E n \in Sizes : readTun(n)
  BY <1>0, <1>2 DEF TakeBuffer, KeepBuffer, WriteBatch, readTun
<1>3. CASE \/ SettingsApplied \/ SettingsFail \/ stopTunnelWithReason \/ StopBlock
           \/ SessionChanges \/ \E n \in Sizes : tunToUDP(n)
           \/ \E p \in singles : SingleDone(p)
           \/ \E b \in flights : BatchSent(b) \/ BatchFails(b)
           \/ UNCHANGED vars
  BY <1>0, <1>3 DEF SettingsApplied, SettingsFail, stopTunnelWithReason, StopBlock,
     SessionChanges, tunToUDP, SingleDone, BatchSent, BatchFails, vars
<1> QED
  BY <1>1, <1>2, <1>3 DEF Next, Blocks, Handler

\* Every step keeps the types.
LEMMA TypeStep == ReaderInv /\ [Next]_vars => TypeOK'
<1> SUFFICES ASSUME ReaderInv, [Next]_vars PROVE TypeOK'
  OBVIOUS
<1>0. TypeOK /\ InHand /\ MaxPackets \in Nat /\ MaxChanges \in Nat
  BY ProviderAssumption DEF ReaderInv
<1>1. CASE SettingsApplied \/ SettingsFail \/ stopTunnelWithReason
  <2>1. queue' \in Seq({"setup", "stop"})
    <3>1. queue \in Seq({"setup", "stop"})
      BY <1>0 DEF TypeOK
    <3>2. queue' \in {queue, Append(queue, "setup"), Append(queue, "stop")}
      BY <1>1 DEF SettingsApplied, SettingsFail, stopTunnelWithReason
    <3> QED
      BY <3>1, <3>2, AppendProperties
  <2> QED
    BY <1>0, <1>1, <2>1 DEF TypeOK, SettingsApplied, SettingsFail, stopTunnelWithReason, history
<1>2. CASE SetupBlock \/ StopBlock
  <2>1. queue' \in Seq({"setup", "stop"})
    <3>1. queue \in Seq({"setup", "stop"}) /\ queue # <<>> /\ queue' = Tail(queue)
      BY <1>0, <1>2 DEF TypeOK, SetupBlock, StopBlock
    <3> QED
      BY <3>1, HeadTailProperties
  <2> QED
    BY <1>0, <1>2, <2>1 DEF TypeOK, SetupBlock, StopBlock, setupUDPSession, history
<1>3. CASE SessionChanges
  BY <1>0, <1>3 DEF TypeOK, SessionChanges
<1>4. ASSUME NEW n \in Sizes, tunToUDP(n) PROVE TypeOK'
  <2>1. oneshot' \in BOOLEAN
    BY <1>4 DEF tunToUDP
  <2>2. next' \in 0..MaxPackets /\ singles' \subseteq Packets
    <3>1. n \in Nat /\ next \in Nat /\ next + n <= MaxPackets
      BY <1>0, <1>4 DEF TypeOK, tunToUDP, Sizes
    <3>2. next + n \in 0..MaxPackets /\ Batch(n) \subseteq Packets
      BY <1>0, <3>1 DEF Batch, Packets
    <3> QED
      BY <1>4, <3>2 DEF tunToUDP
  <2> QED
    BY <1>0, <1>4, <2>1, <2>2, Zenon DEF TypeOK, tunToUDP
<1>5. ASSUME NEW p \in singles, SingleDone(p) PROVE TypeOK'
  BY <1>0, <1>5 DEF TypeOK, SingleDone, setupUDPSession, history
<1>6. ASSUME NEW n \in Sizes, readTun(n) PROVE TypeOK'
  <2>1. /\ n \in Nat /\ next \in Nat /\ next' \in 0..MaxPackets
        /\ next + 1 .. next + n \subseteq Packets
    BY <1>0, <1>6 DEF TypeOK, readTun, Sizes, Packets
  <2>2. PICK datas \in Ipv4(n) : buffer' = buffer \o datas /\ kept' = kept \cup Range(datas)
    BY <1>6 DEF readTun
  <2>3. datas \in Seq(Packets) /\ Range(datas) \subseteq Packets
    BY <2>1, Ipv4Means, SeqMonotonic
  <2>4. buffer' \in Seq(Packets) /\ kept' \subseteq Packets
    BY <1>0, <2>2, <2>3, ConcatProperties DEF TypeOK
  <2> QED
    BY <1>0, <1>6, <2>1, <2>4 DEF TypeOK, readTun
<1>7. CASE TakeBuffer \/ KeepBuffer
  <2>1. <<>> \in Seq(Packets)
    OBVIOUS
  <2> QED
    BY <1>0, <1>7, <2>1 DEF TypeOK, TakeBuffer, KeepBuffer, history
<1>8. CASE WriteBatch
  <2>1. <<>> \in Seq(Packets) /\ hand \in Seq(Packets) \ {<<>>} /\ Range(hand) \subseteq Packets
    BY <1>0, <1>8, RangeOfSeq DEF TypeOK, InHand, WriteBatch
  <2> QED
    BY <1>0, <1>8, <2>1 DEF TypeOK, WriteBatch
<1>9. ASSUME NEW b \in flights, BatchSent(b) \/ BatchFails(b) PROVE TypeOK'
  <2>1. b \in Seq(Packets) /\ Range(b) \subseteq Packets /\ buffer \o b \in Seq(Packets)
    BY <1>0, RangeOfSeq, ConcatProperties DEF TypeOK
  <2> QED
    BY <1>0, <1>9, <2>1 DEF TypeOK, BatchSent, BatchFails, history
<1>10. CASE UNCHANGED vars
  BY <1>0, <1>10 DEF TypeOK, vars, history
<1> QED
  BY <1>1, <1>2, <1>3, <1>4, <1>5, <1>6, <1>7, <1>8, <1>9, <1>10 DEF Next, Blocks, Handler

\* startTunnelWithOptions leaves everything empty.
LEMMA ReaderInit == Init => ReaderInv
<1> SUFFICES ASSUME Init PROVE ReaderInv
  OBVIOUS
<1>1. TypeOK
  BY ProviderAssumption DEF Init, TypeOK
<1>2. StartedOnce
  BY DEF Init, StartedOnce
<1>3. InHand
  BY DEF Init, InHand
<1> QED
  BY <1>1, <1>2, <1>3 DEF ReaderInv

\* All of it together is inductive.
LEMMA ReaderStep == ReaderInv /\ [Next]_vars => ReaderInv'
  BY StartStep, HandStep, TypeStep DEF ReaderInv

\* The provider (PacketTunnelProvider.m) is type correct; in particular no empty batch
\* is ever written (line 184), whichever handlers empty and fill the buffer meanwhile.
THEOREM TypeCorrect == Spec => []TypeOK
<1>1. ReaderInv => TypeOK
  BY DEF ReaderInv
<1> QED
  BY <1>1, ReaderInit, ReaderStep, PTL DEF Spec

-----------------------------------------------------------------------------
\* Conservation is not inductive: that a read brings packets nobody has seen needs the
\* count of packets read, and that a batch is not in flight already needs it not to be empty.
CustodyInv == ReaderInv /\ Conservation /\ kept \subseteq 1..next

\* The packets of the batches in flight, when one is added.
LEMMA FlightAdded ==
    ASSUME NEW F, NEW b
    PROVE  UNION {Range(c) : c \in F \cup {b}} = (UNION {Range(c) : c \in F}) \cup Range(b)
<1> DEFINE Before == UNION {Range(c) : c \in F}
           After == UNION {Range(c) : c \in F \cup {b}}
<1>1. \A x : x \in After <=> \E c \in F \cup {b} : x \in Range(c)
  BY Zenon
<1>2. \A x : x \in Before <=> \E c \in F : x \in Range(c)
  BY Zenon
<1>3. \A x : x \in After <=> x \in Before \cup Range(b)
  BY <1>1, <1>2, Zenon
<1> HIDE DEF Before, After
<1>4. After = Before \cup Range(b)
  BY <1>3
<1> QED
  BY <1>4, Zenon DEF Before, After

\* Batches in flight share no packet, so one that is taken out takes its packets along.
LEMMA FlightRemoved ==
    ASSUME NEW F, NEW b \in F, \A c \in F : c # b => Range(c) \cap Range(b) = {}
    PROVE  /\ UNION {Range(c) : c \in F} = (UNION {Range(c) : c \in F \ {b}}) \cup Range(b)
           /\ (UNION {Range(c) : c \in F \ {b}}) \cap Range(b) = {}
<1> DEFINE Rest == UNION {Range(c) : c \in F \ {b}}
<1>1. UNION {Range(c) : c \in F} = Rest \cup Range(b)
  <2>1. F = (F \ {b}) \cup {b}
    OBVIOUS
  <2> QED
    BY <2>1, FlightAdded
<1>2. ASSUME NEW x \in Rest PROVE x \notin Range(b)
  <2>1. PICK c \in F \ {b} : x \in Range(c)
    BY <1>2, Zenon
  <2> QED
    BY <2>1
<1> HIDE DEF Rest
<1>3. Rest \cap Range(b) = {}
  BY <1>2
<1> QED
  BY <1>1, <1>3, Zenon DEF Rest

\* Every step keeps each packet in one place.
LEMMA CustodyStep == CustodyInv /\ [Next]_vars => CustodyInv'
<1> SUFFICES ASSUME CustodyInv, [Next]_vars PROVE Conservation' /\ kept' \subseteq 1..next'
  BY ReaderStep DEF CustodyInv
<1>0. /\ TypeOK /\ InHand /\ Places = kept /\ Once /\ kept \subseteq 1..next
      /\ buffer \in Seq(Packets) /\ hand \in Seq(Packets) /\ next \in Nat
      /\ \A b \in flights : b \in Seq(Packets) \ {<<>>}
  BY DEF CustodyInv, ReaderInv, Conservation, TypeOK
<1>1. CASE \/ Blocks \/ KeepBuffer \/ SettingsApplied \/ SettingsFail \/ stopTunnelWithReason
           \/ SessionChanges \/ \E p \in singles : SingleDone(p)
           \/ UNCHANGED vars
  <2>1. UNCHANGED <<buffer, hand, flights, next, kept, delivered, dropped>>
    BY <1>1 DEF Blocks, SetupBlock, StopBlock, KeepBuffer, SettingsApplied, SettingsFail,
       stopTunnelWithReason, SessionChanges, SingleDone, vars, history
  <2> QED
    BY <1>0, <2>1 DEF Conservation, Places, InFlight, Once
<1>2. ASSUME NEW n \in Sizes, tunToUDP(n) PROVE Conservation' /\ kept' \subseteq 1..next'
  <2>1. UNCHANGED <<buffer, hand, flights, kept, delivered, dropped>> /\ next' = next + n
    BY <1>2 DEF tunToUDP
  <2>2. kept' \subseteq 1..next'
    BY <1>0, <2>1 DEF Sizes
  <2> QED
    BY <1>0, <2>1, <2>2 DEF Conservation, Places, InFlight, Once
<1>3. ASSUME NEW n \in Sizes, readTun(n) PROVE Conservation' /\ kept' \subseteq 1..next'
  <2>1. n \in Nat /\ next' = next + n /\ UNCHANGED <<hand, flights, delivered, dropped>>
    BY <1>3 DEF readTun, Sizes
  <2>2. next + 1 .. next + n \subseteq Packets
    BY <1>0, <1>3, <2>1, ProviderAssumption DEF readTun, Packets
  <2>3. PICK datas \in Ipv4(n) : buffer' = buffer \o datas /\ kept' = kept \cup Range(datas)
    BY <1>3 DEF readTun
  <2>4. /\ datas \in Seq(Packets) /\ IsInjective(datas)
        /\ Range(datas) \subseteq next + 1 .. next + n
    BY <1>0, <2>1, <2>2, Ipv4Means, SeqMonotonic
  <2>5. Range(datas) \cap Places = {}
    BY <1>0, <2>1, <2>4
  <2>6. Range(buffer') = Range(buffer) \cup Range(datas)
    BY <1>0, <2>3, <2>4, RangeConcatenation
  <2>7. IsInjective(buffer')
    BY <1>0, <2>3, <2>4, <2>5, InjectiveConcat DEF Once, Places
  <2>8. InFlight' = InFlight
    BY <2>1 DEF InFlight
  <2>9. Places' = kept'
    BY <1>0, <2>1, <2>3, <2>6, <2>8 DEF Places
  <2>10. Once'
    BY <1>0, <2>1, <2>5, <2>6, <2>7, <2>8 DEF Once, Places
  <2>11. kept' \subseteq 1..next'
    <3>1. 1..next \subseteq 1..next + n /\ next + 1 .. next + n \subseteq 1..next + n
      BY <1>0, <2>1
    <3> QED
      BY <1>0, <2>1, <2>3, <2>4, <3>1, Zenon
  <2> QED
    BY <2>9, <2>10, <2>11 DEF Conservation
<1>4. CASE TakeBuffer
  <2>1. /\ hand' = buffer /\ buffer' = <<>> /\ hand = <<>>
        /\ UNCHANGED <<flights, next, kept, delivered, dropped>>
    BY <1>0, <1>4 DEF TakeBuffer, InHand, history
  <2>2. InFlight' = InFlight
    BY <2>1 DEF InFlight
  <2>3. /\ Range(hand) = {} /\ Range(buffer') = {} /\ IsInjective(buffer')
        /\ Range(hand') = Range(buffer)
    BY <2>1, EmptyRange
  <2>4. Places' = kept'
    BY <1>0, <2>1, <2>2, <2>3 DEF Places
  <2>5. Once'
    BY <1>0, <2>1, <2>2, <2>3 DEF Once
  <2> QED
    BY <1>0, <2>1, <2>4, <2>5 DEF Conservation
<1>5. CASE WriteBatch
  <2>1. hand' = <<>> /\ UNCHANGED <<buffer, next, kept, delivered>> /\ hand # <<>>
    BY <1>0, <1>5 DEF WriteBatch, InHand
  <2>2. Range(hand') = {} /\ IsInjective(hand')
    BY <2>1, EmptyRange
  <2>3. CASE session = "none"
    <3>1. dropped' = dropped \cup Range(hand) /\ flights' = flights
      BY <1>5, <2>3 DEF WriteBatch
    <3>2. InFlight' = InFlight
      BY <3>1 DEF InFlight
    <3>3. Places' = kept'
      BY <1>0, <2>1, <2>2, <3>1, <3>2 DEF Places
    <3>4. Once'
      BY <1>0, <2>1, <2>2, <3>1, <3>2 DEF Once
    <3> QED
      BY <1>0, <2>1, <3>3, <3>4 DEF Conservation
  <2>4. CASE session # "none"
    <3>1. dropped' = dropped /\ flights' = flights \cup {hand}
      BY <1>5, <2>4 DEF WriteBatch
    <3>2. InFlight' = InFlight \cup Range(hand)
      BY <3>1, FlightAdded DEF InFlight
    <3>3. Places' = kept'
      BY <1>0, <2>1, <2>2, <3>1, <3>2 DEF Places
    <3>4. \A b \in flights : Range(b) \cap Range(hand) = {}
      BY <1>0 DEF Once, InFlight
    <3>5. Once'
      BY <1>0, <2>1, <2>2, <3>1, <3>2, <3>4 DEF Once
    <3> QED
      BY <1>0, <2>1, <3>3, <3>5 DEF Conservation
  <2> QED
    BY <2>3, <2>4
<1>6. ASSUME NEW b \in flights, BatchSent(b) PROVE Conservation' /\ kept' \subseteq 1..next'
  <2>1. /\ flights' = flights \ {b} /\ delivered' = delivered \cup Range(b)
        /\ UNCHANGED <<buffer, hand, next, kept, dropped>>
    BY <1>6 DEF BatchSent
  <2>2. InFlight = InFlight' \cup Range(b) /\ InFlight' \cap Range(b) = {}
    BY <1>0, <2>1, FlightRemoved DEF InFlight, Once
  <2>3. Places' = kept'
    BY <1>0, <2>1, <2>2 DEF Places
  <2>4. Once'
    BY <1>0, <2>1, <2>2 DEF Once
  <2> QED
    BY <1>0, <2>1, <2>3, <2>4 DEF Conservation
<1>7. ASSUME NEW b \in flights, BatchFails(b) PROVE Conservation' /\ kept' \subseteq 1..next'
  <2>1. /\ flights' = flights \ {b} /\ buffer' = buffer \o b
        /\ UNCHANGED <<hand, next, kept, delivered, dropped>>
    BY <1>7 DEF BatchFails, history
  <2>2. InFlight = InFlight' \cup Range(b) /\ InFlight' \cap Range(b) = {}
    BY <1>0, <2>1, FlightRemoved DEF InFlight, Once
  <2>3. Range(buffer') = Range(buffer) \cup Range(b)
    BY <1>0, <2>1, RangeConcatenation
  <2>4. Range(buffer) \cap Range(b) = {}
    BY <1>0, <2>2 DEF Once
  <2>5. IsInjective(buffer')
    BY <1>0, <2>1, <2>4, InjectiveConcat DEF Once
  <2>6. Places' = kept'
    BY <1>0, <2>1, <2>2, <2>3 DEF Places
  <2>7. Once'
    BY <1>0, <2>1, <2>2, <2>3, <2>5 DEF Once
  <2> QED
    BY <1>0, <2>1, <2>6, <2>7 DEF Conservation
<1> QED
  BY <1>1, <1>2, <1>3, <1>4, <1>5, <1>6, <1>7 DEF Next, Handler

\* Every packet readTun keeps is in one place and once (PacketTunnelProvider.m 182-195
\* and 214-216), for every number of packets and every order of the handlers.
THEOREM ConservationAlways == Spec => []Conservation
<1>1. Init => CustodyInv
  <2> SUFFICES ASSUME Init PROVE Conservation /\ kept \subseteq 1..next
    BY ReaderInit DEF CustodyInv
  <2>1. /\ buffer = <<>> /\ hand = <<>> /\ flights = {} /\ kept = {} /\ delivered = {}
        /\ dropped = {}
    BY DEF Init
  <2>2. InFlight = {}
    BY <2>1 DEF InFlight
  <2> QED
    BY <2>1, <2>2, EmptyRange DEF Conservation, Places, Once
<1>2. CustodyInv => Conservation
  BY DEF CustodyInv
<1> QED
  BY <1>1, <1>2, CustodyStep, PTL DEF Spec

-----------------------------------------------------------------------------
\* A batch is taken while there is a session, which only a stop takes away.
StopInv ==
    /\ reader = "write" => session # "none" \/ stop = "complete"
    /\ DroppedOnlyByStop

\* Every step keeps it.
LEMMA StopStep == StopInv /\ [Next]_vars => StopInv'
<1> SUFFICES ASSUME StopInv, [Next]_vars PROVE StopInv'
  OBVIOUS
<1> USE DEF StopInv, DroppedOnlyByStop
<1>1. CASE SettingsApplied \/ SettingsFail \/ stopTunnelWithReason \/ SetupBlock \/ StopBlock
  BY <1>1 DEF SettingsApplied, SettingsFail, stopTunnelWithReason, SetupBlock, StopBlock, history
<1>2. CASE SessionChanges
  BY <1>2 DEF SessionChanges
<1>3. ASSUME NEW n \in Sizes, tunToUDP(n) \/ readTun(n) PROVE StopInv'
  BY <1>3 DEF tunToUDP, readTun
<1>4. ASSUME NEW p \in singles, SingleDone(p) PROVE StopInv'
  BY <1>4 DEF SingleDone, setupUDPSession, history
<1>5. CASE TakeBuffer \/ KeepBuffer
  BY <1>5 DEF TakeBuffer, KeepBuffer, history
<1>6. CASE WriteBatch
  BY <1>6 DEF WriteBatch
<1>7. ASSUME NEW b \in flights, BatchSent(b) \/ BatchFails(b) PROVE StopInv'
  BY <1>7 DEF BatchSent, BatchFails, history
<1>8. CASE UNCHANGED vars
  BY <1>8 DEF vars, history
<1> QED
  BY <1>1, <1>2, <1>3, <1>4, <1>5, <1>6, <1>7, <1>8 DEF Next, Blocks, Handler

\* A batch of processOutgoingBuffer is written to nil only if the tunnel was told to stop
\* between its check (PacketTunnelProvider.m 178) and its write (189).  It says nothing of
\* the packets of tunToUDP, which go round the buffer.
THEOREM DroppedOnlyByStopAlways == Spec => []DroppedOnlyByStop
<1>1. Init => StopInv
  BY DEF Init, StopInv, DroppedOnlyByStop
<1>2. StopInv => DroppedOnlyByStop
  BY DEF StopInv
<1> QED
  BY <1>1, <1>2, StopStep, PTL DEF Spec
=============================================================================
