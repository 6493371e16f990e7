-------------------------- MODULE TunnelCustodyProofs --------------------------
(***************************************************************************)
(* Where the packets are, for every queue limit, every number of packets,  *)
(* with and without compression: every packet read from the tun device is  *)
(* in exactly one place; the data path implements the relay; each channel  *)
(* carries its packets in order until one is requeued; the loop does not   *)
(* sleep on packets it could send.                                         *)
(***************************************************************************)
EXTENDS TunnelProofs, FiniteSetTheorems

\* Counting the copies of a packet in a sequence: what Append, Tail and the packets
\* tun_mainloop adds do to the count.

\* Where a packet is in a sequence.
At(s, p) == {i \in DOMAIN s : s[i] = p}

\* The count is the size of a finite set.
LEMMA AtFinite ==
    ASSUME NEW s \in Seq(Packet), NEW p
    PROVE  /\ IsFiniteSet(At(s, p)) /\ At(s, p) \subseteq 1..Len(s)
           /\ Times(s, p) = Cardinality(At(s, p)) /\ Times(s, p) \in Nat
<1>1. Len(s) \in Nat /\ At(s, p) \subseteq 1..Len(s)
  BY LenProperties DEF At
<1>2. IsFiniteSet(1..Len(s))
  BY <1>1, FS_Interval
<1>3. IsFiniteSet(At(s, p))
  BY <1>1, <1>2, FS_Subset
<1> QED
  BY <1>1, <1>3, FS_CardinalityType DEF Times, At

\* A packet counted at least once is an element.
LEMMA TimesElement ==
    ASSUME NEW s \in Seq(Packet), NEW p
    PROVE  p \in Elements(s) <=> Times(s, p) # 0
<1>1. p \in Elements(s) <=> At(s, p) # {}
  BY DEF Elements, At
<1> QED
  BY <1>1, AtFinite, FS_EmptySet

LEMMA TimesEmpty == \A p : Times(<<>>, p) = 0
<1>1. \A p : {i \in DOMAIN <<>> : <<>>[i] = p} = {}
  OBVIOUS
<1> QED
  BY <1>1, FS_EmptySet DEF Times

\* Two sequences with a packet at the same places, or at one place more.
LEMMA AtSame ==
    ASSUME NEW s \in Seq(Packet), NEW t \in Seq(Packet), NEW p, NEW b \in BOOLEAN, ~b,
           At(t, p) = At(s, p)
    PROVE  Times(t, p) = Times(s, p) + Holds(b)
<1>1. Times(t, p) = Times(s, p) /\ Times(s, p) \in Nat
  BY AtFinite
<1>2. Holds(b) = 0
  BY Zenon DEF Holds
<1> QED
  BY <1>1, <1>2

LEMMA AtMore ==
    ASSUME NEW s \in Seq(Packet), NEW t \in Seq(Packet), NEW p, NEW b \in BOOLEAN, b,
           NEW j, At(t, p) = At(s, p) \cup {j}, j \notin At(s, p)
    PROVE  Times(t, p) = Times(s, p) + Holds(b)
<1>1. IsFiniteSet(At(s, p)) /\ Times(s, p) \in Nat
  BY AtFinite
<1>2. Cardinality(At(s, p) \cup {j}) = Cardinality(At(s, p)) + 1
  BY <1>1, FS_AddElement
<1>3. Times(t, p) = Times(s, p) + 1
  BY <1>2, AtFinite
<1>4. Holds(b) = 1
  BY Zenon DEF Holds
<1> QED
  BY <1>1, <1>3, <1>4

\* A packet put at the end (cstp.c 570-576, and what a channel takes).
LEMMA TimesAppend ==
    ASSUME NEW s \in Seq(Packet), NEW e \in Packet, NEW p
    PROVE  Times(Append(s, e), p) = Times(s, p) + Holds(e = p)
<1> DEFINE t == Append(s, e)
<1>0. Len(s) \in Nat /\ DOMAIN s = 1..Len(s)
  BY LenProperties
<1>1. /\ t \in Seq(Packet) /\ Len(t) = Len(s) + 1 /\ DOMAIN t = 1..(Len(s) + 1)
      /\ \A i \in 1..Len(s) : t[i] = s[i]
      /\ t[Len(s) + 1] = e
  BY AppendProperties, LenProperties
<1> HIDE DEF t
<1>2. CASE e = p
  <2>1. At(t, p) = At(s, p) \cup {Len(s) + 1}
    BY <1>0, <1>1, <1>2 DEF At
  <2>2. Len(s) + 1 \notin At(s, p)
    BY <1>0 DEF At
  <2> QED
    BY <1>1, <1>2, <2>1, <2>2, AtMore DEF t
<1>3. CASE e # p
  <2>1. At(t, p) = At(s, p)
    BY <1>0, <1>1, <1>3 DEF At
  <2> QED
    BY <1>1, <1>3, <2>1, AtSame DEF t
<1> QED
  BY <1>2, <1>3

\* A packet taken off the head (dtls.c 826-831, cstp.c 954-956).
LEMMA TimesTail ==
    ASSUME NEW s \in Seq(Packet), s # <<>>, NEW p
    PROVE  Times(s, p) = Times(Tail(s), p) + Holds(Head(s) = p)
<1> DEFINE t == Tail(s)
           f == [i \in At(t, p) |-> i + 1]
<1>0. Len(s) \in Nat \ {0} /\ DOMAIN s = 1..Len(s)
  BY LenProperties, EmptySeq
<1>1. /\ t \in Seq(Packet) /\ Len(t) = Len(s) - 1 /\ DOMAIN t = 1..(Len(s) - 1)
      /\ \A i \in 1..(Len(s) - 1) : t[i] = s[i + 1]
      /\ Head(s) = s[1]
  BY HeadTailProperties, LenProperties
<1> HIDE DEF t
<1>2. f \in Bijection(At(t, p), At(s, p) \ {1})
  <2>1. \A i \in At(t, p) : i \in Nat /\ i + 1 \in At(s, p) \ {1}
    BY <1>0, <1>1 DEF At
  <2>2. f \in [At(t, p) -> At(s, p) \ {1}]
    BY <2>1
  <2>3. \A i, j \in At(t, p) : f[i] = f[j] => i = j
    BY <2>1
  <2>4. \A j \in At(s, p) \ {1} : j - 1 \in At(t, p) /\ f[j - 1] = j
    BY <1>0, <1>1 DEF At
  <2> HIDE DEF f
  <2> QED
    BY <2>2, <2>3, <2>4 DEF Bijection, Injection, Surjection, IsInjective
<1>3. Cardinality(At(s, p) \ {1}) = Cardinality(At(t, p))
  BY <1>1, <1>2, AtFinite, FS_Bijection DEF ExistsBijection
<1>4. CASE s[1] = p
  <2>1. 1 \in At(s, p)
    BY <1>0, <1>4 DEF At
  <2>2. IsFiniteSet(At(s, p))
    BY AtFinite
  <2>3. Cardinality(At(s, p) \ {1}) = Cardinality(At(s, p)) - 1
    BY <2>1, <2>2, FS_RemoveElement
  <2>4. Times(s, p) = Cardinality(At(s, p)) /\ Times(s, p) \in Nat
    BY AtFinite
  <2>5. Times(t, p) = Cardinality(At(t, p)) /\ Times(t, p) \in Nat
    BY <1>1, AtFinite
  <2>6. Times(s, p) = Times(t, p) + 1
    BY <1>3, <2>3, <2>4, <2>5
  <2> QED
    BY <1>1, <1>4, <2>6 DEF Holds, t
<1>5. CASE s[1] # p
  <2>1. 1 \notin At(s, p)
    BY <1>5 DEF At
  <2>2. At(s, p) \ {1} = At(s, p)
    BY <2>1
  <2>3. Times(s, p) = Times(t, p) /\ Times(t, p) \in Nat
    BY <1>1, <1>3, <2>2, AtFinite
  <2> QED
    BY <1>1, <1>5, <2>3 DEF Holds, t
<1> QED
  BY <1>4, <1>5

\* The packets tun_mainloop adds (mainloop.c 61-86).
LEMMA TimesTaken ==
    ASSUME NEW s \in Seq(Packet), NEW k \in 1..(MaxPkt + 1), NEW n \in 0..(MaxPkt + 1 - k),
           NEW p \in Packet
    PROVE  Times(s \o [i \in 1..n |-> k + i - 1], p) = Times(s, p) + Holds(p \in k..(k + n - 1))
<1> DEFINE u == [i \in 1..n |-> k + i - 1]
           t == s \o u
<1>0. /\ Len(s) \in Nat /\ DOMAIN s = 1..Len(s) /\ n \in Nat
      /\ p \in Int /\ k \in Int
  BY LenProperties, TunnelAssumption DEF Packet
<1>1. u \in Seq(Packet) /\ Len(u) = n
  BY TakenIsSeq
<1>2. /\ t \in Seq(Packet) /\ Len(t) = Len(s) + n
      /\ \A i \in 1..(Len(s) + n) : t[i] = IF i <= Len(s) THEN s[i] ELSE u[i - Len(s)]
  <2> HIDE DEF u
  <2> QED
    BY <1>1, ConcatProperties
<1>3. DOMAIN t = 1..(Len(s) + n)
  <2> HIDE DEF t
  <2> QED
    BY <1>2, LenProperties
<1>4. /\ \A i \in 1..Len(s) : t[i] = s[i]
      /\ \A i \in (Len(s) + 1)..(Len(s) + n) : t[i] = k + i - Len(s) - 1
  BY <1>0, <1>2
<1> HIDE DEF t
<1>5. CASE p \in k..(k + n - 1)
  <2> DEFINE j == Len(s) + 1 + p - k
  <2>0. j \in (Len(s) + 1)..(Len(s) + n) /\ k + j - Len(s) - 1 = p
    BY <1>0, <1>5
  <2>1. At(t, p) = At(s, p) \cup {j}
    <3>1. ASSUME NEW i \in At(t, p), i \notin At(s, p) PROVE i = j
      <4>1. i \in 1..(Len(s) + n) /\ t[i] = p
        BY <1>3 DEF At
      <4>2. i \in (Len(s) + 1)..(Len(s) + n)
        BY <1>0, <1>4, <3>1, <4>1 DEF At
      <4>3. t[i] = k + i - Len(s) - 1
        BY <1>4, <4>2
      <4> QED
        BY <1>0, <4>1, <4>2, <4>3
    <3>2. j \in At(t, p)
      <4>1. t[j] = k + j - Len(s) - 1
        BY <1>4, <2>0
      <4>2. j \in 1..(Len(s) + n)
        BY <1>0, <2>0
      <4> QED
        BY <1>3, <2>0, <4>1, <4>2 DEF At
    <3>3. At(s, p) \subseteq At(t, p)
      BY <1>0, <1>3, <1>4 DEF At
    <3> QED
      BY <3>1, <3>2, <3>3
  <2>2. j \notin At(s, p)
    BY <1>0, <1>5 DEF At
  <2> HIDE DEF j
  <2> QED
    BY <1>2, <1>5, <2>1, <2>2, AtMore DEF t
<1>6. CASE p \notin k..(k + n - 1)
  <2>1. At(t, p) = At(s, p)
    BY <1>0, <1>3, <1>4, <1>6 DEF At
  <2>2. (p \in k..(k + n - 1)) \in BOOLEAN
    OBVIOUS
  <2>3. Times(t, p) = Times(s, p) + Holds(p \in k..(k + n - 1))
    BY <1>2, <1>6, <2>1, <2>2, AtSame
  <2> QED
    BY <2>3 DEF t
<1> QED
  BY <1>5, <1>6
-----------------------------------------------------------------------------
\* In how many places a packet is.
Places(p) ==
    Times(outgoing_queue, p) + Holds(current = "data" /\ held = p)
      + Holds(current = "deflate_pkt" /\ pending = p)
      + Times(sent["cstp"], p) + Times(sent["dtls"], p)
      + Holds(p \in dropped)

\* Every packet the tun device delivered is in one place and every other in none;
\* CSTP picks a packet only with an empty hand, and writes only with a full one.
CustodyInv ==
    /\ TypeInv
    /\ GateInv
    /\ pc = "decide" => current = "none"
    /\ pc = "write" => current # "none"
    /\ \A p \in Packet : Places(p) = Holds(p < next)

\* cstp_mainloop chooses a packet with an empty hand, and handle_outgoing writes
\* with a full one.
LEMMA HandFlow ==
    ASSUME CustodyInv, [Next]_vars
    PROVE  /\ pc' = "decide" => current' = "none"
           /\ pc' = "write" => current' # "none"
<1>1. CASE \/ DtlsDisabled \/ DtlsNotConnected \/ DtlsRead \/ DtlsDead \/ DtlsRekeyFails \/ DtlsSend
           \/ DtlsSendDone \/ DtlsSendBlocks \/ DtlsSendDrops \/ DtlsSendFails
  BY <1>1 DEF DtlsDisabled, DtlsNotConnected, DtlsRead, DtlsDead, DtlsRekeyFails, DtlsSend,
     DtlsSendDone, DtlsSendBlocks, DtlsSendDrops, DtlsSendFails
<1>2. CASE \/ CstpLost \/ CstpRead \/ CstpEnds \/ CstpWrite \/ CstpWriteStalls
           \/ CstpWriteShort \/ CstpControl \/ CstpGivesUp \/ CstpSend \/ CstpIdle
  BY <1>2 DEF CstpLost, CstpRead, CstpEnds, CstpWrite, CstpWriteStalls,
     CstpWriteShort, CstpControl, CstpGivesUp, CstpSend, CstpIdle
<1>3. CASE \/ CstpReconnects \/ CstpReconnectFails \/ TunPass \/ TunGone \/ EndPass
           \/ PauseAndResume \/ Wake
  BY <1>3 DEF CstpReconnects, CstpReconnectFails, TunPass, TunGone, EndPass, PauseAndResume, Wake
<1>4. CASE Quit \/ UNCHANGED vars
  BY <1>4 DEF CustodyInv, Quit, vars, cstp
<1> QED
  BY <1>1, <1>2, <1>3, <1>4 DEF Next

\* A step that moves packets from one place to another.
LEMMA PlacesKept ==
    ASSUME CustodyInv, TypeInv', GateInv', 
           pc' = "decide" => current' = "none",
           pc' = "write" => current' # "none",
           next' = next,
           \A p \in Packet : Places(p)' = Places(p)
    PROVE  CustodyInv'
  BY DEF CustodyInv

\* One step per action that moves a packet; the others leave every place alone.
LEMMA CustodyStep == CustodyInv /\ [Next]_vars => CustodyInv'
<1> SUFFICES ASSUME CustodyInv, [Next]_vars PROVE CustodyInv'
  OBVIOUS
<1>0. /\ TypeInv /\ TypeOK /\ TypeInv' /\ GateInv'
      /\ pc' = "decide" => current' = "none"
      /\ pc' = "write" => current' # "none"
  BY TypeStep, GateStep, HandFlow DEF CustodyInv, TypeInv
<1>t. /\ outgoing_queue \in Seq(Packet)
      /\ sent \in [{"cstp", "dtls"} -> Seq(Packet)]
      /\ sent["cstp"] \in Seq(Packet) /\ sent["dtls"] \in Seq(Packet)
      /\ next \in 1..(MaxPkt + 1)
  BY <1>0 DEF TypeOK
<1>n. \A p : /\ Times(outgoing_queue, p) \in Nat /\ Times(outgoing_queue', p) \in Nat
              /\ Times(sent["cstp"], p) \in Nat /\ Times(sent["dtls"], p) \in Nat
  <2>1. outgoing_queue' \in Seq(Packet)
    BY <1>0 DEF TypeInv, TypeOK
  <2> QED
    BY <1>t, <2>1, AtFinite
<1>1. CASE DtlsSend
  <2>1. ASSUME NEW p \in Packet PROVE Places(p)' = Places(p)
    <3>1. Times(outgoing_queue, p) = Times(outgoing_queue', p) + Holds(Head(outgoing_queue) = p)
      BY <1>1, <1>t, TimesTail DEF DtlsSend
    <3>2. sent'["dtls"] = Append(sent["dtls"], Head(outgoing_queue)) /\ sent'["cstp"] = sent["cstp"]
      BY <1>1, <1>t DEF DtlsSend
    <3>3. Times(sent'["dtls"], p) = Times(sent["dtls"], p) + Holds(Head(outgoing_queue) = p)
      BY <1>1, <1>t, <3>2, TimesAppend, HeadTailProperties DEF DtlsSend
    <3>4. UNCHANGED <<current, held, pending, dropped>>
      BY <1>1 DEF DtlsSend, cstp
    <3>5. PICK h \in 0..1 : /\ Times(outgoing_queue, p) = Times(outgoing_queue', p) + h
                            /\ Times(sent'["dtls"], p) = Times(sent["dtls"], p) + h
      BY <3>1, <3>3 DEF Holds
    <3> QED
      BY <1>n, <3>2, <3>4, <3>5 DEF Places, Holds
  <2> QED
    BY <1>0, <1>1, <2>1, PlacesKept DEF DtlsSend
<1>2. CASE DtlsSendDrops
  <2>1. ASSUME NEW p \in Packet PROVE Places(p)' = Places(p)
    <3>1. Times(outgoing_queue, p) = Times(outgoing_queue', p) + Holds(Head(outgoing_queue) = p)
      BY <1>2, <1>t, TimesTail DEF DtlsSendDrops
    <3>2. /\ UNCHANGED <<current, held, pending, sent>>
          /\ dropped' = dropped \cup {Head(outgoing_queue)}
      BY <1>2 DEF DtlsSendDrops, cstp
    <3>3. Places(p) <= 1
      BY DEF CustodyInv, Holds
    <3>4. Head(outgoing_queue) = p => p \notin dropped
      BY <1>n, <3>1, <3>3 DEF Places, Holds
    <3> QED
      BY <1>n, <3>1, <3>2, <3>4 DEF Places, Holds
  <2> QED
    BY <1>0, <1>2, <2>1, PlacesKept DEF DtlsSendDrops
<1>3. CASE CstpSend
  <2>1. ASSUME NEW p \in Packet PROVE Places(p)' = Places(p)
    <3>1. Times(outgoing_queue, p) = Times(outgoing_queue', p) + Holds(Head(outgoing_queue) = p)
      BY <1>3, <1>t, TimesTail DEF CstpSend
    <3>2. current = "none"
      BY <1>3 DEF CstpSend, CustodyInv
    <3>3. \/ current' = "data" /\ held' = Head(outgoing_queue)
          \/ current' = "deflate_pkt" /\ pending' = Head(outgoing_queue)
      BY <1>3 DEF CstpSend
    <3>4. UNCHANGED <<sent, dropped>>
      BY <1>3 DEF CstpSend
    <3> QED
      BY <1>n, <3>1, <3>2, <3>3, <3>4 DEF Places, Holds
  <2> QED
    BY <1>0, <1>3, <2>1, PlacesKept DEF CstpSend
<1>4. CASE CstpWrite
  <2>1. ASSUME NEW p \in Packet PROVE Places(p)' = Places(p)
    <3>1. UNCHANGED <<outgoing_queue, pending, dropped>> /\ current' = "none"
      BY <1>4 DEF CstpWrite
    <3>2. CASE current = "data" \/ current = "deflate_pkt"
      <4> DEFINE q == IF current = "data" THEN held ELSE pending
      <4>1. q \in Packet
        BY <1>0, <3>2 DEF TypeInv
      <4>2. sent'["cstp"] = Append(sent["cstp"], q) /\ sent'["dtls"] = sent["dtls"]
        BY <1>4, <1>t, <3>2 DEF CstpWrite
      <4>3. Times(sent'["cstp"], p) = Times(sent["cstp"], p) + Holds(q = p)
        BY <1>t, <4>1, <4>2, TimesAppend
      <4> QED
        BY <1>n, <3>1, <3>2, <4>2, <4>3 DEF Places, Holds
    <3>3. CASE ~(current = "data" \/ current = "deflate_pkt")
      <4>1. sent' = sent
        BY <1>4, <3>3 DEF CstpWrite
      <4> QED
        BY <1>0, <3>1, <3>3, <4>1 DEF Places, Holds
    <3> QED
      BY <3>2, <3>3
  <2> QED
    BY <1>0, <1>4, <2>1, PlacesKept DEF CstpWrite
<1>5. CASE CstpControl
  <2>1. /\ current = "none" /\ current' \notin {"data", "deflate_pkt"}
        /\ UNCHANGED <<outgoing_queue, sent, dropped, next>>
    BY <1>5 DEF CstpControl, CustodyInv, queue
  <2>2. \A p \in Packet : Places(p)' = Places(p)
    BY <2>1 DEF Places, Holds
  <2> QED
    BY <1>0, <2>1, <2>2, PlacesKept
<1>6. CASE CstpReconnects \/ CstpReconnectFails
  <2>1. RequeueDeflated /\ UNCHANGED <<held, sent, dropped, next>>
    BY <1>6 DEF CstpReconnects, CstpReconnectFails
  <2>2. CASE deflate /\ current = "deflate_pkt"
    <3>1. /\ outgoing_queue' = Append(outgoing_queue, pending) /\ pending \in Packet
          /\ current' = "none"
      BY <1>0, <2>1, <2>2 DEF RequeueDeflated, TypeInv
    <3>2. ASSUME NEW p \in Packet PROVE Places(p)' = Places(p)
      <4>1. Times(outgoing_queue', p) = Times(outgoing_queue, p) + Holds(pending = p)
        BY <1>t, <3>1, TimesAppend
      <4> QED
        BY <1>n, <2>1, <2>2, <3>1, <4>1 DEF Places, Holds
    <3> QED
      BY <1>0, <2>1, <3>2, PlacesKept
  <2>3. CASE ~(deflate /\ current = "deflate_pkt")
    <3>1. UNCHANGED <<outgoing_queue, current, pending>>
      BY <2>1, <2>3 DEF RequeueDeflated
    <3>2. \A p \in Packet : Places(p)' = Places(p)
      BY <2>1, <3>1 DEF Places
    <3> QED
      BY <1>0, <2>1, <3>2, PlacesKept
  <2> QED
    BY <2>2, <2>3
<1>7. CASE TunPass
  <2>1. PICK n \in 0..(MaxPkt + 1 - next) :
            /\ outgoing_queue' = outgoing_queue \o [i \in 1..n |-> next + i - 1]
            /\ next' = next + n
    BY <1>7 DEF TunPass
  <2>2. UNCHANGED <<current, held, pending, sent, dropped>>
    BY <1>7 DEF TunPass, cstp
  <2>3. ASSUME NEW p \in Packet PROVE Places(p)' = Holds(p < next')
    <3>1. Times(outgoing_queue', p) = Times(outgoing_queue, p) + Holds(p \in next..(next + n - 1))
      BY <1>t, <2>1, TimesTaken
    <3>2. Places(p)' = Places(p) + Holds(p \in next..(next + n - 1))
      BY <1>n, <2>2, <3>1 DEF Places, Holds
    <3>3. Places(p) = Holds(p < next)
      BY DEF CustodyInv
    <3>4. n \in Nat /\ p \in Int /\ next \in Int
      BY <1>t DEF Packet
    <3> QED
      BY <2>1, <3>2, <3>3, <3>4 DEF Holds
  <2> QED
    BY <1>0, <2>3 DEF CustodyInv
<1>8. CASE UNCHANGED <<queue, current, held, pending>>
  <2>1. \A p \in Packet : Places(p)' = Places(p)
    BY <1>8 DEF Places, queue
  <2> QED
    BY <1>0, <1>8, <2>1, PlacesKept DEF queue
<1>9. CASE \/ DtlsDisabled \/ DtlsNotConnected \/ DtlsRead \/ DtlsDead \/ DtlsRekeyFails
           \/ DtlsSendDone \/ DtlsSendBlocks \/ DtlsSendFails
  BY <1>8, <1>9 DEF DtlsDisabled, DtlsNotConnected, DtlsRead, DtlsDead, DtlsRekeyFails,
     DtlsSendDone, DtlsSendBlocks, DtlsSendFails, cstp
<1>10. CASE \/ CstpLost \/ CstpRead \/ CstpEnds \/ CstpWriteStalls
            \/ CstpWriteShort \/ CstpGivesUp \/ CstpIdle
  BY <1>8, <1>10 DEF CstpLost, CstpRead, CstpEnds, CstpWriteStalls,
     CstpWriteShort, CstpGivesUp, CstpIdle, cstp
<1>11. CASE TunGone \/ EndPass \/ PauseAndResume \/ Wake \/ Quit \/ UNCHANGED vars
  BY <1>8, <1>11 DEF TunGone, EndPass, PauseAndResume, Wake, Quit, vars, cstp
<1> QED
  BY <1>1, <1>2, <1>3, <1>4, <1>5, <1>6, <1>7, <1>9, <1>10, <1>11 DEF Next

LEMMA CustodyInit == Init => CustodyInv
<1> SUFFICES ASSUME Init PROVE CustodyInv
  OBVIOUS
<1>1. TypeInv /\ GateInv
  <2>1. GateInv
    BY TunnelAssumption DEF Init, GateInv, TunGate
  <2> QED
    BY <2>1, TypeInit
<1>2. /\ outgoing_queue = <<>> /\ sent["cstp"] = <<>> /\ sent["dtls"] = <<>>
      /\ current = "none" /\ dropped = {} /\ next = 1 /\ pc = "dtls"
  BY DEF Init
<1>3. \A p \in Packet : Places(p) = 0 /\ ~(p < next)
  BY <1>2, TimesEmpty DEF Places, Holds, Packet
<1> QED
  BY <1>1, <1>2, <1>3 DEF CustodyInv, Holds

\* No packet is lost and none is sent twice (Custody): every requeue of dtls.c 843-861
\* and cstp.c 570-576, every stall, reconnect, pause and change of channel leaves each
\* packet read from the tun device in exactly one place.
THEOREM CustodyAlways == Spec => []Custody
<1>1. ASSUME CustodyInv PROVE Custody
  <2>1. next \in 1..(MaxPkt + 1)
    BY <1>1 DEF CustodyInv, TypeInv, TypeOK
  <2>2. \A p \in 1..(next - 1) : p \in Packet /\ p < next
    BY <2>1, TunnelAssumption DEF Packet
  <2>3. \A p \in 1..(next - 1) : Places(p) = 1
    BY <1>1, <2>2 DEF CustodyInv, Holds
  <2> QED
    BY <2>3 DEF Custody, Places
<1> QED
  BY <1>1, CustodyInit, CustodyStep, PTL DEF Spec

-----------------------------------------------------------------------------
\* The same three facts for the sets of packets.
LEMMA ElementsAppend ==
    ASSUME NEW s \in Seq(Packet), NEW e \in Packet
    PROVE  Elements(Append(s, e)) = Elements(s) \cup {e}
<1>1. ASSUME NEW p PROVE p \in Elements(Append(s, e)) <=> p \in Elements(s) \/ p = e
  <2>1. Append(s, e) \in Seq(Packet) /\ Times(s, p) \in Nat
    BY AppendProperties, AtFinite
  <2>2. Times(Append(s, e), p) = Times(s, p) + Holds(e = p)
    BY TimesAppend
  <2>3. /\ p \in Elements(Append(s, e)) <=> Times(Append(s, e), p) # 0
        /\ p \in Elements(s) <=> Times(s, p) # 0
    BY <2>1, TimesElement
  <2> QED
    BY <2>1, <2>2, <2>3 DEF Holds
<1> QED
  BY <1>1

LEMMA ElementsTail ==
    ASSUME NEW s \in Seq(Packet), s # <<>>
    PROVE  Elements(s) = Elements(Tail(s)) \cup {Head(s)}
<1>1. ASSUME NEW p PROVE p \in Elements(s) <=> p \in Elements(Tail(s)) \/ p = Head(s)
  <2>1. Tail(s) \in Seq(Packet)
    BY HeadTailProperties
  <2>2. Times(s, p) = Times(Tail(s), p) + Holds(Head(s) = p) /\ Times(Tail(s), p) \in Nat
    BY <2>1, TimesTail, AtFinite
  <2>3. /\ p \in Elements(Tail(s)) <=> Times(Tail(s), p) # 0
        /\ p \in Elements(s) <=> Times(s, p) # 0
    BY <2>1, TimesElement
  <2> QED
    BY <2>2, <2>3 DEF Holds
<1> QED
  BY <1>1

LEMMA ElementsTaken ==
    ASSUME NEW s \in Seq(Packet), NEW k \in 1..(MaxPkt + 1), NEW n \in 0..(MaxPkt + 1 - k)
    PROVE  Elements(s \o [i \in 1..n |-> k + i - 1]) = Elements(s) \cup k..(k + n - 1)
<1> DEFINE t == s \o [i \in 1..n |-> k + i - 1]
<1>1. t \in Seq(Packet)
  BY TakenIsSeq, ConcatProperties
<1>2. Elements(s) \subseteq Packet /\ Elements(t) \subseteq Packet
  <2> HIDE DEF t
  <2> QED
    BY <1>1, LenProperties DEF Elements
<1>3. k..(k + n - 1) \subseteq Packet
  BY TunnelAssumption DEF Packet
<1>4. ASSUME NEW p \in Packet PROVE p \in Elements(t) <=> p \in Elements(s) \/ p \in k..(k + n - 1)
  <2>1. Times(t, p) = Times(s, p) + Holds(p \in k..(k + n - 1)) /\ Times(s, p) \in Nat
    BY TimesTaken, AtFinite
  <2> HIDE DEF t
  <2> QED
    BY <1>1, <2>1, TimesElement DEF Holds
<1> HIDE DEF t
<1>5. Elements(t) = Elements(s) \cup k..(k + n - 1)
  BY <1>2, <1>3, <1>4
<1> QED
  BY <1>5 DEF t

\* The head of the queue is nowhere else among the packets carried, and what is in
\* hand is not in the queue.
LEMMA CarriedApart ==
    ASSUME CustodyInv
    PROVE  /\ outgoing_queue # <<>>
                => /\ Head(outgoing_queue) \notin Elements(Tail(outgoing_queue))
                   /\ current = "data" => held # Head(outgoing_queue)
                   /\ current = "deflate_pkt" => pending # Head(outgoing_queue)
           /\ current = "data" => held \in Packet /\ held \notin Elements(outgoing_queue)
           /\ current = "deflate_pkt" =>
                pending \in Packet /\ pending \notin Elements(outgoing_queue)
<1>0. /\ outgoing_queue \in Seq(Packet)
      /\ sent["cstp"] \in Seq(Packet) /\ sent["dtls"] \in Seq(Packet)
  BY DEF CustodyInv, TypeInv, TypeOK
<1>1. \A p : /\ Times(outgoing_queue, p) \in Nat
             /\ Times(sent["cstp"], p) \in Nat /\ Times(sent["dtls"], p) \in Nat
  BY <1>0, AtFinite
<1>2. ASSUME NEW p \in Packet
      PROVE  Times(outgoing_queue, p) + Holds(current = "data" /\ held = p)
               + Holds(current = "deflate_pkt" /\ pending = p) <= 1
  <2>1. Places(p) <= 1
    BY DEF CustodyInv, Holds
  <2> QED
    BY <1>1, <2>1 DEF Places, Holds
<1>3. ASSUME outgoing_queue # <<>>
      PROVE  /\ Head(outgoing_queue) \notin Elements(Tail(outgoing_queue))
             /\ current = "data" => held # Head(outgoing_queue)
             /\ current = "deflate_pkt" => pending # Head(outgoing_queue)
  <2> DEFINE h == Head(outgoing_queue)
  <2>1. h \in Packet /\ Tail(outgoing_queue) \in Seq(Packet)
    BY <1>0, <1>3, HeadTailProperties
  <2>2. Times(outgoing_queue, h) = Times(Tail(outgoing_queue), h) + 1
    BY <1>0, <1>3, TimesTail DEF Holds
  <2>3. Times(Tail(outgoing_queue), h) \in Nat
    BY <2>1, AtFinite
  <2>4. /\ Times(Tail(outgoing_queue), h) = 0
        /\ ~(current = "data" /\ held = h) /\ ~(current = "deflate_pkt" /\ pending = h)
    BY <1>2, <2>1, <2>2, <2>3 DEF Holds
  <2> QED
    BY <2>1, <2>4, TimesElement
<1>4. ASSUME current = "data" PROVE held \in Packet /\ held \notin Elements(outgoing_queue)
  <2>1. held \in Packet
    BY <1>4 DEF CustodyInv, TypeInv
  <2>2. Times(outgoing_queue, held) = 0
    BY <1>1, <1>2, <1>4, <2>1 DEF Holds
  <2> QED
    BY <1>0, <2>1, <2>2, TimesElement
<1>5. ASSUME current = "deflate_pkt"
      PROVE  pending \in Packet /\ pending \notin Elements(outgoing_queue)
  <2>1. pending \in Packet
    BY <1>5 DEF CustodyInv, TypeInv
  <2>2. Times(outgoing_queue, pending) = 0
    BY <1>1, <1>2, <1>5, <2>1 DEF Holds
  <2> QED
    BY <1>0, <2>1, <2>2, TimesElement
<1> QED
  BY <1>3, <1>4, <1>5

\* A step that leaves the queue, CSTP's hand and the channels alone is invisible.
LEMMA Invisible ==
    ASSUME UNCHANGED <<queue, current, held, pending>>
    PROVE  UNCHANGED R!vars
  BY DEF queue, R!vars, Carried

\* Every step of the data path is a step of the relay or is invisible to it: sending
\* over DTLS and writing a data packet pass one on, SSL_ERROR_WANT_READ gives one up,
\* tun_mainloop takes some; that what leaves the set of carried packets really leaves it
\* is because a packet is in one place.
LEMMA RelayStep == CustodyInv /\ [Next]_vars => [R!Next]_R!vars
<1> SUFFICES ASSUME CustodyInv, [Next]_vars PROVE [R!Next]_R!vars
  OBVIOUS
<1> DEFINE h == Head(outgoing_queue)
<1>t. /\ outgoing_queue \in Seq(Packet)
      /\ sent \in [{"cstp", "dtls"} -> Seq(Packet)]
      /\ sent["cstp"] \in Seq(Packet) /\ sent["dtls"] \in Seq(Packet)
      /\ next \in 1..(MaxPkt + 1)
  BY DEF CustodyInv, TypeInv, TypeOK
<1>1. CASE DtlsSend
  <2>1. /\ outgoing_queue # <<>> /\ outgoing_queue' = Tail(outgoing_queue)
        /\ sent'["dtls"] = Append(sent["dtls"], h) /\ sent'["cstp"] = sent["cstp"]
        /\ UNCHANGED <<next, dropped, current, held, pending>>
    BY <1>1, <1>t DEF DtlsSend, cstp
  <2>2. Elements(outgoing_queue) = Elements(outgoing_queue') \cup {h}
    BY <1>t, <2>1, ElementsTail
  <2>3. Elements(sent'["dtls"]) = Elements(sent["dtls"]) \cup {h}
    BY <1>t, <2>1, ElementsAppend, HeadTailProperties
  <2> HIDE DEF h
  <2>4. /\ h \notin Elements(outgoing_queue')
        /\ current = "data" => held # h
        /\ current = "deflate_pkt" => pending # h
    BY <2>1, CarriedApart DEF h
  <2>5. h \in Carried /\ Carried' = Carried \ {h}
    BY <2>1, <2>2, <2>4 DEF Carried
  <2>6. R!PassOn(h)
    BY <2>1, <2>3, <2>5 DEF R!PassOn
  <2> QED
    BY <2>5, <2>6 DEF R!Next
<1>2. CASE DtlsSendDrops
  <2>1. /\ outgoing_queue # <<>> /\ outgoing_queue' = Tail(outgoing_queue)
        /\ dropped' = dropped \cup {h}
        /\ UNCHANGED <<next, sent, current, held, pending>>
    BY <1>2 DEF DtlsSendDrops, cstp
  <2>2. Elements(outgoing_queue) = Elements(outgoing_queue') \cup {h}
    BY <1>t, <2>1, ElementsTail
  <2> HIDE DEF h
  <2>3. /\ h \notin Elements(outgoing_queue')
        /\ current = "data" => held # h
        /\ current = "deflate_pkt" => pending # h
    BY <2>1, CarriedApart DEF h
  <2>4. h \in Carried /\ Carried' = Carried \ {h}
    BY <2>1, <2>2, <2>3 DEF Carried
  <2>5. R!Lose(h)
    BY <2>1, <2>4 DEF R!Lose
  <2> QED
    BY <2>4, <2>5 DEF R!Next
<1>3. CASE CstpSend
  <2>1. /\ outgoing_queue # <<>> /\ outgoing_queue' = Tail(outgoing_queue)
        /\ current = "none"
        /\ \/ current' = "data" /\ held' = h
           \/ current' = "deflate_pkt" /\ pending' = h
        /\ UNCHANGED <<next, sent, dropped>>
    BY <1>3 DEF CstpSend, CustodyInv
  <2>2. Elements(outgoing_queue) = Elements(outgoing_queue') \cup {h}
    BY <1>t, <2>1, ElementsTail
  <2> HIDE DEF h
  <2>3. Carried' = Carried
    BY <2>1, <2>2 DEF Carried
  <2> QED
    BY <2>1, <2>3 DEF R!vars
<1>4. CASE CstpWrite
  <2>1. UNCHANGED <<outgoing_queue, next, dropped>> /\ current' = "none"
    BY <1>4 DEF CstpWrite
  <2>2. CASE current = "data" \/ current = "deflate_pkt"
    <3> DEFINE q == IF current = "data" THEN held ELSE pending
    <3>1. q \in Packet /\ q \notin Elements(outgoing_queue)
      BY <2>2, CarriedApart
    <3>2. sent'["cstp"] = Append(sent["cstp"], q) /\ sent'["dtls"] = sent["dtls"]
      BY <1>4, <1>t, <2>2 DEF CstpWrite
    <3>3. Elements(sent'["cstp"]) = Elements(sent["cstp"]) \cup {q}
      BY <1>t, <3>1, <3>2, ElementsAppend
    <3>4. Carried = Elements(outgoing_queue) \cup {q} /\ Carried' = Elements(outgoing_queue)
      BY <2>1, <2>2 DEF Carried
    <3> HIDE DEF q
    <3>5. q \in Carried /\ Carried' = Carried \ {q}
      BY <3>1, <3>4
    <3>6. R!PassOn(q)
      BY <2>1, <3>2, <3>3, <3>5 DEF R!PassOn
    <3> QED
      BY <3>5, <3>6 DEF R!Next
  <2>3. CASE ~(current = "data" \/ current = "deflate_pkt")
    <3>1. sent' = sent
      BY <1>4, <2>3 DEF CstpWrite
    <3>2. Carried' = Carried
      BY <2>1, <2>3 DEF Carried
    <3> QED
      BY <2>1, <3>1, <3>2 DEF R!vars
  <2> QED
    BY <2>2, <2>3
<1>5. CASE CstpControl
  <2>1. /\ current = "none" /\ current' \notin {"data", "deflate_pkt"}
        /\ UNCHANGED <<outgoing_queue, sent, dropped, next>>
    BY <1>5 DEF CstpControl, CustodyInv, queue
  <2> QED
    BY <2>1 DEF R!vars, Carried
<1>6. CASE CstpReconnects \/ CstpReconnectFails
  <2>1. RequeueDeflated /\ UNCHANGED <<held, sent, dropped, next>>
    BY <1>6 DEF CstpReconnects, CstpReconnectFails
  <2>2. CASE deflate /\ current = "deflate_pkt"
    <3>1. /\ outgoing_queue' = Append(outgoing_queue, pending) /\ pending \in Packet
          /\ current' = "none"
      BY <2>1, <2>2 DEF RequeueDeflated, CustodyInv, TypeInv
    <3>2. Elements(outgoing_queue') = Elements(outgoing_queue) \cup {pending}
      BY <1>t, <3>1, ElementsAppend
    <3>3. Carried' = Carried
      BY <2>2, <3>1, <3>2 DEF Carried
    <3> QED
      BY <2>1, <3>3 DEF R!vars
  <2>3. CASE ~(deflate /\ current = "deflate_pkt")
    BY <2>1, <2>3 DEF RequeueDeflated, R!vars, Carried
  <2> QED
    BY <2>2, <2>3
<1>7. CASE TunPass
  <2>1. PICK n \in 0..(MaxPkt + 1 - next) :
            /\ outgoing_queue' = outgoing_queue \o [i \in 1..n |-> next + i - 1]
            /\ next' = next + n
    BY <1>7 DEF TunPass
  <2>2. UNCHANGED <<current, held, pending, sent, dropped>>
    BY <1>7 DEF TunPass, cstp
  <2>3. Elements(outgoing_queue') = Elements(outgoing_queue) \cup next..(next' - 1)
    BY <1>t, <2>1, ElementsTaken
  <2>4. Carried' = Carried \cup next..(next' - 1)
    BY <2>2, <2>3 DEF Carried
  <2>5. n \in Nat /\ next \in Int
    BY <1>t
  <2>6. CASE n = 0
    <3>1. next' = next /\ next..(next' - 1) = {}
      BY <2>1, <2>5, <2>6
    <3> QED
      BY <2>2, <2>4, <3>1 DEF R!vars
  <2>7. CASE n # 0
    <3>1. next' > next
      BY <2>1, <2>5, <2>7
    <3> QED
      BY <2>2, <2>4, <3>1 DEF R!Next, R!Take
  <2> QED
    BY <2>6, <2>7
<1>9. CASE \/ DtlsDisabled \/ DtlsNotConnected \/ DtlsRead \/ DtlsDead \/ DtlsRekeyFails
           \/ DtlsSendDone \/ DtlsSendBlocks \/ DtlsSendFails
  BY <1>9, Invisible DEF DtlsDisabled, DtlsNotConnected, DtlsRead, DtlsDead, DtlsRekeyFails,
     DtlsSendDone, DtlsSendBlocks, DtlsSendFails, cstp
<1>10. CASE \/ CstpLost \/ CstpRead \/ CstpEnds \/ CstpWriteStalls
            \/ CstpWriteShort \/ CstpGivesUp \/ CstpIdle
  BY <1>10, Invisible DEF CstpLost, CstpRead, CstpEnds, CstpWriteStalls,
     CstpWriteShort, CstpGivesUp, CstpIdle, cstp
<1>11. CASE TunGone \/ EndPass \/ PauseAndResume \/ Wake \/ Quit \/ UNCHANGED vars
  BY <1>11, Invisible DEF TunGone, EndPass, PauseAndResume, Wake, Quit, vars, cstp
<1> QED
  BY <1>1, <1>2, <1>3, <1>4, <1>5, <1>6, <1>7, <1>9, <1>10, <1>11 DEF Next

\* The data path implements the relay (ImplementsRelay): seen from outside, packets are
\* taken, passed on once or given up, whatever the channels do (cstp.c 562-606,
\* 837-1008; dtls.c 824-887).
THEOREM ImplementsRelayAlways == Spec => ImplementsRelay
<1>1. Init => R!Init
  <2> SUFFICES ASSUME Init PROVE R!Init
    OBVIOUS
  <2>1. Elements(<<>>) = {}
    BY DEF Elements
  <2>2. /\ outgoing_queue = <<>> /\ sent["cstp"] = <<>> /\ sent["dtls"] = <<>>
        /\ current = "none" /\ dropped = {} /\ next = 1
    BY DEF Init
  <2> QED
    BY <2>1, <2>2 DEF R!Init, Carried
<1> QED
  BY <1>1, CustodyInit, CustodyStep, RelayStep, PTL DEF Spec, ImplementsRelay, R!Spec

-----------------------------------------------------------------------------
\* Packets in the queue that nobody has to wait for mean another pass: at the end
\* of cstp_mainloop, and of the pass.
SleepInv ==
    /\ pc = "write" => current # "none"
    /\ pc \in {"cstp", "write", "decide", "reconnect"} /\ ~work /\ outgoing_queue # <<>>
         => \/ dtls_state # "CONNECTED"
            \/ dtls_waits # "no"
    /\ pc \in {"tun", "cmd"} /\ ~work /\ outgoing_queue # <<>>
         => \/ current # "none"
            \/ dtls_state = "CONNECTED" /\ dtls_waits # "no"
    /\ NoSleepOnQueue

\* A pass that leaves packets in the queue either did work or has somebody waiting.
LEMMA SleepStep == TypeInv /\ SleepInv /\ [Next]_vars => SleepInv'
<1> SUFFICES ASSUME TypeInv, SleepInv, [Next]_vars PROVE SleepInv'
  OBVIOUS
<1> USE DEF SleepInv, NoSleepOnQueue
<1>1. CASE \/ DtlsDisabled \/ DtlsNotConnected \/ DtlsRead \/ DtlsDead \/ DtlsRekeyFails \/ DtlsSend
           \/ DtlsSendDone \/ DtlsSendBlocks \/ DtlsSendDrops \/ DtlsSendFails
  <2>1. CASE DtlsDisabled
    BY <2>1 DEF DtlsDisabled, queue, dtls
  <2>2. CASE DtlsNotConnected \/ DtlsRekeyFails
    BY <2>2 DEF DtlsNotConnected, DtlsRekeyFails, queue
  <2>3. CASE DtlsRead \/ DtlsSend
    BY <2>3 DEF DtlsRead, DtlsSend
  <2>4. CASE DtlsDead \/ DtlsSendFails
    BY <2>4 DEF DtlsDead, DtlsSendFails
  <2>5. CASE DtlsSendDone \/ DtlsSendBlocks \/ DtlsSendDrops
    BY <2>5 DEF DtlsSendDone, DtlsSendBlocks, DtlsSendDrops, queue
  <2> QED
    BY <1>1, <2>1, <2>2, <2>3, <2>4, <2>5
<1>2. CASE CstpLost
  BY <1>2 DEF CstpLost, queue, dtls
<1>3. CASE CstpRead
  <2>1. ~work' => ~work
    BY <1>3, Zenon DEF CstpRead
  <2> QED
    BY <1>3, <2>1 DEF CstpRead, queue, dtls
<1>4. CASE \/ CstpEnds \/ CstpWrite \/ CstpWriteStalls \/ CstpWriteShort
           \/ CstpControl \/ CstpGivesUp \/ CstpIdle
  <2>1. CASE CstpEnds \/ CstpWriteShort \/ CstpGivesUp
    BY <2>1 DEF CstpEnds, CstpWriteShort, CstpGivesUp, queue, cstp, dtls
  <2>5. CASE CstpWriteStalls
    BY <2>5 DEF CstpWriteStalls, queue, cstp, dtls
  <2>2. CASE CstpWrite
    BY <2>2 DEF CstpWrite, dtls
  <2>3. CASE CstpControl
    BY <2>3 DEF CstpControl, queue, dtls
  <2>4. CASE CstpIdle
    BY <2>4 DEF CstpIdle, queue, cstp, dtls
  <2> QED
    BY <1>4, <2>1, <2>2, <2>3, <2>4, <2>5
<1>5. CASE CstpSend
  BY <1>5 DEF CstpSend, dtls
<1>6. CASE CstpReconnects \/ CstpReconnectFails
  BY <1>6 DEF CstpReconnects, CstpReconnectFails
<1>7. CASE TunPass
  <2>1. PICK n \in 0..(MaxPkt + 1 - next) :
            /\ outgoing_queue' = outgoing_queue \o [i \in 1..n |-> next + i - 1]
            /\ work' = (work \/ n > 0)
    BY <1>7 DEF TunPass
  <2>2. ~work' => ~work /\ ~(n > 0)
    BY <2>1, Zenon
  <2>3. ASSUME ~(n > 0) PROVE outgoing_queue' = outgoing_queue
    <3>1. n = 0 /\ outgoing_queue \in Seq(Packet)
      BY <2>3 DEF TypeInv, TypeOK
    <3>2. [i \in 1..0 |-> next + i - 1] = <<>>
      OBVIOUS
    <3> QED
      BY <2>1, <3>1, <3>2, ConcatEmptySeq
  <2> QED
    BY <1>7, <2>2, <2>3 DEF TunPass, cstp, dtls
<1>8. CASE TunGone \/ EndPass \/ PauseAndResume \/ Wake
  BY <1>8 DEF TunGone, EndPass, PauseAndResume, Wake, queue, cstp, dtls
<1>9. CASE Quit \/ UNCHANGED vars
  BY <1>9 DEF Quit, vars, queue, cstp, dtls
<1> QED
  BY <1>1, <1>2, <1>3, <1>4, <1>5, <1>6, <1>7, <1>8, <1>9 DEF Next

\* The loop never sleeps on packets that a channel could send (NoSleepOnQueue), in the
\* order dtls_mainloop, cstp_mainloop, tun_mainloop of mainloop.c 137-160.
THEOREM NoSleepOnQueueAlways == Spec => []NoSleepOnQueue
<1>1. Init => SleepInv
  BY DEF Init, SleepInv, NoSleepOnQueue
<1>2. SleepInv => NoSleepOnQueue
  BY DEF SleepInv
<1>3. Init => GateInv
  BY TunnelAssumption DEF Init, GateInv, TunGate
<1> QED
  BY <1>1, <1>2, <1>3, TypeInit, TypeStep, GateStep, SleepStep, PTL DEF Spec

-----------------------------------------------------------------------------
\* A sequence in rising order; one before another; all under or over a packet.
Rising(s) == \A i, j \in DOMAIN s : i < j => s[i] < s[j]
Before(s, t) == \A i \in DOMAIN s, j \in DOMAIN t : s[i] < t[j]
Under(s, p) == \A i \in DOMAIN s : s[i] < p
Over(p, s) == \A i \in DOMAIN s : p < s[i]

\* What each channel has taken, what CSTP has in hand and the queue are in order, one
\* behind the other, as long as nothing was requeued.
Ordered ==
    /\ Rising(outgoing_queue) /\ Under(outgoing_queue, next)
    /\ \A c \in {"cstp", "dtls"} :
         Rising(sent[c]) /\ Before(sent[c], outgoing_queue) /\ Under(sent[c], next)
    /\ current = "data" =>
         Under(sent["cstp"], held) /\ Over(held, outgoing_queue) /\ held < next
    /\ current = "deflate_pkt" =>
         Under(sent["cstp"], pending) /\ Over(pending, outgoing_queue) /\ pending < next

OrderInv ==
    /\ CustodyInv
    /\ uncounted = 0 => Ordered

\* What Append, Tail and the packets of the tun device do to the order.
LEMMA RisingAppend ==
    ASSUME NEW s \in Seq(Packet), NEW e \in Packet, Rising(s), Under(s, e)
    PROVE  Rising(Append(s, e))
<1>1. /\ Len(s) \in Nat /\ DOMAIN s = 1..Len(s) /\ DOMAIN Append(s, e) = 1..(Len(s) + 1)
      /\ \A i \in 1..Len(s) : Append(s, e)[i] = s[i]
      /\ Append(s, e)[Len(s) + 1] = e
  BY AppendProperties, LenProperties
<1>2. ASSUME NEW i \in 1..(Len(s) + 1), NEW j \in 1..(Len(s) + 1), i < j
      PROVE  Append(s, e)[i] < Append(s, e)[j]
  <2>1. i \in 1..Len(s)
    BY <1>1, <1>2
  <2>2. CASE j \in 1..Len(s)
    BY <1>1, <1>2, <2>1, <2>2 DEF Rising
  <2>3. CASE j = Len(s) + 1
    BY <1>1, <2>1, <2>3 DEF Under
  <2> QED
    BY <1>1, <2>2, <2>3
<1> QED
  BY <1>1, <1>2 DEF Rising

LEMMA UnderAppend ==
    ASSUME NEW s \in Seq(Packet), NEW e \in Packet, NEW k, Under(s, k), e < k
    PROVE  Under(Append(s, e), k)
<1>1. /\ Len(s) \in Nat /\ DOMAIN s = 1..Len(s) /\ DOMAIN Append(s, e) = 1..(Len(s) + 1)
      /\ \A i \in 1..Len(s) : Append(s, e)[i] = s[i]
      /\ Append(s, e)[Len(s) + 1] = e
  BY AppendProperties, LenProperties
<1>2. ASSUME NEW i \in 1..(Len(s) + 1) PROVE Append(s, e)[i] < k
  <2>1. CASE i \in 1..Len(s)
    BY <1>1, <2>1 DEF Under
  <2>2. CASE i = Len(s) + 1
    BY <1>1, <2>2
  <2> QED
    BY <1>1, <2>1, <2>2
<1> QED
  BY <1>1, <1>2 DEF Under

LEMMA BeforeAppend ==
    ASSUME NEW s \in Seq(Packet), NEW e \in Packet, NEW t, Before(s, t), Over(e, t)
    PROVE  Before(Append(s, e), t)
<1>1. /\ Len(s) \in Nat /\ DOMAIN s = 1..Len(s) /\ DOMAIN Append(s, e) = 1..(Len(s) + 1)
      /\ \A i \in 1..Len(s) : Append(s, e)[i] = s[i]
      /\ Append(s, e)[Len(s) + 1] = e
  BY AppendProperties, LenProperties
<1>2. ASSUME NEW i \in 1..(Len(s) + 1), NEW j \in DOMAIN t PROVE Append(s, e)[i] < t[j]
  <2>1. CASE i \in 1..Len(s)
    BY <1>1, <2>1 DEF Before
  <2>2. CASE i = Len(s) + 1
    BY <1>1, <2>2 DEF Over
  <2> QED
    BY <1>1, <2>1, <2>2
<1> QED
  BY <1>1, <1>2 DEF Before

LEMMA RisingTail ==
    ASSUME NEW s \in Seq(Packet), s # <<>>, Rising(s)
    PROVE  /\ Rising(Tail(s)) /\ Over(Head(s), Tail(s))
           /\ \A k : Under(s, k) => Under(Tail(s), k) /\ Head(s) < k
           /\ \A p : Over(p, s) => Over(p, Tail(s)) /\ p < Head(s)
           /\ \A t : Before(t, s) => Before(t, Tail(s)) /\ Under(t, Head(s))
<1>1. /\ Len(s) \in Nat \ {0} /\ DOMAIN s = 1..Len(s) /\ DOMAIN Tail(s) = 1..(Len(s) - 1)
      /\ \A i \in 1..(Len(s) - 1) : Tail(s)[i] = s[i + 1]
      /\ Head(s) = s[1]
  BY HeadTailProperties, LenProperties, EmptySeq
<1>2. /\ 1 \in DOMAIN s
      /\ \A i \in DOMAIN Tail(s) :
           i \in Int /\ 1 < i + 1 /\ i + 1 \in DOMAIN s /\ Tail(s)[i] = s[i + 1]
  BY <1>1
<1>3. Rising(Tail(s)) /\ Over(Head(s), Tail(s))
  BY <1>1, <1>2 DEF Rising, Over
<1>4. \A k : Under(s, k) => Under(Tail(s), k) /\ Head(s) < k
  BY <1>1, <1>2 DEF Under
<1>5. \A p : Over(p, s) => Over(p, Tail(s)) /\ p < Head(s)
  BY <1>1, <1>2 DEF Over
<1>6. \A t : Before(t, s) => Before(t, Tail(s)) /\ Under(t, Head(s))
  BY <1>1, <1>2 DEF Before, Under
<1> QED
  BY <1>3, <1>4, <1>5, <1>6

LEMMA RisingTaken ==
    ASSUME NEW s \in Seq(Packet), NEW k \in 1..(MaxPkt + 1), NEW n \in 0..(MaxPkt + 1 - k),
           Rising(s), Under(s, k)
    PROVE  LET t == s \o [i \in 1..n |-> k + i - 1]
           IN  /\ Rising(t) /\ Under(t, k + n)
               /\ \A p \in Packet : Over(p, s) /\ p < k => Over(p, t)
               /\ \A r \in Seq(Packet) : Before(r, s) /\ Under(r, k) => Before(r, t)
<1> DEFINE u == [i \in 1..n |-> k + i - 1]
           t == s \o u
<1>0. /\ Len(s) \in Nat /\ DOMAIN s = 1..Len(s) /\ n \in Nat /\ k \in Int
      /\ \A i \in 1..Len(s) : s[i] \in Int
  BY LenProperties, TunnelAssumption DEF Packet
<1>1. u \in Seq(Packet) /\ Len(u) = n
  BY TakenIsSeq
<1>2. /\ t \in Seq(Packet) /\ Len(t) = Len(s) + n
      /\ \A i \in 1..(Len(s) + n) : t[i] = IF i <= Len(s) THEN s[i] ELSE u[i - Len(s)]
  <2> HIDE DEF u
  <2> QED
    BY <1>1, ConcatProperties
<1>3. DOMAIN t = 1..(Len(s) + n)
  <2> HIDE DEF t
  <2> QED
    BY <1>2, LenProperties
<1>4. /\ \A i \in 1..Len(s) : t[i] = s[i]
      /\ \A i \in (Len(s) + 1)..(Len(s) + n) : t[i] = k + i - Len(s) - 1
  BY <1>0, <1>2
<1>5. \A i \in DOMAIN t : \/ i \in DOMAIN s /\ t[i] = s[i] /\ s[i] < k /\ s[i] \in Int
                          \/ /\ i \in (Len(s) + 1)..(Len(s) + n)
                             /\ t[i] = k + i - Len(s) - 1 /\ k <= t[i]
  <2> HIDE DEF t, u
  <2> SUFFICES ASSUME NEW i \in DOMAIN t
               PROVE  \/ i \in DOMAIN s /\ t[i] = s[i] /\ s[i] < k /\ s[i] \in Int
                      \/ /\ i \in (Len(s) + 1)..(Len(s) + n)
                         /\ t[i] = k + i - Len(s) - 1 /\ k <= t[i]
    OBVIOUS
  <2>1. CASE i \in 1..Len(s)
    BY <1>0, <1>4, <2>1 DEF Under
  <2>2. CASE i \in (Len(s) + 1)..(Len(s) + n)
    BY <1>0, <1>4, <2>2
  <2> QED
    BY <1>0, <1>3, <2>1, <2>2
<1> HIDE DEF t
<1>6. Rising(t)
  BY <1>0, <1>5 DEF Rising
<1>7. Under(t, k + n)
  BY <1>0, <1>5 DEF Under
<1>8. ASSUME NEW p \in Packet, Over(p, s), p < k PROVE Over(p, t)
  BY <1>0, <1>5, <1>8 DEF Over, Packet
<1>9. ASSUME NEW r \in Seq(Packet), Before(r, s), Under(r, k) PROVE Before(r, t)
  <2>1. \A i \in DOMAIN r : r[i] \in Packet
    BY LenProperties
  <2>2. \A i \in DOMAIN r : r[i] \in Int /\ r[i] < k
    BY <1>9, <2>1 DEF Under, Packet
  <2> QED
    BY <1>0, <1>5, <1>9, <2>2 DEF Before
<1> QED
  BY <1>6, <1>7, <1>8, <1>9 DEF t

\* Taking the head of the queue, holding it and sending it keep the chain in order; a
\* requeue of a compressed packet ends the claim.
LEMMA OrderStep == OrderInv /\ [Next]_vars => OrderInv'
<1> SUFFICES ASSUME OrderInv, [Next]_vars, uncounted' = 0 PROVE Ordered'
  BY CustodyStep DEF OrderInv
<1> DEFINE h == Head(outgoing_queue)
<1>t. /\ outgoing_queue \in Seq(Packet)
      /\ sent \in [{"cstp", "dtls"} -> Seq(Packet)]
      /\ sent["cstp"] \in Seq(Packet) /\ sent["dtls"] \in Seq(Packet)
      /\ next \in 1..(MaxPkt + 1) /\ uncounted \in Nat
  BY DEF OrderInv, CustodyInv, TypeInv, TypeOK
<1>k. ASSUME UNCHANGED <<queue, current, held, pending>> PROVE Ordered'
  BY <1>k DEF OrderInv, Ordered, queue
<1>1. CASE DtlsSend
  <2>1. /\ outgoing_queue # <<>> /\ outgoing_queue' = Tail(outgoing_queue)
        /\ sent'["dtls"] = Append(sent["dtls"], h) /\ sent'["cstp"] = sent["cstp"]
        /\ UNCHANGED <<next, uncounted, current, held, pending>>
    BY <1>1, <1>t DEF DtlsSend, cstp
  <2>2. Ordered /\ h \in Packet
    BY <1>t, <2>1, HeadTailProperties DEF OrderInv
  <2> HIDE DEF h
  <2>3. /\ Rising(outgoing_queue') /\ Over(h, outgoing_queue')
        /\ Under(outgoing_queue', next) /\ h < next
        /\ Before(sent["cstp"], outgoing_queue')
        /\ Before(sent["dtls"], outgoing_queue') /\ Under(sent["dtls"], h)
        /\ current = "data" => Over(held, outgoing_queue')
        /\ current = "deflate_pkt" => Over(pending, outgoing_queue')
    BY <1>t, <2>1, <2>2, RisingTail DEF Ordered, h
  <2>4. /\ Rising(sent'["dtls"]) /\ Before(sent'["dtls"], outgoing_queue')
        /\ Under(sent'["dtls"], next)
    BY <1>t, <2>1, <2>2, <2>3, RisingAppend, BeforeAppend, UnderAppend DEF Ordered
  <2> QED
    BY <2>1, <2>2, <2>3, <2>4 DEF Ordered
<1>2. CASE DtlsSendDrops
  <2>1. /\ outgoing_queue # <<>> /\ outgoing_queue' = Tail(outgoing_queue)
        /\ UNCHANGED <<next, uncounted, sent, current, held, pending>>
    BY <1>2 DEF DtlsSendDrops, cstp
  <2>2. Ordered
    BY <2>1 DEF OrderInv
  <2>3. /\ Rising(outgoing_queue') /\ Under(outgoing_queue', next)
        /\ Before(sent["cstp"], outgoing_queue') /\ Before(sent["dtls"], outgoing_queue')
        /\ current = "data" => Over(held, outgoing_queue')
        /\ current = "deflate_pkt" => Over(pending, outgoing_queue')
    BY <1>t, <2>1, <2>2, RisingTail DEF Ordered
  <2> QED
    BY <2>1, <2>2, <2>3 DEF Ordered
<1>3. CASE CstpSend
  <2>1. /\ outgoing_queue # <<>> /\ outgoing_queue' = Tail(outgoing_queue)
        /\ \/ current' = "data" /\ held' = h
           \/ current' = "deflate_pkt" /\ pending' = h
        /\ UNCHANGED <<next, uncounted, sent>>
    BY <1>3 DEF CstpSend
  <2>2. Ordered
    BY <2>1 DEF OrderInv
  <2> HIDE DEF h
  <2>3. /\ Rising(outgoing_queue') /\ Over(h, outgoing_queue')
        /\ Under(outgoing_queue', next) /\ h < next
        /\ Before(sent["cstp"], outgoing_queue') /\ Under(sent["cstp"], h)
        /\ Before(sent["dtls"], outgoing_queue')
    BY <1>t, <2>1, <2>2, RisingTail DEF Ordered, h
  <2> QED
    BY <2>1, <2>2, <2>3 DEF Ordered
<1>4. CASE CstpWrite
  <2>1. UNCHANGED <<outgoing_queue, next, uncounted>> /\ current' = "none"
    BY <1>4 DEF CstpWrite
  <2>2. Ordered
    BY <2>1 DEF OrderInv
  <2>3. CASE current = "data" \/ current = "deflate_pkt"
    <3> DEFINE q == IF current = "data" THEN held ELSE pending
    <3>1. q \in Packet
      BY <2>3 DEF OrderInv, CustodyInv, TypeInv
    <3>2. sent'["cstp"] = Append(sent["cstp"], q) /\ sent'["dtls"] = sent["dtls"]
      BY <1>4, <1>t, <2>3 DEF CstpWrite
    <3>3. Under(sent["cstp"], q) /\ Over(q, outgoing_queue) /\ q < next
      BY <2>2, <2>3 DEF Ordered
    <3> HIDE DEF q
    <3>4. /\ Rising(sent'["cstp"]) /\ Before(sent'["cstp"], outgoing_queue)
          /\ Under(sent'["cstp"], next)
      BY <1>t, <2>2, <3>1, <3>2, <3>3, RisingAppend, BeforeAppend, UnderAppend DEF Ordered
    <3> QED
      BY <2>1, <2>2, <3>2, <3>4 DEF Ordered
  <2>4. CASE ~(current = "data" \/ current = "deflate_pkt")
    <3>1. sent' = sent
      BY <1>4, <2>4 DEF CstpWrite
    <3> QED
      BY <2>1, <2>2, <3>1 DEF Ordered
  <2> QED
    BY <2>3, <2>4
<1>5. CASE CstpControl
  <2>1. /\ current' \notin {"data", "deflate_pkt"}
        /\ UNCHANGED <<outgoing_queue, sent, next, uncounted>>
    BY <1>5 DEF CstpControl, queue
  <2> QED
    BY <2>1 DEF OrderInv, Ordered
<1>6. CASE CstpReconnects \/ CstpReconnectFails
  <2>1. RequeueDeflated /\ UNCHANGED <<held, sent, next>>
    BY <1>6 DEF CstpReconnects, CstpReconnectFails
  <2>2. UNCHANGED <<outgoing_queue, uncounted, current, pending>>
    BY <1>t, <2>1 DEF RequeueDeflated
  <2> QED
    BY <2>1, <2>2 DEF OrderInv, Ordered
<1>7. CASE TunPass
  <2>1. PICK n \in 0..(MaxPkt + 1 - next) :
            /\ outgoing_queue' = outgoing_queue \o [i \in 1..n |-> next + i - 1]
            /\ next' = next + n
    BY <1>7 DEF TunPass
  <2>2. UNCHANGED <<current, held, pending, sent, uncounted>>
    BY <1>7 DEF TunPass, cstp
  <2>3. /\ Ordered /\ n \in Nat
        /\ current = "data" => held \in Packet
        /\ current = "deflate_pkt" => pending \in Packet
    BY <2>2 DEF OrderInv, CustodyInv, TypeInv
  <2>4. /\ Rising(outgoing_queue') /\ Under(outgoing_queue', next')
        /\ \A p \in Packet : Over(p, outgoing_queue) /\ p < next => Over(p, outgoing_queue')
        /\ \A r \in Seq(Packet) :
             Before(r, outgoing_queue) /\ Under(r, next) => Before(r, outgoing_queue')
    BY <1>t, <2>1, <2>3, RisingTaken DEF Ordered
  <2>5. /\ \A r \in Seq(Packet) : Under(r, next) => Under(r, next')
        /\ \A p \in Packet : p < next => p < next'
    <3>1. \A r \in Seq(Packet) : \A i \in DOMAIN r : r[i] \in Packet
      BY LenProperties
    <3>2. \A p \in Packet : p < next => p < next'
      BY <1>t, <2>1, <2>3 DEF Packet
    <3> QED
      BY <3>1, <3>2 DEF Under
  <2> QED
    BY <1>t, <2>2, <2>3, <2>4, <2>5 DEF Ordered
<1>9. CASE \/ DtlsDisabled \/ DtlsNotConnected \/ DtlsRead \/ DtlsDead \/ DtlsRekeyFails
           \/ DtlsSendDone \/ DtlsSendBlocks \/ DtlsSendFails
  BY <1>9, <1>k DEF DtlsDisabled, DtlsNotConnected, DtlsRead, DtlsDead, DtlsRekeyFails,
     DtlsSendDone, DtlsSendBlocks, DtlsSendFails, cstp
<1>10. CASE \/ CstpLost \/ CstpRead \/ CstpEnds \/ CstpWriteStalls
            \/ CstpWriteShort \/ CstpGivesUp \/ CstpIdle
  BY <1>10, <1>k DEF CstpLost, CstpRead, CstpEnds, CstpWriteStalls,
     CstpWriteShort, CstpGivesUp, CstpIdle, cstp
<1>11. CASE TunGone \/ EndPass \/ PauseAndResume \/ Wake \/ Quit \/ UNCHANGED vars
  BY <1>11, <1>k DEF TunGone, EndPass, PauseAndResume, Wake, Quit, vars, cstp
<1> QED
  BY <1>1, <1>2, <1>3, <1>4, <1>5, <1>6, <1>7, <1>9, <1>10, <1>11 DEF Next

\* Each channel carries its packets in the order the tun device delivered them (InOrder)
\* until cstp_reconnect requeues a compressed one (cstp.c 570-576).
THEOREM InOrderAlways == Spec => []InOrder
<1>1. Init => OrderInv
  <2> SUFFICES ASSUME Init PROVE Ordered
    BY CustodyInit DEF OrderInv
  <2>1. DOMAIN <<>> = {}
    OBVIOUS
  <2>2. /\ outgoing_queue = <<>> /\ sent["cstp"] = <<>> /\ sent["dtls"] = <<>>
        /\ current = "none"
    BY DEF Init
  <2> QED
    BY <2>1, <2>2 DEF Ordered, Rising, Before, Under
<1>2. OrderInv => InOrder
  BY DEF OrderInv, Ordered, Rising, InOrder
<1> QED
  BY <1>1, <1>2, OrderStep, PTL DEF Spec
=============================================================================
