----------------------------- MODULE ProxyProofs -----------------------------
(***************************************************************************)
(* Whatever a proxy offers, in any number of connections: a method that    *)
(* failed is never used again, a helper never outlives its dialogue, and   *)
(* with a password there are no more reconnects than methods that failed.  *)
(***************************************************************************)
EXTENDS Proxy, FiniteSetTheorems, TLAPS

AuthTypeOK ==
    /\ auth \in [Methods -> States]
    /\ helper \in BOOLEAN /\ creds \in BOOLEAN
    /\ reconnects \in Nat

\* A helper's pipe is open only in the state in which cleanup_ntlm_auth closes it,
\* and a helper is only asked when there is no password.
HelperInv ==
    /\ helper => auth["NTLM"] = "SSO_REQ"
    /\ creds => auth["NTLM"] # "SSO_REQ"
    /\ NoHelperLeft

ProxyInv == AuthTypeOK /\ HelperInv /\ FailedForGood /\ ReconnectsBounded

\* clear_auth_state (http.c 1866-1885) maps states to states, and neither makes nor
\* undoes a failure.
LEMMA ClearedStates ==
    ASSUME NEW a \in [Methods -> States], NEW r \in BOOLEAN
    PROVE  /\ Cleared(a, r) \in [Methods -> States]
           /\ \A m \in Methods : Cleared(a, r)[m] = "FAILED" <=> a[m] = "FAILED"
           /\ \A m \in Methods : a[m] # "SSO_REQ" => Cleared(a, r)[m] # "SSO_REQ"
           /\ a["NTLM"] = "SSO_REQ" /\ ~r => Cleared(a, r)["NTLM"] = "SSO_REQ"
           /\ r => Cleared(a, r)["NTLM"] # "SSO_REQ"
  BY DEF Cleared, clear_auth_state, Settled, States, Methods

\* There are finitely many methods, so that those that failed can be counted.
LEMMA MethodsFinite ==
    ASSUME NEW S \in SUBSET Methods
    PROVE  IsFiniteSet(S) /\ Cardinality(S) \in Nat
<1>1. IsFiniteSet({"NTLM", "Digest", "Basic"})
  <2>1. IsFiniteSet({}) /\ IsFiniteSet({} \cup {"NTLM"})
    BY FS_EmptySet, FS_AddElement
  <2>2. IsFiniteSet({} \cup {"NTLM"} \cup {"Digest"})
    BY <2>1, FS_AddElement
  <2>3. IsFiniteSet({} \cup {"NTLM"} \cup {"Digest"} \cup {"Basic"})
    BY <2>2, FS_AddElement
  <2>4. {} \cup {"NTLM"} \cup {"Digest"} \cup {"Basic"} = {"NTLM", "Digest", "Basic"}
    OBVIOUS
  <2> QED
    BY <2>3, <2>4
<1> QED
  BY <1>1, FS_Subset, FS_CardinalityType DEF Methods

\* process_proxy returns without a failure to note, and does not reconnect unless
\* there is no password.
LEMMA Returned ==
    ASSUME ProxyInv, NEW a \in [Methods -> States], NEW r,
           \A m \in Methods : auth[m] = "FAILED" => a[m] = "FAILED",
           Return(a, r), r = "EAGAIN" => ~creds,
           refused' \subseteq refused \cup {m \in Methods : a[m] = "FAILED"},
           helper' = FALSE
    PROVE  ProxyInv'
<1> DEFINE b == Cleared(a, TRUE)
<1>1. /\ b \in [Methods -> States]
      /\ \A m \in Methods : b[m] = "FAILED" <=> a[m] = "FAILED"
      /\ b["NTLM"] # "SSO_REQ"
  BY ClearedStates
<1>2. auth' = b
  BY DEF Return
<1> HIDE DEF b
<1>3. creds' = creds /\ creds \in BOOLEAN
  BY DEF Return, config, ProxyInv, AuthTypeOK
<1>4. reconnects' \in Nat /\ (creds => reconnects' = reconnects)
  BY DEF Return, Count, ProxyInv, AuthTypeOK
<1>5. Failed \subseteq Failed'
  BY <1>1, <1>2 DEF Failed
<1>6. /\ Cardinality(Failed) \in Nat /\ Cardinality(Failed') \in Nat
      /\ Cardinality(Failed) <= Cardinality(Failed')
  <2>1. Failed \subseteq Methods /\ Failed' \subseteq Methods
    BY DEF Failed
  <2>2. IsFiniteSet(Failed') /\ Cardinality(Failed') \in Nat /\ Cardinality(Failed) \in Nat
    BY <2>1, MethodsFinite
  <2> QED
    BY <1>5, <2>2, FS_Subset
<1>7. AuthTypeOK'
  BY <1>1, <1>2, <1>3, <1>4 DEF AuthTypeOK
<1>8. HelperInv'
  BY <1>1, <1>2 DEF HelperInv, NoHelperLeft
<1>9. FailedForGood'
  BY <1>1, <1>2, <1>5 DEF ProxyInv, FailedForGood, Failed
<1>10. ReconnectsBounded'
  BY <1>3, <1>4, <1>6 DEF ProxyInv, ReconnectsBounded, AuthTypeOK
<1> QED
  BY <1>7, <1>8, <1>9, <1>10 DEF ProxyInv

\* A method fails: it was not among those that failed before, so that the reconnect
\* it causes is paid for.
LEMMA MethodFails ==
    ASSUME ProxyInv, NEW m \in Methods, Fail(m), auth[m] # "FAILED",
           m = "NTLM" => auth["NTLM"] # "SSO_REQ"
    PROVE  ProxyInv'
<1> DEFINE a == [auth EXCEPT ![m] = "FAILED"]
           b == Cleared(a, TRUE)
<1>0. auth \in [Methods -> States] /\ refused \subseteq Failed
  BY DEF ProxyInv, AuthTypeOK, FailedForGood
<1>1. a \in [Methods -> States]
  BY <1>0 DEF States, Settled
<1>2. /\ b \in [Methods -> States]
      /\ \A x \in Methods : b[x] = "FAILED" <=> a[x] = "FAILED"
      /\ b["NTLM"] # "SSO_REQ"
  BY <1>1, ClearedStates
<1>3. auth' = b /\ reconnects' = Count(reconnects) /\ creds' = creds
  BY DEF Fail, Return, config
<1>4. \A x \in Methods : a[x] = "FAILED" <=> x = m \/ auth[x] = "FAILED"
  BY <1>0
<1>5. helper' = FALSE
  <2>1. helper' = (helper /\ a["NTLM"] # "SSO_REQ") /\ helper \in BOOLEAN
    BY DEF Fail, CleanUp, ProxyInv, AuthTypeOK
  <2>2. helper => auth["NTLM"] = "SSO_REQ"
    BY DEF ProxyInv, HelperInv
  <2>3. auth["NTLM"] = "SSO_REQ" => a["NTLM"] = "SSO_REQ"
    BY <1>0 DEF Methods
  <2> QED
    BY <2>1, <2>2, <2>3, Zenon
<1>6. refused' = refused \cup {m}
  BY DEF Fail
<1> HIDE DEF a, b
<1>7. Failed' = Failed \cup {m} /\ m \notin Failed
  BY <1>2, <1>3, <1>4 DEF Failed
<1>8. Cardinality(Failed') = Cardinality(Failed) + 1 /\ Cardinality(Failed) \in Nat
  <2>1. Failed \subseteq Methods
    BY DEF Failed
  <2>2. IsFiniteSet(Failed) /\ Cardinality(Failed) \in Nat
    BY <2>1, MethodsFinite
  <2> QED
    BY <1>7, <2>2, FS_AddElement
<1>9. AuthTypeOK'
  <2>1. reconnects' \in Nat
    BY <1>3 DEF ProxyInv, AuthTypeOK, Count
  <2>2. helper' \in BOOLEAN /\ creds' \in BOOLEAN
    BY <1>3, <1>5, Zenon DEF ProxyInv, AuthTypeOK
  <2> QED
    BY <1>2, <1>3, <2>1, <2>2 DEF AuthTypeOK
<1>10. HelperInv'
  BY <1>2, <1>3, <1>5 DEF HelperInv, NoHelperLeft
<1>11. FailedForGood'
  BY <1>0, <1>6, <1>7 DEF FailedForGood
<1>12. ReconnectsBounded'
  <2> SUFFICES ASSUME creds, Count(reconnects) < MaxCount
               PROVE  Count(reconnects) <= Cardinality(Failed')
    BY <1>3 DEF ReconnectsBounded
  <2>1. reconnects \in Nat /\ Count(reconnects) = reconnects + 1 /\ reconnects < MaxCount
    BY CountAssumption DEF ProxyInv, AuthTypeOK, Count
  <2>2. reconnects <= Cardinality(Failed)
    BY <2>1 DEF ProxyInv, ReconnectsBounded
  <2> QED
    BY <1>8, <2>1, <2>2
<1> QED
  BY <1>9, <1>10, <1>11, <1>12 DEF ProxyInv

\* A method sends its header: nothing fails, and a helper is open only in its state.
LEMMA MethodSends ==
    ASSUME ProxyInv, NEW m \in Methods, NEW s \in States, NEW t, Send(m, s, t),
           auth[m] # "FAILED", s # "FAILED", helper' \in BOOLEAN,
           m = "NTLM" => (helper' => s = "SSO_REQ") /\ (creds => s # "SSO_REQ"),
           m # "NTLM" => helper' = helper
    PROVE  ProxyInv'
<1> DEFINE a == [auth EXCEPT ![m] = s]
           b == Cleared(a, FALSE)
<1>0. auth \in [Methods -> States] /\ creds \in BOOLEAN
  BY DEF ProxyInv, AuthTypeOK
<1>1. a \in [Methods -> States]
  BY <1>0
<1>2. /\ b \in [Methods -> States]
      /\ \A x \in Methods : b[x] = "FAILED" <=> a[x] = "FAILED"
      /\ a["NTLM"] = "SSO_REQ" <=> b["NTLM"] = "SSO_REQ"
  BY <1>1, ClearedStates DEF Methods
<1>3. auth' = b /\ pc' = "request"
      /\ UNCHANGED <<creds, reconnects, refused>>
  BY DEF Send, config
<1>4. \A x \in Methods : a[x] = "FAILED" <=> auth[x] = "FAILED"
  BY <1>0
<1>5. a["NTLM"] = IF m = "NTLM" THEN s ELSE auth["NTLM"]
  BY <1>0 DEF Methods
<1> HIDE DEF a, b
<1>6. Failed' = Failed
  BY <1>2, <1>3, <1>4 DEF Failed
<1>7. AuthTypeOK'
  BY <1>0, <1>2, <1>3 DEF ProxyInv, AuthTypeOK
<1>8. HelperInv'
  <2>1. helper' => a["NTLM"] = "SSO_REQ"
    BY <1>5 DEF ProxyInv, HelperInv
  <2>2. creds => a["NTLM"] # "SSO_REQ"
    BY <1>5 DEF ProxyInv, HelperInv
  <2> QED
    BY <1>2, <1>3, <2>1, <2>2 DEF HelperInv, NoHelperLeft
<1>9. FailedForGood' /\ ReconnectsBounded'
  BY <1>3, <1>6 DEF ProxyInv, FailedForGood, ReconnectsBounded
<1> QED
  BY <1>7, <1>8, <1>9 DEF ProxyInv

LEMMA ProxyStep == ProxyInv /\ [Next]_vars => ProxyInv'
<1> SUFFICES ASSUME ProxyInv, [Next]_vars PROVE ProxyInv'
  OBVIOUS
<1>0. /\ auth \in [Methods -> States] /\ helper \in BOOLEAN /\ creds \in BOOLEAN
      /\ helper => auth["NTLM"] = "SSO_REQ"
      /\ creds => auth["NTLM"] # "SSO_REQ"
  BY DEF ProxyInv, AuthTypeOK, HelperInv
<1>1. CASE \/ Connect \/ ConnectFails \/ Request \/ DigestSpins \/ HelperHangs \/ SocksNoAuth
           \/ SocksPassword \/ SocksAuthenticated \/ Cancel \/ Again \/ Done
           \/ UNCHANGED vars
  <2>1. /\ UNCHANGED <<auth, helper, creds, reconnects, refused>>
        /\ pc' \in {"connect", "done"} => pc \in {"connect", "done"}
    BY <1>1 DEF Connect, ConnectFails, Request, DigestSpins, HelperHangs, SocksNoAuth,
       SocksPassword, SocksAuthenticated, Cancel, Again, Done, vars, config, dialogue, history
  <2> QED
    BY <2>1 DEF ProxyInv, AuthTypeOK, HelperInv, NoHelperLeft, FailedForGood,
       ReconnectsBounded, Failed
<1>2. CASE Broken \/ Reply \/ SocksConnected
  <2>1. PICK r \in {"0", "EIO", "EINVAL"} : Return(auth, r)
    BY <1>2 DEF Broken, Reply, SocksConnected
  <2>2. refused' = refused /\ CleanUp(auth)
    BY <1>2 DEF Broken, Reply, SocksConnected
  <2>3. helper' = FALSE
    BY <1>0, <2>2, Zenon DEF CleanUp
  <2> QED
    BY <1>0, <2>1, <2>2, <2>3, Returned
<1>3. CASE Reply407
  <2>1. /\ auth' \in [Methods -> States]
        /\ \A m \in Methods : auth'[m] = auth[m] \/ (auth[m] = "UNSEEN" /\ auth'[m] = "AVAILABLE")
    BY <1>0, <1>3 DEF Reply407, States, Settled
  <2>2. pc' = "auth" /\ UNCHANGED <<helper, creds, reconnects, refused>>
    BY <1>3 DEF Reply407, config, history
  <2>3. Failed' = Failed /\ (auth'["NTLM"] = "SSO_REQ" <=> auth["NTLM"] = "SSO_REQ")
    BY <2>1 DEF Failed, Methods
  <2> QED
    BY <2>1, <2>2, <2>3 DEF ProxyInv, AuthTypeOK, HelperInv, NoHelperLeft, FailedForGood,
       ReconnectsBounded
<1>4. CASE NtlmHelper
  BY <1>0, <1>4, MethodSends DEF NtlmHelper, Methods, States, Settled
<1>5. CASE NtlmHelperAnswers
  BY <1>0, <1>5, MethodSends DEF NtlmHelperAnswers, Methods, States, Settled
<1>6. CASE NtlmHelperFails
  <2> DEFINE a == [auth EXCEPT !["NTLM"] = "MANUAL"]
  <2>1. a \in [Methods -> States] /\ \A m \in Methods : auth[m] = "FAILED" => a[m] = "FAILED"
    BY <1>0, <1>6 DEF NtlmHelperFails, States, Settled
  <2>2. Return(a, "EAGAIN") /\ ~creds /\ refused' = refused /\ helper' = FALSE
    BY <1>0, <1>6 DEF NtlmHelperFails
  <2> HIDE DEF a
  <2> QED
    BY <2>1, <2>2, Returned
<1>7. CASE NtlmType1 \/ NtlmAnswers
  <2>1. auth["NTLM"] \in {"AVAILABLE", "MANUAL", "MANUAL_REQ"} /\ helper' = helper
    BY <1>7 DEF NtlmType1, NtlmAnswers
  <2>2. helper = FALSE
    BY <1>0, <2>1
  <2>3. \E t : Send("NTLM", "MANUAL_REQ", t)
    BY <1>7 DEF NtlmType1, NtlmAnswers
  <2> QED
    BY <2>1, <2>2, <2>3, MethodSends DEF Methods, States, Settled
<1>8. CASE NtlmFails
  BY <1>8, MethodFails DEF NtlmFails, Methods
<1>9. CASE Digest
  BY <1>0, <1>9, MethodFails, MethodSends DEF Digest, Methods, States, Settled
<1>10. CASE Basic
  BY <1>0, <1>10, MethodFails, MethodSends DEF Basic, Methods, States, Settled
<1>11. CASE NoMethod
  <2> DEFINE d == Seen("Basic") /\ creds
             a == [auth EXCEPT !["Basic"] = IF d THEN "FAILED" ELSE @]
  <2>1. /\ Return(a, "ENOENT") /\ CleanUp(auth)
        /\ refused' = IF d THEN refused \cup {"Basic"} ELSE refused
    BY <1>11 DEF NoMethod
  <2>2. /\ a \in [Methods -> States]
        /\ \A m \in Methods : auth[m] = "FAILED" => a[m] = "FAILED"
        /\ d => a["Basic"] = "FAILED"
    BY <1>0 DEF States, Settled, Methods
  <2>3. helper' = FALSE
    BY <1>0, <2>1, Zenon DEF CleanUp
  <2>4. refused' \subseteq refused \cup {m \in Methods : a[m] = "FAILED"}
    BY <2>1, <2>2 DEF Methods
  <2> HIDE DEF a, d
  <2> QED
    BY <2>1, <2>2, <2>3, <2>4, Returned
<1> QED
  BY <1>1, <1>2, <1>3, <1>4, <1>5, <1>6, <1>7, <1>8, <1>9, <1>10, <1>11 DEF Next, Step

LEMMA ProxyInit == Init => ProxyInv
<1> SUFFICES ASSUME Init PROVE ProxyInv
  OBVIOUS
<1>1. AuthTypeOK /\ HelperInv /\ FailedForGood
  BY DEF Init, AuthTypeOK, HelperInv, NoHelperLeft, FailedForGood, Failed, Methods, States,
     Settled
<1>2. ReconnectsBounded
  <2>1. Cardinality(Failed) \in Nat
    BY MethodsFinite DEF Failed
  <2> QED
    BY <2>1 DEF Init, ReconnectsBounded
<1> QED
  BY <1>1, <1>2 DEF ProxyInv

\* For ever, over every connection: no method that failed is used again.
THEOREM FailedForGoodAlways == Spec => []FailedForGood
<1>1. ProxyInv => FailedForGood
  BY DEF ProxyInv
<1> QED
  BY <1>1, ProxyInit, ProxyStep, PTL DEF Spec

\* Whichever way a dialogue ends, the helper's pipe is closed.
THEOREM NoHelperLeftAlways == Spec => []NoHelperLeft
<1>1. ProxyInv => NoHelperLeft
  BY DEF ProxyInv, HelperInv
<1> QED
  BY <1>1, ProxyInit, ProxyStep, PTL DEF Spec

\* With a password there are at most as many reconnects as methods that failed; the
\* statement is about histories of any length, as MaxCount is arbitrary.
THEOREM ReconnectsBoundedAlways == Spec => []ReconnectsBounded
<1>1. ProxyInv => ReconnectsBounded
  BY DEF ProxyInv
<1> QED
  BY <1>1, ProxyInit, ProxyStep, PTL DEF Spec
-----------------------------------------------------------------------------
\* The type invariant, in parts.  Digest and Basic know nothing of helpers and of
\* NTLM's messages, and NTLM is never in the state of the one-step methods.
Places ==
    /\ pc \in {"connect", "request", "reply", "auth", "spin", "socks", "socks_auth",
               "socks_connect", "done"}
    /\ result \in {"none", "0", "EIO", "EINVAL", "ENOENT"}

Flags ==
    /\ socks \in BOOLEAN /\ creds \in BOOLEAN /\ methods_set \in BOOLEAN
    /\ helper \in BOOLEAN /\ cancel \in BOOLEAN

OneStep == Settled \cup {"UNSEEN", "AVAILABLE", "IN_PROGRESS"}

\* The states each method may be in.
Own(a) ==
    /\ a \in [Methods -> States]
    /\ a["Digest"] \in OneStep /\ a["Basic"] \in OneStep /\ a["NTLM"] # "IN_PROGRESS"

Dialogue == Own(auth) /\ chal \in [Methods -> Challenges]

Histories ==
    /\ reconnects \in 0..MaxCount /\ tries \in [Attempts -> 0..MaxCount]
    /\ refused \subseteq Methods

LEMMA ClearedOwn ==
    ASSUME NEW a, Own(a), NEW r \in BOOLEAN
    PROVE  Own(Cleared(a, r))
<1>1. Cleared(a, r) \in [Methods -> States]
  BY ClearedStates DEF Own
<1>2. \A m \in Methods : Cleared(a, r)[m] \in {a[m], "UNSEEN"}
  BY DEF Cleared, clear_auth_state
<1> QED
  BY <1>1, <1>2 DEF Own, OneStep, Methods

\* A method's next state is one of its own.
LEMMA ChangedOwn ==
    ASSUME NEW a, Own(a), NEW m \in Methods, NEW s \in States,
           m = "NTLM" => s # "IN_PROGRESS", m # "NTLM" => s \in OneStep
    PROVE  Own([a EXCEPT ![m] = s])
  BY DEF Own, Methods

\* The histories stop at MaxCount.
LEMMA CountType ==
    ASSUME NEW n \in 0..MaxCount
    PROVE  Count(n) \in 0..MaxCount
  BY CountAssumption DEF Count

LEMMA PlacesStep == Places /\ [Next]_vars => Places'
<1> SUFFICES ASSUME Places, [Next]_vars PROVE Places'
  OBVIOUS
<1>1. ASSUME NEW a, NEW r \in {"0", "EIO", "EINVAL", "ENOENT", "EAGAIN"}, Return(a, r)
      PROVE  Places'
  BY <1>1 DEF Return, Places
<1>2. ASSUME NEW m, NEW s, NEW t, Send(m, s, t) PROVE Places'
  BY <1>2 DEF Send, Places
<1>3. ASSUME NEW m, Fail(m) PROVE Places'
  BY <1>1, <1>3 DEF Fail
<1>4. CASE \/ Connect \/ ConnectFails \/ Request \/ DigestSpins \/ HelperHangs \/ SocksNoAuth
           \/ SocksPassword \/ SocksAuthenticated \/ Cancel \/ Again \/ Done
           \/ UNCHANGED vars \/ Reply407
  BY <1>4 DEF Connect, ConnectFails, Request, DigestSpins, HelperHangs, SocksNoAuth, SocksPassword,
     SocksAuthenticated, Cancel, Again, Done, Reply407, vars, Places
<1>5. CASE Broken \/ Reply \/ SocksConnected \/ NtlmHelperFails \/ NoMethod
  BY <1>1, <1>5 DEF Broken, Reply, SocksConnected, NtlmHelperFails, NoMethod
<1>6. CASE NtlmHelper \/ NtlmHelperAnswers \/ NtlmType1 \/ NtlmAnswers
  BY <1>2, <1>6 DEF NtlmHelper, NtlmHelperAnswers, NtlmType1, NtlmAnswers
<1>7. CASE NtlmFails \/ Digest \/ Basic
  BY <1>2, <1>3, <1>7 DEF NtlmFails, Digest, Basic
<1> QED
  BY <1>4, <1>5, <1>6, <1>7 DEF Next, Step

LEMMA FlagsStep == Flags /\ [Next]_vars => Flags'
<1> SUFFICES ASSUME Flags, [Next]_vars PROVE Flags'
  OBVIOUS
<1>1. UNCHANGED config /\ cancel' \in {cancel, TRUE}
  BY Zenon DEF Next, Step, Connect, ConnectFails, Request, Broken, Reply, Reply407,
     NtlmHelper, NtlmHelperAnswers, NtlmHelperFails, NtlmType1, NtlmAnswers, NtlmFails,
     Digest, DigestSpins, HelperHangs, Basic, NoMethod, SocksNoAuth, SocksPassword,
     SocksAuthenticated, SocksConnected, Cancel, Again, Done, vars, Return, Send, Fail
<1>2. helper' \in {helper, TRUE, FALSE}
  <2>1. ASSUME NEW a, CleanUp(a) PROVE helper' \in {helper, TRUE, FALSE}
    BY <2>1, Zenon DEF CleanUp
  <2> QED
    BY <2>1, Zenon DEF Next, Step, Connect, ConnectFails, Request, Broken, Reply, Reply407,
       NtlmHelper, NtlmHelperAnswers, NtlmHelperFails, NtlmType1, NtlmAnswers, NtlmFails,
       Digest, DigestSpins, HelperHangs, Basic, NoMethod, SocksNoAuth, SocksPassword,
       SocksAuthenticated, SocksConnected, Cancel, Again, Done, vars, dialogue, Fail
<1> QED
  BY <1>1, <1>2, Zenon DEF Flags, config

LEMMA DialogueStep == Dialogue /\ [Next]_vars => Dialogue'
<1> SUFFICES ASSUME Dialogue, [Next]_vars PROVE Dialogue'
  OBVIOUS
<1>0. Own(auth) /\ chal \in [Methods -> Challenges]
  BY DEF Dialogue
<1>a. [m \in Methods |-> "none"] \in [Methods -> Challenges]
  BY DEF Challenges
<1>1. ASSUME NEW a, Own(a), NEW r, Return(a, r) PROVE Dialogue'
  <2>1. auth' = Cleared(a, TRUE) /\ chal' = [m \in Methods |-> "none"]
    BY <1>1 DEF Return
  <2>2. Own(Cleared(a, TRUE))
    BY <1>1, ClearedOwn
  <2> QED
    BY <2>1, <2>2, <1>a DEF Dialogue, Own
<1>2. ASSUME NEW m \in Methods, NEW s \in States, NEW t, Send(m, s, t),
             m = "NTLM" => s # "IN_PROGRESS", m # "NTLM" => s \in OneStep
      PROVE  Dialogue'
  <2>1. auth' = Cleared([auth EXCEPT ![m] = s], FALSE) /\ chal' = [x \in Methods |-> "none"]
    BY <1>2 DEF Send
  <2>2. Own(Cleared([auth EXCEPT ![m] = s], FALSE))
    BY <1>0, <1>2, ChangedOwn, ClearedOwn
  <2> QED
    BY <2>1, <2>2, <1>a DEF Dialogue, Own
<1>3. ASSUME NEW m \in Methods, Fail(m) PROVE Dialogue'
  <2>1. Own([auth EXCEPT ![m] = "FAILED"])
    BY <1>0, ChangedOwn DEF States, Settled, OneStep
  <2> QED
    BY <1>1, <1>3, <2>1 DEF Fail
<1>4. CASE \/ Connect \/ ConnectFails \/ Request \/ DigestSpins \/ HelperHangs \/ SocksNoAuth
           \/ SocksPassword \/ SocksAuthenticated \/ Cancel \/ Again \/ Done
           \/ UNCHANGED vars
  <2>1. UNCHANGED <<auth, chal>>
    BY <1>4 DEF Connect, ConnectFails, Request, DigestSpins, HelperHangs, SocksNoAuth,
       SocksPassword, SocksAuthenticated, Cancel, Again, Done, vars, dialogue
  <2> QED
    BY <2>1 DEF Dialogue, Own
<1>5. CASE Broken \/ Reply \/ SocksConnected
  BY <1>0, <1>1, <1>5 DEF Broken, Reply, SocksConnected
<1>6. CASE Reply407
  <2>1. /\ auth' \in [Methods -> States]
        /\ \A m \in Methods : auth'[m] \in {auth[m], "AVAILABLE"}
    BY <1>0, <1>6 DEF Reply407, Own, States, Settled
  <2>2. chal' \in [Methods -> Challenges]
    BY <1>0, <1>6 DEF Reply407, Challenges
  <2> QED
    BY <1>0, <2>1, <2>2 DEF Dialogue, Own, OneStep, Methods
<1>7. CASE NtlmHelper \/ NtlmHelperAnswers \/ NtlmType1 \/ NtlmAnswers
  <2>1. \E s \in {"SSO_REQ", "MANUAL", "MANUAL_REQ"} : \E t : Send("NTLM", s, t)
    BY <1>7 DEF NtlmHelper, NtlmHelperAnswers, NtlmType1, NtlmAnswers
  <2> QED
    BY <1>2, <2>1 DEF Methods, States
<1>8. CASE NtlmHelperFails
  <2>1. Own([auth EXCEPT !["NTLM"] = "MANUAL"])
    BY <1>0, ChangedOwn DEF Methods, States
  <2> QED
    BY <1>1, <1>8, <2>1 DEF NtlmHelperFails
<1>9. CASE NtlmFails
  BY <1>3, <1>9 DEF NtlmFails, Methods
<1>10. CASE Digest \/ Basic
  <2>1. \E m \in {"Digest", "Basic"} : Fail(m) \/ \E t : Send(m, "IN_PROGRESS", t)
    BY <1>10 DEF Digest, Basic
  <2> QED
    BY <1>2, <1>3, <2>1 DEF Methods, States, OneStep
<1>11. CASE NoMethod
  <2>1. \E s \in {auth["Basic"], "FAILED"} :
            Return([auth EXCEPT !["Basic"] = s], "ENOENT")
    BY <1>11, Zenon DEF NoMethod
  <2>2. \A s \in {auth["Basic"], "FAILED"} : s \in States /\ s \in OneStep
    BY <1>0 DEF Own, States, Settled, OneStep, Methods
  <2>3. \A s \in {auth["Basic"], "FAILED"} : Own([auth EXCEPT !["Basic"] = s])
    BY <1>0, <2>2, ChangedOwn DEF Methods
  <2> QED
    BY <1>1, <2>1, <2>3
<1> QED
  BY <1>4, <1>5, <1>6, <1>7, <1>8, <1>9, <1>10, <1>11 DEF Next, Step

LEMMA HistoriesStep == Histories /\ [Next]_vars => Histories'
<1> SUFFICES ASSUME Histories, [Next]_vars PROVE Histories'
  OBVIOUS
<1>0. /\ reconnects \in 0..MaxCount /\ tries \in [Attempts -> 0..MaxCount]
      /\ refused \subseteq Methods
  BY DEF Histories
<1>1. ASSUME NEW a, NEW r, Return(a, r), UNCHANGED tries, refused' \subseteq Methods
      PROVE  Histories'
  <2>1. reconnects' \in {reconnects, Count(reconnects)}
    BY <1>1 DEF Return
  <2> QED
    BY <1>0, <1>1, <2>1, CountType DEF Histories
<1>2. ASSUME NEW m, NEW s, NEW t, Send(m, s, t) PROVE Histories'
  <2>1. /\ tries' = [x \in Attempts |-> IF x \in t THEN Count(tries[x]) ELSE tries[x]]
        /\ UNCHANGED <<reconnects, refused>>
    BY <1>2 DEF Send
  <2>2. \A x \in Attempts : Count(tries[x]) \in 0..MaxCount /\ tries[x] \in 0..MaxCount
    BY <1>0, CountType
  <2> QED
    BY <1>0, <2>1, <2>2 DEF Histories
<1>3. ASSUME NEW m \in Methods, Fail(m) PROVE Histories'
  BY <1>0, <1>1, <1>3 DEF Fail
<1>4. CASE \/ Connect \/ ConnectFails \/ Request \/ DigestSpins \/ HelperHangs \/ SocksNoAuth
           \/ SocksPassword \/ SocksAuthenticated \/ Cancel \/ Done
           \/ UNCHANGED vars \/ Reply407
  <2>1. UNCHANGED <<reconnects, tries, refused>>
    BY <1>4 DEF Connect, ConnectFails, Request, DigestSpins, HelperHangs, SocksNoAuth,
       SocksPassword, SocksAuthenticated, Cancel, Done, Reply407, vars, history
  <2> QED
    BY <2>1 DEF Histories
<1>5. CASE Again
  BY <1>0, <1>5, CountAssumption DEF Again, Histories
<1>6. CASE Broken \/ Reply \/ SocksConnected \/ NtlmHelperFails
  BY <1>0, <1>1, <1>6 DEF Broken, Reply, SocksConnected, NtlmHelperFails
<1>7. CASE NoMethod
  <2>1. refused' \subseteq Methods
    BY <1>0, <1>7 DEF NoMethod, Methods
  <2> QED
    BY <1>1, <1>7, <2>1 DEF NoMethod
<1>8. CASE NtlmHelper \/ NtlmHelperAnswers \/ NtlmType1 \/ NtlmAnswers
  BY <1>2, <1>8 DEF NtlmHelper, NtlmHelperAnswers, NtlmType1, NtlmAnswers
<1>9. CASE NtlmFails \/ Digest \/ Basic
  BY <1>2, <1>3, <1>9 DEF NtlmFails, Digest, Basic, Methods
<1> QED
  BY <1>4, <1>5, <1>6, <1>7, <1>8, <1>9 DEF Next, Step

\* Every variable of the dialogue has its type.  All methods keep their states in one
\* array, in which ntlm.c (41-43) uses numbers of its own from that of AUTH_IN_PROGRESS
\* upwards: Digest and Basic are never in a state of NTLM's, nor NTLM in theirs.
THEOREM TypeCorrect == Spec => []TypeOK
<1> DEFINE Parts == Places /\ Flags /\ Dialogue /\ Histories
<1>1. Init => Parts
  <2> SUFFICES ASSUME Init PROVE Parts
    OBVIOUS
  <2>1. Places /\ Dialogue
    BY DEF Init, Places, Dialogue, Own, OneStep, Methods, States, Settled, Challenges
  <2>2. Flags
    BY Zenon DEF Init, Flags
  <2>3. Histories
    BY CountAssumption DEF Init, Histories
  <2> QED
    BY <2>1, <2>2, <2>3
<1>2. Parts /\ [Next]_vars => Parts'
  BY PlacesStep, FlagsStep, DialogueStep, HistoriesStep
<1>3. Parts => TypeOK
  BY Zenon DEF Places, Flags, Dialogue, Own, OneStep, Histories, TypeOK
<1> HIDE DEF Parts
<1> QED
  BY <1>1, <1>2, <1>3, PTL DEF Spec
=============================================================================
