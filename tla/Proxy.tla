-------------------------------- MODULE Proxy --------------------------------
(***************************************************************************)
(* The way through a proxy: connect_https_socket, which connects to it and *)
(* reconnects when an authentication failed, process_proxy, the CONNECT    *)
(* dialogue with its methods NTLM, Digest and Basic, and SOCKS.  GSSAPI is *)
(* not built.                                                              *)
(*                                                                         *)
(* What a proxy offers and answers is nondeterministic: it may send an     *)
(* NTLM challenge with every 407.                                          *)
(***************************************************************************)
EXTENDS Naturals, FiniteSets

CONSTANT MaxCount   \* where the histories stop counting

ASSUME CountAssumption == MaxCount \in Nat \ {0}

VARIABLES
    pc,           \* where connect_https_socket is
    socks,        \* vpninfo->proxy_type is a SOCKS proxy
    creds,        \* user name and password for the proxy are known
    methods_set,  \* vpninfo->authmethods_set
    auth,         \* vpninfo->auth[m].state
    chal,         \* vpninfo->auth[m].challenge
    helper,       \* vpninfo->ntlm_helper_fd is open
    cancel,       \* another thread wrote a cancel
    result,       \* what connect_https_socket returned, "none" before that
    reconnects,   \* history: how often it went back to the proxy, in all calls
    tries,        \* history: how often each method was tried, in this call
    refused       \* history: the methods that failed, in all calls

config == <<socks, creds, methods_set>>
dialogue == <<auth, chal, helper>>
history == <<reconnects, tries, refused>>
vars == <<pc, config, dialogue, cancel, result, history>>

Methods == {"NTLM", "Digest", "Basic"}
Attempts == Methods \cup {"SSO"}

\* The states of a method.  The last three are NTLM's own: a helper was asked, or
\* is not to be asked (again), or a type 1 message was sent.
Settled == {"DISABLED", "FAILED"}
States == Settled \cup {"UNSEEN", "AVAILABLE", "IN_PROGRESS", "SSO_REQ", "MANUAL", "MANUAL_REQ"}

\* A challenge: none, one that can be answered, one that cannot, and one with a
\* quoted parameter digest.c does not know.
Challenges == {"none", "good", "bad", "quoted"}

TypeOK ==
    /\ pc \in {"connect", "request", "reply", "auth", "spin", "socks", "socks_auth",
               "socks_connect", "done"}
    /\ socks \in BOOLEAN /\ creds \in BOOLEAN /\ methods_set \in BOOLEAN
    /\ auth \in [Methods -> States] /\ chal \in [Methods -> Challenges]
    /\ auth["Digest"] \in Settled \cup {"UNSEEN", "AVAILABLE", "IN_PROGRESS"}
    /\ auth["Basic"] \in Settled \cup {"UNSEEN", "AVAILABLE", "IN_PROGRESS"}
    /\ auth["NTLM"] # "IN_PROGRESS"
    /\ helper \in BOOLEAN /\ cancel \in BOOLEAN
    /\ result \in {"none", "0", "EIO", "EINVAL", "ENOENT"}
    /\ reconnects \in 0..MaxCount /\ tries \in [Attempts -> 0..MaxCount]
    /\ refused \subseteq Methods

\* Without openconnect_set_proxy_auth every method is unseen; it disables the
\* ones it does not name.
Init ==
    /\ pc = "connect" /\ socks \in BOOLEAN /\ creds \in BOOLEAN
    /\ methods_set \in BOOLEAN
    /\ auth \in [Methods -> {"DISABLED", "UNSEEN"}]
    /\ methods_set \/ auth = [m \in Methods |-> "UNSEEN"]
    /\ chal = [m \in Methods |-> "none"]
    /\ helper = FALSE /\ cancel = FALSE /\ result = "none"
    /\ reconnects = 0 /\ tries = [t \in Attempts |-> 0] /\ refused = {}

-----------------------------------------------------------------------------
Count(n) == IF n < MaxCount THEN n + 1 ELSE n

Cancel ==
    /\ ~cancel /\ cancel' = TRUE
    /\ UNCHANGED <<pc, config, dialogue, result, history>>

\* Mutant: the command pipe is not watched.
UncancelledAlways == TRUE

\* cancellable_connect, proxy_gets, proxy_read and the SOCKS dialogue watch the
\* command pipe: after a cancel they give up and nothing more is heard.
Uncancelled == ~cancel

\* The proxy can be reached, or connect_https_socket returns.
Connect ==
    /\ pc = "connect" /\ Uncancelled
    /\ pc' = IF socks THEN "socks" ELSE "request"
    /\ UNCHANGED <<config, dialogue, cancel, result, history>>

ConnectFails ==
    /\ pc = "connect"
    /\ pc' = "done" /\ result' = "EINVAL"
    /\ UNCHANGED <<config, dialogue, cancel, history>>

\* Mutant: a method that failed is forgotten as well.
clear_auth_state_all(s, reset) ==
    IF reset \/ s = "AVAILABLE" THEN "UNSEEN" ELSE s

\* The state of a method afterwards: what failed, or is disabled, stays.
clear_auth_state(s, reset) ==
    IF s \notin Settled /\ (reset \/ s = "AVAILABLE") THEN "UNSEEN" ELSE s

\* clear_auth_state for every method, when the states are a.
Cleared(a, reset) == [m \in Methods |-> clear_auth_state(a[m], reset)]

\* Mutant: the helper is left alone.
CleanUpNot(a) == helper' = helper

\* cleanup_ntlm_auth closes the pipe to a helper that was asked and not used.
CleanUp(a) == helper' = (helper /\ a["NTLM"] # "SSO_REQ")

\* process_proxy returns r, with the states a: everything but what failed is
\* forgotten, and -EAGAIN makes connect_https_socket reconnect.
Return(a, r) ==
    /\ auth' = Cleared(a, TRUE) /\ chal' = [m \in Methods |-> "none"]
    /\ IF r = "EAGAIN"
       THEN pc' = "connect" /\ reconnects' = Count(reconnects) /\ UNCHANGED result
       ELSE pc' = "done" /\ result' = r /\ UNCHANGED reconnects
    /\ UNCHANGED <<config, cancel>>

\* The request goes out, and its answer is waited for; both watch for a cancel.
Request ==
    /\ pc = "request"
    /\ pc' = "reply"
    /\ UNCHANGED <<config, dialogue, cancel, result, history>>

Broken ==
    /\ pc \in {"request", "reply", "socks", "socks_auth", "socks_connect"}
    /\ \E r \in {"EIO", "EINVAL"} : Return(auth, r)
    /\ CleanUp(auth) /\ UNCHANGED <<tries, refused>>

\* 200, or a status that is neither 200 nor 407.
Reply ==
    /\ pc = "reply" /\ Uncancelled
    /\ \E r \in {"0", "EIO"} : Return(auth, r)
    /\ CleanUp(auth) /\ UNCHANGED <<tries, refused>>

\* 407 with a set of offers; handle_auth_proto ignores those for a method that is
\* disabled or failed.
Reply407 ==
    /\ pc = "reply" /\ Uncancelled
    /\ \E offer \in SUBSET Methods, c \in Challenges, d \in {"none", "good"} :
        LET heard == {m \in offer : auth[m] \notin Settled}
        IN  /\ auth' = [m \in Methods |->
                          IF m \in heard /\ auth[m] = "UNSEEN" THEN "AVAILABLE" ELSE auth[m]]
            /\ chal' = [m \in Methods |->
                          CASE m \notin heard -> chal[m]
                            [] m = "NTLM" -> d
                            [] m = "Digest" -> c
                            [] OTHER -> "none"]
    /\ pc' = "auth"
    /\ UNCHANGED <<config, helper, cancel, result, history>>

-----------------------------------------------------------------------------
\* proxy_authorization asks the methods that were offered in this order: the
\* first one that has a header to send, or fails with -EAGAIN, decides.
Seen(m) == auth[m] \notin Settled \cup {"UNSEEN"}

\* Method m has put its header together and is in state s; t is what is tried.
Send(m, s, t) ==
    /\ auth' = Cleared([auth EXCEPT ![m] = s], FALSE)
    /\ chal' = [x \in Methods |-> "none"]
    /\ tries' = [x \in Attempts |-> IF x \in t THEN Count(tries[x]) ELSE tries[x]]
    /\ pc' = "request"
    /\ UNCHANGED <<config, cancel, result, reconnects, refused>>

\* Mutant: the method stays as it is.
FailSilently(m) == Return(auth, "EAGAIN") /\ CleanUp(auth) /\ UNCHANGED <<tries, refused>>

\* Method m failed: start again without it.
Fail(m) ==
    LET a == [auth EXCEPT ![m] = "FAILED"]
    IN  Return(a, "EAGAIN") /\ CleanUp(a) /\ refused' = refused \cup {m} /\ UNCHANGED tries

\* ntlm_authorization, single sign-on: without a password a helper is asked for
\* the type 1 message, and then for the answer to the challenge.
NtlmHelper ==
    /\ pc = "auth" /\ auth["NTLM"] = "AVAILABLE" /\ ~creds
    /\ helper' = TRUE
    /\ Send("NTLM", "SSO_REQ", {"SSO"})

NtlmHelperAnswers ==
    /\ pc = "auth" /\ auth["NTLM"] = "SSO_REQ" /\ chal["NTLM"] = "good"
    /\ helper' = FALSE
    /\ Send("NTLM", "MANUAL", {})

\* Both read the helper's line without a timeout, and without watching the command
\* pipe: a helper that says nothing keeps the thread there.
HelperHangs ==
    /\ pc = "auth"
    /\ \/ auth["NTLM"] = "AVAILABLE" /\ ~creds
       \/ auth["NTLM"] = "SSO_REQ" /\ chal["NTLM"] = "good"
    /\ pc' = "spin"
    /\ UNCHANGED <<config, dialogue, cancel, result, history>>

NtlmHelperFails ==
    /\ pc = "auth" /\ auth["NTLM"] = "SSO_REQ"
    /\ helper' = FALSE
    /\ Return([auth EXCEPT !["NTLM"] = "MANUAL"], "EAGAIN")
    /\ UNCHANGED <<tries, refused>>

\* With a password: the type 1 message.
NtlmType1 ==
    /\ pc = "auth" /\ auth["NTLM"] \in {"AVAILABLE", "MANUAL"} /\ creds
    /\ Send("NTLM", "MANUAL_REQ", {})
    /\ UNCHANGED helper

\* Mutant: NTLM takes the state of the one-step methods.
NtlmAnswersInProgress ==
    /\ pc = "auth" /\ auth["NTLM"] = "MANUAL_REQ" /\ chal["NTLM"] = "good"
    /\ Send("NTLM", "IN_PROGRESS", {"NTLM"})
    /\ UNCHANGED helper

\* The answer to the challenge; the state stays, so that another challenge is
\* answered as well, and nothing counts them.
NtlmAnswers ==
    /\ pc = "auth" /\ auth["NTLM"] = "MANUAL_REQ" /\ chal["NTLM"] = "good"
    /\ Send("NTLM", "MANUAL_REQ", {"NTLM"})
    /\ UNCHANGED helper

\* No helper and no password, or a challenge that is missing or no use.
NtlmFails ==
    /\ pc = "auth"
    /\ \/ auth["NTLM"] \in {"AVAILABLE", "MANUAL"} /\ ~creds
       \/ auth["NTLM"] = "MANUAL_REQ"
    /\ Fail("NTLM")

\* digest_authorization: a second request means that the first answer failed.
Digest ==
    /\ pc = "auth" /\ ~Seen("NTLM") /\ Seen("Digest") /\ creds
    /\ \/ auth["Digest"] = "IN_PROGRESS" /\ Fail("Digest")
       \/ /\ auth["Digest"] = "AVAILABLE" /\ chal["Digest"] = "good"
          /\ Send("Digest", "IN_PROGRESS", {"Digest"})
          /\ UNCHANGED helper

\* The loop that skips an unknown quoted string never moves on.
DigestSpins ==
    /\ pc = "auth" /\ ~Seen("NTLM") /\ auth["Digest"] = "AVAILABLE" /\ creds
    /\ chal["Digest"] = "quoted"
    /\ pc' = "spin"
    /\ UNCHANGED <<config, dialogue, cancel, result, history>>

\* digest_authorization has nothing to say.
DigestPasses == ~Seen("Digest") \/ ~creds \/
                (auth["Digest"] = "AVAILABLE" /\ chal["Digest"] \in {"none", "bad"})

\* basic_authorization, which must have been enabled.
Basic ==
    /\ pc = "auth" /\ ~Seen("NTLM") /\ DigestPasses /\ Seen("Basic") /\ creds /\ methods_set
    /\ \/ auth["Basic"] = "IN_PROGRESS" /\ Fail("Basic")
       \/ /\ auth["Basic"] = "AVAILABLE"
          /\ Send("Basic", "IN_PROGRESS", {"Basic"})
          /\ UNCHANGED helper

\* No more authentication methods to try.
NoMethod ==
    /\ pc = "auth" /\ ~Seen("NTLM") /\ DigestPasses
    /\ ~Seen("Basic") \/ ~creds \/ ~methods_set
    /\ LET disabled == Seen("Basic") /\ creds
       IN  /\ Return([auth EXCEPT !["Basic"] = IF disabled THEN "FAILED" ELSE @], "ENOENT")
           /\ refused' = IF disabled THEN refused \cup {"Basic"} ELSE refused
    /\ CleanUp(auth) /\ UNCHANGED tries

-----------------------------------------------------------------------------
\* SOCKS: the proxy chooses no authentication or a password, which must be known;
\* then it grants the connection.
SocksNoAuth ==
    /\ pc = "socks" /\ Uncancelled
    /\ pc' = "socks_connect"
    /\ UNCHANGED <<config, dialogue, cancel, result, history>>

SocksPassword ==
    /\ pc = "socks" /\ Uncancelled
    /\ pc' = "socks_auth"
    /\ UNCHANGED <<config, dialogue, cancel, result, history>>

SocksAuthenticated ==
    /\ pc = "socks_auth" /\ creds /\ Uncancelled
    /\ pc' = "socks_connect"
    /\ UNCHANGED <<config, dialogue, cancel, result, history>>

SocksConnected ==
    /\ pc = "socks_connect" /\ Uncancelled
    /\ Return(auth, "0")
    /\ CleanUp(auth) /\ UNCHANGED <<tries, refused>>

-----------------------------------------------------------------------------
\* A later connection goes through the same proxy.
Again ==
    /\ pc = "done" /\ ~cancel
    /\ pc' = "connect" /\ result' = "none"
    /\ tries' = [t \in Attempts |-> 0]
    /\ UNCHANGED <<config, dialogue, cancel, reconnects, refused>>

Done == pc \in {"done", "spin"} /\ UNCHANGED vars

Step ==
    \/ Connect \/ ConnectFails \/ Request \/ Broken \/ Reply \/ Reply407
    \/ NtlmHelper \/ NtlmHelperAnswers \/ NtlmHelperFails \/ HelperHangs
    \/ NtlmType1 \/ NtlmAnswers \/ NtlmFails
    \/ Digest \/ DigestSpins \/ Basic \/ NoMethod
    \/ SocksNoAuth \/ SocksPassword \/ SocksAuthenticated \/ SocksConnected

Next == Step \/ Cancel \/ Again \/ Done

Spec == Init /\ [][Next]_vars

\* The thread runs, and a proxy answers or its connection breaks.
FairSpec == Spec /\ WF_vars(Step)
-----------------------------------------------------------------------------
Failed == {m \in Methods : auth[m] = "FAILED"}

\* With a password every return to the proxy is paid for by a method that failed
\* for good: over all connections of a session there are at most as many as
\* methods (ssl.c 299-304 would go on as long as process_proxy says -EAGAIN).
ReconnectsBounded == creds /\ reconnects < MaxCount => reconnects <= Cardinality(Failed)

\* A method that failed once is never offered for use again, "even next time"
\* (http.c 1880), although every dialogue ends with a reset of all of them.
FailedForGood == refused \subseteq Failed

\* No helper process outlives the dialogue it was asked for: whichever way it
\* ends, its pipe is closed.
NoHelperLeft == pc \in {"connect", "done"} => ~helper

\* With a password connect_https_socket comes back, whatever the proxy offers,
\* refuses and offers again, with two exceptions: a proxy that answers every NTLM
\* answer with a new challenge is answered for ever (ntlm.c 1091-1096, http.c 1947),
\* and so is answered twice at least; and digest.c 150 never gets past a quoted
\* parameter it does not know ("spin").
ProxyEnds ==
    (creds /\ pc = "connect") ~> (pc = "done" \/ tries["NTLM"] > 1 \/ pc = "spin")

\* A cancel ends the dialogue wherever it is written while the client connects,
\* writes or reads, reconnects without an end and NTLM challenges without an end
\* included.  Not so while proxy_authorization works: the loop of digest.c 150 and
\* the reads of the helper (ntlm.c 205 and 232) do not watch the command pipe, and
\* openconnect.h 346-354 do not hold there.
CancelEnds == (cancel /\ pc \notin {"auth", "spin"}) ~> pc = "done"

\* No method is tried twice for one connection (http.c 1873-1874: "we need to
\* remember which auth methods have been tried and should not be attempted
\* again"); how often an NTLM challenge is answered is left to ProxyEnds.
TriedOnce == \A t \in Attempts \ {"NTLM"} : tries[t] <= 1
=============================================================================
