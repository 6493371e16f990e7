----------------------------- MODULE LoginProofs -----------------------------
(***************************************************************************)
(* For any set of hosts and every gateway: requests go to the host they    *)
(* are for, the probe makes at most six of them, its fallback goes back to *)
(* where it began, a certificate is offered on a new connection, and no    *)
(* request follows one that failed half way on the same connection.        *)
(***************************************************************************)
EXTENDS Login, TLAPS

-----------------------------------------------------------------------------
\* The connection, if there is one, is to the current host - also between requests,
\* when forms, redirects and the fallback change the name.
HostInv == conn \in {"none", host}

\* A redirect (http.c 773-851) gives up a connection to another host.
LEMMA FollowKeepsHost ==
    ASSUME HostInv, NEW c \in {conn, "none"}, NEW url, Follow(handle_redirect(url, c))
    PROVE  HostInv'
  BY DEF HostInv, Follow, handle_redirect, Keep

LEMMA KeepKeepsHost ==
    ASSUME HostInv, NEW c \in {conn, "none"}, Keep(c), host' = host
    PROVE  HostInv'
  BY DEF HostInv, Keep

LEMMA HostHttpStep == HostInv /\ HttpStep => HostInv'
<1> SUFFICES ASSUME HostInv, HttpStep PROVE HostInv'
  OBVIOUS
<1>1. CASE \/ Reuse \/ Open \/ OpenFails \/ Write \/ WriteFails \/ FirstByte
           \/ ReadCancelled \/ BadAnswer \/ UnfinishedAnswer \/ TruncatedAnswer
  BY <1>1 DEF Reuse, Open, OpenFails, Write, WriteFails, FirstByte, ReadCancelled,
     BadAnswer, UnfinishedAnswer, TruncatedAnswer, HostInv, link, target, Close
<1>2. CASE Answered \/ Refused
  BY <1>2 DEF Answered, Refused, Reusable, KeepAnswered, HostInv
<1>3. CASE Redirected
  BY <1>3 DEF Redirected, Reusable, handle_redirect, KeepAnswered, HostInv
<1> QED
  BY <1>1, <1>2, <1>3 DEF HttpStep

LEMMA HostStep == HostInv /\ [Next]_vars => HostInv'
<1> SUFFICES ASSUME HostInv, [Next]_vars PROVE HostInv'
  OBVIOUS
<1>1. CASE HttpStep
  BY <1>1, HostHttpStep
<1>2. CASE UNCHANGED <<conn, host>>
  BY <1>2 DEF HostInv
<1>3. CASE \/ NewGroup \/ NewGroupFails \/ ProbeCancelled \/ ProbeError \/ NoScan
           \/ StubFails \/ RunCsd \/ RunCsdFails \/ WaitAgain \/ WaitOver \/ PageFails
  BY <1>2, <1>3 DEF NewGroup, NewGroupFails, ProbeCancelled, ProbeError, NoScan, StubFails,
     RunCsd, RunCsdFails, WaitAgain, WaitOver, PageFails, link, http, target
<1>4. CASE \/ Refreshed \/ LoggedIn \/ FormFails \/ UserCancels \/ GroupChosen \/ Submit
           \/ Done \/ Spin \/ Cancel \/ UNCHANGED vars
  BY <1>2, <1>4 DEF Refreshed, LoggedIn, FormFails, UserCancels, GroupChosen, Submit,
     Done, Spin, Cancel, link, http, target, vars
<1>5. KeptConn \in {conn, "none"}
  BY DEF KeptConn
<1>6. ASSUME NEW c \in {conn, "none"}, GiveUp(c) \/ FallBack(c) PROVE HostInv'
  <2>1. CASE FallBack(c)
    BY <2>1 DEF FallBack, Close, HostInv
  <2>2. CASE Keep(c) /\ host' = host
    BY <2>2, KeepKeepsHost
  <2> QED
    BY <1>6, <2>1, <2>2 DEF GiveUp
<1>7. CASE NoXmlPost \/ ProbeRefused \/ RedirectFails \/ ParseFails
  BY <1>5, <1>6, <1>7 DEF NoXmlPost, ProbeRefused, RedirectFails, ParseFails
<1>8. CASE FollowRedirect \/ CertRequested
  BY <1>5, <1>8, KeepKeepsHost DEF FollowRedirect, CertRequested
<1>9. ASSUME NEW c \in {conn, "none"}, FormAction(c) PROVE HostInv'
  BY <1>9, FollowKeepsHost, KeepKeepsHost DEF FormAction, target
<1>10. CASE FormFound \/ Submitted
  BY <1>5, <1>9, <1>10 DEF FormFound, Submitted
<1>11. CASE FetchStub
  BY <1>11, FollowKeepsHost DEF FetchStub
<1>12. CASE FetchConfig
  BY <1>12 DEF FetchConfig, HostInv, link
<1> QED
  BY <1>1, <1>3, <1>4, <1>7, <1>8, <1>10, <1>11, <1>12 DEF Next, Step

\* do_https_request never writes a request into a connection to another host.
THEOREM RightHostAlways == Spec => []RightHost
<1>1. Init => HostInv
  BY DEF Init, HttpInit, HostInv
<1>2. HostInv => RightHost
  BY DEF HostInv, RightHost
<1> QED
  BY <1>1, <1>2, HostStep, PTL DEF Spec

-----------------------------------------------------------------------------
\* The probe.  Its requests are counted by tries, from 1 with XML POST and from 4
\* after the fallback; until the fallback the origin is where it began, and the
\* first request after it goes there; do_https_request fetches no redirects itself.
Counted ==
    /\ tries \in 0..2 /\ asked \in Nat /\ xmlpost \in BOOLEAN /\ cert_retry \in BOOLEAN
    /\ pc \notin {"probe", "done"} => asked = 0
    /\ pc = "probe" => asked <= tries + (IF xmlpost THEN 1 ELSE 4)
    /\ ProbeBounded

Origins ==
    /\ pc = "newgroup" /\ ~xmlpost => orig = NULL /\ begin = <<host, path>>
    /\ pc = "probe" /\ xmlpost => orig = begin /\ \E h, p : begin = <<h, p>>
    /\ pc = "probe" /\ ~xmlpost /\ tries = 0 /\ io # "idle" => <<host, path>> = begin

Calls ==
    /\ pc \in {"newgroup", "csd", "form", "done"} => io = "idle"
    /\ pc = "probe" => fetch = FALSE
    /\ pc \notin {"probe", "done"} => ~cert_retry
    /\ CertOnNewConnection

ProbeInv == Counted /\ Origins /\ Calls

\* Inside do_https_request, in the probe, the target stays until it returns.
LEMMA ProbeHttpStep ==
    ASSUME ProbeInv, HttpStep, UNCHANGED login
    PROVE  ProbeInv'
<1> USE DEF login, probe
<1>0. io # "idle" /\ pc \notin {"newgroup", "csd", "form", "done"}
  BY DEF HttpStep, Reuse, Open, OpenFails, Write, WriteFails, FirstByte, ReadCancelled,
     BadAnswer, UnfinishedAnswer, TruncatedAnswer, Answered, Redirected, Refused, ProbeInv, Calls
<1>1. Counted'
  BY DEF ProbeInv, Counted, ProbeBounded
<1>2. pc = "probe" => fetch' = FALSE
  BY DEF HttpStep, Reuse, Open, OpenFails, Write, WriteFails, FirstByte, ReadCancelled,
     BadAnswer, UnfinishedAnswer, TruncatedAnswer, Answered, Redirected, Refused, Return,
     Call, ProbeInv, Calls
<1>3. pc = "probe" /\ io' # "idle" => UNCHANGED <<host, path>>
  <2>1. CASE Redirected
    BY <2>1 DEF Redirected, Return, ProbeInv, Calls
  <2>2. CASE ~Redirected
    BY <2>2 DEF HttpStep, Reuse, Open, OpenFails, Write, WriteFails, FirstByte,
       ReadCancelled, BadAnswer, UnfinishedAnswer, TruncatedAnswer, Answered, Refused, target
  <2> QED
    BY <2>1, <2>2
<1>4. Origins'
  BY <1>0, <1>3 DEF ProbeInv, Origins
<1>5. pc = "probe" /\ io' = "open" => conn' = "none"
  <2>1. CASE Redirected
    BY <2>1 DEF Redirected, Return, ProbeInv, Calls
  <2>2. CASE ~Redirected
    BY <2>2 DEF HttpStep, Reuse, Open, OpenFails, Write, WriteFails, FirstByte,
       ReadCancelled, BadAnswer, UnfinishedAnswer, TruncatedAnswer, Answered, Refused,
       Return, Close
  <2> QED
    BY <2>1, <2>2
<1>6. Calls'
  BY <1>0, <1>2, <1>5 DEF ProbeInv, Calls, CertOnNewConnection
<1> QED
  BY <1>1, <1>4, <1>6 DEF ProbeInv

\* The fallback (http.c 1077-1095): four requests at most, from the origin.
LEMMA ProbeFallBack ==
    ASSUME ProbeInv, NEW c, FallBack(c),
           \/ pc = "newgroup" /\ xmlpost = FALSE
           \/ pc = "probe" /\ xmlpost = TRUE
    PROVE  ProbeInv'
<1>1. /\ asked <= 3 /\ asked \in Nat /\ asked' = asked + 1 /\ tries' = 0 /\ xmlpost' = FALSE
      /\ pc' = "probe" /\ cert_retry' = FALSE
  BY DEF ProbeInv, Counted, FallBack, Ask
<1>2. Counted'
  <2>1. xmlpost' \in BOOLEAN /\ cert_retry' \in BOOLEAN /\ ~xmlpost'
    BY <1>1, Zenon
  <2> QED
    BY <1>1, <2>1 DEF Counted, ProbeBounded
<1>3. begin' = begin /\ host' = Origin[1] /\ path' = Origin[2]
  BY DEF FallBack
<1>4. Origin = begin /\ \E h, p : begin = <<h, p>>
  BY DEF ProbeInv, Origins, Origin, NULL
<1>5. Origins'
  BY <1>1, <1>3, <1>4 DEF Origins
<1>6. Calls'
  BY <1>1 DEF FallBack, Ask, Call, Calls, CertOnNewConnection
<1> QED
  BY <1>2, <1>5, <1>6 DEF ProbeInv

\* A step out of the probe, or after it, that ends the login.
LEMMA ProbeLeft ==
    ASSUME ProbeInv, NEW r, Leave(r), io = "idle",
           UNCHANGED <<xmlpost, tries, orig, begin, asked, cert_retry>>
    PROVE  ProbeInv'
  BY DEF ProbeInv, Counted, Origins, Calls, ProbeBounded, CertOnNewConnection, Leave, call

\* A step after the probe that stays there.
LEMMA ProbeOver ==
    ASSUME ProbeInv, pc \notin {"probe", "done", "newgroup"}, pc' \notin {"probe", "done", "newgroup"},
           pc' \in {"csd", "form"} => io' = "idle",
           UNCHANGED <<xmlpost, tries, asked, cert_retry>>
    PROVE  ProbeInv'
  BY DEF ProbeInv, Counted, Origins, Calls, ProbeBounded, CertOnNewConnection

LEMMA ProbeStep == ProbeInv /\ [Next]_vars => ProbeInv'
<1> SUFFICES ASSUME ProbeInv, [Next]_vars PROVE ProbeInv'
  OBVIOUS
<1>0. /\ tries \in 0..2 /\ asked \in Nat /\ xmlpost \in BOOLEAN /\ cert_retry \in BOOLEAN
      /\ pc \in {"newgroup", "csd", "form", "done"} => io = "idle"
  BY DEF ProbeInv, Counted, Calls
<1>1. CASE HttpStep /\ UNCHANGED login
  BY <1>1, ProbeHttpStep
<1>2. CASE NewGroup
  <2>1. /\ pc' = "probe" /\ tries' = 0 /\ asked' = 1 /\ xmlpost' = xmlpost /\ xmlpost = TRUE
        /\ orig' = <<host, path>> /\ begin' = <<host, path>> /\ fetch' = FALSE
        /\ cert_retry' = cert_retry /\ ~cert_retry
    BY <1>0, <1>2 DEF NewGroup, Ask, Call, ProbeInv, Calls
  <2>2. Counted'
    BY <1>0, <2>1 DEF Counted, ProbeBounded
  <2> QED
    BY <2>1, <2>2 DEF ProbeInv, Origins, Calls, CertOnNewConnection
<1>3. CASE NewGroupFails \/ ProbeCancelled \/ ProbeError \/ StubFails \/ RunCsdFails
           \/ PageFails \/ FormFails \/ UserCancels
  BY <1>0, <1>3, ProbeLeft DEF NewGroupFails, ProbeCancelled, ProbeError, StubFails,
     RunCsdFails, PageFails, FormFails, UserCancels, Answer, probe
<1>4. CASE NoXmlPost
  <2>1. pc = "newgroup" /\ xmlpost = FALSE
    BY <1>0, <1>4 DEF NoXmlPost
  <2> QED
    BY <1>4, <2>1, ProbeFallBack DEF NoXmlPost
<1>5. CASE ProbeRefused \/ RedirectFails \/ ParseFails
  <2>1. PICK c : GiveUp(c) /\ pc = "probe" /\ io = "idle"
    BY <1>5 DEF ProbeRefused, RedirectFails, ParseFails, Answer
  <2>2. CASE xmlpost = TRUE
    BY <2>1, <2>2, ProbeFallBack DEF GiveUp
  <2>3. CASE xmlpost = FALSE
    BY <2>1, <2>3, ProbeLeft DEF GiveUp
  <2> QED
    BY <1>0, <2>2, <2>3
<1>6. CASE FollowRedirect \/ CertRequested
  <2>1. /\ pc = "probe" /\ pc' = "probe" /\ tries < 2 /\ tries' = tries + 1
        /\ asked' = asked + 1 /\ UNCHANGED <<xmlpost, orig, begin>> /\ fetch' = FALSE
    BY <1>6 DEF FollowRedirect, CertRequested, Answer, Ask, Call
  <2>2. Counted'
    <3>1. asked <= tries + (IF xmlpost THEN 1 ELSE 4)
      BY <2>1 DEF ProbeInv, Counted
    <3>2. asked' <= tries' + (IF xmlpost THEN 1 ELSE 4) /\ asked' <= 6 /\ tries' \in 0..2
          /\ asked' \in Nat
      BY <1>0, <2>1, <3>1
    <3>3. cert_retry' \in BOOLEAN
      BY <1>6, Zenon DEF FollowRedirect, CertRequested
    <3> QED
      BY <1>0, <2>1, <3>2, <3>3 DEF Counted, ProbeBounded
  <2>3. cert_retry' => conn' = "none"
    BY <1>6 DEF FollowRedirect, CertRequested, Keep, KeptConn
  <2>4. Origins'
    BY <1>0, <2>1 DEF ProbeInv, Origins
  <2> QED
    BY <2>1, <2>2, <2>3, <2>4 DEF ProbeInv, Calls, CertOnNewConnection
<1>7. CASE FormFound
  <2>1. /\ pc' = "csd" /\ tries' = 0 /\ asked' = 0 /\ cert_retry' = FALSE /\ xmlpost' = xmlpost
        /\ io' = "idle"
    BY <1>7 DEF FormFound, Answer, call
  <2>2. cert_retry' \in BOOLEAN /\ xmlpost' \in BOOLEAN /\ ~cert_retry'
    BY <1>0, <2>1, Zenon
  <2>3. Counted'
    BY <2>1, <2>2 DEF Counted, ProbeBounded
  <2> QED
    BY <2>1, <2>2, <2>3 DEF ProbeInv, Origins, Calls, CertOnNewConnection
<1>8. CASE NoScan \/ FetchStub \/ RunCsd \/ WaitAgain \/ WaitOver
  BY <1>0, <1>8, ProbeOver DEF NoScan, FetchStub, RunCsd, WaitAgain, WaitOver, Answer, Ask,
     http, call, probe
<1>9. CASE Refreshed \/ LoggedIn \/ Submit \/ Submitted
  BY <1>0, <1>9, ProbeOver DEF Refreshed, LoggedIn, Submit, Submitted, Answer, Ask, http,
     call, probe
<1>10. CASE GroupChosen
  BY <1>0, <1>10 DEF GroupChosen, http, call, probe, ProbeInv, Counted, Origins, Calls,
     ProbeBounded, CertOnNewConnection
<1>11. CASE FetchConfig
  <2>1. /\ pc = "config" /\ pc' \in {"config", "done"} /\ io = "idle"
        /\ pc' = "done" => io' = io
        /\ io' \in {"spin", io}
        /\ UNCHANGED probe
    BY <1>11 DEF FetchConfig, call
  <2> QED
    BY <1>0, <2>1 DEF probe, ProbeInv, Counted, Origins, Calls, ProbeBounded,
       CertOnNewConnection
<1>12. CASE Done \/ (Spin /\ UNCHANGED login) \/ (Cancel /\ UNCHANGED login) \/ UNCHANGED vars
  BY <1>12 DEF Done, Spin, Cancel, vars, http, login, call, link, target, probe, ProbeInv,
     Counted, Origins, Calls, ProbeBounded, CertOnNewConnection
<1> QED
  BY <1>1, <1>2, <1>3, <1>4, <1>5, <1>6, <1>7, <1>8, <1>9, <1>10, <1>11, <1>12 DEF Next, Step

LEMMA ProbeInit == Init => ProbeInv
<1> SUFFICES ASSUME Init PROVE ProbeInv
  OBVIOUS
<1>1. xmlpost \in BOOLEAN /\ cert_retry \in BOOLEAN /\ ~cert_retry
  BY Zenon DEF Init
<1>2. Counted
  BY <1>1 DEF Init, Counted, ProbeBounded
<1>3. Origins
  BY DEF Init, Origins
<1>4. Calls
  BY <1>1 DEF Init, HttpInit, Calls, CertOnNewConnection
<1> QED
  BY <1>2, <1>3, <1>4 DEF ProbeInv

\* However redirects, certificate requests and errors alternate, the probe of one
\* group makes at most six requests.
THEOREM ProbeBoundedAlways == Spec => []ProbeBounded
<1>1. ProbeInv => ProbeBounded
  BY DEF ProbeInv, Counted
<1> QED
  BY <1>1, ProbeInit, ProbeStep, PTL DEF Spec

\* The fallback forgets every redirect the probe followed.
THEOREM FallBackAtOriginAlways == Spec => []FallBackAtOrigin
<1>1. ProbeInv => FallBackAtOrigin
  BY DEF ProbeInv, Origins, FallBackAtOrigin
<1> QED
  BY <1>1, ProbeInit, ProbeStep, PTL DEF Spec

\* The request that is repeated for a certificate never reuses a connection.
THEOREM CertOnNewConnectionAlways == Spec => []CertOnNewConnection
<1>1. ProbeInv => CertOnNewConnection
  BY DEF ProbeInv, Calls
<1> QED
  BY <1>1, ProbeInit, ProbeStep, PTL DEF Spec

-----------------------------------------------------------------------------
\* Unread bytes.  A request that stops half way returns an error, and whoever sees an
\* error gives up or closes the connection before the next request.
Pages == {"probe", "stub", "wait", "refresh", "submit"}

UnreadInv ==
    /\ unread \in {"no", "error", "extra"}
    /\ pc \in Pages \cup {"newgroup", "csd", "form", "config", "done"}
    /\ pc \notin Pages => io \in {"idle", "spin"}
    /\ unread = "error" /\ pc # "done" => pc \in Pages /\ io = "idle" /\ ret \in Errors

LEMMA UnreadHttpStep ==
    ASSUME UnreadInv, HttpStep, UNCHANGED login
    PROVE  UnreadInv'
<1>0. pc' = pc /\ io \notin {"idle", "spin"}
  BY DEF login, HttpStep, Reuse, Open, OpenFails, Write, WriteFails, FirstByte,
     ReadCancelled, BadAnswer, UnfinishedAnswer, TruncatedAnswer, Answered, Redirected, Refused
<1>1. pc \in Pages /\ unread \in {"no", "extra"}
  BY <1>0 DEF UnreadInv, Pages
<1>2. CASE WriteFails \/ UnfinishedAnswer
  <2>1. \/ unread' = "no"
        \/ unread' = "error" /\ io' = "idle" /\ ret' \in Errors
    BY <1>2 DEF WriteFails, UnfinishedAnswer, Return, Close, Errors
  <2> QED
    BY <1>0, <1>1, <2>1 DEF UnreadInv
<1>3. CASE \/ Reuse \/ Open \/ OpenFails \/ Write \/ FirstByte \/ ReadCancelled
           \/ BadAnswer \/ TruncatedAnswer
  <2>1. unread' \in {"no", "extra"}
    BY <1>1, <1>3 DEF Reuse, Open, OpenFails, Write, FirstByte, ReadCancelled, BadAnswer,
       TruncatedAnswer, Close, link
  <2> QED
    BY <1>0, <1>1, <2>1 DEF UnreadInv
<1>4. CASE Answered \/ Redirected \/ Refused
  <2>1. unread' \in {"no", "extra", unread}
    BY <1>4 DEF Answered, Redirected, Refused, KeepAnswered
  <2> QED
    BY <1>0, <1>1, <2>1 DEF UnreadInv
<1> QED
  BY <1>2, <1>3, <1>4 DEF HttpStep

LEMMA UnreadStep == UnreadInv /\ [Next]_vars => UnreadInv'
<1> SUFFICES ASSUME UnreadInv, [Next]_vars PROVE UnreadInv'
  OBVIOUS
<1>0. unread \in {"no", "error", "extra"} /\ pc \in Pages \cup {"newgroup", "csd", "form", "config", "done"}
  BY DEF UnreadInv
<1>1. CASE HttpStep /\ UNCHANGED login
  BY <1>1, UnreadHttpStep
<1>2. ASSUME unread' \in {"no", "error", "extra"}, pc' = "done", io' = io, io \in {"idle", "spin"}
      PROVE  UnreadInv'
  BY <1>2 DEF UnreadInv, Pages
<1>3. CASE NewGroupFails \/ ProbeCancelled \/ ProbeError \/ StubFails \/ RunCsdFails
           \/ PageFails \/ FormFails \/ UserCancels
  <2>1. unread' = unread /\ pc' = "done" /\ io' = io
    BY <1>3 DEF NewGroupFails, ProbeCancelled, ProbeError, StubFails, RunCsdFails,
       PageFails, FormFails, UserCancels, Leave, link, call
  <2>2. io \in {"idle", "spin"}
    BY <1>3 DEF UnreadInv, Pages, NewGroupFails, ProbeCancelled, ProbeError, StubFails,
       RunCsdFails, PageFails, FormFails, UserCancels, Answer
  <2> QED
    BY <1>0, <1>2, <2>1, <2>2
<1>4. ASSUME unread' \in {"no", "extra"}, pc' \in Pages PROVE UnreadInv'
  BY <1>4 DEF UnreadInv
<1>5. CASE NoXmlPost \/ ProbeRefused \/ RedirectFails \/ ParseFails
  <2>1. CASE \E c : FallBack(c)
    BY <1>4, <2>1 DEF FallBack, Close, Ask, Pages
  <2>2. CASE pc = "probe" /\ io = "idle" /\ \E c : Keep(c) /\ Leave("EIO")
    BY <1>0, <1>2, <2>2 DEF Keep, Leave, call
  <2> QED
    BY <1>5, <2>1, <2>2 DEF NoXmlPost, ProbeRefused, RedirectFails, ParseFails, GiveUp, Answer
<1>6. CASE NewGroup \/ FetchStub \/ RunCsd \/ WaitAgain \/ WaitOver \/ Submit
           \/ FollowRedirect \/ CertRequested
  <2>1. pc # "done" /\ (pc \notin Pages \/ ret \notin Errors)
    BY <1>6 DEF NewGroup, FetchStub, RunCsd, WaitAgain, WaitOver, Submit, FollowRedirect,
       CertRequested, Answer, Succeeded, Pages, Errors
  <2>2. unread \in {"no", "extra"}
    BY <1>0, <2>1 DEF UnreadInv
  <2>3. unread' \in {"no", "extra"}
    BY <1>6, <2>2 DEF NewGroup, FetchStub, RunCsd, WaitAgain, WaitOver, Submit,
       FollowRedirect, CertRequested, Keep, Follow, link
  <2>4. pc' \in Pages
    BY <1>6 DEF NewGroup, FetchStub, RunCsd, WaitAgain, WaitOver, Submit, FollowRedirect,
       CertRequested, Ask, Pages
  <2> QED
    BY <1>4, <2>3, <2>4
<1>7. CASE FormFound \/ NoScan \/ Refreshed \/ LoggedIn \/ GroupChosen \/ Submitted
  <2>1. pc # "done" /\ (pc \notin Pages \/ ret \notin Errors)
    BY <1>7 DEF FormFound, NoScan, Refreshed, LoggedIn, GroupChosen, Submitted, Answer,
       Succeeded, Pages, Errors
  <2>2. unread \in {"no", "extra"}
    BY <1>0, <2>1 DEF UnreadInv
  <2>3. unread' \in {"no", "extra"}
    BY <1>7, <2>2 DEF FormFound, NoScan, Refreshed, LoggedIn, GroupChosen, Submitted,
       FormAction, Keep, Follow, http, link
  <2>4. pc' \in {"csd", "form", "config", "newgroup"} /\ io' = io
    BY <1>7 DEF FormFound, NoScan, Refreshed, LoggedIn, GroupChosen, Submitted, http, call
  <2>5. io \in {"idle", "spin"}
    BY <1>7 DEF UnreadInv, Pages, FormFound, NoScan, Refreshed, LoggedIn, GroupChosen,
       Submitted, Answer
  <2> QED
    BY <2>3, <2>4, <2>5 DEF UnreadInv, Pages
<1>8. CASE FetchConfig
  <2>1. CASE pc' = "done" /\ UNCHANGED call
    <3>1. unread' \in {"no", "error", "extra"}
      BY <1>0, <1>8, Zenon DEF FetchConfig, link
    <3> QED
      BY <1>2, <1>8, <2>1, <3>1 DEF FetchConfig, call
  <2>2. CASE io' = "spin" /\ UNCHANGED <<link, pc>>
    BY <1>8, <2>2 DEF FetchConfig, link, UnreadInv, Pages
  <2> QED
    BY <1>8, <2>1, <2>2 DEF FetchConfig
<1>9. CASE Done \/ (Spin /\ UNCHANGED login) \/ (Cancel /\ UNCHANGED login) \/ UNCHANGED vars
  BY <1>9 DEF Done, Spin, Cancel, vars, http, login, call, link, UnreadInv
<1> QED
  BY <1>1, <1>3, <1>5, <1>6, <1>7, <1>8, <1>9 DEF Next, Step

\* No request of a login is answered with the rest of one that failed half way (http.c
\* 251-255, 354-395): every caller closes the connection or ends the login.
THEOREM NoStaleAnswerAlways == Spec => []NoStaleAnswer
<1>1. Init => UnreadInv
  BY DEF Init, HttpInit, UnreadInv, Pages
<1>2. UnreadInv => NoStaleAnswer
  BY DEF UnreadInv, NoStaleAnswer, Requesting, Pages
<1> QED
  BY <1>1, <1>2, UnreadStep, PTL DEF Spec
-----------------------------------------------------------------------------
\* The type invariant.  The invariants above have the types of the probe's counters,
\* of the connection and of pc; these are the others.
CallType ==
    /\ io \in {"idle", "open", "write", "read", "answer", "spin"}
    /\ fetch \in BOOLEAN /\ rq_retry \in BOOLEAN
    /\ ret \in Errors \cup {"len", "zero"}
    /\ cancel \in {"no", "sent", "read"}

\* During a host scan the form's path is kept, for WaitOver to put back.
PlacesType ==
    /\ host \in Hosts /\ path \in Paths /\ form_path \in Paths \cup {"none"}
    /\ pc \in {"stub", "wait"} => form_path \in Paths
    /\ orig \in {NULL} \cup (Hosts \X Paths) /\ begin \in {NULL} \cup (Hosts \X Paths)

ScanType ==
    /\ cert \in {"none", "unsent", "sent"} /\ csd \in {"none", "urls", "all"}
    /\ stub \in BOOLEAN /\ csd_ran \in BOOLEAN

ResultType ==
    /\ redirect_type \in {"NONE", "NEWHOST", "LOCAL"}
    /\ result \in Errors \cup {"none", "0", "1"}

\* do_https_request returns an error or a length, whatever the answer was.
LEMMA CallHttpStep == CallType /\ HttpStep => CallType'
<1> SUFFICES ASSUME CallType, HttpStep PROVE CallType'
  OBVIOUS
<1>1. cancel' \in {"no", "sent", "read"}
  BY DEF CallType, HttpStep, Reuse, Open, OpenFails, Write, WriteFails, FirstByte,
     ReadCancelled, BadAnswer, UnfinishedAnswer, TruncatedAnswer, Answered, Redirected,
     Refused, MayNoticeCancel
<1>2. ASSUME NEW r \in Errors \cup {"len", "zero"}, Return(r) PROVE CallType'
  BY <1>1, <1>2 DEF Return, CallType
<1>3. ASSUME NEW f \in BOOLEAN, Call(f) PROVE CallType'
  BY <1>1, <1>3 DEF Call, CallType
<1>4. CASE Reuse \/ Open \/ Write \/ FirstByte \/ TruncatedAnswer
  BY <1>1, <1>4 DEF Reuse, Open, Write, FirstByte, TruncatedAnswer, CallType
<1>5. CASE OpenFails \/ ReadCancelled \/ BadAnswer \/ UnfinishedAnswer \/ Answered \/ Refused
  BY <1>2, <1>5 DEF OpenFails, ReadCancelled, BadAnswer, UnfinishedAnswer, Answered, Refused,
     Errors
<1>6. CASE WriteFails
  <2>1. CASE Return("EIO")
    BY <1>2, <2>1 DEF Errors
  <2>2. CASE io' = "open" /\ rq_retry' = FALSE /\ UNCHANGED <<fetch, ret>>
    BY <1>1, <2>2 DEF CallType
  <2> QED
    BY <1>6, <2>1, <2>2 DEF WriteFails
<1>7. CASE Redirected
  BY <1>2, <1>3, <1>7 DEF Redirected, Errors
<1> QED
  BY <1>4, <1>5, <1>6, <1>7 DEF HttpStep

LEMMA CallStep == CallType /\ [Next]_vars => CallType'
<1> SUFFICES ASSUME CallType, [Next]_vars PROVE CallType'
  OBVIOUS
<1>1. CASE HttpStep
  BY <1>1, CallHttpStep
<1>2. CASE UNCHANGED <<call, cancel>>
  BY <1>2 DEF CallType, call
<1>3. ASSUME NEW f \in BOOLEAN, NEW p, Ask(p, f), UNCHANGED cancel PROVE CallType'
  BY <1>3 DEF Ask, Call, CallType
<1>4. CASE NewGroup \/ NoXmlPost \/ FollowRedirect \/ CertRequested \/ FetchStub \/ RunCsd
           \/ WaitAgain \/ WaitOver \/ Submit
  BY <1>3, <1>4 DEF NewGroup, NoXmlPost, FallBack, FollowRedirect, CertRequested, FetchStub,
     RunCsd, WaitAgain, WaitOver, Submit
<1>5. CASE ProbeRefused \/ RedirectFails \/ ParseFails
  <2>1. \E c : GiveUp(c)
    BY <1>5 DEF ProbeRefused, RedirectFails, ParseFails
  <2> QED
    BY <1>2, <1>3, <2>1 DEF GiveUp, FallBack, Leave
<1>6. CASE NewGroupFails \/ ProbeCancelled \/ ProbeError \/ StubFails \/ RunCsdFails
           \/ PageFails \/ FormFails \/ UserCancels
  BY <1>2, <1>6 DEF NewGroupFails, ProbeCancelled, ProbeError, StubFails, RunCsdFails,
     PageFails, FormFails, UserCancels, Leave
<1>7. CASE FormFound \/ NoScan \/ Refreshed \/ LoggedIn \/ GroupChosen \/ Submitted
  BY <1>2, <1>7 DEF FormFound, NoScan, Refreshed, LoggedIn, GroupChosen, Submitted, http
<1>8. CASE FetchConfig
  BY <1>8 DEF FetchConfig, MayNoticeCancel, CallType, call
<1>9. CASE Done \/ Spin \/ UNCHANGED vars
  BY <1>2, <1>9 DEF Done, Spin, vars, http
<1>10. CASE Cancel
  BY <1>10 DEF Cancel, CallType, call
<1> QED
  BY <1>1, <1>4, <1>5, <1>6, <1>7, <1>8, <1>9, <1>10 DEF Next, Step

\* A URL leads to one of the hosts (http.c 773-851).
LEMMA RedirectTarget ==
    ASSUME host \in Hosts, path \in Paths, NEW url, NEW c
    PROVE  /\ handle_redirect(url, c).host \in Hosts
           /\ handle_redirect(url, c).path \in Paths
           /\ handle_redirect(url, c).type \in {"NEWHOST", "LOCAL"}
  BY DEF handle_redirect, Paths

LEMMA PlacesStep == PlacesType /\ [Next]_vars => PlacesType'
<1> SUFFICES ASSUME PlacesType, [Next]_vars PROVE PlacesType'
  OBVIOUS
<1>0. /\ host \in Hosts /\ path \in Paths /\ form_path \in Paths \cup {"none"}
      /\ pc \in {"stub", "wait"} => form_path \in Paths
      /\ orig \in {NULL} \cup (Hosts \X Paths) /\ begin \in {NULL} \cup (Hosts \X Paths)
  BY DEF PlacesType
<1>1. ASSUME host' \in Hosts, path' \in Paths, form_path' \in Paths \cup {"none"},
             pc' \in {"stub", "wait"} => form_path' \in Paths,
             orig' \in {NULL, orig, <<host, path>>}, begin' \in {NULL, begin, <<host, path>>}
      PROVE  PlacesType'
  BY <1>0, <1>1 DEF PlacesType, NULL
<1>2. ASSUME NEW url, NEW c, Follow(handle_redirect(url, c))
      PROVE  host' \in Hosts /\ path' \in Paths
  BY <1>0, <1>2, RedirectTarget DEF Follow
<1>3. CASE HttpStep /\ UNCHANGED login
  <2>1. UNCHANGED <<pc, orig, begin, form_path>>
    BY <1>3 DEF login, probe, scan
  <2>2. CASE Redirected
    <3>1. host' \in Hosts /\ path' \in Paths
      BY <1>0, <2>2, RedirectTarget DEF Redirected
    <3> QED
      BY <1>0, <1>1, <2>1, <3>1
  <2>3. CASE ~Redirected
    <3>1. UNCHANGED <<host, path>>
      BY <1>3, <2>3 DEF HttpStep, Reuse, Open, OpenFails, Write, WriteFails, FirstByte,
         ReadCancelled, BadAnswer, UnfinishedAnswer, TruncatedAnswer, Answered, Refused, target
    <3> QED
      BY <1>0, <1>1, <2>1, <3>1
  <2> QED
    BY <2>2, <2>3
<1>4. CASE NewGroup
  BY <1>0, <1>1, <1>4 DEF NewGroup, Ask, scan
<1>5. ASSUME NEW c, FallBack(c) PROVE PlacesType'
  <2>1. Origin \in Hosts \X Paths
    BY <1>0 DEF Origin
  <2>2. host' \in Hosts /\ path' \in Paths
    BY <1>5, <2>1 DEF FallBack
  <2> QED
    BY <1>0, <1>1, <1>5, <2>2 DEF FallBack, Ask
<1>6. ASSUME UNCHANGED <<host, path, orig, begin, form_path>>, pc' \notin {"stub", "wait"}
      PROVE  PlacesType'
  BY <1>0, <1>1, <1>6
<1>7. CASE NoXmlPost \/ ProbeRefused \/ RedirectFails \/ ParseFails
  <2>1. \E c : FallBack(c) \/ GiveUp(c)
    BY <1>7 DEF NoXmlPost, ProbeRefused, RedirectFails, ParseFails
  <2> QED
    BY <1>5, <1>6, <2>1 DEF GiveUp, Leave
<1>8. CASE NewGroupFails \/ ProbeCancelled \/ ProbeError \/ StubFails \/ RunCsdFails
           \/ PageFails \/ FormFails \/ UserCancels
  BY <1>6, <1>8 DEF NewGroupFails, ProbeCancelled, ProbeError, StubFails, RunCsdFails,
     PageFails, FormFails, UserCancels, Leave, probe, scan
<1>9. CASE FollowRedirect \/ CertRequested \/ Submit \/ FetchConfig
  BY <1>6, <1>9 DEF FollowRedirect, CertRequested, Submit, FetchConfig, Ask, probe, scan
<1>10. CASE NoScan \/ Refreshed \/ LoggedIn \/ GroupChosen
  BY <1>6, <1>10 DEF NoScan, Refreshed, LoggedIn, GroupChosen, http, target, probe, scan
<1>11. ASSUME NEW c, FormAction(c) PROVE host' \in Hosts /\ path' \in Paths
  BY <1>0, <1>2, <1>11 DEF FormAction, target
<1>12. CASE FormFound
  BY <1>0, <1>1, <1>11, <1>12 DEF FormFound
<1>13. CASE Submitted
  BY <1>0, <1>1, <1>11, <1>13 DEF Submitted, probe
<1>14. CASE FetchStub
  <2>1. host' \in Hosts /\ path' \in Paths
    BY <1>2, <1>14 DEF FetchStub
  <2> QED
    BY <1>0, <1>1, <1>14, <2>1 DEF FetchStub, probe
<1>15. CASE RunCsd
  <2>1. form_path' \in Paths
    BY <1>0, <1>15 DEF RunCsd, Answer
  <2>2. path' \in Paths /\ host' = host /\ UNCHANGED <<orig, begin>>
    BY <1>15 DEF RunCsd, Paths, probe
  <2> QED
    BY <1>0, <1>1, <2>1, <2>2
<1>16. CASE WaitAgain
  BY <1>0, <1>1, <1>16 DEF WaitAgain, Answer, probe, scan
<1>17. CASE WaitOver
  BY <1>0, <1>1, <1>17 DEF WaitOver, Answer, Ask, probe
<1>18. CASE Done \/ (Spin /\ UNCHANGED login) \/ (Cancel /\ UNCHANGED login) \/ UNCHANGED vars
  <2>1. UNCHANGED <<host, path, orig, begin, form_path, pc>>
    BY <1>18 DEF Done, Spin, Cancel, vars, http, login, target, probe, scan
  <2> QED
    BY <2>1 DEF PlacesType
<1> QED
  BY <1>3, <1>4, <1>7, <1>8, <1>9, <1>10, <1>12, <1>13, <1>14, <1>15, <1>16, <1>17, <1>18
     DEF Next, Step

LEMMA ScanStep == ScanType /\ [Next]_vars => ScanType'
<1> SUFFICES ASSUME ScanType, [Next]_vars PROVE ScanType'
  OBVIOUS
<1>1. ASSUME ScanAsked PROVE stub' \in {stub, TRUE} /\ csd' \in {csd, "urls", "all"}
  BY <1>1, Zenon DEF ScanAsked
<1>2. CASE NewGroup \/ NewGroupFails \/ ProbeCancelled \/ ProbeError \/ FollowRedirect
           \/ NoScan \/ StubFails \/ RunCsdFails \/ WaitAgain \/ PageFails
  BY <1>2, Zenon DEF NewGroup, NewGroupFails, ProbeCancelled, ProbeError, FollowRedirect,
     NoScan, StubFails, RunCsdFails, WaitAgain, PageFails, probe, scan, ScanType
<1>3. CASE LoggedIn \/ FormFails \/ UserCancels \/ GroupChosen \/ Submit \/ FetchConfig
           \/ Done \/ UNCHANGED vars \/ UNCHANGED login
  BY <1>3, Zenon DEF LoggedIn, FormFails, UserCancels, GroupChosen, Submit, FetchConfig, Done,
     vars, login, probe, scan, ScanType
<1>4. CASE NoXmlPost \/ ProbeRefused \/ RedirectFails
  <2>1. UNCHANGED <<cert, csd, stub>> /\ csd_ran' = csd_ran
    BY <1>4, Zenon DEF NoXmlPost, ProbeRefused, RedirectFails, GiveUp, FallBack
  <2> QED
    BY <2>1, Zenon DEF ScanType
<1>5. CASE ParseFails \/ CertRequested \/ FormFound
  <2>1. csd_ran' = csd_ran /\ ScanAsked
    BY <1>5, Zenon DEF ParseFails, CertRequested, FormFound, GiveUp, FallBack
  <2>2. cert' \in {cert, "sent"}
    BY <1>5 DEF ParseFails, CertRequested, FormFound
  <2>3. cert' \in {"none", "unsent", "sent"} /\ csd' \in {"none", "urls", "all"}
    BY <1>1, <2>1, <2>2, Zenon DEF ScanType
  <2> QED
    BY <1>1, <2>1, <2>3, Zenon DEF ScanType
<1>6. CASE Refreshed \/ Submitted
  <2>1. csd_ran' = csd_ran /\ ScanAsked /\ cert' = cert
    BY <1>6, Zenon DEF Refreshed, Submitted, probe
  <2> QED
    BY <1>1, <2>1, Zenon DEF ScanType
<1>7. CASE FetchStub \/ RunCsd \/ WaitOver
  BY <1>7, Zenon DEF FetchStub, RunCsd, WaitOver, probe, ScanType
<1> QED
  BY <1>2, <1>3, <1>4, <1>5, <1>6, <1>7 DEF Next, Step

LEMMA ResultStep ==
    ASSUME ResultType, CallType, PlacesType, [Next]_vars
    PROVE  ResultType'
<1>0. host \in Hosts /\ path \in Paths
  BY DEF PlacesType
<1>1. ASSUME redirect_type' \in {redirect_type, "NONE", "NEWHOST", "LOCAL"},
             result' \in Errors \cup {result, "0", "1"}
      PROVE  ResultType'
  BY <1>1 DEF ResultType
<1>2. ASSUME NEW f, NEW p, Ask(p, f) PROVE ResultType'
  BY <1>1, <1>2 DEF Ask, Call
<1>3. ASSUME NEW r \in Errors \cup {"1"}, Leave(r) PROVE ResultType'
  BY <1>1, <1>3 DEF Leave
<1>4. ASSUME NEW c, FormAction(c)
      PROVE  redirect_type' \in {redirect_type, "NONE", "NEWHOST", "LOCAL"}
  BY <1>0, <1>4, RedirectTarget DEF FormAction, target
<1>5. CASE HttpStep /\ UNCHANGED login
  <2>1. redirect_type' \in {redirect_type, "NONE", "NEWHOST", "LOCAL"}
    <3>1. CASE Redirected
      BY <1>0, <3>1, RedirectTarget DEF Redirected, Call
    <3>2. CASE ~Redirected
      BY <1>5, <3>2 DEF HttpStep, Reuse, Open, OpenFails, Write, WriteFails, FirstByte,
         ReadCancelled, BadAnswer, UnfinishedAnswer, TruncatedAnswer, Answered, Refused, target
    <3> QED
      BY <3>1, <3>2
  <2> QED
    BY <1>1, <1>5, <2>1 DEF login
<1>6. CASE NewGroup \/ NoXmlPost \/ FollowRedirect \/ CertRequested \/ FetchStub \/ RunCsd
           \/ WaitAgain \/ WaitOver \/ Submit
  BY <1>2, <1>6 DEF NewGroup, NoXmlPost, FallBack, FollowRedirect, CertRequested, FetchStub,
     RunCsd, WaitAgain, WaitOver, Submit
<1>7. CASE ProbeRefused \/ RedirectFails \/ ParseFails
  <2>1. \E c : GiveUp(c)
    BY <1>7 DEF ProbeRefused, RedirectFails, ParseFails
  <2> QED
    BY <1>2, <1>3, <2>1 DEF GiveUp, FallBack, Errors
<1>8. CASE NewGroupFails \/ ProbeCancelled \/ ProbeError \/ StubFails \/ RunCsdFails
           \/ FormFails \/ UserCancels
  BY <1>3, <1>8 DEF NewGroupFails, ProbeCancelled, ProbeError, StubFails, RunCsdFails,
     FormFails, UserCancels, Errors
<1>9. CASE PageFails
  BY <1>3, <1>9 DEF PageFails, Succeeded, CallType, Errors
<1>10. CASE FormFound \/ Submitted
  BY <1>1, <1>4, <1>10 DEF FormFound, Submitted
<1>11. CASE NoScan \/ Refreshed \/ LoggedIn \/ GroupChosen \/ FetchConfig
  BY <1>1, <1>11 DEF NoScan, Refreshed, LoggedIn, GroupChosen, FetchConfig, http, target
<1>12. CASE Done \/ (Spin /\ UNCHANGED login) \/ (Cancel /\ UNCHANGED login) \/ UNCHANGED vars
  BY <1>1, <1>12 DEF Done, Spin, Cancel, vars, http, login, target
<1> QED
  BY <1>5, <1>6, <1>7, <1>8, <1>9, <1>10, <1>11, <1>12 DEF Next, Step

\* Every variable of a login has its type: in particular the form's path is there to
\* be put back whenever a host scan ends (http.c 1215-1221), and a length that
\* do_https_request returned is never the result of openconnect_obtain_cookie.
THEOREM TypeCorrect == Spec => []TypeOK
<1> DEFINE Others == CallType /\ PlacesType /\ ScanType /\ ResultType
<1>1. Init => HostInv /\ UnreadInv /\ Others
  <2> SUFFICES ASSUME Init PROVE HostInv /\ UnreadInv /\ Others
    OBVIOUS
  <2>1. HostInv /\ UnreadInv
    BY DEF Init, HttpInit, HostInv, UnreadInv, Pages
  <2>2. CallType
    BY DEF Init, HttpInit, CallType
  <2>3. PlacesType
    BY HostsAssumption DEF Init, HttpInit, PlacesType, Paths
  <2>4. ScanType
    BY Zenon DEF Init, ScanType
  <2>5. ResultType
    BY DEF Init, HttpInit, ResultType
  <2> QED
    BY <2>1, <2>2, <2>3, <2>4, <2>5
<1>2. Others /\ [Next]_vars => Others'
  BY CallStep, PlacesStep, ScanStep, ResultStep
<1>3. HostInv /\ UnreadInv /\ ProbeInv /\ Others => TypeOK
  <2> SUFFICES ASSUME HostInv, UnreadInv, ProbeInv, Others PROVE TypeOK
    OBVIOUS
  <2>1. conn \in Hosts \cup {"none"}
    BY DEF HostInv, PlacesType
  <2>2. pc \in {"newgroup", "probe", "csd", "stub", "wait", "refresh", "form", "submit",
                "config", "done"}
    BY DEF UnreadInv, Pages
  <2>3. unread \in {"no", "error", "extra"}
    BY DEF UnreadInv
  <2>4. /\ xmlpost \in BOOLEAN /\ tries \in 0..2 /\ asked \in Nat
        /\ cert_retry \in BOOLEAN
    BY DEF ProbeInv, Counted
  <2>5. HttpTypeOK
    BY <2>1, <2>3, Zenon DEF HttpTypeOK, CallType, PlacesType, ResultType
  <2> QED
    BY <2>2, <2>4, <2>5, Zenon DEF TypeOK, PlacesType, ScanType, ResultType
<1> HIDE DEF Others
<1> QED
  BY <1>1, <1>2, <1>3, HostStep, UnreadStep, ProbeInit, ProbeStep, PTL DEF Spec
=============================================================================
