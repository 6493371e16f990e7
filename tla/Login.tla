-------------------------------- MODULE Login --------------------------------
(***************************************************************************)
(* openconnect_obtain_cookie: the probe for XML POST with its fallback to  *)
(* GET, certificate requests and redirects, the host scan (CSD) and its    *)
(* wait page, the login forms and the choice of another group.  Every      *)
(* request it makes is a call of HttpClient; here is what happens between  *)
(* two of them.                                                            *)
(*                                                                         *)
(* pc names the request under way ("probe", "stub", "wait", "refresh",     *)
(* "submit") or the work in between ("newgroup", "csd", "form", "config"). *)
(* What parse_xml_response finds in an answer is nondeterministic.         *)
(***************************************************************************)
EXTENDS HttpClient

VARIABLES
    pc,
    xmlpost,    \* vpninfo->xmlpost
    tries,      \* the counter of the probe's loop
    orig,       \* orig_host, orig_port and orig_path; NULL when restored
    cert,       \* "none" configured, "unsent" or "sent": vpninfo->cert, cert_sent
    csd,        \* which of the four csd_ strings are set: "none", "urls" or "all"
    stub,       \* vpninfo->csd_stuburl is set
    csd_ran,    \* vpninfo->csd_scriptname is set
    form_path,  \* where the form was, kept during the host scan
    result,     \* what openconnect_obtain_cookie returned, "none" before that
    begin,      \* history: host and path this probe was begun with
    asked,      \* history: requests made by this probe
    cert_retry  \* history: the next request repeats one for its certificate

scan == <<csd, stub, csd_ran, form_path>>
probe == <<xmlpost, tries, orig, cert, begin, asked, cert_retry>>
login == <<pc, probe, scan, result>>
vars == <<http, login>>

NULL == <<>>

TypeOK ==
    /\ HttpTypeOK
    /\ pc \in {"newgroup", "probe", "csd", "stub", "wait", "refresh", "form", "submit",
               "config", "done"}
    /\ xmlpost \in BOOLEAN /\ tries \in 0..2
    /\ orig \in {NULL} \cup (Hosts \X Paths) /\ begin \in {NULL} \cup (Hosts \X Paths)
    /\ cert \in {"none", "unsent", "sent"} /\ csd \in {"none", "urls", "all"}
    /\ stub \in BOOLEAN /\ csd_ran \in BOOLEAN /\ form_path \in Paths \cup {"none"}
    /\ result \in Errors \cup {"none", "0", "1"}
    /\ asked \in Nat /\ cert_retry \in BOOLEAN

\* A login with a gateway that may or may not be asked by XML POST, with or
\* without a client certificate.
Init ==
    /\ HttpInit
    /\ pc = "newgroup" /\ xmlpost \in BOOLEAN /\ tries = 0
    /\ orig = NULL /\ begin = <<host, path>> /\ asked = 0
    /\ cert \in {"none", "unsent"} /\ cert_retry = FALSE
    /\ csd = "none" /\ stub = FALSE /\ csd_ran = FALSE /\ form_path = "none"
    /\ result = "none"

-----------------------------------------------------------------------------
\* The answer to request p is there.
Answer(p) == pc = p /\ io = "idle"
Succeeded == ret \in {"len", "zero"}

Ask(p, follow) == pc' = p /\ Call(follow) /\ UNCHANGED result

\* openconnect_obtain_cookie returns r.
Leave(r) == pc' = "done" /\ result' = r /\ UNCHANGED <<call, redirect_type>>

\* What an answer may say of a host scan: nothing, or where to find it, with or
\* without a stub script and a ticket.  It is ignored once a scan has run.
ScanAsked ==
    \/ UNCHANGED <<csd, stub>>
    \/ /\ ~csd_ran
       /\ csd' \in {"urls", "all"} \ (IF csd = "all" THEN {"urls"} ELSE {})
       /\ stub' \in {stub, TRUE}

\* A form's action is followed as a redirect, whatever comes of it.
FormAction(c) ==
    \/ Keep(c) /\ UNCHANGED target
    \/ \E url \in Urls :
        LET r == handle_redirect(url, c) IN Follow(r) /\ redirect_type' = r.type

\* Mutant: the connection is kept.
KeptConnAlways == conn

\* Until the certificate was asked for, no connection is kept after an answer.
KeptConn == IF cert = "unsent" THEN "none" ELSE conn

-----------------------------------------------------------------------------
\* The probe begins: the host and path are remembered for the fallback.
NewGroup ==
    /\ pc = "newgroup" /\ xmlpost
    /\ orig' = <<host, path>> /\ begin' = <<host, path>>
    /\ tries' = 0 /\ asked' = 1
    /\ Ask("probe", FALSE)
    /\ UNCHANGED <<link, host, path, cancel, xmlpost, cert, cert_retry, scan>>

\* The first request cannot be put together.
NewGroupFails ==
    /\ pc = "newgroup" /\ xmlpost
    /\ Leave("EIO")
    /\ UNCHANGED <<link, host, path, cancel, probe, scan>>

\* Where the fallback goes to.
Origin == IF orig = NULL THEN <<host, path>> ELSE orig

\* Mutant: the connection is kept.
FallBackKeepsConnection(c) ==
    /\ tries' = 0 /\ xmlpost' = FALSE
    /\ host' = Origin[1] /\ path' = Origin[2]
    /\ orig' = NULL
    /\ Keep(c)
    /\ asked' = asked + 1 /\ cert_retry' = FALSE
    /\ Ask("probe", FALSE)
    /\ UNCHANGED <<cancel, begin, csd_ran, form_path>>

\* Mutant: XML POST stays enabled.
FallBackAgain(c) ==
    /\ tries' = 0 /\ xmlpost' = TRUE
    /\ host' = Origin[1] /\ path' = Origin[2]
    /\ orig' = NULL
    /\ Close
    /\ asked' = asked + 1 /\ cert_retry' = FALSE
    /\ Ask("probe", FALSE)
    /\ UNCHANGED <<cancel, begin, csd_ran, form_path>>

\* Mutant: the path is not restored.
FallBackElsewhere(c) ==
    /\ tries' = 0 /\ xmlpost' = FALSE
    /\ host' = Origin[1] /\ path' = path
    /\ orig' = NULL
    /\ Close
    /\ asked' = asked + 1 /\ cert_retry' = FALSE
    /\ Ask("probe", FALSE)
    /\ UNCHANGED <<cancel, begin, csd_ran, form_path>>

\* no_xmlpost: start again with GET, where the probe began, on a new connection.
FallBack(c) ==
    /\ tries' = 0 /\ xmlpost' = FALSE
    /\ host' = Origin[1] /\ path' = Origin[2]
    /\ orig' = NULL
    /\ Close
    /\ asked' = asked + 1 /\ cert_retry' = FALSE
    /\ Ask("probe", FALSE)
    /\ UNCHANGED <<cancel, begin, csd_ran, form_path>>

\* A login without XML POST begins there.
NoXmlPost ==
    /\ pc = "newgroup" /\ ~xmlpost
    /\ FallBack(conn)
    /\ UNCHANGED <<cert, csd, stub>>

\* fail: fall back, or it was GET that failed.
GiveUp(c) ==
    \/ xmlpost /\ FallBack(c)
    \/ /\ ~xmlpost /\ Leave("EIO") /\ Keep(c)
       /\ UNCHANGED <<host, path, cancel, xmlpost, tries, orig,
                      begin, asked, cert_retry, csd_ran, form_path>>

ProbeCancelled ==
    /\ Answer("probe") /\ cancel = "read"
    /\ Leave("1")
    /\ UNCHANGED <<link, host, path, cancel, probe, scan>>

ProbeError ==
    /\ Answer("probe") /\ cancel # "read" /\ ret = "EIO"
    /\ Leave("EIO")
    /\ UNCHANGED <<link, host, path, cancel, probe, scan>>

ProbeRefused ==
    /\ Answer("probe") /\ cancel # "read" /\ ret = "EINVAL"
    /\ GiveUp(conn)
    /\ UNCHANGED <<cert, csd, stub>>

\* A redirect that XML POST may not follow, or one too many.
RedirectFails ==
    /\ Answer("probe") /\ cancel # "read" /\ Succeeded
    /\ \/ redirect_type = "LOCAL" /\ xmlpost
       \/ redirect_type # "NONE" /\ tries = 2
    /\ GiveUp(KeptConn)
    /\ UNCHANGED <<cert, csd, stub>>

\* No form in the answer, or one certificate request too many.
ParseFails ==
    /\ Answer("probe") /\ cancel # "read" /\ Succeeded /\ redirect_type = "NONE"
    /\ cert' \in {cert} \cup (IF cert = "unsent" THEN {"sent"} ELSE {})
    /\ ScanAsked
    /\ GiveUp(KeptConn)

\* Mutant: redirects have no limit.
FollowRedirectAlways ==
    /\ Answer("probe") /\ cancel # "read" /\ Succeeded
    /\ redirect_type = "NEWHOST" \/ (redirect_type = "LOCAL" /\ ~xmlpost)
    /\ tries' = tries + 1 /\ asked' = asked + 1 /\ cert_retry' = FALSE
    /\ Keep(KeptConn)
    /\ Ask("probe", FALSE)
    /\ UNCHANGED <<host, path, cancel, xmlpost, orig, begin, cert, scan>>

\* Mutant: a redirect is not counted.
FollowRedirectUncounted ==
    /\ Answer("probe") /\ cancel # "read" /\ Succeeded
    /\ redirect_type = "NEWHOST" \/ (redirect_type = "LOCAL" /\ ~xmlpost)
    /\ tries' = tries /\ asked' = asked /\ cert_retry' = FALSE
    /\ Keep(KeptConn)
    /\ Ask("probe", FALSE)
    /\ UNCHANGED <<host, path, cancel, xmlpost, orig, begin, cert, scan>>

\* The next of at most three requests, after a redirect ...
FollowRedirect ==
    /\ Answer("probe") /\ cancel # "read" /\ Succeeded
    /\ redirect_type = "NEWHOST" \/ (redirect_type = "LOCAL" /\ ~xmlpost)
    /\ tries < 2
    /\ tries' = tries + 1 /\ asked' = asked + 1 /\ cert_retry' = FALSE
    /\ Keep(KeptConn)
    /\ Ask("probe", FALSE)
    /\ UNCHANGED <<host, path, cancel, xmlpost, orig, begin, cert, scan>>

\* ... or after a request for a certificate, which is sent if it was not yet.
CertRequested ==
    /\ Answer("probe") /\ cancel # "read" /\ Succeeded /\ redirect_type = "NONE"
    /\ tries < 2
    /\ cert_retry' = (cert = "unsent")
    /\ cert' = IF cert = "unsent" THEN "sent" ELSE cert
    /\ ScanAsked
    /\ tries' = tries + 1 /\ asked' = asked + 1
    /\ Keep(KeptConn)
    /\ Ask("probe", FALSE)
    /\ UNCHANGED <<host, path, cancel, xmlpost, orig, begin, csd_ran,
                   form_path>>

\* A form: the probe is over.
FormFound ==
    /\ Answer("probe") /\ cancel # "read" /\ Succeeded /\ redirect_type = "NONE"
    /\ ScanAsked
    /\ FormAction(KeptConn)
    /\ pc' = "csd" /\ orig' = NULL
    /\ begin' = NULL /\ tries' = 0 /\ asked' = 0 /\ cert_retry' = FALSE
    /\ UNCHANGED <<call, cancel, xmlpost, cert, csd_ran, form_path, result>>

-----------------------------------------------------------------------------
NoScan ==
    /\ pc = "csd" /\ csd = "none"
    /\ pc' = "form"
    /\ UNCHANGED <<http, probe, scan, result>>

\* The stub script is fetched from wherever its URL points.
FetchStub ==
    /\ pc = "csd" /\ csd # "none" /\ stub
    /\ form_path' = path /\ stub' = FALSE
    /\ \E url \in Urls : Follow(handle_redirect(url, conn))
    /\ Ask("stub", FALSE)
    /\ UNCHANGED <<cancel, probe, csd, csd_ran>>

StubFails ==
    /\ Answer("stub") /\ ret # "len"
    /\ Leave("EINVAL")
    /\ UNCHANGED <<link, host, path, cancel, probe, scan>>

\* run_csd_script: the script runs, and the wait page is asked for; or it is not
\* allowed to run.
RunCsd ==
    /\ \/ pc = "csd" /\ csd # "none" /\ ~stub /\ form_path' = path
       \/ Answer("stub") /\ ret = "len" /\ UNCHANGED form_path
    /\ path' = "wait"
    /\ csd' = "none" /\ stub' = FALSE /\ csd_ran' = TRUE
    /\ Ask("wait", FALSE)
    /\ UNCHANGED <<link, host, cancel, probe>>

RunCsdFails ==
    /\ \/ pc = "csd" /\ csd # "none" /\ ~stub
       \/ Answer("stub") /\ ret = "len"
    /\ \E e \in Errors : Leave(e)
    /\ UNCHANGED <<link, host, path, cancel, probe, scan>>

\* The wait page says to come back.
WaitAgain ==
    /\ Answer("wait") /\ ret = "len"
    /\ Ask("wait", FALSE)
    /\ UNCHANGED <<link, host, path, cancel, probe, scan>>

\* The scan is over, or the wait page redirects: the form is asked for again.
WaitOver ==
    /\ Answer("wait") /\ Succeeded
    /\ path' = form_path /\ form_path' = "none"
    /\ Ask("refresh", TRUE)
    /\ UNCHANGED <<link, host, cancel, probe, csd, stub, csd_ran>>

\* A request after the probe failed, or its answer was not understood.
PageFails ==
    /\ (Answer("wait") /\ ret # "zero") \/ Answer("refresh") \/ Answer("submit")
    /\ Leave(IF Succeeded THEN "EINVAL" ELSE ret)
    /\ UNCHANGED <<link, host, path, cancel, probe, scan>>

Refreshed ==
    /\ Answer("refresh") /\ Succeeded
    /\ ScanAsked
    /\ pc' = "form"
    /\ UNCHANGED <<http, probe, csd_ran, form_path, result>>

-----------------------------------------------------------------------------
\* handle_auth_form: the form says that the login succeeded,
LoggedIn ==
    /\ pc = "form"
    /\ pc' = "config"
    /\ UNCHANGED <<http, probe, scan, result>>

\* it cannot be filled in (no password wanted, no fields, no handler),
FormFails ==
    /\ pc = "form"
    /\ \E e \in Errors : Leave(e)
    /\ UNCHANGED <<link, host, path, cancel, probe, scan>>

\* the user cancels,
UserCancels ==
    /\ pc = "form" /\ csd # "all"
    /\ Leave("1")
    /\ UNCHANGED <<link, host, path, cancel, probe, scan>>

\* chooses another group, which XML POST must ask the gateway for (without it
\* auth.c 770-778 only show the form again; process_auth_form_cb of
\* openconnectmain.c asks for this only where the form has a list of groups),
GroupChosen ==
    /\ pc = "form" /\ csd # "all" /\ xmlpost
    /\ pc' = "newgroup"
    /\ UNCHANGED <<http, probe, scan, result>>

\* or submits the form.  With a host scan asked for after the probe, an empty
\* form is submitted without asking the user.
Submit ==
    /\ pc = "form"
    /\ Ask("submit", TRUE)
    /\ UNCHANGED <<link, host, path, cancel, probe, scan>>

Submitted ==
    /\ Answer("submit") /\ Succeeded
    /\ ScanAsked
    /\ FormAction(conn)
    /\ pc' = "form"
    /\ UNCHANGED <<call, cancel, probe, csd_ran, form_path, result>>

\* fetch_config, if there is one to fetch: an answer cut short is waited for here
\* too, and otherwise its result is ignored, and what it did to the connection.
FetchConfig ==
    /\ pc = "config" /\ io = "idle"
    /\ \/ /\ conn' \in {conn, "none", IF conn = "none" THEN host ELSE conn}
          /\ unread' \in IF conn' = "none" THEN {"no"} ELSE {"no", "error", "extra", unread}
          /\ pc' = "done" /\ result' = "0" /\ UNCHANGED call
       \/ /\ io' = "spin"
          /\ UNCHANGED <<fetch, rq_retry, ret, link, pc, result>>
    /\ MayNoticeCancel
    /\ UNCHANGED <<host, path, redirect_type, probe, scan>>

Done == pc = "done" /\ UNCHANGED vars

Step ==
    \/ NewGroup \/ NewGroupFails \/ NoXmlPost
    \/ ProbeCancelled \/ ProbeError \/ ProbeRefused \/ RedirectFails \/ ParseFails
    \/ FollowRedirect \/ CertRequested \/ FormFound
    \/ NoScan \/ FetchStub \/ StubFails \/ RunCsd \/ RunCsdFails
    \/ WaitAgain \/ WaitOver \/ PageFails \/ Refreshed
    \/ LoggedIn \/ FormFails \/ UserCancels \/ GroupChosen \/ Submit \/ Submitted
    \/ FetchConfig
    \/ HttpStep /\ UNCHANGED login

Next ==
    \/ Step \/ Done
    \/ Spin /\ UNCHANGED login
    \/ pc # "done" /\ Cancel /\ UNCHANGED login

Spec == Init /\ [][Next]_vars

\* The thread of the login runs, a gateway answers or its connection breaks, and
\* the user does something with every form.
FairSpec == Spec /\ WF_vars(Step)
-----------------------------------------------------------------------------
\* do_https_request is at work.
Requesting == io \in {"open", "write", "read", "answer"}

\* No request is sent on the connection of one that failed half way: it would take
\* the rest of that answer for its own (http.c 251-255 and 354-395 return an error
\* without closing the connection; 950-955 reuse whatever connection there is), so
\* every caller must close it or give up.  An answer taken for complete is another
\* matter: what a gateway sends after the empty line that ends the loop over the
\* chunks (356), or after its Content-Length, is read by the next request.
NoStaleAnswer == Requesting => unread # "error"

\* A request is sent to the host it is for: whenever the name changes (a redirect,
\* a form's action, the stub, the fallback) the connection is given up.
RightHost == Requesting => conn \in {"none", host}

\* Three requests with XML POST and three without, and the probe is over: however
\* redirects, certificate requests and errors alternate (http.c 1058-1065).
ProbeBounded == asked <= 6

\* The fallback asks where the user, or the form that offered the group, pointed
\* to, not where the failed probe was led to (http.c 1087-1094).
FallBackAtOrigin ==
    pc = "probe" /\ ~xmlpost /\ tries = 0 /\ io = "open" => <<host, path>> = begin

\* A certificate that was asked for is offered on a new connection (http.c 1137:
\* "Try again on a fresh connection"): TLS asks for it only there.
CertOnNewConnection == cert_retry /\ io = "open" => conn = "none"

\* The probe comes to an end, whatever the gateway answers; only an answer that
\* is cut short keeps it from that.
ProbeEnds == pc = "probe" ~> (pc # "probe" \/ io = "spin")

\* A cancel ends the login, out of a redirect chain that never ends, the wait
\* page, or the forms; only an answer that is cut short keeps it from that.
CancelEnds == cancel # "no" ~> (pc = "done" \/ io = "spin")

\* A cancel ends the login (openconnect.h 350-353: a user interface "has the
\* ability to cancel that call, reap its thread and free the vpninfo structure").
CancelObeyed == cancel # "no" ~> pc = "done"
=============================================================================
