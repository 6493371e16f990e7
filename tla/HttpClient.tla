------------------------------ MODULE HttpClient ------------------------------
(***************************************************************************)
(* The HTTPS client of http.c: do_https_request with the connection it     *)
(* reuses, process_http_response with its many ways out, and               *)
(* handle_redirect.  A request is a call: the caller sets io to "open"     *)
(* with Call, and finds it "idle" again with the returned value in ret.    *)
(*                                                                         *)
(* A host stands for a name and a port, a path for a page: the user's, one *)
(* a URL of the gateway led to, or the host scan's wait page.  What a      *)
(* gateway answers is nondeterministic.  redirect_url is not kept: an      *)
(* answer may always hold a Location header, so one left over from an      *)
(* earlier answer adds nothing.  A cancel is a byte another thread writes  *)
(* into the command pipe ("sent"); it is obeyed where the client waits in  *)
(* select() and reads it ("read").                                         *)
(***************************************************************************)
EXTENDS Naturals

CONSTANT Hosts      \* host:port pairs; Gateway is the one the user gave
CONSTANT Gateway

ASSUME HostsAssumption == Gateway \in Hosts /\ Hosts \cap {"none", "here", "elsewhere"} = {}

VARIABLES
    io,             \* where do_https_request is, or "idle"
    fetch,          \* its argument fetch_redirect
    rq_retry,       \* the connection was reused: a failed write is retried
    ret,            \* its return value: "len" (> 0), "zero", or an error
    conn,           \* https_ssl: the host the connection was made to, or "none"
    unread,         \* what was left in it: "error", by a request that failed half way,
                    \* "extra", after what was taken for the end of an answer, or "no"
    host,           \* vpninfo->hostname and port
    path,           \* vpninfo->urlpath
    redirect_type,  \* vpninfo->redirect_type
    cancel          \* "no", "sent" or "read"

call == <<io, fetch, rq_retry, ret>>
link == <<conn, unread>>
target == <<host, path, redirect_type>>
http == <<call, link, target, cancel>>

Paths == {"start", "moved", "wait"}

\* A URL is absolute with https, absolute with another scheme ("elsewhere"), or
\* a path on the same host ("here").
Urls == Hosts \cup {"here", "elsewhere"}

Errors == {"EINVAL", "EIO"}

HttpTypeOK ==
    /\ io \in {"idle", "open", "write", "read", "answer", "spin"}
    /\ fetch \in BOOLEAN /\ rq_retry \in BOOLEAN
    /\ ret \in Errors \cup {"len", "zero"}
    /\ conn \in Hosts \cup {"none"} /\ unread \in {"no", "error", "extra"}
    /\ host \in Hosts /\ path \in Paths
    /\ redirect_type \in {"NONE", "NEWHOST", "LOCAL"}
    /\ cancel \in {"no", "sent", "read"}

HttpInit ==
    /\ io = "idle" /\ fetch = FALSE /\ rq_retry = FALSE /\ ret = "zero"
    /\ conn = "none" /\ unread = "no"
    /\ host = Gateway /\ path = "start"
    /\ redirect_type = "NONE"
    /\ cancel = "no"

-----------------------------------------------------------------------------
\* Another thread asks for the login to be cancelled.
Cancel == cancel = "no" /\ cancel' = "sent" /\ UNCHANGED <<call, link, target>>

\* A wait in select() may find the cancel that was sent.
MayNoticeCancel == cancel' \in {cancel} \cup (IF cancel = "no" THEN {} ELSE {"read"})

\* do_https_request is called; the type of an earlier redirect is forgotten.
Call(follow) ==
    /\ io' = "open" /\ fetch' = follow /\ redirect_type' = "NONE"
    /\ rq_retry' = FALSE /\ ret' = "zero"

Return(r) == io' = "idle" /\ ret' = r /\ fetch' = FALSE /\ rq_retry' = FALSE

\* openconnect_close_https.
Close == conn' = "none" /\ unread' = "no"

\* The connection stays (c = conn) or not (c = "none").
Keep(c) == conn' = c /\ unread' = IF c = "none" THEN "no" ELSE unread

\* A connection is reused if there is one.
Reuse ==
    /\ io = "open" /\ conn # "none"
    /\ io' = "write" /\ rq_retry' = TRUE
    /\ UNCHANGED <<fetch, ret, link, target, cancel>>

\* openconnect_open_https waits for the TCP connection and the TLS handshake,
\* and succeeds only if no cancel has been written by then.
Open ==
    /\ io = "open" /\ conn = "none" /\ cancel = "no"
    /\ conn' = host /\ unread' = "no"
    /\ io' = "write" /\ rq_retry' = FALSE
    /\ UNCHANGED <<fetch, ret, target, cancel>>

OpenFails ==
    /\ io = "open" /\ conn = "none"
    /\ MayNoticeCancel
    /\ \E e \in Errors : Return(e)
    /\ UNCHANGED <<link, target>>

Write ==
    /\ io = "write"
    /\ io' = "read" /\ rq_retry' = FALSE
    /\ UNCHANGED <<fetch, ret, link, target, cancel>>

\* A write fails: on a reused connection it is repeated with a new one; a new
\* connection is left as it is, with the request half written.
WriteFails ==
    /\ io = "write"
    /\ MayNoticeCancel
    /\ \/ rq_retry /\ Close /\ io' = "open" /\ rq_retry' = FALSE /\ UNCHANGED <<fetch, ret>>
       \/ ~rq_retry /\ unread' = "error" /\ Return("EIO") /\ UNCHANGED conn
    /\ UNCHANGED target

-----------------------------------------------------------------------------

\* The first byte of the answer arrives.  It is waited for, so a cancel that was
\* written before it is read instead (ReadCancelled).
FirstByte ==
    /\ io = "read" /\ cancel = "no"
    /\ io' = "answer"
    /\ UNCHANGED <<fetch, rq_retry, ret, link, target, cancel>>

ReadCancelled ==
    /\ io = "read" /\ cancel # "no"
    /\ cancel' = "read" /\ Close /\ Return("EINVAL")
    /\ UNCHANGED target

\* The connection breaks, or the answer is malformed: the connection is closed.
BadAnswer ==
    /\ io \in {"read", "answer"}
    /\ MayNoticeCancel
    /\ Close /\ (Return("EINVAL") \/ Return("EIO"))
    /\ UNCHANGED <<host, path, redirect_type>>

\* A cookie without a value, memory that runs out, or an error in a chunked body
\* ends process_http_response with the rest of the answer unread.
UnfinishedAnswer ==
    /\ io = "answer"
    /\ MayNoticeCancel
    /\ unread' = "error" /\ (Return("EINVAL") \/ Return("EIO"))
    /\ UNCHANGED <<conn, host, path, redirect_type>>

\* The gateway closes the connection before the body is complete: ssl_read
\* returns 0 and the loops over Content-Length and over a chunk go on for ever.
TruncatedAnswer ==
    /\ io = "answer"
    /\ io' = "spin"
    /\ UNCHANGED <<fetch, rq_retry, ret, link, host, path, redirect_type, cancel>>

Spin == io = "spin" /\ UNCHANGED http

-----------------------------------------------------------------------------
\* Mutant: the connection to the old host is kept.
handle_redirect_keeps_connection(url, c) ==
    [host |-> IF url \in Hosts THEN url ELSE host,
     path |-> IF url = "elsewhere" THEN path ELSE "moved",
     type |-> IF url \in Hosts \ {host} THEN "NEWHOST" ELSE "LOCAL",
     conn |-> c]

\* Where a URL leads to, given the connection c: another host needs another
\* connection, and a scheme other than https is refused.
handle_redirect(url, c) ==
    [host |-> IF url \in Hosts THEN url ELSE host,
     path |-> IF url = "elsewhere" THEN path ELSE "moved",
     type |-> IF url \in Hosts \ {host} THEN "NEWHOST" ELSE "LOCAL",
     conn |-> IF url \in Hosts \ {host} THEN "none" ELSE c]

\* The state after handle_redirect, except for the type.
Follow(r) ==
    host' = r.host /\ path' = r.path /\ Keep(r.conn)

\* An answer that is taken for complete leaves a connection that can be reused,
\* unless HTTP/1.0 or "Connection: close" ends it.
Reusable == {conn, "none"}

\* More may follow such an answer: an empty line where a chunk header should be
\* ends the loop over the chunks as if the body were complete.
KeepAnswered(c) ==
    conn' = c /\ (IF c = "none" THEN unread' = "no" ELSE unread' \in {unread, "extra"})

\* Status 200 and a body: the request is answered.  (Only a body that ends with
\* the connection can be there and empty.)
Answered ==
    /\ io = "answer"
    /\ MayNoticeCancel
    /\ \E c \in Reusable :
        KeepAnswered(c) /\ (Return("len") \/ (c = "none" /\ Return("zero")))
    /\ UNCHANGED <<host, path, redirect_type>>

\* Another status, and a redirect_url, from this answer or from an earlier one:
\* an error, the caller's business, or the next request.
Redirected ==
    /\ io = "answer"
    /\ MayNoticeCancel
    /\ \E c \in Reusable, url \in Urls :
        LET r == handle_redirect(url, c)
        IN  /\ host' = r.host /\ path' = r.path /\ KeepAnswered(r.conn)
            /\ \/ url = "elsewhere" /\ redirect_type' = r.type /\ Return("EINVAL")
               \/ url # "elsewhere" /\ ~fetch /\ redirect_type' = r.type /\ Return("zero")
               \/ url # "elsewhere" /\ fetch /\ Call(TRUE)

\* No body, or another status without a redirect.
Refused ==
    /\ io = "answer"
    /\ MayNoticeCancel
    /\ \E c \in Reusable : KeepAnswered(c)
    /\ Return("EINVAL")
    /\ UNCHANGED <<host, path, redirect_type>>

HttpStep ==
    \/ Reuse \/ Open \/ OpenFails \/ Write \/ WriteFails
    \/ FirstByte \/ ReadCancelled \/ BadAnswer \/ UnfinishedAnswer \/ TruncatedAnswer
    \/ Answered \/ Redirected \/ Refused
=============================================================================
