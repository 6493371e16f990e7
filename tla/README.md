# OpenConnectIOS: a TLA+ verification of the VPN client

OpenConnectIOS is a VPN client: the C library of openconnect (`src/openvpn/*.c`,
built with OpenSSL for both TLS and DTLS), an Objective-C wrapper around it, and
an iOS network extension. This directory models a session from its first HTTPS
request to its end: the login and the HTTP client under it, the way through a
proxy, the main loop with the two channels it feeds (CSTP over TLS and DTLS),
its timers and its packet queue, the commands that pause or end it; and the
packet tunnel provider of the extension.

All source paths below are relative to `src/openvpn/` unless they begin with
`src/`. `src/core/` repeats the same C files; the Xcode target compiles
`src/openvpn/`.

## 1. Inventory

### The parts and how they interact

| Part | Source | State it keeps | Operations |
|---|---|---|---|
| Main loop | `mainloop.c` 116-230 | `quit_reason`, `ret`, `did_work`, the sleep `timeout` | runs `dtls_mainloop`, `cstp_mainloop`, `tun_mainloop`, `poll_cmd_fd` in this order, repeats if anybody did work, else `select()` |
| Timers | `mainloop.c` 232-302 | `struct keepalive_info`: periods and `last_rx`, `last_tx`, `last_dpd`, `last_rekey`, one per channel | `keepalive_action`, `ka_stalled_action`, `ka_check_deadline` |
| CSTP connection | `cstp.c` 153-1048 | `ssl_fd`, `current_ssl_pkt`, `pending_deflated_pkt`, `deflate`, `owe_ssl_dpd_response`, the options of `ip_info` | the CONNECT exchange, read loop, `handle_outgoing`, keepalive switch, queue service, `cstp_reconnect`, `cstp_bye` |
| DTLS channel | `dtls.c` 112-888 | `dtls_state`, `dtls_fd`/`dtls_ssl`, `new_dtls_started`, `dtls_attempt_period` | `connect_dtls_socket`, `dtls_try_handshake`, `dtls_reconnect`, `dtls_close`, `dtls_mainloop` |
| Data path | `mainloop.c` 28-106, `cstp.c` 834-1012, `dtls.c` 824-888 | `outgoing_queue`, `outgoing_qlen`, `incoming_queue`, whether tun is monitored | `tun_mainloop`, the two send loops, the requeue in `cstp_reconnect` |
| Session control | `mainloop.c` 161-184, `cstp.c` 562-606, `ssl.c` 60-92 and 576-630 | the command pipe, `got_cancel_cmd`, `cancel_type`, `got_pause_cmd`, `reconnect_timeout/interval` | `check_cmd_fd`, `poll_cmd_fd`, `cancellable_connect`, pause, cancel, detach |
| TLS transport | `openssl.c`, `ssl.c` | `https_ssl`, `https_ctx`, the certificate | `openconnect_open_https`, `openconnect_close_https`, certificate checks |
| HTTP client, proxies | `http.c`, `ntlm.c`, `digest.c` | the TLS connection reused across requests, redirect target; the state and challenge of each proxy method, the helper's pipe | `do_https_request`, `process_http_response`, `handle_redirect`, `process_proxy`, `clear_auth_state` |
| Authentication | `auth.c`, `http.c` 1035-1310 | XML POST or not, certificate sent or not, tries, the origin to fall back to, the host scan | `openconnect_obtain_cookie`, `run_csd_script`, `handle_auth_form` |
| Tun device, script | `tun.c`, `script.c` | `tun_fd`, `script_tun` | `os_read_tun`, `os_write_tun`, `os_shutdown_tun` |
| Library API | `library.c` | settings | setters, `openconnect_setup_cmd_pipe` |
| Application | `openconnectmain.c`, `Wrapper.m` | options | calls `openconnect_mainloop` again after each pause |
| iOS provider | `src/PacketTunnel/PacketTunnelProvider.m` | `_outgoingBuffer`, `_UDPSession` | start, stop, reader callbacks, completion handlers |

One thread runs the main loop. The three inner loops share the outgoing queue
and the state of the DTLS channel: CSTP sends the queue unless DTLS is connected,
and a CSTP reconnect also restarts DTLS. Another thread (the application) writes
one-byte commands into a pipe, which is read at the end of a pass, between two
reconnect attempts, and inside an attempt; during a login and a proxy dialogue
every wait in `select()` watches it. A login is a sequence of calls of
`do_https_request`, which opens its connection through the proxy if there is one.
The gateway, the proxy and the network are the environment. In the extension,
blocks of a serial queue and completion handlers of the system run beside each
other and share a buffer and a session.

### What is hard about it

* **Deadlines that reach `select()` only as a side effect.** A deadline counts
  only if its test was reached and failed in the pass that goes to sleep; an
  early return, or a switch case that does not fall through to the next test,
  loses it.
* **A packet changes hands.** It is in the queue, or popped and not yet written,
  or compressed into a shared buffer with the original kept aside, when a write
  stalls, fails or is interrupted by a reconnect.
* **State read by one part and changed by another in the same pass.** DTLS
  becomes connected after its send loop had its turn and before CSTP has its.
* **A counter and an equality test** (`outgoing_qlen == max_qlen`) instead of a
  length and a comparison.
* **Commands race with everything**, and several may wait in the pipe.
* **Datagrams are lost** and the code only logs a failed send.
* **A connection is reused** by whoever asks next: what an early return left
  unread in it, and to which host it goes, is nobody's state.
* **Loops without a count**: redirects that are fetched at once, the wait page,
  reconnects to a proxy. Their ends rest on flags other functions set and reset.
* **Checked, then used**: the extension checks the session, empties the buffer
  and then writes to whatever session there is.

The list under `hazards` in `PROJECT.json` gives each at its line, with the
properties that would catch it going wrong.

### What makes each part correct

* Timers: a silent peer is given up in bounded time; one that answers is not; an
  idle connection sends keepalives; a probe does not make the next one due.
* DTLS: the state names the socket; a handshake does not last for ever; a lost
  probe is survived; data falls back to CSTP; all of it beside a CSTP that may
  keep the one thread to itself for minutes.
* Data path: every packet taken from tun is in exactly one place; each channel is
  in order; the queue is bounded; the loop does not sleep on it.
* Session control: a cancel ends the session, a pause is obeyed and can be
  resumed, retries are bounded, a detach leaves the session alive at the gateway,
  and the value returned says which of them it was.
* Session and CONNECT: the address stays the one the tun device has.
* HTTP: a request goes to its own host, and not on the connection of one that
  failed half way through its answer.
* Authentication: the probe ends, falls back to where it began, offers a
  certificate on a new connection; a cancel ends it all.
* Proxies: a method that failed is not used again, so reconnects end; no helper
  is left behind.
* iOS provider: no packet is lost or sent twice before a stop.

## 2. Modules

| Module | Models | Extends |
|---|---|---|
| `KeepaliveTimers` | `struct keepalive_info` and its three functions, as operators | - |
| `CstpTimers` | `cstp_mainloop` and the sleep, with time | `KeepaliveTimers` |
| `DtlsSession` | `dtls.c`'s state machine, with time | `KeepaliveTimers` |
| `Tunnel` | the data path through both channels, without time | - |
| `Relay` | what the data path promises (abstract) | - |
| `Session` | commands, reconnect attempts, the CONNECT exchange and the ways out | - |
| `HttpClient` | a request: connection, answer, redirect | - |
| `Login` | `openconnect_obtain_cookie`, composed with its requests | `HttpClient` |
| `Proxy` | connecting through an HTTP or SOCKS proxy | - |
| `PacketProvider` | the outgoing direction of the iOS provider | - |
| `CstpTimersProofs`, `DtlsSessionProofs`, `TunnelProofs`, `SessionProofs`, `ProxyProofs`, `LoginProofs`, `PacketProviderProofs` | theorems | their module, `TLAPS` |
| `TunnelCustodyProofs` | theorems on where packets are, and the refinement of `Relay` | `TunnelProofs` |

There are no separate MC modules: every constant is a number, a Boolean, a set of
strings or of model values, so the `.cfg` files instantiate the modules directly.

Definitions whose comment begins with "Mutant:" are variants of the definition
that follows them with a plausible mistake in it. They are used by no
specification; putting one in place of the original must break the property it
is listed with in `PROJECT.json`, which shows that the property can fail.

### KeepaliveTimers

A record of the four timestamps. `keepalive_action` and `ka_stalled_action`
return the first test that holds, as in the code; `Acted` is what they write;
`Shortened` and `ShortenedStalled` are what they do to the timeout - the deadline
of each test that was reached and failed. Note the two comparisons the code makes
of the same deadline: `>` in `keepalive_action` (line 278), `>=` in
`ka_stalled_action` (through `ka_check_deadline`, line 234).

### CstpTimers

`cstp_mainloop` is cut at its label `handle_outgoing`: "read" before it, "write"
at it, "decide" after it, and "reconnect" for `do_reconnect`. Each `goto` of the
code is an edge between these. Time may advance by `Slack` seconds within a pass
and otherwise only while the loop sleeps. The server answers a probe it gets
within `Rtt` seconds while it is alive. A reconnect takes no time here (its own
duration is the subject of `Session`) and packets have no identity (that is
`Tunnel`'s). REKEY_SSL on CSTP always ends in a new tunnel, because
`cstp_handshake` is not supported by the OpenSSL build (`openssl.c` 1443-1446).

### DtlsSession

`dtls_mainloop` from its three-way test on `dtls_state` through the read loop,
the keepalive switch and the send loop, and then everything else that touches
the channel in a pass: CSTP's reconnect, and the pause command. The outcomes of
`connect_dtls_socket` that disable further attempts, those that leave the attempt
time alone (a failing `socket`, `bind` or `connect`) and the first handshake try
are distinguished. CSTP's deadlines appear as `Other`, the longest sleep they
allow. A pass takes no time, with one exception: from `CstpLost` to
`CstpReconnects` (or a pause read there) the loop is held up inside
`cstp_reconnect` for as long as the environment likes, while datagrams arrive
unread and no clock of the channel is looked at. `held` counts these seconds since
the handshake began or the peer was last heard.

### Tunnel and Relay

A packet is a number in the order of the tun device. The variables are those of
the code; `sent`, `dropped` and `uncounted` (requeues that did not raise the
counter) are history. CSTP's hand is `current` with `held`
(a data packet) or `pending` (the original of the one compressed packet). The
pointer `pending_deflated_pkt` stays behind, stale, after the packet was sent, as
in the code. Clocks are left out: any of KA_REKEY, KA_DPD_DEAD, KA_DPD and
KA_KEEPALIVE may be returned at any time. `DtlsConnect` may leave the channel in
any of its states. `CstpReconnects` may find a gateway that no longer agrees to
compress, after which compression stays off (`cstp.c` 191-192 and 269-270); a
gateway that turns on compression that was not offered is not considered.
`MaxDrift` bounds how far `outgoing_qlen` may lag behind (without it the state
space is infinite, because the lag grows with every such reconnect).

`Relay` has three actions: take packets, pass one on, give one up. `Tunnel`
refines it with the queue and CSTP's hand mapped to the packets *carried*.

### Session

The pipe is a sequence of commands. `check_cmd_fd` reads one. It is called at the
end of a pass (only if no flag is set yet: `poll_cmd_fd`'s loop condition), by
`poll_cmd_fd` in the backoff until a flag is set, and inside a connection attempt,
where a cancel makes the attempt fail and a pause does so only while the TCP
connection is being made (`cancellable_connect`). `timeout` and `interval` are
the locals of `cstp_reconnect`; `attempts` and `waited` are history, how often it
tried and how long it waited. A cancel that interrupts the write of the CONNECT
request (whose result is ignored, `cstp.c` 219) or a read in the middle of a line
need not make the attempt fail: `ConnectInterrupted` has both outcomes.

An attempt has three waits: for the connection, for the status of the CONNECT
(with its one retry) and for the options. `addr` stands for each of the four
fields of `ip_info` that are compared with their old value (`cstp.c` 443-480);
`old_addr` is the local that holds it for one attempt. Two places are known in
which the thread does not come back: an address of the other family only is
compared with NULL ("crash"), and a 503 whose headers break off is read for ever
("spin"). They are states of the model, and count as an end of the session.

### HttpClient and Login

`HttpClient` is one call of `do_https_request` at a time: `io` is where it is,
`ret` what it returned. Of an answer only its way out matters: read to its end
(with or without the connection left open), malformed (connection closed), given
up in the middle (connection open, `unread` is "error"), cut short (the loops that
never end, "spin"), a redirect, or another status. An answer that is taken for
complete may be followed by more on a connection that is kept, because an empty
line ends the loop over the chunks (`http.c` 356): `unread` is then "extra". Hosts
stand for name and port. A cancel is a byte written at any moment; a call that
waits in `select()` reads it.

`Login` is what `openconnect_obtain_cookie` does between two calls: the probe
with its counter, its fallback, certificate requests and redirects; the host
scan, stub and wait page; forms, groups and the last request for a
configuration. `begin`, `asked` and `cert_retry` are history. What a form holds
and which of its fields are filled in is left out; what an answer says of a host
scan is one of three sets of strings (`csd`).

### Proxy

The states of the three methods and their challenges, as `handle_auth_proto`,
`proxy_authorization`, the `*_authorization` functions and `clear_auth_state`
write them, across any number of 407 answers, reconnects and later connections.
The methods are asked in the order of the table, and each either has a header,
fails with -EAGAIN, or passes. The proxy is not trusted: it may send an NTLM
challenge in any answer, also after one was answered, and each is answered again.
In two places the thread is lost ("spin"): a Digest challenge with an unknown
quoted parameter is the loop that never ends (`DigestSpins`), and a helper that
says nothing is waited for without a timeout (`HelperHangs`). `MaxCount` caps the
two histories that count.

### PacketProvider

Blocks of the serial queue (set-up, stop), the handler of `readTun` (three steps:
append, take, write), the one read of `tunToUDP`, and the completion handlers of
datagrams and batches. `Ipv4` is the batches a read may keep: packets of that
read, in their order. The buffer is only touched under `@synchronized`, so each
touch is one step; the check of the session and the write to it are two.
`setupUDPSession` is one step, although its check and its assignment (145 and 151)
are not locked. Messages to nil do nothing and call no handler. The histories
`kept`, `delivered` and `dropped` are about the batches of `readTun`; a packet of
`tunToUDP` is written to whatever session there is, nil included, and forgotten.
The system (NetworkExtension) is external: sessions become ready and cease to be
so, a write succeeds or fails.

## 3. Runs

| Run | Result | What it shows |
|---|---|---|
| `cstp_timers` | pass | `DeadPeerNoticed`, `NoFalseDeath`, `KeepaliveKept`, `PassEnds` for DPD 3, keepalive 2, rekey 9, slack 1, round trip 1, over 10 seconds |
| `dtls_session` | pass | `FdMatchesState`, `HandshakeBounded`, `DeadPeerNoticed`, `SurvivesLostProbe` without rekeying and with both methods |
| `tunnel` | pass | `Custody`, `QlenAccounted`, `QueueBounded`, `InOrder`, `NoSleepOnQueue`, `CompressedInHand`, and `Relay` implemented, with and without compression |
| `tunnel_qlen` | violation | `QlenMatches` with compression |
| `session` | pass | `CancelEnds`, `PauseObeyed`, `ReconnectBounded`, `DetachSaysNoBye`, `PausedIsResumable` |
| `session_reported` | violation | `EndAsDocumented` with one command |
| `session_address` | violation | `AddressKept` over two attempts |
| `login` | pass | `NoStaleAnswer`, `RightHost`, `ProbeBounded`, `FallBackAtOrigin`, `CertOnNewConnection`, `ProbeEnds`, `CancelEnds` |
| `login_cancel` | violation | `CancelObeyed`, when an answer is cut short |
| `proxy` | pass | `ReconnectsBounded`, `FailedForGood`, `NoHelperLeft`, `ProxyEnds`, `CancelEnds` |
| `proxy_tried` | violation | `TriedOnce` without a password |
| `provider` | pass | `Conservation`, `DroppedOnlyByStop` |

The passing runs check their module's `TypeOK` as well, except `cstp_timers` and
`tunnel`, whose types are proved.

### Why the bounds are enough

* Time: 10 seconds with a DPD of 3 hold a full silence (two and a half periods,
  with slack) and the start of another, on either channel. `Never` (INT_MAX) is
  far above every other number. A CSTP reconnect may take any part of the ten
  seconds, so it is shorter and longer than two DPD periods of DTLS.
* The DTLS handshake timeout and the attempt period are 3 and 2 seconds instead of
  12 and 60: only their order relative to the sleeps matters.
* Packets: a limit of 2 with 3 packets fills the queue, empties it, has one
  packet in hand, one requeued behind a second, and stops watching the device
  more than once. `MaxDrift` 2 allows two uncounted requeues.
* Commands: three, so that two may stand in the pipe behind the one being obeyed;
  a reconnect timeout of 4 with a first interval of 3, above the maximum of 2,
  gives a first attempt, two repeats, and the capped interval. Two addresses: the
  right one and a wrong one.
* Login: two hosts, so that a redirect may lead away and back. Nothing else is
  bounded: the counters of the code bound the probe, and the rest is finite.
* Proxy: the histories stop at 4, one above the number of methods.
* Provider: five packets in batches of one or two, and three changes of the
  session's state, so that a batch fails, is put back behind newer packets, and
  is taken again.

### Fairness

* `CstpTimers` (`PassEnds`): weak fairness of the steps inside a pass. It is one
  thread executing straight-line code on non-blocking sockets.
* `Session`: weak fairness of the loop's steps and of `Resume`. The backoff is
  bounded by its interval and the loop's `select()` by the deadlines; the
  application's loop (`Wrapper.m` 1424-1430) calls `openconnect_mainloop` again as
  soon as it returns 0. The `select()` calls inside a connection attempt have no
  timeout: that the gateway answers there, or that the connection breaks in the
  end, is assumed. Which of them is not, so attempts may fail for ever, and no
  fairness is assumed of the application's commands. `ReconnectBounded` is an
  invariant and needs none of this.
* `Login`, `Proxy`: weak fairness of the thread's steps taken together. A wait for
  a peer ends with an answer, a broken connection or a cancel; which of them is
  not assumed, so redirects and refusals may go on for ever.

### What the violations say

* `tunnel_qlen`: `cstp_reconnect` requeues without counting. The effect is that
  the queue may exceed `max_qlen` by the number of such reconnects, and no more
  (`QlenAccounted`, `QueueBounded`). `TunGate` still holds: the counter errs on the
  side that keeps the equality test reachable.
* `session_reported`: `mainloop.c` 108-111 documents -EINTR for a cancel and
  -ECONNABORTED for a detach. `cstp_reconnect` returns -EINTR for either when it was
  read by an attempt or in the backoff (`cstp.c` 595), and the error of the last
  attempt when it was read there (584). What the gateway is told is right
  (`DetachSaysNoBye`); what the application is told is not.
* `session_address`: the old address is taken down before the new one is known,
  and kept only in a local. After an attempt that fails behind the CONNECT request,
  the next accepts any address, while the tun device keeps the old one.
* `login_cancel`: the loops over a body end when it is complete or on an error;
  the end of the connection is neither. A cancel is not noticed there.
* `proxy_tried`: the reset that is meant for a successful connection is done after
  every dialogue, so a single sign-on that failed is tried again after the
  reconnect, for as long as the proxy offers NTLM. With a password it cannot
  happen (`ReconnectsBounded`), and a cancel ends it (`CancelEnds`).

Observations that are part of the models, but of no run of their own:

* The pass that completes a DTLS handshake sends nothing of the queue, and CSTP
  no longer does: `NoSleepOnQueue` holds with this exception. The same pass hands
  no keepalive deadline to `select()` (`dtls.c` 680), so without DPD a keepalive
  on DTLS may be late.
* A DPD period of one second: `openconnect_set_dpd` rounds it up to 2 so that
  `dpd / 2` is not 0 (`library.c` 272), but the values the gateway sends
  (`cstp.c` 345-348, `dtls.c` 615-618) are not rounded. With 1, an unanswered probe
  is due again in the same pass, until the clock moves on.
* A CSTP reconnect that takes longer than two DPD periods of DTLS makes the next
  pass give up a DTLS channel that rekeys itself, if no datagram waits to be read,
  although no probe was lost (`mainloop.c` 276). The bounds of `HandshakeBounded`
  and `DeadPeerNoticed` have the time of such reconnects on top, and
  `SurvivesLostProbe` is about channels that none has held up.
* An empty line where a chunk header is expected ends an answer, and the rest is
  read as the answer to the next request on that connection. `NoStaleAnswer` is
  about requests that failed.
* A proxy that meets every NTLM answer with a new challenge is answered for ever;
  a cancel ends that. No cancel is heard while `proxy_authorization` works: in the
  loop of `digest.c` 150 and in the reads of the helper (`ntlm.c` 205 and 232),
  contrary to `openconnect.h` 346-354. `ProxyEnds` and `CancelEnds` of the proxy name
  these exceptions.
* The "crash" and "spin" states named above.

## 4. Proofs

TLAPS checks the following for every value of the constants that satisfies the
named assumptions (`TimerAssumption`, `CstpAssumption`, `DtlsAssumption`,
`TunnelAssumption`, `SessionAssumption`, `CountAssumption`, `HostsAssumption`,
`ProviderAssumption`: periods, bounds and limits are natural numbers, the queue
limit is not 0, which `openconnectmain.c` 876-879 ensures, and the names of hosts
and addresses are not the words the models use for their absence). Two theorems
have a hypothesis on the environment besides, named below. All invariants were
checked by TLC first. Together the theorems state every invariant of the passing
runs, and the refinement.

`CstpTimersProofs`

* `TypeCorrect`: `Spec => []TypeOK`. The interesting part is that no sleep is
  negative: a deadline shortens the timeout only if its test failed, which makes
  it positive; and that the probe of an unanswered peer is computed from natural
  numbers only. `TypeOK` is inductive with these facts about `Shortened`.
* `DeadPeerNoticedAlways`: `Spec => []DeadPeerNoticed`. The property is not
  inductive: it bounds the clock, and the clock moves while the loop sleeps. The
  strengthening (`DeadlineInv`) says what a sleep may still add: asleep, the wake
  up time `now + timeout` is within the bound without slack; in a pass, the time
  at which the pass began (`now - busy`) is. The cases are the ways to fall
  asleep: after a probe, after KA_NONE, and stalled.
* `KeepaliveKeptAlways`: the same argument with `last_tx` (`KeepaliveInv`).
* `NoFalseDeathAlways`, under `PromptEnough`: `2 * Slack + Rtt <= Dpd`, and the
  horizon is below INT_MAX. No code can do without it: a machine that is slower
  than that finds the peer overdue before it could read the answer. It is tight:
  with Dpd 2, Slack 1 and Rtt 1 TLC shows a live server declared dead. The argument
  is in two invariants. `Punctual`: unless a write stalled, the loop is awake when a
  probe is due, up to the slack of the pass. `Heard`: the answer of a live server is
  on its way and will be there by `Latest`, or the probe is still in hand, or
  something arrived that the next pass reads. When `keepalive_action` is asked, the
  peer is then not overdue.

`DtlsSessionProofs`

* `TypeCorrect`, `FdMatchesStateAlways`: `ChannelInv`, which adds that the loop goes
  on to `keepalive_action` and to the send loop only with a connected channel, so
  that a rekey in place finds an open socket.
* `HandshakeBoundedAlways`, `DeadPeerNoticedAlways`: as for CSTP, the properties
  bound the clock and need what a sleep may still add (`HandshakeInv`,
  `DeadlineInv`). While CSTP connects again the clock and `held` advance together,
  so the bound moves with them. The case CSTP does not have is the pass that completes a
  handshake, which hands no deadline to `select()`: there the sleep is bounded by
  `Other`, counted from the handshake.
* `SurvivesLostProbeAlways`, under `AnswersInTime`: at most one probe is lost
  between two packets heard, an answer takes at most half a DPD period, and the
  horizon is below INT_MAX. A verdict counts as wrong only while `held` is 0.
  `AnswerInTime` says where the answer is: read, in the socket, on its way in
  time, or lost with a probe that went out early enough for another.

`TunnelProofs`, with or without compression

* `TunGateAlways`: `GateInv` adds only types; the one step that matters is
  `TunPass`: reading stops at the limit because the counter was below it before.
* `TypeAlways`: `TypeInv` adds what `TypeOK` leaves open about the hands: what is
  pending while a compressed packet is in hand is a packet.
* `QlenAccountedAlways`, `QueueBoundedAlways`: by `CountInv`, which says in
  addition that the counter is at most the limit.
* `CompressedInHandAlways`: inductive; what matters is the requeue at a reconnect.

`TunnelCustodyProofs`, with or without compression

* `CustodyAlways`: `CustodyInv` counts, for each packet, the places it is in: the
  queue, either kind of hand, what each channel has sent, what was given up. The
  sum is 1 for packets that were read and 0 for others. The lemmas say what
  `Append`, `Tail` and a batch from the tun device do to the count.
* `ImplementsRelayAlways`: under `CustodyInv` every action of `Tunnel` is one of
  `Relay`'s or leaves what is carried, passed on and lost as it is; the requeue at a
  reconnect is a stutter, which is the point of mapping hand and queue together.
* `InOrderAlways`: `OrderInv` orders what was sent, what is in hand and the queue
  one behind the other, as long as nothing was requeued.
* `NoSleepOnQueueAlways`: `SleepInv` follows the promise backwards through the pass:
  what each of the three loops leaves in the queue when nobody did work.

`SessionProofs`

* `DetachSaysNoByeAlways`, `PausedIsResumableAlways`: `SessionInv` says that a cancel
  is noted together with its type, that one which was read never gets back to the
  top of the loop, that there is no connection inside `cstp_reconnect` (so giving
  up there is not followed by a goodbye), and that the loop is not left with both
  a reason and a connection after a detach.
* `ReconnectBoundedAlways`: `BoundInv` relates the histories to the locals of
  `cstp_reconnect`: what was waited and what is left of the timeout add up to the
  whole, and each wait was a second at least.
* `TypeCorrect` adds the types of the pipe, the waits and the addresses.

`ProxyProofs`: `FailedForGoodAlways`, `NoHelperLeftAlways`,
`ReconnectsBoundedAlways` share `ProxyInv`: a helper's pipe is open only in state
SSO_REQ, which a client with a password never enters; and what failed stays so.
The step that matters is `Fail`, which raises the reconnects and the number of
failed methods together; the lemmas say what `clear_auth_state` keeps.
`TypeCorrect` says in addition which states each method may be in (`Own`): they
share one array, in which `ntlm.c` 41-43 uses numbers of its own.

`LoginProofs`, for any set of hosts

* `RightHostAlways`: the property holds between requests too (`HostInv`), when
  redirects, form actions and the fallback change the name.
* `ProbeBoundedAlways`, `FallBackAtOriginAlways`, `CertOnNewConnectionAlways`:
  `ProbeInv` ties the number of requests to `tries` (from 1 with XML POST, from 4
  after the fallback), the origin to where the probe began, and says that the
  probe does not let `do_https_request` fetch redirects itself.
* `NoStaleAnswerAlways`: `UnreadInv` says that the rest of an answer given up half
  way exists only under an error that was just returned, and every caller that sees
  an error gives up or closes the connection.
* `TypeCorrect`: from the invariants above, and `PlacesType`: while the stub or the
  wait page is asked for, the form's path is kept.

`PacketProviderProofs`

* `TypeCorrect`: `ReaderInv` says that the set-up block is queued once and before
  the reader is started, and that a batch is in hand exactly while it is written;
  without it a second set-up could start a reader in the middle of a batch.
* `ConservationAlways`: `CustodyInv` adds that what was kept is among what was read,
  so that a read brings packets nobody has seen. That a batch put back on failure
  and one taken meanwhile stay apart follows from the places being disjoint.
* `DroppedOnlyByStopAlways`: `StopInv`; a batch of `readTun` is taken while there is a
  session, and only a stop takes it away.

Only model-checked: the liveness properties (`PassEnds`; `CancelEnds` and
`PauseObeyed` of the session; `ProbeEnds` and `CancelEnds` of the
login; `ProxyEnds` and `CancelEnds` of the proxy), because fairness is out of the
prover's reach; and the violations, which are counterexamples. The bounds on time,
packets, commands and histories (`MaxTime`, `MaxPkt`, `MaxCmds`, `MaxDrift`,
`MaxCount`, `MaxPackets`, `MaxChanges`) are constants of the models: the theorems hold
for each of their values, so for behaviours of any length.

## 5. Not modelled

* The bytes: header layout, compression, checksums, the text of HTTP headers,
  URLs and XML, the cryptography of NTLM and Digest. No property here depends on
  them.
* What is in a form, software tokens (`stoken`, `oath`, `yubikey`), the list of
  cookies: the forms are the user's, and the calls make no further requests.
* TLS certificates and key storage, script environment, options, screens: no
  protocol state.
* The iOS provider's `interfaceDidChange` (76-99), which releases the session and
  sets it up again, and has no caller in the repository; its settings and its
  incoming direction, which keeps no state;
  the bridge, which moves bytes between a socket pair and the packet flow.
* A failed `fork` of the NTLM helper (`ntlm.c` 158-159), which leaves both ends of
  the pipe open although there is no helper.
* A reconnect interval of 0, with which `cstp_reconnect` would retry without a
  pause: `SessionAssumption` excludes it, because the applications pass
  `RECONNECT_INTERVAL_MIN` (`Wrapper.m` 1425).
* The GnuTLS, GSSAPI and Windows variants, which this build does not compile.
* `src/core/` (copies of `src/openvpn/`), libxml2 and OpenSSL: not this program's
  code. They are the bulk of the C in the repository (libxml2 alone is over
  300 000 of its 380 000 lines), so the share of the repository's lines that the
  map covers stays small whatever is modelled of the client.

## 6. Plan

Done: all modules above, with a theorem for every invariant of the passing runs
and for the refinement. What would add most from here:

1. Action properties beside the invariants: what no step of a proxy dialogue, a
   session or the data path may undo.
2. The seam between `Login` and `Session`: the first CONNECT reuses the connection
   the login leaves behind, unread bytes of `fetch_config` included.
3. `openconnect_setup_dtls` and the options of DTLS on a reconnect (session id,
   cipher, MTU), now outcomes in `DtlsSession`.
