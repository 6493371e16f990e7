------------------------------- MODULE Session -------------------------------
(***************************************************************************)
(* How a session goes on and how it ends: openconnect_mainloop and         *)
(* cstp_reconnect, the CONNECT request of start_cstp_connection and the    *)
(* options it is answered with, the commands another thread writes into    *)
(* the command pipe, and the value openconnect_mainloop returns.           *)
(*                                                                         *)
(* The loop is at "loop" (dtls, cstp and tun have their turn), at "poll"   *)
(* (poll_cmd_fd at the end of a pass), inside cstp_reconnect ("connecting" *)
(* to the gateway, waiting for the "status" of the CONNECT, reading the    *)
(* "options", or "backoff"), at "exit" (after the loop), and back in the   *)
(* application at "paused" or "done".  Two places end a session otherwise: *)
(* "crash" and "spin".                                                     *)
(*                                                                         *)
(* ip_info has four fields that must survive a reconnect, each kept and    *)
(* compared in the same way: addr stands for any one of them.              *)
(***************************************************************************)
EXTENDS Integers, Sequences

CONSTANTS
    ReconnectTimeout,   \* the two arguments of openconnect_mainloop
    ReconnectInterval,
    IntervalMax,        \* RECONNECT_INTERVAL_MAX
    MaxCmds,            \* bound on the commands the application sends
    Addrs,              \* addresses a gateway may assign
    TunAddr             \* the one the tun device was configured with

ASSUME SessionAssumption ==
    /\ ReconnectTimeout \in Nat
    /\ ReconnectInterval \in Nat \ {0}
    /\ IntervalMax \in Nat \ {0}
    /\ MaxCmds \in Nat
    /\ TunAddr \in Addrs /\ "NULL" \notin Addrs

VARIABLES
    pc,           \* where the thread of the main loop is
    pipe,         \* bytes in the command pipe
    cmds,         \* number of commands sent so far
    got_cancel,   \* vpninfo->got_cancel_cmd
    cancel_type,  \* vpninfo->cancel_type
    got_pause,    \* vpninfo->got_pause_cmd
    ssl_up,       \* vpninfo->ssl_fd is not -1
    tun_up,       \* the tun device is in use
    timeout,      \* the two locals of cstp_reconnect
    interval,
    ret,          \* the variable ret of openconnect_mainloop
    quit,         \* vpninfo->quit_reason is set
    bye,          \* cstp_bye told the gateway to end the session
    addr,         \* vpninfo->ip_info.addr
    old_addr,     \* the two locals of start_cstp_connection
    retried,
    attempts,     \* history: attempts begun and seconds waited in this call of
    waited        \* cstp_reconnect

flags == <<got_cancel, cancel_type, got_pause>>
backoff == <<timeout, interval>>
result == <<ret, quit, bye, tun_up>>
options == <<addr, old_addr, retried>>
history == <<attempts, waited>>
vars == <<pc, pipe, cmds, flags, ssl_up, backoff, result, options, history>>

Commands == {"CANCEL", "DETACH", "PAUSE", "STATS"}
Ended == {"done", "crash", "spin"}
Reconnecting == {"connecting", "status", "options", "backoff"}
Errors == {"EINTR", "ECONNABORTED", "EPIPE", "EPERM", "EINVAL", "EIO"}

TypeOK ==
    /\ pc \in {"loop", "poll", "connecting", "status", "options", "backoff", "exit", "paused"}
              \cup Ended
    /\ pipe \in Seq(Commands) /\ cmds \in 0..MaxCmds
    /\ got_cancel \in BOOLEAN /\ got_pause \in BOOLEAN
    /\ cancel_type \in {"none", "CANCEL", "DETACH"}
    /\ ssl_up \in BOOLEAN /\ tun_up \in BOOLEAN
    /\ timeout \in Int /\ interval \in Nat
    /\ ret \in Errors \cup {"0"}
    /\ quit \in BOOLEAN /\ bye \in BOOLEAN
    /\ {addr, old_addr} \subseteq Addrs \cup {"NULL"} /\ retried \in BOOLEAN
    /\ attempts \in Nat /\ waited \in Nat

Init ==
    /\ pc = "loop" /\ pipe = <<>> /\ cmds = 0
    /\ got_cancel = FALSE /\ cancel_type = "none" /\ got_pause = FALSE
    /\ ssl_up = TRUE /\ tun_up = TRUE
    /\ timeout = 0 /\ interval = 0
    /\ ret = "0" /\ quit = FALSE /\ bye = FALSE
    /\ addr = TunAddr /\ old_addr = "NULL" /\ retried = FALSE
    /\ attempts = 0 /\ waited = 0

-----------------------------------------------------------------------------
\* Another thread writes a command.
Send(c) ==
    /\ cmds < MaxCmds /\ pc \notin Ended
    /\ pipe' = Append(pipe, c) /\ cmds' = cmds + 1
    /\ UNCHANGED <<pc, flags, ssl_up, backoff, result, options, history>>

\* Mutant: a detach is not among the commands that cancel.
check_cmd_fd_no_detach ==
    LET c == Head(pipe)
    IN  /\ pipe # <<>>
        /\ pipe' = Tail(pipe)
        /\ got_cancel' = (got_cancel \/ c = "CANCEL")
        /\ cancel_type' = IF c = "CANCEL" THEN c ELSE cancel_type
        /\ got_pause' = (got_pause \/ c = "PAUSE")

\* Mutant: every command is taken for the type of a cancel.
check_cmd_fd_any_type ==
    LET c == Head(pipe)
    IN  /\ pipe # <<>>
        /\ pipe' = Tail(pipe)
        /\ got_cancel' = (got_cancel \/ c \in {"CANCEL", "DETACH"})
        /\ cancel_type' = c
        /\ got_pause' = (got_pause \/ c = "PAUSE")

\* check_cmd_fd reads one byte and sets the flags.
check_cmd_fd ==
    LET c == Head(pipe)
    IN  /\ pipe # <<>>
        /\ pipe' = Tail(pipe)
        /\ got_cancel' = (got_cancel \/ c \in {"CANCEL", "DETACH"})
        /\ cancel_type' = IF c \in {"CANCEL", "DETACH"} THEN c ELSE cancel_type
        /\ got_pause' = (got_pause \/ c = "PAUSE")

\* openconnect_mainloop leaves its loop with this reason and value.
Leave(reason, r) == quit' = reason /\ ret' = r /\ pc' = "exit" /\ UNCHANGED <<bye, tun_up>>

\* A pass in which CSTP had nothing to complain about.
Pass ==
    /\ pc = "loop" /\ ssl_up
    /\ pc' = "poll"
    /\ UNCHANGED <<pipe, cmds, flags, ssl_up, backoff, result, options, history>>

\* The gateway ends the session, or sends what cstp_mainloop does not know.
ServerEnds ==
    /\ pc = "loop" /\ ssl_up
    /\ \E r \in {"EPIPE", "EIO"} : Leave(TRUE, r)
    /\ UNCHANGED <<pipe, cmds, flags, ssl_up, backoff, options, history>>

\* The connection is lost, or was closed by a pause: cstp_reconnect begins.
LinkLost ==
    /\ pc = "loop"
    /\ ssl_up' = FALSE
    /\ timeout' = ReconnectTimeout /\ interval' = ReconnectInterval
    /\ attempts' = 1 /\ waited' = 0
    /\ pc' = "connecting"
    /\ UNCHANGED <<pipe, cmds, flags, result, options>>

-----------------------------------------------------------------------------
\* openconnect_open_https succeeds and the CONNECT request is written.  The old
\* options are taken down before the new ones are known.
Opened ==
    /\ pc = "connecting"
    /\ old_addr' = addr /\ addr' = "NULL" /\ retried' = FALSE
    /\ pc' = "status"
    /\ UNCHANGED <<pipe, cmds, flags, ssl_up, backoff, result, history>>

\* openconnect_make_cstp_connection failed with r: the last attempt, or a
\* refused cookie, ends the session; otherwise cstp_reconnect waits.
AttemptFailed(r) ==
    IF timeout <= 0 \/ r = "EPERM"
    THEN Leave(TRUE, r)
    ELSE pc' = "backoff" /\ UNCHANGED result

\* The gateway cannot be reached.
OpenFails ==
    /\ pc = "connecting"
    /\ AttemptFailed("EINVAL")
    /\ UNCHANGED <<pipe, cmds, flags, ssl_up, backoff, options, history>>

\* The connection is lost before the status: once, it is opened again.  A cancel
\* noted before that ends the attempt instead.
StatusLost ==
    /\ pc = "status"
    /\ \/ ~retried /\ ~got_cancel /\ retried' = TRUE /\ UNCHANGED <<pc, result>>
       \/ ~retried /\ retried' = TRUE /\ AttemptFailed("EIO")
       \/ retried /\ AttemptFailed("EINVAL") /\ UNCHANGED retried
       \/ got_cancel /\ AttemptFailed("EINTR") /\ UNCHANGED retried
    /\ UNCHANGED <<pipe, cmds, flags, ssl_up, backoff, addr, old_addr, history>>

\* 401 (EPERM), 503, or any other status.
StatusRefused ==
    /\ pc = "status"
    /\ \E r \in {"EINVAL", "EPERM"} : AttemptFailed(r)
    /\ UNCHANGED <<pipe, cmds, flags, ssl_up, backoff, options, history>>

\* 503, and the connection is lost before the reason: the loop that looks for it
\* takes an error for a line that is something else.
StatusSpins ==
    /\ pc = "status"
    /\ pc' = "spin"
    /\ UNCHANGED <<pipe, cmds, flags, ssl_up, backoff, result, options, history>>

StatusOk ==
    /\ pc = "status"
    /\ pc' = "options"
    /\ UNCHANGED <<pipe, cmds, flags, ssl_up, backoff, result, options, history>>

\* The connection is lost between two options, an option is no good, there is no
\* MTU or no address, or a cancel was noted before: the address stays as far as it
\* was read.
OptionsFail ==
    /\ pc = "options"
    /\ addr' \in Addrs \cup {"NULL"}
    /\ \E r \in {"EINVAL", "EIO"} \cup (IF got_cancel THEN {"EINTR"} ELSE {}) : AttemptFailed(r)
    /\ UNCHANGED <<pipe, cmds, flags, ssl_up, backoff, old_addr, retried, history>>

\* All options are there, with an address or with one of the other family only
\* (NULL).  The old address, if it is still known, must be the new one: another is
\* refused, and none at all is passed to strcmp.
OptionsRead ==
    /\ pc = "options"
    /\ addr' \in Addrs \cup {"NULL"}
    /\ \/ /\ old_addr \in {"NULL", addr'}
          /\ ssl_up' = TRUE /\ pc' = "poll" /\ UNCHANGED result
       \/ /\ old_addr \notin {"NULL", addr'} /\ addr' # "NULL"
          /\ AttemptFailed("EINVAL") /\ UNCHANGED ssl_up
       \/ /\ old_addr # "NULL" /\ addr' = "NULL"
          /\ pc' = "crash" /\ UNCHANGED <<ssl_up, result>>
    /\ UNCHANGED <<pipe, cmds, flags, backoff, old_addr, retried, history>>

\* A command is read during the attempt.  A cancel makes it fail, or is only noted:
\* while the CONNECT request is written, the result of which nobody looks at, and in
\* the middle of a line, which is then taken as it is.  A pause makes it fail while
\* the TCP connection is being made, and is only noted after that.
ConnectInterrupted ==
    /\ pc \in {"connecting", "status", "options"}
    /\ check_cmd_fd
    /\ \/ got_cancel' /\ \E r \in {"EINVAL", "EINTR"} : AttemptFailed(r)
       \/ pc = "connecting" /\ ~got_cancel' /\ got_pause' /\ AttemptFailed("EINVAL")
       \/ ~got_cancel' /\ UNCHANGED <<pc, result>>
       \/ pc # "connecting" /\ got_cancel' /\ UNCHANGED <<pc, result>>
    /\ IF pc = "options" /\ pc' # pc THEN addr' \in Addrs \cup {"NULL"} ELSE UNCHANGED addr
    /\ UNCHANGED <<cmds, ssl_up, backoff, old_addr, retried, history>>

\* poll_cmd_fd between two attempts: it stops at the first cancel or pause.
BackoffReads ==
    /\ pc = "backoff" /\ ~got_cancel /\ ~got_pause
    /\ check_cmd_fd
    /\ UNCHANGED <<pc, cmds, ssl_up, backoff, result, options, history>>

\* Mutant: the time spent is not subtracted.
BackoffEndsForever ==
    /\ pc = "backoff" /\ (got_cancel \/ got_pause \/ pipe = <<>>)
    /\ \/ /\ got_cancel
          /\ Leave(TRUE, "EINTR") /\ UNCHANGED <<backoff, history>>
       \/ /\ ~got_cancel /\ got_pause
          /\ pc' = "poll" /\ UNCHANGED <<backoff, result, history>>
       \/ /\ ~got_cancel /\ ~got_pause
          /\ attempts' = attempts + 1 /\ waited' = waited + interval
          /\ pc' = "connecting" /\ UNCHANGED <<backoff, result>>
    /\ UNCHANGED <<pipe, cmds, got_cancel, cancel_type, got_pause, ssl_up, options>>

\* The wait is over: a cancel ends the session, a pause leaves cstp_reconnect as
\* if it had succeeded, and otherwise the next attempt follows.
BackoffEnds ==
    /\ pc = "backoff" /\ (got_cancel \/ got_pause \/ pipe = <<>>)
    /\ \/ /\ got_cancel
          /\ Leave(TRUE, "EINTR") /\ UNCHANGED <<backoff, history>>
       \/ /\ ~got_cancel /\ got_pause
          /\ pc' = "poll" /\ UNCHANGED <<backoff, result, history>>
       \/ /\ ~got_cancel /\ ~got_pause
          /\ timeout' = timeout - interval
          /\ interval' = IF interval + ReconnectInterval > IntervalMax
                         THEN IntervalMax ELSE interval + ReconnectInterval
          /\ attempts' = attempts + 1 /\ waited' = waited + interval
          /\ pc' = "connecting" /\ UNCHANGED result
    /\ UNCHANGED <<pipe, cmds, got_cancel, cancel_type, got_pause, ssl_up, options>>

-----------------------------------------------------------------------------
\* poll_cmd_fd(0) at the end of a pass reads one byte, unless a flag is set.
PolledFlags ==
    IF got_cancel \/ got_pause \/ pipe = <<>>
    THEN UNCHANGED <<pipe, flags>>
    ELSE check_cmd_fd

\* Nothing to obey: the next pass, now or after select().
PollNothing ==
    /\ pc = "poll"
    /\ PolledFlags
    /\ ~got_cancel' /\ ~got_pause'
    /\ pc' = "loop"
    /\ UNCHANGED <<cmds, ssl_up, backoff, result, options, history>>

\* Mutant: a detach is treated as a cancel.
PollCancelAny ==
    /\ pc = "poll"
    /\ PolledFlags
    /\ got_cancel'
    /\ Leave(TRUE, "EINTR")
    /\ UNCHANGED <<cmds, ssl_up, backoff, options, history>>

\* OC_CMD_CANCEL and OC_CMD_DETACH: only the first gives a quit_reason.
PollCancel ==
    /\ pc = "poll"
    /\ PolledFlags
    /\ got_cancel'
    /\ IF cancel_type' = "CANCEL" THEN Leave(TRUE, "EINTR")
                                  ELSE Leave(FALSE, "ECONNABORTED")
    /\ UNCHANGED <<cmds, ssl_up, backoff, options, history>>

\* Mutant: the pause flag is not cleared.
PollPauseSticky ==
    /\ pc = "poll" /\ ~got_cancel
    /\ \/ got_pause /\ pipe' = pipe
       \/ ~got_pause /\ pipe # <<>> /\ Head(pipe) = "PAUSE" /\ pipe' = Tail(pipe)
    /\ got_pause' = TRUE
    /\ ssl_up' = FALSE
    /\ ret' = "0" /\ pc' = "paused"
    /\ UNCHANGED <<cmds, got_cancel, cancel_type, backoff, quit, bye, tun_up, options, history>>

\* Mutant: the connection is kept.
PollPauseKeepsLink ==
    /\ pc = "poll" /\ ~got_cancel
    /\ \/ got_pause /\ pipe' = pipe
       \/ ~got_pause /\ pipe # <<>> /\ Head(pipe) = "PAUSE" /\ pipe' = Tail(pipe)
    /\ got_pause' = FALSE
    /\ ssl_up' = ssl_up
    /\ ret' = "0" /\ pc' = "paused"
    /\ UNCHANGED <<cmds, got_cancel, cancel_type, backoff, quit, bye, tun_up, options, history>>

\* OC_CMD_PAUSE closes the connections, keeps the tun device, and returns 0.
PollPause ==
    /\ pc = "poll" /\ ~got_cancel
    /\ \/ got_pause /\ pipe' = pipe
       \/ ~got_pause /\ pipe # <<>> /\ Head(pipe) = "PAUSE" /\ pipe' = Tail(pipe)
    /\ got_pause' = FALSE
    /\ ssl_up' = FALSE
    /\ ret' = "0" /\ pc' = "paused"
    /\ UNCHANGED <<cmds, got_cancel, cancel_type, backoff, quit, bye, tun_up, options, history>>

\* The application calls openconnect_mainloop again.
Resume ==
    /\ pc = "paused"
    /\ pc' = "loop"
    /\ UNCHANGED <<pipe, cmds, flags, ssl_up, backoff, result, options, history>>

\* After the loop: cstp_bye, if there is a reason and still a connection; the
\* tun device is shut down.
Exit ==
    /\ pc = "exit"
    /\ bye' = (quit /\ ssl_up)
    /\ ssl_up' = (ssl_up /\ ~quit)
    /\ tun_up' = FALSE
    /\ pc' = "done"
    /\ UNCHANGED <<pipe, cmds, flags, backoff, ret, quit, options, history>>

Done == pc \in Ended /\ UNCHANGED vars

Step ==
    \/ Pass \/ ServerEnds \/ LinkLost
    \/ Opened \/ OpenFails \/ StatusLost \/ StatusRefused \/ StatusSpins \/ StatusOk
    \/ OptionsFail \/ OptionsRead \/ ConnectInterrupted \/ BackoffReads \/ BackoffEnds
    \/ PollNothing \/ PollCancel \/ PollPause \/ Exit

Next == Step \/ Resume \/ Done \/ \E c \in Commands : Send(c)

Spec == Init /\ [][Next]_vars

\* The loop is a thread that is always scheduled, its waits between attempts are
\* bounded by interval and its select() by the keepalive deadlines, and an application
\* that paused resumes.  The select() calls inside a connection attempt (cancellable_-
\* connect, the TLS handshake, the reads of the status and the options) have no
\* timeout: there WF(Step) assumes of the environment that the gateway answers or the
\* connection breaks in the end.
FairSpec == Spec /\ WF_vars(Step) /\ WF_vars(Resume)
-----------------------------------------------------------------------------
\* A cancel or a detach ends the session, whatever is going on: passes, reconnect
\* attempts, backoff, or a pause that was sent before it.  (Two ways to hang or to
\* crash inside start_cstp_connection are known, see StatusSpins and OptionsRead.)
CancelEnds ==
    (\E i \in DOMAIN pipe : pipe[i] \in {"CANCEL", "DETACH"}) ~> pc \in Ended

\* A pause is obeyed, or the session ends: it is not lost in a reconnect.  One that is
\* only noted by a read inside an attempt waits for that attempt to end.
PauseObeyed == got_pause ~> (~got_pause \/ pc \in Ended)

\* The longest wait between two attempts: the first is not capped.
LongestInterval == IF ReconnectInterval > IntervalMax THEN ReconnectInterval ELSE IntervalMax

\* However often the gateway fails, at whatever stage, cstp_reconnect does not go on
\* for ever (cstp.c 583-603): the waits add up to less than the timeout and one
\* interval more, the first of which may be above the maximum, and every attempt but
\* the first follows a wait of at least a second.
ReconnectBounded ==
    pc \in Reconnecting =>
        /\ attempts <= ReconnectTimeout + 1
        /\ waited < ReconnectTimeout + LongestInterval

\* A detach leaves the session at the gateway: it never says goodbye, not even
\* when the detach is read by a connection attempt or between two of them
\* (mainloop.c 161-170: only a cancel gives cstp_bye a reason).
DetachSaysNoBye == bye => cancel_type # "DETACH"

\* While the application may call again, the tun device is still there, and the
\* next pass begins with a reconnect.
PausedIsResumable == pc = "paused" => tun_up /\ ~ssl_up /\ ~quit /\ ~got_cancel

\* The return values mainloop.c 108-111 documents: -EINTR if the session was aborted
\* by OC_CMD_CANCEL, -ECONNABORTED if by OC_CMD_DETACH.
EndAsDocumented ==
    pc = "done" =>
        /\ ret = "EINTR" => cancel_type = "CANCEL"
        /\ ret = "ECONNABORTED" => cancel_type = "DETACH"

\* A session goes on only with the address the tun device has (cstp.c 443-450:
\* "Reconnect gave different Legacy IP address" is an error).
AddressKept == pc \in {"loop", "poll"} /\ ssl_up => addr = TunAddr
=============================================================================
