---------------------------- MODULE SessionProofs ----------------------------
(***************************************************************************)
(* For every timeout and interval, any number of commands and any set of   *)
(* addresses: a detach never says goodbye, a paused session can be         *)
(* resumed, and a reconnect is bounded.                                    *)
(***************************************************************************)
EXTENDS Session, TLAPS

\* A cancel is noted together with its type.
CancelKnown ==
    \/ got_cancel /\ cancel_type \in {"CANCEL", "DETACH"}
    \/ ~got_cancel /\ cancel_type = "none"

Flags ==
    /\ got_cancel \in BOOLEAN /\ got_pause \in BOOLEAN
    /\ ssl_up \in BOOLEAN /\ tun_up \in BOOLEAN
    /\ quit \in BOOLEAN /\ bye \in BOOLEAN

\* Where the flags stand while the thread is in the loop or in cstp_reconnect: a
\* cancel that was read never gets back to "loop", and there is no connection in
\* cstp_reconnect, so that what it gives up for is not followed by a goodbye.
RunningInv ==
    /\ CancelKnown
    /\ pc \in {"loop", "paused"} => ~got_cancel
    /\ pc \in {"connecting", "status", "options", "backoff", "paused"} => ~ssl_up
    /\ quit => pc \in {"exit", "done"}
    /\ ~tun_up => pc = "done"

\* What holds once the loop has been left.
EndInv ==
    /\ pc = "exit" /\ quit /\ ssl_up => cancel_type # "DETACH"
    /\ bye => pc = "done" /\ quit /\ cancel_type # "DETACH"

SessionInv == Flags /\ RunningInv /\ EndInv

\* check_cmd_fd (ssl.c 576-604) keeps the type of a cancel with its flag.
LEMMA CommandRead ==
    ASSUME SessionInv, check_cmd_fd
    PROVE  /\ got_cancel' \in BOOLEAN /\ got_pause' \in BOOLEAN
           /\ CancelKnown'
<1>1. got_cancel' \in BOOLEAN /\ got_pause' \in BOOLEAN
  BY Zenon DEF check_cmd_fd
<1>2. CancelKnown'
  BY DEF check_cmd_fd, SessionInv, RunningInv, CancelKnown
<1> QED
  BY <1>1, <1>2

\* A step that leaves the loop, or stays in cstp_reconnect, after an attempt that
\* failed for a reason r.
LEMMA FailedAttempt ==
    ASSUME SessionInv, NEW r \in {"EINVAL", "EPERM", "EIO", "EINTR"},
           pc \in {"connecting", "status", "options"},
           AttemptFailed(r), UNCHANGED ssl_up,
           got_cancel' \in BOOLEAN, got_pause' \in BOOLEAN,
           CancelKnown'
    PROVE  SessionInv'
<1>1. ~ssl_up /\ ~quit /\ ~bye /\ tun_up
  BY DEF SessionInv, RunningInv, EndInv, Flags
<1>2. CASE Leave(TRUE, r)
  BY <1>1, <1>2 DEF Leave, SessionInv, Flags, RunningInv, EndInv
<1>3. CASE pc' = "backoff" /\ UNCHANGED result
  BY <1>1, <1>3 DEF result, SessionInv, Flags, RunningInv, EndInv
<1> QED
  BY <1>2, <1>3 DEF AttemptFailed

\* A step inside the loop or cstp_reconnect that reads no command.
LEMMA Running ==
    ASSUME SessionInv, pc \notin {"exit", "done"}, UNCHANGED <<flags, result>>,
           pc' \in {"loop", "poll", "connecting", "status", "options", "backoff",
                    "paused", "crash", "spin"},
           ssl_up' \in BOOLEAN,
           pc' \in {"loop", "paused"} => ~got_cancel,
           pc' \in {"connecting", "status", "options", "backoff", "paused"} => ~ssl_up'
    PROVE  SessionInv'
  BY DEF flags, result, SessionInv, Flags, RunningInv, EndInv, CancelKnown

LEMMA SessionStep == SessionInv /\ [Next]_vars => SessionInv'
<1> SUFFICES ASSUME SessionInv, [Next]_vars PROVE SessionInv'
  OBVIOUS
<1>0. /\ Flags /\ RunningInv /\ EndInv
      /\ ssl_up \in BOOLEAN
      /\ pc \notin {"exit", "done"} => ~quit /\ ~bye /\ tun_up
  BY DEF SessionInv, Flags, RunningInv, EndInv
<1>1. CASE (\E c \in Commands : Send(c)) \/ Done \/ UNCHANGED vars
  BY <1>1 DEF Send, Done, vars, flags, result, SessionInv, Flags, RunningInv, EndInv, CancelKnown
<1>2. CASE Pass \/ LinkLost \/ Opened \/ StatusSpins \/ StatusOk \/ Resume
  <2>1. CASE Pass \/ Resume
    BY <1>0, <2>1, Running DEF Pass, Resume, RunningInv
  <2>2. CASE LinkLost
    BY <1>0, <2>2, Running DEF LinkLost
  <2>3. CASE Opened \/ StatusSpins \/ StatusOk
    BY <1>0, <2>3, Running DEF Opened, StatusSpins, StatusOk, RunningInv
  <2> QED
    BY <1>2, <2>1, <2>2, <2>3
<1>3. CASE ServerEnds
  BY <1>0, <1>3 DEF ServerEnds, Leave, flags, SessionInv, Flags, RunningInv, EndInv, CancelKnown
<1>4. CASE OpenFails \/ StatusRefused \/ OptionsFail
  BY <1>0, <1>4, FailedAttempt
     DEF OpenFails, StatusRefused, OptionsFail, flags, Flags, RunningInv, CancelKnown
<1>5. CASE StatusLost
  <2>1. CASE UNCHANGED <<pc, result>>
    BY <1>0, <1>5, <2>1, Running DEF StatusLost, flags, RunningInv
  <2>2. CASE AttemptFailed("EIO") \/ AttemptFailed("EINVAL") \/ AttemptFailed("EINTR")
    BY <1>0, <1>5, <2>2, FailedAttempt DEF StatusLost, flags, Flags, RunningInv, CancelKnown
  <2> QED
    BY <1>5, <2>1, <2>2 DEF StatusLost
<1>6. CASE OptionsRead
  <2>1. CASE ssl_up' = TRUE /\ pc' = "poll" /\ UNCHANGED result
    BY <1>0, <1>6, <2>1, Running DEF OptionsRead
  <2>2. CASE AttemptFailed("EINVAL") /\ UNCHANGED ssl_up
    BY <1>0, <1>6, <2>2, FailedAttempt DEF OptionsRead, flags, Flags, RunningInv, CancelKnown
  <2>3. CASE pc' = "crash" /\ UNCHANGED <<ssl_up, result>>
    BY <1>0, <1>6, <2>3, Running DEF OptionsRead
  <2> QED
    BY <1>6, <2>1, <2>2, <2>3 DEF OptionsRead
<1>7. CASE ConnectInterrupted
  <2>1. /\ got_cancel' \in BOOLEAN /\ got_pause' \in BOOLEAN
        /\ CancelKnown'
        /\ pc \in {"connecting", "status", "options"} /\ UNCHANGED ssl_up
    BY <1>7, CommandRead DEF ConnectInterrupted
  <2>2. CASE got_cancel' /\ \E r \in {"EINVAL", "EINTR"} : AttemptFailed(r)
    BY <2>1, <2>2, FailedAttempt
  <2>3. CASE AttemptFailed("EINVAL")
    BY <2>1, <2>3, FailedAttempt
  <2>4. CASE UNCHANGED <<pc, result>>
    BY <1>0, <2>1, <2>4 DEF result, SessionInv, Flags, RunningInv, EndInv
  <2> QED
    BY <1>7, <2>2, <2>3, <2>4 DEF ConnectInterrupted
<1>8. CASE BackoffReads
  BY <1>0, <1>8, CommandRead DEF BackoffReads, result, SessionInv, Flags, RunningInv, EndInv
<1>9. CASE BackoffEnds
  <2>1. CASE got_cancel /\ Leave(TRUE, "EINTR")
    BY <1>0, <1>9, <2>1
       DEF BackoffEnds, Leave, SessionInv, Flags, RunningInv, EndInv, CancelKnown
  <2>2. CASE pc' \in {"poll", "connecting"} /\ UNCHANGED result
    BY <1>0, <1>9, <2>2, Running DEF BackoffEnds, RunningInv, flags
  <2> QED
    BY <1>9, <2>1, <2>2 DEF BackoffEnds
<1>10. CASE PollNothing \/ PollCancel
  <2>1. /\ got_cancel' \in BOOLEAN /\ got_pause' \in BOOLEAN
        /\ CancelKnown'
        /\ pc = "poll" /\ UNCHANGED ssl_up
    BY <1>0, <1>10, CommandRead
       DEF PollNothing, PollCancel, PolledFlags, flags, Flags, RunningInv, CancelKnown
  <2>2. CASE PollNothing
    BY <1>0, <2>1, <2>2 DEF PollNothing, result, SessionInv, Flags, RunningInv, EndInv
  <2>3. CASE PollCancel
    <3>1. /\ got_cancel' /\ UNCHANGED <<bye, tun_up>> /\ pc' = "exit"
          /\ \/ cancel_type' = "CANCEL" /\ quit' = TRUE /\ ret' = "EINTR"
             \/ cancel_type' # "CANCEL" /\ quit' = FALSE /\ ret' = "ECONNABORTED"
      BY <2>3 DEF PollCancel, Leave
    <3> QED
      BY <1>0, <2>1, <3>1 DEF SessionInv, Flags, RunningInv, EndInv, CancelKnown
  <2> QED
    BY <1>10, <2>2, <2>3
<1>11. CASE PollPause
  BY <1>0, <1>11 DEF PollPause, SessionInv, Flags, RunningInv, EndInv, CancelKnown
<1>12. CASE Exit
  BY <1>0, <1>12 DEF Exit, flags, SessionInv, Flags, RunningInv, EndInv, CancelKnown
<1> QED
  BY <1>1, <1>2, <1>3, <1>4, <1>5, <1>6, <1>7, <1>8, <1>9, <1>10, <1>11, <1>12
     DEF Next, Step

LEMMA SessionInit == Init => SessionInv
  BY DEF Init, SessionInv, Flags, RunningInv, EndInv, CancelKnown

\* Whoever reads the detach - the poll at the end of a pass, a connection attempt,
\* the wait between two attempts - the gateway is not told to end the session.
THEOREM DetachSaysNoByeAlways == Spec => []DetachSaysNoBye
<1>1. SessionInv => DetachSaysNoBye
  BY DEF SessionInv, EndInv, DetachSaysNoBye
<1> QED
  BY <1>1, SessionInit, SessionStep, PTL DEF Spec

\* A pause, also one that was read in a reconnect, leaves a session that can go on.
THEOREM PausedIsResumableAlways == Spec => []PausedIsResumable
<1>1. SessionInv => PausedIsResumable
  BY DEF SessionInv, RunningInv, PausedIsResumable
<1> QED
  BY <1>1, SessionInit, SessionStep, PTL DEF Spec

-----------------------------------------------------------------------------
\* The rest of TypeOK, part by part.
Places ==
    /\ pc \in {"loop", "poll", "connecting", "status", "options", "backoff", "exit", "paused",
               "done", "crash", "spin"}
    /\ ret \in Errors \cup {"0"}

Piped == pipe \in Seq(Commands) /\ cmds \in 0..MaxCmds

Waits == timeout \in Int /\ interval \in Nat /\ attempts \in Nat /\ waited \in Nat

Offered == {addr, old_addr} \subseteq Addrs \cup {"NULL"} /\ retried \in BOOLEAN

\* The thread is at a known place and returns a known value.
LEMMA PlaceStep == Places /\ [Next]_vars => Places'
<1> SUFFICES ASSUME Places, [Next]_vars PROVE Places'
  OBVIOUS
<1> USE DEF Places, Errors
<1>1. CASE Pass \/ LinkLost \/ Opened \/ StatusSpins \/ StatusOk \/ Resume \/ PollNothing
  BY <1>1 DEF Pass, LinkLost, Opened, StatusSpins, StatusOk, Resume, PollNothing, result
<1>2. CASE ServerEnds \/ PollCancel
  BY <1>2 DEF ServerEnds, PollCancel, Leave
<1>3. CASE OpenFails \/ StatusLost \/ StatusRefused \/ OptionsFail
  BY <1>3 DEF OpenFails, StatusLost, StatusRefused, OptionsFail, AttemptFailed, Leave, result
<1>4. CASE OptionsRead
  BY <1>4 DEF OptionsRead, AttemptFailed, Leave, result
<1>5. CASE ConnectInterrupted
  BY <1>5 DEF ConnectInterrupted, AttemptFailed, Leave, result
<1>6. CASE BackoffReads \/ BackoffEnds \/ PollPause \/ Exit
  BY <1>6 DEF BackoffReads, BackoffEnds, PollPause, Exit, Leave, result
<1>7. CASE (\E c \in Commands : Send(c)) \/ Done \/ UNCHANGED vars
  BY <1>7 DEF Send, Done, vars, result
<1> QED
  BY <1>1, <1>2, <1>3, <1>4, <1>5, <1>6, <1>7 DEF Next, Step

\* The pipe holds commands, and no more than were sent.
LEMMA PipeStep == Piped /\ [Next]_vars => Piped'
<1> SUFFICES ASSUME Piped, [Next]_vars PROVE Piped'
  OBVIOUS
<1> USE DEF Piped
<1>0. pipe # <<>> => Tail(pipe) \in Seq(Commands)
  OBVIOUS
<1>1. ASSUME NEW c \in Commands, Send(c) PROVE Piped'
  BY <1>1, SessionAssumption DEF Send
<1>2. CASE ConnectInterrupted \/ BackoffReads \/ PollNothing \/ PollCancel
  <2>1. cmds' = cmds /\ (pipe' = pipe \/ check_cmd_fd)
    BY <1>2 DEF ConnectInterrupted, BackoffReads, PollNothing, PollCancel, PolledFlags
  <2> QED
    BY <1>0, <2>1 DEF check_cmd_fd
<1>3. CASE PollPause
  BY <1>0, <1>3 DEF PollPause
<1>4. CASE \/ Pass \/ ServerEnds \/ LinkLost \/ Opened \/ OpenFails \/ StatusLost
           \/ StatusRefused \/ StatusSpins \/ StatusOk \/ OptionsFail \/ OptionsRead
           \/ BackoffEnds \/ Exit \/ Resume \/ Done \/ UNCHANGED vars
  BY <1>4 DEF Pass, ServerEnds, LinkLost, Opened, OpenFails, StatusLost, StatusRefused,
     StatusSpins, StatusOk, OptionsFail, OptionsRead, BackoffEnds, Exit, Resume, Done, vars
<1> QED
  BY <1>1, <1>2, <1>3, <1>4 DEF Next, Step

\* Only the beginning of a reconnect and the end of a wait touch its clock.
LEMMA OnlyTheseWait ==
    ASSUME [Next]_vars, ~LinkLost, ~BackoffEnds
    PROVE  UNCHANGED backoff /\ UNCHANGED history
  BY Zenon DEF Next, Step, Pass, ServerEnds, Opened, OpenFails, StatusLost, StatusRefused,
     StatusSpins, StatusOk, OptionsFail, OptionsRead, ConnectInterrupted, BackoffReads,
     PollNothing, PollCancel, PollPause, Exit, Resume, Done, Send, vars

\* The locals of cstp_reconnect: the timeout may become negative, the interval not.
LEMMA WaitStep == Waits /\ [Next]_vars => Waits'
<1> SUFFICES ASSUME Waits, [Next]_vars PROVE Waits'
  OBVIOUS
<1> USE SessionAssumption DEF Waits
<1>1. CASE LinkLost
  BY <1>1 DEF LinkLost
<1>2. CASE BackoffEnds
  <2>1. \/ UNCHANGED <<backoff, history>>
        \/ /\ timeout' = timeout - interval
           /\ interval' \in {IntervalMax, interval + ReconnectInterval}
           /\ attempts' = attempts + 1 /\ waited' = waited + interval
    BY <1>2 DEF BackoffEnds
  <2> QED
    BY <2>1 DEF backoff, history
<1>3. CASE ~LinkLost /\ ~BackoffEnds
  BY <1>3, OnlyTheseWait DEF backoff, history
<1> QED
  BY <1>1, <1>2, <1>3

-----------------------------------------------------------------------------
\* ReconnectBounded is not inductive: it takes that the seconds waited are those taken
\* off the timeout, that a wait begins only while some of it is left, and how long a
\* wait can be.
BoundInv ==
    /\ Waits
    /\ pc \in Reconnecting =>
        /\ interval >= 1 /\ interval <= LongestInterval
        /\ waited = ReconnectTimeout - timeout
        /\ attempts <= waited + 1
        /\ attempts <= ReconnectTimeout + 1
        /\ waited < ReconnectTimeout + LongestInterval
        /\ pc = "backoff" => timeout > 0

\* The longest interval is at least a second.
LEMMA Longest ==
    /\ ReconnectTimeout \in Nat /\ ReconnectInterval \in Nat /\ IntervalMax \in Nat
    /\ LongestInterval \in Nat /\ LongestInterval >= 1
    /\ ReconnectInterval >= 1 /\ ReconnectInterval <= LongestInterval
    /\ IntervalMax >= 1 /\ IntervalMax <= LongestInterval
  BY SessionAssumption DEF LongestInterval

\* An attempt that failed leaves the loop, or waits while some of the timeout is left.
LEMMA FailedWaits ==
    ASSUME NEW r, AttemptFailed(r)
    PROVE  pc' = "exit" \/ (pc' = "backoff" /\ ~(timeout <= 0))
  BY DEF AttemptFailed, Leave

\* Every step of cstp_reconnect keeps its account of the time.
LEMMA BoundStep == BoundInv /\ [Next]_vars => BoundInv'
<1> SUFFICES ASSUME BoundInv, [Next]_vars PROVE BoundInv'
  OBVIOUS
<1>w. Waits /\ Waits'
  BY WaitStep DEF BoundInv
<1>1. CASE LinkLost
  BY <1>w, <1>1, Longest DEF LinkLost, BoundInv, Waits, Reconnecting
<1>2. CASE BackoffEnds
  <2>1. CASE pc' \in {"exit", "poll"}
    BY <1>w, <2>1 DEF BoundInv, Reconnecting
  <2>2. CASE pc' \notin {"exit", "poll"}
    <3>1. /\ pc = "backoff" /\ pc' = "connecting"
          /\ timeout' = timeout - interval
          /\ interval' = IF interval + ReconnectInterval > IntervalMax
                         THEN IntervalMax ELSE interval + ReconnectInterval
          /\ attempts' = attempts + 1 /\ waited' = waited + interval
      BY <1>2, <2>2 DEF BackoffEnds, Leave
    <3>2. /\ interval >= 1 /\ interval <= LongestInterval
          /\ waited = ReconnectTimeout - timeout
          /\ attempts <= waited + 1
          /\ timeout > 0
      BY <3>1 DEF BoundInv, Reconnecting
    <3> QED
      BY <1>w, <3>1, <3>2, Longest DEF BoundInv, Waits, Reconnecting
  <2> QED
    BY <2>1, <2>2
<1>3. CASE ~LinkLost /\ ~BackoffEnds
  <2>1. timeout' = timeout /\ interval' = interval /\ attempts' = attempts /\ waited' = waited
    BY <1>3, OnlyTheseWait DEF backoff, history
  <2>2. pc' \in Reconnecting =>
          pc \in Reconnecting /\ (pc' = "backoff" => pc = "backoff" \/ ~(timeout <= 0))
    <3>1. CASE Pass \/ ServerEnds \/ PollNothing \/ PollCancel \/ PollPause \/ Exit \/ Resume
      BY <3>1 DEF Pass, ServerEnds, PollNothing, PollCancel, PollPause, Exit, Resume, Leave,
         Reconnecting
    <3>2. CASE \/ Opened \/ StatusSpins \/ StatusOk \/ BackoffReads \/ Done \/ UNCHANGED vars
               \/ (\E c \in Commands : Send(c))
      BY <3>2 DEF Opened, StatusSpins, StatusOk, BackoffReads, Done, Send, vars, Reconnecting
    <3>3. CASE OpenFails \/ StatusRefused \/ OptionsFail
      BY <3>3, FailedWaits DEF OpenFails, StatusRefused, OptionsFail, Reconnecting
    <3>4. CASE StatusLost
      BY <3>4, FailedWaits DEF StatusLost, Reconnecting
    <3>5. CASE OptionsRead
      BY <3>5, FailedWaits DEF OptionsRead, Reconnecting
    <3>6. CASE ConnectInterrupted
      BY <3>6, FailedWaits DEF ConnectInterrupted, Reconnecting
    <3> QED
      BY <1>3, <3>1, <3>2, <3>3, <3>4, <3>5, <3>6 DEF Next, Step
  <2> QED
    BY <1>w, <2>1, <2>2 DEF BoundInv, Waits
<1> QED
  BY <1>1, <1>2, <1>3

\* However often the gateway fails, cstp_reconnect (cstp.c 562-606) begins no more than
\* one attempt per second of its timeout and one more, and waits less than the timeout
\* and its longest interval, for every timeout, interval and maximum.
THEOREM ReconnectBoundedAlways == Spec => []ReconnectBounded
<1>1. Init => BoundInv
  BY DEF Init, BoundInv, Waits, Reconnecting
<1>2. BoundInv => ReconnectBounded
  BY DEF BoundInv, ReconnectBounded
<1> QED
  BY <1>1, <1>2, BoundStep, PTL DEF Spec

-----------------------------------------------------------------------------
\* The options of the gateway.
LEMMA OfferStep == Offered /\ [Next]_vars => Offered'
<1> SUFFICES ASSUME Offered, [Next]_vars PROVE Offered'
  OBVIOUS
<1> USE DEF Offered
<1>1. CASE Opened
  BY <1>1 DEF Opened
<1>2. CASE StatusLost
  BY <1>2 DEF StatusLost
<1>3. CASE OptionsFail \/ OptionsRead
  BY <1>3 DEF OptionsFail, OptionsRead
<1>4. CASE ConnectInterrupted
  BY <1>4 DEF ConnectInterrupted
<1>5. CASE \/ Pass \/ ServerEnds \/ LinkLost \/ OpenFails \/ StatusRefused \/ StatusSpins
           \/ StatusOk \/ BackoffReads \/ BackoffEnds \/ PollNothing \/ PollCancel
           \/ PollPause \/ Exit \/ Resume \/ Done \/ (\E c \in Commands : Send(c))
           \/ UNCHANGED vars
  <2>1. UNCHANGED options
    BY <1>5, Zenon DEF Pass, ServerEnds, LinkLost, OpenFails, StatusRefused, StatusSpins, StatusOk,
       BackoffReads, BackoffEnds, PollNothing, PollCancel, PollPause, Exit, Resume, Done, Send, vars
  <2> QED
    BY <2>1 DEF options
<1> QED
  BY <1>1, <1>2, <1>3, <1>4, <1>5 DEF Next, Step

\* The session (mainloop.c, cstp.c 562-606) is type correct: in particular every way out
\* of openconnect_mainloop sets the value it returns, and no cancel is without its type.
THEOREM TypeCorrect == Spec => []TypeOK
<1> DEFINE Inv == SessionInv /\ Places /\ Piped /\ Waits /\ Offered
<1>1. Init => Inv
  <2> SUFFICES ASSUME Init PROVE Inv
    OBVIOUS
  <2>1. Places /\ Waits
    BY DEF Init, Places, Errors, Waits
  <2>2. Piped
    BY SessionAssumption DEF Init, Piped
  <2>3. Offered
    BY SessionAssumption DEF Init, Offered
  <2> QED
    BY <2>1, <2>2, <2>3, SessionInit
<1>2. Inv /\ [Next]_vars => Inv'
  BY SessionStep, PlaceStep, PipeStep, WaitStep, OfferStep
<1>3. Inv => TypeOK
  <2> SUFFICES ASSUME Inv PROVE TypeOK
    OBVIOUS
  <2>1. cancel_type \in {"none", "CANCEL", "DETACH"}
    BY DEF SessionInv, RunningInv, CancelKnown
  <2>2. /\ got_cancel \in BOOLEAN /\ got_pause \in BOOLEAN /\ ssl_up \in BOOLEAN
        /\ tun_up \in BOOLEAN /\ quit \in BOOLEAN /\ bye \in BOOLEAN /\ retried \in BOOLEAN
    BY Zenon DEF SessionInv, Flags, Offered
  <2>3. /\ pc \in {"loop", "poll", "connecting", "status", "options", "backoff", "exit",
                   "paused"} \cup Ended
        /\ ret \in Errors \cup {"0"}
    BY DEF Places, Ended
  <2> QED
    BY <2>1, <2>2, <2>3, Zenon DEF Piped, Waits, Offered, TypeOK
<1> QED
  BY <1>1, <1>2, <1>3, PTL DEF Spec
=============================================================================
