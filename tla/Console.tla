------------------------------- MODULE Console -------------------------------
(***************************************************************************)
(* The console of src/src/console.rs: a readline thread and the           *)
(* ConsoleService future, joined by a futures mpsc channel of buffer 1    *)
(* and one sender, and by the thread's park token.  After every line the  *)
(* thread parks; the service unparks it when it has handled the line, or, *)
(* for the show-commands, when the wallet's answer arrives.               *)
(*                                                                         *)
(* A line is abstracted to its command kind: "act" stands for every       *)
(* command (and every unparsable line) on_input answers with true, and    *)
(* the three show-commands for those it answers with false.  The wallet   *)
(* is the environment: it answers each show request with the matching     *)
(* info notification, and it may emit balance and payment notifications   *)
(* at any time.  The wallet API the console calls (balance_info,          *)
(* keys_info, the info notifications) is not in this snapshot's wallet    *)
(* crate, so no other answer to a show request can be read from the code. *)
(***************************************************************************)
EXTENDS Naturals, Sequences

CONSTANTS
    SpuriousWakeup,  \* whether thread::park may return without an unpark
    MaxLines,        \* bound: lines typed
    MaxEvents        \* bound: unsolicited wallet notifications

ShowKinds == {"keys", "balance", "utxo"}
Commands == {"act"} \cup ShowKinds
BUFFER == 1          \* channel::<String>(1)

VARIABLES
    th,          \* stdin thread: "reading", "parked", "stopped" or "panicked"
    token,       \* the thread's unpark token
    chan,        \* lines in the channel, oldest first
    senderParked,\* the sender used its own slot and awaits the receiver
    closed,      \* the sender closed the channel
    requests,    \* show requests the wallet has not answered yet
    events,      \* wallet notifications not yet polled by the service
    exited,      \* on_exit: the process has exited
    typed        \* lines typed so far

vars == <<th, token, chan, senderParked, closed, requests, events, exited, typed>>

-----------------------------------------------------------------------------
(* Stdin thread.                                                           *)

\* readline returns a line: try_send it; on failure assert the channel is
\* closed (it never is while the service runs) and stop; else park.
ReadLine ==
    /\ th = "reading" /\ ~exited /\ typed < MaxLines
    /\ \E c \in Commands :
        IF senderParked
        THEN /\ th' = "panicked"
             /\ UNCHANGED <<chan, senderParked>>
        ELSE /\ chan' = Append(chan, c)
             /\ senderParked' = (Len(chan) + 1 > BUFFER)
             /\ th' = "parked"
    /\ typed' = typed + 1
    /\ UNCHANGED <<token, closed, requests, events, exited>>

\* readline fails (Eof, Interrupted or an I/O error): close the channel.
ReadEof ==
    /\ th = "reading" /\ ~exited
    /\ th' = "stopped"
    /\ closed' = TRUE
    /\ UNCHANGED <<token, chan, senderParked, requests, events, exited, typed>>

\* thread::park returns: it consumes the token, or returns spuriously.
Wake ==
    /\ th = "parked" /\ ~exited
    /\ token \/ SpuriousWakeup
    /\ th' = "reading"
    /\ token' = FALSE
    /\ UNCHANGED <<chan, senderParked, closed, requests, events, exited, typed>>

-----------------------------------------------------------------------------
(* ConsoleService::poll.                                                   *)

\* A show-command that unparks at once, as an action command does.
OnInput_Always(c) == TRUE

\* on_input: true, unless the line is a show-command whose result the
\* thread must wait for; a show-command sends its request to the wallet.
OnInput(c) == c \notin ShowKinds

\* poll, stdin loop: a ready line is handled by on_input, and the thread is
\* unparked when on_input returns true.  Receiving unparks a parked sender.
ServiceInput ==
    /\ chan # <<>> /\ ~exited
    /\ LET c == Head(chan)
       IN /\ token' = (token \/ OnInput(c))
          /\ requests' = IF c \in ShowKinds THEN Append(requests, c) ELSE requests
    /\ chan' = Tail(chan)
    /\ senderParked' = FALSE
    /\ UNCHANGED <<th, closed, events, exited, typed>>

\* poll, stdin loop: the stream has ended (closed and drained): on_exit.
ServiceExit ==
    /\ closed /\ chan = <<>> /\ ~exited
    /\ exited' = TRUE
    /\ UNCHANGED <<th, token, chan, senderParked, closed, requests, events, typed>>

\* on_notification: the three info notifications unpark the thread; the
\* others (PaymentReceived, BalanceChanged, Error) only log.
Unparks_NoUtxo(n) == n \in {"keys", "balance"}

Unparks(n) == n \in ShowKinds

\* poll, wallet loop: the next notification is handled by on_notification.
ServiceNotification ==
    /\ events # <<>> /\ ~exited
    /\ token' = (token \/ Unparks(Head(events)))
    /\ events' = Tail(events)
    /\ UNCHANGED <<th, chan, senderParked, closed, requests, exited, typed>>

-----------------------------------------------------------------------------
(* The wallet.                                                             *)

\* The wallet answers the oldest show request with its info notification.
WalletReply ==
    /\ requests # <<>> /\ ~exited
    /\ events' = Append(events, Head(requests))
    /\ requests' = Tail(requests)
    /\ UNCHANGED <<th, token, chan, senderParked, closed, exited, typed>>

\* A notification nobody asked for: a balance change or an incoming payment.
WalletEvent ==
    /\ ~exited /\ Len(events) < MaxEvents
    /\ \E n \in {"balance_changed", "payment_received"} : events' = Append(events, n)
    /\ UNCHANGED <<th, token, chan, senderParked, closed, requests, exited, typed>>

\* After std::process::exit nothing runs.
Exited == exited /\ UNCHANGED vars

-----------------------------------------------------------------------------

Init ==
    /\ th = "reading" /\ token = FALSE /\ chan = <<>> /\ senderParked = FALSE
    /\ closed = FALSE /\ requests = <<>> /\ events = <<>> /\ exited = FALSE
    /\ typed = 0

Next ==
    \/ ReadLine \/ ReadEof \/ Wake
    \/ ServiceInput \/ ServiceExit \/ ServiceNotification
    \/ WalletReply \/ WalletEvent
    \/ Exited

\* The event loop polls whenever one of its streams is ready, the wallet
\* answers every request, and park returns once the token is set.  The
\* user is under no obligation to type.
Fairness ==
    /\ WF_vars(ServiceInput) /\ WF_vars(ServiceExit) /\ WF_vars(ServiceNotification)
    /\ WF_vars(WalletReply) /\ WF_vars(Wake)

Spec == Init /\ [][Next]_vars /\ Fairness

-----------------------------------------------------------------------------
(* Properties.                                                             *)

\* The handshake serialises commands: while the thread reads a new line, the
\* previous one has been handled and, for a show-command, answered (its
\* info notification processed), so its output never interleaves the prompt.
PromptAfterResult ==
    th = "reading" => chan = <<>> /\ requests = <<>> /\ \A i \in DOMAIN events : events[i] \notin ShowKinds

\* The assert of readline_thread_f: try_send fails only on a closed channel
\* ("this channel is never full").
NeverFull == th # "panicked"

\* A parked stdin thread is eventually woken (or the process exits): the
\* console never hangs after a command.
StdinResumes == (th = "parked") ~> (th # "parked" \/ exited)

=============================================================================
