--------------------------- MODULE SignalingClient ---------------------------
(***************************************************************************)
(* The listener's connection to the signaling server                       *)
(* (internal/signaling/client.go): Connect with its reconnects, Stop, the  *)
(* preemption of one instance by another, and RenewPairingCode against     *)
(* answers that come late.  One socket exists at a time; sockets are       *)
(* numbered, and a message names the socket it travels on.  The server is  *)
(* external: it answers in order, late or never.  `call` in a message is a *)
(* history field, the renewal it belongs to (0: none); no guard reads it.  *)
(***************************************************************************)
EXTENDS Naturals, Sequences

CONSTANTS
    MaxSockets,    \* bound: sockets dialled
    MaxRenewals    \* bound: calls of RenewPairingCode

VARIABLES
    loop,      \* Connect's goroutine: dial, store, register, await, serve, lost, retry, returned
    sock,      \* the socket: its number, whether it is open
    conn,      \* c.conn, 0 when nil
    stop,      \* Stop: no, cancelled, done
    preempted, \* c.preempted
    up, down,  \* messages on the open socket
    issued,    \* the channel codeIssued: socket and call of the codes in it
    renew,     \* RenewPairingCode: where, on which socket, calls so far
    answered   \* history: socket and call of the last answered renewal and of its code

sigVars == <<loop, sock, conn, stop, preempted, up, down, issued, renew, answered>>

SigInit ==
    /\ loop = "dial"
    /\ sock = [n |-> 0, open |-> FALSE]
    /\ conn = 0
    /\ stop = "no"
    /\ preempted = FALSE
    /\ up = <<>> /\ down = <<>>
    /\ issued = <<>>
    /\ renew = [pc |-> "idle", on |-> 0, calls |-> 0]
    /\ answered = [on |-> 0, call |-> 0, from |-> 0, of |-> 0]

Msg(kind, call) == [kind |-> kind, call |-> call]

(* A closed socket loses what is on it. *)
SocketClosed == sock' = [sock EXCEPT !.open = FALSE] /\ up' = <<>> /\ down' = <<>>

-----------------------------------------------------------------------------
(* Connect and connectOnce.                                                *)

Dialled ==
    /\ loop = "dial" /\ stop = "no" /\ sock.n < MaxSockets
    /\ sock' = [n |-> sock.n + 1, open |-> TRUE]
    /\ loop' = "store"
    /\ UNCHANGED <<conn, stop, preempted, up, down, issued, renew, answered>>

(* The dial fails, or its context is cancelled. *)
DialFails ==
    /\ loop = "dial"
    /\ loop' = "lost"
    /\ UNCHANGED <<sock, conn, stop, preempted, up, down, issued, renew, answered>>

(* Mutant: the socket is stored without a look at the context. *)
MutantStoreConn ==
    /\ loop = "store"
    /\ loop' = "register" /\ conn' = sock.n
    /\ UNCHANGED <<sock, stop, preempted, up, down, issued, renew, answered>>

(* Under connMu: a context that was cancelled meanwhile closes the socket. *)
StoreConn ==
    /\ loop = "store"
    /\ IF stop = "no"
       THEN loop' = "register" /\ conn' = sock.n /\ UNCHANGED <<sock, up, down>>
       ELSE loop' = "lost" /\ SocketClosed /\ UNCHANGED conn
    /\ UNCHANGED <<stop, preempted, issued, renew, answered>>

Register ==
    /\ loop = "register" /\ sock.open
    /\ up' = Append(up, Msg("register", 0))
    /\ loop' = "await"
    /\ UNCHANGED <<sock, conn, stop, preempted, down, issued, renew, answered>>

(* A write or a read fails on a closed socket, the server refuses or takes *)
(* over: the deferred function clears conn and closes the socket.          *)
ConnectionLost(gone) ==
    /\ loop' = "lost" /\ conn' = 0 /\ SocketClosed
    /\ preempted' = (preempted \/ gone)
    /\ UNCHANGED <<stop, issued, renew, answered>>

SocketFails ==
    /\ loop \in {"register", "await", "serve"} /\ ~sock.open
    /\ ConnectionLost(FALSE)

Reads(pc, kind) == loop = pc /\ sock.open /\ down # <<>> /\ Head(down).kind = kind

Registered ==
    /\ Reads("await", "registered")
    /\ down' = Tail(down)
    /\ loop' = "serve"
    /\ UNCHANGED <<sock, conn, stop, preempted, up, issued, renew, answered>>

RegisterRefused == Reads("await", "error") /\ ConnectionLost(FALSE)

(* protocol_too_old ends the process. *)
TooOld ==
    /\ Reads("await", "too old")
    /\ loop' = "returned"
    /\ UNCHANGED <<sock, conn, stop, preempted, up, down, issued, renew, answered>>

Preempted == Reads("serve", "preempted") /\ ConnectionLost(TRUE)

(* code_issued goes into codeIssued, or nowhere when that is full. *)
CodeIssued ==
    /\ Reads("serve", "code_issued")
    /\ down' = Tail(down)
    /\ issued' = IF issued = <<>> THEN <<[sock |-> sock.n, call |-> Head(down).call]>> ELSE issued
    /\ UNCHANGED <<loop, sock, conn, stop, preempted, up, renew, answered>>

(* Connect after connectOnce: it returns, or waits and dials again. *)
AfterLoss ==
    /\ loop = "lost"
    /\ loop' = IF preempted \/ stop # "no" THEN "returned" ELSE "retry"
    /\ UNCHANGED <<sock, conn, stop, preempted, up, down, issued, renew, answered>>

Retry ==
    /\ loop = "retry"
    /\ loop' = IF stop = "no" THEN "dial" ELSE "returned"
    /\ UNCHANGED <<sock, conn, stop, preempted, up, down, issued, renew, answered>>

-----------------------------------------------------------------------------
(* Stop: cancels, then closes the socket it finds.                         *)

StopCancels ==
    /\ stop = "no"
    /\ stop' = "cancelled"
    /\ UNCHANGED <<loop, sock, conn, preempted, up, down, issued, renew, answered>>

StopCloses ==
    /\ stop = "cancelled"
    /\ stop' = "done"
    /\ IF conn # 0 THEN SocketClosed ELSE UNCHANGED <<sock, up, down>>
    /\ UNCHANGED <<loop, conn, preempted, issued, renew, answered>>

-----------------------------------------------------------------------------
(* RenewPairingCode, called by the console's `code` command.               *)

RenewCall ==
    /\ renew.pc = "idle" /\ renew.calls < MaxRenewals /\ conn # 0
    /\ renew' = [pc |-> "drain", on |-> conn, calls |-> renew.calls + 1]
    /\ UNCHANGED <<loop, sock, conn, stop, preempted, up, down, issued, answered>>

(* Mutant: an answer that nobody waited for stays in the channel. *)
MutantDrain ==
    /\ renew.pc = "drain"
    /\ renew' = [renew EXCEPT !.pc = "write"]
    /\ UNCHANGED <<loop, sock, conn, stop, preempted, up, down, issued, answered>>

Drain ==
    /\ renew.pc = "drain"
    /\ issued' = <<>>
    /\ renew' = [renew EXCEPT !.pc = "write"]
    /\ UNCHANGED <<loop, sock, conn, stop, preempted, up, down, answered>>

RenewWrite ==
    /\ renew.pc = "write"
    /\ IF sock.open /\ sock.n = renew.on
       THEN up' = Append(up, Msg("renew_code", renew.calls)) /\ renew' = [renew EXCEPT !.pc = "wait"]
       ELSE UNCHANGED up /\ renew' = [renew EXCEPT !.pc = "idle", !.on = 0]
    /\ UNCHANGED <<loop, sock, conn, stop, preempted, down, issued, answered>>

(* A peer that is gone is not noticed by the write that comes first. *)
RenewWriteLost ==
    /\ renew.pc = "write" /\ ~sock.open /\ conn = renew.on /\ stop # "done"
    /\ renew' = [renew EXCEPT !.pc = "wait"]
    /\ UNCHANGED <<loop, sock, conn, stop, preempted, up, down, issued, answered>>

RenewAnswered ==
    /\ renew.pc = "wait" /\ issued # <<>>
    /\ issued' = <<>>
    /\ answered' = [on |-> renew.on, call |-> renew.calls,
                    from |-> Head(issued).sock, of |-> Head(issued).call]
    /\ renew' = [renew EXCEPT !.pc = "idle", !.on = 0]
    /\ UNCHANGED <<loop, sock, conn, stop, preempted, up, down>>

RenewTimesOut ==
    /\ renew.pc = "wait"
    /\ renew' = [renew EXCEPT !.pc = "idle", !.on = 0]
    /\ UNCHANGED <<loop, sock, conn, stop, preempted, up, down, issued, answered>>

-----------------------------------------------------------------------------
(* The server and the network.                                             *)

ServerReply(request, replies) ==
    /\ sock.open /\ up # <<>> /\ Head(up).kind = request
    /\ up' = Tail(up)
    /\ down' \in {down} \cup {Append(down, Msg(r, Head(up).call)) : r \in replies}
    /\ UNCHANGED <<loop, sock, conn, stop, preempted, issued, renew, answered>>

ServerRegisters == ServerReply("register", {"registered", "error", "too old"})

(* A server without renewal answers nothing. *)
ServerIssues == ServerReply("renew_code", {"code_issued"})

(* Another instance registers under the same UID. *)
ServerPreempts ==
    /\ sock.open /\ loop = "serve" /\ "preempted" \notin {down[i].kind : i \in DOMAIN down}
    /\ down' = Append(down, Msg("preempted", 0))
    /\ UNCHANGED <<loop, sock, conn, stop, preempted, up, issued, renew, answered>>

SocketDies ==
    /\ sock.open
    /\ SocketClosed
    /\ UNCHANGED <<loop, conn, stop, preempted, issued, renew, answered>>

-----------------------------------------------------------------------------

ConnectStep ==
    \/ Dialled \/ DialFails \/ StoreConn \/ Register \/ SocketFails
    \/ Registered \/ RegisterRefused \/ TooOld \/ Preempted \/ CodeIssued \/ AfterLoss \/ Retry

RenewStep == RenewCall \/ Drain \/ RenewWrite \/ RenewWriteLost \/ RenewAnswered \/ RenewTimesOut

ServerStep == ServerRegisters \/ ServerIssues \/ ServerPreempts \/ SocketDies

SigNext == ConnectStep \/ StopCancels \/ StopCloses \/ RenewStep \/ ServerStep

(* Goroutines run; the server does not have to answer. *)
SigFairness == WF_sigVars(ConnectStep) /\ WF_sigVars(StopCloses)

SigSpec == SigInit /\ [][SigNext]_sigVars /\ SigFairness

-----------------------------------------------------------------------------
(* Properties.                                                             *)

(* "Stop interrupts an active connection or reconnect delay": once it is   *)
(* called Connect returns, wherever it was and although no read of it has  *)
(* a deadline and the server may never answer.                             *)
StopEnds == stop # "no" ~> loop = "returned"

(* RenewPairingCode after a reconnect: a renewal never returns a code that *)
(* came on another socket than its own request went out on, so never one   *)
(* the server issued before a reconnect and may have lost since.           *)
RenewalFromItsSocket == answered.on = answered.from

(* "Drain a stale answer so a slow earlier reply cannot be mistaken for    *)
(* this one" (RenewPairingCode): a renewal returns the code of its own     *)
(* request.  Violated: the drain comes before the write, so an answer to   *)
(* an earlier renewal that timed out on this socket and that arrives after *)
(* the drain is returned as the answer to this one.                        *)
RenewalIsItsOwn == answered.call = answered.of
=============================================================================
