------------------------ MODULE SignalingLinkProofs ------------------------
(***************************************************************************)
(* Proofs about the two stores a listener's console works on: the          *)
(* signaling connection, which issues pairing codes (SignalingClient), and *)
(* the link table with its file (LinkStore).  They share no state.         *)
(***************************************************************************)
EXTENDS SignalingClient, LinkStore, FiniteSetTheorems, TLAPS

-----------------------------------------------------------------------------
(* The signaling connection.                                               *)

Upward == [kind : {"register", "renew_code"}, call : Nat]
Downward == [kind : {"registered", "error", "too old", "code_issued", "preempted"}, call : Nat]
Code == [sock : Nat, call : Nat]
On(q) == {q[i].kind : i \in 1..Len(q)}

SigType ==
    /\ loop \in {"dial", "store", "register", "await", "serve", "lost", "retry", "returned"}
    /\ sock \in [n : Nat, open : BOOLEAN]
    /\ conn \in Nat
    /\ up \in Seq(Upward) /\ down \in Seq(Downward)
    /\ issued \in Seq(Code)
    /\ renew \in [pc : {"idle", "drain", "write", "wait"}, on : Nat, calls : Nat]

(* The socket Connect's goroutine has, and what the others see of it. *)
OneSocket ==
    /\ conn # 0 => conn = sock.n
    /\ loop \in {"dial", "store", "lost", "retry"} => conn = 0
    /\ loop \in {"dial", "lost", "retry"} => ~sock.open
    /\ ~sock.open => up = <<>> /\ down = <<>>

(* A renewal that is under way is the only one, so on another socket than  *)
(* its own nobody has asked for a code; what was in the channel before it  *)
(* has been drained before it writes.                                      *)
OwnCode ==
    /\ renew.pc # "idle" /\ sock.n # renew.on =>
         "renew_code" \notin On(up) /\ "code_issued" \notin On(down)
    /\ renew.pc \in {"write", "wait"} /\ issued # <<>> => Head(issued).sock = renew.on

SigInv == SigType /\ OneSocket /\ OwnCode /\ RenewalFromItsSocket

LEMMA TailOn ==
    ASSUME NEW S, NEW q \in Seq(S), q # <<>>
    PROVE  /\ Tail(q) \in Seq(S) /\ Head(q) \in S /\ Head(q).kind \in On(q)
           /\ On(Tail(q)) \subseteq On(q)
<1>1. Len(q) \in Nat /\ Len(q) > 0 /\ Head(q) = q[1] /\ Head(q) \in S /\ Tail(q) \in Seq(S)
  OBVIOUS
<1>2. Len(Tail(q)) = Len(q) - 1 /\ \A i \in 1..Len(q) - 1 : Tail(q)[i] = q[i + 1]
  BY <1>1
<1>3. \A i \in 1..Len(q) - 1 : i + 1 \in 1..Len(q)
  BY <1>1
<1>4. 1 \in 1..Len(q)
  BY <1>1
<1> QED
  BY <1>1, <1>2, <1>3, <1>4 DEF On

LEMMA AppendOn ==
    ASSUME NEW S, NEW q \in Seq(S), NEW m \in S
    PROVE  Append(q, m) \in Seq(S) /\ On(Append(q, m)) \subseteq On(q) \cup {m.kind}
<1>1. Append(q, m) \in Seq(S) /\ Len(Append(q, m)) = Len(q) + 1 /\ Len(q) \in Nat
  OBVIOUS
<1>2. \A i \in 1..Len(q) + 1 : \/ i \in 1..Len(q) /\ Append(q, m)[i] = q[i]
                               \/ Append(q, m)[i] = m
  BY <1>1
<1> QED
  BY <1>1, <1>2 DEF On

LEMMA OnEmpty == On(<<>>) = {}
  BY DEF On

LEMMA SigInitInv == SigInit => SigInv
  BY DEF SigInit, SigInv, SigType, OneSocket, OwnCode, RenewalFromItsSocket

(* Closing the socket takes what was on it. *)
LEMMA SocketClosedFacts ==
    ASSUME SigType, SocketClosed
    PROVE  /\ sock' \in [n : Nat, open : BOOLEAN] /\ sock'.n = sock.n /\ ~sock'.open
           /\ up' = <<>> /\ down' = <<>> /\ up' \in Seq(Upward) /\ down' \in Seq(Downward)
           /\ On(up') = {} /\ On(down') = {}
<1>1. sock' \in [n : Nat, open : BOOLEAN] /\ sock'.n = sock.n /\ ~sock'.open
  BY DEF SigType, SocketClosed
<1>2. up' = <<>> /\ down' = <<>>
  BY DEF SocketClosed
<1>3. up' \in Seq(Upward) /\ down' \in Seq(Downward)
  BY <1>2
<1> QED
  BY <1>1, <1>2, <1>3, OnEmpty

(* A step after which the channels hold no more than before, and which     *)
(* does not touch the renewal. *)
LEMMA QuietStep ==
    ASSUME SigInv, SigType', OneSocket', UNCHANGED <<issued, renew, answered>>,
           \/ sock'.n = sock.n /\ On(up') \subseteq On(up) \cup {"register"}
              /\ On(down') \subseteq On(down) \cup {"registered", "error", "too old", "preempted"}
           \/ On(up') = {} /\ On(down') = {}
    PROVE  SigInv'
  BY DEF SigInv, OwnCode, RenewalFromItsSocket

LEMMA SigConnectStep ==
    ASSUME SigInv, ConnectStep
    PROVE  SigInv'
<1> USE DEF SigInv
<1>1. CASE Dialled
  <2>1. /\ ~sock.open /\ up = <<>> /\ down = <<>> /\ conn = 0
    BY <1>1 DEF Dialled, OneSocket
  <2>2. /\ sock' = [n |-> sock.n + 1, open |-> TRUE] /\ loop' = "store"
        /\ UNCHANGED <<conn, stop, preempted, up, down, issued, renew, answered>>
    BY <1>1 DEF Dialled
  <2>3. SigType'
    BY <2>2 DEF SigType
  <2>4. OneSocket'
    BY <2>1, <2>2 DEF OneSocket
  <2>5. On(up') = {} /\ On(down') = {}
    BY <2>1, <2>2, OnEmpty
  <2> QED
    BY <2>2, <2>3, <2>4, <2>5, QuietStep
<1>2. CASE DialFails \/ AfterLoss \/ Retry
  <2>1. /\ loop \in {"dial", "lost", "retry"} /\ loop' \in {"dial", "lost", "retry", "returned"}
        /\ UNCHANGED <<sock, conn, up, down, issued, renew, answered>>
    BY <1>2 DEF DialFails, AfterLoss, Retry
  <2>2. SigType' /\ OneSocket'
    BY <2>1 DEF SigType, OneSocket
  <2> QED
    BY <2>1, <2>2, QuietStep
<1>3. CASE StoreConn
  <2>1. CASE stop = "no"
    <3>1. loop' = "register" /\ conn' = sock.n /\ UNCHANGED <<sock, up, down, issued, renew, answered>>
      BY <1>3, <2>1 DEF StoreConn
    <3>2. SigType' /\ OneSocket'
      BY <3>1 DEF SigType, OneSocket
    <3> QED
      BY <3>1, <3>2, QuietStep
  <2>2. CASE stop # "no"
    <3>1. /\ loop = "store" /\ loop' = "lost" /\ SocketClosed
          /\ UNCHANGED <<conn, issued, renew, answered>>
      BY <1>3, <2>2 DEF StoreConn
    <3>2. SigType' /\ OneSocket'
      BY <3>1, SocketClosedFacts DEF SigType, OneSocket
    <3> QED
      BY <3>1, <3>2, SocketClosedFacts, QuietStep
  <2> QED
    BY <2>1, <2>2
<1>4. CASE Register
  <2>0. Msg("register", 0) \in Upward /\ Msg("register", 0).kind = "register"
    BY DEF Msg, Upward
  <2>1. up' \in Seq(Upward) /\ On(up') \subseteq On(up) \cup {"register"}
    BY <1>4, <2>0, AppendOn DEF Register, SigType
  <2>2. loop = "register" /\ sock.open /\ loop' = "await"
        /\ UNCHANGED <<sock, conn, down, issued, renew, answered>>
    BY <1>4 DEF Register
  <2>3. SigType' /\ OneSocket'
    BY <2>1, <2>2 DEF SigType, OneSocket
  <2> QED
    BY <2>1, <2>2, <2>3, QuietStep
<1>5. CASE SocketFails \/ RegisterRefused \/ Preempted
  <2>1. /\ loop' = "lost" /\ conn' = 0 /\ SocketClosed /\ UNCHANGED <<issued, renew, answered>>
    BY <1>5 DEF SocketFails, RegisterRefused, Preempted, ConnectionLost
  <2>2. SigType' /\ OneSocket'
    BY <2>1, SocketClosedFacts DEF SigType, OneSocket
  <2> QED
    BY <2>1, <2>2, SocketClosedFacts, QuietStep
<1>6. CASE Registered
  <2>1. /\ loop = "await" /\ sock.open /\ down # <<>> /\ down' = Tail(down) /\ loop' = "serve"
        /\ UNCHANGED <<sock, conn, up, issued, renew, answered>>
    BY <1>6 DEF Registered, Reads
  <2>2. down' \in Seq(Downward) /\ On(down') \subseteq On(down)
    BY <2>1, TailOn DEF SigType
  <2>3. SigType' /\ OneSocket'
    BY <2>1, <2>2 DEF SigType, OneSocket
  <2> QED
    BY <2>1, <2>2, <2>3, QuietStep
<1>7. CASE TooOld
  <2>1. loop = "await" /\ loop' = "returned" /\ UNCHANGED <<sock, conn, up, down, issued, renew, answered>>
    BY <1>7 DEF TooOld, Reads
  <2>2. SigType' /\ OneSocket'
    BY <2>1 DEF SigType, OneSocket
  <2> QED
    BY <2>1, <2>2, QuietStep
<1>8. CASE CodeIssued
  <2>1. /\ loop = "serve" /\ sock.open /\ down # <<>> /\ Head(down).kind = "code_issued" /\ down' = Tail(down)
        /\ issued' = (IF issued = <<>> THEN <<[sock |-> sock.n, call |-> Head(down).call]>> ELSE issued)
        /\ UNCHANGED <<loop, sock, conn, up, renew, answered>>
    BY <1>8 DEF CodeIssued, Reads
  <2>2. /\ down' \in Seq(Downward) /\ On(down') \subseteq On(down) /\ "code_issued" \in On(down)
        /\ Head(down) \in Downward
    BY <2>1, TailOn DEF SigType
  <2>3. issued' \in Seq(Code)
    <3>1. [sock |-> sock.n, call |-> Head(down).call] \in Code
      BY <2>2 DEF SigType, Downward, Code
    <3> QED
      BY <2>1, <3>1 DEF SigType
  <2>4. SigType' /\ OneSocket'
    BY <2>1, <2>2, <2>3 DEF SigType, OneSocket
  <2>5. renew.pc # "idle" => sock.n = renew.on
    BY <2>2 DEF OwnCode
  <2>6. renew.pc \in {"write", "wait"} => Head(issued').sock = renew.on
    BY <2>1, <2>5 DEF OwnCode
  <2>7. OwnCode'
    BY <2>1, <2>2, <2>6 DEF OwnCode
  <2> QED
    BY <2>1, <2>4, <2>7 DEF RenewalFromItsSocket
<1> QED
  BY <1>1, <1>2, <1>3, <1>4, <1>5, <1>6, <1>7, <1>8 DEF ConnectStep

LEMMA SigRenewStep ==
    ASSUME SigInv, RenewStep
    PROVE  SigInv'
<1> USE DEF SigInv
<1>1. CASE RenewCall
  <2>1. /\ renew' = [pc |-> "drain", on |-> conn, calls |-> renew.calls + 1] /\ conn = sock.n
        /\ UNCHANGED <<loop, sock, conn, up, down, issued, answered>>
    BY <1>1 DEF RenewCall, OneSocket
  <2>2. SigType'
    BY <2>1 DEF SigType
  <2>3. OneSocket' /\ OwnCode' /\ RenewalFromItsSocket'
    BY <2>1 DEF OneSocket, OwnCode, RenewalFromItsSocket
  <2> QED
    BY <2>2, <2>3
<1>2. CASE Drain
  <2>1. /\ renew.pc = "drain" /\ issued' = <<>> /\ renew' = [renew EXCEPT !.pc = "write"]
        /\ UNCHANGED <<loop, sock, conn, up, down, answered>>
    BY <1>2 DEF Drain
  <2>2. renew'.pc = "write" /\ renew'.on = renew.on /\ SigType'
    BY <2>1 DEF SigType
  <2>3. OneSocket' /\ OwnCode' /\ RenewalFromItsSocket'
    BY <2>1, <2>2 DEF OneSocket, OwnCode, RenewalFromItsSocket
  <2> QED
    BY <2>2, <2>3
<1>3. CASE RenewWrite
  <2>1. renew.pc = "write" /\ UNCHANGED <<loop, sock, conn, down, issued, answered>>
    BY <1>3 DEF RenewWrite
  <2>2. CASE sock.open /\ sock.n = renew.on
    <3>1. up' = Append(up, Msg("renew_code", renew.calls)) /\ renew' = [renew EXCEPT !.pc = "wait"]
      BY <1>3, <2>2 DEF RenewWrite
    <3>0. Msg("renew_code", renew.calls) \in Upward
      BY DEF Msg, Upward, SigType
    <3>2. up' \in Seq(Upward)
      BY <3>0, <3>1, AppendOn DEF SigType
    <3>3. renew'.pc = "wait" /\ renew'.on = renew.on /\ SigType'
      BY <2>1, <3>1, <3>2 DEF SigType
    <3>4. OneSocket' /\ OwnCode' /\ RenewalFromItsSocket'
      BY <2>1, <2>2, <3>1, <3>3 DEF OneSocket, OwnCode, RenewalFromItsSocket
    <3> QED
      BY <3>3, <3>4
  <2>3. CASE ~(sock.open /\ sock.n = renew.on)
    <3>1. up' = up /\ renew' = [renew EXCEPT !.pc = "idle", !.on = 0]
      BY <1>3, <2>3 DEF RenewWrite
    <3>2. renew'.pc = "idle" /\ SigType'
      BY <2>1, <3>1 DEF SigType
    <3>3. OneSocket' /\ OwnCode' /\ RenewalFromItsSocket'
      BY <2>1, <3>1, <3>2 DEF OneSocket, OwnCode, RenewalFromItsSocket
    <3> QED
      BY <3>2, <3>3
  <2> QED
    BY <2>2, <2>3
<1>4. CASE RenewAnswered
  <2>1. /\ renew.pc = "wait" /\ issued # <<>> /\ issued' = <<>>
        /\ answered'.on = renew.on /\ answered'.from = Head(issued).sock
        /\ renew' = [renew EXCEPT !.pc = "idle", !.on = 0]
        /\ UNCHANGED <<loop, sock, conn, up, down>>
    BY <1>4 DEF RenewAnswered
  <2>0. issued' \in Seq(Code)
    BY <2>1
  <2>2. renew'.pc = "idle" /\ SigType'
    BY <2>0, <2>1 DEF SigType
  <2>3. OneSocket' /\ OwnCode'
    BY <2>1, <2>2 DEF OneSocket, OwnCode
  <2>4. RenewalFromItsSocket'
    BY <2>1 DEF OwnCode, RenewalFromItsSocket
  <2> QED
    BY <2>2, <2>3, <2>4
<1>5. CASE RenewTimesOut
  <2>1. /\ renew' = [renew EXCEPT !.pc = "idle", !.on = 0]
        /\ UNCHANGED <<loop, sock, conn, up, down, issued, answered>>
    BY <1>5 DEF RenewTimesOut
  <2>2. renew'.pc = "idle" /\ SigType'
    BY <2>1 DEF SigType
  <2>3. OneSocket' /\ OwnCode' /\ RenewalFromItsSocket'
    BY <2>1, <2>2 DEF OneSocket, OwnCode, RenewalFromItsSocket
  <2> QED
    BY <2>2, <2>3
<1>6. CASE RenewWriteLost
  <2>1. /\ renew.pc = "write" /\ renew' = [renew EXCEPT !.pc = "wait"]
        /\ UNCHANGED <<loop, sock, conn, up, down, issued, answered>>
    BY <1>6 DEF RenewWriteLost
  <2>2. renew'.pc = "wait" /\ renew'.on = renew.on /\ SigType'
    BY <2>1 DEF SigType
  <2>3. OneSocket' /\ OwnCode' /\ RenewalFromItsSocket'
    BY <2>1, <2>2 DEF OneSocket, OwnCode, RenewalFromItsSocket
  <2> QED
    BY <2>2, <2>3
<1> QED
  BY <1>1, <1>2, <1>3, <1>4, <1>5, <1>6 DEF RenewStep

LEMMA SigOtherStep ==
    ASSUME SigInv, StopCancels \/ StopCloses \/ ServerStep \/ UNCHANGED sigVars
    PROVE  SigInv'
<1> USE DEF SigInv
<1>1. CASE StopCancels \/ UNCHANGED sigVars
  <2>1. UNCHANGED <<loop, sock, conn, up, down, issued, renew, answered>>
    BY <1>1 DEF StopCancels, sigVars
  <2>2. SigType' /\ OneSocket'
    BY <2>1 DEF SigType, OneSocket
  <2> QED
    BY <2>1, <2>2, QuietStep
<1>2. CASE StopCloses \/ SocketDies
  <2>1. /\ UNCHANGED <<loop, conn, issued, renew, answered>>
        /\ SocketClosed \/ UNCHANGED <<sock, up, down>>
    BY <1>2 DEF StopCloses, SocketDies
  <2>2. SigType' /\ OneSocket'
    BY <2>1, SocketClosedFacts DEF SigType, OneSocket
  <2> QED
    BY <2>1, <2>2, SocketClosedFacts, QuietStep
<1>3. ASSUME NEW request, NEW R \in SUBSET {"registered", "error", "too old", "code_issued"},
             ServerReply(request, R)
      PROVE  /\ SigType' /\ OneSocket' /\ UNCHANGED <<sock, issued, renew, answered>>
             /\ On(up') \subseteq On(up) /\ request \in On(up)
             /\ On(down') \subseteq On(down) \cup R
  <2>1. /\ sock.open /\ up # <<>> /\ Head(up).kind = request /\ up' = Tail(up)
        /\ down' \in {down} \cup {Append(down, Msg(r, Head(up).call)) : r \in R}
        /\ UNCHANGED <<loop, sock, conn, issued, renew, answered>>
    BY <1>3 DEF ServerReply
  <2>2. /\ up' \in Seq(Upward) /\ On(up') \subseteq On(up) /\ request \in On(up)
        /\ Head(up) \in Upward
    BY <2>1, TailOn DEF SigType
  <2>3. down' \in Seq(Downward) /\ On(down') \subseteq On(down) \cup R
    <3>1. down \in Seq(Downward)
      BY DEF SigType
    <3>2. CASE down' = down
      BY <3>1, <3>2
    <3>3. ASSUME NEW r \in R, down' = Append(down, Msg(r, Head(up).call))
          PROVE  down' \in Seq(Downward) /\ On(down') \subseteq On(down) \cup R
      <4> DEFINE m == Msg(r, Head(up).call)
      <4>1. m \in Downward /\ m.kind = r
        BY <2>2 DEF Msg, Upward, Downward
      <4>0. down' = Append(down, m)
        BY <3>3
      <4> HIDE DEF m
      <4>2. Append(down, m) \in Seq(Downward) /\ On(Append(down, m)) \subseteq On(down) \cup {m.kind}
        BY <3>1, <4>1, AppendOn
      <4> QED
        BY <4>0, <4>1, <4>2
    <3> QED
      BY <2>1, <3>2, <3>3
  <2>4. SigType' /\ OneSocket'
    BY <2>1, <2>2, <2>3 DEF SigType, OneSocket
  <2> QED
    BY <2>1, <2>2, <2>3, <2>4
<1>4. CASE ServerRegisters
  BY <1>3, <1>4, QuietStep DEF ServerRegisters
<1>5. CASE ServerIssues
  <2>1. /\ SigType' /\ OneSocket' /\ UNCHANGED <<sock, issued, renew, answered>>
        /\ On(up') \subseteq On(up) /\ "renew_code" \in On(up)
        /\ On(down') \subseteq On(down) \cup {"code_issued"}
    BY <1>3, <1>5 DEF ServerIssues
  <2>2. OwnCode'
    BY <2>1 DEF OwnCode
  <2> QED
    BY <2>1, <2>2 DEF RenewalFromItsSocket
<1>6. CASE ServerPreempts
  <2>0. Msg("preempted", 0) \in Downward /\ Msg("preempted", 0).kind = "preempted"
    BY DEF Msg, Downward
  <2>1. /\ sock.open /\ down' = Append(down, Msg("preempted", 0))
        /\ UNCHANGED <<loop, sock, conn, up, issued, renew, answered>>
    BY <1>6 DEF ServerPreempts
  <2>2. down' \in Seq(Downward) /\ On(down') \subseteq On(down) \cup {"preempted"}
    BY <2>0, <2>1, AppendOn DEF SigType
  <2>3. SigType' /\ OneSocket'
    BY <2>1, <2>2 DEF SigType, OneSocket
  <2> QED
    BY <2>1, <2>2, <2>3, QuietStep
<1> QED
  BY <1>1, <1>2, <1>4, <1>5, <1>6 DEF ServerStep

(* RenewPairingCode never returns a code that came on another socket than  *)
(* its own request went out on, through every reconnect, time-out and late *)
(* answer, for any number of sockets and calls.                            *)
THEOREM RenewalIsFresh == SigSpec => []RenewalFromItsSocket
<1>1. SigInv /\ [SigNext]_sigVars => SigInv'
  BY SigConnectStep, SigRenewStep, SigOtherStep DEF SigNext
<1>2. SigInv => RenewalFromItsSocket
  BY DEF SigInv
<1> QED
  BY SigInitInv, <1>1, <1>2, PTL DEF SigSpec

-----------------------------------------------------------------------------
(* The link table and its file.                                            *)

(* Finitely many rows, whose codes have been minted. *)
Row(m) == [code : 0..m, expires : 1..Never]
RowSet(m) == UNION {[D -> Row(m)] : D \in {E \in SUBSET Labels : IsFiniteSet(E)}}

(* A code admits to one link, and the owner's to none of them. *)
Distinct(rows) ==
    \A x, y \in DOMAIN rows :
        /\ rows[x].code # Owner
        /\ x # y /\ rows[x].code = rows[y].code => rows[x].code = NoCode

Busy == {"load", "stat", "rename", "build"}
WriterRecord(m) == [pc : Busy \cup {"idle"}, rows : RowSet(m), fresh : BOOLEAN, clash : BOOLEAN]

LinkType ==
    /\ minted \in Nat /\ minted >= Owner + 1
    /\ file \in [rows : RowSet(minted), reads : {"good", "clash", "bad", "none"}, by : {"listener", "other"}]
    /\ table \in RowSet(minted)
    /\ writer \in [Writers -> WriterRecord(minted)]
    /\ raced \in BOOLEAN

(* What the listener is about to write or to enforce, and what it has      *)
(* written, has passed DedupeCodes and Mint.                               *)
Passed ==
    /\ Distinct(table)
    /\ \A x \in Listeners : Distinct(writer[x].rows)
    /\ file.by = "listener" => Distinct(file.rows)

(* Until two goroutines have changed the table at once, only one is busy;  *)
(* a process never comes to Build.                                         *)
OneCall ==
    /\ ~raced => \A x, y \in Listeners : writer[x].pc # "idle" /\ writer[y].pc # "idle" => x = y
    /\ \A x \in Commands : writer[x].pc # "build"

(* The file that the listener wrote is what it enforces, or what its call  *)
(* is about to swap in.                                                    *)
Following ==
    ~raced /\ file.by = "listener" /\ file.reads = "good" =>
        /\ \A x \in Listeners : writer[x].pc = "build" => writer[x].rows = file.rows /\ ~writer[x].clash
        /\ (\A x \in Listeners : writer[x].pc # "build") => table = file.rows

LinkInv == LinkType /\ Passed /\ OneCall /\ Following

LEMMA RowsOf ==
    ASSUME NEW m \in Nat, NEW rows
    PROVE  rows \in RowSet(m) <=>
             /\ DOMAIN rows \subseteq Labels /\ IsFiniteSet(DOMAIN rows)
             /\ rows \in [DOMAIN rows -> Row(m)]
<1>1. ASSUME rows \in RowSet(m)
      PROVE  /\ DOMAIN rows \subseteq Labels /\ IsFiniteSet(DOMAIN rows)
             /\ rows \in [DOMAIN rows -> Row(m)]
  <2>1. PICK D \in {E \in SUBSET Labels : IsFiniteSet(E)} : rows \in [D -> Row(m)]
    BY <1>1 DEF RowSet
  <2>2. DOMAIN rows = D
    BY <2>1
  <2> QED
    BY <2>1, <2>2
<1>2. ASSUME DOMAIN rows \subseteq Labels, IsFiniteSet(DOMAIN rows), rows \in [DOMAIN rows -> Row(m)]
      PROVE  rows \in RowSet(m)
  BY <1>2 DEF RowSet
<1> QED
  BY <1>1, <1>2

LEMMA RowsGrow ==
    ASSUME NEW m \in Nat, NEW n \in Nat, m <= n, NEW rows \in RowSet(m)
    PROVE  rows \in RowSet(n)
<1>1. Row(m) \subseteq Row(n)
  BY DEF Row
<1> QED
  BY <1>1, RowsOf

LEMMA RowWritten ==
    ASSUME NEW m \in Nat, NEW rows \in RowSet(m), NEW l \in Labels, NEW row \in Row(m)
    PROVE  WithRow(rows, l, row) \in RowSet(m)
<1>1. DOMAIN rows \subseteq Labels /\ IsFiniteSet(DOMAIN rows) /\ rows \in [DOMAIN rows -> Row(m)]
  BY RowsOf
<1>2. DOMAIN WithRow(rows, l, row) = DOMAIN rows \cup {l}
  BY DEF WithRow
<1>3. IsFiniteSet(DOMAIN rows \cup {l})
  BY <1>1, FS_AddElement
<1>4. WithRow(rows, l, row) \in [DOMAIN rows \cup {l} -> Row(m)]
  BY <1>1 DEF WithRow
<1> QED
  BY <1>1, <1>2, <1>3, <1>4, RowsOf

LEMMA RowRemoved ==
    ASSUME NEW m \in Nat, NEW rows \in RowSet(m), NEW l
    PROVE  WithoutRow(rows, l) \in RowSet(m)
<1>1. DOMAIN rows \subseteq Labels /\ IsFiniteSet(DOMAIN rows) /\ rows \in [DOMAIN rows -> Row(m)]
  BY RowsOf
<1>2. DOMAIN WithoutRow(rows, l) = DOMAIN rows \ {l}
  BY DEF WithoutRow
<1>3. IsFiniteSet(DOMAIN rows \ {l})
  BY <1>1, FS_RemoveElement
<1>4. WithoutRow(rows, l) \in [DOMAIN rows \ {l} -> Row(m)]
  BY <1>1 DEF WithoutRow
<1> QED
  BY <1>1, <1>2, <1>3, <1>4, RowsOf

LEMMA RowsCleared ==
    ASSUME NEW m \in Nat, NEW rows \in RowSet(m), NEW S
    PROVE  /\ Cleared(rows, S) \in RowSet(m) /\ DOMAIN Cleared(rows, S) = DOMAIN rows
           /\ \A x \in DOMAIN rows : Cleared(rows, S)[x].code = IF x \in S THEN NoCode ELSE rows[x].code
           /\ Distinct(rows) => Distinct(Cleared(rows, S))
<1>1. DOMAIN rows \subseteq Labels /\ IsFiniteSet(DOMAIN rows) /\ rows \in [DOMAIN rows -> Row(m)]
  BY RowsOf
<1>2. DOMAIN Cleared(rows, S) = DOMAIN rows
  BY DEF Cleared
<1>3. ASSUME NEW x \in DOMAIN rows
      PROVE  /\ Cleared(rows, S)[x] \in Row(m)
             /\ Cleared(rows, S)[x].code = IF x \in S THEN NoCode ELSE rows[x].code
  <2>1. rows[x] \in Row(m) /\ NoCode \in 0..m
    BY <1>1 DEF NoCode
  <2>2. [rows[x] EXCEPT !.code = NoCode] \in Row(m) /\ [rows[x] EXCEPT !.code = NoCode].code = NoCode
    BY <2>1 DEF Row
  <2>3. Cleared(rows, S)[x] = IF x \in S THEN [rows[x] EXCEPT !.code = NoCode] ELSE rows[x]
    BY DEF Cleared
  <2> QED
    BY <2>1, <2>2, <2>3
<1>4. Cleared(rows, S) \in [DOMAIN rows -> Row(m)]
  <2>1. Cleared(rows, S) = [x \in DOMAIN rows |-> Cleared(rows, S)[x]]
    BY DEF Cleared
  <2> QED
    BY <2>1, <1>3
<1>5. Cleared(rows, S) \in RowSet(m)
  BY <1>1, <1>2, <1>4, RowsOf
<1>6. Distinct(rows) => Distinct(Cleared(rows, S))
  BY <1>2, <1>3 DEF Distinct, NoCode, Owner
<1> QED
  BY <1>2, <1>3, <1>5, <1>6

(* What DedupeCodes is for: whatever the file held, no two rows that leave *)
(* it admit with the same code, and none with the owner's.                 *)
LEMMA DedupeDistinct ==
    ASSUME NEW m \in Nat, NEW rows \in RowSet(m)
    PROVE  DedupeCodes(rows) \in RowSet(m) /\ Distinct(DedupeCodes(rows))
<1>1. /\ DedupeCodes(rows) \in RowSet(m) /\ DOMAIN DedupeCodes(rows) = DOMAIN rows
      /\ \A x \in DOMAIN rows :
            DedupeCodes(rows)[x].code = IF x \in Shared(rows) THEN NoCode ELSE rows[x].code
  BY RowsCleared DEF DedupeCodes
<1>2. Distinct(DedupeCodes(rows))
  BY <1>1 DEF Distinct, Shared, NoCode, Owner
<1> QED
  BY <1>1, <1>2

(* There are enough codes beyond m for the labels of S. *)
LEMMA CodesForAll ==
    ASSUME NEW m \in Nat, NEW S, IsFiniteSet(S)
    PROVE  /\ Cardinality(S) \in Nat
           /\ \E n \in [S -> m + 1 .. m + Cardinality(S)] : \A x, y \in S : x # y => n[x] # n[y]
<1> DEFINE c == Cardinality(S)
<1>1. c \in Nat /\ ExistsBijection(1..c, S)
  BY FS_CardinalityType
<1>2. PICK f : f \in Bijection(1..c, S)
  BY <1>1 DEF ExistsBijection
<1>3. /\ f \in [1..c -> S] /\ \A y \in S : \E i \in 1..c : f[i] = y
      /\ \A a, b \in 1..c : f[a] = f[b] => a = b
  BY <1>2 DEF Bijection, Injection, Surjection, IsInjective
<1> DEFINE at(x) == CHOOSE i \in 1..c : f[i] = x
           n == [x \in S |-> m + at(x)]
<1>4. \A x \in S : at(x) \in 1..c /\ f[at(x)] = x
  BY <1>3
<1> HIDE DEF at
<1>5. \A x \in S : n[x] = m + at(x) /\ n[x] \in m + 1 .. m + c
  BY <1>1, <1>4
<1>6. n \in [S -> m + 1 .. m + c]
  BY <1>5
<1>7. \A x, y \in S : x # y => n[x] # n[y]
  BY <1>4, <1>5, <1>1
<1> HIDE DEF n
<1> QED
  BY <1>1, <1>6, <1>7

(* Mint gives every live row without a code one that nobody has had. *)
LEMMA MintDistinct ==
    ASSUME minted \in Nat, minted >= Owner + 1,
           NEW rows \in RowSet(minted), Distinct(rows)
    PROVE  /\ Cardinality(Codeless(rows)) \in Nat
           /\ Mint(rows) \in RowSet(minted + Cardinality(Codeless(rows)))
           /\ DOMAIN Mint(rows) = DOMAIN rows
           /\ Distinct(Mint(rows))
<1> DEFINE S == Codeless(rows)
           c == Cardinality(S)
           OneEach(n) == \A x, y \in S : x # y => n[x] # n[y]
           fresh == CHOOSE n \in [S -> minted + 1 .. minted + c] : OneEach(n)
           new == Mint(rows)
<1>1. DOMAIN rows \subseteq Labels /\ IsFiniteSet(DOMAIN rows) /\ rows \in [DOMAIN rows -> Row(minted)]
  BY RowsOf
<1>2. S \subseteq DOMAIN rows /\ IsFiniteSet(S)
  BY <1>1, FS_Subset DEF Codeless
<1>3. c \in Nat /\ \E n \in [S -> minted + 1 .. minted + c] : OneEach(n)
  BY <1>2, CodesForAll
<1>4. fresh \in [S -> minted + 1 .. minted + c] /\ \A x, y \in S : x # y => fresh[x] # fresh[y]
  BY <1>3
<1>5. new = [x \in DOMAIN rows |-> IF x \in S THEN [rows[x] EXCEPT !.code = fresh[x]] ELSE rows[x]]
  BY DEF Mint
<1>6. \A x \in S : rows[x].code = NoCode
  BY DEF Codeless
<1> HIDE DEF fresh, S, c, OneEach, new
<1>7. ASSUME NEW x \in DOMAIN rows
      PROVE  /\ new[x] \in Row(minted + c)
             /\ x \in S => new[x].code = fresh[x] /\ new[x].code > minted
             /\ x \notin S => new[x].code = rows[x].code
             /\ rows[x].code \in 0..minted
  <2>1. rows[x] \in Row(minted) /\ rows[x] \in Row(minted + c) /\ rows[x].code \in 0..minted
    BY <1>1, <1>3 DEF Row
  <2>2. CASE x \in S
    <3>1. fresh[x] \in 0..minted + c /\ fresh[x] > minted
      BY <1>3, <1>4, <2>2
    <3>2. new[x] = [rows[x] EXCEPT !.code = fresh[x]]
      BY <1>5, <2>2
    <3>3. [rows[x] EXCEPT !.code = fresh[x]] \in Row(minted + c)
           /\ [rows[x] EXCEPT !.code = fresh[x]].code = fresh[x]
      BY <2>1, <3>1 DEF Row
    <3> QED
      BY <2>1, <2>2, <3>1, <3>2, <3>3
  <2>3. CASE x \notin S
    BY <1>5, <2>1, <2>3
  <2> QED
    BY <2>2, <2>3
<1>8. DOMAIN new = DOMAIN rows
  BY <1>5
<1>9. new \in [DOMAIN rows -> Row(minted + c)]
  <2>1. new = [x \in DOMAIN rows |-> new[x]]
    BY <1>5
  <2> QED
    BY <2>1, <1>7
<1>10. new \in RowSet(minted + c)
  <2>1. minted + c \in Nat
    BY <1>3
  <2> QED
    BY <2>1, <1>1, <1>8, <1>9, RowsOf
<1>11. Distinct(new)
  <2> SUFFICES ASSUME NEW x \in DOMAIN rows, NEW y \in DOMAIN rows
               PROVE  /\ new[x].code # Owner
                      /\ x # y /\ new[x].code = new[y].code => new[x].code = NoCode
    BY <1>8 DEF Distinct
  <2>1. new[x].code # Owner
    BY <1>7 DEF Distinct, Owner
  <2>2. ASSUME x # y, new[x].code = new[y].code PROVE new[x].code = NoCode
    <3>1. ~(x \in S /\ y \in S)
      BY <1>4, <1>7, <2>2
    <3>2. x \notin S /\ y \notin S
      BY <1>7, <2>2, <3>1
    <3> QED
      BY <1>7, <2>2, <3>2 DEF Distinct
  <2> QED
    BY <2>1, <2>2
<1> QED
  BY <1>3, <1>8, <1>10, <1>11 DEF S, c, new

(* The state after a step that leaves table and file alone and sets one    *)
(* writer to the record r.                                                 *)
LEMMA OneWriterSteps ==
    ASSUME LinkInv, NEW x \in Writers, NEW r \in WriterRecord(minted),
           writer' = [writer EXCEPT ![x] = r],
           UNCHANGED <<file, table, minted, raced>>,
           x \in Listeners => Distinct(r.rows),
           x \in Listeners => r.pc = "idle" \/ writer[x].pc # "idle",
           r.pc # "build", writer[x].pc # "build"
    PROVE  LinkInv'
<1> USE DEF LinkInv
<1>1. writer \in [Writers -> WriterRecord(minted)] /\ Listeners \subseteq Writers /\ Commands \subseteq Writers
  BY DEF LinkType, Writers
<1>2. /\ writer' \in [Writers -> WriterRecord(minted)]
      /\ \A y \in Writers : writer'[y] = IF y = x THEN r ELSE writer[y]
  BY <1>1
<1>3. LinkType'
  BY <1>2 DEF LinkType
<1>4. Passed'
  BY <1>1, <1>2 DEF Passed
<1>5. OneCall'
  BY <1>1, <1>2 DEF OneCall
<1>6. Following'
  BY <1>1, <1>2 DEF Following
<1> QED
  BY <1>3, <1>4, <1>5, <1>6

LEMMA IdleWriter ==
    ASSUME NEW m \in Nat
    PROVE  Idle \in WriterRecord(m) /\ Idle.pc = "idle" /\ Idle.rows = NoRows /\ Distinct(NoRows)
<1>1. DOMAIN NoRows = {} /\ NoRows \in [{} -> Row(m)]
  BY DEF NoRows
<1>2. NoRows \in RowSet(m)
  BY <1>1, RowsOf, FS_EmptySet
<1> QED
  BY <1>1, <1>2 DEF Idle, WriterRecord, Distinct

LEMMA InstallKeeps ==
    ASSUME LinkInv, NEW x \in Listeners, NEW op, NEW rows \in RowSet(minted),
           op = "reload" => rows = file.rows, writer[x].pc = "idle",
           Install(x, op, rows)
    PROVE  LinkInv'
<1> USE DEF LinkInv
<1> DEFINE retired == RetireExpired(DedupeCodes(rows))
           new == Mint(retired)
           changed == \E l \in DOMAIN rows : new[l] # rows[l] /\ ~(rows[l].code = Owner /\ Expired(rows[l]))
           pc == IF op = "reload" /\ ~changed THEN "build" ELSE IF Missing THEN "stat" ELSE "load"
<1>1. minted \in Nat /\ minted >= Owner + 1 /\ writer \in [Writers -> WriterRecord(minted)]
  BY DEF LinkType
<1>2. Listeners \subseteq Writers /\ Commands \subseteq Writers /\ x \notin Commands
  BY LinkAssumption DEF Writers, Listeners
<1>3. retired \in RowSet(minted) /\ Distinct(retired) /\ DOMAIN retired = DOMAIN rows
  <2>1. /\ DedupeCodes(rows) \in RowSet(minted) /\ Distinct(DedupeCodes(rows))
        /\ DOMAIN DedupeCodes(rows) = DOMAIN rows
    BY <1>1, DedupeDistinct, RowsCleared DEF DedupeCodes
  <2> QED
    BY <1>1, <2>1, RowsCleared DEF RetireExpired
<1>4. /\ minted' = minted + Cardinality(Codeless(retired)) /\ Cardinality(Codeless(retired)) \in Nat
      /\ new \in RowSet(minted') /\ DOMAIN new = DOMAIN rows /\ Distinct(new)
  BY <1>1, <1>3, MintDistinct DEF Install
<1>5. /\ UNCHANGED <<file, table>>
      /\ raced' = (raced \/ \E y \in Listeners \ {x} : writer[y].pc # "idle")
  BY DEF Install
<1>6. PICK clash \in Clashes(op) :
         writer' = [writer EXCEPT ![x] = [pc |-> pc, rows |-> new, fresh |-> Missing, clash |-> clash]]
  BY DEF Install
<1> DEFINE r == [pc |-> pc, rows |-> new, fresh |-> Missing, clash |-> clash]
<1>7. pc \in {"build", "stat", "load"} /\ clash \in BOOLEAN /\ Missing \in BOOLEAN
  BY DEF Clashes, Missing
<1>8. pc = "build" => op = "reload" /\ ~changed
  OBVIOUS
<1> HIDE DEF retired, new, pc
<1>9. minted' \in Nat /\ minted <= minted'
  BY <1>1, <1>4
<1>10. \A q \in RowSet(minted) : q \in RowSet(minted')
  BY <1>1, <1>9, RowsGrow
<1>11. WriterRecord(minted) \subseteq WriterRecord(minted') /\ r \in WriterRecord(minted')
  BY <1>10, <1>4, <1>7 DEF WriterRecord, Busy
<1> DEFINE w == r
<1>12. w.pc = pc /\ w.rows = new /\ w.clash = clash /\ w \in WriterRecord(minted') /\ writer' = [writer EXCEPT ![x] = w]
  BY <1>11, <1>6
<1> HIDE DEF w, r
<1>13. \A y \in Writers : writer'[y] = IF y = x THEN w ELSE writer[y]
  BY <1>1, <1>2, <1>12
<1>14. LinkType'
  <2>1. writer' \in [Writers -> WriterRecord(minted')]
    BY <1>1, <1>2, <1>11, <1>12
  <2>2. raced' \in BOOLEAN
    BY <1>5
  <2>3. minted' >= Owner + 1
    BY <1>1, <1>9 DEF Owner
  <2>4. table \in RowSet(minted') /\ file \in [rows : RowSet(minted'), reads : {"good", "clash", "bad", "none"}, by : {"listener", "other"}]
    BY <1>10 DEF LinkType
  <2> QED
    BY <2>1, <2>2, <2>3, <2>4, <1>5, <1>9 DEF LinkType
<1>15. Passed'
  BY <1>2, <1>4, <1>5, <1>12, <1>13 DEF Passed
<1>16. OneCall'
  <2>1. ASSUME ~raced' PROVE \A y \in Listeners : writer'[y].pc # "idle" => y = x
    BY <2>1, <1>2, <1>5, <1>13
  <2>2. \A y \in Commands : writer'[y].pc # "build"
    BY <1>2, <1>13 DEF OneCall
  <2> QED
    BY <2>1, <2>2 DEF OneCall
<1>17. Following'
  <2> SUFFICES ASSUME ~raced', file.by = "listener", file.reads = "good"
               PROVE  /\ \A y \in Listeners : writer'[y].pc = "build" => writer'[y].rows = file.rows /\ ~writer'[y].clash
                      /\ (\A y \in Listeners : writer'[y].pc # "build") => table = file.rows
    BY <1>5 DEF Following
  <2>1. \A y \in Listeners \ {x} : writer[y].pc = "idle"
    BY <1>5
  <2>2. table = file.rows
    BY <2>1, <1>5 DEF Following
  <2>3. ASSUME w.pc = "build" PROVE w.rows = file.rows /\ ~w.clash
    <3>1. op = "reload" /\ rows = file.rows /\ ~changed
      BY <1>8, <1>12, <2>3
    <3>2. Distinct(rows)
      BY <3>1 DEF Passed
    <3>3. \A l \in DOMAIN rows : new[l] = rows[l]
      BY <3>1, <3>2 DEF Distinct
    <3>4. new = rows
      <4>1. new \in [DOMAIN rows -> Row(minted')]
        BY <1>4, <1>9, RowsOf
      <4>2. rows \in [DOMAIN rows -> Row(minted)]
        BY <1>1, RowsOf
      <4> QED
        BY <4>1, <4>2, <3>3
    <3>5. ~clash
      BY <3>1 DEF Clashes
    <3> QED
      BY <1>12, <3>1, <3>4, <3>5
  <2> QED
    BY <1>2, <1>13, <2>1, <2>2, <2>3
<1> QED
  BY <1>14, <1>15, <1>16, <1>17

LEMMA ReloadKeeps ==
    ASSUME LinkInv, NEW x \in Listeners, Reload(x) \/ \E l \in Labels : RemoveLink(x, l)
    PROVE  LinkInv'
<1>1. minted \in Nat /\ file.rows \in RowSet(minted) /\ writer[x].pc = "idle"
  BY DEF LinkInv, LinkType, Reload, RemoveLink, Readable
<1>2. CASE Reload(x)
  BY <1>1, <1>2, InstallKeeps DEF Reload
<1>3. ASSUME NEW l \in Labels, RemoveLink(x, l) PROVE LinkInv'
  <2> DEFINE rows == WithoutRow(file.rows, l)
  <2>1. rows \in RowSet(minted)
    BY <1>1, RowRemoved
  <2>2. Install(x, "rm", rows)
    BY <1>3 DEF RemoveLink
  <2> HIDE DEF rows
  <2> QED
    BY <1>1, <2>1, <2>2, InstallKeeps
<1> QED
  BY <1>2, <1>3

LEMMA CallKeeps ==
    ASSUME LinkInv, NEW x \in Listeners, NEW l \in Labels, NEW e \in 1..Never, NEW new \in Labels,
           AddLink(x, l, e) \/ EditLink(x, l, new, e)
    PROVE  LinkInv'
<1>1. minted \in Nat /\ file.rows \in RowSet(minted) /\ writer[x].pc = "idle"
  BY DEF LinkInv, LinkType, AddLink, EditLink, Readable
<1>2. file.rows \in [DOMAIN file.rows -> Row(minted)] /\ NoCode \in 0..minted
  BY <1>1, RowsOf DEF NoCode
<1>3. CASE AddLink(x, l, e)
  <2> DEFINE row == [code |-> NoCode, expires |-> e]
             rows == WithRow(file.rows, l, row)
  <2>1. row \in Row(minted)
    BY <1>2 DEF Row
  <2>2. rows \in RowSet(minted)
    BY <1>1, <2>1, RowWritten
  <2>3. Install(x, "add", rows)
    BY <1>3 DEF AddLink
  <2> HIDE DEF rows
  <2> QED
    BY <1>1, <2>2, <2>3, InstallKeeps
<1>4. CASE EditLink(x, l, new, e)
  <2> DEFINE row == [code |-> file.rows[l].code, expires |-> e]
             less == WithoutRow(file.rows, l)
             rows == WithRow(less, new, row)
  <2>1. row \in Row(minted)
    BY <1>2, <1>4 DEF Row, EditLink
  <2>2. less \in RowSet(minted)
    BY <1>1, RowRemoved
  <2>3. Install(x, "edit", rows)
    BY <1>4 DEF EditLink
  <2> HIDE DEF less, row
  <2>4. rows \in RowSet(minted)
    BY <1>1, <2>1, <2>2, RowWritten
  <2> HIDE DEF rows
  <2> QED
    BY <1>1, <2>3, <2>4, InstallKeeps
<1> QED
  BY <1>3, <1>4

LEMMA CommandKeeps ==
    ASSUME LinkInv, NEW x \in Commands, NEW l \in Labels, CommandRemoves(x, l)
    PROVE  LinkInv'
<1> DEFINE rows == WithoutRow(file.rows, l)
<1>1. minted \in Nat /\ file.rows \in RowSet(minted) /\ writer[x].pc = "idle"
  BY DEF LinkInv, LinkType, CommandRemoves, Readable
<1>2. x \in Writers /\ x \notin Listeners
  BY LinkAssumption DEF Writers, Listeners
<1>3. PICK clash \in Clashes("rm") :
         /\ writer' = [writer EXCEPT ![x] = [pc |-> "load", fresh |-> FALSE, rows |-> rows, clash |-> clash]]
         /\ UNCHANGED <<file, table, minted, raced>>
  BY DEF CommandRemoves
<1> DEFINE r == [pc |-> "load", fresh |-> FALSE, rows |-> rows, clash |-> clash]
<1>4. rows \in RowSet(minted) /\ clash \in BOOLEAN
  BY <1>1, RowRemoved DEF Clashes
<1> HIDE DEF rows
<1>5. r \in WriterRecord(minted) /\ r.pc = "load" /\ writer' = [writer EXCEPT ![x] = r]
  BY <1>3, <1>4 DEF WriterRecord, Busy
<1> HIDE DEF r
<1> QED
  BY <1>1, <1>2, <1>3, <1>5, OneWriterSteps

LEMMA OutdatedWriters ==
    ASSUME LinkInv
    PROVE  /\ Outdated \in [Writers -> WriterRecord(minted)]
           /\ \A x \in Writers : /\ Outdated[x].pc = writer[x].pc /\ Outdated[x].rows = writer[x].rows
                                 /\ Outdated[x].clash = writer[x].clash
<1>1. ASSUME NEW x \in Writers
      PROVE  /\ Outdated[x] \in WriterRecord(minted) /\ Outdated[x].pc = writer[x].pc
             /\ Outdated[x].rows = writer[x].rows /\ Outdated[x].clash = writer[x].clash
  <2>1. writer[x] \in WriterRecord(minted)
    BY DEF LinkInv, LinkType
  <2>2. Outdated[x] = [writer[x] EXCEPT !.fresh = FALSE]
    BY DEF Outdated
  <2> QED
    BY <2>1, <2>2 DEF WriterRecord
<1>2. Outdated = [x \in Writers |-> Outdated[x]]
  BY DEF Outdated
<1> QED
  BY <1>1, <1>2

LEMMA RenameKeeps ==
    ASSUME LinkInv, NEW x \in Writers, Rename(x)
    PROVE  LinkInv'
<1> USE DEF LinkInv
<1> DEFINE old == writer[x]
           r == IF x \in Commands THEN Idle ELSE [Outdated[x] EXCEPT !.pc = "build"]
           reads == IF old.clash THEN "clash" ELSE "good"
           by == IF x \in Listeners THEN "listener" ELSE "other"
<1>1. minted \in Nat /\ old \in WriterRecord(minted) /\ old.pc = "rename"
  BY DEF LinkType, Rename
<1>2. Listeners \subseteq Writers /\ Commands \subseteq Writers /\ (x \in Listeners <=> x \notin Commands)
  BY LinkAssumption DEF Writers, Listeners
<1>3. /\ Outdated \in [Writers -> WriterRecord(minted)]
      /\ \A y \in Writers : /\ Outdated[y].pc = writer[y].pc /\ Outdated[y].rows = writer[y].rows
                            /\ Outdated[y].clash = writer[y].clash
  BY OutdatedWriters
<1>4. /\ writer' = [Outdated EXCEPT ![x] = r] /\ UNCHANGED <<table, minted, raced>>
      /\ file' = [rows |-> old.rows, reads |-> reads, by |-> by]
  BY DEF Rename
<1>5. r \in WriterRecord(minted)
  <2>1. [Outdated[x] EXCEPT !.pc = "build"] \in WriterRecord(minted)
    BY <1>3 DEF WriterRecord, Busy
  <2> QED
    BY <1>1, <2>1, IdleWriter
<1>6. x \in Commands => r.pc = "idle" /\ r.rows = NoRows /\ Distinct(NoRows)
  BY <1>1, IdleWriter
<1>7. x \in Listeners => r.pc = "build" /\ r.rows = old.rows /\ r.clash = old.clash
  <2>1. Outdated[x] \in WriterRecord(minted)
    BY <1>3
  <2>2. LET d == [Outdated[x] EXCEPT !.pc = "build"]
        IN  d.pc = "build" /\ d.rows = Outdated[x].rows /\ d.clash = Outdated[x].clash
    BY <2>1 DEF WriterRecord
  <2> QED
    BY <2>2, <1>2, <1>3
<1>8. /\ reads \in {"good", "clash", "bad", "none"} /\ (reads = "good" => ~old.clash)
      /\ by \in {"listener", "other"} /\ (by = "listener" <=> x \in Listeners)
  OBVIOUS
<1> HIDE DEF r, reads, by
<1>9. /\ writer' \in [Writers -> WriterRecord(minted)]
      /\ \A y \in Writers : writer'[y] = IF y = x THEN r ELSE Outdated[y]
  BY <1>3, <1>4, <1>5
<1>10. file'.rows = old.rows /\ file'.reads = reads /\ file'.by = by
  BY <1>4
<1>11. LinkType'
  <2>1. old.rows \in RowSet(minted)
    BY <1>1 DEF WriterRecord
  <2>2. file' \in [rows : RowSet(minted), reads : {"good", "clash", "bad", "none"}, by : {"listener", "other"}]
    BY <1>4, <1>8, <2>1
  <2> QED
    BY <1>4, <1>9, <2>2 DEF LinkType
<1>12. Passed'
  <2>1. Distinct(table')
    BY <1>4 DEF Passed
  <2>2. ASSUME NEW y \in Listeners PROVE Distinct(writer'[y].rows)
    BY <1>2, <1>3, <1>7, <1>9 DEF Passed
  <2>3. file'.by = "listener" => Distinct(file'.rows)
    BY <1>8, <1>10 DEF Passed
  <2> QED
    BY <2>1, <2>2, <2>3 DEF Passed
<1>13. \A y \in Writers : y # x => writer'[y].pc = writer[y].pc
  BY <1>3, <1>9
<1>14. OneCall'
  <2>1. \A y \in Commands : writer'[y].pc # "build"
    BY <1>2, <1>6, <1>9, <1>13 DEF OneCall
  <2>2. \A y \in Listeners : writer'[y].pc # "idle" => writer[y].pc # "idle"
    BY <1>1, <1>2, <1>13
  <2> QED
    BY <1>4, <2>1, <2>2 DEF OneCall
<1>15. Following'
  <2> SUFFICES ASSUME ~raced, by = "listener", reads = "good"
               PROVE  /\ \A y \in Listeners : writer'[y].pc = "build" => writer'[y].rows = old.rows /\ ~writer'[y].clash
                      /\ writer'[x].pc = "build" /\ x \in Listeners
    BY <1>4, <1>10 DEF Following
  <2>1. x \in Listeners /\ writer'[x] = r
    BY <1>8, <1>9
  <2>2. \A y \in Listeners : y # x => writer'[y].pc = "idle"
    BY <1>1, <1>2, <1>13, <2>1 DEF OneCall
  <2> QED
    BY <2>1, <2>2, <1>7, <1>8
<1> QED
  BY <1>11, <1>12, <1>14, <1>15

LEMMA SwapKeeps ==
    ASSUME LinkInv, NEW x \in Writers, Swap(x)
    PROVE  LinkInv'
<1> USE DEF LinkInv
<1> DEFINE old == writer[x]
           rows == IF old.clash THEN table ELSE old.rows
<1>1. minted \in Nat /\ old \in WriterRecord(minted) /\ old.pc = "build" /\ writer \in [Writers -> WriterRecord(minted)]
  BY DEF LinkType, Swap
<1>2. Listeners \subseteq Writers /\ Commands \subseteq Writers /\ x \in Listeners
  BY <1>1 DEF OneCall, Writers
<1>3. writer' = [writer EXCEPT ![x] = Idle] /\ table' = rows /\ UNCHANGED <<file, minted, raced>>
  BY DEF Swap
<1>4. Idle \in WriterRecord(minted) /\ Idle.pc = "idle" /\ Idle.rows = NoRows /\ Distinct(NoRows)
  BY <1>1, IdleWriter
<1>5. rows \in RowSet(minted) /\ Distinct(rows) /\ (~old.clash => rows = old.rows)
  BY <1>1, <1>2 DEF LinkType, Passed, WriterRecord
<1> HIDE DEF rows
<1>6. /\ writer' \in [Writers -> WriterRecord(minted)]
      /\ \A y \in Writers : writer'[y] = IF y = x THEN Idle ELSE writer[y]
  BY <1>1, <1>3, <1>4
<1>7. LinkType'
  BY <1>3, <1>5, <1>6 DEF LinkType
<1>8. Passed'
  BY <1>2, <1>3, <1>4, <1>5, <1>6 DEF Passed
<1>9. OneCall'
  BY <1>2, <1>3, <1>4, <1>6 DEF OneCall
<1>10. Following'
  <2> SUFFICES ASSUME ~raced, file.by = "listener", file.reads = "good"
               PROVE  /\ \A y \in Listeners : writer'[y].pc # "build"
                      /\ rows = file.rows
    BY <1>3 DEF Following
  <2>1. \A y \in Listeners : y # x => writer[y].pc = "idle"
    BY <1>1, <1>2 DEF OneCall
  <2>2. rows = file.rows
    BY <1>1, <1>2, <1>5 DEF Following
  <2> QED
    BY <1>2, <1>4, <1>6, <2>1, <2>2
<1> QED
  BY <1>7, <1>8, <1>9, <1>10

LEMMA WriterKeeps ==
    ASSUME LinkInv, NEW x \in Writers, WriterStep(x)
    PROVE  LinkInv'
<1>1. minted \in Nat /\ writer \in [Writers -> WriterRecord(minted)] /\ writer[x] \in WriterRecord(minted)
  BY DEF LinkInv, LinkType
<1>2. x \in Listeners => Distinct(writer[x].rows)
  BY DEF LinkInv, Passed
<1>3. Idle \in WriterRecord(minted) /\ Idle.pc = "idle" /\ Distinct(Idle.rows)
  BY <1>1, IdleWriter
<1>4. CASE LoadStat(x)
  <2> DEFINE r == [writer[x] EXCEPT !.pc = "stat", !.fresh = TRUE]
  <2>1. writer' = [writer EXCEPT ![x] = r] /\ writer[x].pc = "load" /\ UNCHANGED <<file, table, minted, raced>>
    BY <1>1, <1>4 DEF LoadStat
  <2>2. r \in WriterRecord(minted) /\ r.pc = "stat" /\ r.rows = writer[x].rows
    BY <1>1 DEF WriterRecord, Busy
  <2> HIDE DEF r
  <2> QED
    BY <1>2, <2>1, <2>2, OneWriterSteps
<1>5. CASE Stat(x)
  <2> DEFINE on == [writer[x] EXCEPT !.pc = "rename"]
             r == IF writer[x].fresh THEN on ELSE Idle
  <2>1. writer' = [writer EXCEPT ![x] = r] /\ writer[x].pc = "stat" /\ UNCHANGED <<file, table, minted, raced>>
    BY <1>1, <1>5 DEF Stat
  <2>2. on \in WriterRecord(minted) /\ on.pc = "rename" /\ on.rows = writer[x].rows
    BY <1>1 DEF WriterRecord, Busy
  <2> HIDE DEF on
  <2>3. r \in WriterRecord(minted) /\ r.pc # "build" /\ (x \in Listeners => Distinct(r.rows))
    BY <1>2, <1>3, <2>2
  <2> HIDE DEF r
  <2> QED
    BY <2>1, <2>3, OneWriterSteps
<1>6. CASE SaveFails(x)
  <2>1. writer' = [writer EXCEPT ![x] = Idle] /\ writer[x].pc = "rename" /\ UNCHANGED <<file, table, minted, raced>>
    BY <1>6 DEF SaveFails
  <2> QED
    BY <1>3, <2>1, OneWriterSteps
<1> QED
  BY <1>4, <1>5, <1>6, RenameKeeps, SwapKeeps DEF WriterStep

LEMMA EditedKeeps ==
    ASSUME LinkInv, NEW rows \in RowSet(minted), NEW reads \in {"good", "bad", "clash", "none"}, Edited(rows, reads)
    PROVE  LinkInv'
<1> USE DEF LinkInv
<1>1. /\ Outdated \in [Writers -> WriterRecord(minted)]
      /\ \A y \in Writers : /\ Outdated[y].pc = writer[y].pc /\ Outdated[y].rows = writer[y].rows
                            /\ Outdated[y].clash = writer[y].clash
  BY OutdatedWriters
<1>2. Listeners \subseteq Writers /\ Commands \subseteq Writers
  BY DEF Writers
<1>3. /\ writer' = Outdated /\ UNCHANGED <<table, minted, raced>>
      /\ file' = [rows |-> rows, reads |-> reads, by |-> "other"]
  BY DEF Edited
<1>4. LinkType'
  BY <1>1, <1>3 DEF LinkType
<1>5. Passed'
  BY <1>1, <1>2, <1>3 DEF Passed
<1>6. OneCall'
  BY <1>1, <1>2, <1>3 DEF OneCall
<1>7. Following'
  BY <1>3 DEF Following
<1> QED
  BY <1>4, <1>5, <1>6, <1>7

LEMMA OutsideKeeps ==
    ASSUME LinkInv, Outside
    PROVE  LinkInv'
<1>1. minted \in Nat /\ minted >= Owner + 1 /\ file.rows \in RowSet(minted)
  BY DEF LinkInv, LinkType
<1>2. file.rows \in [DOMAIN file.rows -> Row(minted)] /\ NoCode \in 0..minted /\ Owner \in 0..minted
  BY <1>1, RowsOf DEF NoCode, Owner
<1>3. CASE Tick
  BY <1>3 DEF Tick, LinkInv, LinkType, Passed, OneCall, Following
<1>4. ASSUME NEW l \in Labels, NEW row \in Row(minted), Edited(WithRow(file.rows, l, row), "good")
      PROVE  LinkInv'
  <2> DEFINE rows == WithRow(file.rows, l, row)
  <2>1. rows \in RowSet(minted)
    BY <1>1, RowWritten
  <2>2. Edited(rows, "good")
    BY <1>4
  <2> HIDE DEF rows
  <2> QED
    BY <2>1, <2>2, EditedKeeps
<1>5. ASSUME NEW l \in Labels, NEW e \in 1..Never, EditorWrites(l, e)
      PROVE  LinkInv'
  <2>1. PICK c \in {NoCode, Owner} : Edited(WithRow(file.rows, l, [code |-> c, expires |-> e]), "good")
    BY <1>5 DEF EditorWrites
  <2>2. [code |-> c, expires |-> e] \in Row(minted)
    BY <1>2 DEF Row
  <2> QED
    BY <1>4, <2>1, <2>2
<1>6. ASSUME NEW l \in DOMAIN file.rows, NEW e \in 1..Never
      PROVE  [file.rows[l] EXCEPT !.expires = e] \in Row(minted)
  BY <1>2 DEF Row
<1>7. ASSUME NEW l \in Labels, NEW e \in 1..Never, EditorRenews(l, e)
      PROVE  LinkInv'
  BY <1>4, <1>6, <1>7 DEF EditorRenews
<1>8. ASSUME NEW l \in Labels, NEW new \in Labels, EditorCopies(l, new)
      PROVE  LinkInv'
  <2>1. PICK e \in 1..Never : Edited(WithRow(file.rows, new, [file.rows[l] EXCEPT !.expires = e]), "good")
    BY <1>8 DEF EditorCopies
  <2>2. [file.rows[l] EXCEPT !.expires = e] \in Row(minted)
    BY <1>6, <1>8 DEF EditorCopies
  <2> QED
    BY <1>4, <2>1, <2>2
<1>9. ASSUME NEW reads \in {"bad", "clash"}, EditorErrs(reads)
      PROVE  LinkInv'
  BY <1>1, <1>9, EditedKeeps DEF EditorErrs
<1>10. CASE EditorDeletes
  <2>1. DOMAIN NoRows = {} /\ NoRows \in [{} -> Row(minted)]
    BY DEF NoRows
  <2>2. NoRows \in RowSet(minted)
    BY <1>1, <2>1, RowsOf, FS_EmptySet
  <2> QED
    BY <1>10, <2>2, EditedKeeps DEF EditorDeletes
<1>11. ASSUME NEW x \in Commands, WriterStep(x)
       PROVE  LinkInv'
  BY <1>11, WriterKeeps DEF Writers
<1>12. ASSUME NEW x \in Commands, NEW l \in Labels, CommandRemoves(x, l)
       PROVE  LinkInv'
  BY <1>12, CommandKeeps
<1> QED
  BY <1>3, <1>5, <1>7, <1>8, <1>9, <1>10, <1>11, <1>12 DEF Outside

LEMMA LinkInitInv == LinkInit => LinkInv
<1> SUFFICES ASSUME LinkInit PROVE LinkInv
  OBVIOUS
<1>1. PICK l \in Labels, e \in 1..Never :
        file = [rows |-> [x \in {l} |-> [code |-> Owner + 1, expires |-> e]], reads |-> "good", by |-> "listener"]
  BY DEF LinkInit
<1> DEFINE rows == [x \in {l} |-> [code |-> Owner + 1, expires |-> e]]
<1>2. minted = 2 /\ table = rows /\ file.rows = rows /\ writer = [x \in Writers |-> Idle] /\ raced = FALSE
  BY <1>1 DEF LinkInit, Owner
<1>3. rows \in [{l} -> Row(2)] /\ DOMAIN rows = {l}
  BY DEF Row, Owner
<1>4. rows \in RowSet(2)
  BY <1>3, RowsOf, FS_Singleton
<1>5. Distinct(rows)
  BY DEF Distinct, Owner
<1>6. Idle \in WriterRecord(2) /\ Idle.pc = "idle" /\ Distinct(Idle.rows)
  BY IdleWriter
<1>7. file = [rows |-> rows, reads |-> "good", by |-> "listener"]
  BY <1>1
<1> HIDE DEF rows
<1>8. Listeners \subseteq Writers /\ Commands \subseteq Writers
  BY DEF Writers
<1>9. LinkType
  <2>1. file \in [rows : RowSet(2), reads : {"good", "clash", "bad", "none"}, by : {"listener", "other"}]
    BY <1>4, <1>7
  <2>2. writer \in [Writers -> WriterRecord(2)]
    BY <1>2, <1>6
  <2>3. minted \in Nat /\ minted >= Owner + 1
    BY <1>2 DEF Owner
  <2> QED
    BY <1>2, <1>4, <2>1, <2>2, <2>3 DEF LinkType
<1>10. Passed /\ OneCall /\ Following
  BY <1>2, <1>5, <1>6, <1>7, <1>8 DEF Passed, OneCall, Following
<1> QED
  BY <1>9, <1>10 DEF LinkInv

LEMMA LinkStepInv == LinkInv /\ [LinkNext]_linkVars => LinkInv'
<1> SUFFICES ASSUME LinkInv, [LinkNext]_linkVars PROVE LinkInv'
  OBVIOUS
<1>1. CASE UNCHANGED linkVars
  BY <1>1 DEF linkVars, LinkInv, LinkType, Passed, OneCall, Following
<1>2. Consoles \subseteq Listeners /\ Listeners \subseteq Writers
  BY DEF Listeners, Writers
<1>3. ASSUME NEW x \in Listeners, NEW l \in Labels, NEW new \in Labels, NEW e \in 1..Never,
             EditLink(x, l, new, e)
      PROVE  LinkInv'
  BY <1>3, CallKeeps
<1>4. ASSUME NEW x \in Consoles, ConsoleCall(x) PROVE LinkInv'
  BY <1>2, <1>3, <1>4, ReloadKeeps DEF ConsoleCall
<1>5. ASSUME NEW x \in Listeners, NEW l \in Labels, NEW e \in 1..Never, AddLink(x, l, e)
      PROVE  LinkInv'
  BY <1>5, CallKeeps
<1>6. ASSUME NEW x \in Listeners, WriterStep(x) PROVE LinkInv'
  BY <1>2, <1>6, WriterKeeps
<1> QED
  BY <1>1, <1>4, <1>5, <1>6, OutsideKeeps DEF LinkNext

(* LinkInv holds in every reachable state of links.json and of the table,  *)
(* with the listener's goroutines, other processes and an editor at work.  *)
THEOREM LinkInvariance == LinkSpec => []LinkInv
BY LinkInitInv, LinkStepInv, PTL DEF LinkSpec

(* A code admits to one link and the owner's to none of them: whatever was *)
(* copied into links.json, whoever wrote it, and whichever goroutines were *)
(* minting at the time (DedupeCodes, Mint, linkState.mutate).              *)
THEOREM OneLinkPerCode == LinkSpec => []CodesDistinct
<1>1. LinkInv => CodesDistinct
  BY DEF LinkInv, Passed, Distinct, CodesDistinct
<1> QED
  BY <1>1, LinkInvariance, PTL

(* Once the listener's calls have returned, what it enforces is the file   *)
(* it wrote, unless another process or an editor has written the file      *)
(* since, or two of its goroutines changed the table at once.              *)
THEOREM EnforcesItsFile == LinkSpec => []TableFollowsFile
<1>1. LinkInv => TableFollowsFile
  BY DEF LinkInv, Following, TableFollowsFile
<1> QED
  BY <1>1, LinkInvariance, PTL
=============================================================================
