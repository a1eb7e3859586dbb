----------------------------- MODULE HttpStream -----------------------------
(***************************************************************************)
(* One web stream of a page: a request through HTTPHandler (the proxy,     *)
(* internal/streamtype/http.go) or HTTPLocalHandler (http_local.go), with  *)
(* or without the httpDispatcher of bitbang serve in front of them, or a   *)
(* WebSocket through WSHandler (websocket.go).                             *)
(*                                                                         *)
(* The page and the upstream are external: the web server behind the       *)
(* proxy, or the in-process http.Handler.  A body is a number of pieces.   *)
(* toPage is everything sent to the page.                                  *)
(***************************************************************************)
EXTENDS StreamFrames

CONSTANTS
    BodyPieces,   \* bound: pieces of a request body, messages of a WebSocket
    SniffMax,     \* pieces that fill the sniff buffer
    ReplyPieces   \* bound: pieces of a response

VARIABLES
    page,      \* the page: what it asks for, and what it sent
    toHttp,    \* frames on their way to the listener
    toPage,    \* frames sent to the page
    hh,        \* the handler's pending stream, its goroutine, the stream's worker
    origin     \* the upstream: what it received and answered

httpVars == <<page, toHttp, toPage, hh, origin>>

(* OnConnect chose the handler of the session: via the dispatcher or not,  *)
(* the proxy or the local handler.                                         *)
HttpInit ==
    /\ \E kind \in {"proxy", "local", "websocket"}, body, dispatched \in BOOLEAN :
          /\ page = [kind |-> kind, body |-> body, dispatched |-> dispatched /\ kind # "websocket",
                     sent |-> 0, end |-> "open", left |-> FALSE]
          /\ toHttp = <<Signal("SYN")>>
    /\ toPage = <<>>
    /\ hh = [stream |-> "none", session |-> "open", worker |-> "idle", held |-> 0, entry |-> FALSE,
             cancelled |-> FALSE, pipe |-> "none", run |-> "none", head |-> 0,
             conn |-> "none", sentFIN |-> FALSE, gotFIN |-> FALSE, late |-> FALSE]
    /\ origin = [got |-> 0, eof |-> FALSE, sent |-> 0]

IsWeb == page.kind # "websocket"

-----------------------------------------------------------------------------
(* The page.                                                               *)

HasBody == IsWeb => page.body

PageSends ==
    /\ HasBody /\ page.end = "open" /\ ~page.left /\ page.sent < BodyPieces /\ hh.session = "open"
    /\ page' = [page EXCEPT !.sent = @ + 1]
    /\ toHttp' = Append(toHttp, Data(page.sent + 1))
    /\ UNCHANGED <<toPage, hh, origin>>

PageFinishes ==
    /\ HasBody /\ page.end = "open" /\ ~page.left /\ hh.session = "open"
    /\ page' = [page EXCEPT !.end = "finished"]
    /\ toHttp' = Append(toHttp, Signal("FIN"))
    /\ UNCHANGED <<toPage, hh, origin>>

PageAborts ==
    /\ ~page.left /\ hh.session = "open"
    /\ page' = [page EXCEPT !.left = TRUE]
    /\ toHttp' = Append(toHttp, Signal("RESET"))
    /\ UNCHANGED <<toPage, hh, origin>>

-----------------------------------------------------------------------------
(* The stream.                                                             *)

HttpCanSend == hh.stream = "open" /\ ~hh.sentFIN /\ hh.session = "open"

HttpSends(frames) == toPage' = IF HttpCanSend THEN toPage \o frames ELSE toPage

HttpFinished(h) == IF h.sentFIN /\ h.gotFIN THEN [h EXCEPT !.stream = "gone"] ELSE h

HttpEnds(h, frames) ==
    /\ HttpSends(frames)
    /\ hh' = HttpFinished([h EXCEPT !.sentFIN = @ \/ HttpCanSend])

ErrorPage == <<Signal("SYN"), Data(1), Signal("FIN")>>

HttpAdmit ==
    /\ hh.session = "open" /\ hh.stream = "none"
    /\ toHttp # <<>> /\ Head(toHttp).kind = "SYN"
    /\ toHttp' = Tail(toHttp)
    /\ hh' = [hh EXCEPT !.stream = "open", !.worker = "syn", !.gotFIN = ~HasBody]
    /\ UNCHANGED <<page, toPage, origin>>

HttpWorkerTakes ==
    /\ hh.worker = "idle" /\ hh.stream = "open" /\ ~hh.gotFIN
    /\ toHttp # <<>> /\ Head(toHttp).kind \in {"DAT", "FIN"}
    /\ toHttp' = Tail(toHttp)
    /\ hh' = [hh EXCEPT !.worker = IF hh.entry \/ Head(toHttp).kind = "FIN" THEN Head(toHttp).kind ELSE @,
                        !.held = Head(toHttp).piece]
    /\ UNCHANGED <<page, toPage, origin>>

(* Mutant: the pipe is closed as OnFIN closes it. *)
MutantClosedPending(h) ==
    [h EXCEPT !.entry = FALSE, !.cancelled = TRUE, !.pipe = IF @ = "open" THEN "eof" ELSE @,
              !.conn = IF @ = "open" THEN "closed" ELSE @]

(* pendingStream.close and wsStream.close: cancel, break the pipe, close   *)
(* the upstream connection.                                                *)
ClosedPending(h) ==
    [h EXCEPT !.entry = FALSE, !.cancelled = TRUE, !.pipe = IF @ = "open" THEN "broken" ELSE @,
              !.conn = IF @ = "open" THEN "closed" ELSE @]

(* Mutant: OnReset of the WebSocket only forgets the stream. *)
MutantAbortRequest(h) ==
    IF h.entry /\ IsWeb /\ ~page.dispatched THEN [ClosedPending(h) EXCEPT !.stream = "gone"]
    ELSE [h EXCEPT !.stream = "gone", !.entry = FALSE]

(* The stream leaves the session's table, and OnReset runs when the        *)
(* registered handler has one: the httpDispatcher has none.                *)
AbortRequest(h) ==
    IF h.entry /\ ~page.dispatched THEN [ClosedPending(h) EXCEPT !.stream = "gone"]
    ELSE [h EXCEPT !.stream = "gone"]

(* A handler error: failStream, which tells the page. *)
HttpFailsStream(h) ==
    /\ hh' = [AbortRequest(h) EXCEPT !.worker = "idle"]
    /\ HttpSends(<<Signal("RESET")>>)

HttpReset ==
    /\ hh.session = "open" /\ hh.stream # "none" /\ HasReset(toHttp)
    /\ toHttp' = <<>>
    /\ hh' = IF hh.stream = "open" THEN AbortRequest(hh) ELSE hh
    /\ UNCHANGED <<page, toPage, origin>>

HttpSessionLost ==
    /\ hh.session = "open"
    /\ hh' = [(IF hh.stream = "open" THEN AbortRequest(hh) ELSE hh) EXCEPT !.session = "lost"]
    /\ toHttp' = <<>>
    /\ UNCHANGED <<page, toPage, origin>>

-----------------------------------------------------------------------------
(* A request.                                                              *)

(* OnSYN: the body's pipe, the table, the goroutine.  The proxy peeks at a *)
(* body whose length the page did not give.                                *)
RequestStarts ==
    /\ hh.worker = "syn" /\ IsWeb
    /\ \E run \in IF HasBody /\ page.kind = "proxy" THEN {"sniff", "ask"} ELSE {"ask"} :
          hh' = [hh EXCEPT !.worker = "idle", !.entry = TRUE, !.pipe = IF HasBody THEN "open" ELSE "none",
                           !.run = run, !.late = hh.stream # "open"]
    /\ UNCHANGED <<page, toHttp, toPage, origin>>

(* A request that cannot be parsed: an error page, and for a WebSocket     *)
(* nothing.                                                                *)
RequestRefused ==
    /\ hh.worker = "syn"
    /\ IF IsWeb THEN HttpEnds([hh EXCEPT !.worker = "idle"], ErrorPage)
       ELSE hh' = [hh EXCEPT !.worker = "idle"] /\ UNCHANGED toPage
    /\ UNCHANGED <<page, toHttp, origin>>

(* The peek for an exact length: the whole body, a full buffer, or an      *)
(* error that the next read repeats.                                       *)
Sniffs ==
    /\ hh.run = "sniff"
    /\ \/ /\ hh.pipe = "open" /\ hh.worker = "DAT"
          /\ hh' = [hh EXCEPT !.worker = "idle", !.head = @ + 1,
                              !.run = IF hh.head + 1 = SniffMax THEN "ask" ELSE @]
       \/ /\ hh.pipe \in {"eof", "broken"}
          /\ hh' = [hh EXCEPT !.run = "ask"]
    /\ UNCHANGED <<page, toHttp, toPage, origin>>

(* client.Do or ServeHTTP begins. *)
RequestGoes ==
    /\ hh.run = "ask" /\ ~hh.cancelled
    /\ hh' = [hh EXCEPT !.run = "do"]
    /\ UNCHANGED <<page, toHttp, toPage, origin>>

(* The upstream reads, also while it answers: what was peeked goes first, *)
HeadGoes ==
    /\ hh.run \in {"do", "reply"} /\ origin.got < hh.head
    /\ origin' = [origin EXCEPT !.got = @ + 1]
    /\ UNCHANGED <<page, toHttp, toPage, hh>>

(* then the body behind it, to its end. *)
BodyGoes ==
    /\ hh.run \in {"do", "reply"} /\ origin.got >= hh.head /\ ~origin.eof
    /\ \/ /\ hh.pipe = "open" /\ hh.worker = "DAT"
          /\ hh' = [hh EXCEPT !.worker = "idle"]
          /\ origin' = [origin EXCEPT !.got = hh.held]
       \/ /\ hh.pipe = "eof"
          /\ origin' = [origin EXCEPT !.eof = TRUE]
          /\ UNCHANGED hh
    /\ UNCHANGED <<page, toHttp, toPage>>

(* The transport closes a body it was given as it is (no peeked head in    *)
(* front of it) when the upstream does not want the rest: the next OnDAT   *)
(* fails.                                                                  *)
BodyUnwanted ==
    /\ page.kind = "proxy" /\ hh.run \in {"do", "reply"} /\ hh.head = 0 /\ hh.pipe = "open"
    /\ hh' = [hh EXCEPT !.pipe = "broken"]
    /\ UNCHANGED <<page, toHttp, toPage, origin>>

(* The answer of the upstream, or of the handler itself: an error, headers *)
(* too large, the landing page.                                            *)
OriginAnswers ==
    /\ hh.run = "do"
    /\ HttpSends(<<Signal("SYN")>>)
    /\ hh' = [hh EXCEPT !.run = IF HttpCanSend THEN "reply" ELSE "finish"]
    /\ UNCHANGED <<page, toHttp, origin>>

RequestFails ==
    /\ hh.run \in {"ask", "do"} /\ ~hh.cancelled
    /\ HttpEnds([hh EXCEPT !.run = "finish"], ErrorPage)
    /\ UNCHANGED <<page, toHttp, origin>>

OriginSends ==
    /\ hh.run = "reply" /\ origin.sent < ReplyPieces
    /\ HttpSends(<<Data(origin.sent + 1)>>)
    /\ origin' = [origin EXCEPT !.sent = @ + 1]
    /\ hh' = [hh EXCEPT !.run = IF HttpCanSend THEN @ ELSE "finish"]
    /\ UNCHANGED <<page, toHttp>>

(* The end of the response, or an error reading it. *)
OriginEnds ==
    /\ hh.run = "reply"
    /\ HttpEnds([hh EXCEPT !.run = "finish"], <<Signal("FIN")>>)
    /\ UNCHANGED <<page, toHttp, origin>>

(* A cancelled request ends wherever it waits for the upstream. *)
RequestCancelled ==
    /\ hh.cancelled /\ hh.run \in {"ask", "do", "reply"}
    /\ hh' = [hh EXCEPT !.run = "finish"]
    /\ UNCHANGED <<page, toHttp, toPage, origin>>

(* finishStream. *)
RequestFinishes ==
    /\ hh.run = "finish"
    /\ hh' = [ClosedPending(hh) EXCEPT !.run = "done"]
    /\ UNCHANGED <<page, toHttp, toPage, origin>>

(* OnDAT in a pipe that breaks, and OnFIN. *)
BodyBreaks ==
    /\ IsWeb /\ hh.worker = "DAT" /\ hh.pipe = "broken"
    /\ HttpFailsStream(hh)
    /\ UNCHANGED <<page, toHttp, origin>>

BodyEnds ==
    /\ IsWeb /\ hh.worker = "FIN"
    /\ hh' = HttpFinished([hh EXCEPT !.worker = "idle", !.gotFIN = TRUE,
                                     !.pipe = IF hh.entry /\ @ = "open" THEN "eof" ELSE @])
    /\ UNCHANGED <<page, toHttp, toPage, origin>>

-----------------------------------------------------------------------------
(* A WebSocket.                                                            *)

WsStarts ==
    /\ hh.worker = "syn" /\ ~IsWeb
    /\ hh' = [hh EXCEPT !.worker = "idle", !.entry = TRUE, !.run = "dial", !.late = hh.stream # "open"]
    /\ UNCHANGED <<page, toHttp, toPage, origin>>

(* bridge: the connection is kept unless the stream ended meanwhile. *)
WsOpens ==
    /\ hh.run = "dial"
    /\ IF hh.cancelled
       THEN hh' = [hh EXCEPT !.run = "done", !.entry = FALSE] /\ UNCHANGED toPage
       ELSE hh' = [hh EXCEPT !.run = "bridge", !.conn = "open"] /\ HttpSends(<<Signal("SYN")>>)
    /\ UNCHANGED <<page, toHttp, origin>>

WsFails ==
    /\ hh.run = "dial"
    /\ IF hh.cancelled
       THEN hh' = [hh EXCEPT !.run = "done", !.entry = FALSE] /\ UNCHANGED toPage
       ELSE HttpEnds([hh EXCEPT !.run = "done", !.entry = FALSE], <<Signal("FIN")>>)
    /\ UNCHANGED <<page, toHttp, origin>>

WsReceives ==
    /\ hh.run = "bridge" /\ hh.conn = "open" /\ origin.sent < ReplyPieces
    /\ HttpSends(<<Data(origin.sent + 1)>>)
    /\ origin' = [origin EXCEPT !.sent = @ + 1]
    /\ hh' = [hh EXCEPT !.run = IF HttpCanSend THEN @ ELSE "unbridge"]
    /\ UNCHANGED <<page, toHttp>>

(* NextReader fails: the upstream closed, or close did it. *)
WsUpstreamCloses ==
    /\ hh.run = "bridge" /\ hh.conn = "open"
    /\ hh' = [hh EXCEPT !.conn = "closed"]
    /\ UNCHANGED <<page, toHttp, toPage, origin>>

WsUnbridges ==
    /\ hh.run = "unbridge" \/ (hh.run = "bridge" /\ hh.conn = "closed")
    /\ HttpEnds([ClosedPending(hh) EXCEPT !.run = "done"], <<Signal("FIN")>>)
    /\ UNCHANGED <<page, toHttp, origin>>

(* OnFragment: before the connection is there, or after, the stream fails. *)
WsFragment ==
    /\ ~IsWeb /\ hh.worker = "DAT"
    /\ IF hh.conn = "open"
       THEN /\ origin' = [origin EXCEPT !.got = hh.held]
            /\ hh' = [hh EXCEPT !.worker = "idle"]
            /\ UNCHANGED toPage
       ELSE HttpFailsStream([ClosedPending(hh) EXCEPT !.entry = hh.entry]) /\ UNCHANGED origin
    /\ UNCHANGED <<page, toHttp>>

WsFin ==
    /\ ~IsWeb /\ hh.worker = "FIN"
    /\ hh' = HttpFinished([(IF hh.entry THEN ClosedPending(hh) ELSE hh)
                              EXCEPT !.worker = "idle", !.gotFIN = TRUE])
    /\ UNCHANGED <<page, toHttp, toPage, origin>>

-----------------------------------------------------------------------------

(* What the listener does by itself; a dial ends one way or the other. *)
HttpStep ==
    \/ HttpAdmit \/ HttpWorkerTakes \/ HttpReset
    \/ RequestStarts \/ RequestRefused \/ Sniffs \/ RequestGoes
    \/ RequestCancelled \/ RequestFinishes \/ BodyBreaks \/ BodyEnds
    \/ WsStarts \/ WsOpens \/ WsFails \/ WsUnbridges \/ WsFragment \/ WsFin

HttpNext ==
    \/ HttpStep
    \/ PageSends \/ PageFinishes \/ PageAborts \/ HttpSessionLost
    \/ HeadGoes \/ BodyGoes \/ BodyUnwanted \/ OriginAnswers \/ RequestFails \/ OriginSends \/ OriginEnds
    \/ WsReceives \/ WsUpstreamCloses

(* The page and the upstream owe nothing. *)
HttpSpec == HttpInit /\ [][HttpNext]_httpVars /\ WF_httpVars(HttpStep)

-----------------------------------------------------------------------------
(* Properties.                                                             *)

(* A request body, and the messages of a WebSocket, are a pipe to the      *)
(* upstream.                                                               *)
Body == INSTANCE BytePipe WITH
    sent <- page.sent, end <- page.end, got <- origin.got, eof <- origin.eof

(* A cut body is never passed on as a whole one: the upstream sees the end *)
(* of a request body only when the page finished it, and then has all of   *)
(* it, in order, also when the peek for the length was interrupted.        *)
BodyIsPipe == Body!PipeSpec

(* A stream aborted on its own, or with its session, leaves no goroutine   *)
(* and no upstream connection behind: for the handlers registered with the *)
(* session themselves, and registered before the abort.                    *)
RequestReleased == hh.run \in {"none", "done"} /\ hh.conn # "open"

AbortedIsReleased ==
    (hh.stream = "gone" /\ hh.worker = "idle" /\ ~hh.late /\ ~page.dispatched) ~> RequestReleased

(* The same for every web stream, as ResetHandler promises it              *)
(* (streamtype.go): "resources that must be released when one stream is    *)
(* aborted".                                                               *)
ResetReleases == (hh.stream = "gone" /\ hh.worker = "idle" /\ ~hh.late) ~> RequestReleased
=============================================================================
