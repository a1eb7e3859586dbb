---------------------------- MODULE FileTransfer ----------------------------
(***************************************************************************)
(* One file operation: Session.Get and Session.Put of the connector        *)
(* (internal/client/fileops.go) and the listener's FileHandler             *)
(* (internal/streamtype/file.go) over the shared directory                 *)
(* (internal/fileshare/filesystem.go).  The listing and the empty upload   *)
(* in one frame are asked for by other clients, which read their answer    *)
(* the way Get does.                                                       *)
(*                                                                         *)
(* A file is a number of pieces.  No other upload writes the same path.    *)
(***************************************************************************)
EXTENDS StreamFrames

CONSTANT FileSize    \* bound: pieces of the file that is copied

ASSUME FileAssumption == FileSize \in Nat

VARIABLES
    cp,        \* the connector: Put or Get, and the local file
    toFile,    \* frames on their way to the listener
    toCp,      \* frames on their way to the connector
    fh,        \* the handler's filePending, its goroutine, the stream's worker
    stored     \* pieces in the listener's file, all in their places, or Spoilt

fileVars == <<cp, toFile, toCp, fh, stored>>

(* A file into which a piece was written that is not its next. *)
Spoilt == FileSize + 2

FileInit ==
    /\ \E op \in {"get", "put", "touch", "list"} :
          cp = [op |-> op, pc |-> "open", stream |-> "live", sent |-> 0, got |-> 0, outcome |-> "none"]
    /\ toFile = <<>>
    /\ toCp = <<>>
    /\ fh = [stream |-> "none", session |-> "open", worker |-> "idle", held |-> 0, buf |-> 0,
             entry |-> FALSE, closed |-> FALSE, pipe |-> "none", file |-> "none",
             run |-> "none", sent |-> 0, sentFIN |-> FALSE, gotFIN |-> FALSE, late |-> FALSE]
    /\ stored = IF cp.op = "put" THEN 0 ELSE FileSize

-----------------------------------------------------------------------------
(* Get and Put.                                                            *)

CpCanSend == cp.stream = "live" /\ fh.session = "open"

(* Return, with the deferred Close: a reset unless both directions ended. *)
CpReturns(outcome, frames, ended) ==
    /\ cp' = [cp EXCEPT !.pc = "done", !.stream = "closed", !.outcome = outcome]
    /\ toFile' = IF CpCanSend /\ ~ended THEN Append(frames, Signal("RESET")) ELSE frames

CpOpens ==
    /\ cp.pc = "open"
    /\ IF CpCanSend
       THEN cp' = [cp EXCEPT !.pc = "await"] /\ toFile' = Append(toFile, Signal("SYN"))
       ELSE CpReturns("error", toFile, FALSE)
    /\ UNCHANGED <<toCp, fh, stored>>

(* The answer decides: ready, refused, or the stream ended without one. *)
CpAnswered ==
    /\ cp.pc = "await"
    /\ \/ /\ toCp # <<>> /\ Head(toCp).kind = "OK"
          /\ cp' = [cp EXCEPT !.pc = IF cp.op = "put" THEN "pump" ELSE "read"]
          /\ toCp' = Tail(toCp)
          /\ UNCHANGED toFile
       \/ /\ toCp # <<>> /\ Head(toCp).kind = "REFUSED"
          /\ CpReturns("error", toFile, FALSE)
          /\ toCp' = Tail(toCp)
       \/ /\ cp.stream = "failed"
          /\ CpReturns("error", toFile, FALSE)
          /\ UNCHANGED toCp
    /\ UNCHANGED <<fh, stored>>

(* Mutant: a local read error ends the upload as the end of the file does. *)
MutantPutReadFails ==
    /\ cp.pc = "pump"
    /\ IF CpCanSend
       THEN cp' = [cp EXCEPT !.pc = "result"] /\ toFile' = Append(toFile, Signal("FIN"))
       ELSE CpReturns("error", toFile, FALSE)
    /\ UNCHANGED <<toCp, fh, stored>>

PutReadFails ==
    /\ cp.pc = "pump"
    /\ CpReturns("error", toFile, FALSE)
    /\ UNCHANGED <<toCp, fh, stored>>

(* A piece of the local file, or FIN after the last one. *)
PutPumps ==
    /\ cp.pc = "pump"
    /\ IF ~CpCanSend THEN CpReturns("error", toFile, FALSE)
       ELSE IF cp.sent < FileSize
       THEN cp' = [cp EXCEPT !.sent = @ + 1] /\ toFile' = Append(toFile, Data(cp.sent + 1))
       ELSE cp' = [cp EXCEPT !.pc = "result"] /\ toFile' = Append(toFile, Signal("FIN"))
    /\ UNCHANGED <<toCp, fh, stored>>

(* Put: the status in the listener's FIN. *)
PutResult ==
    /\ cp.pc = "result"
    /\ \/ /\ toCp # <<>> /\ Head(toCp).kind \in {"FIN", "FAILED"}
          /\ CpReturns(IF Head(toCp).kind = "FIN" THEN "ok" ELSE "error", toFile, TRUE)
          /\ toCp' = Tail(toCp)
       \/ /\ cp.stream = "failed"
          /\ CpReturns("error", toFile, FALSE)
          /\ UNCHANGED toCp
    /\ UNCHANGED <<fh, stored>>

(* Get: pieces to the local writer until FIN; the writer may fail. *)
GetReads ==
    /\ cp.pc = "read"
    /\ \/ /\ toCp # <<>> /\ Head(toCp).kind = "DAT"
          /\ \/ cp' = [cp EXCEPT !.got = Head(toCp).piece] /\ UNCHANGED toFile
             \/ CpReturns("error", toFile, FALSE)
          /\ toCp' = Tail(toCp)
       \/ /\ toCp # <<>> /\ Head(toCp).kind = "FIN"
          /\ CpReturns("ok", toFile, TRUE)
          /\ toCp' = Tail(toCp)
       \/ /\ cp.stream = "failed"
          /\ CpReturns("error", toFile, FALSE)
          /\ UNCHANGED toCp
    /\ UNCHANGED <<fh, stored>>

(* The listener's reset ends the inbox, whatever was still in it. *)
CpReset ==
    /\ HasReset(toCp)
    /\ toCp' = BeforeReset(toCp)
    /\ cp' = [cp EXCEPT !.stream = IF @ = "live" THEN "failed" ELSE @]
    /\ UNCHANGED <<toFile, fh, stored>>

-----------------------------------------------------------------------------
(* FileHandler.                                                            *)

FileCanSend == fh.stream = "open" /\ ~fh.sentFIN /\ fh.session = "open"

FileSends(frames) == toCp' = IF FileCanSend THEN toCp \o frames ELSE toCp

(* finishState: both directions ended. *)
FileFinished(f) == IF f.sentFIN /\ f.gotFIN THEN [f EXCEPT !.stream = "gone"] ELSE f

(* WriteFIN, alone or after a SYN. *)
FileEnds(f, frames) ==
    /\ FileSends(frames)
    /\ fh' = FileFinished([f EXCEPT !.sentFIN = @ \/ FileCanSend])

(* filePending.close, once: the pipe breaks, the file is closed. *)
ClosePending(f) ==
    [f EXCEPT !.entry = FALSE, !.closed = TRUE, !.pipe = IF @ = "open" THEN "broken" ELSE @,
              !.file = IF @ = "open" THEN "closed" ELSE @]

FileAdmit ==
    /\ fh.session = "open" /\ fh.stream = "none"
    /\ toFile # <<>> /\ Head(toFile).kind = "SYN"
    /\ toFile' = Tail(toFile)
    /\ fh' = [fh EXCEPT !.stream = "open", !.worker = "syn", !.gotFIN = cp.op # "put"]
    /\ UNCHANGED <<cp, toCp, stored>>

(* OnSYN of a request that cannot be read, or of a path OpenWrite refuses. *)
FileRefuses ==
    /\ fh.worker = "syn"
    /\ FileEnds([fh EXCEPT !.worker = "idle"], <<Signal("REFUSED")>>)
    /\ UNCHANGED <<cp, toFile, stored>>

(* OnSYN of a put: the file is created before the acknowledgement. *)
PutOpens ==
    /\ fh.worker = "syn" /\ cp.op = "put"
    /\ fh' = [fh EXCEPT !.worker = "idle", !.entry = TRUE, !.pipe = "open", !.file = "open",
                        !.run = "copy", !.late = fh.stream # "open"]
    /\ FileSends(<<Signal("OK")>>)
    /\ stored' = 0
    /\ UNCHANGED <<cp, toFile>>

PutEmpty ==
    /\ fh.worker = "syn" /\ cp.op = "touch"
    /\ FileEnds([fh EXCEPT !.worker = "idle", !.file = "closed"], <<Signal("OK"), Signal("FIN")>>)
    /\ stored' = 0
    /\ UNCHANGED <<cp, toFile>>

(* OnSYN of a get, which is tracked, and of a list, which is not. *)
GetTracked ==
    /\ fh.worker = "syn" /\ cp.op \in {"get", "list"}
    /\ fh' = [fh EXCEPT !.worker = "idle", !.run = cp.op, !.entry = cp.op = "get"]
    /\ UNCHANGED <<cp, toFile, toCp, stored>>

(* handleList. *)
FileLists ==
    /\ fh.run = "list"
    /\ \/ FileEnds([fh EXCEPT !.run = "done"], <<Signal("OK"), Data(1), Signal("FIN")>>)
       \/ FileEnds([fh EXCEPT !.run = "done"], <<Signal("REFUSED")>>)
    /\ UNCHANGED <<cp, toFile, stored>>

(* handleGet: OpenRead, and setCloser unless the stream was aborted. *)
GetOpens ==
    /\ fh.run = "get"
    /\ \/ FileEnds([fh EXCEPT !.run = "finish"], <<Signal("REFUSED")>>)
       \/ /\ fh' = IF fh.closed THEN [fh EXCEPT !.run = "finish", !.file = "closed"]
                   ELSE [fh EXCEPT !.run = IF FileCanSend THEN "send" ELSE "finish", !.file = "open"]
          /\ IF fh.closed THEN UNCHANGED toCp ELSE FileSends(<<Signal("OK")>>)
    /\ UNCHANGED <<cp, toFile, stored>>

GetSends ==
    /\ fh.run = "send" /\ fh.file = "open" /\ fh.sent < stored
    /\ FileSends(<<Data(fh.sent + 1)>>)
    /\ fh' = [fh EXCEPT !.run = IF FileCanSend THEN @ ELSE "finish", !.sent = IF FileCanSend THEN @ + 1 ELSE @]
    /\ UNCHANGED <<cp, toFile, stored>>

(* Read reports the end, an error of the disk or a closed file: one break. *)
GetEnds ==
    /\ fh.run = "send"
    /\ FileEnds([fh EXCEPT !.run = "finish"], <<Signal("FIN")>>)
    /\ UNCHANGED <<cp, toFile, stored>>

(* handlePut: io.Copy takes from the pipe, which lets OnDAT return, *)
PutTakes ==
    /\ fh.run = "copy" /\ fh.pipe = "open" /\ fh.worker = "DAT"
    /\ fh' = [fh EXCEPT !.run = "store", !.buf = fh.held, !.worker = "idle"]
    /\ UNCHANGED <<cp, toFile, toCp, stored>>

(* and writes; the disk may be full, or the file closed by a reset. *)
PutStores ==
    /\ fh.run = "store"
    /\ \/ /\ fh.file = "open"
          /\ stored' = IF fh.buf = stored + 1 THEN fh.buf ELSE Spoilt
          /\ fh' = [fh EXCEPT !.run = "copy"]
       \/ /\ UNCHANGED stored
          /\ fh' = [fh EXCEPT !.run = "failed"]
    /\ UNCHANGED <<cp, toFile, toCp>>

(* The body ended, or the pipe broke: the status goes in the FIN. *)
PutAnswers ==
    /\ \/ fh.run = "copy" /\ fh.pipe \in {"eof", "broken"}
       \/ fh.run = "failed"
    /\ FileEnds([fh EXCEPT !.run = "finish"],
                <<Signal(IF fh.run = "copy" /\ fh.pipe = "eof" THEN "FIN" ELSE "FAILED")>>)
    /\ UNCHANGED <<cp, toFile, stored>>

(* finishStream. *)
FileFinishes ==
    /\ fh.run = "finish"
    /\ fh' = [ClosePending(fh) EXCEPT !.run = "done"]
    /\ UNCHANGED <<cp, toFile, toCp, stored>>

(* The worker: OnDAT of a tracked put stays in the pipe's Write until the  *)
(* piece is taken or the pipe breaks, and a write error aborts the stream. *)
FileWorkerTakes ==
    /\ fh.worker = "idle" /\ fh.stream = "open" /\ ~fh.gotFIN
    /\ toFile # <<>> /\ Head(toFile).kind \in {"DAT", "FIN"}
    /\ toFile' = Tail(toFile)
    /\ fh' = [fh EXCEPT !.worker = IF Head(toFile).kind = "FIN" \/ fh.entry THEN Head(toFile).kind ELSE @,
                        !.held = IF Head(toFile).kind = "DAT" THEN Head(toFile).piece ELSE @]
    /\ UNCHANGED <<cp, toCp, stored>>

FileDatEnds ==
    /\ fh.worker = "DAT" /\ fh.pipe = "broken"
    /\ fh' = [fh EXCEPT !.worker = "idle", !.stream = "gone"]
    /\ toCp' = IF fh.stream = "open" /\ fh.session = "open" THEN Append(toCp, Signal("RESET")) ELSE toCp
    /\ UNCHANGED <<cp, toFile, stored>>

FileFinArrives ==
    /\ fh.worker = "FIN"
    /\ fh' = FileFinished([fh EXCEPT !.worker = "idle", !.gotFIN = TRUE,
                                     !.pipe = IF fh.entry /\ @ = "open" THEN "eof" ELSE @])
    /\ UNCHANGED <<cp, toFile, toCp, stored>>

(* Mutant: OnReset forgets the stream and leaves its file open. *)
MutantAbortFile(f) == [f EXCEPT !.stream = "gone", !.entry = FALSE]

(* OnReset, when there is an entry to close. *)
AbortFile(f) ==
    IF f.entry THEN [ClosePending(f) EXCEPT !.stream = "gone"] ELSE [f EXCEPT !.stream = "gone"]

FileReset ==
    /\ fh.session = "open" /\ fh.stream # "none" /\ HasReset(toFile)
    /\ toFile' = <<>>
    /\ fh' = IF fh.stream = "open" THEN AbortFile(fh) ELSE fh
    /\ UNCHANGED <<cp, toCp, stored>>

(* A stream whose both directions ended takes no more frames. *)
FileIgnores ==
    /\ fh.stream = "gone" /\ toFile # <<>>
    /\ toFile' = Tail(toFile)
    /\ UNCHANGED <<cp, toCp, fh, stored>>

(* The data channel is lost: Session.Close aborts the stream at one end,   *)
(* finishStreams at the other, which may still read what had arrived.      *)
FileSessionLost ==
    /\ fh.session = "open"
    /\ fh' = [AbortFile(fh) EXCEPT !.session = "lost"]
    /\ toFile' = <<>>
    /\ \E n \in 0..Len(toCp) : toCp' = SubSeq(toCp, 1, n)
    /\ cp' = [cp EXCEPT !.stream = IF @ = "live" THEN "failed" ELSE @]
    /\ UNCHANGED stored

-----------------------------------------------------------------------------

CpStep ==
    \/ CpOpens \/ CpAnswered \/ PutPumps \/ PutReadFails \/ PutResult \/ GetReads \/ CpReset

FileStep ==
    \/ FileAdmit \/ FileRefuses \/ PutOpens \/ PutEmpty \/ GetTracked \/ FileLists
    \/ GetOpens \/ GetSends \/ GetEnds \/ PutTakes \/ PutStores \/ PutAnswers \/ FileFinishes
    \/ FileWorkerTakes \/ FileDatEnds \/ FileFinArrives \/ FileReset \/ FileIgnores

FileNext == CpStep \/ FileStep \/ FileSessionLost

(* Goroutines that can run do; the disk answers. *)
FileSpec == FileInit /\ [][FileNext]_fileVars /\ WF_fileVars(CpStep) /\ WF_fileVars(FileStep)

-----------------------------------------------------------------------------
(* Properties.                                                             *)

(* An upload reported as done is whole: when Put returns without an error  *)
(* every piece of the local file is in the listener's, whatever was reset, *)
(* lost or refused on the way (handlePut's status travels in the FIN).     *)
PutIsWhole ==
    cp.op = "put" /\ cp.outcome = "ok" => cp.sent = FileSize /\ stored = FileSize

(* Nothing of an aborted transfer stays: after a reset, a lost session or  *)
(* the end of both directions, handleGet or handlePut returns and the file *)
(* is closed, unless the stream was gone before OnSYN registered it        *)
(* (TransferReleased is the same without the exception).                   *)
FileIsReleased == fh.run \in {"none", "done"} /\ fh.file # "open"

TransferEnds == (fh.stream = "gone" /\ fh.worker # "syn" /\ ~fh.late) ~> FileIsReleased

(* ResetHandler's promise for every stream that is aborted on its own      *)
(* (streamtype.go): its resources are released.                            *)
TransferReleased == fh.stream = "gone" ~> FileIsReleased
=============================================================================
