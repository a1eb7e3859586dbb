---------------------- MODULE StreamHandlersProofs ----------------------
(***************************************************************************)
(* Proofs about the stream handlers: the shells, the file transfer, the    *)
(* web request and the forwarded connection, each on its own and as the    *)
(* stream a SYN names (MCStreamHandlers).  The last two are refinements of *)
(* BytePipe.                                                               *)
(***************************************************************************)
EXTENDS MCStreamHandlers, TLAPS

-----------------------------------------------------------------------------
(* Shells.                                                                 *)

ShellRecord(V) ==
    [stream : {"none", "open", "gone"}, closed : BOOLEAN, doomed : BOOLEAN,
     pc : {"none", "syn", "displacing", "admitted", "spawned", "up", "done"},
     victim : V, due : BOOLEAN, entry : BOOLEAN,
     proc : {"none", "runs", "hungup", "killed", "dead"}, out : Nat,
     pump : {"off", "on", "ended"}, cancelled : BOOLEAN,
     wait : {"off", "process", "output", "done"}, gaveUp : BOOLEAN, sentFIN : BOOLEAN]

TermRecord == [result : {"none", "error", "exited", "ended"}, got : Nat]

(* How far a shell has come. *)
ShellStage(r, t) ==
    /\ r.pc # "up" => r.pump = "off" /\ r.wait = "off"
    /\ r.pc \notin {"spawned", "up"} => r.proc = "none"
    /\ r.pc = "none" => r.stream = "none"
    /\ r.wait \in {"output", "done"} => r.proc = "dead"
    /\ t.result = "exited" => r.wait = "done"

(* A pump that ended although somebody still reads has sent everything of  *)
(* a command that writes no more; a pump is cancelled only when nobody     *)
(* reads or the drain timed out.                                           *)
ShellDrained(r, t) ==
    /\ r.cancelled => r.gaveUp \/ r.stream = "gone"
    /\ r.pump = "ended" /\ ~r.cancelled /\ r.stream = "open" /\ ~r.sentFIN /\ t.result = "none" =>
         r.proc = "dead" /\ t.got = r.out
    /\ t.result = "exited" /\ ~r.gaveUp => t.got = r.out

ShellInv ==
    /\ \E V : sh \in [Shells -> ShellRecord(V)]
    /\ term \in [Shells -> TermRecord]
    /\ \A s \in Shells : ShellStage(sh[s], term[s]) /\ ShellDrained(sh[s], term[s])

LEMMA OneShellChanges ==
    ASSUME ShellInv, NEW V, NEW W, V \subseteq W, sh \in [Shells -> ShellRecord(V)],
           NEW s \in Shells, NEW r \in ShellRecord(W), NEW t \in TermRecord,
           sh' = [sh EXCEPT ![s] = r], term' = [term EXCEPT ![s] = t],
           ShellStage(r, t), ShellDrained(r, t)
    PROVE  ShellInv'
<1>1. ShellRecord(V) \subseteq ShellRecord(W)
  BY DEF ShellRecord
<1>2. sh' \in [Shells -> ShellRecord(W)]
  BY <1>1
<1>3. term' \in [Shells -> TermRecord]
  BY DEF ShellInv
<1>4. \A x \in Shells : sh'[x] = IF x = s THEN r ELSE sh[x]
  OBVIOUS
<1>5. \A x \in Shells : term'[x] = IF x = s THEN t ELSE term[x]
  BY DEF ShellInv
<1>6. \A x \in Shells : ShellStage(sh'[x], term'[x]) /\ ShellDrained(sh'[x], term'[x])
  BY <1>4, <1>5 DEF ShellInv
<1> QED
  BY <1>2, <1>3, <1>6 DEF ShellInv

LEMMA ShellArrivesKeeps ==
    ASSUME ShellInv, NEW s \in Shells, ShellArrives(s)
    PROVE  ShellInv'
<1>1. PICK V : sh \in [Shells -> ShellRecord(V)]
  BY DEF ShellInv
<1>2. sh[s] \in ShellRecord(V) /\ term[s] \in TermRecord /\ ShellStage(sh[s], term[s]) /\ ShellDrained(sh[s], term[s])
  BY <1>1 DEF ShellInv
<1> DEFINE r == [sh[s] EXCEPT !.stream = "open", !.pc = "syn"]
           t == term[s]
<1>3. sh' = [sh EXCEPT ![s] = r]
  BY <1>1 DEF ShellArrives
<1>4. term' = [term EXCEPT ![s] = t]
  BY DEF ShellInv, ShellArrives
<1>5. r \in ShellRecord(V)
  BY <1>2 DEF ShellRecord
<1>6. t \in TermRecord
  BY <1>2 DEF TermRecord
<1>7. ShellStage(r, t)
  BY <1>2 DEF ShellStage, ShellRecord, TermRecord, ShellCanSend, ShellArrives
<1>8. ShellDrained(r, t)
  BY <1>2 DEF ShellStage, ShellDrained, ShellRecord, TermRecord, ShellCanSend, ShellArrives
<1> HIDE DEF r, t
<1> QED
  BY <1>1, <1>3, <1>4, <1>5, <1>6, <1>7, <1>8, OneShellChanges

LEMMA ShellFailsKeeps ==
    ASSUME ShellInv, NEW s \in Shells, ShellFails(s)
    PROVE  ShellInv'
<1>1. PICK V : sh \in [Shells -> ShellRecord(V)]
  BY DEF ShellInv
<1>2. sh[s] \in ShellRecord(V) /\ term[s] \in TermRecord /\ ShellStage(sh[s], term[s]) /\ ShellDrained(sh[s], term[s])
  BY <1>1 DEF ShellInv
<1> DEFINE r == [sh[s] EXCEPT !.pc = "done", !.sentFIN = @ \/ ShellCanSend(s)]
           t == IF ShellCanSend(s) THEN TermGets(term[s], ShellError) ELSE term[s]
<1>3. sh' = [sh EXCEPT ![s] = r]
  BY <1>1 DEF ShellFails
<1>4. term' = [term EXCEPT ![s] = t]
  BY DEF ShellInv, ShellFails, ShellSends
<1>5. r \in ShellRecord(V)
  BY <1>2 DEF ShellRecord
<1>6. t \in TermRecord
  BY <1>2 DEF TermRecord, TermGets, ShellError, Signal
<1>7. ShellStage(r, t)
  BY <1>2 DEF ShellStage, ShellRecord, TermRecord, ShellCanSend, ShellFails, TermGets, ShellError, Signal
<1>8. ShellDrained(r, t)
  BY <1>2 DEF ShellStage, ShellDrained, ShellRecord, TermRecord, ShellCanSend, ShellFails, TermGets, ShellError, Signal
<1> HIDE DEF r, t
<1> QED
  BY <1>1, <1>3, <1>4, <1>5, <1>6, <1>7, <1>8, OneShellChanges

LEMMA ShellRefusedKeeps ==
    ASSUME ShellInv, NEW s \in Shells, ShellRefused(s)
    PROVE  ShellInv'
<1>1. PICK V : sh \in [Shells -> ShellRecord(V)]
  BY DEF ShellInv
<1>2. sh[s] \in ShellRecord(V) /\ term[s] \in TermRecord /\ ShellStage(sh[s], term[s]) /\ ShellDrained(sh[s], term[s])
  BY <1>1 DEF ShellInv
<1> DEFINE r == [sh[s] EXCEPT !.pc = "done", !.sentFIN = @ \/ ShellCanSend(s)]
           t == IF ShellCanSend(s) THEN TermGets(term[s], ShellError) ELSE term[s]
<1>3. sh' = [sh EXCEPT ![s] = r]
  BY <1>1 DEF ShellRefused
<1>4. term' = [term EXCEPT ![s] = t]
  BY DEF ShellInv, ShellRefused, ShellSends
<1>5. r \in ShellRecord(V)
  BY <1>2 DEF ShellRecord
<1>6. t \in TermRecord
  BY <1>2 DEF TermRecord, TermGets, ShellError, Signal
<1>7. ShellStage(r, t)
  BY <1>2 DEF ShellStage, ShellRecord, TermRecord, ShellCanSend, ShellRefused, TermGets, ShellError, Signal
<1>8. ShellDrained(r, t)
  BY <1>2 DEF ShellStage, ShellDrained, ShellRecord, TermRecord, ShellCanSend, ShellRefused, TermGets, ShellError, Signal
<1> HIDE DEF r, t
<1> QED
  BY <1>1, <1>3, <1>4, <1>5, <1>6, <1>7, <1>8, OneShellChanges

LEMMA ShellSpawnsKeeps ==
    ASSUME ShellInv, NEW s \in Shells, ShellSpawns(s)
    PROVE  ShellInv'
<1>1. PICK V : sh \in [Shells -> ShellRecord(V)]
  BY DEF ShellInv
<1>2. sh[s] \in ShellRecord(V) /\ term[s] \in TermRecord /\ ShellStage(sh[s], term[s]) /\ ShellDrained(sh[s], term[s])
  BY <1>1 DEF ShellInv
<1> DEFINE r == [sh[s] EXCEPT !.pc = "spawned", !.proc = "runs", !.entry = TRUE]
           t == term[s]
<1>3. sh' = [sh EXCEPT ![s] = r]
  BY <1>1 DEF ShellSpawns
<1>4. term' = [term EXCEPT ![s] = t]
  BY DEF ShellInv, ShellSpawns
<1>5. r \in ShellRecord(V)
  BY <1>2 DEF ShellRecord
<1>6. t \in TermRecord
  BY <1>2 DEF TermRecord
<1>7. ShellStage(r, t)
  BY <1>2 DEF ShellStage, ShellRecord, TermRecord, ShellCanSend, ShellSpawns
<1>8. ShellDrained(r, t)
  BY <1>2 DEF ShellStage, ShellDrained, ShellRecord, TermRecord, ShellCanSend, ShellSpawns
<1> HIDE DEF r, t
<1> QED
  BY <1>1, <1>3, <1>4, <1>5, <1>6, <1>7, <1>8, OneShellChanges

LEMMA ShellStartsKeeps ==
    ASSUME ShellInv, NEW s \in Shells, ShellStarts(s)
    PROVE  ShellInv'
<1>1. PICK V : sh \in [Shells -> ShellRecord(V)]
  BY DEF ShellInv
<1>2. sh[s] \in ShellRecord(V) /\ term[s] \in TermRecord /\ ShellStage(sh[s], term[s]) /\ ShellDrained(sh[s], term[s])
  BY <1>1 DEF ShellInv
<1> DEFINE r == [sh[s] EXCEPT !.pc = "up", !.pump = "on", !.wait = "process"]
           t == term[s]
<1>3. sh' = [sh EXCEPT ![s] = r]
  BY <1>1 DEF ShellStarts
<1>4. term' = [term EXCEPT ![s] = t]
  BY DEF ShellInv, ShellStarts
<1>5. r \in ShellRecord(V)
  BY <1>2 DEF ShellRecord
<1>6. t \in TermRecord
  BY <1>2 DEF TermRecord
<1>7. ShellStage(r, t)
  BY <1>2 DEF ShellStage, ShellRecord, TermRecord, ShellCanSend, ShellStarts
<1>8. ShellDrained(r, t)
  BY <1>2 DEF ShellStage, ShellDrained, ShellRecord, TermRecord, ShellCanSend, ShellStarts
<1> HIDE DEF r, t
<1> QED
  BY <1>1, <1>3, <1>4, <1>5, <1>6, <1>7, <1>8, OneShellChanges

LEMMA ShellWritesKeeps ==
    ASSUME ShellInv, NEW s \in Shells, ShellWrites(s)
    PROVE  ShellInv'
<1>1. PICK V : sh \in [Shells -> ShellRecord(V)]
  BY DEF ShellInv
<1>2. sh[s] \in ShellRecord(V) /\ term[s] \in TermRecord /\ ShellStage(sh[s], term[s]) /\ ShellDrained(sh[s], term[s])
  BY <1>1 DEF ShellInv
<1> DEFINE r == [sh[s] EXCEPT !.out = @ + 1]
           t == term[s]
<1>3. sh' = [sh EXCEPT ![s] = r]
  BY <1>1 DEF ShellWrites
<1>4. term' = [term EXCEPT ![s] = t]
  BY DEF ShellInv, ShellWrites
<1>5. r \in ShellRecord(V)
  BY <1>2 DEF ShellRecord
<1>6. t \in TermRecord
  BY <1>2 DEF TermRecord
<1>7. ShellStage(r, t)
  BY <1>2 DEF ShellStage, ShellRecord, TermRecord, ShellCanSend, ShellWrites
<1>8. ShellDrained(r, t)
  BY <1>2 DEF ShellStage, ShellDrained, ShellRecord, TermRecord, ShellCanSend, ShellWrites
<1> HIDE DEF r, t
<1> QED
  BY <1>1, <1>3, <1>4, <1>5, <1>6, <1>7, <1>8, OneShellChanges

LEMMA ProcExitsKeeps ==
    ASSUME ShellInv, NEW s \in Shells, ProcExits(s)
    PROVE  ShellInv'
<1>1. PICK V : sh \in [Shells -> ShellRecord(V)]
  BY DEF ShellInv
<1>2. sh[s] \in ShellRecord(V) /\ term[s] \in TermRecord /\ ShellStage(sh[s], term[s]) /\ ShellDrained(sh[s], term[s])
  BY <1>1 DEF ShellInv
<1> DEFINE r == [sh[s] EXCEPT !.proc = "dead"]
           t == term[s]
<1>3. sh' = [sh EXCEPT ![s] = r]
  BY <1>1 DEF ProcExits
<1>4. term' = [term EXCEPT ![s] = t]
  BY DEF ShellInv, ProcExits
<1>5. r \in ShellRecord(V)
  BY <1>2 DEF ShellRecord
<1>6. t \in TermRecord
  BY <1>2 DEF TermRecord
<1>7. ShellStage(r, t)
  BY <1>2 DEF ShellStage, ShellRecord, TermRecord, ShellCanSend, ProcExits
<1>8. ShellDrained(r, t)
  BY <1>2 DEF ShellStage, ShellDrained, ShellRecord, TermRecord, ShellCanSend, ProcExits
<1> HIDE DEF r, t
<1> QED
  BY <1>1, <1>3, <1>4, <1>5, <1>6, <1>7, <1>8, OneShellChanges

LEMMA ShellEvictedKeeps ==
    ASSUME ShellInv, NEW s \in Shells, ShellEvicted(s)
    PROVE  ShellInv'
<1>1. PICK V : sh \in [Shells -> ShellRecord(V)]
  BY DEF ShellInv
<1>2. sh[s] \in ShellRecord(V) /\ term[s] \in TermRecord /\ ShellStage(sh[s], term[s]) /\ ShellDrained(sh[s], term[s])
  BY <1>1 DEF ShellInv
<1> DEFINE r == [Terminated(sh[s]) EXCEPT !.due = FALSE, !.sentFIN = @ \/ ShellCanSend(s)]
           t == IF ShellCanSend(s) THEN TermGets(term[s], ShellError) ELSE term[s]
<1>3. sh' = [sh EXCEPT ![s] = r]
  BY <1>1 DEF ShellEvicted
<1>4. term' = [term EXCEPT ![s] = t]
  BY DEF ShellInv, ShellEvicted, ShellSends
<1>5. r \in ShellRecord(V)
  BY <1>2 DEF ShellRecord, Terminated, ShellOnReset
<1>6. t \in TermRecord
  BY <1>2 DEF TermRecord, TermGets, ShellError, Signal
<1>7. ShellStage(r, t)
  BY <1>2 DEF ShellStage, ShellRecord, TermRecord, ShellCanSend, ShellEvicted, Terminated, ShellOnReset, TermGets, ShellError, Signal
<1>8. ShellDrained(r, t)
  BY <1>2 DEF ShellStage, ShellDrained, ShellRecord, TermRecord, ShellCanSend, ShellEvicted, Terminated, ShellOnReset, TermGets, ShellError, Signal
<1> HIDE DEF r, t
<1> QED
  BY <1>1, <1>3, <1>4, <1>5, <1>6, <1>7, <1>8, OneShellChanges

LEMMA ShellResetKeeps ==
    ASSUME ShellInv, NEW s \in Shells, ShellReset(s)
    PROVE  ShellInv'
<1>1. PICK V : sh \in [Shells -> ShellRecord(V)]
  BY DEF ShellInv
<1>2. sh[s] \in ShellRecord(V) /\ term[s] \in TermRecord /\ ShellStage(sh[s], term[s]) /\ ShellDrained(sh[s], term[s])
  BY <1>1 DEF ShellInv
<1> DEFINE r == ShellOnReset(sh[s])
           t == term[s]
<1>3. sh' = [sh EXCEPT ![s] = r]
  BY <1>1 DEF ShellReset
<1>4. term' = [term EXCEPT ![s] = t]
  BY DEF ShellInv, ShellReset
<1>5. r \in ShellRecord(V)
  BY <1>2 DEF ShellRecord, Terminated, ShellOnReset
<1>6. t \in TermRecord
  BY <1>2 DEF TermRecord
<1>7. ShellStage(r, t)
  BY <1>2 DEF ShellStage, ShellRecord, TermRecord, ShellCanSend, ShellReset, Terminated, ShellOnReset
<1>8. ShellDrained(r, t)
  BY <1>2 DEF ShellStage, ShellDrained, ShellRecord, TermRecord, ShellCanSend, ShellReset, Terminated, ShellOnReset
<1> HIDE DEF r, t
<1> QED
  BY <1>1, <1>3, <1>4, <1>5, <1>6, <1>7, <1>8, OneShellChanges

LEMMA ShellClosesKeeps ==
    ASSUME ShellInv, NEW s \in Shells, ShellCloses(s)
    PROVE  ShellInv'
<1>1. PICK V : sh \in [Shells -> ShellRecord(V)]
  BY DEF ShellInv
<1>2. sh[s] \in ShellRecord(V) /\ term[s] \in TermRecord /\ ShellStage(sh[s], term[s]) /\ ShellDrained(sh[s], term[s])
  BY <1>1 DEF ShellInv
<1> DEFINE r == [ShellOnReset(sh[s]) EXCEPT !.closed = TRUE, !.doomed = sh[s].entry]
           t == [term[s] EXCEPT !.result = IF @ = "none" THEN "ended" ELSE @]
<1>3. sh' = [sh EXCEPT ![s] = r]
  BY <1>1 DEF ShellCloses
<1>4. term' = [term EXCEPT ![s] = t]
  BY DEF ShellInv, ShellCloses
<1>5. r \in ShellRecord(V)
  BY <1>2 DEF ShellRecord, Terminated, ShellOnReset
<1>6. t \in TermRecord
  BY <1>2 DEF TermRecord
<1>7. ShellStage(r, t)
  BY <1>2 DEF ShellStage, ShellRecord, TermRecord, ShellCanSend, ShellCloses, Terminated, ShellOnReset
<1>8. ShellDrained(r, t)
  BY <1>2 DEF ShellStage, ShellDrained, ShellRecord, TermRecord, ShellCanSend, ShellCloses, Terminated, ShellOnReset
<1> HIDE DEF r, t
<1> QED
  BY <1>1, <1>3, <1>4, <1>5, <1>6, <1>7, <1>8, OneShellChanges

LEMMA ShellKillsKeeps ==
    ASSUME ShellInv, NEW s \in Shells, ShellKills(s)
    PROVE  ShellInv'
<1>1. PICK V : sh \in [Shells -> ShellRecord(V)]
  BY DEF ShellInv
<1>2. sh[s] \in ShellRecord(V) /\ term[s] \in TermRecord /\ ShellStage(sh[s], term[s]) /\ ShellDrained(sh[s], term[s])
  BY <1>1 DEF ShellInv
<1> DEFINE r == [sh[s] EXCEPT !.proc = "killed"]
           t == term[s]
<1>3. sh' = [sh EXCEPT ![s] = r]
  BY <1>1 DEF ShellKills
<1>4. term' = [term EXCEPT ![s] = t]
  BY DEF ShellInv, ShellKills
<1>5. r \in ShellRecord(V)
  BY <1>2 DEF ShellRecord
<1>6. t \in TermRecord
  BY <1>2 DEF TermRecord
<1>7. ShellStage(r, t)
  BY <1>2 DEF ShellStage, ShellRecord, TermRecord, ShellCanSend, ShellKills
<1>8. ShellDrained(r, t)
  BY <1>2 DEF ShellStage, ShellDrained, ShellRecord, TermRecord, ShellCanSend, ShellKills
<1> HIDE DEF r, t
<1> QED
  BY <1>1, <1>3, <1>4, <1>5, <1>6, <1>7, <1>8, OneShellChanges

LEMMA PumpEndsKeeps ==
    ASSUME ShellInv, NEW s \in Shells, PumpEnds(s)
    PROVE  ShellInv'
<1>1. PICK V : sh \in [Shells -> ShellRecord(V)]
  BY DEF ShellInv
<1>2. sh[s] \in ShellRecord(V) /\ term[s] \in TermRecord /\ ShellStage(sh[s], term[s]) /\ ShellDrained(sh[s], term[s])
  BY <1>1 DEF ShellInv
<1> DEFINE r == [sh[s] EXCEPT !.pump = "ended"]
           t == term[s]
<1>3. sh' = [sh EXCEPT ![s] = r]
  BY <1>1 DEF PumpEnds
<1>4. term' = [term EXCEPT ![s] = t]
  BY DEF ShellInv, PumpEnds
<1>5. r \in ShellRecord(V)
  BY <1>2 DEF ShellRecord
<1>6. t \in TermRecord
  BY <1>2 DEF TermRecord
<1>7. ShellStage(r, t)
  BY <1>2 DEF ShellStage, ShellRecord, TermRecord, ShellCanSend, PumpEnds
<1>8. ShellDrained(r, t)
  BY <1>2 DEF ShellStage, ShellDrained, ShellRecord, TermRecord, ShellCanSend, PumpEnds
<1> HIDE DEF r, t
<1> QED
  BY <1>1, <1>3, <1>4, <1>5, <1>6, <1>7, <1>8, OneShellChanges

LEMMA ShellReapedKeeps ==
    ASSUME ShellInv, NEW s \in Shells, ShellReaped(s)
    PROVE  ShellInv'
<1>1. PICK V : sh \in [Shells -> ShellRecord(V)]
  BY DEF ShellInv
<1>2. sh[s] \in ShellRecord(V) /\ term[s] \in TermRecord /\ ShellStage(sh[s], term[s]) /\ ShellDrained(sh[s], term[s])
  BY <1>1 DEF ShellInv
<1> DEFINE r == [sh[s] EXCEPT !.wait = "output", !.entry = FALSE]
           t == term[s]
<1>3. sh' = [sh EXCEPT ![s] = r]
  BY <1>1 DEF ShellReaped
<1>4. term' = [term EXCEPT ![s] = t]
  BY DEF ShellInv, ShellReaped
<1>5. r \in ShellRecord(V)
  BY <1>2 DEF ShellRecord
<1>6. t \in TermRecord
  BY <1>2 DEF TermRecord
<1>7. ShellStage(r, t)
  BY <1>2 DEF ShellStage, ShellRecord, TermRecord, ShellCanSend, ShellReaped
<1>8. ShellDrained(r, t)
  BY <1>2 DEF ShellStage, ShellDrained, ShellRecord, TermRecord, ShellCanSend, ShellReaped
<1> HIDE DEF r, t
<1> QED
  BY <1>1, <1>3, <1>4, <1>5, <1>6, <1>7, <1>8, OneShellChanges

LEMMA DrainTimesOutKeeps ==
    ASSUME ShellInv, NEW s \in Shells, DrainTimesOut(s)
    PROVE  ShellInv'
<1>1. PICK V : sh \in [Shells -> ShellRecord(V)]
  BY DEF ShellInv
<1>2. sh[s] \in ShellRecord(V) /\ term[s] \in TermRecord /\ ShellStage(sh[s], term[s]) /\ ShellDrained(sh[s], term[s])
  BY <1>1 DEF ShellInv
<1> DEFINE r == [sh[s] EXCEPT !.cancelled = TRUE, !.gaveUp = TRUE]
           t == term[s]
<1>3. sh' = [sh EXCEPT ![s] = r]
  BY <1>1 DEF DrainTimesOut
<1>4. term' = [term EXCEPT ![s] = t]
  BY DEF ShellInv, DrainTimesOut
<1>5. r \in ShellRecord(V)
  BY <1>2 DEF ShellRecord
<1>6. t \in TermRecord
  BY <1>2 DEF TermRecord
<1>7. ShellStage(r, t)
  BY <1>2 DEF ShellStage, ShellRecord, TermRecord, ShellCanSend, DrainTimesOut
<1>8. ShellDrained(r, t)
  BY <1>2 DEF ShellStage, ShellDrained, ShellRecord, TermRecord, ShellCanSend, DrainTimesOut
<1> HIDE DEF r, t
<1> QED
  BY <1>1, <1>3, <1>4, <1>5, <1>6, <1>7, <1>8, OneShellChanges

LEMMA ShellFinishesKeeps ==
    ASSUME ShellInv, NEW s \in Shells, ShellFinishes(s)
    PROVE  ShellInv'
<1>1. PICK V : sh \in [Shells -> ShellRecord(V)]
  BY DEF ShellInv
<1>2. sh[s] \in ShellRecord(V) /\ term[s] \in TermRecord /\ ShellStage(sh[s], term[s]) /\ ShellDrained(sh[s], term[s])
  BY <1>1 DEF ShellInv
<1> DEFINE r == [sh[s] EXCEPT !.wait = "done", !.sentFIN = @ \/ ShellCanSend(s)]
           t == IF ShellCanSend(s) THEN TermGets(term[s], Signal("exited")) ELSE term[s]
<1>3. sh' = [sh EXCEPT ![s] = r]
  BY <1>1 DEF ShellFinishes
<1>4. term' = [term EXCEPT ![s] = t]
  BY DEF ShellInv, ShellFinishes, ShellSends
<1>5. r \in ShellRecord(V)
  BY <1>2 DEF ShellRecord
<1>6. t \in TermRecord
  BY <1>2 DEF TermRecord, TermGets, ShellError, Signal
<1>7. ShellStage(r, t)
  BY <1>2 DEF ShellStage, ShellRecord, TermRecord, ShellCanSend, ShellFinishes, TermGets, ShellError, Signal
<1>8. ShellDrained(r, t)
  BY <1>2 DEF ShellStage, ShellDrained, ShellRecord, TermRecord, ShellCanSend, ShellFinishes, TermGets, ShellError, Signal
<1> HIDE DEF r, t
<1> QED
  BY <1>1, <1>3, <1>4, <1>5, <1>6, <1>7, <1>8, OneShellChanges

LEMMA TermEndsKeeps ==
    ASSUME ShellInv, NEW s \in Shells, TermEnds(s)
    PROVE  ShellInv'
<1>1. PICK V : sh \in [Shells -> ShellRecord(V)]
  BY DEF ShellInv
<1>2. sh[s] \in ShellRecord(V) /\ term[s] \in TermRecord /\ ShellStage(sh[s], term[s]) /\ ShellDrained(sh[s], term[s])
  BY <1>1 DEF ShellInv
<1> DEFINE r == ShellOnReset(sh[s])
           t == [term[s] EXCEPT !.result = "ended"]
<1>3. sh' = [sh EXCEPT ![s] = r]
  BY <1>1 DEF TermEnds
<1>4. term' = [term EXCEPT ![s] = t]
  BY DEF ShellInv, TermEnds
<1>5. r \in ShellRecord(V)
  BY <1>2 DEF ShellRecord, Terminated, ShellOnReset
<1>6. t \in TermRecord
  BY <1>2 DEF TermRecord
<1>7. ShellStage(r, t)
  BY <1>2 DEF ShellStage, ShellRecord, TermRecord, ShellCanSend, TermEnds, Terminated, ShellOnReset
<1>8. ShellDrained(r, t)
  BY <1>2 DEF ShellStage, ShellDrained, ShellRecord, TermRecord, ShellCanSend, TermEnds, Terminated, ShellOnReset
<1> HIDE DEF r, t
<1> QED
  BY <1>1, <1>3, <1>4, <1>5, <1>6, <1>7, <1>8, OneShellChanges

LEMMA ShellAdmitKeeps ==
    ASSUME ShellInv, NEW s \in Shells, ShellAdmit(s)
    PROVE  ShellInv'
<1>1. PICK V : sh \in [Shells -> ShellRecord(V)]
  BY DEF ShellInv
<1>2. sh[s] \in ShellRecord(V) /\ term[s] \in TermRecord /\ ShellStage(sh[s], term[s]) /\ ShellDrained(sh[s], term[s])
  BY <1>1 DEF ShellInv
<1>3. sh[s].pc = "syn" /\ term' = [term EXCEPT ![s] = term[s]]
  BY DEF ShellAdmit, ShellInv
<1>4. CASE sh' = [sh EXCEPT ![s].pc = "admitted"]
  <2> DEFINE r == [sh[s] EXCEPT !.pc = "admitted"]
  <2>1. sh' = [sh EXCEPT ![s] = r]
    BY <1>4
  <2>2. r \in ShellRecord(V) /\ ShellStage(r, term[s]) /\ ShellDrained(r, term[s])
    BY <1>2, <1>3 DEF ShellRecord, TermRecord, ShellStage, ShellDrained
  <2> HIDE DEF r
  <2> QED
    BY <1>1, <1>2, <1>3, <2>1, <2>2, OneShellChanges
<1>5. ASSUME NEW v, sh' = [sh EXCEPT ![s].pc = "displacing", ![s].victim = v]
      PROVE  ShellInv'
  <2> DEFINE r == [sh[s] EXCEPT !.pc = "displacing", !.victim = v]
             W == V \cup {v}
  <2>1. sh' = [sh EXCEPT ![s] = r]
    BY <1>5
  <2>2. r \in ShellRecord(W) /\ ShellStage(r, term[s]) /\ ShellDrained(r, term[s])
    BY <1>2, <1>3 DEF ShellRecord, TermRecord, ShellStage, ShellDrained
  <2>3. V \subseteq W
    OBVIOUS
  <2> HIDE DEF r, W
  <2> QED
    BY <1>1, <1>2, <1>3, <2>1, <2>2, <2>3, OneShellChanges
<1> QED
  BY <1>4, <1>5 DEF ShellAdmit

(* The one step that changes another shell: its evict function is due. *)
LEMMA ShellDisplacesKeeps ==
    ASSUME ShellInv, NEW s \in Shells, ShellDisplaces(s)
    PROVE  ShellInv'
<1>1. PICK V : sh \in [Shells -> ShellRecord(V)]
  BY DEF ShellInv
<1> DEFINE W == V \cup {{}}
<1>2. ASSUME NEW x \in Shells
      PROVE  sh'[x] \in ShellRecord(W) /\ ShellStage(sh'[x], term[x]) /\ ShellDrained(sh'[x], term[x])
  <2>1. sh[x] \in ShellRecord(V) /\ term[x] \in TermRecord /\ ShellStage(sh[x], term[x]) /\ ShellDrained(sh[x], term[x])
    BY <1>1 DEF ShellInv
  <2>2. CASE x = s
    <3>1. sh'[x] = [sh[x] EXCEPT !.pc = "admitted", !.victim = {}] /\ sh[x].pc = "displacing"
      BY <2>2 DEF ShellDisplaces
    <3>2. [sh[x] EXCEPT !.pc = "admitted", !.victim = {}] \in ShellRecord(W)
      BY <2>1 DEF ShellRecord
    <3> QED
      BY <2>1, <3>1, <3>2 DEF ShellRecord, ShellStage, ShellDrained
  <2>3. CASE x # s /\ x \in sh[s].victim
    <3> DEFINE due == sh[x].pc = "up"
    <3>1. sh'[x] = [sh[x] EXCEPT !.due = due]
      BY <2>3 DEF ShellDisplaces
    <3>2. due \in BOOLEAN
      OBVIOUS
    <3> HIDE DEF due
    <3>3. [sh[x] EXCEPT !.due = due] \in ShellRecord(W)
      BY <2>1, <3>2 DEF ShellRecord
    <3> QED
      BY <2>1, <3>1, <3>3 DEF ShellRecord, ShellStage, ShellDrained
  <2>4. CASE x # s /\ x \notin sh[s].victim
    <3>1. sh'[x] = sh[x]
      BY <2>4 DEF ShellDisplaces
    <3>2. sh[x] \in ShellRecord(W)
      BY <2>1 DEF ShellRecord
    <3> QED
      BY <2>1, <3>1, <3>2
  <2> QED
    BY <2>2, <2>3, <2>4
<1>3. term' = term
  BY DEF ShellDisplaces
<1>4. sh' \in [Shells -> ShellRecord(W)]
  <2>1. sh' = [x \in Shells |-> sh'[x]]
    BY DEF ShellDisplaces
  <2> QED
    BY <2>1, <1>2
<1> HIDE DEF W
<1> QED
  BY <1>2, <1>3, <1>4 DEF ShellInv

LEMMA PumpSendsKeeps ==
    ASSUME ShellInv, NEW s \in Shells, PumpSends(s)
    PROVE  ShellInv'
<1>1. PICK V : sh \in [Shells -> ShellRecord(V)]
  BY DEF ShellInv
<1>2. sh[s] \in ShellRecord(V) /\ term[s] \in TermRecord /\ ShellStage(sh[s], term[s]) /\ ShellDrained(sh[s], term[s])
  BY <1>1 DEF ShellInv
<1> DEFINE r == sh[s]
           t == [term[s] EXCEPT !.got = term[s].got + 1]
<1>3. sh' = [sh EXCEPT ![s] = r]
  BY <1>1 DEF PumpSends
<1>4. term' = [term EXCEPT ![s] = t]
  BY <1>2 DEF PumpSends, ShellSends, TermGets, Data
<1>5. t \in TermRecord
  BY <1>2 DEF TermRecord
<1>6. ShellStage(r, t) /\ ShellDrained(r, t)
  BY <1>2 DEF PumpSends, ShellStage, ShellDrained, ShellRecord, TermRecord
<1> HIDE DEF t
<1> QED
  BY <1>1, <1>2, <1>3, <1>4, <1>5, <1>6, OneShellChanges

LEMMA ShellInitInv == ShellInit => ShellInv
<1> SUFFICES ASSUME ShellInit PROVE ShellInv
  OBVIOUS
<1>1. sh \in [Shells -> ShellRecord({{}})] /\ term \in [Shells -> TermRecord]
  BY DEF ShellInit, ShellRecord, TermRecord
<1>2. \A s \in Shells : ShellStage(sh[s], term[s]) /\ ShellDrained(sh[s], term[s])
  BY DEF ShellInit, ShellStage, ShellDrained
<1> QED
  BY <1>1, <1>2 DEF ShellInv

LEMMA ShellStepInv == ShellInv /\ [ShellNext]_shellVars => ShellInv'
<1> SUFFICES ASSUME ShellInv, [ShellNext]_shellVars PROVE ShellInv'
  OBVIOUS
<1>1. CASE UNCHANGED shellVars
  BY <1>1 DEF shellVars, ShellInv
<1>2. ASSUME NEW s \in Shells, ShellStep(s) PROVE ShellInv'
  BY <1>2, ShellAdmitKeeps, ShellRefusedKeeps, ShellDisplacesKeeps, ShellFailsKeeps, ShellSpawnsKeeps,
     ShellStartsKeeps, ShellEvictedKeeps, ShellKillsKeeps, PumpSendsKeeps, PumpEndsKeeps,
     ShellReapedKeeps, ShellFinishesKeeps DEF ShellStep
<1> QED
  BY <1>1, <1>2, ShellArrivesKeeps, ShellWritesKeeps, ProcExitsKeeps, DrainTimesOutKeeps,
     ShellResetKeeps, ShellClosesKeeps, TermEndsKeeps DEF ShellNext

(* A connector that is told the command exited has all of its output,      *)
(* whatever the pump, the reaper, an eviction, a reset and the end of the  *)
(* connection did in between, unless the drain was given up (pumpReader,   *)
(* waitAndFinish, finishOutput of shell.go).                               *)
THEOREM ExitStatusIsLast == ShellSpec => []ExitAfterOutput
<1>1. ShellInv => ExitAfterOutput
  BY DEF ShellInv, ShellDrained, ExitAfterOutput
<1> QED
  BY <1>1, ShellInitInv, ShellStepInv, PTL DEF ShellSpec

-----------------------------------------------------------------------------
(* The file transfer.                                                      *)

StreamFrame == [kind : {"SYN", "DAT", "FIN", "RESET", "OK", "REFUSED", "FAILED"}, piece : Nat]
KindsOn(q) == {q[i].kind : i \in 1..Len(q)}

CpRecord ==
    [op : {"get", "put", "touch", "list"}, pc : {"open", "await", "pump", "read", "result", "done"},
     stream : {"live", "failed", "closed"}, sent : Nat, got : Nat, outcome : {"none", "ok", "error"}]

FhRecord ==
    [stream : {"none", "open", "gone"}, session : {"open", "lost"}, worker : {"idle", "syn", "DAT", "FIN"},
     held : Nat, buf : Nat, entry : BOOLEAN, closed : BOOLEAN,
     pipe : {"none", "open", "eof", "broken"}, file : {"none", "open", "closed"},
     run : {"none", "get", "list", "send", "copy", "store", "failed", "finish", "done"},
     sent : Nat, sentFIN : BOOLEAN, gotFIN : BOOLEAN, late : BOOLEAN]

FileType ==
    /\ cp \in CpRecord /\ fh \in FhRecord /\ stored \in Nat
    /\ toFile \in Seq(StreamFrame) /\ toCp \in Seq(StreamFrame)

(* Which steps of an upload come before which, here for the handler h. *)
Asked(h) == h.stream # "none" /\ h.worker # "syn"

PutStage(c, h, out, back) ==
    /\ h.run \in {"none", "copy", "store", "failed", "finish", "done"}
    /\ ~Asked(h) => h.run = "none" /\ out \cap {"DAT", "FIN"} = {}
    /\ h.stream = "none" => h.worker = "idle"
    /\ h.run = "none" => ~h.entry /\ h.pipe = "none"
    /\ h.run \in {"copy", "store"} /\ h.stream = "open" => h.entry /\ h.pipe \in {"open", "eof"}
    /\ h.entry => h.run \notin {"none", "done"}
    /\ h.pipe = "eof" => h.gotFIN
    /\ c.pc = "open" => out = {} /\ h.stream # "open"
    /\ c.pc \in {"pump", "result"} \/ "OK" \in back => Asked(h)
    /\ c.pc # "read"

PutOpening(c, h, q) ==
    /\ c.pc = "open" => Len(q) = 0
    /\ c.pc = "await" /\ c.stream = "live" /\ h.session = "open" =>
         /\ h.stream = "none" => Len(q) = 1
         /\ h.stream = "open" /\ h.worker = "syn" => Len(q) = 0

(* The local file's pieces go out once, in order, and its end after them. *)
Ended(h, out) == h.worker = "FIN" \/ h.pipe = "eof" \/ "FIN" \in out

PutSent(c, h, out) ==
    /\ c.sent <= FileSize
    /\ c.pc \in {"open", "await"} => c.sent = 0
    /\ Ended(h, out) => c.sent = FileSize /\ c.pc \in {"result", "done"}

(* What io.Copy has taken from the pipe, and what has come as far as it. *)
Taken(h, n) == IF h.run = "store" THEN h.buf ELSE n
Reached(h, n) == IF h.worker = "DAT" THEN h.held ELSE Taken(h, n)

Numbered(q, n) ==
    \A i \in 1..Len(q) : /\ q[i].kind = "DAT" => q[i].piece = n + i
                         /\ q[i].kind = "FIN" => n + i = FileSize + 1

(* Nothing is missing between the listener's file and the local one, as    *)
(* long as the stream is open.                                             *)
PutChain(c, h, n, q) ==
    h.stream = "open" /\ h.run \in {"copy", "store"} =>
        /\ h.run = "store" => h.buf = n + 1
        /\ h.worker = "DAT" => h.held = Taken(h, n) + 1 /\ h.pipe = "open"
        /\ h.worker = "FIN" \/ h.pipe = "eof" => Taken(h, n) = FileSize
        /\ h.worker # "FIN" /\ h.pipe = "open" => Numbered(q, Reached(h, n))
        /\ c.pc \in {"await", "pump"} /\ c.stream = "live" /\ h.session = "open" =>
             Reached(h, n) + Len(q) = c.sent

PutWhole(c, h, n, back) ==
    "FIN" \in back \/ c.outcome = "ok" =>
        h.run \in {"finish", "done"} /\ n = FileSize /\ c.sent = FileSize /\ c.pc \in {"result", "done"}

PutInv(c, h, n, q, b) ==
    /\ PutStage(c, h, KindsOn(q), KindsOn(b))
    /\ PutOpening(c, h, q)
    /\ PutSent(c, h, KindsOn(q))
    /\ PutChain(c, h, n, q)
    /\ PutWhole(c, h, n, KindsOn(b))

FileInv == FileType /\ (cp.op = "put" => PutInv(cp, fh, stored, toFile, toCp))

LEMMA FrameTaken ==
    ASSUME NEW q \in Seq(StreamFrame), q # <<>>
    PROVE  /\ Tail(q) \in Seq(StreamFrame) /\ Len(Tail(q)) = Len(q) - 1 /\ Len(q) \in Nat
           /\ Head(q) \in StreamFrame /\ Head(q).kind \in KindsOn(q) /\ KindsOn(Tail(q)) \subseteq KindsOn(q)
           /\ \A n \in Nat : Numbered(q, n) =>
                /\ Numbered(Tail(q), n + 1)
                /\ Head(q).kind = "DAT" => Head(q).piece = n + 1
                /\ Head(q).kind = "FIN" => n = FileSize
<1>1. Len(q) \in Nat /\ Len(q) > 0 /\ Head(q) = q[1] /\ Head(q) \in StreamFrame /\ Tail(q) \in Seq(StreamFrame)
  OBVIOUS
<1>2. Len(Tail(q)) = Len(q) - 1 /\ \A i \in 1..Len(q) - 1 : Tail(q)[i] = q[i + 1]
  BY <1>1
<1>3. \A i \in 1..Len(q) - 1 : i + 1 \in 1..Len(q)
  BY <1>1
<1>4. 1 \in 1..Len(q)
  BY <1>1
<1>5. KindsOn(Tail(q)) \subseteq KindsOn(q) /\ Head(q).kind \in KindsOn(q)
  BY <1>1, <1>2, <1>3, <1>4 DEF KindsOn
<1>6. ASSUME NEW n \in Nat, Numbered(q, n)
      PROVE  /\ Numbered(Tail(q), n + 1)
             /\ Head(q).kind = "DAT" => Head(q).piece = n + 1
             /\ Head(q).kind = "FIN" => n = FileSize
  <2>1. ASSUME NEW i \in 1..Len(q) - 1
        PROVE  /\ Tail(q)[i].kind = "DAT" => Tail(q)[i].piece = n + 1 + i
               /\ Tail(q)[i].kind = "FIN" => n + 1 + i = FileSize + 1
    <3>1. i + 1 \in 1..Len(q) /\ Tail(q)[i] = q[i + 1] /\ i \in Nat
      BY <1>1, <1>2, <1>3
    <3>2. /\ q[i + 1].kind = "DAT" => q[i + 1].piece = n + (i + 1)
          /\ q[i + 1].kind = "FIN" => n + (i + 1) = FileSize + 1
      BY <1>6, <3>1 DEF Numbered
    <3>3. n + (i + 1) = n + 1 + i
      BY <3>1
    <3> QED
      BY <3>1, <3>2, <3>3
  <2>2. Numbered(Tail(q), n + 1)
    BY <1>2, <2>1 DEF Numbered
  <2>3. /\ q[1].kind = "DAT" => q[1].piece = n + 1
        /\ q[1].kind = "FIN" => n + 1 = FileSize + 1
    BY <1>4, <1>6 DEF Numbered
  <2> QED
    BY <1>1, <2>2, <2>3, FileAssumption
<1> QED
  BY <1>1, <1>2, <1>5, <1>6

LEMMA FrameSent ==
    ASSUME NEW q \in Seq(StreamFrame), NEW f \in StreamFrame
    PROVE  /\ Append(q, f) \in Seq(StreamFrame) /\ Len(Append(q, f)) = Len(q) + 1 /\ Len(q) \in Nat
           /\ q \o <<f>> = Append(q, f)
           /\ KindsOn(Append(q, f)) = KindsOn(q) \cup {f.kind}
           /\ \A n \in Nat :
                /\ Numbered(q, n)
                /\ f.kind = "DAT" => f.piece = n + Len(q) + 1
                /\ f.kind = "FIN" => n + Len(q) = FileSize
                => Numbered(Append(q, f), n)
<1>1. Append(q, f) \in Seq(StreamFrame) /\ Len(Append(q, f)) = Len(q) + 1 /\ Len(q) \in Nat
  OBVIOUS
<1>2. \A i \in 1..Len(q) + 1 : Append(q, f)[i] = IF i = Len(q) + 1 THEN f ELSE q[i]
  BY <1>1
<1>3. \A i \in 1..Len(q) + 1 : i # Len(q) + 1 => i \in 1..Len(q)
  BY <1>1
<1>4. 1..Len(q) \subseteq 1..Len(q) + 1 /\ Len(q) + 1 \in 1..Len(q) + 1 /\ Len(q) + 1 \notin 1..Len(q)
  BY <1>1
<1>5. KindsOn(Append(q, f)) = KindsOn(q) \cup {f.kind}
  BY <1>1, <1>2, <1>3, <1>4 DEF KindsOn
<1>6. ASSUME NEW n \in Nat, Numbered(q, n), f.kind = "DAT" => f.piece = n + Len(q) + 1,
             f.kind = "FIN" => n + Len(q) = FileSize
      PROVE  Numbered(Append(q, f), n)
  <2> SUFFICES ASSUME NEW i \in 1..Len(q) + 1
               PROVE  /\ Append(q, f)[i].kind = "DAT" => Append(q, f)[i].piece = n + i
                      /\ Append(q, f)[i].kind = "FIN" => n + i = FileSize + 1
    BY <1>1 DEF Numbered
  <2>1. CASE i = Len(q) + 1
    <3>1. n + i = n + Len(q) + 1
      BY <1>1, <2>1
    <3> QED
      BY <1>2, <1>6, <2>1, <3>1
  <2>2. CASE i # Len(q) + 1
    BY <1>2, <1>3, <1>6, <2>2 DEF Numbered
  <2> QED
    BY <2>1, <2>2
<1>7. q \o <<f>> = Append(q, f)
  OBVIOUS
<1> QED
  BY <1>1, <1>5, <1>6, <1>7

LEMMA FramesKept ==
    ASSUME NEW q \in Seq(StreamFrame), NEW n \in 0..Len(q)
    PROVE  SubSeq(q, 1, n) \in Seq(StreamFrame) /\ KindsOn(SubSeq(q, 1, n)) \subseteq KindsOn(q)
<1>1. Len(q) \in Nat /\ SubSeq(q, 1, n) \in Seq(StreamFrame) /\ Len(SubSeq(q, 1, n)) = n
  OBVIOUS
<1>2. \A i \in 1..n : SubSeq(q, 1, n)[i] = q[i] /\ i \in 1..Len(q)
  BY <1>1
<1> QED
  BY <1>1, <1>2 DEF KindsOn

LEMMA ResetTaken ==
    ASSUME NEW q \in Seq(StreamFrame), HasReset(q)
    PROVE  BeforeReset(q) \in Seq(StreamFrame) /\ KindsOn(BeforeReset(q)) \subseteq KindsOn(q)
<1> DEFINE at == CHOOSE i \in DOMAIN q : q[i].kind = "RESET"
<1>1. at \in DOMAIN q /\ DOMAIN q = 1..Len(q) /\ Len(q) \in Nat
  BY DEF HasReset
<1>2. BeforeReset(q) = SubSeq(q, 1, at - 1)
  BY DEF BeforeReset
<1> HIDE DEF at
<1>3. at - 1 \in 0..Len(q)
  BY <1>1
<1> QED
  BY <1>2, <1>3, FramesKept

LEMMA EmptyQueue == <<>> \in Seq(StreamFrame) /\ KindsOn(<<>>) = {} /\ Len(<<>>) = 0 /\ \A n : Numbered(<<>>, n)
BY DEF KindsOn, Numbered

(* Get or Put returns: nothing but the connector's own state and a reset. *)
LEMMA CpReturnsKeeps ==
    ASSUME FileInv, NEW outcome \in {"ok", "error"}, NEW ended, CpReturns(outcome, toFile, ended),
           NEW b \in Seq(StreamFrame), KindsOn(b) \subseteq KindsOn(toCp), toCp' = b,
           cp.op = "put" /\ outcome = "ok" => "FIN" \in KindsOn(toCp),
           UNCHANGED <<fh, stored>>
    PROVE  FileInv'
<1> DEFINE c == [cp EXCEPT !.pc = "done", !.stream = "closed", !.outcome = outcome]
<1>1. FileType
  BY DEF FileInv
<1>2. cp' = c /\ c \in CpRecord /\ c.op = cp.op
  BY <1>1 DEF CpReturns, FileType, CpRecord
<1>3. c.pc = "done" /\ c.stream = "closed" /\ c.outcome = outcome /\ c.sent = cp.sent
  BY <1>1 DEF FileType, CpRecord
<1>4. Signal("RESET") \in StreamFrame /\ Signal("RESET").kind = "RESET"
  BY DEF Signal, StreamFrame
<1>5. toFile' = toFile \/ toFile' = Append(toFile, Signal("RESET"))
  BY DEF CpReturns
<1>6. /\ toFile' \in Seq(StreamFrame)
      /\ KindsOn(toFile') \subseteq KindsOn(toFile) \cup {"RESET"}
      /\ \A n \in Nat : Numbered(toFile, n) => Numbered(toFile', n)
  BY <1>1, <1>4, <1>5, FrameSent DEF FileType
<1> HIDE DEF c
<1>7. FileType'
  BY <1>1, <1>2, <1>6 DEF FileType
<1>8. ASSUME cp.op = "put" PROVE PutInv(c, fh, stored, toFile', b)
  <2>1. PutInv(cp, fh, stored, toFile, toCp)
    BY <1>8 DEF FileInv
  <2>2. PutStage(c, fh, KindsOn(toFile'), KindsOn(b)) /\ PutOpening(c, fh, toFile')
    BY <2>1, <1>3, <1>6 DEF PutInv, PutStage, PutOpening, Asked
  <2>3. PutSent(c, fh, KindsOn(toFile'))
    BY <2>1, <1>3, <1>6 DEF PutInv, PutSent, Ended
  <2>4. stored \in Nat /\ fh.held \in Nat /\ fh.buf \in Nat /\ Reached(fh, stored) \in Nat
    BY <1>1 DEF FileType, FhRecord, Reached, Taken
  <2>5. PutChain(c, fh, stored, toFile')
    BY <2>1, <2>4, <1>3, <1>6 DEF PutInv, PutChain
  <2>6. PutWhole(c, fh, stored, KindsOn(b))
    BY <2>1, <1>3, <1>8 DEF PutInv, PutWhole
  <2> QED
    BY <2>2, <2>3, <2>5, <2>6 DEF PutInv
<1> QED
  BY <1>2, <1>7, <1>8 DEF FileInv

LEMMA CpOpensKeeps ==
    ASSUME FileInv, cp.pc = "open", CpCanSend, CpOpens
    PROVE  FileInv'
<1> DEFINE c == [cp EXCEPT !.pc = "await"]
           f == Signal("SYN")
<1>1. FileType
  BY DEF FileInv
<1>2. cp' = c /\ toFile' = Append(toFile, f) /\ UNCHANGED <<toCp, fh, stored>>
  BY DEF CpOpens
<1>3. c \in CpRecord /\ c.op = cp.op /\ f \in StreamFrame
  <2>1. cp \in CpRecord /\ cp.sent + 1 \in Nat
    BY <1>1 DEF FileType, CpRecord
  <2>2. f \in StreamFrame
    BY <2>1 DEF StreamFrame, Signal, Data
  <2> QED
    BY <2>1, <2>2 DEF CpRecord
<1>4. /\ toFile' \in Seq(StreamFrame) /\ Len(toFile') = Len(toFile) + 1 /\ Len(toFile) \in Nat
      /\ KindsOn(toFile') = KindsOn(toFile) \cup {f.kind}
  BY <1>1, <1>2, <1>3, FrameSent DEF FileType
<1>5. FileType'
  BY <1>1, <1>2, <1>3, <1>4 DEF FileType
<1>6. ASSUME cp.op = "put" PROVE PutInv(c, fh, stored, toFile', toCp)
  <2>1. PutInv(cp, fh, stored, toFile, toCp)
    BY <1>6 DEF FileInv
  <2>2. stored \in Nat /\ fh.held \in Nat /\ fh.buf \in Nat /\ Reached(fh, stored) \in Nat
    BY <1>1 DEF FileType, FhRecord, Reached, Taken
  <2>3. PutStage(c, fh, KindsOn(toFile'), KindsOn(toCp)) /\ PutOpening(c, fh, toFile')
    BY <2>1, <1>1, <1>4 DEF PutInv, PutStage, PutOpening, Asked, FileType, CpRecord, FhRecord, CpCanSend, Signal, Data
  <2>4. PutSent(c, fh, KindsOn(toFile'))
    BY <2>1, <1>1, <1>4, FileAssumption DEF PutInv, PutStage, Asked, PutSent, Ended, FileType, CpRecord, FhRecord, Signal, Data
  <2>5. PutChain(c, fh, stored, toFile')
    <3> SUFFICES ASSUME fh.stream = "open", fh.run \in {"copy", "store"}
                 PROVE  PutChain(c, fh, stored, toFile')
      BY DEF PutChain
    <3>1. fh.worker # "FIN" /\ fh.pipe = "open" => Numbered(toFile', Reached(fh, stored))
      BY <2>1, <2>2, <1>1, <1>2, <1>3, <1>4, FrameSent, FileAssumption
      DEF PutInv, PutChain, PutSent, PutStage, FileType, CpRecord, FhRecord, CpCanSend, Signal, Data
    <3>2. Reached(fh, stored) + Len(toFile') = c.sent \/ c.pc \notin {"await", "pump"}
      BY <2>1, <2>2, <1>1, <1>4 DEF PutInv, PutChain, PutStage, PutSent, FileType, CpRecord, FhRecord, CpCanSend
    <3> QED
      BY <2>1, <3>1, <3>2 DEF PutInv, PutChain
  <2>6. PutWhole(c, fh, stored, KindsOn(toCp))
    BY <2>1, <1>1 DEF PutInv, PutWhole, FileType, CpRecord
  <2> QED
    BY <2>3, <2>4, <2>5, <2>6 DEF PutInv
<1> QED
  BY <1>2, <1>3, <1>5, <1>6 DEF FileInv

LEMMA PutPumpsPiece ==
    ASSUME FileInv, cp.pc = "pump", CpCanSend, cp.sent < FileSize, PutPumps
    PROVE  FileInv'
<1> DEFINE c == [cp EXCEPT !.sent = @ + 1]
           f == Data(cp.sent + 1)
<1>1. FileType
  BY DEF FileInv
<1>2. cp' = c /\ toFile' = Append(toFile, f) /\ UNCHANGED <<toCp, fh, stored>>
  BY DEF PutPumps
<1>3. c \in CpRecord /\ c.op = cp.op /\ f \in StreamFrame
  <2>1. cp \in CpRecord /\ cp.sent + 1 \in Nat
    BY <1>1 DEF FileType, CpRecord
  <2>2. f \in StreamFrame
    BY <2>1 DEF StreamFrame, Signal, Data
  <2> QED
    BY <2>1, <2>2 DEF CpRecord
<1>4. /\ toFile' \in Seq(StreamFrame) /\ Len(toFile') = Len(toFile) + 1 /\ Len(toFile) \in Nat
      /\ KindsOn(toFile') = KindsOn(toFile) \cup {f.kind}
  BY <1>1, <1>2, <1>3, FrameSent DEF FileType
<1>5. FileType'
  BY <1>1, <1>2, <1>3, <1>4 DEF FileType
<1>6. ASSUME cp.op = "put" PROVE PutInv(c, fh, stored, toFile', toCp)
  <2>1. PutInv(cp, fh, stored, toFile, toCp)
    BY <1>6 DEF FileInv
  <2>2. stored \in Nat /\ fh.held \in Nat /\ fh.buf \in Nat /\ Reached(fh, stored) \in Nat
    BY <1>1 DEF FileType, FhRecord, Reached, Taken
  <2>3. PutStage(c, fh, KindsOn(toFile'), KindsOn(toCp)) /\ PutOpening(c, fh, toFile')
    BY <2>1, <1>1, <1>4 DEF PutInv, PutStage, PutOpening, Asked, FileType, CpRecord, FhRecord, CpCanSend, Signal, Data
  <2>4. PutSent(c, fh, KindsOn(toFile'))
    BY <2>1, <1>1, <1>4, FileAssumption DEF PutInv, PutStage, Asked, PutSent, Ended, FileType, CpRecord, FhRecord, Signal, Data
  <2>5. PutChain(c, fh, stored, toFile')
    <3> SUFFICES ASSUME fh.stream = "open", fh.run \in {"copy", "store"}
                 PROVE  PutChain(c, fh, stored, toFile')
      BY DEF PutChain
    <3>1. fh.worker # "FIN" /\ fh.pipe = "open" => Numbered(toFile', Reached(fh, stored))
      BY <2>1, <2>2, <1>1, <1>2, <1>3, <1>4, FrameSent, FileAssumption
      DEF PutInv, PutChain, PutSent, PutStage, FileType, CpRecord, FhRecord, CpCanSend, Signal, Data
    <3>2. Reached(fh, stored) + Len(toFile') = c.sent \/ c.pc \notin {"await", "pump"}
      BY <2>1, <2>2, <1>1, <1>4 DEF PutInv, PutChain, PutStage, PutSent, FileType, CpRecord, FhRecord, CpCanSend
    <3> QED
      BY <2>1, <3>1, <3>2 DEF PutInv, PutChain
  <2>6. PutWhole(c, fh, stored, KindsOn(toCp))
    BY <2>1, <1>1 DEF PutInv, PutWhole, FileType, CpRecord
  <2> QED
    BY <2>3, <2>4, <2>5, <2>6 DEF PutInv
<1> QED
  BY <1>2, <1>3, <1>5, <1>6 DEF FileInv

LEMMA PutPumpsEnd ==
    ASSUME FileInv, cp.pc = "pump", CpCanSend, ~(cp.sent < FileSize), PutPumps
    PROVE  FileInv'
<1> DEFINE c == [cp EXCEPT !.pc = "result"]
           f == Signal("FIN")
<1>1. FileType
  BY DEF FileInv
<1>2. cp' = c /\ toFile' = Append(toFile, f) /\ UNCHANGED <<toCp, fh, stored>>
  BY DEF PutPumps
<1>3. c \in CpRecord /\ c.op = cp.op /\ f \in StreamFrame
  <2>1. cp \in CpRecord /\ cp.sent + 1 \in Nat
    BY <1>1 DEF FileType, CpRecord
  <2>2. f \in StreamFrame
    BY <2>1 DEF StreamFrame, Signal, Data
  <2> QED
    BY <2>1, <2>2 DEF CpRecord
<1>4. /\ toFile' \in Seq(StreamFrame) /\ Len(toFile') = Len(toFile) + 1 /\ Len(toFile) \in Nat
      /\ KindsOn(toFile') = KindsOn(toFile) \cup {f.kind}
  BY <1>1, <1>2, <1>3, FrameSent DEF FileType
<1>5. FileType'
  BY <1>1, <1>2, <1>3, <1>4 DEF FileType
<1>6. ASSUME cp.op = "put" PROVE PutInv(c, fh, stored, toFile', toCp)
  <2>1. PutInv(cp, fh, stored, toFile, toCp)
    BY <1>6 DEF FileInv
  <2>2. stored \in Nat /\ fh.held \in Nat /\ fh.buf \in Nat /\ Reached(fh, stored) \in Nat
    BY <1>1 DEF FileType, FhRecord, Reached, Taken
  <2>3. PutStage(c, fh, KindsOn(toFile'), KindsOn(toCp)) /\ PutOpening(c, fh, toFile')
    BY <2>1, <1>1, <1>4 DEF PutInv, PutStage, PutOpening, Asked, FileType, CpRecord, FhRecord, CpCanSend, Signal, Data
  <2>4. PutSent(c, fh, KindsOn(toFile'))
    BY <2>1, <1>1, <1>4, FileAssumption DEF PutInv, PutStage, Asked, PutSent, Ended, FileType, CpRecord, FhRecord, Signal, Data
  <2>5. PutChain(c, fh, stored, toFile')
    <3> SUFFICES ASSUME fh.stream = "open", fh.run \in {"copy", "store"}
                 PROVE  PutChain(c, fh, stored, toFile')
      BY DEF PutChain
    <3>1. fh.worker # "FIN" /\ fh.pipe = "open" => Numbered(toFile', Reached(fh, stored))
      BY <2>1, <2>2, <1>1, <1>2, <1>3, <1>4, FrameSent, FileAssumption
      DEF PutInv, PutChain, PutSent, PutStage, FileType, CpRecord, FhRecord, CpCanSend, Signal, Data
    <3>2. Reached(fh, stored) + Len(toFile') = c.sent \/ c.pc \notin {"await", "pump"}
      BY <2>1, <2>2, <1>1, <1>4 DEF PutInv, PutChain, PutStage, PutSent, FileType, CpRecord, FhRecord, CpCanSend
    <3> QED
      BY <2>1, <3>1, <3>2 DEF PutInv, PutChain
  <2>6. PutWhole(c, fh, stored, KindsOn(toCp))
    BY <2>1, <1>1 DEF PutInv, PutWhole, FileType, CpRecord
  <2> QED
    BY <2>3, <2>4, <2>5, <2>6 DEF PutInv
<1> QED
  BY <1>2, <1>3, <1>5, <1>6 DEF FileInv

LEMMA CpAnsweredKeeps ==
    ASSUME FileInv, CpAnswered
    PROVE  FileInv'
<1>1. FileType /\ toCp \in Seq(StreamFrame) /\ cp.pc = "await"
  BY DEF FileInv, FileType, CpAnswered
<1>2. CASE toCp # <<>> /\ Head(toCp).kind = "OK" /\ cp' = [cp EXCEPT !.pc = IF cp.op = "put" THEN "pump" ELSE "read"]
           /\ toCp' = Tail(toCp) /\ UNCHANGED toFile
  <2> DEFINE pc == IF cp.op = "put" THEN "pump" ELSE "read"
             c == [cp EXCEPT !.pc = pc]
  <2>1. pc \in {"pump", "read"} /\ (cp.op = "put" => pc = "pump") /\ cp' = c /\ UNCHANGED <<toFile, fh, stored>>
    BY <1>2 DEF CpAnswered
  <2> HIDE DEF pc
  <2>2. c \in CpRecord /\ c.op = cp.op /\ c.pc = pc /\ c.sent = cp.sent /\ c.stream = cp.stream /\ c.outcome = cp.outcome
    BY <1>1, <2>1 DEF FileType, CpRecord
  <2>3. Tail(toCp) \in Seq(StreamFrame) /\ KindsOn(Tail(toCp)) \subseteq KindsOn(toCp) /\ "OK" \in KindsOn(toCp)
    BY <1>1, <1>2, FrameTaken
  <2> HIDE DEF c
  <2>4. FileType'
    BY <1>1, <1>2, <2>1, <2>2, <2>3 DEF FileType
  <2>5. ASSUME cp.op = "put" PROVE PutInv(c, fh, stored, toFile, Tail(toCp))
    <3>1. PutInv(cp, fh, stored, toFile, toCp) /\ c.pc = "pump"
      BY <2>1, <2>2, <2>5 DEF FileInv
    <3>2. PutStage(c, fh, KindsOn(toFile), KindsOn(Tail(toCp))) /\ PutOpening(c, fh, toFile)
      BY <3>1, <2>3 DEF PutInv, PutStage, PutOpening
    <3>3. PutSent(c, fh, KindsOn(toFile)) /\ PutWhole(c, fh, stored, KindsOn(Tail(toCp)))
      BY <3>1, <1>1, <2>2, <2>3, FileAssumption DEF PutInv, PutSent, PutWhole
    <3>4. PutChain(c, fh, stored, toFile)
      BY <3>1, <1>1, <2>2 DEF PutInv, PutChain
    <3> QED
      BY <3>2, <3>3, <3>4 DEF PutInv
  <2> QED
    BY <1>2, <2>1, <2>2, <2>4, <2>5 DEF FileInv
<1>3. CASE toCp # <<>> /\ Head(toCp).kind = "REFUSED" /\ CpReturns("error", toFile, FALSE) /\ toCp' = Tail(toCp)
  <2>1. Tail(toCp) \in Seq(StreamFrame) /\ KindsOn(Tail(toCp)) \subseteq KindsOn(toCp) /\ UNCHANGED <<fh, stored>>
    BY <1>1, <1>3, FrameTaken DEF CpAnswered
  <2> QED
    BY <1>3, <2>1, CpReturnsKeeps
<1>4. CASE CpReturns("error", toFile, FALSE) /\ UNCHANGED toCp
  BY <1>1, <1>4, CpReturnsKeeps DEF CpAnswered
<1> QED
  BY <1>2, <1>3, <1>4 DEF CpAnswered

LEMMA PutResultKeeps ==
    ASSUME FileInv, PutResult
    PROVE  FileInv'
<1>1. FileType /\ toCp \in Seq(StreamFrame) /\ UNCHANGED <<fh, stored>>
  BY DEF FileInv, FileType, PutResult
<1>2. CASE toCp # <<>> /\ CpReturns(IF Head(toCp).kind = "FIN" THEN "ok" ELSE "error", toFile, TRUE)
           /\ toCp' = Tail(toCp)
  <2> DEFINE outcome == IF Head(toCp).kind = "FIN" THEN "ok" ELSE "error"
  <2>1. outcome \in {"ok", "error"} /\ (outcome = "ok" => Head(toCp).kind = "FIN")
    OBVIOUS
  <2>2. /\ Tail(toCp) \in Seq(StreamFrame) /\ KindsOn(Tail(toCp)) \subseteq KindsOn(toCp)
        /\ Head(toCp).kind \in KindsOn(toCp) /\ CpReturns(outcome, toFile, TRUE)
    BY <1>1, <1>2, FrameTaken
  <2> HIDE DEF outcome
  <2> QED
    BY <1>1, <1>2, <2>1, <2>2, CpReturnsKeeps
<1>3. CASE CpReturns("error", toFile, FALSE) /\ UNCHANGED toCp
  BY <1>1, <1>3, CpReturnsKeeps
<1> QED
  BY <1>2, <1>3 DEF PutResult

LEMMA GetReadsKeeps ==
    ASSUME FileInv, GetReads
    PROVE  FileInv'
<1>1. FileType /\ toCp \in Seq(StreamFrame) /\ UNCHANGED <<fh, stored>> /\ cp.pc = "read" /\ cp.op # "put"
  BY DEF FileInv, FileType, GetReads, PutInv, PutStage
<1>2. ASSUME toCp # <<>>
      PROVE  /\ Tail(toCp) \in Seq(StreamFrame) /\ KindsOn(Tail(toCp)) \subseteq KindsOn(toCp)
             /\ Head(toCp) \in StreamFrame
  BY <1>1, <1>2, FrameTaken
<1>3. CASE toCp # <<>> /\ cp' = [cp EXCEPT !.got = Head(toCp).piece] /\ toCp' = Tail(toCp) /\ UNCHANGED toFile
  <2>1. Head(toCp).piece \in Nat
    BY <1>2, <1>3 DEF StreamFrame
  <2>2. cp' \in CpRecord /\ cp'.op = cp.op
    BY <1>1, <1>3, <2>1 DEF FileType, CpRecord
  <2>3. FileType'
    BY <1>1, <1>2, <1>3, <2>2 DEF FileType
  <2> QED
    BY <1>1, <2>2, <2>3 DEF FileInv
<1>4. ASSUME NEW outcome \in {"ok", "error"}, NEW ended, CpReturns(outcome, toFile, ended),
             (toCp # <<>> /\ toCp' = Tail(toCp)) \/ UNCHANGED toCp
      PROVE  FileInv'
  BY <1>1, <1>2, <1>4, CpReturnsKeeps
<1> QED
  BY <1>3, <1>4 DEF GetReads

(* A step that ends the connector's stream, and what it has not yet read,  *)
(* with the handler as it was.                                             *)
LEMMA CpResetKeeps ==
    ASSUME FileInv, CpReset
    PROVE  FileInv'
<1> DEFINE stream == IF cp.stream = "live" THEN "failed" ELSE cp.stream
           c == [cp EXCEPT !.stream = stream]
           b == BeforeReset(toCp)
<1>1. FileType /\ cp' = c /\ toCp' = b /\ UNCHANGED <<toFile, fh, stored>>
  BY DEF FileInv, FileType, CpReset, CpRecord
<1>2. stream \in {"failed", "closed"}
  BY <1>1 DEF FileType, CpRecord
<1>3. b \in Seq(StreamFrame) /\ KindsOn(b) \subseteq KindsOn(toCp)
  BY <1>1, ResetTaken DEF CpReset, FileType
<1> HIDE DEF stream, b
<1>4. c \in CpRecord /\ c.op = cp.op /\ c.pc = cp.pc /\ c.sent = cp.sent /\ c.stream # "live" /\ c.outcome = cp.outcome
  BY <1>1, <1>2 DEF FileType, CpRecord
<1> HIDE DEF c
<1>5. FileType'
  BY <1>1, <1>3, <1>4 DEF FileType
<1>6. ASSUME cp.op = "put" PROVE PutInv(c, fh, stored, toFile, b)
  <2>1. PutInv(cp, fh, stored, toFile, toCp)
    BY <1>6 DEF FileInv
  <2>2. PutStage(c, fh, KindsOn(toFile), KindsOn(b)) /\ PutOpening(c, fh, toFile)
    BY <2>1, <1>3, <1>4 DEF PutInv, PutStage, PutOpening
  <2>3. PutSent(c, fh, KindsOn(toFile)) /\ PutWhole(c, fh, stored, KindsOn(b))
    BY <2>1, <1>3, <1>4 DEF PutInv, PutSent, PutWhole
  <2>4. PutChain(c, fh, stored, toFile)
    BY <2>1, <1>4 DEF PutInv, PutChain
  <2> QED
    BY <2>2, <2>3, <2>4 DEF PutInv
<1> QED
  BY <1>1, <1>4, <1>5, <1>6 DEF FileInv

LEMMA CpStepKeeps ==
    ASSUME FileInv, CpStep
    PROVE  FileInv'
<1>1. toCp \in Seq(StreamFrame)
  BY DEF FileInv, FileType
<1>2. ASSUME CpReturns("error", toFile, FALSE), UNCHANGED <<toCp, fh, stored>> PROVE FileInv'
  BY <1>1, <1>2, CpReturnsKeeps
<1>3. CASE CpOpens
  BY <1>2, <1>3, CpOpensKeeps DEF CpOpens
<1>4. CASE PutPumps
  BY <1>2, <1>4, PutPumpsPiece, PutPumpsEnd DEF PutPumps
<1>5. CASE PutReadFails
  BY <1>2, <1>5 DEF PutReadFails
<1> QED
  BY <1>3, <1>4, <1>5, CpAnsweredKeeps, PutResultKeeps, GetReadsKeeps, CpResetKeeps DEF CpStep

(* A step of the listener, whose connector stays as it is. *)
LEMMA HandlerSteps ==
    ASSUME FileInv, UNCHANGED cp, fh' \in FhRecord, stored' \in Nat,
           toFile' \in Seq(StreamFrame), toCp' \in Seq(StreamFrame),
           cp.op = "put" => PutInv(cp, fh', stored', toFile', toCp')
    PROVE  FileInv'
<1>1. FileType'
  BY DEF FileInv, FileType
<1> QED
  BY <1>1 DEF FileInv

LEMMA FileEndsSends ==
    ASSUME FileType, NEW f \in FhRecord, NEW frames \in Seq(StreamFrame), FileEnds(f, frames)
    PROVE  /\ fh' \in FhRecord /\ toCp' \in Seq(StreamFrame)
           /\ fh'.stream = f.stream \/ fh'.stream = "gone"
           /\ fh'.session = f.session /\ fh'.worker = f.worker /\ fh'.held = f.held /\ fh'.buf = f.buf
           /\ fh'.entry = f.entry /\ fh'.pipe = f.pipe /\ fh'.run = f.run /\ fh'.gotFIN = f.gotFIN
           /\ \A x \in StreamFrame : frames = <<x>> =>
                KindsOn(toCp') \subseteq KindsOn(toCp) \cup {x.kind}
           /\ \A x \in StreamFrame : frames = <<x>> /\ ~FileCanSend => toCp' = toCp
<1> DEFINE sentFIN == f.sentFIN \/ FileCanSend
           g == [f EXCEPT !.sentFIN = sentFIN]
<1>1. sentFIN \in BOOLEAN /\ fh' = FileFinished(g)
  BY DEF FileEnds
<1> HIDE DEF sentFIN
<1>2. /\ g \in FhRecord /\ g.stream = f.stream
      /\ g.session = f.session /\ g.worker = f.worker /\ g.held = f.held /\ g.buf = f.buf
      /\ g.entry = f.entry /\ g.pipe = f.pipe /\ g.run = f.run /\ g.gotFIN = f.gotFIN
  BY <1>1 DEF FhRecord
<1> HIDE DEF g
<1> DEFINE w == [g EXCEPT !.stream = "gone"]
<1>3. /\ w \in FhRecord /\ w.stream = "gone"
      /\ w.session = g.session /\ w.worker = g.worker /\ w.held = g.held /\ w.buf = g.buf
      /\ w.entry = g.entry /\ w.pipe = g.pipe /\ w.run = g.run /\ w.gotFIN = g.gotFIN
  BY <1>2 DEF FhRecord
<1>4. fh' = g \/ fh' = w
  BY <1>1 DEF FileFinished
<1> HIDE DEF w
<1>5. toCp' = IF FileCanSend THEN toCp \o frames ELSE toCp
  BY DEF FileEnds, FileSends
<1>6. toCp \in Seq(StreamFrame) /\ toCp \o frames \in Seq(StreamFrame)
  BY DEF FileType
<1>7. ASSUME NEW x \in StreamFrame, frames = <<x>>
      PROVE  KindsOn(toCp \o frames) = KindsOn(toCp) \cup {x.kind}
  BY <1>6, <1>7, FrameSent
<1> QED
  BY <1>2, <1>3, <1>4, <1>5, <1>6, <1>7

LEMMA Signals ==
    /\ \A k \in {"SYN", "FIN", "RESET", "OK", "REFUSED", "FAILED"} :
         /\ Signal(k) \in StreamFrame /\ Signal(k).kind = k /\ <<Signal(k)>> \in Seq(StreamFrame)
         /\ \A n \in Nat : <<Signal("OK"), Data(n), Signal("FIN")>> \in Seq(StreamFrame)
    /\ \A n \in Nat : Data(n) \in StreamFrame /\ Data(n).kind = "DAT" /\ <<Data(n)>> \in Seq(StreamFrame)
    /\ <<Signal("OK"), Signal("FIN")>> \in Seq(StreamFrame)
BY DEF Signal, Data, StreamFrame

LEMMA FileAdmitKeeps ==
    ASSUME FileInv, FileAdmit
    PROVE  FileInv'
<1> DEFINE gotFIN == cp.op # "put"
           h == [fh EXCEPT !.stream = "open", !.worker = "syn", !.gotFIN = gotFIN]
<1>1. FileType /\ fh.stream = "none" /\ toFile # <<>> /\ toFile \in Seq(StreamFrame) /\ gotFIN \in BOOLEAN
  BY DEF FileInv, FileType, FileAdmit
<1>2. fh' = h /\ toFile' = Tail(toFile) /\ UNCHANGED <<cp, toCp, stored>>
  BY DEF FileAdmit
<1>3. Tail(toFile) \in Seq(StreamFrame) /\ KindsOn(Tail(toFile)) \subseteq KindsOn(toFile) /\ Len(Tail(toFile)) = Len(toFile) - 1
  BY <1>1, FrameTaken
<1> HIDE DEF gotFIN
<1>4. h \in FhRecord /\ h.stream = "open" /\ h.worker = "syn" /\ h.run = fh.run /\ h.entry = fh.entry
      /\ h.pipe = fh.pipe /\ h.session = fh.session
  BY <1>1 DEF FileType, FhRecord
<1> HIDE DEF h
<1>5. ASSUME cp.op = "put" PROVE PutInv(cp, h, stored, Tail(toFile), toCp)
  <2>1. PutInv(cp, fh, stored, toFile, toCp) /\ fh.worker # "syn"
    BY <1>1, <1>5 DEF FileInv, PutInv, PutStage
  <2>2. fh.run = "none" /\ fh.pipe = "none" /\ ~fh.entry /\ Len(toFile) \in Nat /\ Len(toFile) # 0
    BY <2>1, <1>1 DEF PutInv, PutStage, Asked
  <2>3. PutStage(cp, h, KindsOn(Tail(toFile)), KindsOn(toCp)) /\ PutOpening(cp, h, Tail(toFile))
    BY <2>1, <2>2, <1>1, <1>3, <1>4 DEF PutInv, PutStage, PutOpening, Asked
  <2>4. PutSent(cp, h, KindsOn(Tail(toFile))) /\ PutWhole(cp, h, stored, KindsOn(toCp))
    BY <2>1, <2>2, <1>3, <1>4 DEF PutInv, PutSent, Ended, PutWhole
  <2>5. PutChain(cp, h, stored, Tail(toFile))
    BY <2>2, <1>4 DEF PutChain
  <2> QED
    BY <2>3, <2>4, <2>5 DEF PutInv
<1> QED
  BY <1>1, <1>2, <1>3, <1>4, <1>5, HandlerSteps DEF FileType

LEMMA FileRefusesKeeps ==
    ASSUME FileInv, FileRefuses
    PROVE  FileInv'
<1> DEFINE f == [fh EXCEPT !.worker = "idle"]
<1>1. FileType /\ fh.worker = "syn" /\ UNCHANGED <<cp, toFile, stored>>
  BY DEF FileInv, FileRefuses
<1>2. FileEnds(f, <<Signal("REFUSED")>>)
  BY DEF FileRefuses
<1>3. /\ f \in FhRecord /\ f.stream = fh.stream /\ f.worker = "idle" /\ f.run = fh.run /\ f.entry = fh.entry
      /\ f.pipe = fh.pipe /\ f.session = fh.session
  BY <1>1 DEF FileType, FhRecord
<1> HIDE DEF f
<1>4. /\ fh' \in FhRecord /\ toCp' \in Seq(StreamFrame) /\ (fh'.stream = fh.stream \/ fh'.stream = "gone")
      /\ fh'.worker = "idle" /\ fh'.run = fh.run /\ fh'.entry = fh.entry /\ fh'.pipe = fh.pipe /\ fh'.session = fh.session
      /\ KindsOn(toCp') \subseteq KindsOn(toCp) \cup {"REFUSED"}
  BY <1>1, <1>2, <1>3, FileEndsSends, Signals
<1>5. ASSUME cp.op = "put" PROVE PutInv(cp, fh', stored, toFile, toCp')
  <2>1. PutInv(cp, fh, stored, toFile, toCp)
    BY <1>5 DEF FileInv
  <2>2. fh.run = "none" /\ fh.pipe = "none" /\ ~fh.entry /\ fh.stream # "none"
    BY <2>1, <1>1 DEF PutInv, PutStage, Asked
  <2>3. PutStage(cp, fh', KindsOn(toFile), KindsOn(toCp')) /\ PutOpening(cp, fh', toFile)
    BY <2>1, <2>2, <1>1, <1>4 DEF PutInv, PutStage, PutOpening, Asked
  <2>4. PutSent(cp, fh', KindsOn(toFile)) /\ PutWhole(cp, fh', stored, KindsOn(toCp'))
    BY <2>1, <2>2, <1>1, <1>4 DEF PutInv, PutSent, Ended, PutWhole
  <2>5. PutChain(cp, fh', stored, toFile)
    BY <2>2, <1>4 DEF PutChain
  <2> QED
    BY <2>3, <2>4, <2>5 DEF PutInv
<1> QED
  BY <1>1, <1>4, <1>5, HandlerSteps DEF FileType

LEMMA PutOpensKeeps ==
    ASSUME FileInv, PutOpens
    PROVE  FileInv'
<1> DEFINE late == fh.stream # "open"
           h == [fh EXCEPT !.worker = "idle", !.entry = TRUE, !.pipe = "open", !.file = "open",
                           !.run = "copy", !.late = late]
<1>1. FileType /\ fh.worker = "syn" /\ UNCHANGED <<cp, toFile>> /\ stored' = 0 /\ fh' = h /\ late \in BOOLEAN
  BY DEF FileInv, PutOpens
<1> HIDE DEF late
<1>2. /\ h \in FhRecord /\ h.stream = fh.stream /\ h.worker = "idle" /\ h.run = "copy" /\ h.entry
      /\ h.pipe = "open" /\ h.session = fh.session
  BY <1>1 DEF FileType, FhRecord
<1> HIDE DEF h
<1>3. toCp' \in Seq(StreamFrame) /\ KindsOn(toCp') \subseteq KindsOn(toCp) \cup {"OK"}
  <2>1. toCp' = IF FileCanSend THEN toCp \o <<Signal("OK")>> ELSE toCp
    BY DEF PutOpens, FileSends
  <2>2. Signal("OK") \in StreamFrame /\ Signal("OK").kind = "OK" /\ toCp \in Seq(StreamFrame)
    BY <1>1, Signals DEF FileType
  <2>3. /\ toCp \o <<Signal("OK")>> \in Seq(StreamFrame)
        /\ KindsOn(toCp \o <<Signal("OK")>>) = KindsOn(toCp) \cup {"OK"}
    BY <2>2, FrameSent
  <2> QED
    BY <2>1, <2>2, <2>3
<1>4. ASSUME cp.op = "put" PROVE PutInv(cp, h, 0, toFile, toCp')
  <2>1. PutInv(cp, fh, stored, toFile, toCp)
    BY <1>4 DEF FileInv
  <2>2. fh.run = "none" /\ fh.pipe = "none" /\ ~fh.entry /\ fh.stream # "none" /\ cp.pc \notin {"pump", "result"}
        /\ "FIN" \notin KindsOn(toFile) /\ "DAT" \notin KindsOn(toFile)
    BY <2>1, <1>1 DEF PutInv, PutStage, Asked
  <2>3. PutStage(cp, h, KindsOn(toFile), KindsOn(toCp')) /\ PutOpening(cp, h, toFile)
    BY <2>1, <2>2, <1>1, <1>2, <1>3 DEF PutInv, PutStage, PutOpening, Asked
  <2>4. PutSent(cp, h, KindsOn(toFile)) /\ PutWhole(cp, h, 0, KindsOn(toCp'))
    BY <2>1, <2>2, <1>1, <1>2, <1>3 DEF PutInv, PutSent, Ended, PutWhole
  <2>5. Taken(h, 0) = 0 /\ Reached(h, 0) = 0
    BY <1>2 DEF Taken, Reached
  <2>6. Numbered(toFile, 0)
    BY <2>2 DEF Numbered, KindsOn
  <2>7. PutChain(cp, h, 0, toFile)
    BY <2>1, <2>2, <2>5, <2>6, <1>1, <1>2 DEF PutInv, PutOpening, PutSent, PutChain
  <2> QED
    BY <2>3, <2>4, <2>7 DEF PutInv
<1> QED
  BY <1>1, <1>2, <1>3, <1>4, HandlerSteps DEF FileType

(* What the handler does for the other operations only has to keep the types. *)
LEMMA OthersKeep ==
    ASSUME FileInv, PutEmpty \/ GetTracked \/ FileLists \/ GetOpens \/ GetSends \/ GetEnds
    PROVE  FileInv'
<1>1. FileType /\ UNCHANGED cp /\ toFile' = toFile /\ toFile \in Seq(StreamFrame)
  BY DEF FileInv, FileType, PutEmpty, GetTracked, FileLists, GetOpens, GetSends, GetEnds
<1>2. cp.op # "put"
  BY DEF PutEmpty, GetTracked, FileLists, GetOpens, GetSends, GetEnds, FileInv, PutInv, PutStage
<1>3. fh \in FhRecord /\ stored \in Nat /\ toCp \in Seq(StreamFrame) /\ fh.sent + 1 \in Nat /\ cp \in CpRecord
  BY <1>1 DEF FileType, FhRecord
<1>4. ASSUME NEW f \in FhRecord, NEW frames \in Seq(StreamFrame), FileEnds(f, frames)
      PROVE  fh' \in FhRecord /\ toCp' \in Seq(StreamFrame)
  BY <1>1, <1>4, FileEndsSends
<1>5. ASSUME NEW frames \in Seq(StreamFrame), FileSends(frames) PROVE toCp' \in Seq(StreamFrame)
  BY <1>3, <1>5 DEF FileSends
<1>6. \A run \in {"done", "finish"} : [fh EXCEPT !.run = run] \in FhRecord
  BY <1>3 DEF FhRecord
<1>7. fh' \in FhRecord /\ stored' \in Nat /\ toCp' \in Seq(StreamFrame)
  <2>1. CASE PutEmpty
    <3>1. [fh EXCEPT !.worker = "idle", !.file = "closed"] \in FhRecord
      BY <1>3 DEF FhRecord
    <3> QED
      BY <2>1, <3>1, <1>4, Signals DEF PutEmpty
  <2>2. CASE GetTracked
    <3> DEFINE entry == cp.op = "get"
    <3>1. fh' = [fh EXCEPT !.worker = "idle", !.run = cp.op, !.entry = entry] /\ UNCHANGED <<toCp, stored>>
      BY <2>2 DEF GetTracked
    <3>2. entry \in BOOLEAN /\ cp.op \in {"get", "list"}
      BY <2>2 DEF GetTracked
    <3> HIDE DEF entry
    <3>3. \A op \in {"get", "list"} : [fh EXCEPT !.worker = "idle", !.run = op, !.entry = entry] \in FhRecord
      BY <1>3, <3>2 DEF FhRecord
    <3> QED
      BY <1>3, <3>1, <3>2, <3>3
  <2>3. CASE FileLists
    BY <2>3, <1>3, <1>4, <1>6, Signals DEF FileLists
  <2>4. CASE GetEnds
    BY <2>4, <1>3, <1>4, <1>6, Signals DEF GetEnds
  <2>5. CASE GetSends
    <3> DEFINE run == IF FileCanSend THEN fh.run ELSE "finish"
               sent == IF FileCanSend THEN fh.sent + 1 ELSE fh.sent
    <3>1. fh' = [fh EXCEPT !.run = run, !.sent = sent] /\ stored' = stored /\ FileSends(<<Data(fh.sent + 1)>>)
      BY <2>5 DEF GetSends
    <3>2. run \in {"send", "finish"} /\ sent \in Nat
      BY <2>5, <1>3 DEF GetSends, FhRecord
    <3> HIDE DEF run, sent
    <3>3. [fh EXCEPT !.run = run, !.sent = sent] \in FhRecord
      BY <1>3, <3>2 DEF FhRecord
    <3> QED
      BY <1>3, <1>5, <3>1, <3>3, Signals
  <2>6. CASE GetOpens
    <3>1. \A run \in {"send", "finish"}, file \in {"open", "closed"} : [fh EXCEPT !.run = run, !.file = file] \in FhRecord
      BY <1>3 DEF FhRecord
    <3>2. CASE FileEnds([fh EXCEPT !.run = "finish"], <<Signal("REFUSED")>>)
      BY <3>2, <2>6, <1>3, <1>4, <1>6, Signals DEF GetOpens
    <3>3. CASE ~FileEnds([fh EXCEPT !.run = "finish"], <<Signal("REFUSED")>>)
      BY <3>1, <3>3, <2>6, <1>3, <1>5, Signals DEF GetOpens
    <3> QED
      BY <3>2, <3>3
  <2> QED
    BY <2>1, <2>2, <2>3, <2>4, <2>5, <2>6
<1> QED
  BY <1>1, <1>2, <1>7, HandlerSteps

LEMMA PutTakesKeeps ==
    ASSUME FileInv, PutTakes
    PROVE  FileInv'
<1> DEFINE h == [fh EXCEPT !.run = "store", !.buf = fh.held, !.worker = "idle"]
<1>1. FileType /\ fh.run = "copy" /\ fh.pipe = "open" /\ fh.worker = "DAT" /\ UNCHANGED <<cp, toFile, toCp, stored>> /\ fh' = h
  BY DEF FileInv, PutTakes
<1>2. /\ h \in FhRecord /\ h.stream = fh.stream /\ h.worker = "idle" /\ h.run = "store" /\ h.entry = fh.entry
      /\ h.pipe = "open" /\ h.session = fh.session /\ h.buf = fh.held /\ h.held = fh.held /\ h.gotFIN = fh.gotFIN
  BY <1>1 DEF FileType, FhRecord
<1> HIDE DEF h
<1>3. ASSUME cp.op = "put" PROVE PutInv(cp, h, stored, toFile, toCp)
  <2>1. PutInv(cp, fh, stored, toFile, toCp)
    BY <1>3 DEF FileInv
  <2>2. PutStage(cp, h, KindsOn(toFile), KindsOn(toCp)) /\ PutOpening(cp, h, toFile)
    BY <2>1, <1>1, <1>2 DEF PutInv, PutStage, PutOpening, Asked
  <2>3. PutSent(cp, h, KindsOn(toFile)) /\ PutWhole(cp, h, stored, KindsOn(toCp))
    BY <2>1, <1>1, <1>2 DEF PutInv, PutSent, Ended, PutWhole
  <2>4. PutChain(cp, h, stored, toFile)
    BY <2>1, <1>1, <1>2 DEF PutInv, PutChain, Taken, Reached
  <2> QED
    BY <2>2, <2>3, <2>4 DEF PutInv
<1> QED
  BY <1>1, <1>2, <1>3, HandlerSteps DEF FileType

LEMMA PutStoresKeeps ==
    ASSUME FileInv, PutStores
    PROVE  FileInv'
<1>1. FileType /\ fh.run = "store" /\ UNCHANGED <<cp, toFile, toCp>>
  BY DEF FileInv, PutStores
<1>2. ASSUME NEW run \in {"copy", "failed"}, fh' = [fh EXCEPT !.run = run],
             stored' = IF run = "failed" THEN stored ELSE IF fh.buf = stored + 1 THEN fh.buf ELSE Spoilt
      PROVE  FileInv'
  <2> DEFINE h == [fh EXCEPT !.run = run]
             n == IF run = "failed" THEN stored ELSE IF fh.buf = stored + 1 THEN fh.buf ELSE Spoilt
  <2>1. /\ h \in FhRecord /\ h.stream = fh.stream /\ h.worker = fh.worker /\ h.run = run /\ h.entry = fh.entry
        /\ h.pipe = fh.pipe /\ h.session = fh.session /\ h.buf = fh.buf /\ h.held = fh.held /\ h.gotFIN = fh.gotFIN
    BY <1>1, <1>2 DEF FileType, FhRecord
  <2>2. n \in Nat /\ (run = "copy" /\ fh.buf = stored + 1 => n = fh.buf)
    BY <1>1, FileAssumption DEF FileType, FhRecord, Spoilt
  <2>3. fh' = h /\ stored' = n
    BY <1>2
  <2> HIDE DEF h, n
  <2>4. ASSUME cp.op = "put" PROVE PutInv(cp, h, n, toFile, toCp)
    <3>1. PutInv(cp, fh, stored, toFile, toCp)
      BY <2>4 DEF FileInv
    <3>2. PutStage(cp, h, KindsOn(toFile), KindsOn(toCp)) /\ PutOpening(cp, h, toFile)
      BY <3>1, <1>1, <2>1 DEF PutInv, PutStage, PutOpening, Asked
    <3>3. PutSent(cp, h, KindsOn(toFile)) /\ PutWhole(cp, h, n, KindsOn(toCp))
      BY <3>1, <1>1, <2>1 DEF PutInv, PutSent, Ended, PutWhole
    <3>4. PutChain(cp, h, n, toFile)
      BY <3>1, <1>1, <2>1, <2>2 DEF PutInv, PutChain, Taken, Reached
    <3> QED
      BY <3>2, <3>3, <3>4 DEF PutInv
  <2> QED
    BY <1>1, <2>1, <2>2, <2>3, <2>4, HandlerSteps DEF FileType
<1> QED
  BY <1>1, <1>2 DEF PutStores

(* The status in the FIN: "ok" only once the body's end has come through   *)
(* the pipe, behind everything that was in it.                             *)
LEMMA PutAnswersKeeps ==
    ASSUME FileInv, PutAnswers
    PROVE  FileInv'
<1> DEFINE f == [fh EXCEPT !.run = "finish"]
           kind == IF fh.run = "copy" /\ fh.pipe = "eof" THEN "FIN" ELSE "FAILED"
<1>1. FileType /\ fh.run \in {"copy", "failed"} /\ UNCHANGED <<cp, toFile, stored>>
  BY DEF FileInv, PutAnswers
<1>2. FileEnds(f, <<Signal(kind)>>)
  BY DEF PutAnswers
<1>3. kind \in {"FIN", "FAILED"} /\ (kind = "FIN" => fh.run = "copy" /\ fh.pipe = "eof")
  OBVIOUS
<1>4. /\ f \in FhRecord /\ f.stream = fh.stream /\ f.worker = fh.worker /\ f.run = "finish" /\ f.entry = fh.entry
      /\ f.pipe = fh.pipe /\ f.session = fh.session /\ f.gotFIN = fh.gotFIN
  BY <1>1 DEF FileType, FhRecord
<1> HIDE DEF f, kind
<1>5. /\ fh' \in FhRecord /\ toCp' \in Seq(StreamFrame) /\ (fh'.stream = fh.stream \/ fh'.stream = "gone")
      /\ fh'.worker = fh.worker /\ fh'.run = "finish" /\ fh'.entry = fh.entry /\ fh'.pipe = fh.pipe
      /\ fh'.session = fh.session /\ fh'.gotFIN = fh.gotFIN
      /\ KindsOn(toCp') \subseteq KindsOn(toCp) \cup {kind}
      /\ ~FileCanSend => toCp' = toCp
  BY <1>1, <1>2, <1>3, <1>4, FileEndsSends, Signals
<1>6. ASSUME cp.op = "put" PROVE PutInv(cp, fh', stored, toFile, toCp')
  <2>1. PutInv(cp, fh, stored, toFile, toCp)
    BY <1>6 DEF FileInv
  <2>2. PutStage(cp, fh', KindsOn(toFile), KindsOn(toCp')) /\ PutOpening(cp, fh', toFile)
    BY <2>1, <1>1, <1>3, <1>5 DEF PutInv, PutStage, PutOpening, Asked
  <2>3. PutSent(cp, fh', KindsOn(toFile))
    BY <2>1, <1>5 DEF PutInv, PutSent, Ended
  <2>4. ASSUME kind = "FIN", FileCanSend PROVE stored = FileSize /\ cp.sent = FileSize /\ cp.pc \in {"result", "done"}
    BY <2>1, <2>4, <1>3 DEF PutInv, PutChain, Taken, PutSent, Ended, FileCanSend
  <2>5. PutWhole(cp, fh', stored, KindsOn(toCp'))
    BY <2>1, <2>4, <1>1, <1>3, <1>5 DEF PutInv, PutWhole
  <2>6. PutChain(cp, fh', stored, toFile)
    BY <1>5 DEF PutChain
  <2> QED
    BY <2>2, <2>3, <2>5, <2>6 DEF PutInv
<1> QED
  BY <1>1, <1>5, <1>6, HandlerSteps DEF FileType

(* filePending.close on a record. *)
LEMMA PendingClosed ==
    ASSUME NEW f \in FhRecord
    PROVE  /\ ClosePending(f) \in FhRecord /\ ClosePending(f).stream = f.stream /\ ClosePending(f).worker = f.worker
           /\ ClosePending(f).run = f.run /\ ~ClosePending(f).entry /\ ClosePending(f).session = f.session
           /\ ClosePending(f).gotFIN = f.gotFIN
           /\ ClosePending(f).pipe = IF f.pipe = "open" THEN "broken" ELSE f.pipe
<1> DEFINE pipe == IF f.pipe = "open" THEN "broken" ELSE f.pipe
           file == IF f.file = "open" THEN "closed" ELSE f.file
<1>1. pipe \in {"none", "eof", "broken"} /\ file \in {"none", "closed"}
  BY DEF FhRecord
<1>2. ClosePending(f) = [f EXCEPT !.entry = FALSE, !.closed = TRUE, !.pipe = pipe, !.file = file]
  BY DEF ClosePending
<1> HIDE DEF pipe, file
<1>3. ClosePending(f).pipe = pipe /\ ClosePending(f) \in FhRecord /\ ClosePending(f).stream = f.stream /\ ClosePending(f).worker = f.worker
           /\ ClosePending(f).run = f.run /\ ~ClosePending(f).entry /\ ClosePending(f).session = f.session
           /\ ClosePending(f).gotFIN = f.gotFIN
  BY <1>1, <1>2 DEF FhRecord
<1> QED
  BY <1>3 DEF pipe

LEMMA FileFinishesKeeps ==
    ASSUME FileInv, FileFinishes
    PROVE  FileInv'
<1> DEFINE g == ClosePending(fh)
           h == [g EXCEPT !.run = "done"]
<1>1. FileType /\ fh.run = "finish" /\ UNCHANGED <<cp, toFile, toCp, stored>> /\ fh' = h
  BY DEF FileInv, FileFinishes
<1>2. /\ g \in FhRecord /\ g.stream = fh.stream /\ g.worker = fh.worker
      /\ ~g.entry /\ g.session = fh.session /\ g.gotFIN = fh.gotFIN
      /\ g.pipe = IF fh.pipe = "open" THEN "broken" ELSE fh.pipe
  BY <1>1, PendingClosed DEF FileType
<1> HIDE DEF g
<1>3. /\ h \in FhRecord /\ h.stream = fh.stream /\ h.worker = fh.worker
      /\ ~h.entry /\ h.session = fh.session /\ h.gotFIN = fh.gotFIN /\ h.pipe = g.pipe /\ h.run = "done"
  BY <1>2 DEF FhRecord
<1> HIDE DEF h
<1>4. ASSUME cp.op = "put" PROVE PutInv(cp, h, stored, toFile, toCp)
  <2>1. PutInv(cp, fh, stored, toFile, toCp)
    BY <1>4 DEF FileInv
  <2>2. PutStage(cp, h, KindsOn(toFile), KindsOn(toCp)) /\ PutOpening(cp, h, toFile)
    BY <2>1, <1>1, <1>2, <1>3 DEF PutInv, PutStage, PutOpening, Asked
  <2>3. PutSent(cp, h, KindsOn(toFile)) /\ PutWhole(cp, h, stored, KindsOn(toCp))
    BY <2>1, <1>1, <1>2, <1>3 DEF PutInv, PutSent, Ended, PutWhole
  <2>4. PutChain(cp, h, stored, toFile)
    BY <1>3 DEF PutChain
  <2> QED
    BY <2>2, <2>3, <2>4 DEF PutInv
<1> QED
  BY <1>1, <1>3, <1>4, HandlerSteps DEF FileType

LEMMA FileWorkerTakesKeeps ==
    ASSUME FileInv, FileWorkerTakes
    PROVE  FileInv'
<1> DEFINE k == Head(toFile).kind
           worker == IF k = "FIN" \/ fh.entry THEN k ELSE fh.worker
           held == IF k = "DAT" THEN Head(toFile).piece ELSE fh.held
           h == [fh EXCEPT !.worker = worker, !.held = held]
           q == Tail(toFile)
<1>1. /\ FileType /\ fh.worker = "idle" /\ fh.stream = "open" /\ ~fh.gotFIN /\ toFile \in Seq(StreamFrame)
      /\ toFile # <<>> /\ k \in {"DAT", "FIN"} /\ UNCHANGED <<cp, toCp, stored>> /\ fh' = h /\ toFile' = q
  BY DEF FileInv, FileType, FileWorkerTakes
<1>2. /\ q \in Seq(StreamFrame) /\ KindsOn(q) \subseteq KindsOn(toFile) /\ Len(q) = Len(toFile) - 1
      /\ Len(toFile) \in Nat /\ k \in KindsOn(toFile) /\ Head(toFile) \in StreamFrame
  BY <1>1, FrameTaken
<1>3. /\ worker \in {"idle", "DAT", "FIN"} /\ held \in Nat /\ (worker = "FIN" => k = "FIN")
      /\ (worker = "DAT" => k = "DAT") /\ (fh.entry => worker = k)
  BY <1>1, <1>2 DEF FileType, FhRecord, StreamFrame
<1>4. k = "DAT" => held = Head(toFile).piece
  OBVIOUS
<1> HIDE DEF worker, held, k, q
<1>5. /\ h \in FhRecord /\ h.stream = fh.stream /\ h.worker = worker /\ h.run = fh.run /\ h.entry = fh.entry
      /\ h.pipe = fh.pipe /\ h.session = fh.session /\ h.buf = fh.buf /\ h.held = held /\ h.gotFIN = fh.gotFIN
  BY <1>1, <1>3 DEF FileType, FhRecord
<1> HIDE DEF h
<1>6. ASSUME cp.op = "put" PROVE PutInv(cp, h, stored, q, toCp)
  <2>1. PutInv(cp, fh, stored, toFile, toCp)
    BY <1>6 DEF FileInv
  <2>2. PutStage(cp, h, KindsOn(q), KindsOn(toCp)) /\ PutOpening(cp, h, q)
    BY <2>1, <1>1, <1>2, <1>3, <1>5 DEF PutInv, PutStage, PutOpening, Asked
  <2>3. PutSent(cp, h, KindsOn(q)) /\ PutWhole(cp, h, stored, KindsOn(toCp))
    BY <2>1, <1>1, <1>2, <1>3, <1>5 DEF PutInv, PutSent, Ended, PutWhole
  <2>4. PutChain(cp, h, stored, q)
    <3> SUFFICES ASSUME fh.stream = "open", fh.run \in {"copy", "store"}
                 PROVE  PutChain(cp, h, stored, q)
      BY <1>5 DEF PutChain
    <3>1. fh.entry /\ fh.pipe = "open" /\ worker = k
      BY <2>1, <1>1, <1>3 DEF PutInv, PutStage
    <3> DEFINE n == Taken(fh, stored)
    <3>2. n \in Nat /\ Reached(fh, stored) = n /\ Taken(h, stored) = n /\ Numbered(toFile, n)
      BY <2>1, <3>1, <1>1, <1>5 DEF PutInv, PutChain, Taken, Reached, FileType, FhRecord
    <3> HIDE DEF n
    <3>3. Numbered(q, n + 1) /\ (k = "DAT" => held = n + 1) /\ (k = "FIN" => n = FileSize)
      BY <3>2, <1>1, <1>4, FrameTaken DEF q, k
    <3>4. k = "DAT" => Reached(h, stored) = n + 1
      BY <3>1, <3>3, <1>5 DEF Reached
    <3>5. cp.pc \in {"await", "pump"} => k = "DAT"
      BY <2>1, <1>1, <1>2 DEF PutInv, PutSent, Ended
    <3>6. cp.pc \in {"await", "pump"} /\ cp.stream = "live" /\ fh.session = "open" => Reached(h, stored) + Len(q) = cp.sent
      BY <2>1, <3>2, <3>4, <3>5, <1>2 DEF PutInv, PutChain
    <3>7. /\ fh.run = "store" => fh.buf = stored + 1
      BY <2>1 DEF PutInv, PutChain
    <3> QED
      BY <3>1, <3>2, <3>3, <3>4, <3>6, <3>7, <1>1, <1>5 DEF PutChain
  <2> QED
    BY <2>2, <2>3, <2>4 DEF PutInv
<1> QED
  BY <1>1, <1>2, <1>5, <1>6, HandlerSteps DEF FileType

(* Nothing more comes through a stream that is gone. *)
LEMMA GoneKeeps ==
    ASSUME NEW c \in CpRecord, NEW d \in CpRecord, NEW h \in FhRecord, NEW g \in FhRecord, NEW n \in Nat,
           NEW q \in Seq(StreamFrame), NEW p \in Seq(StreamFrame),
           NEW b \in Seq(StreamFrame), NEW a \in Seq(StreamFrame),
           PutInv(c, h, n, q, b),
           d.pc = c.pc, d.sent = c.sent, d.outcome = c.outcome,
           g.stream = "gone", g.run = h.run, g.worker \in {h.worker, "idle"}, g.gotFIN = h.gotFIN,
           g.entry => h.entry, g.pipe # h.pipe => h.entry /\ g.pipe = "broken",
           KindsOn(p) \subseteq KindsOn(q), Len(p) <= Len(q),
           KindsOn(a) \subseteq KindsOn(b) \cup {"RESET"}
    PROVE  PutInv(d, g, n, p, a)
<1>1. Len(p) \in Nat /\ Len(q) \in Nat
  OBVIOUS
<1>2. PutStage(d, g, KindsOn(p), KindsOn(a))
  BY DEF PutInv, PutStage, Asked
<1>3. PutOpening(d, g, p)
  BY <1>1 DEF PutInv, PutOpening
<1>4. PutSent(d, g, KindsOn(p))
  BY DEF PutInv, PutSent, Ended
<1>5. PutChain(d, g, n, p)
  BY DEF PutChain
<1>6. PutWhole(d, g, n, KindsOn(a))
  BY DEF PutInv, PutWhole
<1> QED
  BY <1>2, <1>3, <1>4, <1>5, <1>6 DEF PutInv

LEMMA FileAborted ==
    ASSUME NEW f \in FhRecord
    PROVE  /\ AbortFile(f) \in FhRecord /\ AbortFile(f).stream = "gone" /\ AbortFile(f).worker = f.worker
           /\ AbortFile(f).run = f.run /\ AbortFile(f).gotFIN = f.gotFIN /\ AbortFile(f).session = f.session
           /\ AbortFile(f).entry => f.entry
           /\ AbortFile(f).pipe # f.pipe => f.entry /\ AbortFile(f).pipe = "broken"
<1> DEFINE g == ClosePending(f)
<1>1. /\ g \in FhRecord /\ g.worker = f.worker /\ g.run = f.run /\ g.gotFIN = f.gotFIN /\ g.session = f.session
      /\ ~g.entry /\ g.pipe = IF f.pipe = "open" THEN "broken" ELSE f.pipe
  BY PendingClosed
<1> HIDE DEF g
<1>2. CASE f.entry
  <2>1. AbortFile(f) = [g EXCEPT !.stream = "gone"]
    BY <1>2 DEF AbortFile, g
  <2> QED
    BY <1>1, <1>2, <2>1 DEF FhRecord
<1>3. CASE ~f.entry
  <2>1. AbortFile(f) = [f EXCEPT !.stream = "gone"]
    BY <1>3 DEF AbortFile
  <2> QED
    BY <1>3, <2>1 DEF FhRecord
<1> QED
  BY <1>2, <1>3

LEMMA FileGoneKeeps ==
    ASSUME FileInv, FileDatEnds \/ FileReset \/ FileIgnores
    PROVE  FileInv'
<1>1. /\ FileType /\ cp \in CpRecord /\ fh \in FhRecord /\ stored \in Nat
      /\ toFile \in Seq(StreamFrame) /\ toCp \in Seq(StreamFrame)
  BY DEF FileInv, FileType
<1>2. UNCHANGED <<cp, stored>>
  BY DEF FileDatEnds, FileReset, FileIgnores
<1>3. ASSUME fh' \in FhRecord, fh'.stream = "gone", fh'.run = fh.run, fh'.worker \in {fh.worker, "idle"},
             fh'.gotFIN = fh.gotFIN, fh'.entry => fh.entry, fh'.pipe # fh.pipe => fh.entry /\ fh'.pipe = "broken",
             toFile' \in Seq(StreamFrame), KindsOn(toFile') \subseteq KindsOn(toFile), Len(toFile') <= Len(toFile),
             toCp' \in Seq(StreamFrame), KindsOn(toCp') \subseteq KindsOn(toCp) \cup {"RESET"}
      PROVE  FileInv'
  <2>1. cp.op = "put" => PutInv(cp, fh', stored, toFile', toCp')
    BY <1>1, <1>3, GoneKeeps DEF FileInv
  <2> QED
    BY <1>1, <1>2, <1>3, <2>1, HandlerSteps
<1>4. CASE FileDatEnds
  <2> DEFINE h == [fh EXCEPT !.worker = "idle", !.stream = "gone"]
  <2>1. fh' = h /\ toFile' = toFile /\ (toCp' = toCp \/ toCp' = Append(toCp, Signal("RESET")))
    BY <1>4 DEF FileDatEnds
  <2>2. /\ h \in FhRecord /\ h.stream = "gone" /\ h.run = fh.run /\ h.worker = "idle" /\ h.gotFIN = fh.gotFIN
        /\ h.entry = fh.entry /\ h.pipe = fh.pipe
    BY <1>1 DEF FhRecord
  <2> HIDE DEF h
  <2>3. Signal("RESET") \in StreamFrame /\ Signal("RESET").kind = "RESET"
    BY Signals
  <2>4. toCp' \in Seq(StreamFrame) /\ KindsOn(toCp') \subseteq KindsOn(toCp) \cup {"RESET"}
    BY <1>1, <2>1, <2>3, FrameSent
  <2>5. Len(toFile) \in Nat /\ Len(toFile) <= Len(toFile)
    BY <1>1
  <2> QED
    BY <1>1, <1>3, <2>1, <2>2, <2>4, <2>5
<1>5. CASE FileReset
  <2>1. /\ AbortFile(fh) \in FhRecord /\ AbortFile(fh).stream = "gone" /\ AbortFile(fh).worker = fh.worker
        /\ AbortFile(fh).run = fh.run /\ AbortFile(fh).gotFIN = fh.gotFIN
        /\ AbortFile(fh).entry => fh.entry
        /\ AbortFile(fh).pipe # fh.pipe => fh.entry /\ AbortFile(fh).pipe = "broken"
    BY <1>1, FileAborted
  <2>2. fh' = AbortFile(fh) \/ (fh' = fh /\ fh.stream = "gone")
    BY <1>1, <1>5 DEF FileReset, FhRecord
  <2>3. toFile' = <<>> /\ toCp' = toCp
    BY <1>5 DEF FileReset
  <2>4. Len(toFile) \in Nat
    BY <1>1
  <2> QED
    BY <1>1, <1>3, <2>1, <2>2, <2>3, <2>4, EmptyQueue
<1>6. CASE FileIgnores
  <2>1. fh' = fh /\ fh.stream = "gone" /\ toFile # <<>> /\ toFile' = Tail(toFile) /\ toCp' = toCp
    BY <1>6 DEF FileIgnores
  <2>2. Tail(toFile) \in Seq(StreamFrame) /\ KindsOn(Tail(toFile)) \subseteq KindsOn(toFile) /\ Len(Tail(toFile)) <= Len(toFile)
    BY <1>1, <2>1, FrameTaken
  <2> QED
    BY <1>1, <1>3, <2>1, <2>2
<1> QED
  BY <1>4, <1>5, <1>6

LEMMA FileFinArrivesKeeps ==
    ASSUME FileInv, FileFinArrives
    PROVE  FileInv'
<1> DEFINE pipe == IF fh.entry /\ fh.pipe = "open" THEN "eof" ELSE fh.pipe
           g == [fh EXCEPT !.worker = "idle", !.gotFIN = TRUE, !.pipe = pipe]
           w == [g EXCEPT !.stream = "gone"]
<1>1. FileType /\ fh.worker = "FIN" /\ UNCHANGED <<cp, toFile, toCp, stored>> /\ fh' = FileFinished(g)
  BY DEF FileInv, FileFinArrives
<1>2. /\ pipe \in {"none", "open", "eof", "broken"} /\ (pipe # fh.pipe => fh.entry /\ fh.pipe = "open" /\ pipe = "eof")
      /\ (fh.entry => pipe # "open")
  BY <1>1 DEF FileType, FhRecord
<1> HIDE DEF pipe
<1>3. /\ g \in FhRecord /\ g.stream = fh.stream /\ g.run = fh.run /\ g.worker = "idle" /\ g.gotFIN /\ g.entry = fh.entry
      /\ g.pipe = pipe /\ g.session = fh.session /\ g.buf = fh.buf /\ g.held = fh.held
  BY <1>1, <1>2 DEF FileType, FhRecord
<1> HIDE DEF g
<1>4. /\ w \in FhRecord /\ w.stream = "gone" /\ w.run = g.run /\ w.worker = "idle" /\ w.gotFIN = g.gotFIN /\ w.entry = g.entry
      /\ w.pipe = g.pipe
  BY <1>3 DEF FhRecord
<1>5. fh' = g \/ fh' = w
  BY <1>1 DEF FileFinished
<1> HIDE DEF w
<1>6. ASSUME cp.op = "put" PROVE PutInv(cp, g, stored, toFile, toCp)
  <2>1. PutInv(cp, fh, stored, toFile, toCp)
    BY <1>6 DEF FileInv
  <2>2. PutStage(cp, g, KindsOn(toFile), KindsOn(toCp)) /\ PutOpening(cp, g, toFile)
    BY <2>1, <1>1, <1>2, <1>3 DEF PutInv, PutStage, PutOpening, Asked
  <2>3. PutSent(cp, g, KindsOn(toFile)) /\ PutWhole(cp, g, stored, KindsOn(toCp))
    BY <2>1, <1>1, <1>2, <1>3 DEF PutInv, PutSent, Ended, PutWhole
  <2>4. PutChain(cp, g, stored, toFile)
    BY <2>1, <1>1, <1>2, <1>3 DEF PutInv, PutStage, PutSent, Ended, PutChain, Taken, Reached
  <2> QED
    BY <2>2, <2>3, <2>4 DEF PutInv
<1>7. cp.op = "put" => PutInv(cp, w, stored, toFile, toCp)
  <2>1. Len(toFile) \in Nat /\ Len(toFile) <= Len(toFile)
    BY <1>1 DEF FileType
  <2> QED
    BY <1>1, <1>3, <1>4, <1>6, <2>1, GoneKeeps DEF FileType
<1> QED
  BY <1>1, <1>3, <1>4, <1>5, <1>6, <1>7, HandlerSteps DEF FileType

LEMMA FileSessionLostKeeps ==
    ASSUME FileInv, FileSessionLost
    PROVE  FileInv'
<1> DEFINE stream == IF cp.stream = "live" THEN "failed" ELSE cp.stream
           d == [cp EXCEPT !.stream = stream]
           f == AbortFile(fh)
           g == [f EXCEPT !.session = "lost"]
<1>1. /\ FileType /\ cp \in CpRecord /\ fh \in FhRecord /\ stored \in Nat
      /\ toFile \in Seq(StreamFrame) /\ toCp \in Seq(StreamFrame) /\ Len(toFile) \in Nat
  BY DEF FileInv, FileType
<1>2. cp' = d /\ fh' = g /\ toFile' = <<>> /\ stored' = stored
  BY DEF FileSessionLost
<1>3. PICK k \in 0..Len(toCp) : toCp' = SubSeq(toCp, 1, k)
  BY DEF FileSessionLost
<1>4. toCp' \in Seq(StreamFrame) /\ KindsOn(toCp') \subseteq KindsOn(toCp)
  BY <1>1, <1>3, FramesKept
<1>5. stream \in {"failed", "closed"}
  BY <1>1 DEF CpRecord
<1> HIDE DEF stream
<1>6. d \in CpRecord /\ d.op = cp.op /\ d.pc = cp.pc /\ d.sent = cp.sent /\ d.outcome = cp.outcome
  BY <1>1, <1>5 DEF CpRecord
<1>7. /\ f \in FhRecord /\ f.stream = "gone" /\ f.worker = fh.worker /\ f.run = fh.run /\ f.gotFIN = fh.gotFIN
      /\ f.entry => fh.entry
      /\ f.pipe # fh.pipe => fh.entry /\ f.pipe = "broken"
  BY <1>1, FileAborted
<1> HIDE DEF f
<1>8. /\ g \in FhRecord /\ g.stream = "gone" /\ g.worker = fh.worker /\ g.run = fh.run /\ g.gotFIN = fh.gotFIN
      /\ g.entry = f.entry /\ g.pipe = f.pipe
  BY <1>7 DEF FhRecord
<1> HIDE DEF d, g
<1>9. FileType'
  BY <1>1, <1>2, <1>4, <1>6, <1>8, EmptyQueue DEF FileType
<1>10. cp.op = "put" => PutInv(d, g, stored, <<>>, toCp')
  <2> SUFFICES ASSUME cp.op = "put" PROVE PutInv(d, g, stored, <<>>, toCp')
    OBVIOUS
  <2>1. PutInv(cp, fh, stored, toFile, toCp)
    BY DEF FileInv
  <2>2. /\ g.worker \in {fh.worker, "idle"}
        /\ g.entry => fh.entry
        /\ g.pipe # fh.pipe => fh.entry /\ g.pipe = "broken"
    BY <1>7, <1>8
  <2>3. /\ <<>> \in Seq(StreamFrame)
        /\ KindsOn(<<>>) \subseteq KindsOn(toFile)
        /\ Len(<<>>) <= Len(toFile)
    BY <1>1, EmptyQueue
  <2>4. KindsOn(toCp') \subseteq KindsOn(toCp) \cup {"RESET"}
    BY <1>4
  <2> QED
    BY <1>1, <1>4, <1>6, <1>8, <2>1, <2>2, <2>3, <2>4, GoneKeeps
<1> QED
  BY <1>2, <1>6, <1>9, <1>10 DEF FileInv

LEMMA FileInitInv == FileInit => FileInv
<1> SUFFICES ASSUME FileInit PROVE FileInv
  OBVIOUS
<1>1. PICK op \in {"get", "put", "touch", "list"} :
        cp = [op |-> op, pc |-> "open", stream |-> "live", sent |-> 0, got |-> 0, outcome |-> "none"]
  BY DEF FileInit
<1>2. cp \in CpRecord
  BY <1>1 DEF CpRecord
<1>3. fh \in FhRecord /\ stored \in Nat /\ toFile = <<>> /\ toCp = <<>>
  BY FileAssumption DEF FileInit, FhRecord
<1>4. FileType
  BY <1>2, <1>3, EmptyQueue DEF FileType
<1>5. PutInv(cp, fh, stored, toFile, toCp)
  <2>1. cp.pc = "open" /\ cp.sent = 0 /\ cp.outcome = "none"
    BY <1>1
  <2>2. fh.stream = "none" /\ fh.worker = "idle" /\ fh.run = "none" /\ fh.pipe = "none" /\ ~fh.entry
    BY DEF FileInit
  <2> QED
    BY <1>3, <2>1, <2>2, EmptyQueue, FileAssumption
    DEF PutInv, PutStage, PutOpening, PutSent, PutChain, PutWhole, Asked, Ended
<1> QED
  BY <1>4, <1>5 DEF FileInv

LEMMA FileStepInv == FileInv /\ [FileNext]_fileVars => FileInv'
<1> SUFFICES ASSUME FileInv, [FileNext]_fileVars PROVE FileInv'
  OBVIOUS
<1>1. CASE UNCHANGED fileVars
  BY <1>1 DEF fileVars, FileInv, FileType
<1>2. CASE FileStep
  BY <1>2, FileAdmitKeeps, FileRefusesKeeps, PutOpensKeeps, OthersKeep, PutTakesKeeps, PutStoresKeeps,
     PutAnswersKeeps, FileFinishesKeeps, FileWorkerTakesKeeps, FileGoneKeeps, FileFinArrivesKeeps DEF FileStep
<1> QED
  BY <1>1, <1>2, CpStepKeeps, FileSessionLostKeeps DEF FileNext

(* An upload reported as done is whole, for files of every size: whatever  *)
(* was reset, refused or lost, and however the pumping connector, the      *)
(* stream's worker and io.Copy interleave (Session.Put, FileHandler.OnDAT, *)
(* OnFIN and handlePut).                                                   *)
THEOREM UploadIsWhole == FileSpec => []PutIsWhole
<1>1. FileInv => PutIsWhole
  BY DEF FileInv, PutInv, PutWhole, PutIsWhole
<1> QED
  BY <1>1, FileInitInv, FileStepInv, PTL DEF FileSpec

-----------------------------------------------------------------------------
(* The web stream's body as a pipe.                                        *)

PageRecord ==
    [kind : {"proxy", "local", "websocket"}, body : BOOLEAN, dispatched : BOOLEAN,
     sent : Nat, end : {"open", "finished"}, left : BOOLEAN]

HhRecord ==
    [stream : {"none", "open", "gone"}, session : {"open", "lost"}, worker : {"idle", "syn", "DAT", "FIN"},
     held : Nat, entry : BOOLEAN, cancelled : BOOLEAN, pipe : {"none", "open", "eof", "broken"},
     run : {"none", "sniff", "ask", "do", "reply", "finish", "done", "dial", "bridge", "unbridge"},
     head : Nat, conn : {"none", "open", "closed"},
     sentFIN : BOOLEAN, gotFIN : BOOLEAN, late : BOOLEAN]

OriginRecord == [got : Nat, eof : BOOLEAN, sent : Nat]

HttpType ==
    /\ page \in PageRecord /\ hh \in HhRecord /\ origin \in OriginRecord
    /\ toHttp \in Seq(StreamFrame)

(* The goroutine that may still read the body, or the messages. *)
Peeking(h) == h.run \in {"sniff", "ask"}
Reading(h) == h.run \in {"sniff", "ask", "do", "reply", "dial", "bridge", "unbridge"}

(* What has been read, peeked at or passed on. *)
BodyRead(h, o) == IF o.got < h.head THEN h.head ELSE o.got

(* Which steps of a stream come before which. *)
HttpStage(pg, h, o) ==
    /\ h.stream = "none" \/ h.worker = "syn" => h.run = "none"
    /\ h.stream = "none" => h.worker = "idle"
    /\ h.run = "none" => ~h.entry /\ h.pipe = "none" /\ o.got = 0 /\ ~o.eof /\ h.head = 0
    /\ h.run = "none" => h.conn = "none" /\ h.worker # "DAT"
    /\ Peeking(h) => o.got = 0 /\ ~o.eof
    /\ o.eof => ~(o.got < h.head)
    /\ pg.kind = "websocket" =>
         /\ h.run \in {"none", "dial", "bridge", "unbridge", "done"}
         /\ h.head = 0 /\ ~o.eof /\ h.pipe = "none"
    /\ pg.kind # "websocket" => h.run \notin {"dial", "bridge", "unbridge"}
    /\ Reading(h) /\ h.stream = "open" /\ ~h.gotFIN => h.entry
    /\ h.conn = "open" => h.run \in {"bridge", "unbridge"}

(* The frames of a stream are numbered: its SYN 0, the body's pieces from  *)
(* 1, the FIN after the last piece.  Due is the number of the next frame   *)
(* for the worker.                                                         *)
Due(h, o) ==
    IF h.stream = "none" THEN 0 ELSE IF h.worker = "DAT" THEN h.held + 1 ELSE BodyRead(h, o) + 1

FramesDue(pg, q, k) ==
    \A i \in 1..Len(q) :
        /\ q[i].kind = "SYN" => k + i = 1
        /\ q[i].kind = "DAT" => q[i].piece + 1 = k + i /\ q[i].piece <= pg.sent
        /\ q[i].kind = "FIN" => k + i = pg.sent + 2 /\ pg.end = "finished"

Receiving(h) ==
    \/ h.stream = "none" /\ h.session = "open"
    \/ h.stream = "open" /\ ~h.gotFIN /\ h.worker # "FIN" /\ (h.worker = "syn" \/ Reading(h))

(* Nothing is missing between what was read and what the page sent. *)
HttpChain(pg, q, h, o) ==
    Receiving(h) =>
        /\ FramesDue(pg, q, Due(h, o))
        /\ pg.end = "open" /\ ~pg.left => Due(h, o) + Len(q) = pg.sent + 1

HttpEnded(pg, h, o) ==
    /\ BodyRead(h, o) <= pg.sent
    /\ Reading(h) /\ h.worker = "DAT" => h.held = BodyRead(h, o) + 1 /\ h.held <= pg.sent
    /\ Reading(h) /\ (h.worker = "FIN" \/ h.pipe = "eof") => BodyRead(h, o) = pg.sent /\ pg.end = "finished"

WebInv(pg, q, h, o) == HttpStage(pg, h, o) /\ HttpChain(pg, q, h, o) /\ HttpEnded(pg, h, o)

HttpInv == HttpType /\ WebInv(page, toHttp, hh, origin)

LEMMA PendingFields ==
    ASSUME NEW h \in HhRecord
    PROVE  LET g == ClosedPending(h) IN
           /\ g \in HhRecord /\ ~g.entry /\ g.conn # "open"
           /\ h.conn = "none" => g.conn = "none"
           /\ g.pipe = h.pipe \/ (h.pipe = "open" /\ g.pipe = "broken")
           /\ g.stream = h.stream /\ g.session = h.session /\ g.worker = h.worker /\ g.held = h.held
           /\ g.run = h.run /\ g.head = h.head
           /\ g.sentFIN = h.sentFIN /\ g.gotFIN = h.gotFIN
<1> DEFINE pipe == IF h.pipe = "open" THEN "broken" ELSE h.pipe
           conn == IF h.conn = "open" THEN "closed" ELSE h.conn
           g == [h EXCEPT !.entry = FALSE, !.cancelled = TRUE, !.pipe = pipe, !.conn = conn]
<1>1. ClosedPending(h) = g
  BY DEF ClosedPending
<1>2. pipe \in {"none", "eof", "broken"} /\ conn \in {"none", "closed"}
  BY DEF HhRecord
<1>3. /\ pipe = h.pipe \/ (h.pipe = "open" /\ pipe = "broken")
      /\ h.conn = "none" => conn = "none"
  OBVIOUS
<1> HIDE DEF pipe, conn
<1>4. /\ g \in HhRecord /\ ~g.entry /\ g.conn = conn /\ g.pipe = pipe
      /\ g.stream = h.stream /\ g.session = h.session /\ g.worker = h.worker /\ g.held = h.held
      /\ g.run = h.run /\ g.head = h.head
      /\ g.sentFIN = h.sentFIN /\ g.gotFIN = h.gotFIN
  BY <1>2 DEF HhRecord
<1> QED
  BY <1>1, <1>2, <1>3, <1>4

LEMMA AbortedFields ==
    ASSUME NEW h \in HhRecord
    PROVE  LET g == AbortRequest(h) IN
           /\ g \in HhRecord /\ g.stream = "gone"
           /\ g.pipe = h.pipe \/ (h.pipe = "open" /\ g.pipe = "broken")
           /\ g.session = h.session /\ g.worker = h.worker /\ g.held = h.held
           /\ g.run = h.run /\ g.head = h.head
           /\ g.sentFIN = h.sentFIN /\ g.gotFIN = h.gotFIN
           /\ g.entry => h.entry
           /\ g.conn = "open" => h.conn = "open"
           /\ h.conn = "none" => g.conn = "none"
<1> DEFINE c == ClosedPending(h)
<1>1. /\ c \in HhRecord /\ ~c.entry /\ c.conn # "open"
      /\ h.conn = "none" => c.conn = "none"
      /\ c.pipe = h.pipe \/ (h.pipe = "open" /\ c.pipe = "broken")
      /\ c.session = h.session /\ c.worker = h.worker /\ c.held = h.held
      /\ c.run = h.run /\ c.head = h.head
      /\ c.sentFIN = h.sentFIN /\ c.gotFIN = h.gotFIN
  BY PendingFields
<1> HIDE DEF c
<1> DEFINE a == [c EXCEPT !.stream = "gone"]
           b == [h EXCEPT !.stream = "gone"]
<1>2. /\ a \in HhRecord /\ a.stream = "gone" /\ a.entry = c.entry /\ a.conn = c.conn /\ a.pipe = c.pipe
      /\ a.session = c.session /\ a.worker = c.worker /\ a.held = c.held
      /\ a.run = c.run /\ a.head = c.head
      /\ a.sentFIN = c.sentFIN /\ a.gotFIN = c.gotFIN
  BY <1>1 DEF HhRecord
<1>3. /\ b \in HhRecord /\ b.stream = "gone" /\ b.entry = h.entry /\ b.conn = h.conn /\ b.pipe = h.pipe
      /\ b.session = h.session /\ b.worker = h.worker /\ b.held = h.held
      /\ b.run = h.run /\ b.head = h.head
      /\ b.sentFIN = h.sentFIN /\ b.gotFIN = h.gotFIN
  BY DEF HhRecord
<1>4. AbortRequest(h) = a \/ AbortRequest(h) = b
  BY DEF AbortRequest, c
<1> HIDE DEF a, b
<1>5. CASE AbortRequest(h) = a
  BY <1>1, <1>2, <1>5
<1>6. CASE AbortRequest(h) = b
  BY <1>3, <1>6
<1> QED
  BY <1>4, <1>5, <1>6

LEMMA FinishedFields ==
    ASSUME NEW h \in HhRecord
    PROVE  LET g == HttpFinished(h) IN
           /\ g \in HhRecord /\ g.stream \in {h.stream, "gone"}
           /\ g.pipe = h.pipe /\ g.entry = h.entry /\ g.conn = h.conn
           /\ g.session = h.session /\ g.worker = h.worker /\ g.held = h.held
           /\ g.run = h.run /\ g.head = h.head
           /\ g.sentFIN = h.sentFIN /\ g.gotFIN = h.gotFIN
<1> DEFINE b == [h EXCEPT !.stream = "gone"]
<1>1. /\ b \in HhRecord /\ b.stream = "gone" /\ b.entry = h.entry /\ b.conn = h.conn /\ b.pipe = h.pipe
      /\ b.session = h.session /\ b.worker = h.worker /\ b.held = h.held
      /\ b.run = h.run /\ b.head = h.head
      /\ b.sentFIN = h.sentFIN /\ b.gotFIN = h.gotFIN
  BY DEF HhRecord
<1>2. HttpFinished(h) = b \/ HttpFinished(h) = h
  BY DEF HttpFinished
<1> HIDE DEF b
<1>3. CASE HttpFinished(h) = b
  BY <1>1, <1>3
<1>4. CASE HttpFinished(h) = h
  BY <1>4
<1> QED
  BY <1>2, <1>3, <1>4

(* Once the goroutine reads no more, nothing is promised of the frames. *)
LEMMA ReadNoMore ==
    ASSUME NEW pg \in PageRecord, NEW q \in Seq(StreamFrame), NEW h \in HhRecord, NEW o \in OriginRecord,
           WebInv(pg, q, h, o), h.run # "none",
           NEW g \in HhRecord, NEW r \in OriginRecord,
           g.run \in {"finish", "done"}, pg.kind = "websocket" => g.run = "done",
           g.stream \in {h.stream, "gone"}, g.worker = h.worker, g.conn # "open",
           g.head = h.head, r.got = o.got, r.eof = o.eof,
           g.pipe = h.pipe \/ (h.pipe = "open" /\ g.pipe = "broken")
    PROVE  WebInv(pg, q, g, r)
<1>1. g.stream # "none" /\ g.worker # "syn"
  BY DEF WebInv, HttpStage
<1>2. HttpStage(pg, g, r)
  BY <1>1 DEF WebInv, HttpStage, Peeking, Reading
<1>3. HttpChain(pg, q, g, r)
  BY <1>1 DEF HttpChain, Receiving, Reading
<1>4. BodyRead(g, r) = BodyRead(h, o) /\ BodyRead(h, o) <= pg.sent
  BY DEF BodyRead, WebInv, HttpEnded
<1>5. HttpEnded(pg, g, r)
  BY <1>4 DEF HttpEnded, Reading
<1> QED
  BY <1>2, <1>3, <1>5 DEF WebInv

(* A stream that is aborted delivers at most what its worker holds. *)
LEMMA AbortKeeps ==
    ASSUME NEW pg \in PageRecord, NEW q \in Seq(StreamFrame), NEW p \in Seq(StreamFrame),
           NEW h \in HhRecord, NEW o \in OriginRecord, NEW g \in HhRecord,
           WebInv(pg, q, h, o), h.stream # "none", g.stream = "gone",
           g.worker \in {h.worker, "idle"}, g.held = h.held,
           g.run = h.run, g.head = h.head,
           g.pipe = h.pipe \/ (h.pipe = "open" /\ g.pipe = "broken"),
           g.entry => h.entry, g.conn = "open" => h.conn = "open", h.conn = "none" => g.conn = "none"
    PROVE  WebInv(pg, p, g, o)
<1>1. HttpStage(pg, g, o)
  BY DEF WebInv, HttpStage, Peeking, Reading
<1>2. HttpChain(pg, p, g, o)
  BY DEF HttpChain, Receiving
<1>3. HttpEnded(pg, g, o)
  BY DEF WebInv, HttpEnded, BodyRead, Peeking, Reading
<1> QED
  BY <1>1, <1>2, <1>3 DEF WebInv

LEMMA WebTypes ==
    ASSUME HttpInv
    PROVE  /\ page \in PageRecord /\ hh \in HhRecord /\ origin \in OriginRecord /\ toHttp \in Seq(StreamFrame)
           /\ WebInv(page, toHttp, hh, origin)
           /\ page.sent \in Nat /\ hh.head \in Nat /\ hh.held \in Nat /\ origin.got \in Nat
           /\ Due(hh, origin) \in Nat /\ Len(toHttp) \in Nat
<1>1. page \in PageRecord /\ hh \in HhRecord /\ origin \in OriginRecord /\ toHttp \in Seq(StreamFrame)
  BY DEF HttpInv, HttpType
<1>2. page.sent \in Nat /\ hh.head \in Nat /\ hh.held \in Nat /\ origin.got \in Nat /\ Len(toHttp) \in Nat
  BY <1>1 DEF PageRecord, HhRecord, OriginRecord
<1>3. Due(hh, origin) \in Nat
  BY <1>2 DEF Due, BodyRead
<1> QED
  BY <1>1, <1>2, <1>3 DEF HttpInv

-----------------------------------------------------------------------------
(* The page.                                                               *)

LEMMA PageSendsKeeps ==
    ASSUME HttpInv, PageSends
    PROVE  HttpInv'
<1> DEFINE pg == [page EXCEPT !.sent = page.sent + 1]
           f == Data(page.sent + 1)
           q == Append(toHttp, f)
           k == Due(hh, origin)
<1>1. /\ page \in PageRecord /\ hh \in HhRecord /\ origin \in OriginRecord /\ toHttp \in Seq(StreamFrame)
      /\ WebInv(page, toHttp, hh, origin)
      /\ page.sent \in Nat /\ k \in Nat /\ Len(toHttp) \in Nat
  BY WebTypes
<1>2. page' = pg /\ toHttp' = q /\ hh' = hh /\ origin' = origin /\ page.end = "open" /\ ~page.left
  BY DEF PageSends
<1>3. /\ pg \in PageRecord /\ pg.sent = page.sent + 1 /\ pg.end = page.end /\ pg.left = page.left
      /\ pg.kind = page.kind
  BY <1>1 DEF PageRecord
<1>4. f \in StreamFrame /\ f.kind = "DAT" /\ f.piece = page.sent + 1
  BY <1>1 DEF StreamFrame, Data
<1>5. q \in Seq(StreamFrame) /\ Len(q) = Len(toHttp) + 1
      /\ \A i \in 1..Len(toHttp) + 1 : q[i] = IF i = Len(toHttp) + 1 THEN f ELSE toHttp[i]
  BY <1>1, <1>4
<1> HIDE DEF pg, f, q, k
<1>6. HttpStage(pg, hh, origin)
  BY <1>1, <1>3 DEF WebInv, HttpStage
<1>7. BodyRead(hh, origin) \in Nat
  BY <1>1 DEF BodyRead, HhRecord, OriginRecord
<1>8. HttpEnded(pg, hh, origin)
  <2>1. /\ BodyRead(hh, origin) <= page.sent
        /\ Reading(hh) /\ hh.worker = "DAT" => hh.held = BodyRead(hh, origin) + 1 /\ hh.held <= page.sent
        /\ ~(Reading(hh) /\ (hh.worker = "FIN" \/ hh.pipe = "eof"))
    BY <1>1, <1>2 DEF WebInv, HttpEnded
  <2> QED
    BY <1>1, <1>3, <1>7, <2>1 DEF HttpEnded
<1>9. HttpChain(pg, q, hh, origin)
  <2> SUFFICES ASSUME Receiving(hh)
               PROVE  FramesDue(pg, q, k) /\ k + Len(q) = pg.sent + 1
    BY DEF HttpChain, k
  <2>1. FramesDue(page, toHttp, k) /\ k + Len(toHttp) = page.sent + 1
    BY <1>1, <1>2 DEF WebInv, HttpChain, k
  <2>2. ASSUME NEW i \in 1..Len(q)
        PROVE  /\ q[i].kind = "SYN" => k + i = 1
               /\ q[i].kind = "DAT" => q[i].piece + 1 = k + i /\ q[i].piece <= pg.sent
               /\ q[i].kind = "FIN" => k + i = pg.sent + 2 /\ pg.end = "finished"
    <3>1. CASE i = Len(toHttp) + 1
      BY <1>1, <1>3, <1>4, <1>5, <2>1, <3>1
    <3>2. CASE i # Len(toHttp) + 1
      <4>1. i \in 1..Len(toHttp) /\ q[i] = toHttp[i] /\ toHttp[i] \in StreamFrame
        BY <1>1, <1>5, <3>2
      <4>2. /\ toHttp[i].kind = "SYN" => k + i = 1
            /\ toHttp[i].kind = "DAT" => toHttp[i].piece + 1 = k + i /\ toHttp[i].piece <= page.sent
            /\ toHttp[i].kind # "FIN"
        BY <1>2, <2>1, <4>1 DEF FramesDue
      <4>3. toHttp[i].piece \in Nat
        BY <4>1 DEF StreamFrame
      <4> QED
        BY <1>1, <1>3, <4>1, <4>2, <4>3
    <3> QED
      BY <3>1, <3>2
  <2>3. FramesDue(pg, q, k)
    BY <2>2 DEF FramesDue
  <2>4. k + Len(q) = pg.sent + 1
    BY <1>1, <1>3, <1>5, <2>1
  <2> QED
    BY <2>3, <2>4
<1> QED
  BY <1>1, <1>2, <1>3, <1>5, <1>6, <1>8, <1>9 DEF HttpInv, HttpType, WebInv

LEMMA PageEndsKeeps ==
    ASSUME HttpInv, PageFinishes \/ PageAborts
    PROVE  HttpInv'
<1> DEFINE pg == IF PageFinishes THEN [page EXCEPT !.end = "finished"] ELSE [page EXCEPT !.left = TRUE]
           f == IF PageFinishes THEN Signal("FIN") ELSE Signal("RESET")
           q == Append(toHttp, f)
           k == Due(hh, origin)
<1>1. /\ page \in PageRecord /\ hh \in HhRecord /\ origin \in OriginRecord /\ toHttp \in Seq(StreamFrame)
      /\ WebInv(page, toHttp, hh, origin)
      /\ page.sent \in Nat /\ k \in Nat /\ Len(toHttp) \in Nat
  BY WebTypes
<1>2. page' = pg /\ toHttp' = q /\ hh' = hh /\ origin' = origin /\ ~page.left
  BY DEF PageFinishes, PageAborts
<1>3. /\ pg \in PageRecord /\ pg.sent = page.sent /\ pg.kind = page.kind
      /\ page.end = "finished" => pg.end = "finished"
      /\ pg.end = "finished" \/ pg.left
  <2>1. CASE PageFinishes
    BY <1>1, <2>1 DEF PageRecord, PageFinishes
  <2>2. CASE ~PageFinishes
    BY <1>1, <2>2 DEF PageRecord
  <2> QED
    BY <2>1, <2>2
<1>4. /\ f \in StreamFrame /\ f.kind \in {"FIN", "RESET"}
      /\ f.kind = "FIN" => page.end = "open" /\ pg.end = "finished"
  <2>1. Signal("FIN") \in StreamFrame /\ Signal("RESET") \in StreamFrame
        /\ Signal("FIN").kind = "FIN" /\ Signal("RESET").kind = "RESET"
    BY DEF StreamFrame, Signal
  <2>2. CASE PageFinishes
    BY <1>1, <2>1, <2>2 DEF PageRecord, PageFinishes
  <2>3. CASE ~PageFinishes
    BY <2>1, <2>3
  <2> QED
    BY <2>2, <2>3
<1> HIDE DEF pg, f
<1>5. q \in Seq(StreamFrame) /\ Len(q) = Len(toHttp) + 1
      /\ \A i \in 1..Len(toHttp) + 1 : q[i] = IF i = Len(toHttp) + 1 THEN f ELSE toHttp[i]
  BY <1>1, <1>4
<1> HIDE DEF q, k
<1>6. HttpStage(pg, hh, origin)
  BY <1>1, <1>3 DEF WebInv, HttpStage
<1>7. HttpEnded(pg, hh, origin)
  BY <1>1, <1>3 DEF WebInv, HttpEnded
<1>8. HttpChain(pg, q, hh, origin)
  <2> SUFFICES ASSUME Receiving(hh)
               PROVE  FramesDue(pg, q, k)
    BY <1>3 DEF HttpChain, k
  <2>1. FramesDue(page, toHttp, k) /\ (page.end = "open" => k + Len(toHttp) = page.sent + 1)
    BY <1>1, <1>2 DEF WebInv, HttpChain, k
  <2>2. ASSUME NEW i \in 1..Len(q)
        PROVE  /\ q[i].kind = "SYN" => k + i = 1
               /\ q[i].kind = "DAT" => q[i].piece + 1 = k + i /\ q[i].piece <= pg.sent
               /\ q[i].kind = "FIN" => k + i = pg.sent + 2 /\ pg.end = "finished"
    <3>1. CASE i = Len(toHttp) + 1
      <4>1. q[i] = f
        BY <1>5, <3>1
      <4>2. f.kind = "FIN" => k + i = pg.sent + 2
        BY <1>1, <1>3, <1>4, <2>1, <3>1
      <4> QED
        BY <1>4, <4>1, <4>2
    <3>2. CASE i # Len(toHttp) + 1
      <4>1. i \in 1..Len(toHttp) /\ q[i] = toHttp[i]
        BY <1>1, <1>5, <3>2
      <4> QED
        BY <1>3, <2>1, <4>1 DEF FramesDue
    <3> QED
      BY <3>1, <3>2
  <2> QED
    BY <2>2 DEF FramesDue
<1> QED
  BY <1>1, <1>2, <1>3, <1>5, <1>6, <1>7, <1>8 DEF HttpInv, HttpType, WebInv

-----------------------------------------------------------------------------
(* The worker.                                                             *)

LEMMA DueTaken ==
    ASSUME NEW pg \in PageRecord, NEW q \in Seq(StreamFrame), NEW k \in Nat, q # <<>>, FramesDue(pg, q, k)
    PROVE  /\ FramesDue(pg, Tail(q), k + 1)
           /\ Head(q).kind = "SYN" => k = 0
           /\ Head(q).kind = "DAT" => Head(q).piece = k /\ Head(q).piece <= pg.sent
           /\ Head(q).kind = "FIN" => k = pg.sent + 1 /\ pg.end = "finished"
<1>1. Len(q) \in Nat /\ Len(q) > 0 /\ Head(q) = q[1] /\ Head(q) \in StreamFrame /\ Tail(q) \in Seq(StreamFrame)
  OBVIOUS
<1>2. Len(Tail(q)) = Len(q) - 1 /\ \A i \in 1..Len(q) - 1 : Tail(q)[i] = q[i + 1]
  BY <1>1
<1>3. 1 \in 1..Len(q) /\ \A i \in 1..Len(q) - 1 : i + 1 \in 1..Len(q)
  BY <1>1
<1>4. pg.sent \in Nat /\ Head(q).piece \in Nat
  BY <1>1 DEF PageRecord, StreamFrame
<1>5. ASSUME NEW i \in 1..Len(q) - 1
      PROVE  /\ Tail(q)[i].kind = "SYN" => k + 1 + i = 1
             /\ Tail(q)[i].kind = "DAT" => Tail(q)[i].piece + 1 = k + 1 + i /\ Tail(q)[i].piece <= pg.sent
             /\ Tail(q)[i].kind = "FIN" => k + 1 + i = pg.sent + 2 /\ pg.end = "finished"
  <2>1. i + 1 \in 1..Len(q) /\ Tail(q)[i] = q[i + 1] /\ k + (i + 1) = k + 1 + i
    BY <1>1, <1>2, <1>3
  <2> QED
    BY <2>1 DEF FramesDue
<1>6. FramesDue(pg, Tail(q), k + 1)
  BY <1>2, <1>5 DEF FramesDue
<1>7. /\ q[1].kind = "SYN" => k + 1 = 1
      /\ q[1].kind = "DAT" => q[1].piece + 1 = k + 1 /\ q[1].piece <= pg.sent
      /\ q[1].kind = "FIN" => k + 1 = pg.sent + 2 /\ pg.end = "finished"
  BY <1>3 DEF FramesDue
<1> QED
  BY <1>1, <1>4, <1>6, <1>7

LEMMA HttpAdmitKeeps ==
    ASSUME HttpInv, HttpAdmit
    PROVE  HttpInv'
<1> DEFINE g == [hh EXCEPT !.stream = "open", !.worker = "syn", !.gotFIN = ~HasBody]
<1>1. /\ page \in PageRecord /\ hh \in HhRecord /\ origin \in OriginRecord /\ toHttp \in Seq(StreamFrame)
      /\ WebInv(page, toHttp, hh, origin) /\ page.sent \in Nat /\ Len(toHttp) \in Nat
  BY WebTypes
<1>2. /\ page' = page /\ toHttp' = Tail(toHttp) /\ hh' = g /\ origin' = origin
      /\ hh.session = "open" /\ hh.stream = "none" /\ toHttp # <<>>
  BY DEF HttpAdmit
<1>3. HasBody \in BOOLEAN
  BY <1>1 DEF HasBody, PageRecord, IsWeb
<1>4. /\ g \in HhRecord /\ g.stream = "open" /\ g.worker = "syn" /\ g.run = hh.run
      /\ g.entry = hh.entry /\ g.pipe = hh.pipe /\ g.head = hh.head /\ g.conn = hh.conn
  BY <1>1, <1>3 DEF HhRecord
<1> HIDE DEF g
<1>5. /\ hh.run = "none" /\ origin.got = 0 /\ ~origin.eof /\ hh.head = 0 /\ hh.worker = "idle"
  BY <1>1, <1>2 DEF WebInv, HttpStage
<1>6. HttpStage(page, g, origin)
  BY <1>1, <1>2, <1>4, <1>5 DEF WebInv, HttpStage, Peeking, Reading
<1>7. Due(hh, origin) = 0 /\ Due(g, origin) = 1 /\ BodyRead(g, origin) = 0
  BY <1>2, <1>4, <1>5 DEF Due, BodyRead, Peeking
<1>8. /\ FramesDue(page, toHttp, 0)
      /\ page.end = "open" /\ ~page.left => 0 + Len(toHttp) = page.sent + 1
  BY <1>1, <1>2, <1>7 DEF WebInv, HttpChain, Receiving
<1>9. HttpChain(page, Tail(toHttp), g, origin)
  <2>1. FramesDue(page, Tail(toHttp), 0 + 1)
    BY <1>1, <1>2, <1>8, DueTaken
  <2>2. Len(Tail(toHttp)) = Len(toHttp) - 1
    BY <1>1, <1>2
  <2>3. page.end = "open" /\ ~page.left => 1 + Len(Tail(toHttp)) = page.sent + 1
    BY <1>1, <1>8, <2>2
  <2> QED
    BY <1>7, <2>1, <2>3 DEF HttpChain
<1>10. HttpEnded(page, g, origin)
  BY <1>1, <1>4, <1>5, <1>7 DEF HttpEnded, Reading
<1>11. Tail(toHttp) \in Seq(StreamFrame)
  BY <1>1, <1>2
<1> QED
  BY <1>1, <1>2, <1>4, <1>6, <1>9, <1>10, <1>11 DEF HttpInv, HttpType, WebInv

LEMMA HttpWorkerTakesKeeps ==
    ASSUME HttpInv, HttpWorkerTakes
    PROVE  HttpInv'
<1> DEFINE f == Head(toHttp)
           worker == IF hh.entry \/ f.kind = "FIN" THEN f.kind ELSE hh.worker
           g == [hh EXCEPT !.worker = worker, !.held = f.piece]
           n == BodyRead(hh, origin)
<1>1. /\ page \in PageRecord /\ hh \in HhRecord /\ origin \in OriginRecord /\ toHttp \in Seq(StreamFrame)
      /\ WebInv(page, toHttp, hh, origin) /\ page.sent \in Nat /\ Len(toHttp) \in Nat
      /\ hh.head \in Nat /\ origin.got \in Nat
  BY WebTypes
<1>2. /\ page' = page /\ toHttp' = Tail(toHttp) /\ hh' = g /\ origin' = origin /\ hh.worker = "idle"
      /\ hh.stream = "open" /\ ~hh.gotFIN /\ toHttp # <<>> /\ f.kind \in {"DAT", "FIN"}
  BY DEF HttpWorkerTakes
<1>3. Tail(toHttp) \in Seq(StreamFrame) /\ f \in StreamFrame /\ Len(Tail(toHttp)) = Len(toHttp) - 1
  BY <1>1, <1>2
<1>4. f.piece \in Nat
  BY <1>3 DEF StreamFrame
<1>5. /\ worker \in {"idle", "DAT", "FIN"}
      /\ hh.entry \/ worker = "FIN" => worker = f.kind
      /\ worker # "idle" => worker = f.kind
      /\ ~hh.entry => worker # "DAT"
  BY <1>2
<1> HIDE DEF f, worker
<1>6. /\ g \in HhRecord /\ g.stream = "open" /\ g.worker = worker /\ g.held = f.piece /\ g.run = hh.run
      /\ g.entry = hh.entry /\ g.pipe = hh.pipe /\ g.head = hh.head /\ g.conn = hh.conn
      /\ g.gotFIN = hh.gotFIN /\ g.session = hh.session
  BY <1>1, <1>2, <1>4, <1>5 DEF HhRecord
<1> HIDE DEF g
<1>7. HttpStage(page, g, origin)
  BY <1>1, <1>2, <1>5, <1>6 DEF WebInv, HttpStage, Peeking, Reading
<1>8. n \in Nat /\ BodyRead(g, origin) = n /\ n <= page.sent
  BY <1>1, <1>6 DEF WebInv, HttpEnded, BodyRead, Peeking
<1>9. CASE ~Reading(hh)
  <2>1. HttpChain(page, Tail(toHttp), g, origin)
    BY <1>5, <1>6, <1>9 DEF HttpChain, Receiving, Reading
  <2>2. HttpEnded(page, g, origin)
    BY <1>6, <1>8, <1>9 DEF HttpEnded, Reading
  <2> QED
    BY <1>1, <1>2, <1>3, <1>6, <1>7, <2>1, <2>2 DEF HttpInv, HttpType, WebInv
<1>10. CASE Reading(hh)
  <2>1. hh.entry /\ worker = f.kind
    BY <1>1, <1>2, <1>5, <1>10 DEF WebInv, HttpStage
  <2>2. Due(hh, origin) = n + 1
    BY <1>2 DEF Due
  <2>3. /\ FramesDue(page, toHttp, n + 1)
        /\ page.end = "open" /\ ~page.left => n + 1 + Len(toHttp) = page.sent + 1
    BY <1>1, <1>2, <1>10, <2>2 DEF WebInv, HttpChain, Receiving
  <2>4. /\ FramesDue(page, Tail(toHttp), n + 1 + 1)
        /\ f.kind = "DAT" => f.piece = n + 1 /\ f.piece <= page.sent
        /\ f.kind = "FIN" => n + 1 = page.sent + 1 /\ page.end = "finished"
    BY <1>1, <1>2, <1>8, <2>3, DueTaken DEF f
  <2>5. hh.pipe # "eof" \/ (n = page.sent /\ page.end = "finished")
    BY <1>1, <1>10 DEF WebInv, HttpEnded
  <2>6. HttpEnded(page, g, origin)
    BY <1>1, <1>6, <1>8, <2>1, <2>4, <2>5 DEF HttpEnded, Reading
  <2>7. HttpChain(page, Tail(toHttp), g, origin)
    <3> SUFFICES ASSUME Receiving(g)
                 PROVE  /\ FramesDue(page, Tail(toHttp), Due(g, origin))
                        /\ page.end = "open" /\ ~page.left => Due(g, origin) + Len(Tail(toHttp)) = page.sent + 1
      BY DEF HttpChain
    <3>1. worker = "DAT"
      BY <1>2, <1>6, <2>1 DEF Receiving
    <3>2. Due(g, origin) = n + 1 + 1
      BY <1>6, <2>1, <2>4, <3>1 DEF Due
    <3> QED
      BY <1>1, <1>3, <1>8, <2>3, <2>4, <3>2
  <2> QED
    BY <1>1, <1>2, <1>3, <1>6, <1>7, <2>6, <2>7 DEF HttpInv, HttpType, WebInv
<1> QED
  BY <1>9, <1>10

LEMMA HttpResetKeeps ==
    ASSUME HttpInv, HttpReset \/ HttpSessionLost
    PROVE  HttpInv'
<1> DEFINE a == IF hh.stream = "open" THEN AbortRequest(hh) ELSE hh
           g == IF HttpReset THEN a ELSE [a EXCEPT !.session = "lost"]
<1>1. /\ page \in PageRecord /\ hh \in HhRecord /\ origin \in OriginRecord /\ toHttp \in Seq(StreamFrame)
      /\ WebInv(page, toHttp, hh, origin) /\ page.sent \in Nat
  BY WebTypes
<1>2. page' = page /\ toHttp' = <<>> /\ origin' = origin
  BY DEF HttpReset, HttpSessionLost
<1>3. hh' = g /\ (HttpReset => hh.stream # "none")
  BY DEF HttpReset, HttpSessionLost
<1>4. /\ a \in HhRecord /\ (hh.stream # "none" => a.stream = "gone") /\ (hh.stream = "none" => a = hh)
      /\ a.pipe = hh.pipe \/ (hh.pipe = "open" /\ a.pipe = "broken")
      /\ a.worker = hh.worker /\ a.held = hh.held
      /\ a.run = hh.run /\ a.head = hh.head /\ a.gotFIN = hh.gotFIN
      /\ a.entry => hh.entry
      /\ a.conn = "open" => hh.conn = "open"
      /\ hh.conn = "none" => a.conn = "none"
  <2>1. CASE hh.stream = "open"
    BY <1>1, <2>1, AbortedFields
  <2>2. CASE hh.stream # "open"
    BY <1>1, <2>2 DEF HhRecord
  <2> QED
    BY <2>1, <2>2
<1> HIDE DEF a
<1>5. /\ g \in HhRecord /\ g.stream = a.stream /\ g.pipe = a.pipe /\ g.worker = a.worker /\ g.held = a.held
      /\ g.run = a.run /\ g.head = a.head /\ g.gotFIN = a.gotFIN
      /\ g.entry = a.entry /\ g.conn = a.conn
      /\ hh.stream = "none" => g.session = "lost"
  <2> DEFINE b == [a EXCEPT !.session = "lost"]
  <2>1. /\ b \in HhRecord /\ b.stream = a.stream /\ b.pipe = a.pipe /\ b.worker = a.worker /\ b.held = a.held
        /\ b.run = a.run /\ b.head = a.head /\ b.gotFIN = a.gotFIN
        /\ b.entry = a.entry /\ b.conn = a.conn /\ b.session = "lost"
    BY <1>4 DEF HhRecord
  <2>2. g = IF HttpReset THEN a ELSE b
    OBVIOUS
  <2> HIDE DEF b, g
  <2> QED
    BY <1>3, <1>4, <2>1, <2>2
<1> HIDE DEF g
<1>6. CASE hh.stream # "none"
  <2>1. WebInv(page, <<>>, g, origin)
    BY <1>1, <1>4, <1>5, <1>6, EmptyQueue, AbortKeeps
  <2> QED
    BY <1>1, <1>2, <1>3, <1>5, <2>1, EmptyQueue DEF HttpInv, HttpType
<1>7. CASE hh.stream = "none"
  <2>1. HttpStage(page, g, origin)
    BY <1>1, <1>4, <1>5, <1>7 DEF WebInv, HttpStage, Peeking, Reading
  <2>2. HttpChain(page, <<>>, g, origin)
    BY <1>4, <1>5, <1>7 DEF HttpChain, Receiving
  <2>3. HttpEnded(page, g, origin)
    BY <1>1, <1>4, <1>5, <1>7 DEF WebInv, HttpEnded, BodyRead, Peeking, Reading
  <2> QED
    BY <1>1, <1>2, <1>3, <1>5, <2>1, <2>2, <2>3, EmptyQueue DEF HttpInv, HttpType, WebInv
<1> QED
  BY <1>6, <1>7

(* OnSYN starts to read from the first piece on. *)
LEMMA StartKeeps ==
    ASSUME HttpInv, RequestStarts \/ WsStarts
    PROVE  HttpInv'
<1>1. /\ page \in PageRecord /\ hh \in HhRecord /\ origin \in OriginRecord /\ toHttp \in Seq(StreamFrame)
      /\ WebInv(page, toHttp, hh, origin) /\ page.sent \in Nat
  BY WebTypes
<1>2. page' = page /\ toHttp' = toHttp /\ origin' = origin /\ hh.worker = "syn"
  BY DEF RequestStarts, WsStarts
<1>3. /\ hh.run = "none" /\ ~hh.entry /\ hh.pipe = "none" /\ origin.got = 0 /\ ~origin.eof
      /\ hh.head = 0 /\ hh.conn = "none" /\ hh.stream # "none"
  BY <1>1, <1>2 DEF WebInv, HttpStage
<1>4. PICK g \in HhRecord :
        /\ hh' = g /\ g.worker = "idle" /\ g.entry /\ g.run \in {"sniff", "ask", "dial"}
        /\ (g.run = "dial") <=> (page.kind = "websocket")
        /\ g.pipe \in {"open", "none"} /\ (page.kind = "websocket" => g.pipe = "none")
        /\ g.stream = hh.stream /\ g.session = hh.session /\ g.head = hh.head
        /\ g.conn = hh.conn /\ g.gotFIN = hh.gotFIN
  <2>1. CASE RequestStarts
    <3> DEFINE pipe == IF HasBody THEN "open" ELSE "none"
               late == hh.stream # "open"
    <3>1. PICK run \in {"sniff", "ask"} :
            hh' = [hh EXCEPT !.worker = "idle", !.entry = TRUE, !.pipe = pipe, !.run = run, !.late = late]
      BY <2>1 DEF RequestStarts
    <3>2. pipe \in {"open", "none"} /\ late \in BOOLEAN /\ run \in {"sniff", "ask"}
      BY <3>1
    <3> HIDE DEF pipe, late
    <3> DEFINE g == [hh EXCEPT !.worker = "idle", !.entry = TRUE, !.pipe = pipe, !.run = run, !.late = late]
    <3> DEFINE f == [hh EXCEPT !.worker = "idle", !.entry = TRUE, !.late = late]
    <3>a. /\ f \in HhRecord /\ f.worker = "idle" /\ f.entry
          /\ f.stream = hh.stream /\ f.session = hh.session /\ f.head = hh.head
          /\ f.conn = hh.conn /\ f.gotFIN = hh.gotFIN
      BY <1>1, <3>2 DEF HhRecord
    <3>b. g = [f EXCEPT !.pipe = pipe, !.run = run]
      BY <1>1 DEF HhRecord
    <3> HIDE DEF f, g
    <3>3. /\ g \in HhRecord /\ g.worker = "idle" /\ g.entry /\ g.run = run /\ g.pipe = pipe
          /\ g.stream = hh.stream /\ g.session = hh.session /\ g.head = hh.head
          /\ g.conn = hh.conn /\ g.gotFIN = hh.gotFIN
      BY <3>2, <3>a, <3>b DEF HhRecord
    <3>4. page.kind # "websocket"
      BY <2>1 DEF RequestStarts, IsWeb
    <3> HIDE DEF g
    <3> QED
      BY <3>1, <3>2, <3>3, <3>4 DEF g
  <2>2. CASE WsStarts
    <3> DEFINE late == hh.stream # "open"
    <3>1. late \in BOOLEAN
      OBVIOUS
    <3> HIDE DEF late
    <3> DEFINE g == [hh EXCEPT !.worker = "idle", !.entry = TRUE, !.run = "dial", !.late = late]
    <3>2. hh' = g /\ page.kind = "websocket"
      BY <2>2 DEF WsStarts, IsWeb, late
    <3>3. /\ g \in HhRecord /\ g.worker = "idle" /\ g.entry /\ g.run = "dial" /\ g.pipe = hh.pipe
          /\ g.stream = hh.stream /\ g.session = hh.session /\ g.head = hh.head
          /\ g.conn = hh.conn /\ g.gotFIN = hh.gotFIN
      BY <1>1, <3>1 DEF HhRecord
    <3> HIDE DEF g
    <3> QED
      BY <1>3, <3>2, <3>3
  <2> QED
    BY <2>1, <2>2
<1>5. HttpStage(page, g, origin)
  BY <1>3, <1>4 DEF HttpStage, Peeking, Reading
<1>6. BodyRead(g, origin) = 0 /\ BodyRead(hh, origin) = 0 /\ Due(g, origin) = Due(hh, origin)
  BY <1>2, <1>3, <1>4 DEF BodyRead, Due, Peeking
<1>7. Receiving(g) => Receiving(hh)
  BY <1>2, <1>3, <1>4 DEF Receiving
<1>8. HttpChain(page, toHttp, g, origin)
  BY <1>1, <1>6, <1>7 DEF WebInv, HttpChain
<1>9. HttpEnded(page, g, origin)
  BY <1>1, <1>4, <1>6 DEF HttpEnded
<1> QED
  BY <1>1, <1>2, <1>4, <1>5, <1>8, <1>9 DEF HttpInv, HttpType, WebInv

LEMMA HttpEndsFields ==
    ASSUME NEW h \in HhRecord, NEW frames, HttpEnds(h, frames)
    PROVE  /\ hh' \in HhRecord /\ hh'.stream \in {h.stream, "gone"}
           /\ hh'.pipe = h.pipe /\ hh'.entry = h.entry /\ hh'.conn = h.conn
           /\ hh'.session = h.session /\ hh'.worker = h.worker /\ hh'.held = h.held
           /\ hh'.run = h.run /\ hh'.head = h.head /\ hh'.gotFIN = h.gotFIN
<1> DEFINE fin == h.sentFIN \/ HttpCanSend
           g == [h EXCEPT !.sentFIN = fin]
<1>1. fin \in BOOLEAN
  BY DEF HttpCanSend, HhRecord
<1>2. hh' = HttpFinished(g)
  BY DEF HttpEnds
<1> HIDE DEF fin
<1>3. /\ g \in HhRecord /\ g.stream = h.stream
      /\ g.pipe = h.pipe /\ g.entry = h.entry /\ g.conn = h.conn
      /\ g.session = h.session /\ g.worker = h.worker /\ g.held = h.held
      /\ g.run = h.run /\ g.head = h.head /\ g.gotFIN = h.gotFIN
  BY <1>1 DEF HhRecord
<1> HIDE DEF g
<1> QED
  BY <1>2, <1>3, FinishedFields

LEMMA RequestRefusedKeeps ==
    ASSUME HttpInv, RequestRefused
    PROVE  HttpInv'
<1> DEFINE h == [hh EXCEPT !.worker = "idle"]
<1>1. /\ page \in PageRecord /\ hh \in HhRecord /\ origin \in OriginRecord /\ toHttp \in Seq(StreamFrame)
      /\ WebInv(page, toHttp, hh, origin) /\ page.sent \in Nat
  BY WebTypes
<1>2. page' = page /\ toHttp' = toHttp /\ origin' = origin /\ hh.worker = "syn"
  BY DEF RequestRefused
<1>3. /\ hh.run = "none" /\ ~hh.entry /\ hh.pipe = "none" /\ origin.got = 0 /\ ~origin.eof
      /\ hh.head = 0 /\ hh.conn = "none" /\ hh.stream # "none"
  BY <1>1, <1>2 DEF WebInv, HttpStage
<1>4. /\ h \in HhRecord /\ h.stream = hh.stream /\ h.worker = "idle" /\ h.run = hh.run /\ h.entry = hh.entry
      /\ h.pipe = hh.pipe /\ h.head = hh.head /\ h.conn = hh.conn
  BY <1>1 DEF HhRecord
<1>5. HttpEnds(h, ErrorPage) \/ hh' = h
  BY DEF RequestRefused
<1> HIDE DEF h
<1>6. /\ hh' \in HhRecord /\ hh'.stream \in {h.stream, "gone"} /\ hh'.worker = h.worker /\ hh'.run = h.run
      /\ hh'.entry = h.entry /\ hh'.pipe = h.pipe /\ hh'.head = h.head
      /\ hh'.conn = h.conn
  BY <1>4, <1>5, HttpEndsFields
<1>7. HttpStage(page, hh', origin)
  BY <1>3, <1>4, <1>6 DEF HttpStage, Peeking, Reading
<1>8. HttpChain(page, toHttp, hh', origin)
  BY <1>3, <1>4, <1>6 DEF HttpChain, Receiving, Reading
<1>9. HttpEnded(page, hh', origin)
  BY <1>1, <1>3, <1>4, <1>6 DEF HttpEnded, BodyRead, Peeking, Reading
<1> QED
  BY <1>1, <1>2, <1>6, <1>7, <1>8, <1>9 DEF HttpInv, HttpType, WebInv

-----------------------------------------------------------------------------
(* Reading.                                                                *)

(* One more piece is read: what the worker held. *)
LEMMA ReadKeeps ==
    ASSUME NEW pg \in PageRecord, NEW q \in Seq(StreamFrame), NEW h \in HhRecord, NEW o \in OriginRecord,
           WebInv(pg, q, h, o), Reading(h), h.worker = "DAT", h.pipe # "eof",
           NEW g \in HhRecord, NEW r \in OriginRecord,
           g.worker = "idle", BodyRead(g, r) = h.held,
           g.stream = h.stream, g.session = h.session, g.gotFIN = h.gotFIN, g.pipe = h.pipe,
           Reading(g), HttpStage(pg, g, r)
    PROVE  WebInv(pg, q, g, r)
<1>1. h.held <= pg.sent /\ h.stream # "none"
  BY DEF WebInv, HttpEnded, HttpStage, Reading
<1>2. HttpEnded(pg, g, r)
  BY <1>1 DEF HttpEnded
<1>3. Due(g, r) = Due(h, o)
  BY <1>1 DEF Due
<1>4. Receiving(g) => Receiving(h)
  BY <1>1 DEF Receiving
<1>5. HttpChain(pg, q, g, r)
  BY <1>3, <1>4 DEF WebInv, HttpChain
<1> QED
  BY <1>2, <1>5 DEF WebInv

(* A step that reads nothing. *)
LEMMA PassKeeps ==
    ASSUME NEW pg \in PageRecord, NEW q \in Seq(StreamFrame), NEW h \in HhRecord, NEW o \in OriginRecord,
           WebInv(pg, q, h, o), Reading(h), NEW g \in HhRecord, NEW r \in OriginRecord,
           g.worker = h.worker, g.held = h.held, BodyRead(g, r) = BodyRead(h, o),
           g.stream = h.stream, g.session = h.session, g.gotFIN = h.gotFIN, g.pipe \in {h.pipe, "broken"},
           Reading(g), HttpStage(pg, g, r)
    PROVE  WebInv(pg, q, g, r)
<1>1. HttpEnded(pg, g, r)
  BY DEF WebInv, HttpEnded
<1>2. Due(g, r) = Due(h, o)
  BY DEF Due
<1>3. Receiving(g) => Receiving(h)
  BY DEF Receiving
<1>4. HttpChain(pg, q, g, r)
  BY <1>2, <1>3 DEF WebInv, HttpChain
<1> QED
  BY <1>1, <1>4 DEF WebInv

LEMMA SniffsKeeps ==
    ASSUME HttpInv, Sniffs
    PROVE  HttpInv'
<1>1. /\ page \in PageRecord /\ hh \in HhRecord /\ origin \in OriginRecord /\ toHttp \in Seq(StreamFrame)
      /\ WebInv(page, toHttp, hh, origin) /\ page.sent \in Nat /\ hh.head \in Nat
  BY WebTypes
<1>2. page' = page /\ toHttp' = toHttp /\ origin' = origin /\ hh.run = "sniff"
  BY DEF Sniffs
<1>3. /\ Reading(hh) /\ Peeking(hh) /\ BodyRead(hh, origin) = hh.head /\ HttpStage(page, hh, origin)
      /\ origin.got = 0 /\ ~origin.eof
  <2>1. Reading(hh) /\ Peeking(hh) /\ HttpStage(page, hh, origin)
    BY <1>1, <1>2 DEF Reading, Peeking, WebInv
  <2>2. origin.got = 0 /\ ~origin.eof
    BY <2>1 DEF HttpStage
  <2>3. BodyRead(hh, origin) = hh.head
    BY <1>1, <2>2 DEF BodyRead
  <2> QED
    BY <2>1, <2>2, <2>3
<1>4. CASE hh.pipe = "open" /\ hh.worker = "DAT"
  <2> DEFINE run == IF hh.head + 1 = SniffMax THEN "ask" ELSE hh.run
             head == hh.head + 1
             g == [hh EXCEPT !.worker = "idle", !.head = head, !.run = run]
  <2>1. hh' = g
    BY <1>4 DEF Sniffs
  <2>2. run \in {"ask", "sniff"} /\ head \in Nat
    BY <1>1, <1>2
  <2> HIDE DEF run, head
  <2>3. /\ g \in HhRecord /\ g.worker = "idle" /\ g.head = head /\ g.run = run
        /\ g.stream = hh.stream /\ g.session = hh.session /\ g.gotFIN = hh.gotFIN /\ g.pipe = hh.pipe
        /\ g.entry = hh.entry /\ g.conn = hh.conn
    BY <1>1, <2>2 DEF HhRecord
  <2> HIDE DEF g
  <2>4. HttpStage(page, g, origin)
    <3>1. page.kind # "websocket"
      BY <1>2, <1>3 DEF HttpStage
    <3>2. hh.stream # "none" /\ hh.conn # "open" /\ (hh.stream = "open" /\ ~hh.gotFIN => hh.entry)
      BY <1>2, <1>3 DEF HttpStage
    <3> QED
      BY <1>3, <2>2, <2>3, <3>1, <3>2 DEF HttpStage
  <2>5. Reading(g) /\ BodyRead(g, origin) = hh.held
    <3>1. hh.held = head
      BY <1>1, <1>3, <1>4 DEF WebInv, HttpEnded, head
    <3>2. BodyRead(g, origin) = head
      BY <1>3, <2>2, <2>3 DEF BodyRead
    <3> QED
      BY <2>2, <2>3, <3>1, <3>2 DEF Reading
  <2>6. WebInv(page, toHttp, g, origin)
    BY <1>1, <1>3, <1>4, <2>3, <2>4, <2>5, ReadKeeps
  <2> QED
    BY <1>1, <1>2, <2>1, <2>3, <2>6 DEF HttpInv, HttpType
<1>5. CASE hh.pipe \in {"eof", "broken"}
  <2> DEFINE g == [hh EXCEPT !.run = "ask"]
  <2>2. hh' = g
    BY <1>5 DEF Sniffs
  <2>3. /\ g \in HhRecord /\ g.worker = hh.worker /\ g.head = hh.head /\ g.run = "ask" /\ g.held = hh.held
        /\ g.stream = hh.stream /\ g.session = hh.session /\ g.gotFIN = hh.gotFIN /\ g.pipe = hh.pipe
        /\ g.entry = hh.entry /\ g.conn = hh.conn
    BY <1>1 DEF HhRecord
  <2> HIDE DEF g
  <2>5. HttpStage(page, g, origin)
    BY <1>2, <1>3, <2>3 DEF HttpStage, Peeking, Reading
  <2>6. Reading(g) /\ BodyRead(g, origin) = BodyRead(hh, origin)
    BY <1>3, <2>3 DEF Reading, Peeking, BodyRead
  <2>7. WebInv(page, toHttp, g, origin)
    BY <1>1, <1>3, <2>3, <2>5, <2>6, PassKeeps
  <2> QED
    BY <1>1, <1>2, <2>2, <2>3, <2>7 DEF HttpInv, HttpType
<1> QED
  BY <1>4, <1>5 DEF Sniffs

LEMMA RequestGoesKeeps ==
    ASSUME HttpInv, RequestGoes
    PROVE  HttpInv'
<1> DEFINE g == [hh EXCEPT !.run = "do"]
<1>1. /\ page \in PageRecord /\ hh \in HhRecord /\ origin \in OriginRecord /\ toHttp \in Seq(StreamFrame)
      /\ WebInv(page, toHttp, hh, origin) /\ HttpStage(page, hh, origin)
  BY WebTypes DEF WebInv
<1>2. page' = page /\ toHttp' = toHttp /\ hh' = g /\ origin' = origin /\ hh.run = "ask"
  BY DEF RequestGoes
<1>3. /\ g \in HhRecord /\ g.worker = hh.worker /\ g.head = hh.head /\ g.run = "do" /\ g.held = hh.held
      /\ g.stream = hh.stream /\ g.session = hh.session /\ g.gotFIN = hh.gotFIN /\ g.pipe = hh.pipe
      /\ g.entry = hh.entry /\ g.conn = hh.conn
  BY <1>1 DEF HhRecord
<1> HIDE DEF g
<1>4. Reading(hh) /\ Reading(g) /\ BodyRead(g, origin) = BodyRead(hh, origin)
  BY <1>2, <1>3 DEF Reading, BodyRead
<1>5. HttpStage(page, g, origin)
  BY <1>1, <1>2, <1>3 DEF HttpStage, Peeking, Reading
<1>6. WebInv(page, toHttp, g, origin)
  BY <1>1, <1>3, <1>4, <1>5, PassKeeps
<1> QED
  BY <1>1, <1>2, <1>3, <1>6 DEF HttpInv, HttpType

(* The upstream reads what was peeked. *)
LEMMA HeadGoesKeeps ==
    ASSUME HttpInv, HeadGoes
    PROVE  HttpInv'
<1> DEFINE n == origin.got + 1
           r == [origin EXCEPT !.got = n]
<1>1. /\ page \in PageRecord /\ hh \in HhRecord /\ origin \in OriginRecord /\ toHttp \in Seq(StreamFrame)
      /\ WebInv(page, toHttp, hh, origin) /\ HttpStage(page, hh, origin)
      /\ hh.head \in Nat /\ origin.got \in Nat
  BY WebTypes DEF WebInv
<1>2. /\ page' = page /\ toHttp' = toHttp /\ hh' = hh /\ origin' = r
      /\ hh.run \in {"do", "reply"} /\ origin.got < hh.head
  BY DEF HeadGoes
<1>3. n \in Nat /\ n <= hh.head
  BY <1>1, <1>2
<1>4. (IF n < hh.head THEN hh.head ELSE n) = (IF origin.got < hh.head THEN hh.head ELSE origin.got)
  BY <1>1, <1>2, <1>3
<1> HIDE DEF n
<1>5. r \in OriginRecord /\ r.got = n /\ r.eof = origin.eof
  BY <1>1, <1>3 DEF OriginRecord
<1> HIDE DEF r
<1>6. Reading(hh) /\ ~Peeking(hh) /\ BodyRead(hh, r) = BodyRead(hh, origin)
  BY <1>2, <1>4, <1>5 DEF Reading, Peeking, BodyRead
<1>7. HttpStage(page, hh, r)
  BY <1>1, <1>2, <1>5, <1>6 DEF HttpStage
<1>8. WebInv(page, toHttp, hh, r)
  BY <1>1, <1>5, <1>6, <1>7, PassKeeps
<1> QED
  BY <1>1, <1>2, <1>5, <1>8 DEF HttpInv, HttpType

(* A piece goes to the upstream: a body's, or a message. *)
LEMMA PieceGoes ==
    ASSUME HttpInv, Reading(hh), ~Peeking(hh), hh.worker = "DAT", hh.pipe # "eof", ~origin.eof,
           hh' = [hh EXCEPT !.worker = "idle"], origin' = [origin EXCEPT !.got = hh.held],
           page' = page, toHttp' = toHttp
    PROVE  HttpInv'
<1> DEFINE g == [hh EXCEPT !.worker = "idle"]
           r == [origin EXCEPT !.got = hh.held]
<1>1. /\ page \in PageRecord /\ hh \in HhRecord /\ origin \in OriginRecord /\ toHttp \in Seq(StreamFrame)
      /\ WebInv(page, toHttp, hh, origin) /\ hh.held \in Nat /\ HttpStage(page, hh, origin)
  BY WebTypes DEF WebInv
<1>2. r \in OriginRecord /\ r.got = hh.held /\ r.eof = origin.eof
  BY <1>1 DEF OriginRecord
<1>3. /\ g \in HhRecord /\ g.worker = "idle" /\ g.head = hh.head /\ g.run = hh.run
      /\ g.stream = hh.stream /\ g.session = hh.session /\ g.gotFIN = hh.gotFIN /\ g.pipe = hh.pipe
      /\ g.entry = hh.entry /\ g.conn = hh.conn
  BY <1>1 DEF HhRecord
<1>4. hh' = g /\ origin' = r
  OBVIOUS
<1> HIDE DEF g, r
<1>5. Reading(g) /\ BodyRead(g, r) = hh.held
  <2>1. hh.held = BodyRead(hh, origin) + 1 /\ hh.head \in Nat /\ origin.got \in Nat
    BY <1>1, WebTypes DEF WebInv, HttpEnded
  <2>2. ~(hh.held < hh.head)
    BY <1>1, <2>1 DEF BodyRead
  <2> QED
    BY <1>2, <1>3, <2>2 DEF Reading, BodyRead
<1>6. HttpStage(page, g, r)
  BY <1>1, <1>2, <1>3 DEF HttpStage, Peeking, Reading
<1>7. WebInv(page, toHttp, g, r)
  BY <1>1, <1>2, <1>3, <1>5, <1>6, ReadKeeps
<1> QED
  BY <1>1, <1>2, <1>3, <1>4, <1>7 DEF HttpInv, HttpType

LEMMA BodyGoesKeeps ==
    ASSUME HttpInv, BodyGoes
    PROVE  HttpInv'
<1>1. page' = page /\ toHttp' = toHttp /\ hh.run \in {"do", "reply"} /\ ~origin.eof
  BY DEF BodyGoes
<1>2. Reading(hh) /\ ~Peeking(hh)
  BY <1>1 DEF Reading, Peeking
<1>3. CASE hh.pipe = "open" /\ hh.worker = "DAT"
  BY <1>1, <1>2, <1>3, PieceGoes DEF BodyGoes
<1>4. CASE hh.pipe = "eof"
  <2> DEFINE r == [origin EXCEPT !.eof = TRUE]
  <2>1. /\ page \in PageRecord /\ hh \in HhRecord /\ origin \in OriginRecord /\ toHttp \in Seq(StreamFrame)
        /\ WebInv(page, toHttp, hh, origin) /\ HttpStage(page, hh, origin)
    BY WebTypes DEF WebInv
  <2>2. hh' = hh /\ origin' = r
    BY <1>4 DEF BodyGoes
  <2>3. r \in OriginRecord /\ r.got = origin.got /\ r.eof
    BY <2>1 DEF OriginRecord
  <2> HIDE DEF r
  <2>4. HttpStage(page, hh, r)
    <3>1. ~(origin.got < hh.head)
      BY WebTypes DEF BodyGoes
    <3> QED
      BY <1>1, <1>2, <1>4, <2>1, <2>3, <3>1 DEF HttpStage
  <2>5. BodyRead(hh, r) = BodyRead(hh, origin)
    BY <2>3 DEF BodyRead
  <2>6. WebInv(page, toHttp, hh, r)
    BY <1>2, <2>1, <2>3, <2>4, <2>5, PassKeeps
  <2> QED
    BY <1>1, <2>1, <2>2, <2>3, <2>6 DEF HttpInv, HttpType
<1> QED
  BY <1>3, <1>4 DEF BodyGoes

LEMMA BodyUnwantedKeeps ==
    ASSUME HttpInv, BodyUnwanted
    PROVE  HttpInv'
<1> DEFINE g == [hh EXCEPT !.pipe = "broken"]
<1>1. /\ page \in PageRecord /\ hh \in HhRecord /\ origin \in OriginRecord /\ toHttp \in Seq(StreamFrame)
      /\ WebInv(page, toHttp, hh, origin) /\ HttpStage(page, hh, origin)
  BY WebTypes DEF WebInv
<1>2. /\ page' = page /\ toHttp' = toHttp /\ origin' = origin /\ hh' = g
      /\ hh.run \in {"do", "reply"} /\ hh.pipe = "open" /\ page.kind = "proxy"
  BY DEF BodyUnwanted
<1>3. /\ g \in HhRecord /\ g.worker = hh.worker /\ g.head = hh.head /\ g.run = hh.run /\ g.held = hh.held
      /\ g.stream = hh.stream /\ g.session = hh.session /\ g.gotFIN = hh.gotFIN /\ g.pipe = "broken"
      /\ g.entry = hh.entry /\ g.conn = hh.conn
  BY <1>1 DEF HhRecord
<1> HIDE DEF g
<1>4. HttpStage(page, g, origin)
  BY <1>1, <1>2, <1>3 DEF HttpStage, Peeking, Reading
<1>5. Reading(hh) /\ Reading(g) /\ BodyRead(g, origin) = BodyRead(hh, origin)
  BY <1>2, <1>3 DEF Reading, BodyRead
<1>6. WebInv(page, toHttp, g, origin)
  BY <1>1, <1>3, <1>4, <1>5, PassKeeps
<1> QED
  BY <1>1, <1>2, <1>3, <1>6 DEF HttpInv, HttpType

-----------------------------------------------------------------------------
(* The answer, and the ends.                                               *)

(* The goroutine of a request turns to the answer, or returns. *)
LEMMA AnswerKeeps ==
    ASSUME HttpInv,
           \/ OriginAnswers \/ RequestFails \/ OriginSends \/ OriginEnds
           \/ RequestCancelled \/ RequestFinishes
    PROVE  HttpInv'
<1>1. /\ page \in PageRecord /\ hh \in HhRecord /\ origin \in OriginRecord /\ toHttp \in Seq(StreamFrame)
      /\ WebInv(page, toHttp, hh, origin) /\ HttpStage(page, hh, origin)
  BY WebTypes DEF WebInv
<1>2. page' = page /\ toHttp' = toHttp /\ hh.run \in {"ask", "do", "reply", "finish"}
  BY DEF OriginAnswers, RequestFails, OriginSends, OriginEnds, RequestCancelled, RequestFinishes
<1>3. page.kind # "websocket" /\ hh.conn # "open"
  BY <1>1, <1>2 DEF HttpStage
<1>4. origin' \in OriginRecord /\ origin'.got = origin.got /\ origin'.eof = origin.eof
  <2>1. CASE OriginSends
    <3>1. origin' = [origin EXCEPT !.sent = origin.sent + 1]
      BY <2>1 DEF OriginSends
    <3>2. origin.sent + 1 \in Nat
      BY <1>1 DEF OriginRecord
    <3> QED
      BY <1>1, <3>1, <3>2 DEF OriginRecord
  <2>2. CASE ~OriginSends
    BY <1>1, <2>2 DEF OriginAnswers, RequestFails, OriginEnds, RequestCancelled, RequestFinishes
  <2> QED
    BY <2>1, <2>2
<1>5. /\ hh' \in HhRecord /\ hh'.run \in {"reply", "finish", "done"} /\ hh'.stream \in {hh.stream, "gone"}
      /\ hh'.worker = hh.worker /\ hh'.conn # "open" /\ hh'.head = hh.head
      /\ hh'.pipe = hh.pipe \/ (hh.pipe = "open" /\ hh'.pipe = "broken")
      /\ hh'.run = "reply" => hh.run \in {"do", "reply"} /\ hh' = [hh EXCEPT !.run = "reply"]
  <2>1. ASSUME NEW run \in {"reply", "finish", "done"}, NEW h \in HhRecord
        PROVE  LET g == [h EXCEPT !.run = run] IN
               /\ g \in HhRecord /\ g.run = run /\ g.stream = h.stream /\ g.worker = h.worker
               /\ g.conn = h.conn /\ g.head = h.head /\ g.pipe = h.pipe
    BY DEF HhRecord
  <2>2. CASE OriginAnswers
    <3> DEFINE run == IF HttpCanSend THEN "reply" ELSE "finish"
    <3>1. hh' = [hh EXCEPT !.run = run]
      BY <2>2 DEF OriginAnswers
    <3>2. run \in {"reply", "finish", "done"} /\ hh.run = "do"
      BY <2>2 DEF OriginAnswers
    <3> HIDE DEF run
    <3>3. hh'.run = run
      BY <1>1, <2>1, <3>1, <3>2
    <3>4. hh'.run = "reply" => hh' = [hh EXCEPT !.run = "reply"]
      BY <3>1, <3>3
    <3> QED
      BY <1>1, <1>3, <2>1, <3>1, <3>2, <3>4
  <2>3. CASE RequestFails \/ OriginEnds
    <3> DEFINE h == [hh EXCEPT !.run = "finish"]
    <3>1. PICK frames : HttpEnds(h, frames)
      BY <2>3 DEF RequestFails, OriginEnds
    <3>2. /\ h \in HhRecord /\ h.run = "finish" /\ h.stream = hh.stream /\ h.worker = hh.worker
          /\ h.conn = hh.conn /\ h.head = hh.head /\ h.pipe = hh.pipe
      BY <1>1, <2>1
    <3> HIDE DEF h
    <3> QED
      BY <1>3, <3>1, <3>2, HttpEndsFields
  <2>4. CASE OriginSends
    <3> DEFINE run == IF HttpCanSend THEN hh.run ELSE "finish"
    <3>1. hh' = [hh EXCEPT !.run = run]
      BY <2>4 DEF OriginSends
    <3>2. run \in {"reply", "finish", "done"} /\ hh.run = "reply"
      BY <2>4 DEF OriginSends
    <3> HIDE DEF run
    <3>3. hh'.run = run
      BY <1>1, <2>1, <3>1, <3>2
    <3>4. hh'.run = "reply" => hh' = [hh EXCEPT !.run = "reply"]
      BY <3>1, <3>3
    <3> QED
      BY <1>1, <1>3, <2>1, <3>1, <3>2, <3>4
  <2>5. CASE RequestCancelled
    BY <1>1, <1>3, <2>1, <2>5 DEF RequestCancelled
  <2>6. CASE RequestFinishes
    <3> DEFINE c == ClosedPending(hh)
    <3>1. /\ c \in HhRecord /\ c.conn # "open" /\ c.stream = hh.stream /\ c.worker = hh.worker
          /\ c.head = hh.head
          /\ c.pipe = hh.pipe \/ (hh.pipe = "open" /\ c.pipe = "broken")
      BY <1>1, PendingFields
    <3>2. hh' = [c EXCEPT !.run = "done"]
      BY <2>6 DEF RequestFinishes
    <3> HIDE DEF c
    <3> QED
      BY <2>1, <3>1, <3>2
  <2> QED
    BY <2>2, <2>3, <2>4, <2>5, <2>6
<1>6. CASE hh'.run # "reply"
  <2>1. WebInv(page, toHttp, hh', origin')
    BY <1>1, <1>2, <1>3, <1>4, <1>5, <1>6, ReadNoMore
  <2> QED
    BY <1>1, <1>2, <1>4, <1>5, <2>1 DEF HttpInv, HttpType
<1>7. CASE hh'.run = "reply"
  <2> DEFINE g == [hh EXCEPT !.run = "reply"]
  <2>1. hh' = g /\ hh.run \in {"do", "reply"}
    BY <1>5, <1>7
  <2>2. /\ g \in HhRecord /\ g.worker = hh.worker /\ g.head = hh.head /\ g.run = "reply" /\ g.held = hh.held
        /\ g.stream = hh.stream /\ g.session = hh.session /\ g.gotFIN = hh.gotFIN /\ g.pipe = hh.pipe
        /\ g.entry = hh.entry /\ g.conn = hh.conn
    BY <1>1 DEF HhRecord
  <2> HIDE DEF g
  <2>3. Reading(hh) /\ Reading(g) /\ BodyRead(g, origin') = BodyRead(hh, origin)
    BY <1>4, <2>1, <2>2 DEF Reading, BodyRead
  <2>4. HttpStage(page, g, origin')
    BY <1>1, <1>3, <1>4, <2>1, <2>2 DEF HttpStage, Peeking, Reading
  <2>5. WebInv(page, toHttp, g, origin')
    BY <1>1, <1>4, <2>2, <2>3, <2>4, PassKeeps
  <2> QED
    BY <1>1, <1>2, <1>4, <2>1, <2>2, <2>5 DEF HttpInv, HttpType
<1> QED
  BY <1>6, <1>7

(* OnDAT that finds the pipe broken, or no connection: the stream fails. *)
LEMMA PieceFailsKeeps ==
    ASSUME HttpInv, BodyBreaks \/ (WsFragment /\ hh.conn # "open")
    PROVE  HttpInv'
<1> DEFINE c == ClosedPending(hh)
           h == IF BodyBreaks THEN hh ELSE [c EXCEPT !.entry = hh.entry]
           a == AbortRequest(h)
           g == [a EXCEPT !.worker = "idle"]
<1>1. /\ page \in PageRecord /\ hh \in HhRecord /\ origin \in OriginRecord /\ toHttp \in Seq(StreamFrame)
      /\ WebInv(page, toHttp, hh, origin) /\ HttpStage(page, hh, origin)
  BY WebTypes DEF WebInv
<1>2. page' = page /\ toHttp' = toHttp /\ origin' = origin /\ hh.worker = "DAT"
  BY DEF BodyBreaks, WsFragment
<1>3. hh' = g
  <2>1. CASE BodyBreaks
    BY <2>1 DEF BodyBreaks, HttpFailsStream
  <2>2. CASE ~BodyBreaks
    BY <2>2 DEF WsFragment, HttpFailsStream
  <2> QED
    BY <2>1, <2>2
<1>4. /\ c \in HhRecord /\ c.held = hh.held /\ c.run = hh.run /\ c.head = hh.head
      /\ c.pipe = hh.pipe \/ (hh.pipe = "open" /\ c.pipe = "broken")
      /\ c.conn # "open"
      /\ hh.conn = "none" => c.conn = "none"
  BY <1>1, PendingFields
<1> HIDE DEF c
<1>5. /\ h \in HhRecord /\ h.held = hh.held /\ h.run = hh.run /\ h.head = hh.head
      /\ h.pipe = hh.pipe \/ (hh.pipe = "open" /\ h.pipe = "broken")
      /\ h.entry = hh.entry
      /\ h.conn = "open" => hh.conn = "open"
      /\ hh.conn = "none" => h.conn = "none"
  <2> DEFINE b == [c EXCEPT !.entry = hh.entry]
  <2>1. hh.entry \in BOOLEAN
    BY <1>1 DEF HhRecord
  <2>2. /\ b \in HhRecord /\ b.held = c.held /\ b.run = c.run /\ b.head = c.head
        /\ b.pipe = c.pipe /\ b.entry = hh.entry /\ b.conn = c.conn
    BY <1>4, <2>1 DEF HhRecord
  <2>3. h = IF BodyBreaks THEN hh ELSE b
    OBVIOUS
  <2> HIDE DEF b, h
  <2> QED
    BY <1>1, <1>4, <2>2, <2>3
<1> HIDE DEF h
<1>6. /\ a \in HhRecord /\ a.stream = "gone" /\ a.held = h.held /\ a.run = h.run /\ a.head = h.head
     
      /\ a.pipe = h.pipe \/ (h.pipe = "open" /\ a.pipe = "broken")
      /\ a.entry => h.entry
      /\ a.conn = "open" => h.conn = "open"
      /\ h.conn = "none" => a.conn = "none"
  BY <1>5, AbortedFields
<1> HIDE DEF a
<1>7. /\ g \in HhRecord /\ g.stream = "gone" /\ g.worker = "idle" /\ g.held = a.held /\ g.run = a.run
      /\ g.head = a.head /\ g.pipe = a.pipe /\ g.entry = a.entry /\ g.conn = a.conn
  BY <1>6 DEF HhRecord
<1> HIDE DEF g
<1>8. hh.stream # "none"
  BY <1>1, <1>2 DEF HttpStage
<1>9. WebInv(page, toHttp, g, origin)
  <2>1. /\ g.pipe = hh.pipe \/ (hh.pipe = "open" /\ g.pipe = "broken")
        /\ g.entry => hh.entry
        /\ g.conn = "open" => hh.conn = "open"
        /\ hh.conn = "none" => g.conn = "none"
        /\ g.held = hh.held /\ g.run = hh.run /\ g.head = hh.head
    BY <1>5, <1>6, <1>7
  <2> QED
    BY <1>1, <1>7, <1>8, <2>1, AbortKeeps
<1> QED
  BY <1>1, <1>2, <1>3, <1>7, <1>9 DEF HttpInv, HttpType

(* OnFIN: everything the page sent has been read. *)
LEMMA FinKeeps ==
    ASSUME NEW pg \in PageRecord, NEW q \in Seq(StreamFrame), NEW h \in HhRecord, NEW o \in OriginRecord,
           NEW g \in HhRecord, WebInv(pg, q, h, o), h.worker = "FIN", g.worker = "idle", g.gotFIN,
           g.run = h.run, g.head = h.head, g.stream \in {h.stream, "gone"},
           g.entry => h.entry, g.conn = "open" => h.conn = "open", h.conn = "none" => g.conn = "none",
           g.pipe = h.pipe \/ (h.entry /\ h.pipe = "open" /\ g.pipe \in {"eof", "broken"})
    PROVE  WebInv(pg, q, g, o)
<1>1. h.stream # "none" /\ (Reading(h) => BodyRead(h, o) = pg.sent /\ pg.end = "finished")
  BY DEF WebInv, HttpStage, HttpEnded
<1>2. HttpStage(pg, g, o)
  BY <1>1 DEF WebInv, HttpStage, Peeking, Reading
<1>3. HttpChain(pg, q, g, o)
  BY <1>1 DEF HttpChain, Receiving
<1>4. BodyRead(g, o) = BodyRead(h, o) /\ (Reading(g) => Reading(h)) /\ BodyRead(h, o) <= pg.sent
  BY DEF BodyRead, Reading, Peeking, WebInv, HttpEnded
<1>5. HttpEnded(pg, g, o)
  BY <1>1, <1>4 DEF HttpEnded
<1> QED
  BY <1>2, <1>3, <1>5 DEF WebInv

LEMMA HttpFinKeeps ==
    ASSUME HttpInv, BodyEnds \/ WsFin
    PROVE  HttpInv'
<1>1. /\ page \in PageRecord /\ hh \in HhRecord /\ origin \in OriginRecord /\ toHttp \in Seq(StreamFrame)
      /\ WebInv(page, toHttp, hh, origin)
  BY WebTypes
<1>2. page' = page /\ toHttp' = toHttp /\ origin' = origin /\ hh.worker = "FIN"
  BY DEF BodyEnds, WsFin
<1>3. PICK h \in HhRecord :
        /\ hh' = HttpFinished(h)
        /\ h.worker = "idle" /\ h.gotFIN /\ h.run = hh.run /\ h.head = hh.head
        /\ h.stream = hh.stream
        /\ h.entry => hh.entry
        /\ h.conn = "open" => hh.conn = "open"
        /\ hh.conn = "none" => h.conn = "none"
        /\ h.pipe = hh.pipe \/ (hh.entry /\ hh.pipe = "open" /\ h.pipe \in {"eof", "broken"})
  <2>1. CASE BodyEnds
    <3> DEFINE pipe == IF hh.entry /\ hh.pipe = "open" THEN "eof" ELSE hh.pipe
               h == [hh EXCEPT !.worker = "idle", !.gotFIN = TRUE, !.pipe = pipe]
    <3>1. hh' = HttpFinished(h)
      BY <2>1 DEF BodyEnds
    <3>2. /\ pipe \in {"none", "open", "eof", "broken"}
          /\ pipe = hh.pipe \/ (hh.entry /\ hh.pipe = "open" /\ pipe = "eof")
      BY <1>1 DEF HhRecord
    <3> HIDE DEF pipe
    <3>3. /\ h \in HhRecord /\ h.worker = "idle" /\ h.gotFIN /\ h.run = hh.run /\ h.head = hh.head
          /\ h.stream = hh.stream /\ h.entry = hh.entry /\ h.conn = hh.conn
          /\ h.pipe = pipe
      BY <1>1, <3>2 DEF HhRecord
    <3> HIDE DEF h
    <3> QED
      BY <3>1, <3>2, <3>3
  <2>2. CASE WsFin
    <3> DEFINE c == IF hh.entry THEN ClosedPending(hh) ELSE hh
               h == [c EXCEPT !.worker = "idle", !.gotFIN = TRUE]
    <3>1. hh' = HttpFinished(h)
      BY <2>2 DEF WsFin
    <3>2. /\ c \in HhRecord /\ c.run = hh.run /\ c.head = hh.head
          /\ c.stream = hh.stream
          /\ c.entry => hh.entry
          /\ c.conn = "open" => hh.conn = "open"
          /\ hh.conn = "none" => c.conn = "none"
          /\ c.pipe = hh.pipe \/ (hh.entry /\ hh.pipe = "open" /\ c.pipe = "broken")
      <4>1. CASE hh.entry
        BY <1>1, <4>1, PendingFields
      <4>2. CASE ~hh.entry
        BY <1>1, <4>2
      <4> QED
        BY <4>1, <4>2
    <3> HIDE DEF c
    <3>3. /\ h \in HhRecord /\ h.worker = "idle" /\ h.gotFIN /\ h.run = c.run /\ h.head = c.head
          /\ h.stream = c.stream /\ h.entry = c.entry /\ h.conn = c.conn
          /\ h.pipe = c.pipe
      BY <3>2 DEF HhRecord
    <3> HIDE DEF h
    <3> QED
      BY <3>1, <3>2, <3>3
  <2> QED
    BY <2>1, <2>2
<1>4. /\ hh' \in HhRecord /\ hh'.stream \in {h.stream, "gone"} /\ hh'.pipe = h.pipe /\ hh'.entry = h.entry
      /\ hh'.conn = h.conn /\ hh'.worker = h.worker /\ hh'.run = h.run /\ hh'.head = h.head
      /\ hh'.gotFIN = h.gotFIN
  BY <1>3, FinishedFields
<1>5. WebInv(page, toHttp, hh', origin)
  <2>1. /\ hh'.worker = "idle" /\ hh'.gotFIN /\ hh'.run = hh.run /\ hh'.head = hh.head
        /\ hh'.stream \in {hh.stream, "gone"}
    BY <1>3, <1>4
  <2>2. /\ hh'.entry => hh.entry
        /\ hh'.conn = "open" => hh.conn = "open"
        /\ hh.conn = "none" => hh'.conn = "none"
        /\ hh'.pipe = hh.pipe \/ (hh.entry /\ hh.pipe = "open" /\ hh'.pipe \in {"eof", "broken"})
    BY <1>3, <1>4
  <2> QED
    BY <1>1, <1>2, <1>4, <2>1, <2>2, FinKeeps
<1> QED
  BY <1>1, <1>2, <1>4, <1>5 DEF HttpInv, HttpType

-----------------------------------------------------------------------------
(* A WebSocket.                                                            *)

(* The bridge opens, receives, or finds the upstream closed. *)
LEMMA BridgeKeeps ==
    ASSUME HttpInv,
           (WsOpens /\ ~hh.cancelled) \/ WsReceives \/ WsUpstreamCloses
    PROVE  HttpInv'
<1>1. /\ page \in PageRecord /\ hh \in HhRecord /\ origin \in OriginRecord /\ toHttp \in Seq(StreamFrame)
      /\ WebInv(page, toHttp, hh, origin) /\ HttpStage(page, hh, origin)
  BY WebTypes DEF WebInv
<1>2. page' = page /\ toHttp' = toHttp /\ hh.run \in {"dial", "bridge"}
  BY DEF WsOpens, WsReceives, WsUpstreamCloses
<1>3. origin' \in OriginRecord /\ origin'.got = origin.got /\ origin'.eof = origin.eof
  <2>1. CASE WsReceives
    <3>1. origin' = [origin EXCEPT !.sent = origin.sent + 1]
      BY <2>1 DEF WsReceives
    <3>2. origin.sent + 1 \in Nat
      BY <1>1 DEF OriginRecord
    <3> QED
      BY <1>1, <3>1, <3>2 DEF OriginRecord
  <2>2. CASE ~WsReceives
    BY <1>1, <2>2 DEF WsOpens, WsUpstreamCloses
  <2> QED
    BY <2>1, <2>2
<1>4. PICK run \in {"bridge", "unbridge"}, conn \in {"open", "closed"} :
        hh' = [hh EXCEPT !.run = run, !.conn = conn]
  <2>1. CASE WsOpens /\ ~hh.cancelled
    BY <2>1 DEF WsOpens
  <2>2. CASE WsReceives
    <3> DEFINE run == IF HttpCanSend THEN hh.run ELSE "unbridge"
    <3>1. hh' = [hh EXCEPT !.run = run] /\ hh.conn = "open" /\ run \in {"bridge", "unbridge"}
      BY <2>2 DEF WsReceives
    <3> HIDE DEF run
    <3>2. hh' = [hh EXCEPT !.run = run, !.conn = "open"]
      BY <1>1, <3>1 DEF HhRecord
    <3> QED
      BY <3>1, <3>2
  <2>3. CASE WsUpstreamCloses
    <3>1. hh' = [hh EXCEPT !.conn = "closed"] /\ hh.run = "bridge"
      BY <2>3 DEF WsUpstreamCloses
    <3>2. hh' = [hh EXCEPT !.run = "bridge", !.conn = "closed"]
      BY <1>1, <3>1 DEF HhRecord
    <3> QED
      BY <3>2
  <2> QED
    BY <2>1, <2>2, <2>3
<1> DEFINE g == [hh EXCEPT !.run = run, !.conn = conn]
<1>5. /\ g \in HhRecord /\ g.worker = hh.worker /\ g.head = hh.head /\ g.run = run /\ g.held = hh.held
      /\ g.stream = hh.stream /\ g.session = hh.session /\ g.gotFIN = hh.gotFIN /\ g.pipe = hh.pipe
      /\ g.entry = hh.entry /\ g.conn = conn
  BY <1>1 DEF HhRecord
<1>6. hh' = g
  BY <1>4
<1> HIDE DEF g
<1>7. Reading(hh) /\ Reading(g) /\ BodyRead(g, origin') = BodyRead(hh, origin)
  BY <1>2, <1>3, <1>5 DEF Reading, Peeking, BodyRead
<1>8. HttpStage(page, g, origin')
  BY <1>1, <1>2, <1>3, <1>5 DEF HttpStage, Peeking, Reading
<1>9. WebInv(page, toHttp, g, origin')
  BY <1>1, <1>3, <1>5, <1>7, <1>8, PassKeeps
<1> QED
  BY <1>1, <1>2, <1>3, <1>5, <1>6, <1>9 DEF HttpInv, HttpType

LEMMA BridgeEndsKeeps ==
    ASSUME HttpInv, (WsOpens /\ hh.cancelled) \/ WsFails \/ WsUnbridges
    PROVE  HttpInv'
<1>1. /\ page \in PageRecord /\ hh \in HhRecord /\ origin \in OriginRecord /\ toHttp \in Seq(StreamFrame)
      /\ WebInv(page, toHttp, hh, origin) /\ HttpStage(page, hh, origin)
  BY WebTypes DEF WebInv
<1>2. page' = page /\ toHttp' = toHttp /\ origin' = origin /\ hh.run \in {"dial", "bridge", "unbridge"}
  BY DEF WsOpens, WsFails, WsUnbridges
<1>3. /\ hh' \in HhRecord /\ hh'.run = "done" /\ hh'.stream \in {hh.stream, "gone"}
      /\ hh'.worker = hh.worker /\ hh'.conn # "open" /\ hh'.head = hh.head
      /\ hh'.pipe = hh.pipe \/ (hh.pipe = "open" /\ hh'.pipe = "broken")
  <2>1. CASE WsUnbridges
    <3> DEFINE c == ClosedPending(hh)
               h == [c EXCEPT !.run = "done"]
    <3>1. /\ c \in HhRecord /\ c.conn # "open" /\ c.stream = hh.stream /\ c.worker = hh.worker
          /\ c.head = hh.head
          /\ c.pipe = hh.pipe \/ (hh.pipe = "open" /\ c.pipe = "broken")
      BY <1>1, PendingFields
    <3>2. HttpEnds(h, <<Signal("FIN")>>)
      BY <2>1 DEF WsUnbridges
    <3> HIDE DEF c
    <3>3. /\ h \in HhRecord /\ h.run = "done" /\ h.stream = c.stream /\ h.worker = c.worker
          /\ h.conn = c.conn /\ h.head = c.head /\ h.pipe = c.pipe
      BY <3>1 DEF HhRecord
    <3> HIDE DEF h
    <3> QED
      BY <3>1, <3>2, <3>3, HttpEndsFields
  <2>2. CASE ~WsUnbridges
    <3> DEFINE h == [hh EXCEPT !.run = "done", !.entry = FALSE]
    <3>1. hh.run = "dial" /\ (hh' = h \/ HttpEnds(h, <<Signal("FIN")>>))
      BY <2>2 DEF WsOpens, WsFails
    <3>2. /\ h \in HhRecord /\ h.run = "done" /\ h.stream = hh.stream /\ h.worker = hh.worker
          /\ h.conn = hh.conn /\ h.head = hh.head /\ h.pipe = hh.pipe
      BY <1>1 DEF HhRecord
    <3>3. hh.conn # "open"
      BY <1>1, <3>1 DEF HttpStage
    <3> HIDE DEF h
    <3> QED
      BY <3>1, <3>2, <3>3, HttpEndsFields
  <2> QED
    BY <2>1, <2>2
<1>4. WebInv(page, toHttp, hh', origin)
  BY <1>1, <1>2, <1>3, ReadNoMore
<1> QED
  BY <1>1, <1>2, <1>3, <1>4 DEF HttpInv, HttpType

LEMMA WsFragmentKeeps ==
    ASSUME HttpInv, WsFragment
    PROVE  HttpInv'
<1>1. CASE hh.conn = "open"
  <2>1. page.kind = "websocket" /\ hh.worker = "DAT"
    BY DEF WsFragment, IsWeb
  <2>2. hh.run \in {"bridge", "unbridge"} /\ ~origin.eof /\ hh.pipe = "none"
    BY <1>1, <2>1 DEF HttpInv, WebInv, HttpStage
  <2>3. Reading(hh) /\ ~Peeking(hh)
    BY <2>2 DEF Reading, Peeking
  <2>4. /\ hh' = [hh EXCEPT !.worker = "idle"] /\ origin' = [origin EXCEPT !.got = hh.held]
        /\ page' = page /\ toHttp' = toHttp
    BY <1>1 DEF WsFragment
  <2> QED
    BY <2>1, <2>2, <2>3, <2>4, PieceGoes
<1>2. CASE hh.conn # "open"
  BY <1>2, PieceFailsKeeps
<1> QED
  BY <1>1, <1>2

-----------------------------------------------------------------------------

LEMMA HttpInitInv == HttpInit => HttpInv
<1> SUFFICES ASSUME HttpInit PROVE HttpInv
  OBVIOUS
<1>1. PICK kind \in {"proxy", "local", "websocket"}, body \in BOOLEAN, dispatched \in BOOLEAN :
        page = [kind |-> kind, body |-> body, dispatched |-> dispatched /\ kind # "websocket",
                sent |-> 0, end |-> "open", left |-> FALSE]
  BY DEF HttpInit
<1>2. page \in PageRecord /\ page.sent = 0 /\ page.end = "open"
  BY <1>1 DEF PageRecord
<1>3. /\ hh \in HhRecord /\ hh.stream = "none" /\ hh.worker = "idle" /\ hh.run = "none" /\ ~hh.entry
      /\ hh.pipe = "none" /\ hh.head = 0 /\ hh.conn = "none"
  BY DEF HttpInit, HhRecord
<1>4. origin \in OriginRecord /\ origin.got = 0 /\ ~origin.eof
  BY DEF HttpInit, OriginRecord
<1>5. Signal("SYN") \in StreamFrame /\ Signal("SYN").kind = "SYN" /\ toHttp = <<Signal("SYN")>>
  BY DEF HttpInit, Signal, StreamFrame
<1>6. toHttp \in Seq(StreamFrame) /\ Len(toHttp) = 1 /\ toHttp[1].kind = "SYN"
  BY <1>5
<1>7. HttpStage(page, hh, origin)
  BY <1>3, <1>4 DEF HttpStage, Peeking, Reading
<1>8. HttpChain(page, toHttp, hh, origin)
  <2>1. Due(hh, origin) = 0
    BY <1>3 DEF Due
  <2>2. FramesDue(page, toHttp, 0)
    BY <1>6 DEF FramesDue
  <2> QED
    BY <1>2, <1>6, <2>1, <2>2 DEF HttpChain
<1>9. HttpEnded(page, hh, origin)
  BY <1>2, <1>3, <1>4 DEF HttpEnded, BodyRead, Peeking, Reading
<1> QED
  BY <1>2, <1>3, <1>4, <1>6, <1>7, <1>8, <1>9 DEF HttpInv, HttpType, WebInv

LEMMA HttpStepInv == HttpInv /\ [HttpNext]_httpVars => HttpInv'
<1> SUFFICES ASSUME HttpInv, [HttpNext]_httpVars PROVE HttpInv'
  OBVIOUS
<1>1. CASE UNCHANGED httpVars
  BY <1>1 DEF httpVars, HttpInv, HttpType
<1>2. CASE HttpStep
  <2>1. CASE WsOpens
    BY <2>1, BridgeKeeps, BridgeEndsKeeps
  <2> QED
    BY <1>2, <2>1, HttpAdmitKeeps, HttpWorkerTakesKeeps, HttpResetKeeps, StartKeeps, RequestRefusedKeeps,
       SniffsKeeps, RequestGoesKeeps, AnswerKeeps, PieceFailsKeeps, HttpFinKeeps,
       BridgeEndsKeeps, WsFragmentKeeps DEF HttpStep
<1> QED
  BY <1>1, <1>2, PageSendsKeeps, PageEndsKeeps, HttpResetKeeps, HeadGoesKeeps, BodyGoesKeeps, BodyUnwantedKeeps,
     AnswerKeeps, BridgeKeeps DEF HttpNext

-----------------------------------------------------------------------------
(* The refinement.                                                         *)

(* Reading is all the upstream does with the pipe. *)
LEMMA BodySteps ==
    ASSUME HttpInv, [HttpNext]_httpVars
    PROVE  [Body!PipeNext]_(Body!pipeVars)
<1>1. /\ page \in PageRecord /\ hh \in HhRecord /\ origin \in OriginRecord
      /\ WebInv(page, toHttp, hh, origin)
      /\ page.sent \in Nat /\ hh.head \in Nat /\ hh.held \in Nat /\ origin.got \in Nat
  BY WebTypes
<1>2. CASE PageSends
  <2>1. /\ page' = [page EXCEPT !.sent = page.sent + 1] /\ origin' = origin /\ page.end = "open"
    BY <1>2 DEF PageSends
  <2>2. page'.sent = page.sent + 1 /\ page'.end = page.end
    BY <1>1, <2>1 DEF PageRecord
  <2> QED
    BY <2>1, <2>2 DEF Body!PipeNext, Body!Write
<1>3. CASE PageFinishes
  <2>1. /\ page' = [page EXCEPT !.end = "finished"] /\ origin' = origin /\ page.end = "open"
    BY <1>3 DEF PageFinishes
  <2>2. page'.sent = page.sent /\ page'.end = "finished"
    BY <1>1, <2>1 DEF PageRecord
  <2> QED
    BY <2>1, <2>2 DEF Body!PipeNext, Body!Finish
<1>4. ASSUME page' = page, ~origin.eof, origin'.eof = origin.eof, origin'.got = origin.got + 1,
             origin'.got <= page.sent
      PROVE  Body!PipeNext
  <2>1. origin.got < page.sent
    BY <1>1, <1>4
  <2> QED
    BY <1>4, <2>1 DEF Body!PipeNext, Body!Read
<1>5. CASE HeadGoes
  <2>1. /\ page' = page /\ hh.run \in {"do", "reply"} /\ origin.got < hh.head
        /\ origin' = [origin EXCEPT !.got = origin.got + 1]
    BY <1>5 DEF HeadGoes
  <2>2. origin'.got = origin.got + 1 /\ origin'.eof = origin.eof
    BY <1>1, <2>1 DEF OriginRecord
  <2>3. BodyRead(hh, origin) = hh.head /\ hh.head <= page.sent
    BY <1>1, <2>1 DEF BodyRead, WebInv, HttpEnded
  <2>4. ~origin.eof
    BY <1>1, <2>1 DEF WebInv, HttpStage
  <2> QED
    BY <1>1, <1>4, <2>1, <2>2, <2>3, <2>4
<1>6. ASSUME hh.worker = "DAT", Reading(hh), ~(origin.got < hh.head), ~origin.eof, page' = page,
             origin' = [origin EXCEPT !.got = hh.held]
      PROVE  Body!PipeNext
  <2>1. origin'.got = hh.held /\ origin'.eof = origin.eof
    BY <1>1, <1>6 DEF OriginRecord
  <2>2. hh.held = origin.got + 1 /\ hh.held <= page.sent
    BY <1>1, <1>6 DEF WebInv, HttpEnded, BodyRead
  <2> QED
    BY <1>1, <1>4, <1>6, <2>1, <2>2
<1>7. CASE BodyGoes
  <2>1. Reading(hh) /\ ~(origin.got < hh.head) /\ ~origin.eof /\ page' = page
    BY <1>1, <1>7 DEF BodyGoes, Reading
  <2>2. CASE hh.worker = "DAT" /\ origin' = [origin EXCEPT !.got = hh.held]
    BY <1>6, <2>1, <2>2
  <2>3. CASE hh.pipe = "eof" /\ origin' = [origin EXCEPT !.eof = TRUE]
    <3>1. origin'.got = origin.got /\ origin'.eof = TRUE
      BY <1>1, <2>3 DEF OriginRecord
    <3>2. origin.got = page.sent /\ page.end = "finished"
      BY <1>1, <2>1, <2>3 DEF WebInv, HttpEnded, BodyRead
    <3> QED
      BY <2>1, <3>1, <3>2 DEF Body!PipeNext, Body!ReadEnd
  <2> QED
    BY <1>7, <2>2, <2>3 DEF BodyGoes
<1>8. CASE WsFragment
  <2>1. CASE hh.conn = "open"
    <3>1. page.kind = "websocket" /\ hh.worker = "DAT"
      BY <1>8 DEF WsFragment, IsWeb
    <3>2. hh.run \in {"bridge", "unbridge"} /\ ~origin.eof /\ hh.head = 0
      BY <1>1, <2>1, <3>1 DEF WebInv, HttpStage
    <3>3. ~(origin.got < hh.head) /\ Reading(hh)
      BY <1>1, <3>2 DEF Reading
    <3> QED
      BY <1>6, <1>8, <2>1, <3>1, <3>2, <3>3 DEF WsFragment
  <2>2. CASE hh.conn # "open"
    BY <1>8, <2>2 DEF WsFragment, Body!pipeVars
  <2> QED
    BY <2>1, <2>2
<1>9. CASE OriginSends \/ WsReceives
  <2>1. page' = page /\ origin' = [origin EXCEPT !.sent = origin.sent + 1]
    BY <1>9 DEF OriginSends, WsReceives
  <2>2. origin'.got = origin.got /\ origin'.eof = origin.eof
    BY <1>1, <2>1 DEF OriginRecord
  <2> QED
    BY <2>1, <2>2 DEF Body!pipeVars
<1>10. CASE PageAborts
  <2>1. page' = [page EXCEPT !.left = TRUE] /\ origin' = origin
    BY <1>10 DEF PageAborts
  <2>2. page'.sent = page.sent /\ page'.end = page.end
    BY <1>1, <2>1 DEF PageRecord
  <2> QED
    BY <2>1, <2>2 DEF Body!pipeVars
<1>11. CASE UNCHANGED <<page, origin>>
  BY <1>11 DEF Body!pipeVars
<1>12. CASE UNCHANGED httpVars
  BY <1>11, <1>12 DEF httpVars
<1>13. CASE HttpStep
  <2>1. CASE WsFragment
    BY <1>8, <2>1
  <2>2. CASE ~WsFragment
    <3>1. UNCHANGED <<page, origin>>
      BY <1>13, <2>2 DEF HttpStep, HttpAdmit, HttpWorkerTakes, HttpReset, RequestStarts, RequestRefused,
         Sniffs, RequestGoes, RequestCancelled, RequestFinishes, BodyBreaks, BodyEnds, WsStarts, WsOpens, WsFails,
         WsUnbridges, WsFin
    <3> QED
      BY <1>11, <3>1
  <2> QED
    BY <2>1, <2>2
<1>14. HttpSessionLost \/ BodyUnwanted \/ OriginAnswers \/ RequestFails \/ OriginEnds \/ WsUpstreamCloses
       => UNCHANGED <<page, origin>>
  BY DEF HttpSessionLost, BodyUnwanted, OriginAnswers, RequestFails, OriginEnds, WsUpstreamCloses
<1> QED
  BY <1>2, <1>3, <1>5, <1>7, <1>9, <1>10, <1>11, <1>12, <1>13, <1>14 DEF HttpNext

(* A request body, and the messages of a WebSocket, reach the upstream as  *)
(* they were sent: HttpSpec implements BytePipe.  In particular a body     *)
(* that was cut, by a reset, a lost session or an upstream that wants no   *)
(* more, is never shown to the upstream as a whole one (OnDAT, OnFIN,      *)
(* pendingStream.close and the peek for the length in http.go).            *)
THEOREM BodyArrivesWhole == HttpSpec => BodyIsPipe
<1>1. HttpInit => Body!PipeInit
  BY DEF HttpInit, Body!PipeInit
<1>2. HttpInv /\ [HttpNext]_httpVars => [Body!PipeNext]_(Body!pipeVars)
  BY BodySteps
<1> QED
  BY <1>1, <1>2, HttpInitInv, HttpStepInv, PTL DEF HttpSpec, BodyIsPipe, Body!PipeSpec

-----------------------------------------------------------------------------
(* The forwarded connection as two pipes.                                  *)

EndRecord == [sent : Nat, end : {"open", "closed", "aborted"}, got : Nat, eof : BOOLEAN]

FwdRecord ==
    [pc : {"open", "await", "abandon", "copy", "done"}, cancelled : BOOLEAN,
     stream : {"live", "failed", "closed"}, conn : {"open", "closed"},
     pump : {"off", "read", "write", "fin", "done", "failed"}, recv : {"off", "on", "done", "failed"},
     read : Nat, sentFIN : BOOLEAN]

TcpRecord ==
    [stream : {"none", "open", "gone"},
     worker : {"idle", "syn", "DAT", "FIN", "OK", "REFUSED", "FAILED"}, held : Nat,
     found : BOOLEAN, entry : BOOLEAN, cancelled : BOOLEAN, conn : {"none", "open", "closed"},
     run : {"none", "dial", "ack", "read", "write", "fin", "drain", "close", "done"}, read : Nat,
     writeDone : BOOLEAN, sentFIN : BOOLEAN, gotFIN : BOOLEAN, session : {"open", "lost"}]

FwdType ==
    /\ app \in EndRecord /\ tgt \in EndRecord /\ fwd \in FwdRecord /\ tcp \in TcpRecord
    /\ up \in Seq(StreamFrame) /\ down \in Seq(StreamFrame)

(* Frames on their way: k frames of this direction came before q[1].  The  *)
(* SYN or the answer is the first frame, the piece p the frame after it,   *)
(* s pieces were sent by the source, and F has the numbers a FIN may have. *)
Frames(q, k, s, F) ==
    \A i \in 1..Len(q) :
        /\ q[i].kind \in {"SYN", "OK", "REFUSED", "FAILED"} => k + i = 1
        /\ q[i].kind = "DAT" => q[i].piece + 1 = k + i /\ q[i].piece <= s
        /\ q[i].kind = "FIN" => k + i \in F

(* A pump that read n pieces has come to the end of its source. *)
EndSeen(e, n) == e.end = "aborted" \/ (e.end = "closed" /\ n = e.sent)

(* The connector. *)
FwdStage(a, f) ==
    /\ f.pc \in {"open", "await", "abandon"} => f.pump = "off"
    /\ (f.pump = "off") <=> (f.recv = "off")
    /\ f.pump = "off" => f.read = 0 /\ a.got = 0 /\ ~a.eof
    /\ f.pump \in {"read", "write", "fin"} \/ f.recv = "on" => f.pc = "copy"
    /\ f.pc # "done" /\ f.conn = "closed" => f.cancelled
    /\ f.pump = "fin" /\ ~f.cancelled => EndSeen(a, f.read)
    /\ f.read <= a.sent
    /\ f.pump = "write" => f.read > 0
    /\ a.eof => f.recv # "on"

(* The listener. *)
TcpStage(t, g) ==
    /\ t.stream = "none" => t.worker = "idle"
    /\ t.stream = "none" \/ t.worker = "syn" => t.run = "none" /\ ~t.gotFIN
    /\ t.run = "none" => ~t.entry /\ g.got = 0 /\ ~g.eof
    /\ t.run \in {"none", "dial", "ack"} => t.read = 0
    /\ t.run \in {"ack", "read", "write"} => t.conn # "none"
    /\ t.read <= g.sent
    /\ t.run = "write" => t.read > 0
    /\ t.run = "fin" => EndSeen(g, t.read)
    /\ g.eof => t.gotFIN
    /\ t.worker \notin {"idle", "syn"} => ~t.gotFIN
    /\ t.entry => t.worker \in {"idle", "syn", "DAT", "FIN"}

(* Upwards: the connector's pump, the queue, the stream's worker. *)
SentUp(f) == IF f.pc = "open" THEN 0 ELSE IF f.pump = "write" THEN f.read ELSE f.read + 1
DueUp(t, g) == IF t.stream = "none" THEN 0 ELSE IF t.worker = "DAT" THEN t.held + 1 ELSE g.got + 1
PumpOver(a, f) == f.pump \in {"done", "failed"} /\ EndSeen(a, f.read)

(* The FIN of a forward that was never established ends nothing. *)
FinUp(a, f) == IF f.pump = "off" THEN Nat ELSE IF PumpOver(a, f) THEN {f.read + 2} ELSE {}

TcpReceiving(t) ==
    \/ t.stream = "none" /\ t.session = "open"
    \/ t.stream = "open" /\ ~t.gotFIN /\ t.worker # "FIN" /\ (t.worker = "syn" \/ t.entry)

UpSending(f, t) ==
    f.stream = "live" /\ t.session = "open" /\ f.pc # "done" /\ f.pump \in {"off", "read", "write", "fin"}

UpChain(a, f, q, t, g) ==
    TcpReceiving(t) =>
        /\ Frames(q, DueUp(t, g), a.sent, FinUp(a, f))
        /\ UpSending(f, t) => DueUp(t, g) + Len(q) = SentUp(f)

UpEnded(a, f, q, t, g) ==
    /\ g.got <= a.sent
    /\ t.entry /\ t.worker = "DAT" => t.held = g.got + 1 /\ t.held <= a.sent
    /\ t.entry /\ t.worker = "FIN" => g.got + 2 \in FinUp(a, f)
    /\ f.pc \in {"open", "await"} => "FIN" \notin KindsOn(q) /\ t.worker # "FIN" /\ ~g.eof

(* Downwards: the listener's pump, the queue, receiveTCP. *)
Unanswered(t) == t.run \in {"none", "dial", "ack"}
SentDown(t) == IF Unanswered(t) THEN 0 ELSE IF t.run = "write" THEN t.read ELSE t.read + 1
DueDown(f, a) == IF f.pc \in {"open", "await"} THEN 0 ELSE a.got + 1
TargetOver(t, g) == t.run \in {"drain", "close", "done"} /\ EndSeen(g, t.read)
FinDown(t, g) == IF TargetOver(t, g) THEN {t.read + 2} ELSE {}

Listening(f) == f.pc \in {"open", "await"} \/ f.recv = "on"

DownSending(t) ==
    /\ t.stream # "gone" /\ ~t.sentFIN /\ t.session = "open"
    /\ Unanswered(t) \/ t.run \in {"read", "write", "fin"}

DownChain(a, f, q, t, g) ==
    /\ Listening(f) =>
        /\ Frames(q, DueDown(f, a), g.sent, FinDown(t, g))
        /\ DownSending(t) => DueDown(f, a) + Len(q) = SentDown(t)
    /\ a.got <= g.sent
    /\ "RESET" \in KindsOn(q) => t.stream = "gone"

ForwardInv(a, f, u, d, t, g) ==
    /\ FwdStage(a, f) /\ TcpStage(t, g)
    /\ UpChain(a, f, u, t, g) /\ UpEnded(a, f, u, t, g)
    /\ DownChain(a, f, d, t, g)

FwdInv == FwdType /\ ForwardInv(app, fwd, up, down, tcp, tgt)

LEMMA FramesTaken ==
    ASSUME NEW q \in Seq(StreamFrame), q # <<>>, NEW k \in Nat, NEW s \in Nat, NEW F, Frames(q, k, s, F)
    PROVE  /\ Frames(Tail(q), k + 1, s, F)
           /\ Head(q).kind \in {"SYN", "OK", "REFUSED", "FAILED"} => k = 0
           /\ Head(q).kind = "DAT" => Head(q).piece = k /\ Head(q).piece <= s
           /\ Head(q).kind = "FIN" => k + 1 \in F
<1>1. /\ Len(q) \in Nat /\ Len(q) > 0 /\ Head(q) = q[1] /\ Head(q) \in StreamFrame
      /\ Len(Tail(q)) = Len(q) - 1
      /\ \A i \in 1..Len(q) - 1 : Tail(q)[i] = q[i + 1]
  OBVIOUS
<1>2. ASSUME NEW i \in 1..Len(Tail(q))
      PROVE  /\ Tail(q)[i].kind \in {"SYN", "OK", "REFUSED", "FAILED"} => k + 1 + i = 1
             /\ Tail(q)[i].kind = "DAT" => Tail(q)[i].piece + 1 = k + 1 + i /\ Tail(q)[i].piece <= s
             /\ Tail(q)[i].kind = "FIN" => k + 1 + i \in F
  <2>1. i + 1 \in 1..Len(q) /\ Tail(q)[i] = q[i + 1] /\ k + (i + 1) = k + 1 + i
    BY <1>1
  <2>2. /\ q[i + 1].kind \in {"SYN", "OK", "REFUSED", "FAILED"} => k + (i + 1) = 1
        /\ q[i + 1].kind = "DAT" => q[i + 1].piece + 1 = k + (i + 1) /\ q[i + 1].piece <= s
        /\ q[i + 1].kind = "FIN" => k + (i + 1) \in F
    BY <2>1 DEF Frames
  <2> QED
    BY <2>1, <2>2
<1>3. Frames(Tail(q), k + 1, s, F)
  BY <1>2 DEF Frames
<1>4. 1 \in 1..Len(q)
  BY <1>1
<1>5. /\ q[1].kind \in {"SYN", "OK", "REFUSED", "FAILED"} => k + 1 = 1
      /\ q[1].kind = "DAT" => q[1].piece + 1 = k + 1 /\ q[1].piece <= s
      /\ q[1].kind = "FIN" => k + 1 \in F
  BY <1>4 DEF Frames
<1>6. q[1].piece \in Nat
  BY <1>1 DEF StreamFrame
<1> QED
  BY <1>1, <1>3, <1>5, <1>6

LEMMA FramesSent ==
    ASSUME NEW q \in Seq(StreamFrame), NEW x \in StreamFrame, NEW k \in Nat, NEW s \in Nat, NEW F,
           Frames(q, k, s, F),
           x.kind \in {"SYN", "OK", "REFUSED", "FAILED"} => k + Len(q) = 0,
           x.kind = "DAT" => x.piece = k + Len(q) /\ x.piece <= s,
           x.kind = "FIN" => k + Len(q) + 1 \in F
    PROVE  Frames(Append(q, x), k, s, F)
<1>1. /\ Len(q) \in Nat /\ Len(Append(q, x)) = Len(q) + 1
      /\ \A i \in 1..Len(q) + 1 : Append(q, x)[i] = IF i = Len(q) + 1 THEN x ELSE q[i]
  OBVIOUS
<1>2. ASSUME NEW i \in 1..Len(q) + 1
      PROVE  /\ Append(q, x)[i].kind \in {"SYN", "OK", "REFUSED", "FAILED"} => k + i = 1
             /\ Append(q, x)[i].kind = "DAT" => Append(q, x)[i].piece + 1 = k + i /\ Append(q, x)[i].piece <= s
             /\ Append(q, x)[i].kind = "FIN" => k + i \in F
  <2>1. CASE i = Len(q) + 1
    <3>1. k + i = k + Len(q) + 1 /\ Append(q, x)[i] = x /\ k + Len(q) \in Nat
      BY <1>1, <2>1
    <3> QED
      BY <3>1
  <2>2. CASE i # Len(q) + 1
    <3>1. i \in 1..Len(q) /\ Append(q, x)[i] = q[i]
      BY <1>1, <2>2
    <3> QED
      BY <3>1 DEF Frames
  <2> QED
    BY <2>1, <2>2
<1> QED
  BY <1>1, <1>2 DEF Frames

LEMMA FramesCut ==
    ASSUME NEW q \in Seq(StreamFrame), NEW n \in 0..Len(q), NEW k, NEW s, NEW F, Frames(q, k, s, F)
    PROVE  Frames(SubSeq(q, 1, n), k, s, F)
<1>1. Len(q) \in Nat /\ Len(SubSeq(q, 1, n)) = n /\ n \in Nat
  OBVIOUS
<1>2. \A i \in 1..n : SubSeq(q, 1, n)[i] = q[i] /\ i \in 1..Len(q)
  BY <1>1
<1> QED
  BY <1>1, <1>2 DEF Frames

(* More may have been sent, and an end has more places, or none is there.  *)
LEMMA FramesStay ==
    ASSUME NEW q \in Seq(StreamFrame), NEW k, NEW s \in Nat, NEW r \in Nat, NEW F, NEW G,
           Frames(q, k, s, F), s <= r, F \subseteq G \/ "FIN" \notin KindsOn(q)
    PROVE  Frames(q, k, r, G)
<1>1. ASSUME NEW i \in 1..Len(q)
      PROVE  /\ q[i].kind \in {"SYN", "OK", "REFUSED", "FAILED"} => k + i = 1
             /\ q[i].kind = "DAT" => q[i].piece + 1 = k + i /\ q[i].piece <= r
             /\ q[i].kind = "FIN" => k + i \in G
  <2>1. /\ q[i].kind \in {"SYN", "OK", "REFUSED", "FAILED"} => k + i = 1
        /\ q[i].kind = "DAT" => q[i].piece + 1 = k + i /\ q[i].piece <= s
        /\ q[i].kind = "FIN" => k + i \in F
    BY DEF Frames
  <2>2. q[i].piece \in Nat
    <3>1. q[i] \in StreamFrame
      OBVIOUS
    <3> QED
      BY <3>1 DEF StreamFrame
  <2>3. q[i].kind \in KindsOn(q)
    BY DEF KindsOn
  <2>4. q[i].piece <= s => q[i].piece <= r
    BY <2>2
  <2> QED
    BY <2>1, <2>3, <2>4
<1> QED
  BY <1>1 DEF Frames

LEMMA UpNumbers ==
    ASSUME NEW f \in FwdRecord, NEW t \in TcpRecord, NEW g \in EndRecord
    PROVE  /\ SentUp(f) \in Nat /\ DueUp(t, g) \in Nat /\ f.read \in Nat /\ t.held \in Nat
           /\ g.got \in Nat /\ g.sent \in Nat
<1>1. f.read \in Nat /\ t.held \in Nat /\ g.got \in Nat /\ g.sent \in Nat
  BY DEF FwdRecord, TcpRecord, EndRecord
<1>2. f.read + 1 \in Nat /\ t.held + 1 \in Nat /\ g.got + 1 \in Nat
  BY <1>1
<1> QED
  BY <1>1, <1>2 DEF SentUp, DueUp

LEMMA DownNumbers ==
    ASSUME NEW f \in FwdRecord, NEW t \in TcpRecord, NEW a \in EndRecord
    PROVE  SentDown(t) \in Nat /\ DueDown(f, a) \in Nat /\ t.read \in Nat /\ a.got \in Nat /\ a.sent \in Nat
<1>1. t.read \in Nat /\ a.got \in Nat /\ a.sent \in Nat
  BY DEF TcpRecord, EndRecord
<1>2. t.read + 1 \in Nat /\ a.got + 1 \in Nat
  BY <1>1
<1> QED
  BY <1>1, <1>2 DEF SentDown, DueDown

(* A step of the application or of the connector that sends nothing. *)
LEMMA UpKept ==
    ASSUME NEW a \in EndRecord, NEW b \in EndRecord, NEW f \in FwdRecord, NEW h \in FwdRecord,
           NEW q \in Seq(StreamFrame), NEW t \in TcpRecord, NEW g \in EndRecord,
           UpChain(a, f, q, t, g), UpEnded(a, f, q, t, g), a.sent <= b.sent,
           FinUp(a, f) \subseteq FinUp(b, h) \/ ("FIN" \notin KindsOn(q) /\ t.worker # "FIN"),
           UpSending(h, t) => UpSending(f, t) /\ SentUp(h) = SentUp(f),
           h.pc \in {"open", "await"} => f.pc \in {"open", "await"}
    PROVE  UpChain(b, h, q, t, g) /\ UpEnded(b, h, q, t, g)
<1>1. a.sent \in Nat /\ b.sent \in Nat /\ g.got \in Nat /\ t.held \in Nat
  BY DEF EndRecord, TcpRecord
<1>2. UpChain(b, h, q, t, g)
  <2> SUFFICES ASSUME TcpReceiving(t)
               PROVE  /\ Frames(q, DueUp(t, g), b.sent, FinUp(b, h))
                      /\ UpSending(h, t) => DueUp(t, g) + Len(q) = SentUp(h)
    BY DEF UpChain
  <2>1. /\ Frames(q, DueUp(t, g), a.sent, FinUp(a, f))
        /\ UpSending(f, t) => DueUp(t, g) + Len(q) = SentUp(f)
    BY DEF UpChain
  <2>2. Frames(q, DueUp(t, g), b.sent, FinUp(b, h))
    BY <1>1, <2>1, FramesStay
  <2> QED
    BY <2>1, <2>2
<1>3. /\ g.got <= a.sent
      /\ t.entry /\ t.worker = "DAT" => t.held = g.got + 1 /\ t.held <= a.sent
      /\ t.entry /\ t.worker = "FIN" => g.got + 2 \in FinUp(a, f)
      /\ f.pc \in {"open", "await"} => "FIN" \notin KindsOn(q) /\ t.worker # "FIN" /\ ~g.eof
  BY DEF UpEnded
<1>4. g.got <= b.sent /\ (t.held <= a.sent => t.held <= b.sent)
  BY <1>1, <1>3
<1>5. UpEnded(b, h, q, t, g)
  BY <1>3, <1>4 DEF UpEnded
<1> QED
  BY <1>2, <1>5

(* The connector sends x. *)
LEMMA UpSent ==
    ASSUME NEW a \in EndRecord, NEW f \in FwdRecord, NEW h \in FwdRecord, NEW x \in StreamFrame,
           NEW q \in Seq(StreamFrame), NEW t \in TcpRecord, NEW g \in EndRecord,
           UpChain(a, f, q, t, g), UpEnded(a, f, q, t, g),
           x.kind \in {"SYN", "DAT", "FIN", "RESET"}, x.kind # "RESET" => UpSending(f, t),
           x.kind = "SYN" => SentUp(f) = 0,
           x.kind = "DAT" => x.piece = SentUp(f) /\ x.piece <= a.sent,
           x.kind = "FIN" => SentUp(f) + 1 \in FinUp(a, h),
           FinUp(a, f) \subseteq FinUp(a, h),
           UpSending(h, t) => UpSending(f, t) /\ SentUp(h) = SentUp(f) + 1,
           h.pc \in {"open", "await"} => f.pc \in {"open", "await"} /\ x.kind # "FIN"
    PROVE  UpChain(a, h, Append(q, x), t, g) /\ UpEnded(a, h, Append(q, x), t, g)
<1>1. /\ SentUp(f) \in Nat /\ DueUp(t, g) \in Nat /\ Len(q) \in Nat /\ a.sent \in Nat
      /\ Len(Append(q, x)) = Len(q) + 1 /\ KindsOn(Append(q, x)) = KindsOn(q) \cup {x.kind}
  BY UpNumbers, FrameSent DEF EndRecord
<1>2. UpChain(a, h, Append(q, x), t, g)
  <2> SUFFICES ASSUME TcpReceiving(t)
               PROVE  /\ Frames(Append(q, x), DueUp(t, g), a.sent, FinUp(a, h))
                      /\ UpSending(h, t) => DueUp(t, g) + Len(Append(q, x)) = SentUp(h)
    BY DEF UpChain
  <2>1. /\ Frames(q, DueUp(t, g), a.sent, FinUp(a, f))
        /\ UpSending(f, t) => DueUp(t, g) + Len(q) = SentUp(f)
    BY DEF UpChain
  <2>2. Frames(q, DueUp(t, g), a.sent, FinUp(a, h))
    BY <1>1, <2>1, FramesStay
  <2>3. Frames(Append(q, x), DueUp(t, g), a.sent, FinUp(a, h))
    <3>1. /\ x.kind \in {"SYN", "OK", "REFUSED", "FAILED"} => DueUp(t, g) + Len(q) = 0
          /\ x.kind = "DAT" => x.piece = DueUp(t, g) + Len(q) /\ x.piece <= a.sent
          /\ x.kind = "FIN" => DueUp(t, g) + Len(q) + 1 \in FinUp(a, h)
      BY <2>1
    <3> QED
      BY <1>1, <2>2, <3>1, FramesSent
  <2>4. UpSending(h, t) => DueUp(t, g) + Len(Append(q, x)) = SentUp(h)
    BY <1>1, <2>1
  <2> QED
    BY <2>3, <2>4
<1>3. UpEnded(a, h, Append(q, x), t, g)
  BY <1>1 DEF UpEnded
<1> QED
  BY <1>2, <1>3

(* A step of the listener that delivers nothing. *)
LEMMA UpHeld ==
    ASSUME NEW a \in EndRecord, NEW f \in FwdRecord, NEW q \in Seq(StreamFrame), NEW p \in Seq(StreamFrame),
           NEW t \in TcpRecord, NEW v \in TcpRecord, NEW g \in EndRecord, NEW r \in EndRecord,
           UpChain(a, f, q, t, g), UpEnded(a, f, q, t, g),
           TcpReceiving(v) => TcpReceiving(t) /\ DueUp(v, r) = DueUp(t, g) /\ p = q,
           v.session = "open" => t.session = "open", r.got = g.got, r.eof = g.eof,
           v.worker = "idle" \/ (v.worker = t.worker /\ v.held = t.held /\ (v.entry => t.entry)),
           KindsOn(p) \subseteq KindsOn(q)
    PROVE  UpChain(a, f, p, v, r) /\ UpEnded(a, f, p, v, r)
<1>1. UpSending(f, v) => UpSending(f, t)
  BY DEF UpSending
<1>2. UpChain(a, f, p, v, r)
  BY <1>1 DEF UpChain
<1>3. UpEnded(a, f, p, v, r)
  BY DEF UpEnded
<1> QED
  BY <1>2, <1>3

(* A step of the target or of the listener that sends nothing. *)
LEMMA DownKept ==
    ASSUME NEW a \in EndRecord, NEW f \in FwdRecord, NEW q \in Seq(StreamFrame),
           NEW t \in TcpRecord, NEW v \in TcpRecord, NEW g \in EndRecord, NEW r \in EndRecord,
           DownChain(a, f, q, t, g), g.sent <= r.sent, FinDown(t, g) \subseteq FinDown(v, r),
           DownSending(v) => DownSending(t) /\ SentDown(v) = SentDown(t),
           t.stream = "gone" => v.stream = "gone"
    PROVE  DownChain(a, f, q, v, r)
<1>1. a.got \in Nat /\ g.sent \in Nat /\ r.sent \in Nat
  BY DEF EndRecord
<1>2. /\ a.got <= g.sent
      /\ "RESET" \in KindsOn(q) => t.stream = "gone"
      /\ Listening(f) =>
           /\ Frames(q, DueDown(f, a), g.sent, FinDown(t, g))
           /\ DownSending(t) => DueDown(f, a) + Len(q) = SentDown(t)
  BY DEF DownChain
<1>3. Listening(f) => Frames(q, DueDown(f, a), r.sent, FinDown(v, r))
  BY <1>1, <1>2, FramesStay
<1>4. a.got <= r.sent
  BY <1>1, <1>2
<1> QED
  BY <1>2, <1>3, <1>4 DEF DownChain

(* The listener sends x. *)
LEMMA DownSent ==
    ASSUME NEW a \in EndRecord, NEW f \in FwdRecord, NEW q \in Seq(StreamFrame), NEW x \in StreamFrame,
           NEW t \in TcpRecord, NEW v \in TcpRecord, NEW g \in EndRecord,
           DownChain(a, f, q, t, g), FinDown(t, g) \subseteq FinDown(v, g),
           x.kind \in {"OK", "REFUSED", "DAT", "FIN", "RESET"}, x.kind # "RESET" => DownSending(t),
           x.kind \in {"OK", "REFUSED"} => SentDown(t) = 0,
           x.kind = "DAT" => x.piece = SentDown(t) /\ x.piece <= g.sent,
           x.kind = "FIN" => SentDown(t) + 1 \in FinDown(v, g),
           x.kind = "RESET" => v.stream = "gone", t.stream = "gone" => v.stream = "gone",
           DownSending(v) => DownSending(t) /\ SentDown(v) = SentDown(t) + 1
    PROVE  DownChain(a, f, Append(q, x), v, g)
<1>1. /\ SentDown(t) \in Nat /\ DueDown(f, a) \in Nat /\ Len(q) \in Nat /\ g.sent \in Nat
      /\ Len(Append(q, x)) = Len(q) + 1 /\ KindsOn(Append(q, x)) = KindsOn(q) \cup {x.kind}
  BY DownNumbers, FrameSent DEF EndRecord
<1>2. ASSUME Listening(f)
      PROVE  /\ Frames(Append(q, x), DueDown(f, a), g.sent, FinDown(v, g))
             /\ DownSending(v) => DueDown(f, a) + Len(Append(q, x)) = SentDown(v)
  <2>1. /\ Frames(q, DueDown(f, a), g.sent, FinDown(t, g))
        /\ DownSending(t) => DueDown(f, a) + Len(q) = SentDown(t)
    BY <1>2 DEF DownChain
  <2>2. Frames(q, DueDown(f, a), g.sent, FinDown(v, g))
    BY <1>1, <2>1, FramesStay
  <2>3. Frames(Append(q, x), DueDown(f, a), g.sent, FinDown(v, g))
    <3>1. /\ x.kind \in {"SYN", "OK", "REFUSED", "FAILED"} => DueDown(f, a) + Len(q) = 0
          /\ x.kind = "DAT" => x.piece = DueDown(f, a) + Len(q) /\ x.piece <= g.sent
          /\ x.kind = "FIN" => DueDown(f, a) + Len(q) + 1 \in FinDown(v, g)
      BY <2>1
    <3> QED
      BY <1>1, <2>2, <3>1, FramesSent
  <2>4. DownSending(v) => DueDown(f, a) + Len(Append(q, x)) = SentDown(v)
    BY <1>1, <2>1
  <2> QED
    BY <2>3, <2>4
<1>3. a.got <= g.sent /\ ("RESET" \in KindsOn(Append(q, x)) => v.stream = "gone")
  BY <1>1 DEF DownChain
<1> QED
  BY <1>2, <1>3 DEF DownChain

(* A step of the connector that reads nothing. *)
LEMMA DownHeard ==
    ASSUME NEW a \in EndRecord, NEW b \in EndRecord, NEW f \in FwdRecord, NEW h \in FwdRecord,
           NEW q \in Seq(StreamFrame), NEW t \in TcpRecord, NEW g \in EndRecord,
           DownChain(a, f, q, t, g), b.got = a.got,
           Listening(h) => Listening(f) /\ DueDown(h, b) = DueDown(f, a)
    PROVE  DownChain(b, h, q, t, g)
BY DEF DownChain

(* The listener sends no more, and what it sent is cut. *)
LEMMA DownCut ==
    ASSUME NEW a \in EndRecord, NEW f \in FwdRecord, NEW h \in FwdRecord,
           NEW q \in Seq(StreamFrame), NEW n \in 0..Len(q),
           NEW t \in TcpRecord, NEW v \in TcpRecord, NEW g \in EndRecord,
           DownChain(a, f, q, t, g), ~DownSending(v), FinDown(t, g) = FinDown(v, g),
           t.stream = "gone" => v.stream = "gone", f.pc = h.pc, f.recv = h.recv
    PROVE  DownChain(a, h, SubSeq(q, 1, n), v, g)
<1>1. KindsOn(SubSeq(q, 1, n)) \subseteq KindsOn(q)
  BY FramesKept
<1>2. Listening(h) = Listening(f) /\ DueDown(h, a) = DueDown(f, a)
  BY DEF Listening, DueDown
<1>3. Listening(f) => Frames(SubSeq(q, 1, n), DueDown(f, a), g.sent, FinDown(t, g))
  BY FramesCut DEF DownChain
<1> QED
  BY <1>1, <1>2, <1>3 DEF DownChain

LEMMA FwdTypes ==
    ASSUME FwdInv
    PROVE  /\ app \in EndRecord /\ tgt \in EndRecord /\ fwd \in FwdRecord /\ tcp \in TcpRecord
           /\ up \in Seq(StreamFrame) /\ down \in Seq(StreamFrame)
           /\ FwdStage(app, fwd) /\ TcpStage(tcp, tgt)
           /\ UpChain(app, fwd, up, tcp, tgt) /\ UpEnded(app, fwd, up, tcp, tgt)
           /\ DownChain(app, fwd, down, tcp, tgt)
BY DEF FwdInv, FwdType, ForwardInv

LEMMA CloseFields ==
    ASSUME NEW t \in TcpRecord
    PROVE  LET v == CloseTcp(t) IN
           /\ v \in TcpRecord /\ v.stream = t.stream /\ v.worker = t.worker /\ v.held = t.held
           /\ v.entry = t.entry /\ v.run = t.run /\ v.read = t.read /\ v.writeDone = t.writeDone
           /\ v.sentFIN = t.sentFIN /\ v.gotFIN = t.gotFIN /\ v.session = t.session
           /\ v.conn = "none" => t.conn = "none"
<1> DEFINE conn == IF t.conn = "open" THEN "closed" ELSE t.conn
           v == [t EXCEPT !.cancelled = TRUE, !.conn = conn]
<1>1. CloseTcp(t) = IF t.entry THEN v ELSE t
  BY DEF CloseTcp
<1>2. conn \in {"none", "closed"} /\ (conn = "none" => t.conn = "none")
  BY DEF TcpRecord
<1> HIDE DEF conn
<1>3. /\ v \in TcpRecord /\ v.stream = t.stream /\ v.worker = t.worker /\ v.held = t.held
      /\ v.entry = t.entry /\ v.run = t.run /\ v.read = t.read /\ v.writeDone = t.writeDone
      /\ v.sentFIN = t.sentFIN /\ v.gotFIN = t.gotFIN /\ v.session = t.session /\ v.conn = conn
  BY <1>2 DEF TcpRecord
<1> HIDE DEF v
<1>4. CASE t.entry
  BY <1>1, <1>2, <1>3, <1>4
<1>5. CASE ~t.entry
  BY <1>1, <1>5
<1> QED
  BY <1>4, <1>5

LEMMA FinishFields ==
    ASSUME NEW t \in TcpRecord
    PROVE  LET v == TcpFinished(t) IN
           /\ v \in TcpRecord /\ v.worker = t.worker /\ v.held = t.held
           /\ v.entry = t.entry /\ v.run = t.run /\ v.read = t.read /\ v.conn = t.conn
           /\ v.sentFIN = t.sentFIN /\ v.gotFIN = t.gotFIN /\ v.session = t.session
           /\ v.stream = t.stream \/ (v.stream = "gone" /\ t.sentFIN /\ t.gotFIN)
<1> DEFINE v == [t EXCEPT !.stream = "gone"]
<1>1. /\ v \in TcpRecord /\ v.worker = t.worker /\ v.held = t.held
      /\ v.entry = t.entry /\ v.run = t.run /\ v.read = t.read /\ v.conn = t.conn
      /\ v.sentFIN = t.sentFIN /\ v.gotFIN = t.gotFIN /\ v.session = t.session /\ v.stream = "gone"
  BY DEF TcpRecord
<1>2. TcpFinished(t) = IF t.sentFIN /\ t.gotFIN THEN v ELSE t
  BY DEF TcpFinished
<1> HIDE DEF v
<1>3. CASE t.sentFIN /\ t.gotFIN
  BY <1>1, <1>2, <1>3
<1>4. CASE ~(t.sentFIN /\ t.gotFIN)
  BY <1>2, <1>4
<1> QED
  BY <1>3, <1>4

(* What the ends and the stages make of unchanged fields. *)
LEMMA SameUp ==
    ASSUME NEW a, NEW b, NEW f, NEW h, b.sent = a.sent, b.end = a.end, h.read = f.read, h.pump = f.pump
    PROVE  FinUp(b, h) = FinUp(a, f)
BY DEF FinUp, PumpOver, EndSeen

LEMMA SameDown ==
    ASSUME NEW t, NEW v, NEW g, NEW r, r.sent = g.sent, r.end = g.end, v.read = t.read, v.run = t.run
    PROVE  FinDown(v, r) = FinDown(t, g) /\ SentDown(v) = SentDown(t)
BY DEF FinDown, TargetOver, EndSeen, SentDown, Unanswered

-----------------------------------------------------------------------------
(* The programs at the ends.                                               *)

LEMMA AppKeeps ==
    ASSUME FwdInv, AppSends \/ \E how \in {"closed", "aborted"} : AppEnds(how)
    PROVE  FwdInv'
<1>1. /\ app \in EndRecord /\ tgt \in EndRecord /\ fwd \in FwdRecord /\ tcp \in TcpRecord
      /\ up \in Seq(StreamFrame) /\ down \in Seq(StreamFrame)
      /\ FwdStage(app, fwd) /\ TcpStage(tcp, tgt)
      /\ UpChain(app, fwd, up, tcp, tgt) /\ UpEnded(app, fwd, up, tcp, tgt)
      /\ DownChain(app, fwd, down, tcp, tgt)
  BY FwdTypes
<1>2. app.sent \in Nat /\ fwd.read \in Nat
  BY <1>1 DEF EndRecord, FwdRecord
<1>3. UNCHANGED <<fwd, up, down, tcp, tgt>> /\ app.end = "open"
  BY DEF AppSends, AppEnds
<1>4. /\ app' \in EndRecord /\ app'.got = app.got /\ app'.eof = app.eof
      /\ app.sent <= app'.sent
  <2>1. CASE AppSends
    <3>1. app' = [app EXCEPT !.sent = app.sent + 1] /\ app.sent + 1 \in Nat
      BY <1>2, <2>1 DEF AppSends
    <3> QED
      BY <1>1, <1>2, <3>1 DEF EndRecord
  <2>2. ASSUME NEW how \in {"closed", "aborted"}, AppEnds(how)
        PROVE  /\ app' \in EndRecord /\ app'.got = app.got /\ app'.eof = app.eof
               /\ app.sent <= app'.sent
    <3>1. app' = [app EXCEPT !.end = how]
      BY <2>2 DEF AppEnds
    <3> QED
      BY <1>1, <1>2, <2>2, <3>1 DEF EndRecord
  <2> QED
    BY <2>1, <2>2
<1>5. ~EndSeen(app, fwd.read)
  BY <1>3 DEF EndSeen
<1>6. FwdStage(app', fwd)
  BY <1>1, <1>2, <1>4, <1>5 DEF FwdStage, EndRecord
<1>7. FinUp(app, fwd) \subseteq FinUp(app', fwd)
  BY <1>5 DEF FinUp, PumpOver
<1>8. UpChain(app', fwd, up, tcp, tgt) /\ UpEnded(app', fwd, up, tcp, tgt)
  BY <1>1, <1>4, <1>7, UpKept
<1>9. DownChain(app', fwd, down, tcp, tgt)
  <2>1. DueDown(fwd, app') = DueDown(fwd, app)
    BY <1>4 DEF DueDown
  <2> QED
    BY <1>1, <1>4, <2>1, DownHeard
<1> QED
  BY <1>1, <1>3, <1>4, <1>6, <1>8, <1>9 DEF FwdInv, FwdType, ForwardInv

LEMMA TargetKeeps ==
    ASSUME FwdInv, TargetSends \/ \E how \in {"closed", "aborted"} : TargetEnds(how)
    PROVE  FwdInv'
<1>1. /\ app \in EndRecord /\ tgt \in EndRecord /\ fwd \in FwdRecord /\ tcp \in TcpRecord
      /\ up \in Seq(StreamFrame) /\ down \in Seq(StreamFrame)
      /\ FwdStage(app, fwd) /\ TcpStage(tcp, tgt)
      /\ UpChain(app, fwd, up, tcp, tgt) /\ UpEnded(app, fwd, up, tcp, tgt)
      /\ DownChain(app, fwd, down, tcp, tgt)
  BY FwdTypes
<1>2. tgt.sent \in Nat /\ tcp.read \in Nat
  BY <1>1 DEF EndRecord, TcpRecord
<1>3. UNCHANGED <<app, fwd, up, down, tcp>> /\ tgt.end = "open"
  BY DEF TargetSends, TargetEnds
<1>4. /\ tgt' \in EndRecord /\ tgt'.got = tgt.got /\ tgt'.eof = tgt.eof
      /\ tgt.sent <= tgt'.sent
  <2>1. CASE TargetSends
    <3>1. tgt' = [tgt EXCEPT !.sent = tgt.sent + 1] /\ tgt.sent + 1 \in Nat
      BY <1>2, <2>1 DEF TargetSends
    <3> QED
      BY <1>1, <1>2, <3>1 DEF EndRecord
  <2>2. ASSUME NEW how \in {"closed", "aborted"}, TargetEnds(how)
        PROVE  /\ tgt' \in EndRecord /\ tgt'.got = tgt.got /\ tgt'.eof = tgt.eof
               /\ tgt.sent <= tgt'.sent
    <3>1. tgt' = [tgt EXCEPT !.end = how]
      BY <2>2 DEF TargetEnds
    <3> QED
      BY <1>1, <1>2, <2>2, <3>1 DEF EndRecord
  <2> QED
    BY <2>1, <2>2
<1>5. ~EndSeen(tgt, tcp.read)
  BY <1>3 DEF EndSeen
<1>6. TcpStage(tcp, tgt')
  BY <1>1, <1>2, <1>4, <1>5 DEF TcpStage, EndRecord
<1>7. FinDown(tcp, tgt) \subseteq FinDown(tcp, tgt')
  BY <1>5 DEF FinDown, TargetOver
<1>8. DownChain(app, fwd, down, tcp, tgt')
  BY <1>1, <1>4, <1>7, DownKept
<1>9. UpChain(app, fwd, up, tcp, tgt') /\ UpEnded(app, fwd, up, tcp, tgt')
  <2>1. DueUp(tcp, tgt') = DueUp(tcp, tgt)
    BY <1>4 DEF DueUp
  <2> QED
    BY <1>1, <1>4, <2>1, UpHeld
<1> QED
  BY <1>1, <1>3, <1>4, <1>6, <1>8, <1>9 DEF FwdInv, FwdType, ForwardInv

-----------------------------------------------------------------------------
(* The connector.                                                          *)

(* A step of the connector only, that neither sends nor reads. *)
LEMMA ConnectorQuiet ==
    ASSUME FwdInv, UNCHANGED <<app, up, down, tcp, tgt>>, NEW h \in FwdRecord, fwd' = h,
           FwdStage(app, h),
           FinUp(app, fwd) \subseteq FinUp(app, h),
           UpSending(h, tcp) => UpSending(fwd, tcp) /\ SentUp(h) = SentUp(fwd),
           h.pc \in {"open", "await"} => fwd.pc \in {"open", "await"},
           Listening(h) => Listening(fwd) /\ DueDown(h, app) = DueDown(fwd, app)
    PROVE  FwdInv'
<1>1. /\ app \in EndRecord /\ tgt \in EndRecord /\ fwd \in FwdRecord /\ tcp \in TcpRecord
      /\ up \in Seq(StreamFrame) /\ down \in Seq(StreamFrame)
      /\ FwdStage(app, fwd) /\ TcpStage(tcp, tgt)
      /\ UpChain(app, fwd, up, tcp, tgt) /\ UpEnded(app, fwd, up, tcp, tgt)
      /\ DownChain(app, fwd, down, tcp, tgt)
  BY FwdTypes
<1>2. app.sent <= app.sent
  BY <1>1 DEF EndRecord
<1>3. UpChain(app, h, up, tcp, tgt) /\ UpEnded(app, h, up, tcp, tgt)
  BY <1>1, <1>2, UpKept
<1>4. DownChain(app, h, down, tcp, tgt)
  BY <1>1, DownHeard
<1> QED
  BY <1>1, <1>3, <1>4 DEF FwdInv, FwdType, ForwardInv

(* A step of the connector that sends x. *)
LEMMA ConnectorSends ==
    ASSUME FwdInv, UNCHANGED <<app, down, tcp, tgt>>, NEW h \in FwdRecord, fwd' = h,
           NEW x \in StreamFrame, up' = Append(up, x),
           FwdStage(app, h),
           x.kind \in {"SYN", "DAT", "FIN", "RESET"}, x.kind # "RESET" => UpSending(fwd, tcp),
           x.kind = "SYN" => SentUp(fwd) = 0,
           x.kind = "DAT" => x.piece = SentUp(fwd) /\ x.piece <= app.sent,
           x.kind = "FIN" => SentUp(fwd) + 1 \in FinUp(app, h),
           FinUp(app, fwd) \subseteq FinUp(app, h),
           UpSending(h, tcp) => UpSending(fwd, tcp) /\ SentUp(h) = SentUp(fwd) + 1,
           h.pc \in {"open", "await"} => fwd.pc \in {"open", "await"} /\ x.kind # "FIN",
           Listening(h) => Listening(fwd) /\ DueDown(h, app) = DueDown(fwd, app)
    PROVE  FwdInv'
<1>1. /\ app \in EndRecord /\ tgt \in EndRecord /\ fwd \in FwdRecord /\ tcp \in TcpRecord
      /\ up \in Seq(StreamFrame) /\ down \in Seq(StreamFrame)
      /\ FwdStage(app, fwd) /\ TcpStage(tcp, tgt)
      /\ UpChain(app, fwd, up, tcp, tgt) /\ UpEnded(app, fwd, up, tcp, tgt)
      /\ DownChain(app, fwd, down, tcp, tgt)
  BY FwdTypes
<1>2. UpChain(app, h, Append(up, x), tcp, tgt) /\ UpEnded(app, h, Append(up, x), tcp, tgt)
  BY <1>1, UpSent
<1>3. DownChain(app, h, down, tcp, tgt)
  BY <1>1, DownHeard
<1>4. Append(up, x) \in Seq(StreamFrame)
  BY <1>1
<1> QED
  BY <1>1, <1>2, <1>3, <1>4 DEF FwdInv, FwdType, ForwardInv

LEMMA ForwardOpensKeeps ==
    ASSUME FwdInv, ForwardOpens
    PROVE  FwdInv'
<1> DEFINE h == [fwd EXCEPT !.pc = "await"]
           z == [fwd EXCEPT !.pc = "abandon"]
<1>1. fwd \in FwdRecord /\ FwdStage(app, fwd) /\ fwd.pc = "open"
  BY FwdTypes DEF ForwardOpens
<1>2. /\ h \in FwdRecord /\ h.pc = "await" /\ h.pump = fwd.pump /\ h.recv = fwd.recv /\ h.read = fwd.read
      /\ h.stream = fwd.stream /\ h.cancelled = fwd.cancelled /\ h.conn = fwd.conn
  BY <1>1 DEF FwdRecord
<1>3. /\ z \in FwdRecord /\ z.pc = "abandon" /\ z.pump = fwd.pump /\ z.recv = fwd.recv /\ z.read = fwd.read
      /\ z.stream = fwd.stream /\ z.cancelled = fwd.cancelled /\ z.conn = fwd.conn
  BY <1>1 DEF FwdRecord
<1>4. fwd.pump = "off" /\ fwd.recv = "off" /\ fwd.read = 0
  BY <1>1 DEF FwdStage
<1>5. CASE FwdCanSend
  <2>1. fwd' = h /\ up' = Append(up, Signal("SYN")) /\ UNCHANGED <<app, down, tcp, tgt>>
    BY <1>5 DEF ForwardOpens, ToListener
  <2>2. Signal("SYN") \in StreamFrame /\ Signal("SYN").kind = "SYN"
    BY Signals
  <2> HIDE DEF h
  <2>3. FwdStage(app, h)
    BY <1>1, <1>2, <1>4 DEF FwdStage
  <2>4. UpSending(fwd, tcp) /\ SentUp(fwd) = 0 /\ SentUp(h) = SentUp(fwd) + 1
    BY <1>1, <1>2, <1>4, <1>5 DEF UpSending, SentUp, FwdCanSend
  <2>5. FinUp(app, fwd) \subseteq FinUp(app, h)
    BY <1>2, SameUp
  <2>6. Listening(fwd) /\ DueDown(h, app) = DueDown(fwd, app)
    BY <1>1, <1>2 DEF Listening, DueDown
  <2> QED
    BY <1>1, <1>2, <2>1, <2>2, <2>3, <2>4, <2>5, <2>6, ConnectorSends
<1>6. CASE ~FwdCanSend
  <2>1. fwd' = z /\ UNCHANGED <<app, up, down, tcp, tgt>>
    BY <1>6 DEF ForwardOpens
  <2> HIDE DEF z
  <2>2. FwdStage(app, z)
    BY <1>1, <1>3, <1>4 DEF FwdStage
  <2>3. ~UpSending(z, tcp) /\ ~Listening(z)
    BY <1>3, <1>4, <1>6 DEF UpSending, FwdCanSend, Listening
  <2>4. FinUp(app, fwd) \subseteq FinUp(app, z)
    BY <1>3, SameUp
  <2> QED
    BY <1>3, <2>1, <2>2, <2>3, <2>4, ConnectorQuiet
<1> QED
  BY <1>5, <1>6

LEMMA AnsweredOkKeeps ==
    ASSUME FwdInv, fwd.pc = "await", down # <<>>, Head(down).kind = "OK", down' = Tail(down),
           fwd' = [fwd EXCEPT !.pc = "copy", !.pump = "read", !.recv = "on"], UNCHANGED <<app, up, tcp, tgt>>
    PROVE  FwdInv'
<1> DEFINE h == [fwd EXCEPT !.pc = "copy", !.pump = "read", !.recv = "on"]
           q == Tail(down)
<1>1. /\ app \in EndRecord /\ tgt \in EndRecord /\ fwd \in FwdRecord /\ tcp \in TcpRecord
      /\ up \in Seq(StreamFrame) /\ down \in Seq(StreamFrame)
      /\ FwdStage(app, fwd) /\ TcpStage(tcp, tgt)
      /\ UpChain(app, fwd, up, tcp, tgt) /\ UpEnded(app, fwd, up, tcp, tgt)
      /\ DownChain(app, fwd, down, tcp, tgt)
  BY FwdTypes
<1>2. /\ h \in FwdRecord /\ h.pc = "copy" /\ h.pump = "read" /\ h.recv = "on" /\ h.read = fwd.read
      /\ h.stream = fwd.stream /\ h.cancelled = fwd.cancelled /\ h.conn = fwd.conn
  BY <1>1 DEF FwdRecord
<1>3. q \in Seq(StreamFrame) /\ Len(q) = Len(down) - 1 /\ Len(down) \in Nat /\ KindsOn(q) \subseteq KindsOn(down)
  BY <1>1, FrameTaken
<1>4. fwd.pump = "off" /\ fwd.read = 0 /\ app.got = 0 /\ ~app.eof /\ app.sent \in Nat /\ tgt.sent \in Nat
  BY <1>1 DEF FwdStage, EndRecord
<1>5. fwd' = h /\ down' = q
  OBVIOUS
<1> HIDE DEF h, q
<1>6. FwdStage(app, h)
  BY <1>1, <1>2, <1>4 DEF FwdStage
<1>7. /\ UpSending(h, tcp) => UpSending(fwd, tcp)
      /\ SentUp(h) = SentUp(fwd)
  BY <1>2, <1>4 DEF UpSending, SentUp
<1>8. "FIN" \notin KindsOn(up) /\ tcp.worker # "FIN"
  BY <1>1 DEF UpEnded
<1>9. UpChain(app, h, up, tcp, tgt) /\ UpEnded(app, h, up, tcp, tgt)
  <2>1. app.sent <= app.sent
    BY <1>4
  <2> QED
    BY <1>1, <1>2, <1>7, <1>8, <2>1, UpKept
<1>10. DownChain(app, h, q, tcp, tgt)
  <2>1. Listening(fwd) /\ DueDown(fwd, app) = 0 /\ DueDown(h, app) = 0 + 1
    BY <1>2, <1>4 DEF Listening, DueDown
  <2>2. /\ Frames(down, 0, tgt.sent, FinDown(tcp, tgt))
        /\ DownSending(tcp) => 0 + Len(down) = SentDown(tcp)
        /\ app.got <= tgt.sent
        /\ "RESET" \in KindsOn(down) => tcp.stream = "gone"
    BY <1>1, <2>1 DEF DownChain
  <2>3. Frames(q, 0 + 1, tgt.sent, FinDown(tcp, tgt))
    BY <1>1, <1>4, <2>2, FramesTaken DEF q
  <2>4. DownSending(tcp) => 0 + 1 + Len(q) = SentDown(tcp)
    BY <1>3, <2>2
  <2> QED
    BY <1>3, <2>1, <2>2, <2>3, <2>4 DEF DownChain
<1> QED
  BY <1>1, <1>2, <1>3, <1>5, <1>6, <1>9, <1>10 DEF FwdInv, FwdType, ForwardInv

(* The queue down may lose its frames once nobody listens. *)
LEMMA ConnectorDeaf ==
    ASSUME FwdInv, UNCHANGED <<app, up, tcp, tgt>>, NEW h \in FwdRecord, fwd' = h,
           NEW q \in Seq(StreamFrame), down' = q, KindsOn(q) \subseteq KindsOn(down),
           FwdStage(app, h), ~Listening(h), h.read = fwd.read, h.pump = fwd.pump,
           UpSending(h, tcp) => UpSending(fwd, tcp) /\ SentUp(h) = SentUp(fwd)
    PROVE  FwdInv'
<1>1. /\ app \in EndRecord /\ tgt \in EndRecord /\ fwd \in FwdRecord /\ tcp \in TcpRecord
      /\ up \in Seq(StreamFrame) /\ down \in Seq(StreamFrame)
      /\ FwdStage(app, fwd) /\ TcpStage(tcp, tgt)
      /\ UpChain(app, fwd, up, tcp, tgt) /\ UpEnded(app, fwd, up, tcp, tgt)
      /\ DownChain(app, fwd, down, tcp, tgt)
  BY FwdTypes
<1>2. app.sent <= app.sent
  BY <1>1 DEF EndRecord
<1>3. h.pc \notin {"open", "await"} /\ FinUp(app, fwd) \subseteq FinUp(app, h)
  BY SameUp DEF Listening
<1>4. UpChain(app, h, up, tcp, tgt) /\ UpEnded(app, h, up, tcp, tgt)
  BY <1>1, <1>2, <1>3, UpKept
<1>5. DownChain(app, h, q, tcp, tgt)
  BY <1>1 DEF DownChain
<1> QED
  BY <1>1, <1>4, <1>5 DEF FwdInv, FwdType, ForwardInv

LEMMA ForwardAnsweredKeeps ==
    ASSUME FwdInv, ForwardAnswered
    PROVE  FwdInv'
<1> DEFINE h == [fwd EXCEPT !.pc = "abandon"]
<1>1. fwd \in FwdRecord /\ FwdStage(app, fwd) /\ fwd.pc = "await" /\ down \in Seq(StreamFrame)
  BY FwdTypes DEF ForwardAnswered
<1>2. /\ h \in FwdRecord /\ h.pc = "abandon" /\ h.pump = fwd.pump /\ h.recv = fwd.recv /\ h.read = fwd.read
      /\ h.stream = fwd.stream /\ h.cancelled = fwd.cancelled /\ h.conn = fwd.conn
  BY <1>1 DEF FwdRecord
<1>3. UNCHANGED <<app, up, tcp, tgt>>
  BY DEF ForwardAnswered
<1>4. CASE down # <<>> /\ Head(down).kind = "OK" /\ down' = Tail(down)
           /\ fwd' = [fwd EXCEPT !.pc = "copy", !.pump = "read", !.recv = "on"]
  BY <1>1, <1>3, <1>4, AnsweredOkKeeps
<1>5. CASE fwd' = h /\ (down' = down \/ (down # <<>> /\ down' = Tail(down)))
  <2>1. down' \in Seq(StreamFrame) /\ KindsOn(down') \subseteq KindsOn(down)
    BY <1>1, <1>5, FrameTaken
  <2>2. fwd' = h
    BY <1>5
  <2> HIDE DEF h
  <2>3. FwdStage(app, h)
    BY <1>1, <1>2 DEF FwdStage
  <2>4. ~Listening(h)
    BY <1>1, <1>2 DEF Listening, FwdStage
  <2>5. UpSending(h, tcp) => UpSending(fwd, tcp) /\ SentUp(h) = SentUp(fwd)
    BY <1>1, <1>2 DEF UpSending, SentUp
  <2> QED
    BY <1>2, <1>3, <2>1, <2>2, <2>3, <2>4, <2>5, ConnectorDeaf
<1> QED
  BY <1>4, <1>5 DEF ForwardAnswered

(* What the rest of a forward makes of its stages. *)
LEMMA ClosedFields ==
    ASSUME NEW f \in FwdRecord
    PROVE  LET h == [f EXCEPT !.pc = "done", !.stream = "closed", !.conn = "closed"] IN
           /\ h \in FwdRecord /\ h.pc = "done" /\ h.stream = "closed" /\ h.conn = "closed"
           /\ h.pump = f.pump /\ h.recv = f.recv /\ h.read = f.read /\ h.cancelled = f.cancelled
BY DEF FwdRecord

(* A closed stream sends no more; its reset may still be sent. *)
LEMMA StreamClosed ==
    ASSUME FwdInv, UNCHANGED <<app, down, tcp, tgt>>, NEW h \in FwdRecord, fwd' = h,
           up' = up \/ up' = Append(up, Signal("RESET")),
           FwdStage(app, h), h.stream # "live", h.read = fwd.read, h.pump = fwd.pump, h.recv = fwd.recv,
           h.pc \notin {"open", "await"}, fwd.pc \notin {"open", "await"}
    PROVE  FwdInv'
<1>1. ~UpSending(h, tcp)
  BY DEF UpSending
<1>2. FinUp(app, fwd) \subseteq FinUp(app, h)
  BY SameUp
<1>3. Listening(h) => Listening(fwd) /\ DueDown(h, app) = DueDown(fwd, app)
  BY DEF Listening, DueDown
<1>4. Signal("RESET") \in StreamFrame /\ Signal("RESET").kind = "RESET"
  BY Signals
<1>5. CASE up' = up
  BY <1>1, <1>2, <1>3, <1>5, ConnectorQuiet
<1>6. CASE up' = Append(up, Signal("RESET"))
  BY <1>1, <1>2, <1>3, <1>4, <1>6, ConnectorSends
<1> QED
  BY <1>5, <1>6

LEMMA ForwardAbandonsKeeps ==
    ASSUME FwdInv, ForwardAbandons
    PROVE  FwdInv'
<1> DEFINE h == [fwd EXCEPT !.pc = "done", !.stream = "closed", !.conn = "closed"]
           p == Append(up, Signal("FIN"))
           q == Append(p, Signal("RESET"))
<1>1. /\ app \in EndRecord /\ tgt \in EndRecord /\ fwd \in FwdRecord /\ tcp \in TcpRecord
      /\ up \in Seq(StreamFrame) /\ down \in Seq(StreamFrame)
      /\ FwdStage(app, fwd) /\ TcpStage(tcp, tgt)
      /\ UpChain(app, fwd, up, tcp, tgt) /\ UpEnded(app, fwd, up, tcp, tgt)
      /\ DownChain(app, fwd, down, tcp, tgt)
  BY FwdTypes
<1>2. /\ fwd' = h /\ fwd.pc = "abandon" /\ UNCHANGED <<app, down, tcp, tgt>>
      /\ up' = IF FwdCanSend THEN up \o <<Signal("FIN"), Signal("RESET")>> ELSE up
  BY DEF ForwardAbandons
<1>3. /\ h \in FwdRecord /\ h.pc = "done" /\ h.stream = "closed" /\ h.conn = "closed"
      /\ h.pump = fwd.pump /\ h.recv = fwd.recv /\ h.read = fwd.read /\ h.cancelled = fwd.cancelled
  BY <1>1, ClosedFields
<1> HIDE DEF h
<1>4. fwd.pump = "off" /\ fwd.recv = "off" /\ fwd.read = 0
  BY <1>1, <1>2 DEF FwdStage
<1>5. FwdStage(app, h)
  BY <1>1, <1>3, <1>4 DEF FwdStage
<1>6. CASE ~FwdCanSend
  <2>1. up' = up /\ h.stream # "live" /\ h.pc \notin {"open", "await"} /\ fwd.pc \notin {"open", "await"}
    BY <1>2, <1>3, <1>6
  <2> QED
    BY <1>2, <1>3, <1>5, <2>1, StreamClosed
<1>7. CASE FwdCanSend
  <2>1. /\ Signal("FIN") \in StreamFrame /\ Signal("FIN").kind = "FIN"
        /\ Signal("RESET") \in StreamFrame /\ Signal("RESET").kind = "RESET"
    BY Signals
  <2>2. p \in Seq(StreamFrame) /\ q \in Seq(StreamFrame)
    BY <1>1, <2>1
  <2>3. up' = q
    <3>1. up' = up \o <<Signal("FIN"), Signal("RESET")>>
      BY <1>2, <1>7
    <3> QED
      BY <1>1, <2>1, <3>1
  <2>4. UpSending(fwd, tcp) /\ ~UpSending(h, tcp)
    BY <1>2, <1>3, <1>4, <1>7 DEF UpSending, FwdCanSend
  <2>5. FinUp(app, fwd) = Nat /\ FinUp(app, h) = Nat /\ SentUp(fwd) + 1 \in Nat
    BY <1>1, <1>3, <1>4, UpNumbers DEF FinUp
  <2>6. UpChain(app, h, p, tcp, tgt) /\ UpEnded(app, h, p, tcp, tgt)
    BY <1>1, <1>3, <2>1, <2>4, <2>5, UpSent
  <2>7. UpChain(app, h, q, tcp, tgt) /\ UpEnded(app, h, q, tcp, tgt)
    <3> HIDE DEF p
    <3> QED
      BY <1>1, <1>3, <2>1, <2>2, <2>4, <2>5, <2>6, UpSent
  <2>8. DownChain(app, h, down, tcp, tgt)
    <3>1. ~Listening(h)
      BY <1>3, <1>4 DEF Listening
    <3> QED
      BY <1>1, <1>3, <3>1, DownHeard
  <2> QED
    BY <1>1, <1>2, <1>3, <1>5, <2>2, <2>3, <2>7, <2>8 DEF FwdInv, FwdType, ForwardInv
<1> QED
  BY <1>6, <1>7

LEMMA PumpReadsKeeps ==
    ASSUME FwdInv, PumpReads
    PROVE  FwdInv'
<1> DEFINE pump == IF Readable THEN "write" ELSE "fin"
           read == IF Readable THEN fwd.read + 1 ELSE fwd.read
           h == [fwd EXCEPT !.pump = pump, !.read = read]
<1>1. /\ app \in EndRecord /\ fwd \in FwdRecord /\ FwdStage(app, fwd)
      /\ fwd.read \in Nat /\ app.sent \in Nat
  BY FwdTypes DEF FwdRecord, EndRecord
<1>2. /\ fwd' = h /\ fwd.pump = "read" /\ UNCHANGED <<app, up, down, tcp, tgt>>
      /\ Readable \/ fwd.conn = "closed" \/ app.end # "open"
  BY DEF PumpReads
<1>3. /\ pump \in {"write", "fin"} /\ read \in Nat
      /\ pump = "write" => read = fwd.read + 1
      /\ pump = "fin" => read = fwd.read
      /\ pump = "write" => read <= app.sent
  <2>1. fwd.read + 1 \in Nat /\ (fwd.read < app.sent => fwd.read + 1 <= app.sent)
    BY <1>1
  <2> QED
    BY <1>1, <2>1 DEF Readable
<1>4. fwd.read <= app.sent /\ fwd.pc = "copy" /\ fwd.recv # "off"
  BY <1>1, <1>2 DEF FwdStage
<1>5. pump = "fin" /\ ~fwd.cancelled => EndSeen(app, read)
  <2> SUFFICES ASSUME pump = "fin", ~fwd.cancelled PROVE EndSeen(app, read)
    OBVIOUS
  <2>1. ~Readable /\ read = fwd.read
    OBVIOUS
  <2>2. fwd.conn # "closed" /\ fwd.conn \in {"open", "closed"}
    BY <1>1, <1>4 DEF FwdStage, FwdRecord
  <2>3. app.end # "open" /\ app.end \in {"open", "closed", "aborted"}
    BY <1>1, <1>2, <2>1, <2>2 DEF EndRecord
  <2>4. app.end = "aborted" \/ ~(fwd.read < app.sent)
    BY <2>1, <2>2 DEF Readable
  <2>5. app.end = "aborted" \/ fwd.read = app.sent
    BY <1>1, <1>4, <2>4
  <2> QED
    BY <2>1, <2>3, <2>5 DEF EndSeen
<1> HIDE DEF pump, read
<1>6. /\ h \in FwdRecord /\ h.pump = pump /\ h.read = read /\ h.pc = fwd.pc /\ h.recv = fwd.recv
      /\ h.stream = fwd.stream /\ h.conn = fwd.conn /\ h.cancelled = fwd.cancelled
  BY <1>1, <1>3 DEF FwdRecord
<1> HIDE DEF h
<1>7. read <= app.sent /\ (pump = "write" => read > 0)
  BY <1>1, <1>3, <1>4
<1>8. FwdStage(app, h)
  BY <1>1, <1>2, <1>3, <1>4, <1>5, <1>6, <1>7 DEF FwdStage
<1>9. FinUp(app, fwd) = {}
  BY <1>2 DEF FinUp, PumpOver
<1>10. UpSending(h, tcp) => UpSending(fwd, tcp) /\ SentUp(h) = SentUp(fwd)
  BY <1>2, <1>3, <1>4, <1>6 DEF UpSending, SentUp
<1>11. Listening(h) => Listening(fwd) /\ DueDown(h, app) = DueDown(fwd, app)
  BY <1>6 DEF Listening, DueDown
<1> QED
  BY <1>2, <1>4, <1>6, <1>8, <1>9, <1>10, <1>11, ConnectorQuiet

LEMMA PumpWritesKeeps ==
    ASSUME FwdInv, PumpWrites
    PROVE  FwdInv'
<1> DEFINE pump == IF app.end = "aborted" THEN "failed" ELSE "done"
           w == [fwd EXCEPT !.pump = "read"]
           e == [fwd EXCEPT !.pump = pump, !.sentFIN = TRUE]
           z == [fwd EXCEPT !.pump = "failed"]
<1>1. /\ app \in EndRecord /\ fwd \in FwdRecord /\ FwdStage(app, fwd) /\ tcp \in TcpRecord
      /\ fwd.read \in Nat /\ app.sent \in Nat
  BY FwdTypes DEF FwdRecord, EndRecord
<1>2. fwd.pump \in {"write", "fin"} /\ UNCHANGED <<app, down, tcp, tgt>>
  BY DEF PumpWrites
<1>3. fwd.read <= app.sent /\ fwd.pc = "copy" /\ fwd.recv # "off" /\ (fwd.pump = "write" => fwd.read > 0)
  BY <1>1, <1>2 DEF FwdStage
<1>4. FinUp(app, fwd) = {}
  BY <1>2 DEF FinUp, PumpOver
<1>5. pump \in {"done", "failed"}
  OBVIOUS
<1>6. /\ w \in FwdRecord /\ w.pump = "read" /\ w.read = fwd.read /\ w.pc = fwd.pc /\ w.recv = fwd.recv
      /\ w.stream = fwd.stream /\ w.conn = fwd.conn /\ w.cancelled = fwd.cancelled
  BY <1>1 DEF FwdRecord
<1>7. /\ z \in FwdRecord /\ z.pump = "failed" /\ z.read = fwd.read /\ z.pc = fwd.pc /\ z.recv = fwd.recv
      /\ z.stream = fwd.stream /\ z.conn = fwd.conn /\ z.cancelled = fwd.cancelled
  BY <1>1 DEF FwdRecord
<1>8. CASE FwdCanSend /\ ~fwd.cancelled /\ fwd.pump = "write"
  <2>1. fwd' = w /\ up' = Append(up, Data(fwd.read))
    BY <1>8 DEF PumpWrites, ToListener
  <2>2. Data(fwd.read) \in StreamFrame /\ Data(fwd.read).kind = "DAT" /\ Data(fwd.read).piece = fwd.read
    BY <1>1, Signals DEF Data
  <2> HIDE DEF w
  <2>3. FwdStage(app, w)
    BY <1>1, <1>2, <1>3, <1>6 DEF FwdStage
  <2>4. UpSending(fwd, tcp) /\ SentUp(fwd) = fwd.read /\ SentUp(w) = SentUp(fwd) + 1
    BY <1>2, <1>3, <1>6, <1>8 DEF UpSending, SentUp, FwdCanSend
  <2>5. Listening(w) => Listening(fwd) /\ DueDown(w, app) = DueDown(fwd, app)
    BY <1>6 DEF Listening, DueDown
  <2> QED
    BY <1>2, <1>3, <1>4, <1>6, <2>1, <2>2, <2>3, <2>4, <2>5, ConnectorSends
<1>9. CASE FwdCanSend /\ ~fwd.cancelled /\ fwd.pump = "fin"
  <2>1. fwd' = e /\ up' = Append(up, Signal("FIN"))
    BY <1>9 DEF PumpWrites, ToListener
  <2>2. Signal("FIN") \in StreamFrame /\ Signal("FIN").kind = "FIN"
    BY Signals
  <2> HIDE DEF pump
  <2>3. /\ e \in FwdRecord /\ e.pump = pump /\ e.read = fwd.read /\ e.pc = fwd.pc /\ e.recv = fwd.recv
        /\ e.stream = fwd.stream /\ e.conn = fwd.conn /\ e.cancelled = fwd.cancelled
    BY <1>1, <1>5 DEF FwdRecord
  <2> HIDE DEF e
  <2>4. FwdStage(app, e)
    BY <1>1, <1>2, <1>3, <1>5, <2>3 DEF FwdStage
  <2>5. UpSending(fwd, tcp) /\ SentUp(fwd) + 1 = fwd.read + 2 /\ ~UpSending(e, tcp)
    BY <1>1, <1>3, <1>5, <1>9, <2>3 DEF UpSending, SentUp, FwdCanSend
  <2>6. EndSeen(app, fwd.read)
    BY <1>1, <1>9 DEF FwdStage
  <2>7. fwd.read + 2 \in FinUp(app, e)
    BY <1>5, <2>3, <2>6 DEF FinUp, PumpOver
  <2>8. Listening(e) => Listening(fwd) /\ DueDown(e, app) = DueDown(fwd, app)
    BY <2>3 DEF Listening, DueDown
  <2> QED
    BY <1>2, <1>3, <1>4, <2>1, <2>2, <2>3, <2>4, <2>5, <2>7, <2>8, ConnectorSends
<1>10. CASE ~(FwdCanSend /\ ~fwd.cancelled)
  <2>1. fwd' = z /\ up' = up
    BY <1>10 DEF PumpWrites
  <2> HIDE DEF z
  <2>2. FwdStage(app, z)
    BY <1>1, <1>2, <1>3, <1>7 DEF FwdStage
  <2>3. ~UpSending(z, tcp)
    BY <1>7 DEF UpSending
  <2>4. Listening(z) => Listening(fwd) /\ DueDown(z, app) = DueDown(fwd, app)
    BY <1>7 DEF Listening, DueDown
  <2> QED
    BY <1>2, <1>3, <1>4, <1>7, <2>1, <2>2, <2>3, <2>4, ConnectorQuiet
<1> QED
  BY <1>2, <1>8, <1>9, <1>10

LEMMA ForwardEndsKeeps ==
    ASSUME FwdInv, ForwardCancels \/ ForwarderClose \/ SessionEndCloses \/ WatcherCloses \/ ForwardReturns
    PROVE  FwdInv'
<1> DEFINE c == [fwd EXCEPT !.cancelled = TRUE, !.conn = "closed"]
           w == [fwd EXCEPT !.stream = "closed", !.conn = "closed"]
           r == [fwd EXCEPT !.pc = "done", !.stream = "closed", !.conn = "closed"]
<1>1. fwd \in FwdRecord /\ FwdStage(app, fwd)
  BY FwdTypes
<1>2. CASE ForwardCancels \/ ForwarderClose \/ SessionEndCloses
  <2>1. fwd' = c /\ UNCHANGED <<app, up, down, tcp, tgt>>
    BY <1>2 DEF ForwardCancels, ForwarderClose, SessionEndCloses
  <2>2. /\ c \in FwdRecord /\ c.pump = fwd.pump /\ c.read = fwd.read /\ c.pc = fwd.pc /\ c.recv = fwd.recv
        /\ c.stream = fwd.stream /\ c.conn = "closed" /\ c.cancelled = TRUE
    BY <1>1 DEF FwdRecord
  <2> HIDE DEF c
  <2>3. FwdStage(app, c)
    BY <1>1, <2>2 DEF FwdStage
  <2>4. FinUp(app, fwd) \subseteq FinUp(app, c)
    BY <2>2, SameUp
  <2>5. /\ UpSending(c, tcp) => UpSending(fwd, tcp) /\ SentUp(c) = SentUp(fwd)
        /\ Listening(c) => Listening(fwd) /\ DueDown(c, app) = DueDown(fwd, app)
    BY <2>2 DEF UpSending, SentUp, Listening, DueDown
  <2> QED
    BY <2>1, <2>2, <2>3, <2>4, <2>5, ConnectorQuiet
<1>3. StreamClose = up \/ StreamClose = Append(up, Signal("RESET"))
  BY DEF StreamClose
<1>4. CASE WatcherCloses
  <2>1. /\ fwd' = w /\ up' = StreamClose /\ UNCHANGED <<app, down, tcp, tgt>>
        /\ fwd.pc = "copy" /\ fwd.cancelled
    BY <1>4 DEF WatcherCloses
  <2>2. /\ w \in FwdRecord /\ w.pump = fwd.pump /\ w.read = fwd.read /\ w.pc = fwd.pc /\ w.recv = fwd.recv
        /\ w.stream = "closed" /\ w.conn = "closed" /\ w.cancelled = fwd.cancelled
    BY <1>1 DEF FwdRecord
  <2> HIDE DEF w
  <2>3. FwdStage(app, w)
    BY <1>1, <2>1, <2>2 DEF FwdStage
  <2>4. w.stream # "live" /\ w.pc \notin {"open", "await"} /\ fwd.pc \notin {"open", "await"}
    BY <2>1, <2>2
  <2> QED
    BY <1>3, <2>1, <2>2, <2>3, <2>4, StreamClosed
<1>5. CASE ForwardReturns
  <2>1. /\ fwd' = r /\ up' = StreamClose /\ UNCHANGED <<app, down, tcp, tgt>>
        /\ fwd.pc = "copy" /\ fwd.pump \in {"done", "failed"} /\ fwd.recv \in {"done", "failed"}
    BY <1>5 DEF ForwardReturns
  <2>2. /\ r \in FwdRecord /\ r.pc = "done" /\ r.stream = "closed" /\ r.conn = "closed"
        /\ r.pump = fwd.pump /\ r.recv = fwd.recv /\ r.read = fwd.read /\ r.cancelled = fwd.cancelled
    BY <1>1, ClosedFields
  <2> HIDE DEF r
  <2>3. FwdStage(app, r)
    BY <1>1, <2>1, <2>2 DEF FwdStage
  <2>4. r.stream # "live" /\ r.pc \notin {"open", "await"} /\ fwd.pc \notin {"open", "await"}
    BY <2>1, <2>2
  <2> QED
    BY <1>3, <2>1, <2>2, <2>3, <2>4, StreamClosed
<1> QED
  BY <1>2, <1>4, <1>5

LEMMA ReceiveCopiesKeeps ==
    ASSUME FwdInv, ReceiveCopies
    PROVE  FwdInv'
<1>1. /\ app \in EndRecord /\ tgt \in EndRecord /\ fwd \in FwdRecord /\ tcp \in TcpRecord
      /\ up \in Seq(StreamFrame) /\ down \in Seq(StreamFrame)
      /\ FwdStage(app, fwd) /\ TcpStage(tcp, tgt)
      /\ UpChain(app, fwd, up, tcp, tgt) /\ UpEnded(app, fwd, up, tcp, tgt)
      /\ DownChain(app, fwd, down, tcp, tgt)
  BY FwdTypes
<1>2. fwd.recv = "on" /\ UNCHANGED <<up, tcp, tgt>>
  BY DEF ReceiveCopies
<1>3. fwd.pc = "copy" /\ ~app.eof /\ fwd.pump # "off"
  BY <1>1, <1>2 DEF FwdStage
<1>4. /\ app.got \in Nat /\ app.sent \in Nat /\ tgt.sent \in Nat
      /\ app.got + 1 \in Nat /\ DueDown(fwd, app) = app.got + 1
  BY <1>1, <1>3 DEF EndRecord, DueDown
<1>5. /\ Frames(down, app.got + 1, tgt.sent, FinDown(tcp, tgt))
      /\ DownSending(tcp) => app.got + 1 + Len(down) = SentDown(tcp)
      /\ app.got <= tgt.sent
      /\ "RESET" \in KindsOn(down) => tcp.stream = "gone"
  BY <1>1, <1>2, <1>4 DEF DownChain, Listening
<1>6. ASSUME NEW recv \in {"on", "done", "failed"}, fwd' = [fwd EXCEPT !.recv = recv],
             app' \in EndRecord, app'.sent = app.sent, app'.end = app.end, app'.eof => recv # "on",
             app'.got <= tgt.sent, NEW q \in Seq(StreamFrame), down' = q, KindsOn(q) \subseteq KindsOn(down),
             recv = "on" => /\ Frames(q, app'.got + 1, tgt.sent, FinDown(tcp, tgt))
                            /\ DownSending(tcp) => app'.got + 1 + Len(q) = SentDown(tcp)
      PROVE  FwdInv'
  <2> DEFINE h == [fwd EXCEPT !.recv = recv]
  <2>1. /\ h \in FwdRecord /\ h.pump = fwd.pump /\ h.read = fwd.read /\ h.pc = fwd.pc /\ h.recv = recv
        /\ h.stream = fwd.stream /\ h.conn = fwd.conn /\ h.cancelled = fwd.cancelled
    BY <1>1, <1>6 DEF FwdRecord
  <2>2. fwd' = h
    BY <1>6
  <2> HIDE DEF h
  <2>3. FwdStage(app', h)
    BY <1>1, <1>3, <1>6, <2>1 DEF FwdStage, EndSeen
  <2>4. FinUp(app, fwd) \subseteq FinUp(app', h)
    BY <1>6, <2>1, SameUp
  <2>5. UpSending(h, tcp) => UpSending(fwd, tcp) /\ SentUp(h) = SentUp(fwd)
    BY <2>1 DEF UpSending, SentUp
  <2>6. app.sent <= app'.sent
    BY <1>4, <1>6
  <2>7. UpChain(app', h, up, tcp, tgt) /\ UpEnded(app', h, up, tcp, tgt)
    BY <1>1, <1>6, <2>1, <2>4, <2>5, <2>6, UpKept
  <2>8. DueDown(h, app') = app'.got + 1 /\ (Listening(h) => recv = "on")
    BY <1>3, <2>1 DEF DueDown, Listening
  <2>9. DownChain(app', h, q, tcp, tgt)
    BY <1>5, <1>6, <2>8 DEF DownChain
  <2> QED
    BY <1>1, <1>2, <1>6, <2>1, <2>2, <2>3, <2>7, <2>9 DEF FwdInv, FwdType, ForwardInv
<1>7. CASE fwd' = [fwd EXCEPT !.recv = "failed"] /\ UNCHANGED <<app, down>>
  <2>1. "failed" \in {"on", "done", "failed"} /\ "failed" # "on" /\ app' = app /\ down' = down
    BY <1>7
  <2> QED
    BY <1>1, <1>5, <1>6, <1>7, <2>1
<1>8. CASE down # <<>> /\ down' = Tail(down) /\ Head(down).kind # "RESET"
  <2> DEFINE x == Head(down)
             q == Tail(down)
  <2>1. /\ q \in Seq(StreamFrame) /\ Len(q) = Len(down) - 1 /\ Len(down) \in Nat
        /\ x \in StreamFrame /\ KindsOn(q) \subseteq KindsOn(down)
    BY <1>1, <1>8, FrameTaken
  <2>2. /\ Frames(q, app.got + 1 + 1, tgt.sent, FinDown(tcp, tgt))
        /\ x.kind \in {"SYN", "OK", "REFUSED", "FAILED"} => app.got + 1 = 0
        /\ x.kind = "DAT" => x.piece = app.got + 1 /\ x.piece <= tgt.sent
    BY <1>1, <1>4, <1>5, <1>8, FramesTaken
  <2>3. x.kind \in {"DAT", "FIN"} /\ x.piece \in Nat
    <3>1. app.got + 1 # 0
      BY <1>4
    <3> QED
      BY <1>8, <2>1, <2>2, <3>1 DEF StreamFrame
  <2>4. down' = q
    BY <1>8
  <2> HIDE DEF x, q
  <2>5. CASE x.kind = "FIN"
    <3> DEFINE eof == (fwd.conn = "open")
    <3>1. app' = [app EXCEPT !.eof = eof] /\ fwd' = [fwd EXCEPT !.recv = "done"]
      BY <1>7, <1>8, <2>5 DEF ReceiveCopies, x
    <3>2. eof \in BOOLEAN
      OBVIOUS
    <3> HIDE DEF eof
    <3>3. app' \in EndRecord /\ app'.sent = app.sent /\ app'.end = app.end /\ app'.got = app.got
      BY <1>1, <3>1, <3>2 DEF EndRecord
    <3> QED
      BY <1>5, <1>6, <2>1, <2>4, <3>1, <3>3
  <2>6. CASE x.kind = "DAT"
    <3> DEFINE got == IF fwd.conn = "open" THEN x.piece ELSE app.got
               recv == IF fwd.conn = "open" /\ app.end # "aborted" THEN fwd.recv ELSE "failed"
    <3>1. \/ app' = [app EXCEPT !.got = got] /\ fwd' = [fwd EXCEPT !.recv = recv]
          \/ fwd' = [fwd EXCEPT !.recv = "failed"] /\ UNCHANGED <<app, down>>
      BY <1>8, <2>6 DEF ReceiveCopies, x
    <3>2. /\ got \in Nat /\ recv \in {"on", "failed"} /\ got <= tgt.sent
          /\ recv = "on" => got = app.got + 1
      BY <1>2, <1>4, <1>5, <2>2, <2>3, <2>6
    <3> HIDE DEF got, recv
    <3>3. CASE app' = [app EXCEPT !.got = got] /\ fwd' = [fwd EXCEPT !.recv = recv]
      <4>1. app' \in EndRecord /\ app'.sent = app.sent /\ app'.end = app.end /\ app'.got = got /\ app'.eof = app.eof
        BY <1>1, <3>2, <3>3 DEF EndRecord
      <4>2. recv = "on" => /\ Frames(q, app'.got + 1, tgt.sent, FinDown(tcp, tgt))
                           /\ DownSending(tcp) => app'.got + 1 + Len(q) = SentDown(tcp)
        <5> SUFFICES ASSUME recv = "on"
                     PROVE  /\ Frames(q, app'.got + 1, tgt.sent, FinDown(tcp, tgt))
                            /\ DownSending(tcp) => app'.got + 1 + Len(q) = SentDown(tcp)
          OBVIOUS
        <5>1. app'.got + 1 = app.got + 1 + 1
          BY <3>2, <4>1
        <5>2. DownSending(tcp) => app.got + 1 + 1 + Len(q) = SentDown(tcp)
          BY <1>4, <1>5, <2>1
        <5> QED
          BY <2>2, <5>1, <5>2
      <4> QED
        BY <1>3, <1>6, <2>1, <2>4, <3>2, <3>3, <4>1, <4>2
    <3> QED
      BY <1>7, <3>1, <3>3
  <2> QED
    BY <2>3, <2>5, <2>6
<1> QED
  BY <1>7, <1>8 DEF ReceiveCopies

LEMMA ConnectorResetKeeps ==
    ASSUME FwdInv, ConnectorReset
    PROVE  FwdInv'
<1> DEFINE stream == IF fwd.stream = "live" THEN "failed" ELSE fwd.stream
           h == [fwd EXCEPT !.stream = stream]
           at == CHOOSE i \in DOMAIN down : down[i].kind = "RESET"
<1>1. /\ app \in EndRecord /\ tgt \in EndRecord /\ fwd \in FwdRecord /\ tcp \in TcpRecord
      /\ up \in Seq(StreamFrame) /\ down \in Seq(StreamFrame)
      /\ FwdStage(app, fwd) /\ TcpStage(tcp, tgt)
      /\ UpChain(app, fwd, up, tcp, tgt) /\ UpEnded(app, fwd, up, tcp, tgt)
      /\ DownChain(app, fwd, down, tcp, tgt)
  BY FwdTypes
<1>2. HasReset(down) /\ down' = BeforeReset(down) /\ fwd' = h /\ UNCHANGED <<app, up, tcp, tgt>>
  BY DEF ConnectorReset
<1>3. at \in DOMAIN down /\ down[at].kind = "RESET" /\ DOMAIN down = 1..Len(down) /\ Len(down) \in Nat
  BY <1>1, <1>2 DEF HasReset
<1>4. down' = SubSeq(down, 1, at - 1)
  BY <1>2 DEF BeforeReset
<1> HIDE DEF at
<1>5. at - 1 \in 0..Len(down) /\ "RESET" \in KindsOn(down)
  <2>1. at - 1 \in 0..Len(down)
    BY <1>3
  <2>2. "RESET" \in KindsOn(down)
    BY <1>3 DEF KindsOn
  <2> QED
    BY <2>1, <2>2
<1>6. stream \in {"failed", "closed"}
  BY <1>1 DEF FwdRecord
<1> HIDE DEF stream
<1>7. /\ h \in FwdRecord /\ h.pump = fwd.pump /\ h.read = fwd.read /\ h.pc = fwd.pc /\ h.recv = fwd.recv
      /\ h.stream = stream /\ h.conn = fwd.conn /\ h.cancelled = fwd.cancelled
  BY <1>1, <1>6 DEF FwdRecord
<1> HIDE DEF h
<1>8. FwdStage(app, h)
  BY <1>1, <1>7 DEF FwdStage
<1>9. FinUp(app, fwd) \subseteq FinUp(app, h) /\ ~UpSending(h, tcp)
  BY <1>6, <1>7, SameUp DEF UpSending
<1>10. app.sent <= app.sent
  BY <1>1 DEF EndRecord
<1>11. UpChain(app, h, up, tcp, tgt) /\ UpEnded(app, h, up, tcp, tgt)
  BY <1>1, <1>7, <1>9, <1>10, UpKept
<1>12. ~DownSending(tcp)
  BY <1>1, <1>5 DEF DownChain, DownSending
<1>13. DownChain(app, h, SubSeq(down, 1, at - 1), tcp, tgt)
  BY <1>1, <1>5, <1>7, <1>12, DownCut
<1>14. down' \in Seq(StreamFrame)
  BY <1>1, <1>4, <1>5, FramesKept
<1> QED
  BY <1>1, <1>2, <1>4, <1>7, <1>8, <1>11, <1>13, <1>14 DEF FwdInv, FwdType, ForwardInv

-----------------------------------------------------------------------------
(* The listener.                                                           *)

(* A step of the listener that takes no frame, sends none and delivers     *)
(* none.                                                                   *)
LEMMA ListenerQuiet ==
    ASSUME FwdInv, UNCHANGED <<app, fwd, up, down, tgt>>, NEW v \in TcpRecord, tcp' = v, TcpStage(v, tgt),
           TcpReceiving(v) => TcpReceiving(tcp) /\ DueUp(v, tgt) = DueUp(tcp, tgt),
           v.session = "open" => tcp.session = "open",
           v.worker = "idle" \/ (v.worker = tcp.worker /\ v.held = tcp.held /\ (v.entry => tcp.entry)),
           FinDown(tcp, tgt) \subseteq FinDown(v, tgt),
           DownSending(v) => DownSending(tcp) /\ SentDown(v) = SentDown(tcp),
           tcp.stream = "gone" => v.stream = "gone"
    PROVE  FwdInv'
<1>1. /\ app \in EndRecord /\ tgt \in EndRecord /\ fwd \in FwdRecord /\ tcp \in TcpRecord
      /\ up \in Seq(StreamFrame) /\ down \in Seq(StreamFrame)
      /\ FwdStage(app, fwd) /\ TcpStage(tcp, tgt)
      /\ UpChain(app, fwd, up, tcp, tgt) /\ UpEnded(app, fwd, up, tcp, tgt)
      /\ DownChain(app, fwd, down, tcp, tgt)
  BY FwdTypes
<1>2. UpChain(app, fwd, up, v, tgt) /\ UpEnded(app, fwd, up, v, tgt)
  BY <1>1, UpHeld
<1>3. DownChain(app, fwd, down, v, tgt)
  <2>1. tgt.sent <= tgt.sent
    BY <1>1 DEF EndRecord
  <2> QED
    BY <1>1, <2>1, DownKept
<1> QED
  BY <1>1, <1>2, <1>3 DEF FwdInv, FwdType, ForwardInv

(* A step of the listener that sends x. *)
LEMMA ListenerSends ==
    ASSUME FwdInv, UNCHANGED <<app, fwd, up, tgt>>, NEW v \in TcpRecord, tcp' = v, TcpStage(v, tgt),
           NEW x \in StreamFrame, down' = Append(down, x),
           TcpReceiving(v) => TcpReceiving(tcp) /\ DueUp(v, tgt) = DueUp(tcp, tgt),
           v.session = "open" => tcp.session = "open",
           v.worker = "idle" \/ (v.worker = tcp.worker /\ v.held = tcp.held /\ (v.entry => tcp.entry)),
           FinDown(tcp, tgt) \subseteq FinDown(v, tgt),
           x.kind \in {"OK", "REFUSED", "DAT", "FIN", "RESET"}, x.kind # "RESET" => DownSending(tcp),
           x.kind \in {"OK", "REFUSED"} => SentDown(tcp) = 0,
           x.kind = "DAT" => x.piece = SentDown(tcp) /\ x.piece <= tgt.sent,
           x.kind = "FIN" => SentDown(tcp) + 1 \in FinDown(v, tgt),
           x.kind = "RESET" => v.stream = "gone", tcp.stream = "gone" => v.stream = "gone",
           DownSending(v) => DownSending(tcp) /\ SentDown(v) = SentDown(tcp) + 1
    PROVE  FwdInv'
<1>1. /\ app \in EndRecord /\ tgt \in EndRecord /\ fwd \in FwdRecord /\ tcp \in TcpRecord
      /\ up \in Seq(StreamFrame) /\ down \in Seq(StreamFrame)
      /\ FwdStage(app, fwd) /\ TcpStage(tcp, tgt)
      /\ UpChain(app, fwd, up, tcp, tgt) /\ UpEnded(app, fwd, up, tcp, tgt)
      /\ DownChain(app, fwd, down, tcp, tgt)
  BY FwdTypes
<1>2. UpChain(app, fwd, up, v, tgt) /\ UpEnded(app, fwd, up, v, tgt)
  BY <1>1, UpHeld
<1>3. DownChain(app, fwd, Append(down, x), v, tgt)
  BY <1>1, DownSent
<1>4. Append(down, x) \in Seq(StreamFrame)
  BY <1>1
<1> QED
  BY <1>1, <1>2, <1>3, <1>4 DEF FwdInv, FwdType, ForwardInv

LEMMA TcpAdmitKeeps ==
    ASSUME FwdInv, TcpAdmit
    PROVE  FwdInv'
<1> DEFINE v == [tcp EXCEPT !.stream = "open", !.worker = "syn"]
           q == Tail(up)
<1>1. /\ app \in EndRecord /\ tgt \in EndRecord /\ fwd \in FwdRecord /\ tcp \in TcpRecord
      /\ up \in Seq(StreamFrame) /\ down \in Seq(StreamFrame)
      /\ FwdStage(app, fwd) /\ TcpStage(tcp, tgt)
      /\ UpChain(app, fwd, up, tcp, tgt) /\ UpEnded(app, fwd, up, tcp, tgt)
      /\ DownChain(app, fwd, down, tcp, tgt)
  BY FwdTypes
<1>2. /\ tcp' = v /\ up' = q /\ UNCHANGED <<app, fwd, down, tgt>> /\ up # <<>>
      /\ tcp.session = "open" /\ tcp.stream = "none"
  BY DEF TcpAdmit
<1>3. /\ v \in TcpRecord /\ v.stream = "open" /\ v.worker = "syn" /\ v.held = tcp.held /\ v.entry = tcp.entry
      /\ v.run = tcp.run /\ v.read = tcp.read /\ v.conn = tcp.conn /\ v.sentFIN = tcp.sentFIN
      /\ v.gotFIN = tcp.gotFIN /\ v.session = tcp.session
  BY <1>1 DEF TcpRecord
<1>4. q \in Seq(StreamFrame) /\ Len(q) = Len(up) - 1 /\ Len(up) \in Nat /\ KindsOn(q) \subseteq KindsOn(up)
  BY <1>1, <1>2, FrameTaken
<1>5. /\ tcp.run = "none" /\ ~tcp.gotFIN /\ ~tcp.entry /\ tgt.got = 0 /\ ~tgt.eof /\ tcp.worker = "idle"
      /\ app.sent \in Nat /\ tgt.sent \in Nat
  BY <1>1, <1>2 DEF TcpStage, EndRecord
<1>6. /\ Frames(up, 0, app.sent, FinUp(app, fwd))
      /\ UpSending(fwd, tcp) => 0 + Len(up) = SentUp(fwd)
  BY <1>1, <1>2 DEF UpChain, TcpReceiving, DueUp
<1>7. Frames(q, 0 + 1, app.sent, FinUp(app, fwd))
  BY <1>1, <1>2, <1>5, <1>6, FramesTaken
<1> HIDE DEF v, q
<1>8. DueUp(v, tgt) = 0 + 1 /\ (UpSending(fwd, v) => UpSending(fwd, tcp))
  BY <1>3, <1>5 DEF DueUp, UpSending
<1>9. UpSending(fwd, tcp) => 0 + 1 + Len(q) = SentUp(fwd)
  BY <1>4, <1>6
<1>10. UpChain(app, fwd, q, v, tgt)
  BY <1>7, <1>8, <1>9 DEF UpChain
<1>11. UpEnded(app, fwd, q, v, tgt)
  BY <1>1, <1>3, <1>4, <1>5 DEF UpEnded
<1>12. TcpStage(v, tgt)
  BY <1>1, <1>3, <1>5 DEF TcpStage
<1>13. DownChain(app, fwd, down, v, tgt)
  <2>1. tgt.sent <= tgt.sent
    BY <1>5
  <2>2. FinDown(v, tgt) = FinDown(tcp, tgt) /\ SentDown(v) = SentDown(tcp)
    BY <1>3, SameDown
  <2>3. DownSending(v) => DownSending(tcp)
    BY <1>2, <1>3 DEF DownSending, Unanswered
  <2> QED
    BY <1>1, <1>2, <1>3, <2>1, <2>2, <2>3, DownKept
<1> QED
  BY <1>1, <1>2, <1>3, <1>4, <1>10, <1>11, <1>12, <1>13 DEF FwdInv, FwdType, ForwardInv

LEMMA TcpRefusesKeeps ==
    ASSUME FwdInv, TcpRefuses
    PROVE  FwdInv'
<1> DEFINE fin == tcp.sentFIN \/ TcpCanSend
           w == [tcp EXCEPT !.worker = "idle", !.sentFIN = fin]
           v == TcpFinished(w)
<1>1. tcp \in TcpRecord /\ TcpStage(tcp, tgt)
  BY FwdTypes
<1>2. /\ tcp' = v /\ tcp.worker = "syn" /\ UNCHANGED <<app, fwd, up, tgt>>
      /\ down' = IF TcpCanSend THEN Append(down, Signal("REFUSED")) ELSE down
  BY DEF TcpRefuses
<1>3. fin \in BOOLEAN /\ (TcpCanSend => fin) /\ (tcp.sentFIN => fin)
  BY <1>1 DEF TcpRecord
<1> HIDE DEF fin
<1>4. /\ w \in TcpRecord /\ w.stream = tcp.stream /\ w.worker = "idle" /\ w.held = tcp.held /\ w.entry = tcp.entry
      /\ w.run = tcp.run /\ w.read = tcp.read /\ w.conn = tcp.conn /\ w.sentFIN = fin
      /\ w.gotFIN = tcp.gotFIN /\ w.session = tcp.session
  BY <1>1, <1>3 DEF TcpRecord
<1> HIDE DEF w
<1>5. /\ v \in TcpRecord /\ v.worker = w.worker /\ v.entry = w.entry /\ v.run = w.run /\ v.read = w.read
      /\ v.conn = w.conn /\ v.sentFIN = w.sentFIN /\ v.gotFIN = w.gotFIN /\ v.session = w.session
      /\ v.stream = w.stream \/ v.stream = "gone"
  BY <1>4, FinishFields
<1> HIDE DEF v
<1>6. tcp.run = "none" /\ ~tcp.entry /\ tcp.stream # "none" /\ ~tcp.gotFIN
  BY <1>1, <1>2 DEF TcpStage
<1>7. TcpStage(v, tgt)
  BY <1>1, <1>4, <1>5, <1>6 DEF TcpStage
<1>8. ~TcpReceiving(v)
  BY <1>4, <1>5, <1>6 DEF TcpReceiving
<1>9. FinDown(v, tgt) = FinDown(tcp, tgt) /\ SentDown(v) = SentDown(tcp) /\ SentDown(tcp) = 0
  BY <1>4, <1>5, <1>6, SameDown DEF SentDown, Unanswered
<1>10. CASE TcpCanSend
  <2>1. Signal("REFUSED") \in StreamFrame /\ Signal("REFUSED").kind = "REFUSED"
    BY Signals
  <2>2. DownSending(tcp) /\ ~DownSending(v)
    BY <1>3, <1>4, <1>5, <1>6, <1>10 DEF DownSending, TcpCanSend, Unanswered
  <2> QED
    BY <1>2, <1>4, <1>5, <1>7, <1>8, <1>9, <1>10, <2>1, <2>2, ListenerSends
<1>11. CASE ~TcpCanSend
  <2>1. DownSending(v) => DownSending(tcp)
    BY <1>3, <1>4, <1>5, <1>6 DEF DownSending, Unanswered
  <2> QED
    BY <1>2, <1>4, <1>5, <1>7, <1>8, <1>9, <1>11, <2>1, ListenerQuiet
<1> QED
  BY <1>10, <1>11

LEMMA TcpRegistersKeeps ==
    ASSUME FwdInv, TcpRegisters
    PROVE  FwdInv'
<1> DEFINE cancelled == (tcp.session = "lost")
           v == [tcp EXCEPT !.worker = "idle", !.entry = TRUE, !.run = "dial", !.cancelled = cancelled]
<1>1. tcp \in TcpRecord /\ TcpStage(tcp, tgt)
  BY FwdTypes
<1>2. tcp' = v /\ tcp.worker = "syn" /\ UNCHANGED <<app, fwd, up, down, tgt>>
  BY DEF TcpRegisters
<1>3. cancelled \in BOOLEAN
  OBVIOUS
<1> HIDE DEF cancelled
<1>4. /\ v \in TcpRecord /\ v.stream = tcp.stream /\ v.worker = "idle" /\ v.held = tcp.held /\ v.entry = TRUE
      /\ v.run = "dial" /\ v.read = tcp.read /\ v.conn = tcp.conn /\ v.sentFIN = tcp.sentFIN
      /\ v.gotFIN = tcp.gotFIN /\ v.session = tcp.session
  BY <1>1, <1>3 DEF TcpRecord
<1> HIDE DEF v
<1>5. /\ tcp.run = "none" /\ ~tcp.gotFIN /\ tcp.stream # "none" /\ tgt.got = 0 /\ ~tgt.eof /\ tcp.read = 0
  BY <1>1, <1>2 DEF TcpStage
<1>6. TcpStage(v, tgt)
  BY <1>1, <1>4, <1>5 DEF TcpStage
<1>7. TcpReceiving(v) => TcpReceiving(tcp) /\ DueUp(v, tgt) = DueUp(tcp, tgt)
  BY <1>2, <1>4, <1>5 DEF TcpReceiving, DueUp
<1>8. FinDown(tcp, tgt) = {} /\ SentDown(v) = SentDown(tcp) /\ (DownSending(v) => DownSending(tcp))
  BY <1>4, <1>5 DEF FinDown, TargetOver, SentDown, DownSending, Unanswered
<1> QED
  BY <1>2, <1>4, <1>6, <1>7, <1>8, ListenerQuiet

LEMMA DialSucceedsKeeps ==
    ASSUME FwdInv, DialSucceeds
    PROVE  FwdInv'
<1> DEFINE w == [tcp EXCEPT !.run = "done", !.entry = FALSE]
           v == [tcp EXCEPT !.conn = "open", !.run = "ack"]
<1>1. tcp \in TcpRecord /\ TcpStage(tcp, tgt)
  BY FwdTypes
<1>2. tcp.run = "dial" /\ UNCHANGED <<app, fwd, up, down, tgt>> /\ (tcp' = w \/ tcp' = v)
  BY DEF DialSucceeds
<1>3. /\ w \in TcpRecord /\ w.stream = tcp.stream /\ w.worker = tcp.worker /\ w.held = tcp.held /\ w.entry = FALSE
      /\ w.run = "done" /\ w.read = tcp.read /\ w.conn = tcp.conn /\ w.sentFIN = tcp.sentFIN
      /\ w.gotFIN = tcp.gotFIN /\ w.session = tcp.session
  BY <1>1 DEF TcpRecord
<1>4. /\ v \in TcpRecord /\ v.stream = tcp.stream /\ v.worker = tcp.worker /\ v.held = tcp.held
      /\ v.entry = tcp.entry
      /\ v.run = "ack" /\ v.read = tcp.read /\ v.conn = "open" /\ v.sentFIN = tcp.sentFIN
      /\ v.gotFIN = tcp.gotFIN /\ v.session = tcp.session
  BY <1>1 DEF TcpRecord
<1> HIDE DEF v, w
<1>5. tcp.worker # "syn" /\ tcp.stream # "none" /\ FinDown(tcp, tgt) = {}
  BY <1>1, <1>2 DEF TcpStage, FinDown, TargetOver
<1>6. CASE tcp' = w
  <2>1. TcpStage(w, tgt)
    BY <1>1, <1>2, <1>3, <1>5 DEF TcpStage
  <2>2. ~TcpReceiving(w) /\ ~DownSending(w)
    BY <1>3, <1>5 DEF TcpReceiving, DownSending, Unanswered
  <2> QED
    BY <1>2, <1>3, <1>5, <1>6, <2>1, <2>2, ListenerQuiet
<1>7. CASE tcp' = v
  <2>1. TcpStage(v, tgt)
    BY <1>1, <1>2, <1>4, <1>5 DEF TcpStage
  <2>2. /\ TcpReceiving(v) => TcpReceiving(tcp) /\ DueUp(v, tgt) = DueUp(tcp, tgt)
        /\ SentDown(v) = SentDown(tcp) /\ (DownSending(v) => DownSending(tcp))
    BY <1>2, <1>4 DEF TcpReceiving, DueUp, SentDown, DownSending, Unanswered
  <2> QED
    BY <1>2, <1>4, <1>5, <1>7, <2>1, <2>2, ListenerQuiet
<1> QED
  BY <1>2, <1>6, <1>7

LEMMA DialFailsKeeps ==
    ASSUME FwdInv, DialFails
    PROVE  FwdInv'
<1> DEFINE told == TcpCanSend /\ ~tcp.cancelled
           fin == tcp.sentFIN \/ told
           w == [tcp EXCEPT !.run = "done", !.entry = FALSE, !.cancelled = TRUE, !.sentFIN = fin]
           v == TcpFinished(w)
<1>1. tcp \in TcpRecord /\ TcpStage(tcp, tgt)
  BY FwdTypes
<1>2. /\ tcp' = v /\ tcp.run = "dial" /\ UNCHANGED <<app, fwd, up, tgt>>
      /\ down' = IF told THEN Append(down, Signal("REFUSED")) ELSE down
  BY DEF DialFails
<1>3. fin \in BOOLEAN /\ (told => TcpCanSend)
  BY <1>1 DEF TcpRecord
<1> HIDE DEF fin, told
<1>4. /\ w \in TcpRecord /\ w.stream = tcp.stream /\ w.worker = tcp.worker /\ w.held = tcp.held /\ w.entry = FALSE
      /\ w.run = "done" /\ w.read = tcp.read /\ w.conn = tcp.conn
      /\ w.gotFIN = tcp.gotFIN /\ w.session = tcp.session
  BY <1>1, <1>3 DEF TcpRecord
<1> HIDE DEF w
<1>5. /\ v \in TcpRecord /\ v.worker = w.worker /\ v.held = w.held /\ v.entry = w.entry /\ v.run = w.run
      /\ v.read = w.read /\ v.conn = w.conn /\ v.gotFIN = w.gotFIN /\ v.session = w.session
      /\ v.stream = w.stream \/ v.stream = "gone"
  BY <1>4, FinishFields
<1> HIDE DEF v
<1>6. tcp.worker # "syn" /\ tcp.stream # "none" /\ FinDown(tcp, tgt) = {} /\ SentDown(tcp) = 0
  BY <1>1, <1>2 DEF TcpStage, FinDown, TargetOver, SentDown, Unanswered
<1>7. TcpStage(v, tgt)
  BY <1>1, <1>2, <1>4, <1>5, <1>6 DEF TcpStage
<1>8. ~TcpReceiving(v) /\ ~DownSending(v)
  BY <1>4, <1>5, <1>6 DEF TcpReceiving, DownSending, Unanswered
<1>9. CASE told
  <2>1. Signal("REFUSED") \in StreamFrame /\ Signal("REFUSED").kind = "REFUSED"
    BY Signals
  <2>2. DownSending(tcp)
    BY <1>2, <1>3, <1>9 DEF DownSending, TcpCanSend, Unanswered
  <2> QED
    BY <1>2, <1>4, <1>5, <1>6, <1>7, <1>8, <1>9, <2>1, <2>2, ListenerSends
<1>10. CASE ~told
  BY <1>2, <1>4, <1>5, <1>6, <1>7, <1>8, <1>10, ListenerQuiet
<1> QED
  BY <1>9, <1>10

LEMMA TcpAcksKeeps ==
    ASSUME FwdInv, TcpAcks
    PROVE  FwdInv'
<1> DEFINE w == [tcp EXCEPT !.run = "done", !.cancelled = TRUE, !.conn = "closed", !.entry = FALSE]
           v == [tcp EXCEPT !.run = "read"]
<1>1. tcp \in TcpRecord /\ TcpStage(tcp, tgt)
  BY FwdTypes
<1>2. tcp.run = "ack" /\ UNCHANGED <<app, fwd, up, tgt>>
  BY DEF TcpAcks
<1>3. /\ w \in TcpRecord /\ w.stream = tcp.stream /\ w.worker = tcp.worker /\ w.held = tcp.held /\ w.entry = FALSE
      /\ w.run = "done" /\ w.read = tcp.read /\ w.conn = "closed" /\ w.sentFIN = tcp.sentFIN
      /\ w.gotFIN = tcp.gotFIN /\ w.session = tcp.session
  BY <1>1 DEF TcpRecord
<1>4. /\ v \in TcpRecord /\ v.stream = tcp.stream /\ v.worker = tcp.worker /\ v.held = tcp.held
      /\ v.entry = tcp.entry
      /\ v.run = "read" /\ v.read = tcp.read /\ v.conn = tcp.conn /\ v.sentFIN = tcp.sentFIN
      /\ v.gotFIN = tcp.gotFIN /\ v.session = tcp.session
  BY <1>1 DEF TcpRecord
<1>5. tcp.worker # "syn" /\ tcp.stream # "none" /\ FinDown(tcp, tgt) = {} /\ SentDown(tcp) = 0 /\ tcp.read = 0
  BY <1>1, <1>2 DEF TcpStage, FinDown, TargetOver, SentDown, Unanswered
<1>6. CASE TcpCanSend
  <2>1. tcp' = v /\ down' = Append(down, Signal("OK"))
    BY <1>6 DEF TcpAcks, ToConnector
  <2>2. Signal("OK") \in StreamFrame /\ Signal("OK").kind = "OK"
    BY Signals
  <2> HIDE DEF v
  <2>3. TcpStage(v, tgt)
    BY <1>1, <1>2, <1>4, <1>5 DEF TcpStage
  <2>4. /\ TcpReceiving(v) => TcpReceiving(tcp) /\ DueUp(v, tgt) = DueUp(tcp, tgt)
        /\ SentDown(v) = SentDown(tcp) + 1 /\ DownSending(tcp)
    BY <1>2, <1>4, <1>5, <1>6 DEF TcpReceiving, DueUp, SentDown, DownSending, Unanswered, TcpCanSend
  <2> QED
    BY <1>2, <1>4, <1>5, <2>1, <2>2, <2>3, <2>4, ListenerSends
<1>7. CASE ~TcpCanSend
  <2>1. tcp' = w /\ down' = down
    BY <1>7 DEF TcpAcks
  <2> HIDE DEF w
  <2>2. TcpStage(w, tgt)
    BY <1>1, <1>2, <1>3, <1>5 DEF TcpStage
  <2>3. ~TcpReceiving(w) /\ ~DownSending(w)
    BY <1>3, <1>5 DEF TcpReceiving, DownSending, Unanswered
  <2> QED
    BY <1>2, <1>3, <1>5, <2>1, <2>2, <2>3, ListenerQuiet
<1> QED
  BY <1>6, <1>7

LEMMA TcpReadsKeeps ==
    ASSUME FwdInv, TcpReads
    PROVE  FwdInv'
<1> DEFINE run == IF tcp.conn = "closed" THEN "close"
                  ELSE IF tgt.end # "aborted" /\ tcp.read < tgt.sent THEN "write" ELSE "fin"
           read == IF tcp.read < tgt.sent /\ tgt.end # "aborted" /\ tcp.conn = "open"
                   THEN tcp.read + 1 ELSE tcp.read
           v == [tcp EXCEPT !.run = run, !.read = read]
<1>1. /\ tcp \in TcpRecord /\ TcpStage(tcp, tgt) /\ tgt \in EndRecord
      /\ tcp.read \in Nat /\ tgt.sent \in Nat
  BY FwdTypes DEF TcpRecord, EndRecord
<1>2. /\ tcp' = v /\ tcp.run = "read" /\ UNCHANGED <<app, fwd, up, down, tgt>>
      /\ tcp.conn = "closed" \/ tcp.read < tgt.sent \/ tgt.end # "open"
  BY DEF TcpReads
<1>3. tcp.conn \in {"open", "closed"} /\ tcp.read <= tgt.sent /\ tcp.worker # "syn" /\ tcp.stream # "none"
  BY <1>1, <1>2 DEF TcpStage, TcpRecord
<1>4. /\ run \in {"close", "write", "fin"} /\ read \in Nat
      /\ run = "write" => read = tcp.read + 1
      /\ run # "write" => read = tcp.read
      /\ run = "write" => tcp.read < tgt.sent
  <2>1. tcp.read + 1 \in Nat
    BY <1>1
  <2> QED
    BY <1>1, <1>3, <2>1
<1>5. run = "fin" => EndSeen(tgt, read)
  <2> SUFFICES ASSUME run = "fin" PROVE EndSeen(tgt, read)
    OBVIOUS
  <2>1. tcp.conn = "open" /\ (tgt.end = "aborted" \/ ~(tcp.read < tgt.sent)) /\ read = tcp.read
    BY <1>3
  <2>2. tgt.end \in {"closed", "aborted"}
    BY <1>1, <1>2, <2>1 DEF EndRecord
  <2>3. tgt.end = "aborted" \/ tcp.read = tgt.sent
    BY <1>1, <1>3, <2>1
  <2> QED
    BY <2>1, <2>2, <2>3 DEF EndSeen
<1> HIDE DEF run, read
<1>6. /\ v \in TcpRecord /\ v.stream = tcp.stream /\ v.worker = tcp.worker /\ v.held = tcp.held
      /\ v.entry = tcp.entry
      /\ v.run = run /\ v.read = read /\ v.conn = tcp.conn /\ v.sentFIN = tcp.sentFIN
      /\ v.gotFIN = tcp.gotFIN /\ v.session = tcp.session
  BY <1>1, <1>4 DEF TcpRecord
<1> HIDE DEF v
<1>7. read <= tgt.sent /\ (run = "write" => read > 0)
  BY <1>1, <1>3, <1>4
<1>8. TcpStage(v, tgt)
  BY <1>1, <1>2, <1>3, <1>4, <1>5, <1>6, <1>7 DEF TcpStage
<1>9. /\ TcpReceiving(v) => TcpReceiving(tcp) /\ DueUp(v, tgt) = DueUp(tcp, tgt)
      /\ FinDown(tcp, tgt) = {}
      /\ DownSending(v) => DownSending(tcp) /\ SentDown(v) = SentDown(tcp)
  BY <1>2, <1>4, <1>6 DEF TcpReceiving, DueUp, FinDown, TargetOver, SentDown, DownSending, Unanswered
<1> QED
  BY <1>2, <1>6, <1>8, <1>9, ListenerQuiet

LEMMA TcpWritesKeeps ==
    ASSUME FwdInv, TcpWrites
    PROVE  FwdInv'
<1> DEFINE run == IF tgt.end = "aborted" THEN "close" ELSE "drain"
           w == [tcp EXCEPT !.run = "read"]
           e == [tcp EXCEPT !.sentFIN = TRUE, !.run = run]
           v == TcpFinished(e)
           z == [tcp EXCEPT !.run = "close"]
<1>1. /\ tcp \in TcpRecord /\ TcpStage(tcp, tgt) /\ tgt \in EndRecord
      /\ tcp.read \in Nat /\ tgt.sent \in Nat
  BY FwdTypes DEF TcpRecord, EndRecord
<1>2. tcp.run \in {"write", "fin"} /\ UNCHANGED <<app, fwd, up, tgt>>
  BY DEF TcpWrites
<1>3. /\ tcp.worker # "syn" /\ tcp.stream # "none" /\ FinDown(tcp, tgt) = {} /\ tcp.read <= tgt.sent
  BY <1>1, <1>2 DEF TcpStage, FinDown, TargetOver
<1>4. run \in {"close", "drain"}
  OBVIOUS
<1> HIDE DEF run
<1>5. CASE TcpCanSend /\ ~tcp.cancelled /\ tcp.run = "write"
  <2>1. tcp' = w /\ down' = Append(down, Data(tcp.read))
    BY <1>5 DEF TcpWrites, ToConnector
  <2>2. Data(tcp.read) \in StreamFrame /\ Data(tcp.read).kind = "DAT" /\ Data(tcp.read).piece = tcp.read
    BY <1>1, Signals DEF Data
  <2>3. /\ w \in TcpRecord /\ w.stream = tcp.stream /\ w.worker = tcp.worker /\ w.held = tcp.held
        /\ w.entry = tcp.entry
        /\ w.run = "read" /\ w.read = tcp.read /\ w.conn = tcp.conn /\ w.sentFIN = tcp.sentFIN
        /\ w.gotFIN = tcp.gotFIN /\ w.session = tcp.session
    BY <1>1 DEF TcpRecord
  <2> HIDE DEF w
  <2>4. TcpStage(w, tgt)
    BY <1>1, <1>3, <1>5, <2>3 DEF TcpStage
  <2>5. /\ TcpReceiving(w) => TcpReceiving(tcp) /\ DueUp(w, tgt) = DueUp(tcp, tgt)
        /\ SentDown(tcp) = tcp.read /\ SentDown(w) = SentDown(tcp) + 1 /\ DownSending(tcp)
    BY <1>5, <2>3 DEF TcpReceiving, DueUp, SentDown, DownSending, Unanswered, TcpCanSend
  <2> QED
    BY <1>2, <1>3, <2>1, <2>2, <2>3, <2>4, <2>5, ListenerSends
<1>6. CASE TcpCanSend /\ ~tcp.cancelled /\ tcp.run = "fin"
  <2>1. tcp' = v /\ down' = Append(down, Signal("FIN"))
    BY <1>6 DEF TcpWrites, ToConnector, run
  <2>2. Signal("FIN") \in StreamFrame /\ Signal("FIN").kind = "FIN"
    BY Signals
  <2>3. /\ e \in TcpRecord /\ e.stream = tcp.stream /\ e.worker = tcp.worker /\ e.held = tcp.held
        /\ e.entry = tcp.entry
        /\ e.run = run /\ e.read = tcp.read /\ e.conn = tcp.conn /\ e.sentFIN = TRUE
        /\ e.gotFIN = tcp.gotFIN /\ e.session = tcp.session
    BY <1>1, <1>4 DEF TcpRecord
  <2> HIDE DEF e
  <2>4. /\ v \in TcpRecord /\ v.worker = e.worker /\ v.held = e.held /\ v.entry = e.entry /\ v.run = e.run
        /\ v.read = e.read /\ v.conn = e.conn /\ v.gotFIN = e.gotFIN /\ v.session = e.session
        /\ v.sentFIN = e.sentFIN /\ (v.stream = e.stream \/ v.stream = "gone")
    BY <2>3, FinishFields
  <2> HIDE DEF v
  <2>5. TcpStage(v, tgt)
    BY <1>1, <1>3, <1>4, <1>6, <2>3, <2>4 DEF TcpStage
  <2>6. EndSeen(tgt, tcp.read)
    BY <1>1, <1>6 DEF TcpStage
  <2>7. tcp.read + 2 \in FinDown(v, tgt) /\ SentDown(tcp) + 1 = tcp.read + 2
    <3>1. SentDown(tcp) = tcp.read + 1
      BY <1>6 DEF SentDown, Unanswered
    <3>2. tcp.read + 1 + 1 = tcp.read + 2
      BY <1>1
    <3> QED
      BY <1>4, <2>3, <2>4, <2>6, <3>1, <3>2 DEF FinDown, TargetOver
  <2>8. /\ TcpReceiving(v) => TcpReceiving(tcp) /\ DueUp(v, tgt) = DueUp(tcp, tgt)
        /\ DownSending(tcp) /\ ~DownSending(v)
    BY <1>3, <1>6, <2>3, <2>4 DEF TcpReceiving, DueUp, DownSending, Unanswered, TcpCanSend
  <2> QED
    BY <1>2, <1>3, <2>1, <2>2, <2>3, <2>4, <2>5, <2>7, <2>8, ListenerSends
<1>7. CASE ~(TcpCanSend /\ ~tcp.cancelled)
  <2>1. tcp' = z /\ down' = down
    BY <1>7 DEF TcpWrites
  <2>2. /\ z \in TcpRecord /\ z.stream = tcp.stream /\ z.worker = tcp.worker /\ z.held = tcp.held
        /\ z.entry = tcp.entry
        /\ z.run = "close" /\ z.read = tcp.read /\ z.conn = tcp.conn /\ z.sentFIN = tcp.sentFIN
        /\ z.gotFIN = tcp.gotFIN /\ z.session = tcp.session
    BY <1>1 DEF TcpRecord
  <2> HIDE DEF z
  <2>3. TcpStage(z, tgt)
    BY <1>1, <1>2, <1>3, <2>2 DEF TcpStage
  <2>4. /\ TcpReceiving(z) => TcpReceiving(tcp) /\ DueUp(z, tgt) = DueUp(tcp, tgt)
        /\ ~DownSending(z)
    BY <2>2 DEF TcpReceiving, DueUp, DownSending, Unanswered
  <2> QED
    BY <1>2, <1>3, <2>1, <2>2, <2>3, <2>4, ListenerQuiet
<1> QED
  BY <1>2, <1>5, <1>6, <1>7

LEMMA TcpRunEndsKeeps ==
    ASSUME FwdInv, TcpRunEnds
    PROVE  FwdInv'
<1> DEFINE c == CloseTcp(tcp)
           v == [c EXCEPT !.run = "done", !.entry = FALSE]
<1>1. tcp \in TcpRecord /\ TcpStage(tcp, tgt)
  BY FwdTypes
<1>2. tcp' = v /\ tcp.run \in {"drain", "close"} /\ UNCHANGED <<app, fwd, up, down, tgt>>
  BY DEF TcpRunEnds
<1>3. /\ c \in TcpRecord /\ c.stream = tcp.stream /\ c.worker = tcp.worker /\ c.held = tcp.held
      /\ c.read = tcp.read /\ c.sentFIN = tcp.sentFIN /\ c.gotFIN = tcp.gotFIN /\ c.session = tcp.session
  BY <1>1, CloseFields
<1> HIDE DEF c
<1>4. /\ v \in TcpRecord /\ v.stream = c.stream /\ v.worker = c.worker /\ v.held = c.held
      /\ v.entry = FALSE /\ v.run = "done" /\ v.read = c.read
      /\ v.sentFIN = c.sentFIN /\ v.gotFIN = c.gotFIN /\ v.session = c.session
  BY <1>3 DEF TcpRecord
<1> HIDE DEF v
<1>5. tcp.worker # "syn" /\ tcp.stream # "none"
  BY <1>1, <1>2 DEF TcpStage
<1>6. TcpStage(v, tgt)
  BY <1>1, <1>2, <1>3, <1>4, <1>5 DEF TcpStage
<1>7. ~TcpReceiving(v) /\ ~DownSending(v) /\ FinDown(v, tgt) = FinDown(tcp, tgt)
  BY <1>2, <1>3, <1>4, <1>5 DEF TcpReceiving, DownSending, Unanswered, FinDown, TargetOver
<1> QED
  BY <1>2, <1>3, <1>4, <1>6, <1>7, ListenerQuiet

LEMMA TcpWorkerTakesKeeps ==
    ASSUME FwdInv, TcpWorkerTakes
    PROVE  FwdInv'
<1> DEFINE x == Head(up)
           q == Tail(up)
           v == [tcp EXCEPT !.worker = x.kind, !.held = x.piece, !.found = tcp.entry]
<1>1. /\ app \in EndRecord /\ tgt \in EndRecord /\ fwd \in FwdRecord /\ tcp \in TcpRecord
      /\ up \in Seq(StreamFrame) /\ down \in Seq(StreamFrame)
      /\ FwdStage(app, fwd) /\ TcpStage(tcp, tgt)
      /\ UpChain(app, fwd, up, tcp, tgt) /\ UpEnded(app, fwd, up, tcp, tgt)
      /\ DownChain(app, fwd, down, tcp, tgt)
  BY FwdTypes
<1>2. /\ tcp' = v /\ up' = q /\ UNCHANGED <<app, fwd, down, tgt>> /\ up # <<>>
      /\ tcp.worker = "idle" /\ tcp.stream = "open" /\ ~tcp.gotFIN /\ x.kind \notin {"SYN", "RESET"}
  BY DEF TcpWorkerTakes
<1>3. /\ q \in Seq(StreamFrame) /\ Len(q) = Len(up) - 1 /\ Len(up) \in Nat
      /\ x \in StreamFrame /\ x.kind \in KindsOn(up) /\ KindsOn(q) \subseteq KindsOn(up)
  BY <1>1, <1>2, FrameTaken
<1>4. x.kind \in {"DAT", "FIN", "OK", "REFUSED", "FAILED"} /\ x.piece \in Nat
  BY <1>2, <1>3 DEF StreamFrame
<1>5. tgt.got \in Nat /\ tgt.got + 1 \in Nat /\ app.sent \in Nat /\ tgt.sent \in Nat
  BY <1>1 DEF EndRecord
<1>6. ASSUME tcp.entry
      PROVE  /\ Frames(q, tgt.got + 1 + 1, app.sent, FinUp(app, fwd))
             /\ UpSending(fwd, tcp) => tgt.got + 1 + Len(up) = SentUp(fwd)
             /\ x.kind \in {"DAT", "FIN"}
             /\ x.kind = "DAT" => x.piece = tgt.got + 1 /\ x.piece <= app.sent
             /\ x.kind = "FIN" => tgt.got + 1 + 1 \in FinUp(app, fwd)
  <2>1. TcpReceiving(tcp) /\ DueUp(tcp, tgt) = tgt.got + 1
    BY <1>2, <1>6 DEF TcpReceiving, DueUp
  <2>2. /\ Frames(up, tgt.got + 1, app.sent, FinUp(app, fwd))
        /\ UpSending(fwd, tcp) => tgt.got + 1 + Len(up) = SentUp(fwd)
    BY <1>1, <2>1 DEF UpChain
  <2>3. /\ Frames(q, tgt.got + 1 + 1, app.sent, FinUp(app, fwd))
        /\ x.kind \in {"SYN", "OK", "REFUSED", "FAILED"} => tgt.got + 1 = 0
        /\ x.kind = "DAT" => x.piece = tgt.got + 1 /\ x.piece <= app.sent
        /\ x.kind = "FIN" => tgt.got + 1 + 1 \in FinUp(app, fwd)
    BY <1>1, <1>2, <1>5, <2>2, FramesTaken
  <2>4. tgt.got + 1 # 0
    BY <1>5
  <2> QED
    BY <1>4, <2>2, <2>3, <2>4
<1> HIDE DEF x, q
<1>7. /\ v \in TcpRecord /\ v.stream = tcp.stream /\ v.worker = x.kind /\ v.held = x.piece
      /\ v.entry = tcp.entry
      /\ v.run = tcp.run /\ v.read = tcp.read /\ v.conn = tcp.conn /\ v.sentFIN = tcp.sentFIN
      /\ v.gotFIN = tcp.gotFIN /\ v.session = tcp.session
  BY <1>1, <1>4 DEF TcpRecord
<1> HIDE DEF v
<1>8. TcpStage(v, tgt)
  BY <1>1, <1>2, <1>4, <1>6, <1>7 DEF TcpStage
<1>9. UpChain(app, fwd, q, v, tgt)
  <2> SUFFICES ASSUME TcpReceiving(v)
               PROVE  /\ Frames(q, DueUp(v, tgt), app.sent, FinUp(app, fwd))
                      /\ UpSending(fwd, v) => DueUp(v, tgt) + Len(q) = SentUp(fwd)
    BY DEF UpChain
  <2>1. tcp.entry /\ x.kind = "DAT"
    BY <1>2, <1>4, <1>6, <1>7 DEF TcpReceiving
  <2>2. DueUp(v, tgt) = tgt.got + 1 + 1
    BY <1>2, <1>6, <1>7, <2>1 DEF DueUp
  <2>3. UpSending(fwd, v) => UpSending(fwd, tcp)
    BY <1>7 DEF UpSending
  <2>4. UpSending(fwd, tcp) => tgt.got + 1 + 1 + Len(q) = SentUp(fwd)
    BY <1>3, <1>5, <1>6, <2>1
  <2> QED
    BY <1>6, <2>1, <2>2, <2>3, <2>4
<1>10. UpEnded(app, fwd, q, v, tgt)
  <2>1. tgt.got + 1 + 1 = tgt.got + 2
    BY <1>5
  <2> QED
    BY <1>1, <1>3, <1>6, <1>7, <2>1 DEF UpEnded
<1>11. DownChain(app, fwd, down, v, tgt)
  <2>1. tgt.sent <= tgt.sent
    BY <1>5
  <2>2. FinDown(v, tgt) = FinDown(tcp, tgt) /\ SentDown(v) = SentDown(tcp)
    BY <1>7, SameDown
  <2>3. DownSending(v) => DownSending(tcp)
    BY <1>7 DEF DownSending, Unanswered
  <2> QED
    BY <1>1, <1>7, <2>1, <2>2, <2>3, DownKept
<1> QED
  BY <1>1, <1>2, <1>3, <1>7, <1>8, <1>9, <1>10, <1>11 DEF FwdInv, FwdType, ForwardInv

(* A stream that is gone delivers at most what its worker holds. *)
LEMMA ListenerDrops ==
    ASSUME FwdInv, UNCHANGED <<app, fwd, down, tgt>>, NEW v \in TcpRecord, tcp' = v,
           NEW q \in Seq(StreamFrame), up' = q, KindsOn(q) \subseteq KindsOn(up),
           v.stream = "gone", tcp.stream # "none", v.session = tcp.session,
           v.worker = tcp.worker, v.held = tcp.held, v.entry = tcp.entry, v.run = tcp.run, v.read = tcp.read,
           v.conn = "none" => tcp.conn = "none", v.gotFIN = tcp.gotFIN
    PROVE  FwdInv'
<1>1. /\ app \in EndRecord /\ tgt \in EndRecord /\ fwd \in FwdRecord /\ tcp \in TcpRecord
      /\ up \in Seq(StreamFrame) /\ down \in Seq(StreamFrame)
      /\ FwdStage(app, fwd) /\ TcpStage(tcp, tgt)
      /\ UpChain(app, fwd, up, tcp, tgt) /\ UpEnded(app, fwd, up, tcp, tgt)
      /\ DownChain(app, fwd, down, tcp, tgt)
  BY FwdTypes
<1>2. TcpStage(v, tgt)
  BY <1>1 DEF TcpStage
<1>3. ~TcpReceiving(v) /\ ~DownSending(v)
  BY DEF TcpReceiving, DownSending
<1>4. UpChain(app, fwd, q, v, tgt) /\ UpEnded(app, fwd, q, v, tgt)
  BY <1>1, <1>3, UpHeld
<1>5. DownChain(app, fwd, down, v, tgt)
  <2>1. tgt.sent <= tgt.sent
    BY <1>1 DEF EndRecord
  <2>2. FinDown(v, tgt) = FinDown(tcp, tgt)
    BY SameDown
  <2> QED
    BY <1>1, <1>3, <2>1, <2>2, DownKept
<1> QED
  BY <1>1, <1>2, <1>4, <1>5 DEF FwdInv, FwdType, ForwardInv

LEMMA TcpIgnoresKeeps ==
    ASSUME FwdInv, TcpIgnores
    PROVE  FwdInv'
<1>1. tcp \in TcpRecord /\ up \in Seq(StreamFrame)
  BY FwdTypes
<1>2. tcp.stream = "gone" /\ up # <<>> /\ up' = Tail(up) /\ UNCHANGED <<app, fwd, down, tcp, tgt>>
  BY DEF TcpIgnores
<1>3. Tail(up) \in Seq(StreamFrame) /\ KindsOn(Tail(up)) \subseteq KindsOn(up)
  BY <1>1, <1>2, FrameTaken
<1> QED
  BY <1>1, <1>2, <1>3, ListenerDrops

LEMMA TcpResetKeeps ==
    ASSUME FwdInv, TcpReset
    PROVE  FwdInv'
<1> DEFINE c == CloseTcp(tcp)
           v == [c EXCEPT !.stream = "gone"]
<1>1. tcp \in TcpRecord
  BY FwdTypes
<1>2. /\ tcp.stream # "none" /\ up' = <<>> /\ UNCHANGED <<app, fwd, down, tgt>>
      /\ tcp' = IF tcp.stream = "open" THEN v ELSE tcp
  BY DEF TcpReset
<1>3. <<>> \in Seq(StreamFrame) /\ KindsOn(<<>>) \subseteq KindsOn(up)
  BY EmptyQueue
<1>4. /\ c \in TcpRecord /\ c.stream = tcp.stream /\ c.worker = tcp.worker /\ c.held = tcp.held
      /\ c.entry = tcp.entry /\ c.run = tcp.run
      /\ c.read = tcp.read /\ c.gotFIN = tcp.gotFIN /\ c.session = tcp.session
      /\ c.conn = "none" => tcp.conn = "none"
  BY <1>1, CloseFields
<1> HIDE DEF c
<1>5. /\ v \in TcpRecord /\ v.stream = "gone" /\ v.worker = c.worker /\ v.held = c.held
      /\ v.entry = c.entry /\ v.run = c.run /\ v.conn = c.conn
      /\ v.read = c.read /\ v.gotFIN = c.gotFIN /\ v.session = c.session
  BY <1>4 DEF TcpRecord
<1> HIDE DEF v
<1>6. CASE tcp.stream = "open"
  <2>1. tcp' = v
    BY <1>2, <1>6
  <2> QED
    BY <1>2, <1>3, <1>4, <1>5, <2>1, ListenerDrops
<1>7. CASE tcp.stream # "open"
  <2>1. tcp.stream = "gone" /\ tcp' = tcp
    BY <1>1, <1>2, <1>7 DEF TcpRecord
  <2> QED
    BY <1>1, <1>2, <1>3, <2>1, ListenerDrops
<1> QED
  BY <1>6, <1>7

LEMMA SessionLostKeeps ==
    ASSUME FwdInv, SessionLost
    PROVE  FwdInv'
<1> DEFINE c == CloseTcp(tcp)
           gone == IF c.stream = "open" THEN "gone" ELSE c.stream
           v == [c EXCEPT !.session = "lost", !.stream = gone]
           failed == IF fwd.stream = "live" THEN "failed" ELSE fwd.stream
           h == [fwd EXCEPT !.stream = failed]
<1>1. /\ app \in EndRecord /\ tgt \in EndRecord /\ fwd \in FwdRecord /\ tcp \in TcpRecord
      /\ up \in Seq(StreamFrame) /\ down \in Seq(StreamFrame)
      /\ FwdStage(app, fwd) /\ TcpStage(tcp, tgt)
      /\ UpChain(app, fwd, up, tcp, tgt) /\ UpEnded(app, fwd, up, tcp, tgt)
      /\ DownChain(app, fwd, down, tcp, tgt)
  BY FwdTypes
<1>2. tcp' = v /\ fwd' = h /\ up' = <<>> /\ UNCHANGED <<app, tgt>>
  BY DEF SessionLost
<1>3. PICK n \in 0..Len(down) : down' = SubSeq(down, 1, n)
  BY DEF SessionLost
<1>4. /\ c \in TcpRecord /\ c.stream = tcp.stream /\ c.worker = tcp.worker /\ c.held = tcp.held
      /\ c.entry = tcp.entry /\ c.run = tcp.run
      /\ c.read = tcp.read /\ c.gotFIN = tcp.gotFIN
      /\ c.conn = "none" => tcp.conn = "none"
  BY <1>1, CloseFields
<1> HIDE DEF c
<1>5. /\ gone \in {"none", "gone"} /\ (c.stream = "gone" => gone = "gone")
      /\ gone = "none" <=> c.stream = "none"
  BY <1>4 DEF TcpRecord
<1> HIDE DEF gone
<1>6. /\ v \in TcpRecord /\ v.stream = gone /\ v.worker = c.worker /\ v.held = c.held
      /\ v.entry = c.entry /\ v.run = c.run /\ v.conn = c.conn
      /\ v.read = c.read /\ v.gotFIN = c.gotFIN /\ v.session = "lost"
  BY <1>4, <1>5 DEF TcpRecord
<1> HIDE DEF v
<1>7. failed \in {"failed", "closed"}
  BY <1>1 DEF FwdRecord
<1> HIDE DEF failed
<1>8. /\ h \in FwdRecord /\ h.pump = fwd.pump /\ h.read = fwd.read /\ h.pc = fwd.pc /\ h.recv = fwd.recv
      /\ h.stream = failed /\ h.conn = fwd.conn /\ h.cancelled = fwd.cancelled
  BY <1>1, <1>7 DEF FwdRecord
<1> HIDE DEF h
<1>9. FwdStage(app, h)
  BY <1>1, <1>8 DEF FwdStage
<1>10. TcpStage(v, tgt)
  BY <1>1, <1>4, <1>5, <1>6 DEF TcpStage
<1>11. <<>> \in Seq(StreamFrame) /\ KindsOn(<<>>) \subseteq KindsOn(up)
  BY EmptyQueue
<1>12. ~TcpReceiving(v) /\ ~DownSending(v) /\ ~UpSending(h, v)
  BY <1>5, <1>6 DEF TcpReceiving, DownSending, UpSending
<1>13. UpChain(app, fwd, <<>>, v, tgt) /\ UpEnded(app, fwd, <<>>, v, tgt)
  BY <1>1, <1>4, <1>6, <1>11, <1>12, UpHeld
<1>14. UpChain(app, h, <<>>, v, tgt) /\ UpEnded(app, h, <<>>, v, tgt)
  <2>1. app.sent <= app.sent
    BY <1>1 DEF EndRecord
  <2>2. FinUp(app, fwd) \subseteq FinUp(app, h)
    BY <1>8, SameUp
  <2> QED
    BY <1>1, <1>6, <1>8, <1>11, <1>12, <1>13, <2>1, <2>2, UpKept
<1>15. DownChain(app, h, SubSeq(down, 1, n), v, tgt)
  <2>1. FinDown(v, tgt) = FinDown(tcp, tgt)
    BY <1>4, <1>6, SameDown
  <2> QED
    BY <1>1, <1>3, <1>4, <1>5, <1>6, <1>8, <1>12, <2>1, DownCut
<1>16. down' \in Seq(StreamFrame)
  BY <1>1, <1>3, FramesKept
<1> QED
  BY <1>1, <1>2, <1>3, <1>6, <1>8, <1>9, <1>10, <1>11, <1>14, <1>15, <1>16 DEF FwdInv, FwdType, ForwardInv

LEMMA TcpHandlesBroken ==
    ASSUME FwdInv, tcp.worker \notin {"idle", "syn"}, tcp' = FailTcp(tcp), UNCHANGED <<app, fwd, up, tgt>>,
           down' = down \/ down' = Append(down, Signal("RESET"))
    PROVE  FwdInv'
<1> DEFINE c == CloseTcp(tcp)
           v == [c EXCEPT !.stream = "gone", !.worker = "idle"]
<1>1. tcp \in TcpRecord /\ TcpStage(tcp, tgt)
  BY FwdTypes
<1>2. tcp' = v
  BY DEF FailTcp
<1>3. /\ c \in TcpRecord /\ c.stream = tcp.stream /\ c.worker = tcp.worker /\ c.held = tcp.held
      /\ c.entry = tcp.entry /\ c.run = tcp.run /\ c.session = tcp.session
      /\ c.read = tcp.read /\ c.gotFIN = tcp.gotFIN
      /\ c.conn = "none" => tcp.conn = "none"
  BY <1>1, CloseFields
<1> HIDE DEF c
<1>4. /\ v \in TcpRecord /\ v.stream = "gone" /\ v.worker = "idle"
      /\ v.entry = c.entry /\ v.run = c.run /\ v.conn = c.conn
      /\ v.read = c.read /\ v.gotFIN = c.gotFIN /\ v.session = c.session
  BY <1>3 DEF TcpRecord
<1> HIDE DEF v
<1>5. TcpStage(v, tgt)
  BY <1>1, <1>3, <1>4 DEF TcpStage
<1>6. ~TcpReceiving(v) /\ ~DownSending(v)
  BY <1>4 DEF TcpReceiving, DownSending
<1>7. FinDown(v, tgt) = FinDown(tcp, tgt)
  BY <1>3, <1>4, SameDown
<1>8. CASE down' = down
  BY <1>2, <1>3, <1>4, <1>5, <1>6, <1>7, <1>8, ListenerQuiet
<1>9. CASE down' = Append(down, Signal("RESET"))
  <2>1. Signal("RESET") \in StreamFrame /\ Signal("RESET").kind = "RESET"
    BY Signals
  <2> QED
    BY <1>2, <1>3, <1>4, <1>5, <1>6, <1>7, <1>9, <2>1, ListenerSends
<1> QED
  BY <1>8, <1>9

LEMMA TcpHandlesGiven ==
    ASSUME FwdInv, tcp.worker \notin {"idle", "syn"}, UNCHANGED <<app, fwd, up, down>>,
           tcp' = IF tcp.worker = "FIN"
                  THEN TcpFinished([tcp EXCEPT !.worker = "idle", !.gotFIN = TRUE, !.writeDone = tcp.entry])
                  ELSE [tcp EXCEPT !.worker = "idle"],
           tgt' = IF ~tcp.entry THEN tgt
                  ELSE IF tcp.worker = "FIN" THEN [tgt EXCEPT !.eof = TRUE] ELSE [tgt EXCEPT !.got = tcp.held]
    PROVE  FwdInv'
<1> DEFINE w == [tcp EXCEPT !.worker = "idle", !.gotFIN = TRUE, !.writeDone = tcp.entry]
           z == [tcp EXCEPT !.worker = "idle"]
           v == IF tcp.worker = "FIN" THEN TcpFinished(w) ELSE z
<1>1. /\ app \in EndRecord /\ tgt \in EndRecord /\ fwd \in FwdRecord /\ tcp \in TcpRecord
      /\ up \in Seq(StreamFrame) /\ down \in Seq(StreamFrame)
      /\ FwdStage(app, fwd) /\ TcpStage(tcp, tgt)
      /\ UpChain(app, fwd, up, tcp, tgt) /\ UpEnded(app, fwd, up, tcp, tgt)
      /\ DownChain(app, fwd, down, tcp, tgt)
  BY FwdTypes
<1>2. tcp' = v
  OBVIOUS
<1>3. /\ v \in TcpRecord /\ v.worker = "idle" /\ v.entry = tcp.entry /\ v.run = tcp.run /\ v.conn = tcp.conn
      /\ v.read = tcp.read /\ v.sentFIN = tcp.sentFIN /\ v.session = tcp.session
      /\ v.stream = tcp.stream \/ v.stream = "gone"
      /\ tcp.worker = "FIN" => v.gotFIN
      /\ tcp.worker # "FIN" => v.gotFIN = tcp.gotFIN
  <2>1. /\ w \in TcpRecord /\ w.worker = "idle" /\ w.entry = tcp.entry /\ w.run = tcp.run /\ w.conn = tcp.conn
        /\ w.read = tcp.read /\ w.sentFIN = tcp.sentFIN /\ w.session = tcp.session /\ w.stream = tcp.stream
        /\ w.gotFIN
    BY <1>1 DEF TcpRecord
  <2>2. /\ z \in TcpRecord /\ z.worker = "idle" /\ z.entry = tcp.entry /\ z.run = tcp.run /\ z.conn = tcp.conn
        /\ z.read = tcp.read /\ z.sentFIN = tcp.sentFIN /\ z.session = tcp.session /\ z.stream = tcp.stream
        /\ z.gotFIN = tcp.gotFIN
    BY <1>1 DEF TcpRecord
  <2> HIDE DEF w, z
  <2>3. CASE tcp.worker = "FIN"
    <3>1. v = TcpFinished(w)
      BY <2>3
    <3> QED
      BY <2>1, <2>3, <3>1, FinishFields
  <2>4. CASE tcp.worker # "FIN"
    BY <2>2, <2>4
  <2> QED
    BY <2>3, <2>4
<1> HIDE DEF v
<1>4. /\ tcp.stream # "none" /\ (tcp.entry => tcp.worker \in {"DAT", "FIN"}) /\ ~tcp.gotFIN /\ ~tgt.eof
      /\ tcp.run = "none" => ~tcp.entry
  BY <1>1 DEF TcpStage
<1>5. /\ FinDown(v, tgt) = FinDown(tcp, tgt) /\ SentDown(v) = SentDown(tcp)
      /\ DownSending(v) => DownSending(tcp)
      /\ tcp.stream = "gone" => v.stream = "gone"
  BY <1>3, SameDown DEF DownSending, Unanswered, TcpRecord
<1>6. tgt.sent <= tgt.sent /\ tgt.got \in Nat /\ tcp.held \in Nat
  BY <1>1 DEF EndRecord, TcpRecord
<1>7. CASE ~tcp.entry
  <2>1. tgt' = tgt
    BY <1>7
  <2>2. TcpStage(v, tgt)
    BY <1>1, <1>3, <1>4, <1>7 DEF TcpStage
  <2>3. ~TcpReceiving(v)
    BY <1>3, <1>4, <1>7 DEF TcpReceiving
  <2> QED
    BY <1>2, <1>3, <1>5, <2>1, <2>2, <2>3, ListenerQuiet
<1>8. CASE tcp.entry /\ tcp.worker = "FIN"
  <2> DEFINE g == [tgt EXCEPT !.eof = TRUE]
  <2>1. tgt' = g
    BY <1>8
  <2>2. g \in EndRecord /\ g.sent = tgt.sent /\ g.end = tgt.end /\ g.got = tgt.got /\ g.eof
    BY <1>1 DEF EndRecord
  <2> HIDE DEF g
  <2>3. TcpStage(v, g)
    BY <1>1, <1>3, <1>4, <1>8, <2>2 DEF TcpStage, EndSeen
  <2>4. UpChain(app, fwd, up, v, g)
    <3>1. ~TcpReceiving(v)
      BY <1>3, <1>4, <1>8 DEF TcpReceiving
    <3> QED
      BY <3>1 DEF UpChain
  <2>5. UpEnded(app, fwd, up, v, g)
    BY <1>1, <1>3, <1>8, <2>2 DEF UpEnded
  <2>6. DownChain(app, fwd, down, v, g)
    <3>1. FinDown(v, g) = FinDown(tcp, tgt) /\ SentDown(v) = SentDown(tcp) /\ tgt.sent <= g.sent
      BY <1>3, <1>6, <2>2, SameDown
    <3> QED
      BY <1>1, <1>3, <1>5, <2>2, <3>1, DownKept
  <2> QED
    BY <1>1, <1>2, <1>3, <2>1, <2>2, <2>3, <2>4, <2>5, <2>6 DEF FwdInv, FwdType, ForwardInv
<1>9. CASE tcp.entry /\ tcp.worker = "DAT"
  <2> DEFINE g == [tgt EXCEPT !.got = tcp.held]
  <2>1. tgt' = g
    BY <1>9
  <2>2. g \in EndRecord /\ g.sent = tgt.sent /\ g.end = tgt.end /\ g.got = tcp.held /\ g.eof = tgt.eof
    BY <1>1, <1>6 DEF EndRecord
  <2> HIDE DEF g
  <2>3. TcpStage(v, g)
    BY <1>1, <1>3, <1>4, <1>9, <2>2 DEF TcpStage, EndSeen
  <2>4. UpChain(app, fwd, up, v, g)
    <3>1. TcpReceiving(v) => TcpReceiving(tcp) /\ DueUp(v, g) = DueUp(tcp, tgt)
      BY <1>3, <1>4, <1>9, <2>2 DEF TcpReceiving, DueUp
    <3>2. UpSending(fwd, v) => UpSending(fwd, tcp)
      BY <1>3 DEF UpSending
    <3> QED
      BY <1>1, <3>1, <3>2 DEF UpChain
  <2>5. UpEnded(app, fwd, up, v, g)
    BY <1>1, <1>3, <1>9, <2>2 DEF UpEnded
  <2>6. DownChain(app, fwd, down, v, g)
    <3>1. FinDown(v, g) = FinDown(tcp, tgt) /\ SentDown(v) = SentDown(tcp) /\ tgt.sent <= g.sent
      BY <1>3, <1>6, <2>2, SameDown
    <3> QED
      BY <1>1, <1>3, <1>5, <2>2, <3>1, DownKept
  <2> QED
    BY <1>1, <1>2, <1>3, <2>1, <2>2, <2>3, <2>4, <2>5, <2>6 DEF FwdInv, FwdType, ForwardInv
<1> QED
  BY <1>4, <1>7, <1>8, <1>9

LEMMA TcpHandlesKeeps ==
    ASSUME FwdInv, TcpHandles
    PROVE  FwdInv'
<1>1. tcp.worker \notin {"idle", "syn"} /\ UNCHANGED <<app, fwd, up>>
  BY DEF TcpHandles
<1>2. \/ /\ tcp' = FailTcp(tcp) /\ tgt' = tgt
         /\ down' = down \/ down' = Append(down, Signal("RESET"))
      \/ /\ down' = down
         /\ tcp' = IF tcp.worker = "FIN"
                   THEN TcpFinished([tcp EXCEPT !.worker = "idle", !.gotFIN = TRUE, !.writeDone = tcp.entry])
                   ELSE [tcp EXCEPT !.worker = "idle"]
         /\ tgt' = IF ~tcp.entry THEN tgt
                   ELSE IF tcp.worker = "FIN" THEN [tgt EXCEPT !.eof = TRUE] ELSE [tgt EXCEPT !.got = tcp.held]
  <2> DEFINE told(b) == b /\ tcp.stream = "open" /\ tcp.session = "open"
  <2>1. PICK broken \in HandlerFails :
            /\ down' = IF told(broken) THEN Append(down, Signal("RESET")) ELSE down
            /\ tcp' = IF broken THEN FailTcp(tcp)
                      ELSE IF tcp.worker = "FIN"
                      THEN TcpFinished([tcp EXCEPT !.worker = "idle", !.gotFIN = TRUE, !.writeDone = tcp.entry])
                      ELSE [tcp EXCEPT !.worker = "idle"]
            /\ tgt' = IF broken \/ ~tcp.entry THEN tgt
                      ELSE IF tcp.worker = "FIN" THEN [tgt EXCEPT !.eof = TRUE]
                      ELSE [tgt EXCEPT !.got = tcp.held]
    BY DEF TcpHandles
  <2>2. CASE broken
    BY <2>1, <2>2
  <2>3. CASE ~broken
    BY <2>1, <2>3
  <2> QED
    BY <2>2, <2>3
<1> QED
  BY <1>1, <1>2, TcpHandlesBroken, TcpHandlesGiven

-----------------------------------------------------------------------------

LEMMA FwdInitInv == FwdInit => FwdInv
<1> SUFFICES ASSUME FwdInit PROVE FwdInv
  OBVIOUS
<1>1. app \in EndRecord /\ app.sent = 0 /\ app.end = "open" /\ app.got = 0 /\ ~app.eof
  BY DEF FwdInit, EndRecord
<1>2. tgt \in EndRecord /\ tgt.sent = 0 /\ tgt.end = "open" /\ tgt.got = 0 /\ ~tgt.eof
  BY DEF FwdInit, EndRecord
<1>3. /\ fwd \in FwdRecord /\ fwd.pc = "open" /\ fwd.pump = "off" /\ fwd.recv = "off" /\ fwd.read = 0
      /\ fwd.conn = "open"
  BY DEF FwdInit, FwdRecord
<1>4. /\ tcp \in TcpRecord /\ tcp.stream = "none" /\ tcp.worker = "idle" /\ tcp.run = "none" /\ tcp.read = 0
      /\ ~tcp.entry /\ ~tcp.gotFIN
  BY DEF FwdInit, TcpRecord
<1>5. up = <<>> /\ down = <<>> /\ <<>> \in Seq(StreamFrame) /\ KindsOn(<<>>) = {} /\ Len(<<>>) = 0
  BY EmptyQueue DEF FwdInit
<1>6. \A k, s, F : Frames(<<>>, k, s, F)
  BY <1>5 DEF Frames
<1>7. FwdStage(app, fwd) /\ TcpStage(tcp, tgt)
  BY <1>1, <1>2, <1>3, <1>4 DEF FwdStage, TcpStage
<1>8. UpChain(app, fwd, up, tcp, tgt)
  BY <1>3, <1>4, <1>5, <1>6 DEF UpChain, DueUp, SentUp
<1>9. UpEnded(app, fwd, up, tcp, tgt)
  BY <1>1, <1>2, <1>4, <1>5 DEF UpEnded
<1>10. DownChain(app, fwd, down, tcp, tgt)
  BY <1>1, <1>2, <1>3, <1>4, <1>5, <1>6 DEF DownChain, DueDown, SentDown, Unanswered
<1> QED
  BY <1>1, <1>2, <1>3, <1>4, <1>5, <1>7, <1>8, <1>9, <1>10 DEF FwdInv, FwdType, ForwardInv

LEMMA FwdStepInv == FwdInv /\ [FwdNext]_fwdVars => FwdInv'
<1> SUFFICES ASSUME FwdInv, [FwdNext]_fwdVars PROVE FwdInv'
  OBVIOUS
<1>1. CASE UNCHANGED fwdVars
  BY <1>1 DEF fwdVars, FwdInv, FwdType
<1>2. CASE ConnectorStep
  BY <1>2, ForwardOpensKeeps, ForwardAnsweredKeeps, ForwardAbandonsKeeps, PumpReadsKeeps, PumpWritesKeeps,
     ReceiveCopiesKeeps, ForwardEndsKeeps, ConnectorResetKeeps DEF ConnectorStep
<1>3. CASE ListenerStep
  BY <1>3, TcpAdmitKeeps, TcpRefusesKeeps, TcpRegistersKeeps, TcpAcksKeeps, TcpReadsKeeps, TcpWritesKeeps,
     TcpRunEndsKeeps, TcpWorkerTakesKeeps, TcpIgnoresKeeps, TcpHandlesKeeps, TcpResetKeeps,
     DialSucceedsKeeps, DialFailsKeeps DEF ListenerStep
<1>4. CASE \E how \in {"closed", "aborted"} : AppEnds(how) \/ TargetEnds(how)
  BY <1>4, AppKeeps, TargetKeeps
<1> QED
  BY <1>1, <1>2, <1>3, <1>4, AppKeeps, TargetKeeps, ForwardEndsKeeps, SessionLostKeeps DEF FwdNext

-----------------------------------------------------------------------------
(* The refinement.                                                         *)

(* The connector's pump starts once, with the listener's answer. *)
LEMMA PumpStarts ==
    ASSUME FwdInv, [FwdNext]_fwdVars
    PROVE  ((fwd'.pump = "off") <=> (fwd.pump = "off")) \/ fwd.pc = "await"
<1>1. fwd \in FwdRecord /\ FwdStage(app, fwd)
  BY FwdTypes
<1>2. CASE UNCHANGED fwd
  BY <1>2
<1>3. CASE ForwardOpens \/ ForwardAbandons \/ ForwardCancels \/ ForwarderClose \/ WatcherCloses \/ ForwardReturns
  BY <1>1, <1>3 DEF ForwardOpens, ForwardAbandons, ForwardCancels, ForwarderClose, WatcherCloses,
     ForwardReturns, FwdRecord
<1>4. CASE ForwardAnswered
  BY <1>4 DEF ForwardAnswered
<1>5. CASE PumpReads
  <2> DEFINE pump == IF Readable THEN "write" ELSE "fin"
             read == IF Readable THEN fwd.read + 1 ELSE fwd.read
  <2>1. fwd' = [fwd EXCEPT !.pump = pump, !.read = read] /\ fwd.pump = "read" /\ pump # "off"
    BY <1>5 DEF PumpReads
  <2> HIDE DEF pump, read
  <2> QED
    BY <1>1, <2>1 DEF FwdRecord
<1>6. CASE PumpWrites
  <2> DEFINE pump == IF app.end = "aborted" THEN "failed" ELSE "done"
  <2>1. /\ fwd.pump # "off" /\ pump # "off"
        /\ \/ fwd' = [fwd EXCEPT !.pump = "read"]
           \/ fwd' = [fwd EXCEPT !.pump = pump, !.sentFIN = TRUE]
           \/ fwd' = [fwd EXCEPT !.pump = "failed"]
    BY <1>6 DEF PumpWrites
  <2> HIDE DEF pump
  <2> QED
    BY <1>1, <2>1 DEF FwdRecord
<1>7. CASE ReceiveCopies
  <2> DEFINE recv == IF fwd.conn = "open" /\ app.end # "aborted" THEN fwd.recv ELSE "failed"
  <2>1. \/ fwd' = [fwd EXCEPT !.recv = "done"]
        \/ fwd' = [fwd EXCEPT !.recv = recv]
        \/ fwd' = [fwd EXCEPT !.recv = "failed"]
    BY <1>7 DEF ReceiveCopies
  <2> HIDE DEF recv
  <2> QED
    BY <1>1, <2>1 DEF FwdRecord
<1>8. CASE ConnectorReset \/ SessionLost
  <2> DEFINE stream == IF fwd.stream = "live" THEN "failed" ELSE fwd.stream
  <2>1. fwd' = [fwd EXCEPT !.stream = stream]
    BY <1>8 DEF ConnectorReset, SessionLost
  <2> HIDE DEF stream
  <2> QED
    BY <1>1, <2>1 DEF FwdRecord
<1>9. CASE ListenerStep
  BY <1>2, <1>9 DEF ListenerStep, TcpAdmit, TcpRefuses, TcpRegisters, TcpAcks, TcpReads, TcpWrites, TcpRunEnds,
     TcpWorkerTakes, TcpIgnores, TcpHandles, TcpReset, DialSucceeds, DialFails
<1>10. CASE AppSends \/ TargetSends \/ \E how \in {"closed", "aborted"} : AppEnds(how) \/ TargetEnds(how)
  BY <1>2, <1>10 DEF AppSends, TargetSends, AppEnds, TargetEnds
<1>11. CASE UNCHANGED fwdVars
  BY <1>2, <1>11 DEF fwdVars
<1> QED
  BY <1>3, <1>4, <1>5, <1>6, <1>7, <1>8, <1>9, <1>10, <1>11 DEF FwdNext, ConnectorStep, SessionEndCloses

(* The application writes, the target reads: CloseWrite shows it an end    *)
(* only where the application put one.                                     *)
LEMMA UpwardSteps ==
    ASSUME FwdInv, [FwdNext]_fwdVars
    PROVE  [Upward!PipeNext]_(Upward!pipeVars)
<1>1. /\ app \in EndRecord /\ tgt \in EndRecord /\ fwd \in FwdRecord /\ tcp \in TcpRecord
      /\ FwdStage(app, fwd) /\ TcpStage(tcp, tgt) /\ UpEnded(app, fwd, up, tcp, tgt)
  BY FwdTypes
<1>2. app.sent \in Nat /\ tgt.got \in Nat /\ tcp.held \in Nat /\ fwd.read \in Nat
  BY <1>1 DEF EndRecord, TcpRecord, FwdRecord
<1>3. CASE AppSends
  <2>1. app' = [app EXCEPT !.sent = app.sent + 1] /\ UNCHANGED <<fwd, tgt>> /\ app.end = "open"
    BY <1>3 DEF AppSends
  <2>2. app'.sent = app.sent + 1 /\ app'.end = app.end
    BY <1>1, <2>1 DEF EndRecord
  <2> QED
    BY <2>1, <2>2 DEF Upward!PipeNext, Upward!Write
<1>4. ASSUME NEW how \in {"closed", "aborted"}, AppEnds(how)
      PROVE  Upward!PipeNext
  <2>1. app' = [app EXCEPT !.end = how] /\ UNCHANGED <<fwd, tgt>> /\ app.end = "open"
    BY <1>4 DEF AppEnds
  <2>2. app'.sent = app.sent /\ app'.end = how
    BY <1>1, <1>4, <2>1 DEF EndRecord
  <2> QED
    BY <1>4, <2>1, <2>2 DEF Upward!PipeNext, Upward!Finish
<1>5. ((fwd'.pump = "off") <=> (fwd.pump = "off")) \/ ~tgt.eof
  <2>1. fwd.pc = "await" => ~tgt.eof
    BY <1>1 DEF UpEnded
  <2> QED
    BY <2>1, PumpStarts
<1>6. ASSUME app'.sent = app.sent, app'.end = app.end, tgt' = tgt
      PROVE  UNCHANGED Upward!pipeVars
  BY <1>5, <1>6 DEF Upward!pipeVars
<1>7. CASE ReceiveCopies
  <2> DEFINE got == IF fwd.conn = "open" THEN Head(down).piece ELSE app.got
             seen == (fwd.conn = "open")
  <2>1. /\ tgt' = tgt
        /\ app' = [app EXCEPT !.eof = seen] \/ app' = [app EXCEPT !.got = got] \/ app' = app
    BY <1>7 DEF ReceiveCopies
  <2> HIDE DEF got, seen
  <2>2. app'.sent = app.sent /\ app'.end = app.end
    BY <1>1, <2>1 DEF EndRecord
  <2> QED
    BY <1>6, <2>1, <2>2
<1>9. CASE TcpHandles
  <2>1. /\ UNCHANGED <<app, fwd>> /\ tcp.worker \notin {"idle", "syn"}
        /\ \/ tgt' = tgt
           \/ tcp.entry /\ tcp.worker = "FIN" /\ tgt' = [tgt EXCEPT !.eof = TRUE]
           \/ tcp.entry /\ tcp.worker # "FIN" /\ tgt' = [tgt EXCEPT !.got = tcp.held]
    BY <1>9 DEF TcpHandles
  <2>2. ~tgt.eof /\ (tcp.entry => tcp.worker \in {"DAT", "FIN"})
    BY <1>1, <2>1 DEF TcpStage
  <2>3. CASE tgt' = tgt
    BY <1>6, <2>1, <2>3
  <2>4. CASE tcp.entry /\ tcp.worker = "FIN" /\ tgt' = [tgt EXCEPT !.eof = TRUE]
    <3>1. tgt'.got = tgt.got /\ tgt'.eof
      BY <1>1, <2>4 DEF EndRecord
    <3>2. tgt.got + 2 \in FinUp(app, fwd)
      BY <1>1, <2>4 DEF UpEnded
    <3>3. ASSUME fwd.pump # "off"
          PROVE  EndSeen(app, tgt.got)
      <4>1. EndSeen(app, fwd.read) /\ tgt.got + 2 = fwd.read + 2
        BY <3>2, <3>3 DEF FinUp, PumpOver
      <4>2. tgt.got = fwd.read
        BY <1>2, <4>1
      <4> QED
        BY <4>1, <4>2
    <3>4. CASE fwd.pump # "off"
      BY <2>1, <2>2, <3>1, <3>3, <3>4 DEF Upward!PipeNext, Upward!ReadEnd, EndSeen
    <3>5. CASE fwd.pump = "off"
      BY <2>1, <3>1, <3>5 DEF Upward!pipeVars
    <3> QED
      BY <3>4, <3>5
  <2>5. CASE tcp.entry /\ tcp.worker = "DAT" /\ tgt' = [tgt EXCEPT !.got = tcp.held]
    <3>1. tgt'.got = tcp.held /\ tgt'.eof = tgt.eof
      BY <1>1, <2>5 DEF EndRecord
    <3>2. tcp.held = tgt.got + 1 /\ tcp.held <= app.sent
      BY <1>1, <2>5 DEF UpEnded
    <3>3. tgt.got < app.sent
      BY <1>2, <3>2
    <3> QED
      BY <2>1, <2>2, <3>1, <3>2, <3>3 DEF Upward!PipeNext, Upward!Read
  <2> QED
    BY <2>1, <2>2, <2>3, <2>4, <2>5
<1>10. CASE UNCHANGED <<app, tgt>>
  BY <1>6, <1>10
<1>11. CASE TargetSends \/ \E how \in {"closed", "aborted"} : TargetEnds(how)
  <2>1. app' = app /\ fwd' = fwd
    BY <1>11 DEF TargetSends, TargetEnds
  <2>2. tgt'.got = tgt.got /\ tgt'.eof = tgt.eof
    BY <1>1, <1>11 DEF TargetSends, TargetEnds, EndRecord
  <2> QED
    BY <2>1, <2>2 DEF Upward!pipeVars
<1>12. ConnectorStep \/ ListenerStep \/ ForwarderClose \/ SessionLost
       => ReceiveCopies \/ TcpHandles \/ UNCHANGED <<app, tgt>>
  BY DEF ConnectorStep, ForwardOpens, ForwardAnswered, ForwardAbandons, PumpReads, PumpWrites, ForwardCancels,
     WatcherCloses, ForwardReturns, SessionEndCloses, ForwarderClose, ConnectorReset, ListenerStep, TcpAdmit,
     TcpRefuses, TcpRegisters, TcpAcks, TcpReads, TcpWrites, TcpRunEnds, TcpWorkerTakes, TcpIgnores, TcpReset,
     DialSucceeds, DialFails, SessionLost
<1>13. UNCHANGED fwdVars => UNCHANGED <<app, tgt>>
  BY DEF fwdVars
<1> QED
  BY <1>3, <1>4, <1>7, <1>9, <1>10, <1>11, <1>12, <1>13 DEF FwdNext

(* The target writes, the application reads. *)
LEMMA DownwardSteps ==
    ASSUME FwdInv, [FwdNext]_fwdVars
    PROVE  [Downward!PipeNext]_(Downward!pipeVars)
<1>1. /\ app \in EndRecord /\ tgt \in EndRecord /\ fwd \in FwdRecord /\ tcp \in TcpRecord
      /\ FwdStage(app, fwd) /\ DownChain(app, fwd, down, tcp, tgt) /\ down \in Seq(StreamFrame)
  BY FwdTypes
<1>2. /\ tgt.sent \in Nat /\ app.got \in Nat /\ app.got + 1 \in Nat /\ tcp.read \in Nat
      /\ app.got <= tgt.sent
  BY <1>1 DEF EndRecord, TcpRecord, DownChain
<1>3. CASE TargetSends
  <2>1. tgt' = [tgt EXCEPT !.sent = tgt.sent + 1] /\ app' = app /\ tgt.end = "open"
    BY <1>3 DEF TargetSends
  <2>2. tgt'.sent = tgt.sent + 1 /\ tgt'.end = tgt.end
    BY <1>1, <2>1 DEF EndRecord
  <2> QED
    BY <2>1, <2>2 DEF Downward!PipeNext, Downward!Write
<1>4. ASSUME NEW how \in {"closed", "aborted"}, TargetEnds(how)
      PROVE  Downward!PipeNext
  <2>1. tgt' = [tgt EXCEPT !.end = how] /\ app' = app /\ tgt.end = "open"
    BY <1>4 DEF TargetEnds
  <2>2. tgt'.sent = tgt.sent /\ tgt'.end = how
    BY <1>1, <1>4, <2>1 DEF EndRecord
  <2> QED
    BY <1>4, <2>1, <2>2 DEF Downward!PipeNext, Downward!Finish
<1>5. CASE UNCHANGED <<app, tgt>>
  BY <1>5 DEF Downward!pipeVars
<1>6. ASSUME tgt' = tgt, app'.got = app.got, app'.eof = app.eof
      PROVE  UNCHANGED Downward!pipeVars
  BY <1>6 DEF Downward!pipeVars
<1>7. CASE ReceiveCopies
  <2> DEFINE x == Head(down)
             got == IF fwd.conn = "open" THEN x.piece ELSE app.got
             seen == (fwd.conn = "open")
  <2>1. /\ tgt' = tgt /\ fwd.recv = "on"
        /\ \/ down # <<>> /\ x.kind = "FIN" /\ app' = [app EXCEPT !.eof = seen]
           \/ down # <<>> /\ x.kind \notin {"FIN", "RESET"} /\ app' = [app EXCEPT !.got = got]
           \/ app' = app
    BY <1>7 DEF ReceiveCopies
  <2>2. fwd.pc = "copy" /\ ~app.eof
    BY <1>1, <2>1 DEF FwdStage
  <2>3. Frames(down, app.got + 1, tgt.sent, FinDown(tcp, tgt))
    BY <1>1, <2>1, <2>2 DEF DownChain, Listening, DueDown
  <2>4. ASSUME down # <<>>
        PROVE  /\ x \in StreamFrame
               /\ x.kind \in {"SYN", "OK", "REFUSED", "FAILED"} => app.got + 1 = 0
               /\ x.kind = "DAT" => x.piece = app.got + 1 /\ x.piece <= tgt.sent
               /\ x.kind = "FIN" => app.got + 1 + 1 \in FinDown(tcp, tgt)
    BY <1>1, <1>2, <2>3, <2>4, FramesTaken, FrameTaken
  <2> HIDE DEF x
  <2>5. CASE app' = app
    BY <1>5, <2>1, <2>5
  <2>6. CASE down # <<>> /\ x.kind = "FIN" /\ app' = [app EXCEPT !.eof = seen]
    <3>1. seen \in BOOLEAN
      OBVIOUS
    <3> HIDE DEF seen
    <3>2. app'.got = app.got /\ app'.eof = seen
      BY <1>1, <2>6, <3>1 DEF EndRecord
    <3>3. EndSeen(tgt, tcp.read) /\ app.got + 1 + 1 = tcp.read + 2
      BY <2>4, <2>6 DEF FinDown, TargetOver
    <3>4. app.got = tcp.read
      BY <1>2, <3>3
    <3>5. CASE seen
      BY <2>1, <2>2, <3>2, <3>3, <3>4, <3>5 DEF Downward!PipeNext, Downward!ReadEnd, EndSeen
    <3>6. CASE ~seen
      <4>1. app'.eof = app.eof
        BY <1>1, <2>2, <3>1, <3>2, <3>6 DEF EndRecord
      <4> QED
        BY <1>6, <2>1, <3>2, <4>1
    <3> QED
      BY <3>5, <3>6
  <2>7. CASE down # <<>> /\ x.kind \notin {"FIN", "RESET"} /\ app' = [app EXCEPT !.got = got]
    <3>1. app.got + 1 # 0
      BY <1>2
    <3>2. x.kind = "DAT"
      BY <2>4, <2>7, <3>1 DEF StreamFrame
    <3>3. got = app.got \/ (got = app.got + 1 /\ app.got < tgt.sent)
      BY <1>2, <2>4, <2>7, <3>2
    <3> HIDE DEF got
    <3>4. app'.got = got /\ app'.eof = app.eof
      BY <1>1, <2>7 DEF EndRecord
    <3>5. CASE got = app.got
      BY <1>6, <2>1, <3>4, <3>5
    <3>6. CASE got = app.got + 1 /\ app.got < tgt.sent
      BY <2>1, <2>2, <3>4, <3>6 DEF Downward!PipeNext, Downward!Read
    <3> QED
      BY <3>3, <3>5, <3>6
  <2> QED
    BY <2>1, <2>5, <2>6, <2>7
<1>8. CASE TcpHandles
  <2>1. /\ app' = app
        /\ tgt' = tgt \/ tgt' = [tgt EXCEPT !.eof = TRUE] \/ tgt' = [tgt EXCEPT !.got = tcp.held]
    BY <1>8 DEF TcpHandles
  <2>2. tgt'.sent = tgt.sent /\ tgt'.end = tgt.end
    BY <1>1, <2>1 DEF EndRecord
  <2> QED
    BY <2>1, <2>2 DEF Downward!pipeVars
<1>9. CASE AppSends \/ \E how \in {"closed", "aborted"} : AppEnds(how)
  <2>1. tgt' = tgt /\ app'.got = app.got /\ app'.eof = app.eof
    BY <1>1, <1>9 DEF AppSends, AppEnds, EndRecord
  <2> QED
    BY <2>1 DEF Downward!pipeVars
<1>10. ConnectorStep \/ ListenerStep \/ ForwarderClose \/ SessionLost
       => ReceiveCopies \/ TcpHandles \/ UNCHANGED <<app, tgt>>
  BY DEF ConnectorStep, ForwardOpens, ForwardAnswered, ForwardAbandons, PumpReads, PumpWrites, ForwardCancels,
     WatcherCloses, ForwardReturns, SessionEndCloses, ForwarderClose, ConnectorReset, ListenerStep, TcpAdmit,
     TcpRefuses, TcpRegisters, TcpAcks, TcpReads, TcpWrites, TcpRunEnds, TcpWorkerTakes, TcpIgnores, TcpReset,
     DialSucceeds, DialFails, SessionLost
<1>11. UNCHANGED fwdVars => UNCHANGED <<app, tgt>>
  BY DEF fwdVars
<1> QED
  BY <1>3, <1>4, <1>5, <1>7, <1>8, <1>9, <1>10, <1>11 DEF FwdNext

(* A forwarded connection implements BytePipe in each direction, for any   *)
(* number of pieces: whatever is cancelled, reset or lost in between, what *)
(* either side reads is what the other wrote, in order, and CloseWrite     *)
(* shows it an end only after all of it, or when the other side broke off  *)
(* (Pump, receiveTCP, OnDAT and OnFIN in bytestream, client/tcp.go and     *)
(* streamtype/tcp.go).                                                     *)
THEOREM ForwardArrivesWhole == FwdSpec => ForwardIsPipe
<1>1. FwdInit => Upward!PipeInit /\ Downward!PipeInit
  BY DEF FwdInit, Upward!PipeInit, Downward!PipeInit
<1>2. FwdInv /\ [FwdNext]_fwdVars => /\ [Upward!PipeNext]_(Upward!pipeVars)
                                    /\ [Downward!PipeNext]_(Downward!pipeVars)
  BY UpwardSteps, DownwardSteps
<1> QED
  BY <1>1, <1>2, FwdInitInv, FwdStepInv, PTL
  DEF FwdSpec, ForwardIsPipe, Upward!PipeSpec, Downward!PipeSpec

-----------------------------------------------------------------------------
(* The results hold in the composition as well, where the SYN names the    *)
(* type of its stream: a step of another handler leaves a handler as it    *)
(* is.                                                                     *)
LEMMA ComponentSteps ==
    /\ Init => FwdInit /\ FileInit /\ ShellInit /\ HttpInit
    /\ [Next]_vars => [FwdNext]_fwdVars /\ [FileNext]_fileVars /\ [ShellNext]_shellVars /\ [HttpNext]_httpVars
<1>1. Init => FwdInit /\ FileInit /\ ShellInit /\ HttpInit
  BY DEF Init
<1>2. Streams("tcp", FwdNext) /\ UNCHANGED <<fileVars, shellVars, httpVars>>
      => FwdNext /\ UNCHANGED fileVars /\ UNCHANGED shellVars /\ UNCHANGED httpVars
  BY DEF Streams
<1>3. Streams("file", FileNext) /\ UNCHANGED <<fwdVars, shellVars, httpVars>>
      => FileNext /\ UNCHANGED fwdVars /\ UNCHANGED shellVars /\ UNCHANGED httpVars
  BY DEF Streams
<1>4. Streams("shell", ShellNext) /\ UNCHANGED <<fwdVars, fileVars, httpVars>>
      => ShellNext /\ UNCHANGED fwdVars /\ UNCHANGED fileVars /\ UNCHANGED httpVars
  BY DEF Streams
<1>5. Streams("web", HttpNext) /\ UNCHANGED <<fwdVars, fileVars, shellVars>>
      => HttpNext /\ UNCHANGED fwdVars /\ UNCHANGED fileVars /\ UNCHANGED shellVars
  BY DEF Streams
<1>6. UNCHANGED vars => UNCHANGED fwdVars /\ UNCHANGED fileVars /\ UNCHANGED shellVars /\ UNCHANGED httpVars
  BY DEF vars
<1> QED
  BY <1>1, <1>2, <1>3, <1>4, <1>5, <1>6 DEF Next

(* Whichever handler the SYN names, the exit status a terminal gets comes  *)
(* after all of the shell's output, and an upload reported as done is      *)
(* whole (handleStream over ShellHandler and FileHandler).                 *)
THEOREM HandlersKeepTheirWord == Spec => [](ExitAfterOutput /\ PutIsWhole)
<1>1. FileInv => PutIsWhole
  BY DEF FileInv, PutInv, PutWhole, PutIsWhole
<1>2. ShellInv => ExitAfterOutput
  BY DEF ShellInv, ShellDrained, ExitAfterOutput
<1> QED
  BY <1>1, <1>2, ComponentSteps, FileInitInv, FileStepInv, ShellInitInv, ShellStepInv, PTL DEF Spec

(* In the composition too, the forwarded connection and the request body   *)
(* implement BytePipe, whichever close, cancellation, reset or loss of the *)
(* session comes in between (Pump's FIN, pendingStream.close against       *)
(* OnFIN).                                                                 *)
THEOREM PipesHold == Spec => PipesImplemented
<1>1. /\ FwdInit => Upward!PipeInit /\ Downward!PipeInit
      /\ HttpInit => Body!PipeInit
  BY DEF FwdInit, HttpInit, Upward!PipeInit, Downward!PipeInit, Body!PipeInit
<1>2. FwdInv /\ [FwdNext]_fwdVars => /\ [Upward!PipeNext]_(Upward!pipeVars)
                                    /\ [Downward!PipeNext]_(Downward!pipeVars)
  BY UpwardSteps, DownwardSteps
<1>3. HttpInv /\ [HttpNext]_httpVars => [Body!PipeNext]_(Body!pipeVars)
  BY BodySteps
<1>4. Spec => ForwardIsPipe
  BY <1>1, <1>2, ComponentSteps, FwdInitInv, FwdStepInv, PTL
  DEF Spec, ForwardIsPipe, Upward!PipeSpec, Downward!PipeSpec
<1>5. Spec => BodyIsPipe
  BY <1>1, <1>3, ComponentSteps, HttpInitInv, HttpStepInv, PTL DEF Spec, BodyIsPipe, Body!PipeSpec
<1> QED
  BY <1>4, <1>5 DEF PipesImplemented
=============================================================================
