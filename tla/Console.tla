------------------------------ MODULE Console ------------------------------
(***************************************************************************)
(* The listener's console (cmd/bitbang/console.go, hold.go): one reader of *)
(* the terminal, the command loop that Enter starts, and the questions of  *)
(* pairings (serve_pair.go, sasPrompt in serve_listen.go) that interrupt   *)
(* it.  What a line says is left out: a command may ask questions, a SAS   *)
(* is right or wrong.  c.mu's critical sections are single steps; askMu is *)
(* held across steps; leave releases the output after it unlocked c.mu.    *)
(***************************************************************************)
EXTENDS Naturals

CONSTANTS
    Pairs,         \* pairings, each with the goroutine of its data channel
    MaxAttempts,   \* pairing.MaxSASAttempts
    MaxQuestions   \* bound: grant questions a pairing asks

Loop == "loop"
Actors == {Loop} \cup Pairs
Nobody == "nobody"

VARIABLES
    cons,     \* the console's fields
    holding,  \* the holdWriters keep the listener's output
    askMu,    \* the goroutine that owns askMu
    reader,   \* the reader: where it is, the prompt it looked up for a line
    g,        \* the goroutines: where, for which kind of question, what after leave
    mine,     \* the channel of each goroutine's prompt: empty, line, closed
    asked     \* questions of this kind a pairing has asked

consoleVars == <<cons, holding, askMu, reader, g, mine, asked>>

Goroutine(pc) == [pc |-> pc, ask |-> "none", then |-> "none"]

ConsoleInit ==
    /\ cons = [open |-> FALSE, closed |-> FALSE, pending |-> 0, waiter |-> Nobody,
               yield |-> "none", looping |-> FALSE]
    /\ holding = FALSE
    /\ askMu = Nobody
    /\ reader = [pc |-> "reading", to |-> Nobody]
    /\ g = [x \in Actors |-> Goroutine(IF x = Loop THEN "off" ELSE "none")]
    /\ mine = [x \in Actors |-> "empty"]
    /\ asked = [p \in Pairs |-> 0]

At(x, pc) == g[x].pc = pc
Goes(x, pc) == g' = [g EXCEPT ![x].pc = pc, ![x].then = "none"]
GoesAsking(x, pc, ask) == g' = [g EXCEPT ![x].pc = pc, ![x].ask = ask]
GoesLeaving(x, then) == g' = [g EXCEPT ![x].pc = "leaving", ![x].then = then]

(* enter *)
EnterConsole ==
    /\ cons' = [cons EXCEPT !.open = TRUE]
    /\ holding' = (holding \/ ~cons.open)

-----------------------------------------------------------------------------
(* The reader of the terminal.                                             *)

(* A line is typed; the prompt in progress is looked up. *)
ReadLine ==
    /\ reader.pc = "reading"
    /\ reader' = [pc |-> "line", to |-> cons.waiter]
    /\ UNCHANGED <<cons, holding, askMu, g, mine, asked>>

(* The line goes to the prompt, unless it gave up or has one already. *)
HandToPrompt ==
    /\ reader.pc = "line" /\ reader.to # Nobody
    /\ mine' = [x \in Actors |-> IF x = reader.to /\ mine[x] = "empty" THEN "line" ELSE mine[x]]
    /\ reader' = [pc |-> "reading", to |-> Nobody]
    /\ UNCHANGED <<cons, holding, askMu, g, asked>>

(* onLine starts a loop, unless there is one. *)
HandToIdle ==
    /\ reader.pc = "line" /\ reader.to = Nobody
    /\ reader' = [reader EXCEPT !.pc = "reading"]
    /\ IF cons.looping
       THEN UNCHANGED <<cons, g>>
       ELSE cons' = [cons EXCEPT !.looping = TRUE] /\ Goes(Loop, "opening")
    /\ UNCHANGED <<holding, askMu, mine, asked>>

(* EOF: the prompt that is up is told through its channel. *)
ReadEOF ==
    /\ reader.pc = "reading"
    /\ cons' = [cons EXCEPT !.closed = TRUE]
    /\ reader' = [pc |-> "eof", to |-> cons.waiter]
    /\ UNCHANGED <<holding, askMu, g, mine, asked>>

(* A line already in the channel is still read before its end. *)
CloseWaiter ==
    /\ reader.pc = "eof"
    /\ mine' = [x \in Actors |-> IF x = reader.to /\ mine[x] = "empty" THEN "closed" ELSE mine[x]]
    /\ reader' = [pc |-> "gone", to |-> Nobody]
    /\ UNCHANGED <<cons, holding, askMu, g, asked>>

-----------------------------------------------------------------------------
(* askImpl and readLineYielding, on any goroutine.  The loop's own read    *)
(* yields; a pairing's question has a deadline.                            *)

AskLocks(x) ==
    /\ At(x, "lock") /\ askMu = Nobody
    /\ askMu' = x
    /\ EnterConsole
    /\ Goes(x, "register")
    /\ UNCHANGED <<reader, mine, asked>>

Yields(x) == g[x].ask = "read"

(* Mutant: pending is looked at before the turn is taken, and not again. *)
MutantPreempted(x) == FALSE

Preempted(x) == Yields(x) /\ cons.pending > 0

(* The deferred functions: waiter and yield are cleared, askMu unlocked. *)
PromptEnds(x, pc) ==
    /\ cons' = [cons EXCEPT !.waiter = Nobody, !.yield = "none"]
    /\ reader' = IF reader.to = x THEN [reader EXCEPT !.to = "stale"] ELSE reader
    /\ askMu' = Nobody
    /\ mine' = [mine EXCEPT ![x] = "empty"]
    /\ Goes(x, pc)
    /\ UNCHANGED <<holding, asked>>

Register(x) ==
    /\ At(x, "register")
    /\ ~cons.closed /\ ~Preempted(x)
    /\ cons' = [cons EXCEPT !.waiter = x, !.yield = IF Yields(x) THEN "armed" ELSE @]
    /\ Goes(x, "prompt")
    /\ UNCHANGED <<holding, askMu, reader, mine, asked>>

(* The turn is given up, at once or in the select. *)
StepAside(x) ==
    /\ \/ At(x, "register") /\ ~cons.closed /\ Preempted(x)
       \/ At(x, "prompt") /\ Yields(x) /\ cons.yield = "given"
    /\ PromptEnds(x, "idle")

TakeLine(x) ==
    /\ At(x, "prompt") /\ mine[x] = "line"
    /\ PromptEnds(x, "answered")

(* Ctrl-C, EOF or the deadline: leave runs before the prompt ends. *)
EndPrompt(x) ==
    /\ At(x, "prompt")
    /\ GoesLeaving(x, "failing")
    /\ UNCHANGED <<cons, holding, askMu, reader, mine, asked>>

Interrupt(x) == EndPrompt(x)
SeesEOF(x) == mine[x] = "closed" /\ EndPrompt(x)
Deadline(p) == EndPrompt(p)

PromptFails(x) ==
    /\ At(x, "failing") \/ (At(x, "register") /\ cons.closed)
    /\ PromptEnds(x, "failed")

(* leave, in its two parts. *)
Leave(x) ==
    /\ At(x, "leaving")
    /\ cons' = [cons EXCEPT !.open = FALSE]
    /\ IF cons.open THEN g' = [g EXCEPT ![x].pc = "releasing"] ELSE Goes(x, g[x].then)
    /\ UNCHANGED <<holding, askMu, reader, mine, asked>>

ReleaseOutput(x) ==
    /\ At(x, "releasing")
    /\ holding' = FALSE
    /\ Goes(x, g[x].then)
    /\ UNCHANGED <<cons, askMu, reader, mine, asked>>

-----------------------------------------------------------------------------
(* The command loop.                                                       *)

(* The goroutine of Watch: a line that is not blank is the first command. *)
LoopOpens ==
    /\ At(Loop, "opening")
    /\ EnterConsole
    /\ GoesAsking(Loop, "running", "first") \/ Goes(Loop, "idle")
    /\ UNCHANGED <<askMu, reader, mine, asked>>

(* waitIdle *)
LoopWaits ==
    /\ At(Loop, "idle")
    /\ IF cons.pending > 0 THEN Goes(Loop, "asleep") ELSE GoesAsking(Loop, "lock", "read")
    /\ UNCHANGED <<cons, holding, askMu, reader, mine, asked>>

(* A line of the loop's own prompt: blank, exit, or a command; a line for a *)
(* command's question goes back to the command.                            *)
LoopAnswered ==
    /\ At(Loop, "answered")
    /\ IF Yields(Loop)
       THEN Goes(Loop, "idle") \/ GoesLeaving(Loop, "end") \/ GoesAsking(Loop, "running", "question")
       ELSE Goes(Loop, "running")
    /\ UNCHANGED <<cons, holding, askMu, reader, mine, asked>>

CommandAsks ==
    /\ At(Loop, "running")
    /\ Goes(Loop, "lock")
    /\ UNCHANGED <<cons, holding, askMu, reader, mine, asked>>

(* After the first command Loop enters the console again. *)
CommandReturns ==
    /\ At(Loop, "running")
    /\ IF g[Loop].ask = "first" THEN EnterConsole ELSE UNCHANGED <<cons, holding>>
    /\ Goes(Loop, "idle")
    /\ UNCHANGED <<askMu, reader, mine, asked>>

(* A read or a command that failed ends the loop; only the first command *)
(* ends it without leave.                                                *)
LoopFails ==
    /\ At(Loop, "failed")
    /\ IF g[Loop].ask = "first" THEN Goes(Loop, "end") ELSE GoesLeaving(Loop, "end")
    /\ UNCHANGED <<cons, holding, askMu, reader, mine, asked>>

LoopEnds ==
    /\ At(Loop, "end")
    /\ cons' = [cons EXCEPT !.looping = FALSE]
    /\ g' = [g EXCEPT ![Loop] = Goroutine("off")]
    /\ UNCHANGED <<holding, askMu, reader, mine, asked>>

-----------------------------------------------------------------------------
(* A pairing.                                                              *)

(* Hold: the loop's read is told to give up its turn. *)
Hold == cons' = [cons EXCEPT !.pending = @ + 1, !.yield = IF @ = "armed" THEN "given" ELSE @]

(* Mutant: idle is not broadcast. *)
MutantUnhold(p, pc) ==
    /\ cons' = [cons EXCEPT !.pending = @ - 1]
    /\ Goes(p, pc)

(* The function Hold returns broadcasts idle when it was the last. *)
Unhold(p, pc) ==
    /\ cons' = [cons EXCEPT !.pending = @ - 1]
    /\ g' = [g EXCEPT ![p].pc = pc, ![Loop].pc = IF @ = "asleep" /\ cons.pending = 1 THEN "idle" ELSE @]

(* handlePairRequest: the terminal is held until the pairing is done.  The *)
(* hold of one whose data channel never opens is not released.             *)
PairRequest(p) ==
    /\ At(p, "none")
    /\ Hold /\ Goes(p, "pairing")
    /\ UNCHANGED <<holding, askMu, reader, mine, asked>>

PairFails(p) ==
    /\ At(p, "pairing")
    /\ Goes(p, "end") \/ Goes(p, "lost")
    /\ UNCHANGED <<cons, holding, askMu, reader, mine, asked>>

(* AskNow, for the SAS and, inside a Session, for the grant. *)
AskNow(p) ==
    /\ \/ At(p, "pairing") /\ GoesAsking(p, "lock", "sas")
       \/ At(p, "granting") /\ asked[p] < MaxQuestions /\ GoesAsking(p, "lock", "grant")
    /\ Hold
    /\ asked' = [asked EXCEPT ![p] = @ + 1]
    /\ UNCHANGED <<holding, askMu, reader, mine>>

(* The SAS is right; wrong, and asked for again; or wrong too often.  An   *)
(* answer in a Session goes back to it.                                    *)
PairAnswered(p) ==
    /\ At(p, "answered")
    /\ IF g[p].ask = "grant" THEN Unhold(p, "granting")
       ELSE Unhold(p, "session") \/ Unhold(p, IF asked[p] < MaxAttempts THEN "pairing" ELSE "end")
    /\ UNCHANGED <<holding, askMu, reader, mine, asked>>

PairQuestionFails(p) ==
    /\ At(p, "failed")
    /\ Unhold(p, IF g[p].ask = "grant" THEN "abandoned" ELSE "end")
    /\ UNCHANGED <<holding, askMu, reader, mine, asked>>

(* Session *)
PairSession(p) ==
    /\ At(p, "session")
    /\ EnterConsole /\ Goes(p, "granting")
    /\ asked' = [asked EXCEPT ![p] = 0]
    /\ UNCHANGED <<askMu, reader, mine>>

(* The link is added, or the grant abandoned, and Session leaves. *)
PairGrants(p) ==
    /\ At(p, "abandoned") \/ (At(p, "granting") /\ asked[p] > 0)
    /\ GoesLeaving(p, "end")
    /\ UNCHANGED <<cons, holding, askMu, reader, mine, asked>>

PairDone(p) ==
    /\ At(p, "end")
    /\ Unhold(p, "done")
    /\ asked' = [asked EXCEPT ![p] = 0]
    /\ UNCHANGED <<holding, askMu, reader, mine>>

-----------------------------------------------------------------------------

(* What a goroutine does by itself; what the operator and connectors do. *)
AskStep(x) ==
    \/ Register(x) \/ StepAside(x) \/ TakeLine(x) \/ SeesEOF(x) \/ PromptFails(x)
    \/ Leave(x) \/ ReleaseOutput(x)

LoopStep == LoopOpens \/ LoopWaits \/ LoopAnswered \/ CommandAsks \/ CommandReturns \/ LoopFails \/ LoopEnds

PairStep(p) ==
    \/ PairFails(p) \/ AskNow(p) \/ PairAnswered(p) \/ PairQuestionFails(p)
    \/ PairSession(p) \/ PairGrants(p) \/ PairDone(p)

ReaderStep == HandToPrompt \/ HandToIdle \/ CloseWaiter

ConsoleNext ==
    \/ ReadLine \/ ReadEOF \/ ReaderStep \/ LoopStep
    \/ \E x \in Actors : AskLocks(x) \/ AskStep(x) \/ Interrupt(x)
    \/ \E p \in Pairs : PairRequest(p) \/ PairStep(p) \/ Deadline(p)

(* Goroutines run and timers fire; nobody has to type.  A goroutine that   *)
(* waits for a Go mutex gets it (strong fairness, needed for pairings).    *)
ConsoleFairness ==
    /\ WF_consoleVars(ReaderStep) /\ WF_consoleVars(LoopStep)
    /\ \A x \in Actors : WF_consoleVars(AskStep(x))
    /\ \A p \in Pairs : /\ SF_consoleVars(AskLocks(p))
                        /\ WF_consoleVars(PairStep(p) \/ Deadline(p))

ConsoleSpec == ConsoleInit /\ [][ConsoleNext]_consoleVars /\ ConsoleFairness

-----------------------------------------------------------------------------
(* Properties.                                                             *)

PairWaits == \E p \in Pairs : At(p, "lock")

(* "It interrupts the command loop rather than queueing behind it"         *)
(* (AskNow): while a pairing's question waits for its turn the loop does   *)
(* not keep the turn for its own prompt, although nobody types a line.     *)
PairingInterruptsLoop ==
    askMu = Loop /\ Yields(Loop) /\ PairWaits ~> askMu # Loop \/ ~PairWaits

(* A loop that stood aside takes the terminal back when the pairings are   *)
(* over, whichever way they end (waitIdle, Hold), unless one of them was   *)
(* lost before its data channel opened and never released its hold.        *)
LoopComesBack ==
    At(Loop, "asleep") ~> ~At(Loop, "asleep") \/ \E p \in Pairs : At(p, "lost")

(* "While it is open the listener's output is held, so a question cannot   *)
(* be scrolled away": violated, leave releases the output after another    *)
(* goroutine has entered.                                                  *)
PromptIsHeld == \A x \in Actors : At(x, "prompt") => holding

(* "Every caller that asks more than one question should use [Session], so *)
(* a mid-flow abort still resumes output": violated by the SAS prompts,    *)
(* after the last wrong code nobody leaves.                                *)
HeldOnlyInUse ==
    At(Loop, "off") /\ ~cons.looping /\ (\A p \in Pairs : g[p].pc \in {"none", "done"}) => ~holding

(* "The console with a deadline on every question" (boundedAsker):         *)
(* violated, the deadline starts once askMu is held.                       *)
PairQuestionBounded == \A p \in Pairs : At(p, "lock") ~> ~At(p, "lock")
=============================================================================
