------------------------------ MODULE LinkStore ------------------------------
(***************************************************************************)
(* The link table of a listener and the file behind it: linkState          *)
(* (cmd/bitbang/serve_links.go), links.Load, Save, Build, DedupeCodes,     *)
(* RetireExpired and Mint (internal/links), the `bitbang link rm` command  *)
(* (cmd/bitbang/link.go) and an operator with an editor.                   *)
(*                                                                         *)
(* A row is a code and an expiry; grants and wording are left out.  The    *)
(* owner's row, which Build adds, is the code Owner.  Codes are numbers in *)
(* the order they are minted, NoCode is the empty string.  Every write of  *)
(* the file is assumed to change its modification time, so a writer only   *)
(* has to know whether the time it loaded is still the file's.             *)
(***************************************************************************)
EXTENDS Naturals, FiniteSets

CONSTANTS
    Labels,      \* labels of links
    Consoles,    \* goroutines of the listener that run console commands
    Pairings,    \* goroutines of the listener that grant a pairing a link
    Commands,    \* `bitbang link rm` processes
    MaxTime,     \* bound: the clock
    MaxCode,     \* bound: codes minted
    MaxEdits     \* bound: changes made with an editor

(* A `bitbang link rm` is a process of its own, none of the listener's goroutines. *)
ASSUME LinkAssumption == Commands \cap (Consoles \cup Pairings) = {}

NoCode == 0
Owner == 1
Never == MaxTime + 1

VARIABLES
    file,      \* links.json: its rows, how it reads, who wrote it
    table,     \* linkState.table, without the owner's row
    writer,    \* what each goroutine and process is doing with the file
    clock,     \* the time
    minted,    \* codes used so far
    edits,     \* changes made with an editor
    raced      \* history: two goroutines were changing the table at once

linkVars == <<file, table, writer, clock, minted, edits, raced>>

Listeners == Consoles \cup Pairings
Writers == Listeners \cup Commands

NoRows == [l \in {} |-> [code |-> NoCode, expires |-> Never]]
Idle == [pc |-> "idle", rows |-> NoRows, fresh |-> FALSE, clash |-> FALSE]

(* One link that the listener minted and loaded when it started. *)
LinkInit ==
    /\ \E l \in Labels, e \in 1..Never :
          file = [rows |-> [x \in {l} |-> [code |-> Owner + 1, expires |-> e]],
                  reads |-> "good", by |-> "listener"]
    /\ table = file.rows
    /\ writer = [x \in Writers |-> Idle]
    /\ clock = 0
    /\ minted = Owner + 1
    /\ edits = 0
    /\ raced = FALSE

-----------------------------------------------------------------------------
(* The passes over the rows.                                               *)

Expired(row) == row.expires <= clock

WithRow(rows, l, row) == [x \in DOMAIN rows \cup {l} |-> IF x = l THEN row ELSE rows[x]]
WithoutRow(rows, l) == [x \in DOMAIN rows \ {l} |-> rows[x]]
Cleared(rows, S) == [x \in DOMAIN rows |-> IF x \in S THEN [rows[x] EXCEPT !.code = NoCode] ELSE rows[x]]

Shared(rows) ==
    {x \in DOMAIN rows : /\ rows[x].code # NoCode
                         /\ \/ rows[x].code = Owner
                            \/ \E y \in DOMAIN rows \ {x} : rows[y].code = rows[x].code}

(* Mutant: one of the rows that share a code keeps it. *)
MutantDedupeCodes(rows) ==
    Cleared(rows, {x \in DOMAIN rows : rows[x].code = Owner})

DedupeCodes(rows) == Cleared(rows, Shared(rows))

RetireExpired(rows) == Cleared(rows, {x \in DOMAIN rows : Expired(rows[x])})

Codeless(rows) == {x \in DOMAIN rows : rows[x].code = NoCode /\ ~Expired(rows[x])}

(* Mint: a code that was never used for every live row without one. *)
Mint(rows) ==
    LET S == Codeless(rows)
        fresh == CHOOSE n \in [S -> minted + 1 .. minted + Cardinality(S)] :
                    \A x, y \in S : x # y => n[x] # n[y]
    IN  [x \in DOMAIN rows |-> IF x \in S THEN [rows[x] EXCEPT !.code = fresh[x]] ELSE rows[x]]

-----------------------------------------------------------------------------
(* reload and mutate, on whichever goroutine calls them.                   *)

(* A label written twice stays so, unless all its rows are removed. *)
Clashes(op) == {file.reads = "clash"} \cup IF op = "rm" THEN {FALSE} ELSE {}

(* A file that is not there has no rows and no modification time to read. *)
Missing == file.reads = "none"

(* Load's ReadFile.  The rows are deduplicated, retired and minted, and go *)
(* to Save; reload writes only when a code was changed, other than by      *)
(* taking the owner's code from a row that has expired.                    *)
Install(x, op, rows) ==
    LET retired == RetireExpired(DedupeCodes(rows))
        new == Mint(retired)
        changed == \E l \in DOMAIN rows : new[l] # rows[l] /\ ~(rows[l].code = Owner /\ Expired(rows[l]))
    IN  /\ minted' = minted + Cardinality(Codeless(retired))
        /\ minted' <= MaxCode
        /\ \E clash \in Clashes(op) : writer' = [writer EXCEPT ![x] =
              [pc |-> IF op = "reload" /\ ~changed THEN "build" ELSE IF Missing THEN "stat" ELSE "load",
               rows |-> new, fresh |-> Missing, clash |-> clash]]
        /\ raced' = (raced \/ \E y \in Listeners \ {x} : writer[y].pc # "idle")
        /\ UNCHANGED <<file, table, clock, edits>>

(* Load; an unreadable file ends the call and leaves the table as it is. *)
Readable(x) == writer[x].pc = "idle" /\ file.reads # "bad"

Reload(x) == Readable(x) /\ Install(x, "reload", file.rows)

(* add: cmdAdd, and grantForPairing or grantDefault. *)
AddLink(x, l, e) ==
    /\ Readable(x) /\ l \notin DOMAIN file.rows
    /\ Install(x, "add", WithRow(file.rows, l, [code |-> NoCode, expires |-> e]))

RemoveLink(x, l) ==
    /\ Readable(x) /\ l \in DOMAIN file.rows
    /\ Install(x, "rm", WithoutRow(file.rows, l))

(* replace: the code is carried across to the edited row. *)
EditLink(x, l, new, e) ==
    /\ Readable(x) /\ l \in DOMAIN file.rows
    /\ new = l \/ new \notin DOMAIN file.rows
    /\ Install(x, "edit", WithRow(WithoutRow(file.rows, l), new,
                                  [code |-> file.rows[l].code, expires |-> e]))

(* runLinkRm changes the rows and nothing else. *)
CommandRemoves(x, l) ==
    /\ Readable(x) /\ l \in DOMAIN file.rows
    /\ \E clash \in Clashes("rm") :
          writer' = [writer EXCEPT ![x] = [pc |-> "load", fresh |-> FALSE,
                                           rows |-> WithoutRow(file.rows, l), clash |-> clash]]
    /\ UNCHANGED <<file, table, clock, minted, edits, raced>>

(* Every modification time that was loaded is out of date after a write. *)
Outdated == [x \in Writers |-> [writer[x] EXCEPT !.fresh = FALSE]]

(* The modification time is read after the rows (Load), *)
LoadStat(x) ==
    /\ writer[x].pc = "load"
    /\ writer' = [writer EXCEPT ![x].pc = "stat", ![x].fresh = TRUE]
    /\ UNCHANGED <<file, table, clock, minted, edits, raced>>

(* compared with the file's before it is written (Save), *)
Stat(x) ==
    /\ writer[x].pc = "stat"
    /\ writer' = [writer EXCEPT ![x] = IF @.fresh THEN [@ EXCEPT !.pc = "rename"] ELSE Idle]
    /\ UNCHANGED <<file, table, clock, minted, edits, raced>>

(* Mutant: an error of Save does not end the call. *)
MutantSaveFails(x) ==
    /\ writer[x].pc = "rename"
    /\ writer' = [writer EXCEPT ![x] = IF x \in Commands THEN Idle ELSE [@ EXCEPT !.pc = "build"]]
    /\ UNCHANGED <<file, table, clock, minted, edits, raced>>

(* and the file is replaced, or the replacement cannot be written. *)
SaveFails(x) ==
    /\ writer[x].pc = "rename"
    /\ writer' = [writer EXCEPT ![x] = Idle]
    /\ UNCHANGED <<file, table, clock, minted, edits, raced>>

Rename(x) ==
    /\ writer[x].pc = "rename"
    /\ file' = [rows |-> writer[x].rows,
                reads |-> IF writer[x].clash THEN "clash" ELSE "good",
                by |-> IF x \in Listeners THEN "listener" ELSE "other"]
    /\ writer' = [Outdated EXCEPT ![x] = IF x \in Commands THEN Idle ELSE [@ EXCEPT !.pc = "build"]]
    /\ UNCHANGED <<table, clock, minted, edits, raced>>

(* Build refuses two rows of one label; then the table is swapped. *)
Swap(x) ==
    /\ writer[x].pc = "build"
    /\ table' = IF writer[x].clash THEN table ELSE writer[x].rows
    /\ writer' = [writer EXCEPT ![x] = Idle]
    /\ UNCHANGED <<file, clock, minted, edits, raced>>

-----------------------------------------------------------------------------
(* The clock, and the operator's editor.                                   *)

Tick ==
    /\ clock < MaxTime
    /\ clock' = clock + 1
    /\ UNCHANGED <<file, table, writer, minted, edits, raced>>

Edited(rows, reads) ==
    /\ edits < MaxEdits
    /\ edits' = edits + 1
    /\ file' = [rows |-> rows, reads |-> reads, by |-> "other"]
    /\ writer' = Outdated
    /\ UNCHANGED <<table, clock, minted, raced>>

(* A row copied with its code, a new row, the owner's code pasted into one, *)
(* an expiry moved, a typing error, a label written twice, the file removed. *)
EditorCopies(l, new) ==
    /\ l \in DOMAIN file.rows /\ new \notin DOMAIN file.rows
    /\ \E e \in 1..Never : Edited(WithRow(file.rows, new, [file.rows[l] EXCEPT !.expires = e]), "good")

EditorWrites(l, e) ==
    \E c \in {NoCode, Owner} : Edited(WithRow(file.rows, l, [code |-> c, expires |-> e]), "good")

EditorRenews(l, e) ==
    /\ l \in DOMAIN file.rows
    /\ Edited(WithRow(file.rows, l, [file.rows[l] EXCEPT !.expires = e]), "good")

EditorErrs(reads) == ~Missing /\ Edited(file.rows, reads)

EditorDeletes == ~Missing /\ Edited(NoRows, "none")

-----------------------------------------------------------------------------

WriterStep(x) == LoadStat(x) \/ Stat(x) \/ SaveFails(x) \/ Rename(x) \/ Swap(x)

ConsoleCall(x) ==
    \/ Reload(x)
    \/ \E l, new \in Labels, e \in 1..Never : EditLink(x, l, new, e)
    \/ \E l \in Labels : RemoveLink(x, l)

Outside ==
    \/ Tick
    \/ \E l \in Labels, e \in 1..Never : EditorWrites(l, e) \/ EditorRenews(l, e)
    \/ \E l, new \in Labels : EditorCopies(l, new)
    \/ EditorDeletes \/ \E reads \in {"bad", "clash"} : EditorErrs(reads)
    \/ \E x \in Commands : WriterStep(x) \/ \E l \in Labels : CommandRemoves(x, l)

LinkNext ==
    \/ \E x \in Consoles : ConsoleCall(x)
    \/ \E x \in Listeners : WriterStep(x) \/ \E l \in Labels, e \in 1..Never : AddLink(x, l, e)
    \/ Outside

LinkSpec == LinkInit /\ [][LinkNext]_linkVars

-----------------------------------------------------------------------------
(* Properties.                                                             *)

(* A code admits to one link: no two rows of the table in force share one, *)
(* and none has the owner's, whatever was copied into the file, and        *)
(* whoever wrote it while the listener was minting (DedupeCodes).          *)
CodesDistinct ==
    \A x, y \in DOMAIN table :
        /\ table[x].code # Owner
        /\ x # y /\ table[x].code = table[y].code => table[x].code = NoCode

(* What the listener enforces is what it would load again: once its calls  *)
(* have returned, the table is the file it wrote, unless somebody else has *)
(* written the file since or two of its goroutines changed the table at    *)
(* once (mutate has no lock of its own).                                   *)
TableFollowsFile ==
    /\ ~raced /\ file.by = "listener" /\ file.reads = "good"
    /\ \A x \in Listeners : writer[x].pc = "idle"
    => table = file.rows

(* "The code is carried across ... unless the entry has lapsed, in which   *)
(* case retirement clears it and a fresh one is minted" (replace): a code  *)
(* whose link expired in the table is not live in a later one.             *)
LapsedStaysDead ==
    [][\A x \in DOMAIN table, y \in DOMAIN table' :
          table[x].code # NoCode /\ Expired(table[x]) /\ table'[y].code = table[x].code
          => table'[y].expires <= clock]_linkVars
=============================================================================
