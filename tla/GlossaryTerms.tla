---------------------------- MODULE GlossaryTerms ----------------------------
(* The glossary of one project: its terms in the registry (service/store.py), *)
(* edited by the console, the API and an agent at once, each edit a read and  *)
(* a later write of the columns it changed; the workspace's glossary.txt, the *)
(* user's file an earlier run may have written; and the terms a run hands the *)
(* decoder (service/glossary.py, RunManager._resolve_glossary,                *)
(* stages._load_glossary).                                                    *)
EXTENDS Naturals, FiniteSets

CONSTANTS
    Term,           \* the ids of the terms
    Spelling,       \* what a term may be spelled
    Editor,         \* the surfaces' threads
    MaxTermEdits,   \* bound: the edits begun
    MaxFileEdits,   \* bound: the user's edits of the file
    MaxRunsHeard    \* bound: the runs resolved

ASSUME GlossaryBounds ==
    /\ MaxTermEdits \in Nat /\ MaxFileEdits \in Nat /\ MaxRunsHeard \in Nat

VARIABLES
    term,           \* each term's row: spelling, status, the retire's marker
    heldBefore,     \* the status each retired term held as it was retired
    rewritten,      \* the terms whose notes a caller wrote, or whose row changed
                    \* between a retire's read and its write, since the last
                    \* edit of the term while it was not retired
    file,           \* who put each spelling in glossary.txt: app, user, nobody
    runFile,        \* the app's own file of a run's terms
    editor,         \* each editor: its edit, and the row it read
    run,            \* the run: where it is, the terms it resolved and decoded
    termEdits, fileEdits, runsHeard

glossaryVars ==
    <<term, heldBefore, rewritten, file, runFile, editor, run, termEdits, fileEdits, runsHeard>>

Unwritten == [spelling |-> "", status |-> "absent", marker |-> "none"]
Rows == {t \in Term : term[t].status # "absent"}
Confirmed == {term[t].spelling : t \in {x \in Rows : term[x].status = "confirmed"}}
Unconfirmed == {term[t].spelling : t \in {x \in Rows : term[x].status # "confirmed"}}
Spelled(f) == {x \in Spelling : f[x] # "nobody"}

AtRest == [edit |-> "none", of |-> CHOOSE t \in Term : TRUE, read |-> Unwritten]
NoRun == [at |-> "none", path |-> "none", terms |-> {}, decoded |-> {}]

GlossaryInit ==
    /\ term = [t \in Term |-> Unwritten]
    /\ heldBefore = [t \in Term |-> "none"]
    /\ rewritten = {}
    /\ file = [x \in Spelling |-> "nobody"]
    /\ runFile = {}
    /\ editor = [e \in Editor |-> AtRest]
    /\ run = NoRun
    /\ termEdits = 0 /\ fileEdits = 0 /\ runsHeard = 0

-----------------------------------------------------------------------------
(* The registry's terms. *)

\* UNIQUE (project, term): one row per spelling.
SpellingFree(x) == \A t \in Rows : term[t].spelling # x

\* What the notes of a row say of a retire: a line of them, whoever wrote it.
Markers == {"none", "candidate", "confirmed"}

\* A caller of the API or the agent's adapter names the status, which is
\* `candidate` unless it does, and the notes.
AddTerm(t, x, status, marker) ==
    /\ term[t].status = "absent" /\ SpellingFree(x)
    /\ termEdits < MaxTermEdits /\ termEdits' = termEdits + 1
    /\ term' = [term EXCEPT ![t] = [spelling |-> x, status |-> status, marker |-> marker]]
    /\ rewritten' = IF marker = "none" THEN rewritten ELSE rewritten \union {t}
    /\ UNCHANGED <<heldBefore, file, runFile, editor, run, fileEdits, runsHeard>>

\* The console adds a candidate, and an acceptance of a glossary draft adds the
\* proposals no term has, as candidates, each in a write of its own.
ProposesTerm(t, x) == AddTerm(t, x, "candidate", "none")

\* The edits the console's glossary offers; the API and the agent's adapter
\* rewrite every column.
ConsoleEdits == {"confirmed", "candidate", "retire", "restore"}
ServiceEdits == {"confirmed", "candidate", "notes", "rename", "retire", "restore"}

\* An edit reads its row first.
ReadsTerm(e) ==
    /\ editor[e].edit = "none" /\ termEdits < MaxTermEdits
    /\ termEdits' = termEdits + 1
    /\ \E t \in Rows, edit \in ConsoleEdits \union ServiceEdits :
         editor' = [editor EXCEPT ![e] = [edit |-> edit, of |-> t, read |-> term[t]]]
    /\ UNCHANGED <<term, heldBefore, rewritten, file, runFile, run, fileEdits, runsHeard>>

\* The row an edit makes of the row it read.
\* A retire records the status it takes the term from; a second one must not.
Retired_Again(row) == [row EXCEPT !.marker = IF row.status = "retired" THEN "none" ELSE row.status,
                                  !.status = "retired"]
Retired_OnTop(row) == [row EXCEPT !.marker = row.status, !.status = "retired"]
Retired(row) ==
    IF row.status = "retired" THEN row
    ELSE [row EXCEPT !.marker = row.status, !.status = "retired"]

Restored(row) ==
    [row EXCEPT !.status = IF row.marker = "none" THEN "candidate" ELSE row.marker,
                !.marker = "none"]

\* The status a row is set to, a retire, a restore of a retired row.
Edited(row, edit) ==
    CASE edit \in {"confirmed", "candidate"} -> [row EXCEPT !.status = edit]
      [] edit = "retire" -> Retired(row)
      [] edit = "restore" -> IF row.status = "retired" THEN Restored(row) ELSE row
      [] edit \in {"none", "notes", "rename"} -> row

\* An update writes the columns that differ from what it read, over whatever
\* another edit committed since.
Merged(now, read, made) ==
    [column \in DOMAIN now |-> IF made[column] = read[column] THEN now[column] ELSE made[column]]

\* Notes are written whole, over a marker that is in them (which no surface is
\* shown), and may hold the marker's own words.
Written(now, read, edit) ==
    IF edit = "notes" THEN {[now EXCEPT !.marker = m] : m \in Markers}
    ELSE {Merged(now, read, Edited(read, edit))}

WritesTerm(e) ==
    LET t == editor[e].of
        saw == editor[e].read
        edit == editor[e].edit
    IN  /\ edit \notin {"none", "rename"}
        /\ \E row \in Written(term[t], saw, edit) :
             /\ term' = [term EXCEPT ![t] = row]
             /\ heldBefore' = [heldBefore EXCEPT ![t] =
                     IF row.status # "retired" THEN "none"
                     ELSE IF term[t].status # "retired" THEN term[t].status ELSE @]
        /\ rewritten' = IF edit = "notes" \/ (edit = "retire" /\ saw # term[t]) THEN rewritten \union {t}
                        ELSE IF term[t].status # "retired" THEN rewritten \ {t} ELSE rewritten
        /\ editor' = [editor EXCEPT ![e] = AtRest]
        /\ UNCHANGED <<file, runFile, run, termEdits, fileEdits, runsHeard>>

\* A new spelling, or the refusal of one that is taken.
RenamesTerm(e) ==
    /\ editor[e].edit = "rename"
    /\ \/ \E x \in Spelling :
            SpellingFree(x) /\ term' = [term EXCEPT ![editor[e].of].spelling = x]
       \/ (\E x \in Spelling : ~ SpellingFree(x)) /\ term' = term
    /\ editor' = [editor EXCEPT ![e] = AtRest]
    /\ UNCHANGED <<heldBefore, rewritten, file, runFile, run, termEdits, fileEdits, runsHeard>>

-----------------------------------------------------------------------------
(* glossary.txt, and a run. *)

\* The user's own edit, by hand or with the glossary command.
EditsFile(x) ==
    /\ fileEdits < MaxFileEdits /\ fileEdits' = fileEdits + 1
    /\ file' = [file EXCEPT ![x] = IF @ = "nobody" THEN "user" ELSE "nobody"]
    /\ UNCHANGED <<term, heldBefore, rewritten, runFile, editor, run, termEdits, runsHeard>>

\* The project's confirmed terms, where it has any, are written to the file.
ResolvesSnapshot ==
    /\ run.at = "none" /\ runsHeard < MaxRunsHeard
    /\ runsHeard' = runsHeard + 1
    /\ IF Confirmed = {}
       THEN run' = [NoRun EXCEPT !.at = "blocked"] /\ UNCHANGED file
       ELSE /\ file' = [x \in Spelling |-> IF x \in Confirmed THEN "app" ELSE "nobody"]
            /\ run' = [NoRun EXCEPT !.at = "decode", !.path = "glossary.txt", !.terms = Confirmed]
    /\ UNCHANGED <<term, heldBefore, rewritten, runFile, editor, termEdits, fileEdits>>

\* Nothing confirmed: the file stands, less what the registry has unconfirmed.
Filtered_No(terms) == terms
Filtered(terms) == terms \ Unconfirmed
ResolvesFile ==
    LET terms == Filtered(Spelled(file))
        path  == IF terms = Spelled(file) THEN "glossary.txt" ELSE "run file"
    IN  /\ run.at = "blocked"
        /\ run' = [run EXCEPT !.at = "decode", !.path = path, !.terms = terms]
        /\ runFile' = IF path = "run file" THEN terms ELSE runFile
        /\ UNCHANGED <<term, heldBefore, rewritten, file, editor, termEdits, fileEdits, runsHeard>>

\* The transcribe stage reads the path it was handed, later.
Decodes ==
    /\ run.at = "decode"
    /\ run' = [run EXCEPT !.at = "none",
               !.decoded = IF run.path = "run file" THEN runFile ELSE Spelled(file)]
    /\ UNCHANGED <<term, heldBefore, rewritten, file, runFile, editor, termEdits, fileEdits, runsHeard>>

GlossaryNext ==
    \/ \E t \in Term, x \in Spelling :
         \/ \E status \in {"candidate", "confirmed", "retired"}, m \in Markers : AddTerm(t, x, status, m)
         \/ ProposesTerm(t, x)
    \/ \E e \in Editor : ReadsTerm(e) \/ WritesTerm(e) \/ RenamesTerm(e)
    \/ \E x \in Spelling : EditsFile(x)
    \/ ResolvesSnapshot \/ ResolvesFile \/ Decodes

GlossarySpec == GlossaryInit /\ [][GlossaryNext]_glossaryVars

-----------------------------------------------------------------------------
(* Properties. *)

\* Every variable keeps its type.
GlossaryTypeOK ==
    /\ \A t \in Rows : term[t].spelling \in Spelling
    /\ \A t \in Term : term[t].status \in {"absent", "candidate", "confirmed", "retired"}
                       /\ term[t].marker \in Markers
    /\ \A x \in Spelling : file[x] \in {"nobody", "app", "user"}
    /\ runFile \subseteq Spelling /\ run.terms \subseteq Spelling

\* No run resolves a term the registry holds as a candidate or as retired as it
\* reads them, whatever an earlier run or the user left in the file ("candidates
\* and retired terms never reach the decoder").
OnlyConfirmedIsResolved ==
    [][run'.at = "decode" /\ run.at # "decode" => run'.terms \intersect Unconfirmed = {}]_glossaryVars

\* However often a term is retired, set, renamed and restored, by editors whose
\* reads and writes interleave, a restore gives the status the retire took it
\* from, and `candidate` where it was added as retired, until its notes are
\* written or a retire lands on a row that changed since it read it
\* (Registry.retire_term, restore_term).
RestoreReturnsTheStatus ==
    \A t \in Rows \ rewritten :
        term[t].status = "retired" =>
            Restored(term[t]).status = IF heldBefore[t] = "none" THEN "candidate" ELSE heldBefore[t]

\* A restore never confirms a term that was a candidate as it was retired ("a
\* retired candidate returns as a candidate, never as owner-accepted truth").
CandidatesReturnAsCandidates ==
    [][\A t \in Term :
         heldBefore[t] = "candidate" /\ term[t].status = "retired" /\ term'[t].status = "confirmed"
            => \E e \in Editor : editor[e].of = t /\ editor[e].edit = "confirmed"]_glossaryVars

\* A spelling an earlier run wrote from the registry reaches a later one only as
\* a term's ("a stale file an earlier run wrote from the registry").
NoStaleSpelling ==
    [][run.at = "blocked" /\ run'.at = "decode" =>
         \A x \in run'.terms : file[x] = "app" => \E t \in Rows : term[t].spelling = x]_glossaryVars
=============================================================================
