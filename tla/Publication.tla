----------------------------- MODULE Publication -----------------------------
(***************************************************************************)
(* How a finished run's documents become the workspace's published copy    *)
(* (pipeline/workspace.py, publish_run) without an artifact row of the     *)
(* registry ever describing other bytes than the ones it recorded.         *)
(*                                                                         *)
(* The copies are made first, the rows move next, the renames come last;   *)
(* the disk may fill, a statement may fail and the process may die at any  *)
(* point.  Each copy, each rename and each registry statement is one       *)
(* action.  Bytes are compared, never read, so they are model values.      *)
(***************************************************************************)
EXTENDS Naturals, FiniteSets

CONSTANTS
    Documents,      \* how many documents a run may publish, in their order
    Bytes,          \* the contents a document can have
    NoDoc,          \* no file
    MaxRuns         \* bound: runs of the workspace

ASSUME PublicationAssumption ==
    /\ NoDoc \notin Bytes
    /\ Documents \in Nat
    /\ MaxRuns \in Nat

Run == 1 .. MaxRuns
Doc == 1 .. Documents

VARIABLES
    root,           \* root[d]: the published copy
    scratch,        \* scratch[d]: <target>.tmp beside it
    own,            \* own[r][d]: run r's own copy, runs/<r>/
    kept,           \* kept[r][d]: the copies r's publication retained
    rows,           \* the artifact rows: document, place, recorded bytes
    pc, todo,       \* where run r is, and the documents its phase still has
    pair,           \* pair[r][d]: the place that holds the bytes r replaces,
                    \* until the rows have moved
    last,           \* the last run that was published completely (0: none)
    overlap,        \* the runs whose staging or renames met another's
    torn            \* the root may mix documents of two publications

publicationVars == <<root, scratch, own, kept, rows, pc, todo, pair, last, overlap, torn>>
copies == <<root, scratch, own, kept>>
fate  == <<last, overlap, torn>>

Root    == [kind |-> "root", run |-> 0]
Own(r)  == [kind |-> "own", run |-> r]
Retained(r) == [kind |-> "kept", run |-> r]
Places  == {Root} \union {Own(r) : r \in Run} \union {Retained(r) : r \in Run}

ASSUME PlaceAssumption == NoDoc \notin Places

\* What a path holds.
Read(place, d) ==
    CASE place.kind = "root" -> root[d]
      [] place.kind = "own"  -> own[place.run][d]
      [] OTHER               -> kept[place.run][d]

NoFiles    == [d \in Doc |-> NoDoc]
NoPairs    == NoFiles
Targets(r) == {d \in Doc : own[r][d] # NoDoc}

\* _preserving_path: a marked directory, never the root, with the same bytes
\* under the same name.
Holders_ByName(d) == {place \in Places \ {Root} : Read(place, d) # NoDoc}
Holders(d) == {place \in Places \ {Root} : Read(place, d) = root[d]}

\* A workspace as an older install, a stage command or an operator left it:
\* documents at the root that no run scope holds, some of them in artifact rows.
PublicationInit ==
    /\ root \in [Doc -> Bytes \union {NoDoc}]
    /\ \E named \in SUBSET {d \in Doc : root[d] # NoDoc} :
         rows = {[doc |-> d, place |-> Root, bytes |-> root[d]] : d \in named}
    /\ scratch = NoFiles
    /\ own = [r \in Run |-> NoFiles]
    /\ kept = [r \in Run |-> NoFiles]
    /\ pc = [r \in Run |-> "waiting"]
    /\ todo = [r \in Run |-> {}]
    /\ pair = [r \in Run |-> NoPairs]
    /\ last = 0
    /\ overlap = {}
    /\ torn = FALSE

-----------------------------------------------------------------------------

Publishing == {"find", "keep", "stage", "rows", "swap", "register"}

\* Run r goes on with phase l, which has the documents ds to deal with.
Phase(r, l, ds) ==
    /\ pc' = [pc EXCEPT ![r] = l]
    /\ todo' = [todo EXCEPT ![r] = ds]

\* The next document of the phase is dealt with.
Does(r, d, l) ==
    /\ pc[r] = l
    /\ d \in todo[r] /\ \A e \in todo[r] : d <= e
    /\ todo' = [todo EXCEPT ![r] = todo[r] \ {d}]
    /\ UNCHANGED pc

\* The pipeline has written the run's own copy and returned.
PipelineReturns(r) ==
    /\ pc[r] = "waiting"
    /\ \A s \in Run : s < r => pc[s] # "waiting"
    /\ \E copy \in [Doc -> Bytes \union {NoDoc}] :
         own' = [own EXCEPT ![r] = copy]
    /\ Phase(r, "find", {})
    /\ UNCHANGED <<root, scratch, kept, rows, pair, fate>>

\* _preserve_unscoped_outputs: pair every document about to be replaced with a
\* place that holds its bytes; the ones no marked directory holds are copied.
\* (The code takes the first holder in name order; any would do.)
FindHolders(r) ==
    /\ pc[r] = "find"
    /\ LET there == {d \in Targets(r) : root[d] # NoDoc}
           held   == {d \in there : Holders(d) # {}}
       IN  /\ \E found \in [held -> Places] :
                /\ \A d \in held : found[d] \in Holders(d)
                /\ pair' = [pair EXCEPT ![r] =
                      [d \in Doc |-> IF d \in held THEN found[d] ELSE NoDoc]]
           /\ Phase(r, "keep", there \ held)
    /\ UNCHANGED <<copies, rows, fate>>

KeepCopy(r) ==
    \E d \in Doc :
        /\ Does(r, d, "keep")
        /\ kept' = [kept EXCEPT ![r][d] = root[d]]
        /\ pair' = [pair EXCEPT ![r][d] = Retained(r)]
        /\ UNCHANGED <<root, scratch, own, rows, fate>>

\* _stage_file: a copy under a scratch name beside the target.
StageFile_InPlace(r) ==
    \E d \in Doc :
        /\ Does(r, d, "stage")
        /\ root' = [root EXCEPT ![d] = own[r][d]]
        /\ scratch' = [scratch EXCEPT ![d] = own[r][d]]
        /\ UNCHANGED <<own, kept, rows, pair, fate>>
StageFile(r) ==
    \E d \in Doc :
        /\ Does(r, d, "stage")
        /\ scratch' = [scratch EXCEPT ![d] = own[r][d]]
        /\ UNCHANGED <<root, own, kept, rows, pair, fate>>

\* on_preserved -> retain_artifact_paths: one statement moves every row that
\* names a replaced root document.
Moved_Unpaired(r, row) ==       \* looks a row up that has no pair
    IF row.place = Root THEN [row EXCEPT !.place = pair[r][row.doc]] ELSE row
Moved(r, row) ==
    IF row.place = Root /\ pair[r][row.doc] # NoDoc
    THEN [row EXCEPT !.place = pair[r][row.doc]] ELSE row

MovedRows_Copied(r) ==      \* follows only what this publication copied
    {IF row.place = Root /\ pair[r][row.doc] = Retained(r)
     THEN [row EXCEPT !.place = Retained(r)] ELSE row : row \in rows}
MovedRows(r) == {Moved(r, row) : row \in rows}

MoveRows(r) ==
    /\ pc[r] = "rows"
    /\ rows' = MovedRows(r)
    /\ pair' = [pair EXCEPT ![r] = NoPairs]
    /\ Phase(r, "swap", Targets(r))
    /\ UNCHANGED <<copies, fate>>

\* _swap_file: the scratch file is renamed over the target.
SwapFile(r) ==
    \E d \in Doc :
        /\ scratch[d] # NoDoc
        /\ Does(r, d, "swap")
        /\ root' = [root EXCEPT ![d] = scratch[d]]
        /\ scratch' = [scratch EXCEPT ![d] = NoDoc]
        /\ UNCHANGED <<own, kept, rows, pair, fate>>

Replacing == {s \in Run : pc[s] \in {"stage", "rows", "swap"}}

\* A phase with nothing left to do hands over to the next.
NextPhase(r) ==
    /\ todo[r] = {}
    /\ \/ /\ pc[r] = "keep"
          /\ Phase(r, "stage", Targets(r))
          /\ overlap' = IF Replacing = {} THEN overlap
                                          ELSE overlap \union Replacing \union {r}
          /\ UNCHANGED <<last, torn>>
       \/ pc[r] = "stage" /\ Phase(r, "rows", {}) /\ UNCHANGED fate
       \/ /\ pc[r] = "swap"
          /\ Phase(r, "register", Targets(r))
          /\ last' = r
          /\ torn' = (r \in overlap)
          /\ UNCHANGED overlap
       \/ pc[r] = "register" /\ Phase(r, "over", {}) /\ UNCHANGED fate
    /\ UNCHANGED <<copies, rows, pair>>

\* _register_artifacts: a row per document, naming the run's own copy.
RegisterArtifact(r) ==
    \E d \in Doc :
        /\ Does(r, d, "register")
        /\ rows' = rows \union
                     {[doc |-> d, place |-> Own(r), bytes |-> own[r][d]]}
        /\ UNCHANGED <<copies, pair, fate>>

Torn(r) == torn \/ (pc[r] = "swap" /\ todo[r] # Targets(r))

\* A copy, a rename or a statement raises.  Before the first rename the scratch
\* files are removed; after it nothing is undone.
PublicationFails(r) ==
    /\ pc[r] \in Publishing
    /\ scratch' = IF pc[r] \in {"stage", "rows"}
                  THEN [d \in Doc |-> IF d \in Targets(r) \ todo[r]
                                      THEN NoDoc ELSE scratch[d]]
                  ELSE scratch
    /\ torn' = Torn(r)
    /\ pair' = [pair EXCEPT ![r] = NoPairs]
    /\ Phase(r, "over", {})
    /\ UNCHANGED <<root, own, kept, rows, last, overlap>>

\* The process dies.
PublisherDies(r) ==
    /\ pc[r] \in Publishing
    /\ torn' = Torn(r)
    /\ pair' = [pair EXCEPT ![r] = NoPairs]
    /\ Phase(r, "over", {})
    /\ UNCHANGED <<copies, rows, last, overlap>>

PublicationNext ==
    \E r \in Run :
        \/ PipelineReturns(r)
        \/ FindHolders(r)
        \/ KeepCopy(r)
        \/ StageFile(r)
        \/ MoveRows(r)
        \/ SwapFile(r)
        \/ NextPhase(r)
        \/ RegisterArtifact(r)
        \/ PublicationFails(r)
        \/ PublisherDies(r)

PublicationSpec == PublicationInit /\ [][PublicationNext]_publicationVars

-----------------------------------------------------------------------------
(* Properties. *)

\* Every variable keeps its type; in particular every row names a place that
\* exists, so following a pair never leaves a row without a path
\* (retain_artifact_paths).
PublicationTypeOK ==
    /\ root \in [Doc -> Bytes \union {NoDoc}]
    /\ scratch \in [Doc -> Bytes \union {NoDoc}]
    /\ own \in [Run -> [Doc -> Bytes \union {NoDoc}]]
    /\ kept \in [Run -> [Doc -> Bytes \union {NoDoc}]]
    /\ rows \subseteq [doc : Doc, place : Places, bytes : Bytes]
    /\ pc \in [Run -> Publishing \union {"waiting", "over"}]
    /\ todo \in [Run -> SUBSET Doc]
    /\ pair \in [Run -> [Doc -> Places \union {NoDoc}]]
    /\ last \in 0 .. MaxRuns
    /\ overlap \subseteq Run
    /\ torn \in BOOLEAN

\* At every moment, in the middle of a publication and after a failure or a
\* crash, the file an artifact row names holds the bytes the row recorded
\* (retain_artifact_paths, publish_run's on_preserved seam).
RowsReadTheirBytes ==
    \A row \in rows : Read(row.place, row.doc) = row.bytes

\* A document is replaced at the root only when its bytes can still be read
\* somewhere else ("what it will not destroy").
NothingIsLost ==
    [][\A d \in Doc : root[d] # NoDoc /\ root'[d] # root[d]
          => \E place \in Places \ {Root} : Read(place, d) = root[d]]_publicationVars

\* While no renames are under way, every document the last published run wrote
\* is at the root as its own copy holds it -- unless its own staging met
\* another's, or a later one's renames were cut short.  A publication that fails
\* or dies while copying replaced nothing, and what it left beside the root
\* never gets there.
RootIsLastPublication ==
    (~ torn /\ last # 0 /\ \A r \in Run : pc[r] # "swap") =>
        \A d \in Targets(last) : root[d] = own[last][d]
=============================================================================
