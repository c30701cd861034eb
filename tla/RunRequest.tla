------------------------------ MODULE RunRequest ------------------------------
(* From what a person asked for to what the pipeline runs with: the surfaces  *)
(* that take a run (the command line's `run`, its local stages, the JSON API, *)
(* the console's form, the agent's adapter), the layers that fill what was    *)
(* left unset (core/options.py), what --auto and --backend auto choose        *)
(* (pipeline/auto.py, service/auto.py), the row that keeps the resolved       *)
(* options (service/run_options.py), the manager's copy of them, and the      *)
(* claim that runs one of the two, perhaps after a restart.  One meeting.     *)
EXTENDS Naturals, Sequences, SequencesExt

CONSTANTS
    Ladder,         \* MODEL_LADDER: the checkpoints, smallest first
    Fitting,        \* how many of them this machine affords two workers of
    Roomy,          \* whether it has headroom for decoder effort
    Preference,     \* BACKEND_PREFERENCE: the back ends, best first
    Asks,           \* what people ask for
    Environs,       \* the CR_* values a process may be started with
    Workspaces,     \* what the folder may become: the facts of the audio it is
                    \* read as holding, and its declaration
    Fetches,        \* the sets of checkpoints the models directory may hold
    Installs,       \* the sets of back ends that may answer
    Worlds,         \* what the node and the meeting may begin with
    MaxRequests,    \* bound: submissions and resumes
    MaxChanges,     \* bound: restarts, and changes around the node
    Unset           \* None

Knobs    == {"chunk_seconds", "beam_size", "best_of"}
Profiles == {"fast", "balanced", "accurate"}    \* the presets; `custom` is none

ASSUME RequestBounds ==
    /\ Ladder \in Seq(STRING) /\ Ladder # <<>>
    /\ Fitting \in 0 .. Len(Ladder) /\ Roomy \in BOOLEAN
    /\ MaxRequests \in Nat /\ MaxChanges \in Nat

\* A knob's value is a number: nobody types a preset's name for one.
ASSUME RequestAssumption ==
    /\ Unset \notin Profiles
    /\ \A q \in Asks : DOMAIN q.knobs = Knobs /\ \A k \in Knobs : q.knobs[k] \notin Profiles
    /\ \A e \in Environs, k \in Knobs : e[k] \notin Profiles
    /\ \A w \in Worlds : /\ \A k \in Knobs : {w.node[k], w.client[k]} \cap Profiles = {}
                        /\ w.present \in Installs
    /\ \A f \in Fetches \cup {w.models : w \in Worlds} : \A m \in f : m[2] \in {"as is", "quantized"}

VARIABLES
    environ,        \* the environment of the node and of the command line
    models, present,\* the checkpoints on disk, each a size as it is or
                    \* quantized; the back ends that answer
    workspace,      \* what the workspace holds, and whether its declaration
                    \* names all of it or cannot be read
    tapes,          \* the meeting's latest recording set
    runRows,        \* the runs: who asked what, and the options the row keeps
    pending,        \* the manager's own copy of the options it enqueued
    submitting,     \* the run whose submission has not put it there yet
    requests, changes

requestVars == <<environ, models, present, workspace, tapes, runRows, pending, submitting,
                 requests, changes>>
nodeFacts == <<environ, models, present, workspace>>

Junk  == "junk"     \* an environment value no knob converts

\* The built-in default: the chunking has one, the decoder's is "not given".
KnobDefault(k) == IF k = "chunk_seconds" THEN "600" ELSE Unset
ProfileSets(p) ==
    CASE p = "fast" -> {"best_of"} [] p \in {"balanced", "accurate"} -> {"beam_size"} [] OTHER -> {}

-----------------------------------------------------------------------------
(* The layers (resolve_options). *)

\* Mutation: a profile that was chosen beats the environment.
Resolve_ProfileFirst(o, profile, env) ==
    LET chosen == IF profile = Unset THEN o.profile ELSE profile
        layer(k) == IF o.knobs[k] # Unset THEN o.knobs[k]
                    ELSE IF k \in ProfileSets(chosen) THEN chosen
                    ELSE IF env[k] \notin {Unset, Junk} THEN env[k]
                    ELSE KnobDefault(k)
    IN  [o EXCEPT !.profile = chosen, !.knobs = [k \in Knobs |-> layer(k)]]

\* explicit > CR_* > profile > built-in default; a value the environment holds
\* and the knob cannot convert counts as unset.
Resolve(o, profile, env) ==
    LET chosen == IF profile = Unset THEN o.profile ELSE profile
        layer(k) == IF o.knobs[k] # Unset THEN o.knobs[k]
                    ELSE IF env[k] \notin {Unset, Junk} THEN env[k]
                    ELSE IF k \in ProfileSets(chosen) THEN chosen
                    ELSE KnobDefault(k)
    IN  [o EXCEPT !.profile = chosen, !.knobs = [k \in Knobs |-> layer(k)]]

-----------------------------------------------------------------------------
(* What --auto chooses (resolve_auto) and --backend auto (resolve_backend). *)

Facts == IF workspace.tape = Unset THEN [length |-> "unknown", channels |-> 1] ELSE workspace.tape

ChosenProfile ==
    CASE Facts.length = "long"            -> IF Roomy THEN "balanced" ELSE "fast"
      [] Facts.length = "short" /\ Roomy  -> "accurate"
      [] OTHER                            -> "balanced"

\* models_on_disk: the sizes of the checkpoints there, a quantized one among
\* them under the size it is a quantization of.
Sizes == {m[1] : m \in models}
OnDisk(i) == Ladder[i] \in Sizes
\* The largest that fits and is there; failing that the smallest there is;
\* failing that the one it would like, which nothing downloads.
ChosenModel ==
    LET fit  == {i \in 1 .. Fitting : OnDisk(i)}
        here == {i \in 1 .. Len(Ladder) : OnDisk(i)}
    IN  IF fit # {} THEN Ladder[CHOOSE i \in fit : \A j \in fit : j <= i]
        ELSE IF here # {} THEN Ladder[CHOOSE i \in here : \A j \in here : i <= j]
        ELSE Ladder[IF Fitting = 0 THEN 1 ELSE Fitting]

NoBackend == "none answers"
ChosenBackend ==
    LET i == SelectInSeq(Preference, LAMBDA b : b \in present)
    IN  IF i = 0 THEN NoBackend ELSE Preference[i]

\* resolve_run and the command line's _apply_auto: what each refuses, and what
\* they fill, each only where it was left unset.
Refusal(o, auto) ==
    IF o.backend = "auto" /\ ChosenBackend = NoBackend THEN "no back end"
    ELSE IF auto /\ workspace.declaration = "unreadable" THEN "unreadable"
    ELSE IF auto /\ o.model = Unset /\ ChosenModel \notin Sizes THEN "not on disk"
    ELSE "none"

Filled(o, auto, profile, env) ==
    LET backed == [o EXCEPT !.backend = IF @ = "auto" THEN ChosenBackend ELSE @]
        chosen == [backed EXCEPT
                      !.model   = IF @ = Unset THEN ChosenModel ELSE @,
                      !.diarize = IF @ = Unset /\ Facts.channels > 2 THEN TRUE ELSE @]
    IN  IF ~auto THEN Resolve(backed, profile, env)
        ELSE Resolve(chosen, IF profile = Unset THEN ChosenProfile ELSE profile, env)

-----------------------------------------------------------------------------
(* The surfaces: the options each builds from what was asked, and the profile *)
(* it hands on as explicit.                                                   *)

\* The parser binds each knob's flag to its CR_* variable, so the environment
\* of the command line arrives as if it had been typed.
Parsed(q, k) == IF q.knobs[k] = Unset THEN environ["client"][k] ELSE q.knobs[k]

BuiltWith(q, knobs) ==
    [backend |-> q.backend, model |-> q.model, knobs |-> knobs,
     profile |-> IF q.profile = Unset THEN "custom" ELSE q.profile,
     diarize |-> Unset, scope |-> q.scope]

\* The flags of a local stage, the diarize flag among them; the body `run`
\* sends to the node, which has no such field; the API's own body.
StageBuilds(q) == [BuiltWith(q, [k \in Knobs |-> Parsed(q, k)]) EXCEPT !.diarize = q.diarize]
NodeBody(q)    == BuiltWith(q, [k \in Knobs |-> Parsed(q, k)])
ApiBuilds(q)   == BuiltWith(q, q.knobs)

\* The console's form has no scope.  The agent's adapter takes neither scope
\* nor knob and leaves the fields of PipelineOptions at their own defaults,
\* which for the chunking is not "unset".
ConsoleBuilds(q) == [BuiltWith(q, q.knobs) EXCEPT !.scope = FALSE]
AdapterBuilds(q) == [BuiltWith(q, [k \in Knobs |-> KnobDefault(k)])
                     EXCEPT !.scope = FALSE, !.profile = "custom"]

Built(s, q) ==
    CASE s = "stage" -> StageBuilds(q) [] s = "run" -> NodeBody(q) [] s = "api" -> ApiBuilds(q)
      [] s = "console" -> ConsoleBuilds(q) [] s = "mcp" -> AdapterBuilds(q)

\* A body that says `custom` is one that says nothing: to the API and to the
\* console's picker they are the same word.
ProfileOf(s, q) ==
    IF s \in {"mcp", "stage"} \/ q.profile # "custom" THEN q.profile ELSE Unset

\* _node_run_refusal: a flag the node's API does not declare is refused at the
\* client; so is an environment the parser cannot convert.
ClientRefuses(s, q) ==
    \/ s = "run" /\ q.diarize # Unset
    \/ s \in {"run", "stage"} /\ \E k \in Knobs : Parsed(q, k) = Junk

Options(s, q) == Filled(Built(s, q), q.auto, ProfileOf(s, q),
                        environ[IF s = "stage" THEN "client" ELSE "node"])

OneInFlight == \E i \in DOMAIN runRows : runRows[i].status \in {"queued", "running"}

\* What was true as the request was resolved, kept to judge the row by.
Asked(s, q) ==
    [by |-> s, ask |-> q, env |-> environ, models |-> models, resumes |-> 0]
Provenance(i) == [f \in {"by", "ask", "env", "models", "resumes"} |-> runRows[i][f]]

\* workspace_run_meeting: the folder's audio becomes the recording set before
\* the submission is judged; a folder without any keeps the set it had.
Walked(s) == IF s = "run" /\ workspace.tape # Unset THEN workspace.tape ELSE tapes
WalkRefuses(s) ==
    s = "run" /\ (workspace.declaration = "unreadable" \/ (workspace.declaration = "all" /\ workspace.tape = Unset))

-----------------------------------------------------------------------------

RequestInit ==
    /\ \E w \in Worlds :
          /\ environ = [node |-> w.node, client |-> w.client]
          /\ models = w.models /\ present = w.present
          /\ workspace = [tape |-> w.tape, declaration |-> "none"] /\ tapes = w.tapes
    /\ runRows = <<>> /\ pending = [i \in {} |-> Unset] /\ submitting = 0
    /\ requests = 0 /\ changes = 0

RowOf(record, options) ==
    [by |-> record.by, ask |-> record.ask, env |-> record.env, models |-> record.models,
     resumes |-> record.resumes, options |-> options,
     status |-> "queued", ran |-> Unset, written |-> "this build"]

\* RunManager.start: the row, and the manager's copy of its options later.
Enqueue(record, options) ==
    /\ runRows' = Append(runRows, RowOf(record, options))
    /\ submitting' = Len(runRows) + 1

\* enqueue_run, ui_start_run and the adapter's start_run: walk, resolve, start.
Submit(s, q) ==
    /\ s \in {"run", "api", "console", "mcp"}
    /\ submitting = 0 /\ requests < MaxRequests /\ requests' = requests + 1
    /\ ~ClientRefuses(s, q)
    /\ IF WalkRefuses(s) THEN UNCHANGED <<tapes, runRows, submitting>>
       ELSE /\ tapes' = Walked(s)
            /\ IF OneInFlight \/ tapes' = Unset \/ Refusal(Built(s, q), q.auto) # "none"
               THEN UNCHANGED <<runRows, submitting>>
               ELSE Enqueue(Asked(s, q), Options(s, q))
    /\ UNCHANGED <<nodeFacts, pending, changes>>

\* The command line's transcribe and calibrate resolve and run in one process.
StageRun(q) ==
    /\ requests < MaxRequests /\ requests' = requests + 1 /\ submitting = 0
    /\ ~ClientRefuses("stage", q) /\ Refusal(Built("stage", q), q.auto) = "none"
    /\ runRows' = Append(runRows, [RowOf(Asked("stage", q), Options("stage", q))
                             EXCEPT !.status = "over", !.ran = Options("stage", q)])
    /\ UNCHANGED <<nodeFacts, tapes, pending, submitting, changes>>

Remember ==
    /\ submitting # 0
    /\ pending' = [i \in DOMAIN pending \cup {submitting} |->
                      IF i = submitting THEN runRows[i].options ELSE pending[i]]
    /\ submitting' = 0
    /\ UNCHANGED <<nodeFacts, tapes, runRows, requests, changes>>

\* read_run_options: a key an earlier release wrote is taken out, one this
\* build does not declare is not read over.
Readable(i) == runRows[i].written \in {"this build", "an earlier release"}

\* Mutation: only what was asked is stored, and it is resolved where it is read.
FromRow_Resolves(i) ==
    Resolve([runRows[i].options EXCEPT !.knobs = Built(runRows[i].by, runRows[i].ask).knobs], Unset, environ["node"])

\* _options_from_row, after a restart or for a run another process enqueued.
FromRow(i) == runRows[i].options

\* _resolve_ggml_model: a size is looked for under its own name, and whatever
\* is not there under it is downloaded.
Fetched(o) == IF o.backend = "speech" \/ o.model = Unset THEN models ELSE models \cup {<<o.model, "as is">>}

\* The drain claims the head: the copy if there is one, the row otherwise.
ClaimsRun(i) ==
    /\ runRows[i].status = "queued" /\ Readable(i)
    /\ ~\E j \in DOMAIN runRows : runRows[j].status = "running"
    /\ runRows' = [runRows EXCEPT ![i].status = "running",
                            ![i].ran = IF i \in DOMAIN pending THEN pending[i] ELSE FromRow(i)]
    /\ pending' = [j \in DOMAIN pending \ {i} |-> pending[j]]
    /\ models' = Fetched(runRows'[i].ran)
    /\ UNCHANGED <<environ, present, workspace, tapes, submitting, requests, changes>>

\* The drain's read quarantines a row it cannot read.
Quarantines(i) ==
    /\ runRows[i].status = "queued" /\ ~Readable(i)
    /\ runRows' = [runRows EXCEPT ![i].status = "failed"]
    /\ UNCHANGED <<nodeFacts, tapes, pending, submitting, requests, changes>>

\* A run ends, done or failed, or is cancelled, a queued run among them.
RunEnds(i, how) ==
    /\ runRows[i].status = "running" \/ (runRows[i].status = "queued" /\ how = "stopped")
    /\ runRows' = [runRows EXCEPT ![i].status = how]
    /\ UNCHANGED <<nodeFacts, tapes, pending, submitting, requests, changes>>

\* The drain finds the queue empty and drops the copies.
PrunePending ==
    /\ ~OneInFlight /\ DOMAIN pending # {}
    /\ pending' = [i \in {} |-> Unset]
    /\ UNCHANGED <<nodeFacts, tapes, runRows, submitting, requests, changes>>

\* RunManager.resume: the predecessor's stored options, its scope dropped.
Resume(i) ==
    /\ submitting = 0 /\ requests < MaxRequests /\ requests' = requests + 1
    /\ ~OneInFlight /\ tapes # Unset /\ Readable(i) /\ runRows[i].by # "stage"
    /\ Enqueue([Provenance(i) EXCEPT !.resumes = i], [FromRow(i) EXCEPT !.scope = FALSE])
    /\ UNCHANGED <<nodeFacts, tapes, pending, changes>>

-----------------------------------------------------------------------------
(* The rest of the world. *)

\* The node's process starts again, perhaps in another environment; what it
\* was executing is reaped, what was queued is still in the registry.
StartsAgain ==
    /\ changes < MaxChanges /\ changes' = changes + 1
    /\ \E e \in Environs : environ' = [environ EXCEPT !["node"] = e]
    /\ pending' = [i \in {} |-> Unset] /\ submitting' = 0
    /\ runRows' = [i \in DOMAIN runRows |->
                   IF runRows[i].status = "running" THEN [runRows[i] EXCEPT !.status = "interrupted"] ELSE runRows[i]]
    /\ UNCHANGED <<models, present, workspace, tapes, requests>>

\* A queued row was written by a process of an earlier release, or of a newer.
OtherBuild(i, b) ==
    /\ changes < MaxChanges /\ changes' = changes + 1
    /\ runRows[i].status = "queued" /\ submitting = 0 /\ i \notin DOMAIN pending
    /\ runRows[i].written = "this build"
    /\ runRows' = [runRows EXCEPT ![i].written = b]
    /\ UNCHANGED <<nodeFacts, tapes, pending, submitting, requests>>

\* A checkpoint is fetched or removed, a back end installed or gone, the
\* folder's audio or its declaration edited.
Changes ==
    /\ changes < MaxChanges /\ changes' = changes + 1
    /\ \/ models' \in Fetches /\ UNCHANGED <<present, workspace>>
       \/ present' \in Installs /\ UNCHANGED <<models, workspace>>
       \/ workspace' \in Workspaces /\ UNCHANGED <<models, present>>
    /\ UNCHANGED <<environ, tapes, runRows, pending, submitting, requests>>

RequestNext ==
    \/ \E s \in {"run", "api", "console", "mcp"}, q \in Asks : Submit(s, q)
    \/ \E q \in Asks : StageRun(q)
    \/ Remember \/ PrunePending \/ StartsAgain \/ Changes
    \/ \E i \in DOMAIN runRows :
          \/ ClaimsRun(i) \/ Quarantines(i) \/ Resume(i)
          \/ \E how \in {"over", "stopped"} : RunEnds(i, how)
          \/ \E b \in {"an earlier release", "a newer build"} : OtherBuild(i, b)

RequestSpec == RequestInit /\ [][RequestNext]_requestVars

-----------------------------------------------------------------------------

RequestTypeOK ==
    /\ DOMAIN environ = {"node", "client"} /\ present \in Installs
    /\ \A m \in models : m[2] \in {"as is", "quantized"}
    /\ \A i \in DOMAIN runRows : DOMAIN runRows[i].options.knobs = Knobs
    /\ DOMAIN pending \subseteq DOMAIN runRows /\ submitting \in 0 .. Len(runRows)

\* What runs is what was resolved as the run was submitted (runs.py, start: the
\* row keeps the options; _execute_run takes the manager's copy or the row's):
\* whatever restarted, in whatever environment, and whichever copy the claim
\* found.
RunsAsSubmitted ==
    \A i \in DOMAIN runRows : runRows[i].ran # Unset => runRows[i].ran = runRows[i].options

\* What a row's knob is, by what was typed and by the two environments.
Typed(r, k) == IF r.by = "mcp" THEN Unset ELSE r.ask.knobs[k]
InPrecedence(r, k) ==
    LET client == r.env["client"][k]  node == r.env["node"][k]  v == r.options.knobs[k]
    IN  /\ Typed(r, k) # Unset => v = Typed(r, k)
        /\ (Typed(r, k) = Unset /\ r.by \in {"run", "stage"} /\ client # Unset) => v = client
        /\ ((r.by \in {"api", "console"} \/ (r.by = "mcp" /\ k # "chunk_seconds")
               \/ (r.by = "run" /\ client = Unset))
             /\ Typed(r, k) = Unset /\ node \notin {Unset, Junk}) => v = node
        /\ v \in Profiles => v = r.options.profile

\* core/options.py: "explicit argument > CR_* environment > profile > built-in
\* default", one way for every surface.  The agent's adapter is excepted for
\* the chunking, whose default it takes for an explicit argument.
PrecedenceHolds == \A i \in DOMAIN runRows : \A k \in Knobs : InPrecedence(runRows[i], k)

\* What a row's options keep of what was asked.
Affordable(model, sizes) ==
    \E m \in DOMAIN Ladder :
       /\ model = Ladder[m] /\ model \in sizes
       /\ \A n \in 1 .. Fitting : Ladder[n] \in sizes => n <= m /\ m <= Fitting
KeepsWhatWasNamed(r) ==
    /\ r.ask.model # Unset => r.options.model = r.ask.model
    /\ r.ask.backend # "auto" => r.options.backend = r.ask.backend
    /\ r.ask.profile \notin {Unset, "custom"} => r.options.profile = r.ask.profile
    /\ (r.ask.auto /\ r.ask.model = Unset) => Affordable(r.options.model, {x[1] : x \in r.models})

\* "--auto fills ... only where left unset, never downloading a model"
\* (service/auto.py): what was named stands, and a model it chose was on disk
\* then, the largest there that the machine affords if it affords any there.
\* A profile named `custom` is excepted on the way through the node.
AutoKeepsWhatWasNamed == \A i \in DOMAIN runRows : KeepsWhatWasNamed(runRows[i])

\* "Re-using its chunk cache" (RunManager.resume): a resumed run runs with the
\* options its predecessor recorded, none of them resolved again, so the cache
\* it finds is keyed as the one it left.
ResumeKeepsThePlan ==
    \A i \in DOMAIN runRows : runRows[i].resumes # 0 =>
        /\ ~runRows[i].options.scope
        /\ runRows[i].options = [runRows[runRows[i].resumes].options EXCEPT !.scope = FALSE]

RequestsHold == RunsAsSubmitted /\ PrecedenceHolds /\ AutoKeepsWhatWasNamed /\ ResumeKeepsThePlan
=============================================================================
