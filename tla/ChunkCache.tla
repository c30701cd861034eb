------------------------------ MODULE ChunkCache ------------------------------
(***************************************************************************)
(* The resumable chunk cache of one source (pipeline/workspace.py,         *)
(* ChunkCache) under the transcribe stage that fills it                    *)
(* (pipeline/transcription.py, transcribe and _run_pending).               *)
(*                                                                         *)
(* A pass reads the meta, sweeps a cache it cannot trust file by file,     *)
(* publishes the new meta, and then decodes the chunks it did not keep in  *)
(* a pool.  It may be killed between any two file operations, cancelled    *)
(* or failed while the pool works; the next pass starts from the files.    *)
(*                                                                         *)
(* A glossary is the set of its terms, a plan is everything else that keys *)
(* the cache, and of a body only what it was decoded under and the terms   *)
(* its text resembles matter.  One pass works on a workspace at a time,    *)
(* and a cancelled pass's last worker is done before the next one plans.   *)
(***************************************************************************)
EXTENDS Naturals, FiniteSets

CONSTANTS
    Chunk,          \* the chunks of the source
    Term,           \* the terms a glossary may hold
    Plan,           \* backend, model, language, chunk plan and decoder knobs
    None,           \* no file, no pass
    Workers,        \* how many chunks decode at once (resolve_jobs)
    MaxPasses       \* bound: passes over the source

ASSUME CacheAssumption ==
    /\ Workers \in Nat \ {0}
    /\ MaxPasses \in Nat

Glossary == SUBSET Term

\* What a chunk was decoded under, and the terms that could affect its text.
Bodies == [plan : Plan, glossary : Glossary, near : Glossary]
Metas  == [plan : Plan, glossary : Glossary, digest : [Chunk -> Glossary]]
Passes == [plan : Plan, glossary : Glossary, scope : SUBSET Chunk, resume : BOOLEAN]

ASSUME NoneAssumption == None \notin Bodies \union Metas \union Passes

VARIABLES
    body,           \* body[c]: NNNN.json
    meta,           \* _meta.json
    pass,           \* the options of the pass at work
    phase,          \* "idle", "plan" (walk and sweep) or "pool"
    job,            \* job[c]: where the pass is with chunk c
    cancelled,      \* the runner's cancel flags
    passes,         \* how many passes started
    cut,            \* chunks whose old body a pass relabelled and never replaced
    swept           \* a sweep was cut short since the last meta was published

vars  == <<body, meta, pass, phase, job, cancelled, passes, cut, swept>>
files == <<body, meta>>

NoJobs == [c \in Chunk |-> "none"]

\* A scope needs a cache to reuse: _validate_scope refuses it without resume.
Legal(p) == p.resume \/ p.scope = Chunk

-----------------------------------------------------------------------------
(* What a pass makes of the cache it finds. *)

\* plan_matches, on a meta that may be read at all.
CanTrust(p) == p.resume /\ meta # None /\ meta.plan = p.plan

\* changed_terms: removals count as well as additions.
Affected_Added(p) == p.glossary \ meta.glossary
Affected(p) == (p.glossary \ meta.glossary) \union (meta.glossary \ p.glossary)

\* _REUSE: the body carries this glossary's digest.
Reused_WholeSource(c, p) == body[c] # None /\ meta.glossary = p.glossary
Reused(c, p) == body[c] # None /\ meta.digest[c] = p.glossary

\* _CARRY: outside the scope, and no changed term could be in its text.
Carried(c, p) == body[c] # None /\ c \notin p.scope /\ body[c].near \cap Affected(p) = {}

Kept(p) == {c \in Chunk : CanTrust(p) /\ (Reused(c, p) \/ Carried(c, p))}

\* The digest every chunk will carry once the pass is over (final[i]).
Digest_Current(c, p) == p.glossary
Digest(c, p) == IF c \in Kept(p) THEN meta.digest[c] ELSE p.glossary

-----------------------------------------------------------------------------

Init ==
    /\ body = [c \in Chunk |-> None]
    /\ meta = None
    /\ pass = None
    /\ phase = "idle"
    /\ job = NoJobs
    /\ cancelled = FALSE
    /\ passes = 0
    /\ cut = {}
    /\ swept = FALSE

StartPass ==
    /\ phase = "idle"
    /\ passes < MaxPasses
    /\ passes' = passes + 1
    /\ pass' \in {p \in Passes : Legal(p)}
    /\ phase' = "plan"
    /\ cancelled' = FALSE
    /\ UNCHANGED <<files, job, cut, swept>>

\* invalidate: one unlink after the other, in the order the directory lists.
SweepBody(c) ==
    /\ phase = "plan"
    /\ ~ CanTrust(pass)
    /\ body[c] # None
    /\ body' = [body EXCEPT ![c] = None]
    /\ cut' = cut \ {c}
    /\ UNCHANGED <<meta, pass, phase, job, cancelled, passes, swept>>

SweepMeta ==
    /\ phase = "plan"
    /\ ~ CanTrust(pass)
    /\ meta # None
    /\ meta' = None
    /\ UNCHANGED <<body, pass, phase, job, cancelled, passes, cut, swept>>

\* write_meta, before anything is decoded; then the pool takes what is pending.
Planned ==
    /\ phase = "plan"
    /\ \/ CanTrust(pass)
       \/ meta = None /\ \A c \in Chunk : body[c] = None
    /\ phase' = "pool"
    /\ job' = [c \in Chunk |-> IF c \in Kept(pass) THEN "none" ELSE "queued"]
    /\ swept' = FALSE
    /\ UNCHANGED <<body, pass, cancelled, passes, cut>>

WriteMeta_Forgotten == Planned /\ UNCHANGED meta
WriteMeta ==
    /\ Planned
    /\ meta' = [plan     |-> pass.plan,
                glossary |-> pass.glossary,
                digest   |-> [c \in Chunk |-> Digest(c, pass)]]

-----------------------------------------------------------------------------
(* The pool. *)

Jobs(l) == {c \in Chunk : job[c] = l}
GoesTo(c, l) == job' = [job EXCEPT ![c] = l]

\* A worker takes a chunk and launches its decoder.
TakeChunk(c) ==
    /\ phase = "pool"
    /\ job[c] = "queued"
    /\ ~ cancelled
    /\ Cardinality(Jobs("decoding")) < Workers
    /\ GoesTo(c, "decoding")
    /\ UNCHANGED <<files, pass, phase, cancelled, passes, cut, swept>>

\* The decoder returned and write_segments publishes the body -- also when a
\* cancel came too late for this chunk.
WriteSegments(c) ==
    /\ job[c] = "decoding"
    /\ \E near \in Glossary :
         body' = [body EXCEPT ![c] =
                    [plan |-> pass.plan, glossary |-> pass.glossary, near |-> near]]
    /\ GoesTo(c, "written")
    /\ cut' = cut \ {c}
    /\ UNCHANGED <<meta, pass, phase, cancelled, passes, swept>>

\* The decoder fails.  A pool finishes what was submitted, a single worker
\* stops there.
ChunkFails(c) ==
    /\ job[c] = "decoding"
    /\ ~ cancelled
    /\ job' = [d \in Chunk |->
                 IF d = c \/ (Workers = 1 /\ job[d] = "queued") THEN "failed"
                                                                ELSE job[d]]
    /\ UNCHANGED <<files, pass, phase, cancelled, passes, cut, swept>>

\* Ctrl-C, or the run's cancel: queued chunks are given up, running decoders
\* are terminated.
Cancel ==
    /\ phase = "pool"
    /\ ~ cancelled
    /\ cancelled' = TRUE
    /\ job' = [c \in Chunk |-> IF job[c] = "queued" THEN "failed" ELSE job[c]]
    /\ UNCHANGED <<files, pass, phase, passes, cut, swept>>

DecoderKilled(c) ==
    /\ job[c] = "decoding"
    /\ cancelled
    /\ GoesTo(c, "failed")
    /\ UNCHANGED <<files, pass, phase, cancelled, passes, cut, swept>>

\* The stage is over, whichever way: nothing of the pass is left but its files.
Over_KeepsJobs ==
    /\ pass' = None
    /\ phase' = "idle"
    /\ cancelled' = FALSE
    /\ UNCHANGED <<files, job, passes>>
Over ==
    /\ pass' = None
    /\ phase' = "idle"
    /\ job' = NoJobs
    /\ cancelled' = FALSE
    /\ UNCHANGED <<files, passes>>

\* The chunks this pass labelled as its own and did not get to.
Unreplaced == {c \in Chunk : job[c] \in {"queued", "decoding", "failed"}
                                /\ body[c] # None}

Done == phase = "pool" /\ Jobs("queued") \union Jobs("decoding") = {}

Finish ==
    /\ Done
    /\ Jobs("failed") = {}
    /\ ~ cancelled
    /\ Over
    /\ UNCHANGED <<cut, swept>>

Raise ==
    /\ Done
    /\ Jobs("failed") # {} \/ cancelled
    /\ Over
    /\ cut' = cut \union Unreplaced
    /\ UNCHANGED swept

Crash ==
    /\ phase # "idle"
    /\ Over
    /\ cut' = cut \union Unreplaced
    /\ swept' = (swept \/ (phase = "plan" /\ ~ CanTrust(pass)))

Next ==
    \/ StartPass
    \/ \E c \in Chunk : SweepBody(c)
    \/ SweepMeta
    \/ WriteMeta
    \/ \E c \in Chunk :
         \/ TakeChunk(c)
         \/ WriteSegments(c)
         \/ ChunkFails(c)
         \/ DecoderKilled(c)
    \/ Cancel
    \/ Finish
    \/ Raise
    \/ Crash

Spec == Init /\ [][Next]_vars

-----------------------------------------------------------------------------
(* Properties. *)

\* Every variable keeps its type; between passes nothing of a pool is left.
TypeOK ==
    /\ body \in [Chunk -> Bodies \union {None}]
    /\ meta \in Metas \union {None}
    /\ pass \in Passes \union {None}
    /\ phase \in {"idle", "plan", "pool"}
    /\ job \in [Chunk -> {"none", "queued", "decoding", "written", "failed"}]
    /\ cancelled \in BOOLEAN
    /\ passes \in 0 .. MaxPasses
    /\ cut \subseteq Chunk
    /\ swept \in BOOLEAN
    /\ (phase = "idle") = (pass = None)
    /\ phase # "pool" => job = NoJobs /\ ~ cancelled

\* A body the meta vouches for was decoded under the plan and the glossary the
\* meta says, through every sweep, crash, failure and scope -- except one an
\* interrupted pass had already relabelled (ChunkCache, chunk_cache_key).
ProvenanceHolds ==
    \A c \in Chunk \ cut :
        body[c] # None /\ meta # None /\ job[c] \notin {"queued", "decoding", "failed"}
            => /\ body[c].plan = meta.plan
               /\ body[c].glossary = meta.digest[c]

\* A pass that finishes returns, for every chunk its scope selects, a body
\* decoded under its own plan and glossary, whatever the cache held (transcribe);
\* chunks left relabelled by an interrupted pass are excepted.
FinishedPassIsCurrent ==
    [][Finish => \A c \in pass.scope \ cut :
                    /\ body[c].plan = pass.plan
                    /\ body[c].glossary = pass.glossary]_vars

\* A chunk outside the scope is returned under an older glossary only if no term
\* that differs between that glossary and this pass's could be in its text --
\* also when several scoped edits lie between (term_could_affect, changed_terms).
CarriedIsUnaffected ==
    [][Finish => \A c \in Chunk \ cut :
         LET was == body[c].glossary
         IN  body[c].near \cap ((was \ pass.glossary) \union (pass.glossary \ was)) # {}
                => was = pass.glossary]_vars

\* A resumed pass never throws away a body of its own plan -- a cancelled pass
\* stays resumable (write_meta) -- unless a sweep was cut short before it.
ResumeKeepsWork ==
    [][\A c \in Chunk : body[c] # None /\ body'[c] = None =>
         \/ swept
         \/ ~ pass.resume
         \/ body[c].plan # pass.plan]_vars

-----------------------------------------------------------------------------
(* What a document says of the program and the code does not do. *)

\* "An unscoped glossary edit still re-decodes every chunk of every source"
\* (ADR-0018): after an unscoped pass that finished, every chunk's body was
\* decoded under that pass's glossary.
EditReachesEveryChunk ==
    [][Finish /\ pass.scope = Chunk =>
         \A c \in Chunk : body[c].glossary = pass.glossary]_vars
=============================================================================
