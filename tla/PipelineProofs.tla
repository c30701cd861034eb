--------------------------- MODULE PipelineProofs ---------------------------
(***************************************************************************)
(* What holds of the stages of the pipeline, for any contents, chunks,     *)
(* plans, pool size, sources, names, recordings, runs, threads and         *)
(* processes: of the cache of transcribed chunks; of the publication of    *)
(* documents wherever copies, statements and renames fail and however the  *)
(* publications of several runs interleave; of what transcription fetches; *)
(* of the names a record gives; of the check that takes one tape through   *)
(* the stages; of the transcript and the record the merge makes of what is *)
(* heard; and of the ids, the audio and the declarations of the sources    *)
(* ingest makes of a folder.                                               *)
(***************************************************************************)
EXTENDS MCPipeline, FiniteSetTheorems, SequenceTheorems, WellFoundedInduction, TLAPS

-----------------------------------------------------------------------------
(* The cache of chunks (ChunkCache). *)

Pending == {"queued", "decoding", "failed"}

\* The types hold in the empty cache.
LEMMA TypeInit == Init => TypeOK
<1> SUFFICES ASSUME Init PROVE TypeOK
  OBVIOUS
<1>1. body \in [Chunk -> Bodies \union {None}]
  BY DEF Init
<1>2. job \in [Chunk -> {"none", "queued", "decoding", "written", "failed"}]
  BY DEF Init, NoJobs
<1>3. passes \in 0 .. MaxPasses
  BY CacheAssumption DEF Init
<1>4. QED
  BY <1>1, <1>2, <1>3 DEF Init, TypeOK

\* Every step keeps them.
LEMMA TypeStep == TypeOK /\ [Next]_vars => TypeOK'
<1> SUFFICES ASSUME TypeOK, [Next]_vars PROVE TypeOK'
  OBVIOUS
<1> USE CacheAssumption, NoneAssumption DEF TypeOK, files
<1>1. CASE StartPass
  <2>1. pass' \in Passes /\ pass' # None /\ phase' = "plan"
    BY <1>1 DEF StartPass
  <2>2. passes' \in 0 .. MaxPasses
    BY <1>1 DEF StartPass
  <2>3. QED
    BY <1>1, <2>1, <2>2 DEF StartPass
<1>2. ASSUME NEW c \in Chunk, SweepBody(c) PROVE TypeOK'
  BY <1>2 DEF SweepBody
<1>3. CASE SweepMeta
  BY <1>3 DEF SweepMeta
<1>4. CASE WriteMeta
  <2> DEFINE new == [plan     |-> pass.plan,
                     glossary |-> pass.glossary,
                     digest   |-> [c \in Chunk |-> Digest(c, pass)]]
  <2>1. pass \in Passes /\ phase = "plan"
    BY <1>4 DEF WriteMeta, Planned
  <2>2. \A c \in Kept(pass) : meta \in Metas
    BY DEF Kept, CanTrust
  <2>3. \A c \in Chunk : Digest(c, pass) \in Glossary
    BY <2>1, <2>2 DEF Digest, Metas, Passes
  <2>4. new \in Metas
    BY <2>1, <2>3 DEF Metas, Passes
  <2>5. meta' \in Metas \union {None}
    BY <1>4, <2>4 DEF WriteMeta
  <2>6. QED
    BY <1>4, <2>1, <2>5 DEF WriteMeta, Planned
<1>5. ASSUME NEW c \in Chunk, TakeChunk(c) \/ DecoderKilled(c) PROVE TypeOK'
  BY <1>5 DEF TakeChunk, DecoderKilled, GoesTo, NoJobs
<1>6. ASSUME NEW c \in Chunk, WriteSegments(c) PROVE TypeOK'
  <2>1. phase = "pool" /\ pass \in Passes
    BY <1>6 DEF WriteSegments, NoJobs
  <2>2. PICK near \in Glossary :
          body' = [body EXCEPT ![c] =
                     [plan |-> pass.plan, glossary |-> pass.glossary, near |-> near]]
    BY <1>6 DEF WriteSegments
  <2>3. [plan |-> pass.plan, glossary |-> pass.glossary, near |-> near] \in Bodies
    BY <2>1 DEF Bodies, Passes
  <2>4. body' \in [Chunk -> Bodies \union {None}]
    BY <2>2, <2>3
  <2>5. QED
    BY <1>6, <2>1, <2>4 DEF WriteSegments, GoesTo
<1>7. ASSUME NEW c \in Chunk, ChunkFails(c) PROVE TypeOK'
  BY <1>7 DEF ChunkFails, NoJobs
<1>8. CASE Cancel
  BY <1>8 DEF Cancel
<1>9. CASE Finish \/ Raise \/ Crash
  BY <1>9 DEF Finish, Raise, Crash, Over, NoJobs, Unreplaced
<1>10. CASE UNCHANGED vars
  BY <1>10 DEF vars
<1>11. QED
  BY <1>1, <1>2, <1>3, <1>4, <1>5, <1>6, <1>7, <1>8, <1>9, <1>10 DEF Next

\* Every variable keeps its type in every reachable state, for any chunks,
\* terms, plans and pool size.
THEOREM TypeCorrect == Spec => []TypeOK
<1>1. Init => TypeOK
  BY TypeInit
<1>2. TypeOK /\ [Next]_vars => TypeOK'
  BY TypeStep
<1>3. QED
  BY <1>1, <1>2, PTL DEF Spec

-----------------------------------------------------------------------------
(* The strengthening: what the meta says of the chunks a pass has decided on,*)
(* and of the chunks no pass is about to replace.                            *)

\* Once the meta is published, it is the pass's own, and every chunk is either
\* in the pool or kept, and kept for a reason.
PoolInv ==
    phase = "pool" =>
        /\ meta # None
        /\ meta.plan = pass.plan
        /\ meta.glossary = pass.glossary
        /\ \A c \in Chunk :
             /\ job[c] # "none" => meta.digest[c] = pass.glossary
             /\ job[c] \in {"none", "written"} => body[c] # None
             /\ job[c] = "none" /\ c \in pass.scope =>
                    meta.digest[c] = pass.glossary

IsSettled(c) ==
    /\ c \notin cut
    /\ body[c] # None
    /\ meta # None
    /\ job[c] \notin Pending

\* The terms in which two glossaries differ.
Difference(g, h) == (g \ h) \union (h \ g)

\* A settled body is what the meta says it is, and no term that changed between
\* its glossary and the last one could be in its text.
SettledInv ==
    \A c \in Chunk : IsSettled(c) =>
        /\ body[c].plan = meta.plan
        /\ body[c].glossary = meta.digest[c]
        /\ body[c].near \cap Difference(body[c].glossary, meta.glossary) = {}

Inv == TypeOK /\ PoolInv /\ SettledInv

\* What planning keeps of a cache it can trust stays settled under the new meta,
\* and nothing else is kept.
LEMMA PlanningKeepsSettled == ASSUME Inv, WriteMeta PROVE PoolInv' /\ SettledInv'
<1> USE DEF Inv, TypeOK
<1>1. pass \in Passes /\ phase = "plan" /\ job = NoJobs
  BY DEF WriteMeta, Planned
<1>2. /\ phase' = "pool" /\ pass' = pass /\ body' = body /\ cut' = cut
      /\ job' = [c \in Chunk |-> IF c \in Kept(pass) THEN "none" ELSE "queued"]
      /\ meta' = [plan     |-> pass.plan,
                  glossary |-> pass.glossary,
                  digest   |-> [c \in Chunk |-> Digest(c, pass)]]
  BY DEF WriteMeta, Planned
<1>3. meta' # None
  <2>1. meta' \in Metas \union {None} /\ \A c \in Chunk : Digest(c, pass) \in Glossary
    BY <1>1, TypeStep DEF Next, Digest, Kept, CanTrust, Metas, Passes
  <2>2. meta' \in Metas
    BY <1>1, <1>2, <2>1 DEF Metas, Passes
  <2>3. QED
    BY <2>2, NoneAssumption
<1>4. \A c \in Chunk : meta'.digest[c] = Digest(c, pass)
  BY <1>2
<1>5. PoolInv'
  <2>1. ASSUME NEW c \in Chunk, c \notin Kept(pass)
        PROVE /\ meta'.digest[c] = pass.glossary
              /\ job'[c] = "queued"
    BY <1>2, <1>4, <2>1 DEF Digest
  <2>2. ASSUME NEW c \in Chunk, c \in Kept(pass)
        PROVE /\ job'[c] = "none"
              /\ body[c] # None
              /\ c \in pass.scope => meta'.digest[c] = pass.glossary
    BY <1>2, <1>4, <2>2 DEF Digest, Kept, Reused, Carried
  <2>3. QED
    BY <1>2, <1>3, <2>1, <2>2 DEF PoolInv
<1>6. SettledInv'
  <2> SUFFICES ASSUME NEW c \in Chunk, IsSettled(c)'
               PROVE /\ body[c].plan = pass.plan
                     /\ body[c].glossary = Digest(c, pass)
                     /\ body[c].near
                          \cap Difference(body[c].glossary, pass.glossary) = {}
    BY <1>2, <1>4 DEF SettledInv
  <2>1. c \in Kept(pass) /\ body[c] # None /\ c \notin cut
    BY <1>2 DEF IsSettled, Pending
  <2>2. CanTrust(pass) /\ Digest(c, pass) = meta.digest[c]
    BY <2>1 DEF Kept, Digest
  <2>3. IsSettled(c)
    BY <1>1, <2>1, <2>2 DEF IsSettled, Pending, NoJobs, CanTrust
  <2>4. /\ body[c].plan = meta.plan
        /\ body[c].glossary = meta.digest[c]
        /\ body[c].near \cap Difference(body[c].glossary, meta.glossary) = {}
    BY <2>3 DEF SettledInv
  <2>5. CASE Reused(c, pass)
    BY <2>2, <2>4, <2>5 DEF CanTrust, Reused, Difference
  <2>6. CASE Carried(c, pass)
    BY <2>2, <2>4, <2>6 DEF CanTrust, Carried, Affected, Difference
  <2>7. QED
    BY <2>1, <2>5, <2>6 DEF Kept
<1>7. QED
  BY <1>5, <1>6

\* A body the pool publishes is the pass's own, and so is the meta.
LEMMA WritingSettles ==
    ASSUME Inv, NEW c \in Chunk, WriteSegments(c)
    PROVE  PoolInv' /\ SettledInv'
<1> USE DEF Inv, TypeOK
<1>1. phase = "pool" /\ pass \in Passes /\ job[c] = "decoding"
  BY NoneAssumption DEF WriteSegments, NoJobs
<1>2. PICK near \in Glossary :
        body' = [body EXCEPT ![c] =
                   [plan |-> pass.plan, glossary |-> pass.glossary, near |-> near]]
  BY DEF WriteSegments
<1>3. /\ body'[c] = [plan |-> pass.plan, glossary |-> pass.glossary, near |-> near]
      /\ \A d \in Chunk \ {c} : body'[d] = body[d]
  BY <1>2
<1>4. body'[c] # None
  BY <1>1, <1>3, NoneAssumption DEF Bodies, Passes
<1>5. /\ phase' = phase /\ pass' = pass /\ meta' = meta /\ cut' = cut \ {c}
      /\ job' = [job EXCEPT ![c] = "written"]
  BY DEF WriteSegments, GoesTo
<1>6. PoolInv'
  BY <1>1, <1>3, <1>4, <1>5 DEF PoolInv
<1>7. SettledInv'
  <2>1. ASSUME NEW d \in Chunk \ {c}, IsSettled(d)' PROVE IsSettled(d)
    BY <1>3, <1>5, <2>1 DEF IsSettled
  <2>2. meta.plan = pass.plan /\ meta.glossary = pass.glossary
        /\ meta.digest[c] = pass.glossary
    BY <1>1 DEF PoolInv
  <2>3. QED
    BY <1>3, <1>5, <2>1, <2>2 DEF SettledInv, Difference
<1>8. QED
  BY <1>6, <1>7

\* Every step keeps the invariant.
LEMMA InvStep == Inv /\ [Next]_vars => Inv'
<1> SUFFICES ASSUME Inv, [Next]_vars PROVE PoolInv' /\ SettledInv'
  BY TypeStep DEF Inv
<1> USE DEF Inv, TypeOK, files
<1>1. CASE StartPass
  BY <1>1 DEF StartPass, PoolInv, SettledInv, IsSettled
<1>2. ASSUME NEW c \in Chunk, SweepBody(c) PROVE PoolInv' /\ SettledInv'
  BY <1>2 DEF SweepBody, PoolInv, SettledInv, IsSettled
<1>3. CASE SweepMeta
  BY <1>3 DEF SweepMeta, PoolInv, SettledInv, IsSettled
<1>4. CASE WriteMeta
  BY <1>4, PlanningKeepsSettled
<1>5. ASSUME NEW c \in Chunk, WriteSegments(c) PROVE PoolInv' /\ SettledInv'
  BY <1>5, WritingSettles
<1>6. ASSUME NEW c \in Chunk, TakeChunk(c) \/ DecoderKilled(c)
      PROVE PoolInv' /\ SettledInv'
  BY <1>6 DEF TakeChunk, DecoderKilled, GoesTo, PoolInv, SettledInv, IsSettled,
     Pending
<1>7. ASSUME NEW c \in Chunk, ChunkFails(c) PROVE PoolInv' /\ SettledInv'
  BY <1>7 DEF ChunkFails, PoolInv, SettledInv, IsSettled, Pending
<1>8. CASE Cancel
  BY <1>8 DEF Cancel, PoolInv, SettledInv, IsSettled, Pending
<1>9. CASE Finish
  BY <1>9 DEF Finish, Done, Jobs, Over, NoJobs, PoolInv, SettledInv, IsSettled,
     Pending
<1>10. CASE Raise \/ Crash
  BY <1>10 DEF Raise, Crash, Over, Unreplaced, NoJobs, PoolInv, SettledInv,
     IsSettled, Pending
<1>11. CASE UNCHANGED vars
  BY <1>11 DEF vars, PoolInv, SettledInv, IsSettled
<1>12. QED
  BY <1>1, <1>2, <1>3, <1>4, <1>5, <1>6, <1>7, <1>8, <1>9, <1>10, <1>11 DEF Next

\* It holds of the empty cache.
LEMMA InvInit == Init => Inv
BY TypeInit DEF Inv, Init, PoolInv, SettledInv, IsSettled

\* It holds in every reachable state.
LEMMA InvAlways == Spec => []Inv
<1>1. Init => Inv
  BY InvInit
<1>2. Inv /\ [Next]_vars => Inv'
  BY InvStep
<1>3. QED
  BY <1>1, <1>2, PTL DEF Spec

-----------------------------------------------------------------------------

\* The meta tells the truth about every body it vouches for, through any
\* interruption of any number of passes, but for the chunks an interrupted pass
\* had relabelled.
THEOREM ProvenanceCorrect == Spec => []ProvenanceHolds
<1>1. Inv => ProvenanceHolds
  BY DEF Inv, SettledInv, IsSettled, Pending, ProvenanceHolds
<1>2. QED
  BY <1>1, InvAlways, PTL

\* When a pass finishes, every chunk is settled.
LEMMA FinishedIsSettled ==
    ASSUME Inv, Finish, NEW c \in Chunk \ cut
    PROVE  /\ IsSettled(c)
           /\ meta.plan = pass.plan
           /\ meta.glossary = pass.glossary
           /\ c \in pass.scope => meta.digest[c] = pass.glossary
<1>1. phase = "pool" /\ job[c] \in {"none", "written"}
  BY DEF Finish, Done, Jobs, Inv, TypeOK
<1>2. QED
  BY <1>1 DEF Inv, PoolInv, IsSettled, Pending

\* A pass that finishes is current wherever its scope selects, whatever cache it
\* started from.
THEOREM FinishedCurrent == Spec => FinishedPassIsCurrent
<1> DEFINE Current == Finish => \A c \in pass.scope \ cut :
                                  /\ body[c].plan = pass.plan
                                  /\ body[c].glossary = pass.glossary
<1>1. ASSUME Inv, [Next]_vars PROVE [Current]_vars
  <2>1. ASSUME Finish, NEW c \in pass.scope \ cut
        PROVE body[c].plan = pass.plan /\ body[c].glossary = pass.glossary
    <3>1. c \in Chunk \ cut
      BY <1>1, <2>1, NoneAssumption DEF Inv, TypeOK, Finish, Done, Passes
    <3>2. QED
      BY <1>1, <2>1, <3>1, FinishedIsSettled DEF Inv, SettledInv
  <2>2. QED
    BY <2>1
<1>2. QED
  BY <1>1, InvAlways, PTL DEF Spec, FinishedPassIsCurrent

\* A chunk a finished pass carried over is untouched by every term that changed
\* since it was decoded, however many scoped edits lie between.
THEOREM CarriedUnaffected == Spec => CarriedIsUnaffected
<1> DEFINE Unaffected == Finish => \A c \in Chunk \ cut :
             LET was == body[c].glossary
             IN  body[c].near \cap ((was \ pass.glossary) \union (pass.glossary \ was))
                   # {} => was = pass.glossary
<1>1. ASSUME Inv, [Next]_vars PROVE [Unaffected]_vars
  <2>1. ASSUME Finish, NEW c \in Chunk \ cut
        PROVE body[c].near \cap Difference(body[c].glossary, pass.glossary) = {}
    BY <1>1, <2>1, FinishedIsSettled DEF Inv, SettledInv
  <2>2. QED
    BY <2>1 DEF Difference
<1>2. QED
  BY <1>1, InvAlways, PTL DEF Spec, CarriedIsUnaffected

-----------------------------------------------------------------------------
(* What a sweep may take: a cache is kept by the plan its meta names. *)

\* Every body was decoded under the plan the meta names; and a body whose meta
\* is gone is of a sweep at work, that is to take it, or of one cut short.
SweptForAReason ==
    /\ meta # None => \A c \in Chunk : body[c] # None => body[c].plan = meta.plan
    /\ meta = None /\ ~ swept => \A c \in Chunk : body[c] # None =>
           phase = "plan" /\ (~ pass.resume \/ body[c].plan # pass.plan)

\* It holds in the empty cache and every step keeps it.
LEMMA SweptInit == Init => SweptForAReason
BY DEF Init, SweptForAReason

LEMMA SweptStep == Inv /\ SweptForAReason /\ [Next]_vars => SweptForAReason'
<1> SUFFICES ASSUME Inv, SweptForAReason, [Next]_vars PROVE SweptForAReason'
  OBVIOUS
<1> USE DEF SweptForAReason, files
<1>1. CASE StartPass
  BY <1>1 DEF StartPass
<1>2. ASSUME NEW c \in Chunk, SweepBody(c) PROVE SweptForAReason'
  BY <1>2 DEF SweepBody, Inv, TypeOK
<1>3. CASE SweepMeta
  BY <1>3 DEF SweepMeta, CanTrust
<1>4. CASE WriteMeta
  <2>1. /\ phase' = "pool" /\ body' = body
        /\ meta' = [plan     |-> pass.plan,
                    glossary |-> pass.glossary,
                    digest   |-> [c \in Chunk |-> Digest(c, pass)]]
    BY <1>4 DEF WriteMeta, Planned
  <2>2. meta' # None
    BY <1>4, <2>1, PlanningKeepsSettled DEF PoolInv
  <2>3. \A c \in Chunk : body[c] # None => body[c].plan = pass.plan
    BY <1>4 DEF WriteMeta, Planned, CanTrust
  <2>4. QED
    BY <2>1, <2>2, <2>3
<1>5. ASSUME NEW c \in Chunk, WriteSegments(c) PROVE SweptForAReason'
  <2>1. phase = "pool" /\ meta # None /\ meta.plan = pass.plan /\ meta' = meta
    BY <1>5 DEF Inv, TypeOK, PoolInv, WriteSegments, NoJobs
  <2>2. PICK near \in Glossary :
          body' = [body EXCEPT ![c] =
                     [plan |-> pass.plan, glossary |-> pass.glossary, near |-> near]]
    BY <1>5 DEF WriteSegments
  <2>3. \A d \in Chunk : body'[d] = IF d = c
            THEN [plan |-> pass.plan, glossary |-> pass.glossary, near |-> near] ELSE body[d]
    BY <2>2 DEF Inv, TypeOK
  <2>4. QED
    BY <2>1, <2>3
<1>6. ASSUME NEW c \in Chunk, TakeChunk(c) \/ ChunkFails(c) \/ DecoderKilled(c)
      PROVE SweptForAReason'
  BY <1>6 DEF TakeChunk, ChunkFails, DecoderKilled, GoesTo, Inv, TypeOK, PoolInv, NoJobs
<1>7. CASE Cancel
  BY <1>7 DEF Cancel, Inv, PoolInv
<1>8. CASE Finish \/ Raise
  BY <1>8 DEF Finish, Raise, Done, Over, Inv, PoolInv
<1>9. CASE Crash
  BY <1>9 DEF Crash, Over, CanTrust, Inv, TypeOK, PoolInv
<1>10. CASE UNCHANGED vars
  BY <1>10 DEF vars
<1>11. QED
  BY <1>1, <1>2, <1>3, <1>4, <1>5, <1>6, <1>7, <1>8, <1>9, <1>10 DEF Next

\* A resumed pass keeps the work of its own plan, for any chunks and plans and
\* through any interruption but a sweep cut short: an interrupted pass is
\* resumable (invalidate, write_meta).
THEOREM ResumeKeeps == Spec => ResumeKeepsWork
<1> DEFINE Taken == \A c \in Chunk : body[c] # None /\ body'[c] = None =>
                      \/ swept
                      \/ ~ pass.resume
                      \/ body[c].plan # pass.plan
<1>1. ASSUME Inv, SweptForAReason, [Next]_vars PROVE [Taken]_vars
  <2> SUFFICES ASSUME NEW c \in Chunk, body[c] # None, body'[c] = None
               PROVE  swept \/ ~ pass.resume \/ body[c].plan # pass.plan
    OBVIOUS
  <2>1. SweepBody(c)
    <3>1. ASSUME NEW d \in Chunk, SweepBody(d) PROVE d = c
      BY <3>1 DEF SweepBody, Inv, TypeOK
    <3>2. ASSUME NEW d \in Chunk, WriteSegments(d) PROVE FALSE
      <4>1. PICK near \in Glossary :
              body' = [body EXCEPT ![d] =
                        [plan |-> pass.plan, glossary |-> pass.glossary, near |-> near]]
        BY <3>2 DEF WriteSegments
      <4>2. pass \in Passes
        BY <1>1, <3>2 DEF WriteSegments, Inv, TypeOK, NoJobs
      <4>3. [plan |-> pass.plan, glossary |-> pass.glossary, near |-> near] # None
        BY <4>2, NoneAssumption DEF Bodies, Passes
      <4>4. QED
        BY <4>1, <4>3 DEF Inv, TypeOK
    <3>3. QED
      BY <1>1, <3>1, <3>2 DEF Next, StartPass, SweepMeta, WriteMeta, Planned, TakeChunk,
         ChunkFails, DecoderKilled, Cancel, Finish, Raise, Crash, Over, files, vars
  <2>2. QED
    BY <1>1, <2>1 DEF SweptForAReason, SweepBody, CanTrust
<1>2. Spec => []SweptForAReason
  BY SweptInit, SweptStep, InvAlways, PTL DEF Spec
<1>3. QED
  BY <1>1, <1>2, InvAlways, PTL DEF Spec, ResumeKeepsWork

-----------------------------------------------------------------------------
(* Publication: the strengthening. *)

\* A copy of a run is not there before it is made, and is made once.
MadeOnce ==
    \A r \in Run :
        /\ pc[r] = "waiting" => own[r] = NoFiles
        /\ \A d \in Doc :
              pc[r] \in {"waiting", "find"} \/ (pc[r] = "keep" /\ d \in todo[r])
                  => kept[r][d] = NoDoc

\* A phase deals only with documents the run wrote.
TodoIsTarget == \A r \in Run : todo[r] \subseteq Targets(r)

\* Some row still names the published copy of d.
RootRow(d) == \E row \in rows : row.doc = d /\ row.place = Root

\* A pair's place is not the root, and holds the root's bytes as long as a row
\* depends on it -- another run may replace the root meanwhile, but only after
\* it has moved the rows itself.
PairsHold ==
    \A r \in Run, d \in Doc : pair[r][d] # NoDoc =>
        /\ pair[r][d] \in Places \ {Root}
        /\ RootRow(d) => Read(pair[r][d], d) = root[d]

\* Past the copies every row about to lose its document has a pair; past the
\* rows' move there is no such row.
TargetsPaired ==
    \A r \in Run : \A d \in Targets(r) : RootRow(d) =>
        /\ pc[r] \in {"stage", "rows"} => pair[r][d] # NoDoc
        /\ pc[r] = "keep" => pair[r][d] # NoDoc \/ d \in todo[r]
        /\ pc[r] # "swap"

\* What waits beside the root is some run's own copy.
ScratchIsOwn ==
    \A d \in Doc : scratch[d] # NoDoc => \E s \in Run : own[s][d] = scratch[d]

\* A document about to be replaced is held elsewhere once the copies are made.
TargetsHeld ==
    \A r \in Run : \A d \in Targets(r) :
        /\ root[d] # NoDoc
        /\ pc[r] \in {"stage", "rows", "swap"} \/ (pc[r] = "keep" /\ d \notin todo[r])
        => Holders(d) # {}

PublicationInv ==
    /\ PublicationTypeOK
    /\ MadeOnce /\ TodoIsTarget /\ PairsHold /\ TargetsPaired
    /\ ScratchIsOwn /\ TargetsHeld
    /\ RowsReadTheirBytes

-----------------------------------------------------------------------------
(* Places. *)

\* A place says whose it is.
LEMMA PlacesDiffer ==
  \A r, s \in Run : /\ Own(r) # Root /\ Retained(r) # Root /\ Own(r) # Retained(s)
                    /\ Own(r) = Own(s) => r = s
                    /\ Retained(r) = Retained(s) => r = s
                    /\ Own(r) \in Places /\ Retained(r) \in Places
BY DEF Own, Retained, Root, Places

\* What each kind of place reads, before and after a step.
LEMMA Reading ==
  ASSUME NEW d \in Doc
  PROVE  /\ Read(Root, d) = root[d] /\ Read(Root, d)' = root'[d]
         /\ \A s \in Run : Read(Own(s), d) = own[s][d] /\ Read(Own(s), d)' = own'[s][d]
         /\ \A s \in Run :
               Read(Retained(s), d) = kept[s][d] /\ Read(Retained(s), d)' = kept'[s][d]
BY DEF Read, Root, Own, Retained

\* There are no other places.
LEMMA KindsOfPlace ==
  ASSUME NEW place \in Places
  PROVE  place = Root \/ (\E s \in Run : place = Own(s)) \/ (\E s \in Run : place = Retained(s))
BY DEF Places

\* A workspace as it was found.
LEMMA PublicationInitInv == PublicationInit => PublicationInv
<1> SUFFICES ASSUME PublicationInit PROVE PublicationInv
  OBVIOUS
<1>1. NoFiles \in [Doc -> Bytes \union {NoDoc}]
  BY DEF NoFiles
<1>2. PICK named \in SUBSET {d \in Doc : root[d] # NoDoc} :
         rows = {[doc |-> d, place |-> Root, bytes |-> root[d]] : d \in named}
  BY DEF PublicationInit
<1>3. rows \subseteq [doc : Doc, place : Places, bytes : Bytes]
  <2>1. Root \in Places
    BY DEF Places
  <2>2. \A d \in named : d \in Doc /\ root[d] \in Bytes
    BY DEF PublicationInit
  <2>3. QED
    BY <1>2, <2>1, <2>2
<1>4. PublicationTypeOK
  <2>1. /\ root \in [Doc -> Bytes \union {NoDoc}] /\ scratch \in [Doc -> Bytes \union {NoDoc}]
        /\ own \in [Run -> [Doc -> Bytes \union {NoDoc}]]
        /\ kept \in [Run -> [Doc -> Bytes \union {NoDoc}]]
    BY <1>1 DEF PublicationInit
  <2>2. pair \in [Run -> [Doc -> Places \union {NoDoc}]]
    BY DEF PublicationInit, NoPairs, NoFiles
  <2>3. /\ pc \in [Run -> Publishing \union {"waiting", "over"}]
        /\ todo \in [Run -> SUBSET Doc] /\ overlap \subseteq Run /\ torn \in BOOLEAN
    BY DEF PublicationInit
  <2>4. last \in 0 .. MaxRuns
    BY PublicationAssumption DEF PublicationInit
  <2>5. QED
    BY <1>3, <2>1, <2>2, <2>3, <2>4 DEF PublicationTypeOK
<1>5. MadeOnce /\ TodoIsTarget /\ PairsHold /\ TargetsPaired /\ ScratchIsOwn /\ TargetsHeld
  BY DEF PublicationInit, MadeOnce, TodoIsTarget, PairsHold, TargetsPaired, ScratchIsOwn,
     TargetsHeld, NoFiles, NoPairs
<1>6. RowsReadTheirBytes
  BY <1>2, Reading DEF RowsReadTheirBytes
<1>7. QED
  BY <1>4, <1>5, <1>6 DEF PublicationInv

-----------------------------------------------------------------------------
(* What a step can do. *)

\* A run's own copies are written by its pipeline only.
LEMMA OwnChanges ==
  ASSUME [PublicationNext]_publicationVars, own' # own
  PROVE  \E r \in Run : PipelineReturns(r)
BY DEF PublicationNext, publicationVars, FindHolders, KeepCopy, StageFile, MoveRows,
   SwapFile, NextPhase, RegisterArtifact, PublicationFails, PublisherDies, copies

\* A retained copy is written by the publication that makes it.
LEMMA KeptChanges ==
  ASSUME [PublicationNext]_publicationVars, kept' # kept
  PROVE  \E r \in Run : KeepCopy(r)
BY DEF PublicationNext, publicationVars, PipelineReturns, FindHolders, StageFile, MoveRows,
   SwapFile, NextPhase, RegisterArtifact, PublicationFails, PublisherDies, copies

\* The root is written by a rename only.
LEMMA RootChanges ==
  ASSUME [PublicationNext]_publicationVars, root' # root
  PROVE  \E r \in Run : SwapFile(r)
BY DEF PublicationNext, publicationVars, PipelineReturns, FindHolders, KeepCopy, StageFile,
   MoveRows, NextPhase, RegisterArtifact, PublicationFails, PublisherDies, copies

\* Rows are moved or registered.
LEMMA RowsChange ==
  ASSUME [PublicationNext]_publicationVars, rows' # rows
  PROVE  \E r \in Run : MoveRows(r) \/ RegisterArtifact(r)
BY DEF PublicationNext, publicationVars, PipelineReturns, FindHolders, KeepCopy, StageFile,
   SwapFile, NextPhase, PublicationFails, PublisherDies

\* A copy once made keeps its bytes.
LEMMA CopiesStay ==
  ASSUME PublicationInv, [PublicationNext]_publicationVars, NEW s \in Run, NEW d \in Doc
  PROVE  /\ own[s][d] # NoDoc => own'[s][d] = own[s][d]
         /\ kept[s][d] # NoDoc => kept'[s][d] = kept[s][d]
<1> USE DEF PublicationInv, PublicationTypeOK, MadeOnce
<1>1. ASSUME NEW r \in Run, PipelineReturns(r), own[s][d] # NoDoc
      PROVE  own'[s][d] = own[s][d]
  BY <1>1 DEF PipelineReturns, NoFiles
<1>2. ASSUME NEW r \in Run, KeepCopy(r), kept[s][d] # NoDoc
      PROVE  kept'[s][d] = kept[s][d]
  <2>1. PICK e \in Doc : Does(r, e, "keep") /\ kept' = [kept EXCEPT ![r][e] = root[e]]
    BY <1>2 DEF KeepCopy
  <2>2. s # r \/ d # e
    BY <1>2, <2>1 DEF Does
  <2>3. QED
    BY <2>1, <2>2
<1>3. QED
  BY <1>1, <1>2, OwnChanges, KeptChanges

\* A place other than the root reads the same once it reads anything.
LEMMA ReadingStays ==
  ASSUME PublicationInv, [PublicationNext]_publicationVars,
         NEW place \in Places \ {Root}, NEW d \in Doc, Read(place, d) # NoDoc
  PROVE  Read(place, d)' = Read(place, d)
<1>1. CASE \E s \in Run : place = Own(s)
  BY <1>1, Reading, CopiesStay
<1>2. CASE \E s \in Run : place = Retained(s)
  BY <1>2, Reading, CopiesStay
<1>3. QED
  BY <1>1, <1>2, KindsOfPlace

\* A renamed file was a target, and is the copy that waited beside it.
LEMMA RootBecomesScratch ==
  ASSUME PublicationInv, [PublicationNext]_publicationVars, NEW d \in Doc, root'[d] # root[d]
  PROVE  /\ root'[d] = scratch[d] /\ scratch[d] # NoDoc
         /\ \E r \in Run : pc[r] = "swap" /\ d \in todo[r] /\ d \in Targets(r)
<1>1. PICK r \in Run : SwapFile(r)
  BY RootChanges
<1>2. PICK e \in Doc : /\ scratch[e] # NoDoc /\ Does(r, e, "swap")
                       /\ root' = [root EXCEPT ![e] = scratch[e]]
  BY <1>1 DEF SwapFile
<1>3. e = d
  BY <1>2 DEF PublicationInv, PublicationTypeOK
<1>4. QED
  BY <1>2, <1>3 DEF Does, PublicationInv, PublicationTypeOK, TodoIsTarget

\* No row ever comes to name the root.
LEMMA RootRowsShrink ==
  ASSUME PublicationInv, [PublicationNext]_publicationVars, NEW row \in rows',
         row.place = Root
  PROVE  row \in rows
<1> SUFFICES ASSUME rows' # rows PROVE row \in rows
  OBVIOUS
<1>1. ASSUME NEW r \in Run, MoveRows(r) PROVE row \in rows
  <2>1. PICK old \in rows : row = Moved(r, old)
    BY <1>1 DEF MoveRows, MovedRows
  <2>2. old \in [doc : Doc, place : Places, bytes : Bytes]
    BY DEF PublicationInv, PublicationTypeOK
  <2>3. CASE old.place = Root /\ pair[r][old.doc] # NoDoc
    <3>1. row.place = pair[r][old.doc]
      BY <2>1, <2>2, <2>3 DEF Moved
    <3>2. QED
      BY <2>2, <2>3, <3>1 DEF PublicationInv, PairsHold
  <2>4. CASE ~ (old.place = Root /\ pair[r][old.doc] # NoDoc)
    BY <2>1, <2>4 DEF Moved
  <2>5. QED
    BY <2>3, <2>4
<1>2. ASSUME NEW r \in Run, RegisterArtifact(r) PROVE row \in rows
  <2>1. PICK d \in Doc :
           rows' = rows \union {[doc |-> d, place |-> Own(r), bytes |-> own[r][d]]}
    BY <1>2 DEF RegisterArtifact
  <2>2. QED
    BY <2>1, PlacesDiffer
<1>3. QED
  BY <1>1, <1>2, RowsChange

\* As long as some row names the root copy, that copy is there and stays.
LEMMA RootRowWas ==
  ASSUME PublicationInv, [PublicationNext]_publicationVars, NEW d \in Doc, RootRow(d)'
  PROVE  RootRow(d) /\ root[d] # NoDoc /\ root'[d] = root[d]
<1>1. PICK row \in rows' : row.doc = d /\ row.place = Root
  BY DEF RootRow
<1>2. row \in rows
  BY <1>1, RootRowsShrink
<1>3. RootRow(d)
  BY <1>1, <1>2 DEF RootRow
<1>4. root[d] = row.bytes /\ row.bytes \in Bytes
  BY <1>1, <1>2, Reading DEF PublicationInv, PublicationTypeOK, RowsReadTheirBytes
<1>5. root'[d] = root[d]
  BY <1>3, RootBecomesScratch DEF PublicationInv, TargetsPaired
<1>6. QED
  BY <1>3, <1>4, <1>5, PublicationAssumption

\* What a step does to one run: nothing, one of its own actions, or its end.
Idle(r)  == pc'[r] = pc[r] /\ todo'[r] = todo[r] /\ pair'[r] = pair[r] /\ own'[r] = own[r]
Stops(r) == /\ pc'[r] = "over" /\ todo'[r] = {} /\ pair'[r] = NoPairs /\ own'[r] = own[r]
            /\ UNCHANGED kept

\* There is nothing else a step can do to it.
LEMMA StepsOfRun ==
  ASSUME PublicationTypeOK, [PublicationNext]_publicationVars, NEW r \in Run
  PROVE  \/ Idle(r) \/ Stops(r)
         \/ PipelineReturns(r) \/ FindHolders(r) \/ KeepCopy(r) \/ StageFile(r)
         \/ MoveRows(r) \/ SwapFile(r) \/ NextPhase(r) \/ RegisterArtifact(r)
<1> USE DEF PublicationTypeOK, Idle, Stops
<1>1. CASE UNCHANGED publicationVars
  BY <1>1 DEF publicationVars
<1>2. ASSUME NEW q \in Run, q # r, PipelineReturns(q) \/ FindHolders(q) \/ KeepCopy(q)
      PROVE  Idle(r)
  BY <1>2 DEF PipelineReturns, FindHolders, KeepCopy, Phase, Does, copies
<1>3. ASSUME NEW q \in Run, q # r, StageFile(q) \/ MoveRows(q) \/ SwapFile(q)
      PROVE  Idle(r)
  BY <1>3 DEF StageFile, MoveRows, SwapFile, Phase, Does, copies
<1>4. ASSUME NEW q \in Run, q # r, NextPhase(q) \/ RegisterArtifact(q)
      PROVE  Idle(r)
  BY <1>4 DEF NextPhase, RegisterArtifact, Phase, Does, copies
<1>5. ASSUME NEW q \in Run, q # r, PublicationFails(q) \/ PublisherDies(q)
      PROVE  Idle(r)
  BY <1>5 DEF PublicationFails, PublisherDies, Phase, copies
<1>6. CASE PublicationFails(r) \/ PublisherDies(r)
  BY <1>6 DEF PublicationFails, PublisherDies, Phase, copies
<1>7. QED
  BY <1>1, <1>2, <1>3, <1>4, <1>5, <1>6 DEF PublicationNext

-----------------------------------------------------------------------------
(* Every step keeps the invariant. *)

\* The types of the variables.
LEMMA PublicationTypesStay ==
  ASSUME PublicationInv, [PublicationNext]_publicationVars PROVE PublicationTypeOK'
<1> USE DEF PublicationInv, PublicationTypeOK, Publishing
<1>1. ASSUME NEW r \in Run, PipelineReturns(r) PROVE PublicationTypeOK'
  BY <1>1 DEF PipelineReturns, Phase, fate
<1>2. ASSUME NEW r \in Run, FindHolders(r) PROVE PublicationTypeOK'
  <2>1. pair' \in [Run -> [Doc -> Places \union {NoDoc}]]
    BY <1>2 DEF FindHolders
  <2>2. todo' \in [Run -> SUBSET Doc]
    BY <1>2 DEF FindHolders, Phase, Targets
  <2>3. QED
    BY <1>2, <2>1, <2>2 DEF FindHolders, Phase, copies, fate
<1>3. ASSUME NEW r \in Run, KeepCopy(r) PROVE PublicationTypeOK'
  <2>1. Retained(r) \in Places
    BY PlacesDiffer
  <2>2. QED
    BY <1>3, <2>1 DEF KeepCopy, Does, fate
<1>4. ASSUME NEW r \in Run, StageFile(r) \/ SwapFile(r) PROVE PublicationTypeOK'
  <2>1. scratch' \in [Doc -> Bytes \union {NoDoc}] /\ root' \in [Doc -> Bytes \union {NoDoc}]
    <3>1. CASE StageFile(r)
      <4>1. PICK d \in Doc : scratch' = [scratch EXCEPT ![d] = own[r][d]] /\ UNCHANGED root
        BY <3>1 DEF StageFile
      <4>2. own[r][d] \in Bytes \union {NoDoc}
        OBVIOUS
      <4>3. QED
        BY <4>1, <4>2
    <3>2. CASE SwapFile(r)
      BY <3>2 DEF SwapFile
    <3>3. QED
      BY <1>4, <3>1, <3>2
  <2>2. UNCHANGED <<own, kept, rows, pc, pair, last, overlap, torn>>
    BY <1>4 DEF StageFile, SwapFile, Does, fate
  <2>4. todo' \in [Run -> SUBSET Doc]
    <3>1. PICK d \in Doc : todo' = [todo EXCEPT ![r] = todo[r] \ {d}]
      BY <1>4 DEF StageFile, SwapFile, Does
    <3>2. QED
      BY <3>1
  <2>5. QED
    BY <2>1, <2>2, <2>4
<1>5. ASSUME NEW r \in Run, MoveRows(r) PROVE PublicationTypeOK'
  <2>1. rows' \subseteq [doc : Doc, place : Places, bytes : Bytes]
    <3>1. ASSUME NEW row \in rows
          PROVE  Moved(r, row) \in [doc : Doc, place : Places, bytes : Bytes]
      <4>1. row \in [doc : Doc, place : Places, bytes : Bytes]
        OBVIOUS
      <4>2. pair[r][row.doc] \in Places \union {NoDoc}
        BY <4>1
      <4>3. QED
        BY <4>1, <4>2 DEF Moved
    <3>2. QED
      BY <1>5, <3>1 DEF MoveRows, MovedRows
  <2>2. pair' \in [Run -> [Doc -> Places \union {NoDoc}]]
    BY <1>5 DEF MoveRows, NoPairs, NoFiles
  <2>3. todo' \in [Run -> SUBSET Doc]
    BY <1>5 DEF MoveRows, Phase, Targets
  <2>4. QED
    BY <1>5, <2>1, <2>2, <2>3 DEF MoveRows, Phase, copies, fate
<1>6. ASSUME NEW r \in Run, NextPhase(r) PROVE PublicationTypeOK'
  <2>1. todo' \in [Run -> SUBSET Doc]
    <3>1. Targets(r) \in SUBSET Doc
      BY DEF Targets
    <3>2. todo' = [todo EXCEPT ![r] = Targets(r)] \/ todo' = [todo EXCEPT ![r] = {}]
      BY <1>6 DEF NextPhase, Phase
    <3>3. QED
      BY <3>1, <3>2
  <2>2. pc' \in [Run -> Publishing \union {"waiting", "over"}]
    BY <1>6 DEF NextPhase, Phase
  <2>3. last' \in 0 .. MaxRuns
    BY <1>6 DEF NextPhase, fate, Run
  <2>4. overlap' \subseteq Run
    BY <1>6 DEF NextPhase, fate, Replacing
  <2>5. torn' \in BOOLEAN
    <3>1. torn' = torn \/ torn' = (r \in overlap)
      BY <1>6 DEF NextPhase, fate
    <3>2. CASE r \in overlap
      <4>1. (r \in overlap) = TRUE
        BY <3>2
      <4>2. QED
        BY <3>1, <4>1
    <3>3. CASE r \notin overlap
      <4>1. (r \in overlap) = FALSE
        BY <3>3
      <4>2. QED
        BY <3>1, <4>1
    <3>4. QED
      BY <3>2, <3>3
  <2>6. QED
    BY <1>6, <2>1, <2>2, <2>3, <2>4, <2>5 DEF NextPhase, copies
<1>7. ASSUME NEW r \in Run, RegisterArtifact(r) PROVE PublicationTypeOK'
  <2>1. PICK d \in Doc :
           /\ Does(r, d, "register")
           /\ rows' = rows \union {[doc |-> d, place |-> Own(r), bytes |-> own[r][d]]}
           /\ UNCHANGED <<copies, pair, fate>>
    BY <1>7 DEF RegisterArtifact
  <2>2. own[r][d] \in Bytes
    BY <2>1 DEF Does, TodoIsTarget, Targets
  <2>3. [doc |-> d, place |-> Own(r), bytes |-> own[r][d]]
          \in [doc : Doc, place : Places, bytes : Bytes]
    BY <2>2, PlacesDiffer
  <2>4. QED
    BY <2>1, <2>3 DEF Does, copies, fate
<1>8. ASSUME NEW r \in Run, PublicationFails(r) \/ PublisherDies(r) PROVE PublicationTypeOK'
  <2>1. scratch' \in [Doc -> Bytes \union {NoDoc}]
    BY <1>8 DEF PublicationFails, PublisherDies, copies
  <2>2. pair' \in [Run -> [Doc -> Places \union {NoDoc}]]
    <3>1. NoPairs \in [Doc -> Places \union {NoDoc}]
      BY DEF NoPairs, NoFiles
    <3>2. pair' = [pair EXCEPT ![r] = NoPairs]
      BY <1>8 DEF PublicationFails, PublisherDies
    <3>3. QED
      BY <3>1, <3>2
  <2>3. torn' \in BOOLEAN
    BY <1>8 DEF PublicationFails, PublisherDies, Torn
  <2>4. QED
    BY <1>8, <2>1, <2>2, <2>3 DEF PublicationFails, PublisherDies, Phase, copies
<1>9. CASE UNCHANGED publicationVars
  BY <1>9 DEF publicationVars
<1>10. QED
  BY <1>1, <1>2, <1>3, <1>4, <1>5, <1>6, <1>7, <1>8, <1>9 DEF PublicationNext

\* A run's documents are its own copy's, fixed once its pipeline returned.
LEMMA TargetsStay ==
  ASSUME PublicationTypeOK, [PublicationNext]_publicationVars, NEW r \in Run,
         pc[r] # "waiting"
  PROVE  own'[r] = own[r] /\ Targets(r)' = Targets(r)
<1>1. own'[r] = own[r]
  BY OwnChanges DEF PipelineReturns, PublicationTypeOK
<1>2. QED
  BY <1>1 DEF Targets

\* A phase is given targets, and loses them one by one.
LEMMA TodosStay == ASSUME PublicationInv, [PublicationNext]_publicationVars PROVE TodoIsTarget'
<1> SUFFICES ASSUME NEW r \in Run PROVE todo'[r] \subseteq Targets(r)'
  BY DEF TodoIsTarget
<1> USE DEF PublicationInv, PublicationTypeOK, TodoIsTarget
<1>1. CASE Idle(r) \/ Stops(r)
  BY <1>1 DEF Idle, Stops, Targets
<1>2. CASE PipelineReturns(r)
  BY <1>2 DEF PipelineReturns, Phase
<1>3. CASE FindHolders(r)
  BY <1>3, TargetsStay DEF FindHolders, Phase
<1>4. CASE KeepCopy(r) \/ StageFile(r) \/ SwapFile(r) \/ RegisterArtifact(r)
  BY <1>4, TargetsStay DEF KeepCopy, StageFile, SwapFile, RegisterArtifact, Does
<1>5. CASE MoveRows(r) \/ NextPhase(r)
  BY <1>5, TargetsStay DEF MoveRows, NextPhase, Phase
<1>6. QED
  BY <1>1, <1>2, <1>3, <1>4, <1>5, StepsOfRun

\* A copy is made by the phase that makes it, and not before.
LEMMA MadeOnceStays == ASSUME PublicationInv, [PublicationNext]_publicationVars PROVE MadeOnce'
<1> USE DEF PublicationInv, PublicationTypeOK
<1> SUFFICES ASSUME NEW r \in Run
             PROVE  /\ pc'[r] = "waiting" => own'[r] = NoFiles
                    /\ \A d \in Doc :
                         \/ pc'[r] \in {"waiting", "find"}
                         \/ pc'[r] = "keep" /\ d \in todo'[r]
                         => kept'[r][d] = NoDoc
  BY DEF MadeOnce, NoFiles
<1>1. CASE Idle(r)
  <2>1. pc[r] # "keep" => kept'[r] = kept[r]
    BY KeptChanges DEF KeepCopy, Does
  <2>2. pc[r] = "keep" => kept'[r] = kept[r]
    <3>1. ASSUME NEW q \in Run, KeepCopy(q) PROVE q # r
      BY <1>1, <3>1 DEF KeepCopy, Does, Idle
    <3>2. QED
      BY <3>1, KeptChanges DEF KeepCopy
  <2>3. QED
    BY <1>1, <2>1, <2>2 DEF Idle, MadeOnce
<1>2. CASE Stops(r)
  BY <1>2 DEF Stops
<1>3. CASE PipelineReturns(r)
  BY <1>3 DEF PipelineReturns, Phase, MadeOnce
<1>4. CASE FindHolders(r)
  BY <1>4 DEF FindHolders, Phase, copies, MadeOnce
<1>5. CASE KeepCopy(r)
  BY <1>5 DEF KeepCopy, Does, MadeOnce
<1>6. CASE StageFile(r) \/ SwapFile(r) \/ RegisterArtifact(r)
  BY <1>6 DEF StageFile, SwapFile, RegisterArtifact, Does
<1>7. CASE MoveRows(r) \/ NextPhase(r)
  BY <1>7 DEF MoveRows, NextPhase, Phase
<1>8. QED
  BY <1>1, <1>2, <1>3, <1>4, <1>5, <1>6, <1>7, StepsOfRun

\* A pair is made on what it reads, and stays right as long as it matters.
LEMMA PairsStay == ASSUME PublicationInv, [PublicationNext]_publicationVars PROVE PairsHold'
<1> USE DEF PublicationInv, PublicationTypeOK
<1> SUFFICES ASSUME NEW r \in Run, NEW d \in Doc, pair'[r][d] # NoDoc
             PROVE  /\ pair'[r][d] \in Places \ {Root}
                    /\ RootRow(d)' => Read(pair[r][d], d)' = root'[d]
  BY DEF PairsHold
<1>1. CASE pair'[r][d] = pair[r][d]
  <2>1. pair[r][d] \in Places \ {Root}
    BY <1>1 DEF PairsHold
  <2>2. ASSUME RootRow(d)' PROVE Read(pair[r][d], d)' = root'[d]
    <3>1. RootRow(d) /\ root[d] # NoDoc /\ root'[d] = root[d]
      BY <2>2, RootRowWas
    <3>2. Read(pair[r][d], d) = root[d]
      BY <1>1, <3>1 DEF PairsHold
    <3>3. PICK place \in Places \ {Root} : place = pair[r][d]
      BY <2>1
    <3>4. Read(place, d)' = Read(place, d)
      BY <3>1, <3>2, <3>3, ReadingStays
    <3>5. Read(pair[r][d], d)' = Read(place, d)'
      BY <1>1, <3>3 DEF Read
    <3>6. QED
      BY <3>1, <3>2, <3>3, <3>4, <3>5
  <2>3. QED
    BY <1>1, <2>1, <2>2
<1>2. CASE FindHolders(r)
  <2>1. pair'[r][d] \in Holders(d)
    BY <1>2 DEF FindHolders
  <2>2. UNCHANGED <<root, own, kept>>
    BY <1>2 DEF FindHolders, copies
  <2>3. QED
    BY <2>1, <2>2 DEF Holders, Read
<1>3. CASE KeepCopy(r)
  <2>1. PICK e \in Doc : /\ kept' = [kept EXCEPT ![r][e] = root[e]]
                         /\ pair' = [pair EXCEPT ![r][e] = Retained(r)]
                         /\ UNCHANGED root
    BY <1>3 DEF KeepCopy
  <2>2. CASE d = e
    <3>1. pair'[r][d] = Retained(r) /\ kept'[r][d] = root'[d]
      BY <2>1, <2>2
    <3>2. Read(pair[r][d], d)' = kept'[r][d]
      BY <3>1 DEF Read, Retained
    <3>3. QED
      BY <3>1, <3>2, PlacesDiffer
  <2>3. CASE d # e
    BY <1>1, <2>1, <2>3
  <2>4. QED
    BY <2>2, <2>3
<1>4. CASE Stops(r)
  BY <1>4 DEF Stops, NoPairs, NoFiles
<1>5. CASE MoveRows(r)
  BY <1>5 DEF MoveRows, NoPairs, NoFiles
<1>6. CASE \/ Idle(r) \/ PipelineReturns(r) \/ StageFile(r) \/ SwapFile(r) \/ NextPhase(r)
           \/ RegisterArtifact(r)
  BY <1>1, <1>6 DEF Idle, PipelineReturns, StageFile, SwapFile, NextPhase, RegisterArtifact
<1>7. QED
  BY <1>2, <1>3, <1>4, <1>5, <1>6, StepsOfRun

\* Rows that are about to lose their document are never left without a pair.
LEMMA TargetsStayPaired ==
  ASSUME PublicationInv, [PublicationNext]_publicationVars PROVE TargetsPaired'
<1> USE DEF PublicationInv, PublicationTypeOK
<1> SUFFICES ASSUME NEW r \in Run, NEW d \in Targets(r)', RootRow(d)'
             PROVE  /\ pc'[r] \in {"stage", "rows"} => pair'[r][d] # NoDoc
                    /\ pc'[r] = "keep" => pair'[r][d] # NoDoc \/ d \in todo'[r]
                    /\ pc'[r] # "swap"
  BY DEF TargetsPaired
<1>1. d \in Doc
  BY DEF Targets
<1>2. RootRow(d) /\ root[d] # NoDoc
  BY <1>1, RootRowWas
<1>3. CASE Idle(r)
  BY <1>2, <1>3 DEF Idle, Targets, TargetsPaired
<1>4. CASE Stops(r)
  BY <1>4 DEF Stops
<1>5. CASE PipelineReturns(r)
  BY <1>5 DEF PipelineReturns, Phase
<1>6. CASE FindHolders(r)
  <2>1. d \in Targets(r)
    BY <1>6, TargetsStay DEF FindHolders
  <2>2. /\ pc'[r] = "keep"
        /\ todo'[r] = {e \in Targets(r) : root[e] # NoDoc}
                        \ {e \in {f \in Targets(r) : root[f] # NoDoc} : Holders(e) # {}}
    BY <1>6 DEF FindHolders, Phase
  <2>3. CASE Holders(d) = {}
    BY <1>2, <2>1, <2>2, <2>3
  <2>4. CASE Holders(d) # {}
    <3>1. pair'[r][d] \in Holders(d)
      BY <1>1, <1>2, <1>6, <2>1, <2>4 DEF FindHolders
    <3>2. pair'[r][d] # NoDoc
      BY <3>1, PlaceAssumption DEF Holders
    <3>3. QED
      BY <2>2, <3>2
  <2>5. QED
    BY <2>3, <2>4
<1>7. CASE KeepCopy(r)
  <2>1. PICK e \in Doc : Does(r, e, "keep") /\ pair' = [pair EXCEPT ![r][e] = Retained(r)]
    BY <1>7 DEF KeepCopy
  <2>2. d \in Targets(r)
    BY <2>1, TargetsStay DEF Does
  <2>3. Retained(r) # NoDoc
    BY PlacesDiffer, PlaceAssumption
  <2>4. QED
    BY <1>1, <1>2, <2>1, <2>2, <2>3 DEF Does, TargetsPaired
<1>8. CASE StageFile(r) \/ SwapFile(r) \/ RegisterArtifact(r)
  <2>1. pc'[r] = pc[r] /\ pc[r] \in {"stage", "swap", "register"} /\ UNCHANGED pair
    BY <1>8 DEF StageFile, SwapFile, RegisterArtifact, Does
  <2>2. d \in Targets(r)
    BY <2>1, TargetsStay
  <2>3. QED
    BY <1>2, <2>1, <2>2 DEF TargetsPaired
<1>9. CASE NextPhase(r)
  <2>1. /\ todo[r] = {} /\ UNCHANGED pair
        /\ \/ pc[r] = "keep" /\ pc'[r] = "stage"
           \/ pc[r] = "stage" /\ pc'[r] = "rows"
           \/ pc[r] \in {"swap", "register"} /\ pc'[r] \in {"register", "over"}
    BY <1>9 DEF NextPhase, Phase
  <2>2. d \in Targets(r)
    BY <2>1, TargetsStay
  <2>3. QED
    BY <1>2, <2>1, <2>2 DEF TargetsPaired
<1>10. CASE MoveRows(r)
  <2>1. d \in Targets(r)
    BY <1>10, TargetsStay DEF MoveRows
  <2>2. pair[r][d] # NoDoc
    BY <1>2, <1>10, <2>1 DEF MoveRows, TargetsPaired
  <2>3. PICK row \in rows' : row.doc = d /\ row.place = Root
    BY DEF RootRow
  <2>4. PICK old \in rows : row = Moved(r, old)
    BY <1>10, <2>3 DEF MoveRows, MovedRows
  <2>5. old \in [doc : Doc, place : Places, bytes : Bytes]
    OBVIOUS
  <2>6. CASE old.place = Root /\ pair[r][old.doc] # NoDoc
    <3>1. row.place = pair[r][old.doc]
      BY <2>4, <2>5, <2>6 DEF Moved
    <3>2. QED
      BY <2>3, <2>5, <2>6, <3>1 DEF PairsHold
  <2>7. CASE ~ (old.place = Root /\ pair[r][old.doc] # NoDoc)
    BY <2>2, <2>3, <2>4, <2>7 DEF Moved
  <2>8. QED
    BY <2>6, <2>7
<1>11. QED
  BY <1>3, <1>4, <1>5, <1>6, <1>7, <1>8, <1>9, <1>10, StepsOfRun

\* What is staged is the run's own copy, which stays.
LEMMA ScratchStays == ASSUME PublicationInv, [PublicationNext]_publicationVars PROVE ScratchIsOwn'
<1> USE DEF PublicationInv, PublicationTypeOK
<1> SUFFICES ASSUME NEW d \in Doc, scratch'[d] # NoDoc
             PROVE  \E s \in Run : own'[s][d] = scratch'[d]
  BY DEF ScratchIsOwn
<1>1. CASE scratch'[d] = scratch[d]
  BY <1>1, CopiesStay DEF ScratchIsOwn
<1>2. ASSUME NEW r \in Run, StageFile(r) PROVE \E s \in Run : own'[s][d] = scratch'[d]
  <2>1. PICK e \in Doc : scratch' = [scratch EXCEPT ![e] = own[r][e]] /\ UNCHANGED own
    BY <1>2 DEF StageFile
  <2>2. QED
    BY <1>1, <2>1
<1>3. ASSUME NEW r \in Run, SwapFile(r) PROVE scratch'[d] = scratch[d]
  BY <1>3 DEF SwapFile
<1>4. ASSUME NEW r \in Run, PublicationFails(r) PROVE scratch'[d] = scratch[d]
  BY <1>4 DEF PublicationFails
<1>5. ASSUME NEW r \in Run,
             \/ PipelineReturns(r) \/ FindHolders(r) \/ KeepCopy(r) \/ MoveRows(r)
             \/ NextPhase(r) \/ RegisterArtifact(r) \/ PublisherDies(r)
      PROVE  scratch'[d] = scratch[d]
  BY <1>5 DEF PipelineReturns, FindHolders, KeepCopy, MoveRows, NextPhase,
     RegisterArtifact, PublisherDies, copies
<1>6. CASE UNCHANGED publicationVars
  BY <1>1, <1>6 DEF publicationVars
<1>7. QED
  BY <1>1, <1>2, <1>3, <1>4, <1>5, <1>6 DEF PublicationNext

\* A document that is held elsewhere stays held, whoever replaces it.
LEMMA HeldStays ==
  ASSUME PublicationInv, [PublicationNext]_publicationVars, NEW d \in Doc, root'[d] # NoDoc,
         root'[d] = root[d] => Holders(d) # {}
  PROVE  Holders(d)' # {}
<1>1. CASE root'[d] = root[d]
  <2>1. PICK place \in Places \ {Root} : Read(place, d) = root[d]
    BY <1>1 DEF Holders
  <2>2. Read(place, d)' = root'[d]
    BY <1>1, <2>1, ReadingStays
  <2>3. QED
    BY <2>2 DEF Holders, Places, Own, Retained, Root
<1>2. CASE root'[d] # root[d]
  <2>1. root'[d] = scratch[d] /\ scratch[d] # NoDoc
    BY <1>2, RootBecomesScratch
  <2>2. PICK s \in Run : own[s][d] = scratch[d]
    BY <2>1 DEF PublicationInv, ScratchIsOwn
  <2>3. own'[s][d] = root'[d]
    BY <2>1, <2>2, CopiesStay
  <2>4. Read(Own(s), d)' = root'[d] /\ Own(s) \in Places /\ Own(s) # Root
    BY <2>3, Reading, PlacesDiffer
  <2>5. QED
    BY <2>4 DEF Holders, Places, Own, Retained, Root
<1>3. QED
  BY <1>1, <1>2

\* The copies are complete before the first document is replaced.
LEMMA TargetsStayHeld ==
  ASSUME PublicationInv, [PublicationNext]_publicationVars PROVE TargetsHeld'
<1> USE DEF PublicationInv, PublicationTypeOK
<1> SUFFICES ASSUME NEW r \in Run, NEW d \in Targets(r)', root'[d] # NoDoc,
                    \/ pc'[r] \in {"stage", "rows", "swap"}
                    \/ pc'[r] = "keep" /\ d \notin todo'[r]
             PROVE  Holders(d)' # {}
  BY DEF TargetsHeld
<1>1. d \in Doc
  BY DEF Targets
<1> DEFINE WasCovered ==
      \/ pc[r] \in {"stage", "rows", "swap"}
      \/ pc[r] = "keep" /\ d \notin todo[r]
<1>2. ASSUME d \in Targets(r), WasCovered PROVE Holders(d)' # {}
  <2>1. root'[d] = root[d] => Holders(d) # {}
    BY <1>2 DEF TargetsHeld
  <2>2. QED
    BY <1>1, <2>1, HeldStays
<1>3. CASE Idle(r)
  BY <1>2, <1>3 DEF Idle, Targets
<1>4. CASE Stops(r)
  BY <1>4 DEF Stops
<1>5. CASE PipelineReturns(r)
  BY <1>5 DEF PipelineReturns, Phase
<1>6. CASE FindHolders(r)
  <2>1. d \in Targets(r)
    BY <1>6, TargetsStay DEF FindHolders
  <2>2. root' = root
    BY <1>6 DEF FindHolders, copies
  <2>3. /\ pc'[r] = "keep"
        /\ todo'[r] = {e \in Targets(r) : root[e] # NoDoc}
                        \ {e \in {f \in Targets(r) : root[f] # NoDoc} : Holders(e) # {}}
    BY <1>6 DEF FindHolders, Phase
  <2>4. Holders(d) # {}
    BY <2>1, <2>2, <2>3
  <2>5. QED
    BY <1>1, <2>4, HeldStays
<1>7. CASE KeepCopy(r)
  <2>1. PICK e \in Doc : /\ Does(r, e, "keep") /\ kept' = [kept EXCEPT ![r][e] = root[e]]
                         /\ UNCHANGED root
    BY <1>7 DEF KeepCopy
  <2>2. CASE d = e
    <3>1. kept'[r][d] = root'[d]
      BY <1>1, <2>1, <2>2
    <3>2. Read(Retained(r), d)' = root'[d] /\ Retained(r) \in Places /\ Retained(r) # Root
      BY <1>1, <3>1, Reading, PlacesDiffer
    <3>3. QED
      BY <3>2 DEF Holders, Places, Own, Retained, Root
  <2>3. CASE d # e
    <3>1. d \in Targets(r)
      BY <2>1, TargetsStay DEF Does
    <3>2. WasCovered
      BY <1>1, <2>1, <2>3 DEF Does
    <3>3. QED
      BY <1>2, <3>1, <3>2
  <2>4. QED
    BY <2>2, <2>3
<1>8. CASE StageFile(r) \/ SwapFile(r) \/ RegisterArtifact(r)
  <2>1. pc'[r] = pc[r] /\ pc[r] \in {"stage", "swap", "register"}
    BY <1>8 DEF StageFile, SwapFile, RegisterArtifact, Does
  <2>2. d \in Targets(r)
    BY <2>1, TargetsStay
  <2>3. QED
    BY <1>2, <2>1, <2>2
<1>9. CASE NextPhase(r) \/ MoveRows(r)
  <2>1. \/ pc[r] = "keep" /\ todo[r] = {} /\ pc'[r] = "stage"
        \/ pc[r] \in {"stage", "rows", "swap"}
        \/ pc'[r] = "over"
    BY <1>9 DEF NextPhase, MoveRows, Phase
  <2>2. d \in Targets(r)
    BY <2>1, TargetsStay
  <2>3. QED
    BY <1>2, <2>1, <2>2
<1>10. QED
  BY <1>3, <1>4, <1>5, <1>6, <1>7, <1>8, <1>9, StepsOfRun

\* A row that stays, moves along a pair or is new reads what it recorded.
LEMMA RowsStayReadable ==
  ASSUME PublicationInv, [PublicationNext]_publicationVars PROVE RowsReadTheirBytes'
<1> USE DEF PublicationInv, PublicationTypeOK
<1> SUFFICES ASSUME NEW row \in rows' PROVE Read(row.place, row.doc)' = row.bytes
  BY DEF RowsReadTheirBytes, Read
<1>1. ASSUME NEW place \in Places \ {Root}, NEW d \in Doc, NEW bytes \in Bytes,
             Read(place, d) = bytes
      PROVE  Read(place, d)' = bytes
  BY <1>1, PublicationAssumption, ReadingStays
<1>2. CASE row \in rows
  <2>1. PICK place \in Places, d \in Doc, bytes \in Bytes :
           place = row.place /\ d = row.doc /\ bytes = row.bytes
    BY <1>2
  <2>2. Read(place, d) = bytes
    BY <1>2, <2>1 DEF RowsReadTheirBytes
  <2>3. CASE place = Root
    <3>1. RootRow(d)'
      BY <2>1, <2>3 DEF RootRow, Root
    <3>2. root'[d] = bytes
      BY <2>2, <2>3, <3>1, RootRowWas, Reading
    <3>3. Read(place, d)' = bytes
      BY <2>3, <3>2, Reading
    <3>4. QED
      BY <2>1, <3>3 DEF Read
  <2>4. CASE place # Root
    <3>1. Read(place, d)' = bytes
      BY <1>1, <2>2, <2>4
    <3>2. QED
      BY <2>1, <3>1 DEF Read
  <2>5. QED
    BY <2>3, <2>4
<1>3. ASSUME NEW r \in Run, RegisterArtifact(r), row \notin rows
      PROVE  Read(row.place, row.doc)' = row.bytes
  <2>1. PICK d \in Doc : /\ Does(r, d, "register") /\ UNCHANGED own
                         /\ row = [doc |-> d, place |-> Own(r), bytes |-> own[r][d]]
    BY <1>3 DEF RegisterArtifact, copies
  <2>2. Read(Own(r), d)' = own[r][d]
    BY <2>1, Reading
  <2>3. QED
    BY <2>1, <2>2 DEF Read
<1>4. ASSUME NEW r \in Run, MoveRows(r), row \notin rows
      PROVE  Read(row.place, row.doc)' = row.bytes
  <2>1. PICK old \in rows : row = Moved(r, old)
    BY <1>4 DEF MoveRows, MovedRows
  <2>2. old \in [doc : Doc, place : Places, bytes : Bytes]
    OBVIOUS
  <2>3. old.place = Root /\ pair[r][old.doc] # NoDoc
    BY <1>4, <2>1 DEF Moved
  <2>4. row.place = pair[r][old.doc] /\ row.doc = old.doc /\ row.bytes = old.bytes
    BY <2>1, <2>2, <2>3 DEF Moved
  <2>5. PICK place \in Places \ {Root}, d \in Doc, bytes \in Bytes :
           place = row.place /\ d = row.doc /\ bytes = row.bytes
    BY <2>2, <2>3, <2>4 DEF PairsHold
  <2>6. RootRow(d)
    BY <2>3, <2>4, <2>5 DEF RootRow
  <2>7. Read(place, d) = root[d]
    BY <2>3, <2>4, <2>5, <2>6 DEF PairsHold
  <2>8. root[d] = bytes
    <3>1. Read(old.place, old.doc) = old.bytes
      BY DEF RowsReadTheirBytes
    <3>2. QED
      BY <2>3, <2>4, <2>5, <3>1, Reading
  <2>9. Read(place, d)' = bytes
    BY <1>1, <2>7, <2>8
  <2>10. QED
    BY <2>5, <2>9 DEF Read
<1>5. QED
  BY <1>2, <1>3, <1>4, RowsChange

\* Together.
LEMMA PublicationInvStays ==
  ASSUME PublicationInv, [PublicationNext]_publicationVars PROVE PublicationInv'
BY PublicationTypesStay, MadeOnceStays, TodosStay, PairsStay, TargetsStayPaired,
   ScratchStays, TargetsStayHeld, RowsStayReadable DEF PublicationInv

\* When a root document is replaced, its bytes are held by a run's own copy or
\* by a retained one.
LEMMA NothingDestroyed ==
  ASSUME PublicationInv, [PublicationNext]_publicationVars
  PROVE  \A d \in Doc : root[d] # NoDoc /\ root'[d] # root[d]
            => \E place \in Places \ {Root} : Read(place, d) = root[d]
<1>1. TAKE d \in Doc
<1>2. HAVE root[d] # NoDoc /\ root'[d] # root[d]
<1>3. PICK r \in Run : pc[r] = "swap" /\ d \in Targets(r)
  BY <1>2, RootBecomesScratch
<1>4. Holders(d) # {}
  BY <1>2, <1>3 DEF PublicationInv, TargetsHeld
<1>5. QED
  BY <1>4 DEF Holders

-----------------------------------------------------------------------------
(* The root is the last publication. *)

\* Two runs that stage or rename at once both know.
MeetingsKnown ==
    \A r, s \in Replacing : r # s => r \in overlap

\* Beside a run that met no other lies its own copy, and what it has renamed is
\* at the root.
StagedIsOwn ==
    \A r \in Replacing \ overlap : \A d \in Targets(r) :
        /\ pc[r] = "stage" /\ d \notin todo[r] => scratch[d] = own[r][d]
        /\ pc[r] = "rows" => scratch[d] = own[r][d]
        /\ pc[r] = "swap" => IF d \in todo[r] THEN scratch[d] = own[r][d]
                                              ELSE root[d] = own[r][d]

\* As long as nobody has renamed a first file, the root is as the last complete
\* publication left it.
NoneRenamed == \A r \in Run : pc[r] = "swap" => todo[r] = Targets(r)
LastIsWhole ==
    last # 0 =>
        /\ last \in Run /\ pc[last] \in {"register", "over"}
        /\ ~ torn /\ NoneRenamed => \A d \in Targets(last) : root[d] = own[last][d]

RootInv == MeetingsKnown /\ StagedIsOwn /\ LastIsWhole

\* Nobody stages and nothing was published.
LEMMA RootInitInv == PublicationInit => RootInv
BY DEF PublicationInit, RootInv, MeetingsKnown, StagedIsOwn, LastIsWhole, Replacing

\* A run enters the renames' phases by one step, which records whom it meets.
LEMMA MeetingIsRecorded ==
  ASSUME PublicationInv, [PublicationNext]_publicationVars
  PROVE  /\ overlap \subseteq overlap'
         /\ \A r \in Run : r \in Replacing' /\ r \notin Replacing =>
                /\ NextPhase(r) /\ pc[r] = "keep"
                /\ \A s \in Replacing : s \in overlap' /\ r \in overlap'
                /\ \A s \in Run \ {r} : pc'[s] = pc[s]
<1> USE DEF PublicationInv, PublicationTypeOK
<1>1. overlap \subseteq overlap'
  BY DEF PublicationNext, publicationVars, PipelineReturns, FindHolders, KeepCopy, StageFile,
     MoveRows, SwapFile, NextPhase, RegisterArtifact, PublicationFails, PublisherDies, fate
<1>2. ASSUME NEW r \in Run, r \in Replacing', r \notin Replacing
      PROVE  /\ NextPhase(r) /\ pc[r] = "keep"
             /\ \A s \in Replacing : s \in overlap' /\ r \in overlap'
             /\ \A s \in Run \ {r} : pc'[s] = pc[s]
  <2>1. pc'[r] \in {"stage", "rows", "swap"} /\ pc[r] \notin {"stage", "rows", "swap"}
    BY <1>2 DEF Replacing
  <2>2. NextPhase(r)
    BY <2>1, StepsOfRun DEF Idle, Stops, PipelineReturns, FindHolders, KeepCopy, StageFile,
       MoveRows, SwapFile, RegisterArtifact, Phase, Does
  <2>3. pc[r] = "keep"
    BY <2>1, <2>2 DEF NextPhase, Phase
  <2>4. overlap' = IF Replacing = {} THEN overlap ELSE overlap \union Replacing \union {r}
    BY <2>2, <2>3 DEF NextPhase, Phase
  <2>5. \A s \in Run \ {r} : pc'[s] = pc[s]
    BY <2>2 DEF NextPhase, Phase
  <2>6. QED
    BY <2>2, <2>3, <2>4, <2>5
<1>3. QED
  BY <1>1, <1>2

\* So whoever is in them with another is known to be.
LEMMA MeetingsStayKnown ==
  ASSUME PublicationInv, RootInv, [PublicationNext]_publicationVars PROVE MeetingsKnown'
<1> SUFFICES ASSUME NEW r \in Replacing', NEW s \in Replacing', r # s PROVE r \in overlap'
  BY DEF MeetingsKnown
<1>1. r \in Run /\ s \in Run
  BY DEF Replacing
<1>2. CASE r \in Replacing /\ s \in Replacing
  BY <1>2, MeetingIsRecorded DEF RootInv, MeetingsKnown
<1>3. CASE r \notin Replacing
  <2>1. pc'[s] = pc[s]
    BY <1>1, <1>3, MeetingIsRecorded
  <2>2. s \in Replacing
    BY <1>1, <2>1 DEF Replacing
  <2>3. QED
    BY <1>1, <1>3, <2>2, MeetingIsRecorded
<1>4. CASE r \in Replacing /\ s \notin Replacing
  BY <1>1, <1>4, MeetingIsRecorded
<1>5. QED
  BY <1>2, <1>3, <1>4

\* What lies beside the root, and the root, change by a run that stages or
\* renames.
LEMMA ReplacedByReplacer ==
  ASSUME PublicationInv, [PublicationNext]_publicationVars, <<root, scratch>>' # <<root, scratch>>
  PROVE  \E s \in Replacing : StageFile(s) \/ SwapFile(s) \/ PublicationFails(s)
<1>1. PICK s \in Run : \/ StageFile(s) \/ SwapFile(s)
                       \/ PublicationFails(s) /\ pc[s] \in {"stage", "rows"}
  BY DEF PublicationNext, publicationVars, PipelineReturns, FindHolders, KeepCopy, MoveRows,
     NextPhase, RegisterArtifact, PublisherDies, PublicationFails, copies
<1>2. pc[s] \in {"stage", "rows", "swap"}
  BY <1>1 DEF StageFile, SwapFile, Does
<1>3. QED
  BY <1>1, <1>2 DEF Replacing

\* What a run that meets nobody stages is what it renames.
LEMMA StagedStaysOwn ==
  ASSUME PublicationInv, RootInv, [PublicationNext]_publicationVars PROVE StagedIsOwn'
<1> USE DEF PublicationInv, PublicationTypeOK
<1> SUFFICES ASSUME NEW r \in Replacing' \ overlap', NEW d \in Targets(r)'
             PROVE  /\ pc'[r] = "stage" /\ d \notin todo'[r] => scratch'[d] = own'[r][d]
                    /\ pc'[r] = "rows" => scratch'[d] = own'[r][d]
                    /\ pc'[r] = "swap" => IF d \in todo'[r] THEN scratch'[d] = own'[r][d]
                                                            ELSE root'[d] = own'[r][d]
  BY DEF StagedIsOwn
<1>1. r \in Run /\ r \notin overlap /\ pc'[r] \in {"stage", "rows", "swap"}
  BY MeetingIsRecorded DEF Replacing
<1>2. CASE r \notin Replacing
  <2>1. NextPhase(r) /\ pc[r] = "keep"
    BY <1>1, <1>2, MeetingIsRecorded
  <2>2. pc'[r] = "stage" /\ todo'[r] = Targets(r) /\ UNCHANGED own
    BY <1>1, <2>1 DEF NextPhase, Phase, copies
  <2>3. Targets(r)' = Targets(r)
    BY <2>2 DEF Targets
  <2>4. QED
    BY <2>2, <2>3
<1>3. CASE r \in Replacing
  <2>1. pc[r] \in {"stage", "rows", "swap"}
    BY <1>3 DEF Replacing
  <2>2. own'[r] = own[r] /\ Targets(r)' = Targets(r) /\ d \in Doc /\ d \in Targets(r)
    BY <1>1, <2>1, TargetsStay DEF Targets
  <2>3. /\ pc[r] = "stage" /\ d \notin todo[r] => scratch[d] = own[r][d]
        /\ pc[r] = "rows" => scratch[d] = own[r][d]
        /\ pc[r] = "swap" => IF d \in todo[r] THEN scratch[d] = own[r][d]
                                              ELSE root[d] = own[r][d]
    BY <1>1, <1>3, <2>2 DEF RootInv, StagedIsOwn
  <2>4. ASSUME <<root, scratch>>' # <<root, scratch>>
        PROVE  StageFile(r) \/ SwapFile(r) \/ PublicationFails(r)
    <3>1. PICK s \in Replacing : StageFile(s) \/ SwapFile(s) \/ PublicationFails(s)
      BY <2>4, ReplacedByReplacer
    <3>2. s = r
      BY <1>1, <1>3 DEF RootInv, MeetingsKnown
    <3>3. QED
      BY <3>1, <3>2
  <2>5. ~ PublicationFails(r) /\ ~ Stops(r)
    BY <1>1 DEF PublicationFails, Stops, Phase
  <2>6. CASE StageFile(r)
    <3>1. PICK e \in Doc : /\ Does(r, e, "stage")
                           /\ scratch' = [scratch EXCEPT ![e] = own[r][e]]
      BY <2>6 DEF StageFile
    <3>2. pc'[r] = "stage" /\ pc[r] = "stage" /\ todo'[r] = todo[r] \ {e}
      BY <1>1, <3>1 DEF Does
    <3>3. scratch'[d] = IF d = e THEN own[r][d] ELSE scratch[d]
      BY <2>2, <3>1
    <3>4. d \notin todo'[r] => scratch'[d] = own'[r][d]
      BY <2>2, <2>3, <3>2, <3>3
    <3>5. QED
      BY <3>2, <3>4
  <2>7. CASE SwapFile(r)
    <3>1. PICK e \in Doc : /\ Does(r, e, "swap")
                           /\ root' = [root EXCEPT ![e] = scratch[e]]
                           /\ scratch' = [scratch EXCEPT ![e] = NoDoc]
      BY <2>7 DEF SwapFile
    <3>2. pc'[r] = "swap" /\ pc[r] = "swap" /\ todo'[r] = todo[r] \ {e} /\ e \in todo[r]
      BY <1>1, <3>1 DEF Does
    <3>3. CASE d = e
      <4>1. root'[d] = own[r][d]
        BY <2>2, <2>3, <3>1, <3>2, <3>3
      <4>2. QED
        BY <2>2, <3>2, <3>3, <4>1
    <3>4. CASE d # e
      <4>1. root'[d] = root[d] /\ scratch'[d] = scratch[d]
        BY <2>2, <3>1, <3>4
      <4>2. QED
        BY <2>2, <2>3, <3>2, <3>4, <4>1
    <3>5. QED
      BY <3>3, <3>4
  <2>8. CASE ~ StageFile(r) /\ ~ SwapFile(r)
    <3>1. root' = root /\ scratch' = scratch
      BY <2>4, <2>5, <2>8
    <3>2. CASE Idle(r)
      BY <2>2, <2>3, <3>1, <3>2 DEF Idle
    <3>3. CASE MoveRows(r)
      BY <2>2, <2>3, <3>1, <3>3 DEF MoveRows, Phase
    <3>4. CASE NextPhase(r)
      BY <1>1, <2>1, <2>2, <2>3, <3>1, <3>4 DEF NextPhase, Phase
    <3>5. CASE PipelineReturns(r) \/ FindHolders(r) \/ KeepCopy(r) \/ RegisterArtifact(r)
      BY <2>1, <3>5 DEF PipelineReturns, FindHolders, KeepCopy, RegisterArtifact, Does
    <3>6. QED
      BY <1>1, <2>5, <2>8, <3>2, <3>3, <3>4, <3>5, StepsOfRun
  <2>9. QED
    BY <2>6, <2>7, <2>8
<1>4. QED
  BY <1>2, <1>3

\* A publication is the last one, or tears the root, or leaves it.
LEMMA LastStaysWhole ==
  ASSUME PublicationInv, RootInv, [PublicationNext]_publicationVars PROVE LastIsWhole'
<1> USE DEF PublicationInv, PublicationTypeOK
<1>1. \A r \in Run : pc[r] \in {"register", "over"} => pc'[r] \in {"register", "over"}
  BY StepsOfRun DEF Idle, Stops, PipelineReturns, FindHolders, KeepCopy, StageFile, MoveRows,
     SwapFile, NextPhase, RegisterArtifact, Phase, Does
<1>2. CASE last' # last
  <2>1. PICK r \in Run : NextPhase(r) /\ pc[r] = "swap"
    BY <1>2 DEF PublicationNext, publicationVars, PipelineReturns, FindHolders, KeepCopy,
       StageFile, MoveRows, SwapFile, NextPhase, RegisterArtifact, PublicationFails,
       PublisherDies, fate
  <2>2. /\ last' = r /\ torn' = (r \in overlap) /\ todo[r] = {} /\ UNCHANGED <<root, own>>
        /\ pc'[r] = "register"
    BY <2>1 DEF NextPhase, Phase, copies
  <2>3. ASSUME r \notin overlap, NEW d \in Targets(r) PROVE root[d] = own[r][d]
    BY <2>1, <2>2, <2>3 DEF RootInv, StagedIsOwn, Replacing
  <2>4. Targets(r)' = Targets(r)
    BY <2>2 DEF Targets
  <2>5. QED
    BY <2>2, <2>3, <2>4 DEF LastIsWhole
<1>3. CASE last' = last /\ last # 0
  <2>1. /\ last \in Run /\ pc[last] \in {"register", "over"} /\ pc'[last] \in {"register", "over"}
        /\ own'[last] = own[last] /\ Targets(last)' = Targets(last)
    BY <1>1, <1>3, TargetsStay DEF RootInv, LastIsWhole
  <2>2. ASSUME ~ torn', NoneRenamed'
        PROVE  ~ torn /\ NoneRenamed /\ root' = root
    <3>1. ~ torn
      <4>1. ASSUME NEW r \in Run, NextPhase(r) PROVE UNCHANGED torn
        BY <1>3, <2>1, <4>1 DEF NextPhase, fate
      <4>2. QED
        BY <2>2, <4>1 DEF PublicationNext, publicationVars, PipelineReturns, FindHolders,
          KeepCopy, StageFile, MoveRows, SwapFile, RegisterArtifact, PublicationFails,
          PublisherDies, fate, Torn
    <3>2. root' = root
      <4>1. ASSUME NEW r \in Run, SwapFile(r) PROVE FALSE
        <5>1. PICK d \in Doc : Does(r, d, "swap")
          BY <4>1 DEF SwapFile
        <5>2. pc'[r] = "swap" /\ d \in Targets(r) /\ d \notin todo'[r]
          BY <5>1 DEF Does, TodoIsTarget
        <5>3. Targets(r)' = Targets(r)
          BY <5>1, TargetsStay DEF Does
        <5>4. QED
          BY <2>2, <5>2, <5>3 DEF NoneRenamed
      <4>2. QED
        BY <4>1, RootChanges
    <3>3. ASSUME NEW r \in Run, pc[r] = "swap" PROVE todo[r] = Targets(r)
      <4>1. Targets(r)' = Targets(r)
        BY <3>3, TargetsStay
      <4>2. CASE pc'[r] = "swap"
        <5>1. todo'[r] = Targets(r)
          BY <2>2, <4>1, <4>2 DEF NoneRenamed
        <5>2. ~ SwapFile(r) /\ ~ NextPhase(r)
          BY <3>3, <4>2, <5>1 DEF SwapFile, NextPhase, Phase, Does, TodoIsTarget
        <5>3. QED
          BY <3>3, <4>2, <5>1, <5>2, StepsOfRun DEF Idle, Stops, PipelineReturns, FindHolders,
             KeepCopy, StageFile, MoveRows, RegisterArtifact, Phase, Does
      <4>3. CASE pc'[r] # "swap"
        <5>1. ASSUME NEW s \in Run, PublicationFails(s) \/ PublisherDies(s)
              PROVE  todo[r] = Targets(r)
          <6>1. s = r
            BY <3>3, <4>3, <5>1 DEF PublicationFails, PublisherDies, Phase
          <6>2. QED
            BY <2>2, <3>3, <5>1, <6>1 DEF PublicationFails, PublisherDies, Torn
        <5>2. ASSUME NEW s \in Run, NextPhase(s) PROVE todo[r] = Targets(r)
          <6>1. s = r
            BY <3>3, <4>3, <5>2 DEF NextPhase, Phase
          <6>2. last' = r /\ todo[r] = {} /\ torn' = (r \in overlap)
            BY <3>3, <5>2, <6>1 DEF NextPhase
          <6>3. QED
            BY <1>3, <2>1, <3>3, <6>2
        <5>3. QED
          BY <3>3, <4>3, <5>1, <5>2 DEF PublicationNext, publicationVars, PipelineReturns,
             FindHolders, KeepCopy, StageFile, MoveRows, SwapFile, RegisterArtifact, Phase, Does
      <4>4. QED
        BY <4>2, <4>3
    <3>4. QED
      BY <3>1, <3>2, <3>3 DEF NoneRenamed
  <2>3. QED
    BY <1>3, <2>1, <2>2 DEF RootInv, LastIsWhole
<1>4. CASE last' = 0
  BY <1>4 DEF LastIsWhole
<1>5. QED
  BY <1>2, <1>3, <1>4

\* Together, and what it says while nobody renames.
LEMMA RootInvStays ==
  ASSUME PublicationInv, RootInv, [PublicationNext]_publicationVars PROVE RootInv'
BY MeetingsStayKnown, StagedStaysOwn, LastStaysWhole DEF RootInv

LEMMA RootInvGives == RootInv => RootIsLastPublication
BY DEF RootInv, LastIsWhole, NoneRenamed, RootIsLastPublication

-----------------------------------------------------------------------------
(* ModelFetch: what a final name holds, and who may put it there. *)

AtWork == {"fetching", "fetched", "verified"}

\* A thread that downloads a model holds its process's lock.
UnderTheLock ==
    \A t \in Asker : asker[t] \in AtWork /\ wants[t] \in Model => downloads[ProcessOf[t]] = t

\* What nobody put in place is not there, and a process that downloads a model
\* has not put it there.
DownloadsWhatIsMissing ==
    /\ \A a \in Artifact : onDisk[a] = "absent" => installer[a] = Nobody
    /\ \A t \in Asker : asker[t] \in AtWork /\ wants[t] \in Model
                            => installer[wants[t]] # ProcessOf[t]

\* A temporary file that goes on is complete, unless its connection was cut --
\* which a compiler says, and the digest finds.
PartsAreWhole ==
    \A t \in Asker :
        /\ asker[t] \in {"fetched", "verified"} => partFile[t] \in {"whole", "cut"}
        /\ partFile[t] = "cut" /\ asker[t] \in {"fetched", "verified"} => wants[t] # Helper
        /\ partFile[t] = "cut" /\ asker[t] = "verified" => wants[t] \notin Pinned

FetchInv ==
    /\ FetchTypeOK
    /\ UnderTheLock /\ DownloadsWhatIsMissing /\ PartsAreWhole
    /\ FinalNamesAreWhole

\* Nothing is on disk and nobody has asked.
LEMMA FetchInitInv == FetchInit => FetchInv
<1> SUFFICES ASSUME FetchInit PROVE FetchInv
  OBVIOUS
<1>1. FetchTypeOK
  BY ModelFetchAssumption DEF FetchInit, FetchTypeOK, Artifact
<1>2. QED
  BY <1>1, ModelFetchAssumption DEF FetchInit, FetchInv, UnderTheLock,
     DownloadsWhatIsMissing, PartsAreWhole, FinalNamesAreWhole, AtWork, Artifact

\* Every step of one thread keeps it.
LEMMA FetchWorkKeeps == ASSUME FetchInv, NEW t \in Asker, FetchWorks(t) PROVE FetchInv'
<1> USE ModelFetchAssumption DEF FetchInv, FetchTypeOK
<1>1. ASSUME Locks(t) PROVE FetchInv'
  <2>1. FetchTypeOK'
    BY <1>1 DEF Locks
  <2>2. UnderTheLock' /\ DownloadsWhatIsMissing' /\ PartsAreWhole'
    BY <1>1 DEF Locks, StillAbsent, IsThere, UnderTheLock, DownloadsWhatIsMissing,
       PartsAreWhole, AtWork
  <2>3. QED
    BY <1>1, <2>1, <2>2 DEF Locks, FinalNamesAreWhole
<1>2. ASSUME FailsAndCleans(t), asker[t] \in AtWork, UNCHANGED <<onDisk, installer, wants, asks>>,
             fetchEvents' \in 0 .. MaxFetchEvents
      PROVE FetchInv'
  <2>1. FetchTypeOK'
    BY <1>2 DEF FailsAndCleans, Unlocked, RemovesPart
  <2>2. UnderTheLock' /\ DownloadsWhatIsMissing' /\ PartsAreWhole'
    BY <1>2 DEF FailsAndCleans, Unlocked, UnderTheLock, DownloadsWhatIsMissing,
       PartsAreWhole, AtWork
  <2>3. QED
    BY <1>2, <2>1, <2>2 DEF FinalNamesAreWhole
<1>3. ASSUME NEW e, Befalls(e) PROVE fetchEvents' \in 0 .. MaxFetchEvents
  BY <1>3 DEF Befalls
<1>4. ASSUME Streams(t) PROVE FetchInv'
  <2>1. CASE FailsAndCleans(t) /\ Befalls("fails")
    BY <1>2, <1>3, <1>4, <2>1 DEF Streams, AtWork
  <2>2. CASE ~ (FailsAndCleans(t) /\ Befalls("fails"))
    <3>1. /\ asker[t] = "fetching" /\ asker' = [asker EXCEPT ![t] = "fetched"]
          /\ \/ partFile' = [partFile EXCEPT ![t] = "whole"]
             \/ partFile' = [partFile EXCEPT ![t] = "cut"] /\ wants[t] \in Model
          /\ UNCHANGED <<onDisk, installer, wants, asks, downloads, strays>>
          /\ fetchEvents' \in 0 .. MaxFetchEvents
      BY <1>3, <1>4, <2>2 DEF Streams
    <3>2. FetchTypeOK'
      BY <3>1
    <3>3. UnderTheLock' /\ DownloadsWhatIsMissing' /\ PartsAreWhole'
      BY <3>1 DEF UnderTheLock, DownloadsWhatIsMissing, PartsAreWhole, AtWork
    <3>4. QED
      BY <3>1, <3>2, <3>3 DEF FinalNamesAreWhole
  <2>3. QED
    BY <2>1, <2>2
<1>5. ASSUME Verifies(t) PROVE FetchInv'
  <2>1. CASE Rejected(t)
    BY <1>2, <1>5, <2>1 DEF Verifies, AtWork
  <2>2. CASE ~ Rejected(t)
    <3>1. FetchTypeOK'
      BY <1>5, <2>2 DEF Verifies
    <3>2. UnderTheLock' /\ DownloadsWhatIsMissing' /\ PartsAreWhole'
      BY <1>5, <2>2 DEF Verifies, Rejected, UnderTheLock, DownloadsWhatIsMissing,
         PartsAreWhole, AtWork
    <3>3. QED
      BY <1>5, <2>2, <3>1, <3>2 DEF Verifies, FinalNamesAreWhole
  <2>3. QED
    BY <2>1, <2>2
<1>6. ASSUME PutsInPlace(t) PROVE FetchInv'
  <2>1. CASE FailsAndCleans(t) /\ Befalls("fails") /\ UNCHANGED <<onDisk, installer>>
    BY <1>2, <1>3, <1>6, <2>1 DEF PutsInPlace, AtWork
  <2>2. CASE ~ (FailsAndCleans(t) /\ Befalls("fails") /\ UNCHANGED <<onDisk, installer>>)
    <3>1. /\ asker[t] = "verified" /\ asker' = [asker EXCEPT ![t] = "got"]
          /\ onDisk' = [onDisk EXCEPT ![wants[t]] = partFile[t]]
          /\ installer' = [installer EXCEPT ![wants[t]] = ProcessOf[t]]
          /\ partFile' = [partFile EXCEPT ![t] = "none"] /\ downloads' = Unlocked(t)
          /\ UNCHANGED <<wants, asks, strays, fetchEvents>>
      BY <1>6, <2>2 DEF PutsInPlace
    <3>2. partFile[t] \in {"whole", "cut"} /\ wants[t] \in Artifact
      BY <3>1 DEF PartsAreWhole
    <3>3. FetchTypeOK'
      BY <3>1, <3>2 DEF Unlocked
    <3>4. UnderTheLock' /\ PartsAreWhole'
      BY <3>1 DEF UnderTheLock, PartsAreWhole, Unlocked, AtWork
    <3>5. DownloadsWhatIsMissing'
      <4>1. \A a \in Artifact : onDisk'[a] = "absent" => installer'[a] = Nobody
        BY <3>1, <3>2 DEF DownloadsWhatIsMissing
      <4>2. ASSUME NEW u \in Asker, asker'[u] \in AtWork, wants'[u] \in Model
            PROVE  installer'[wants'[u]] # ProcessOf[u]
        <5>1. u # t /\ asker[u] \in AtWork /\ wants[u] \in Model /\ wants'[u] = wants[u]
          BY <3>1, <4>2 DEF AtWork
        <5>2. installer[wants[u]] # ProcessOf[u] /\ downloads[ProcessOf[u]] = u
          BY <5>1 DEF DownloadsWhatIsMissing, UnderTheLock
        <5>3. CASE wants[u] = wants[t]
          <6>1. downloads[ProcessOf[t]] = t
            BY <3>1, <5>1, <5>3 DEF UnderTheLock, AtWork
          <6>2. QED
            BY <3>1, <3>2, <5>1, <5>2, <5>3, <6>1
        <5>4. CASE wants[u] # wants[t]
          BY <3>1, <5>1, <5>2, <5>4 DEF Artifact
        <5>5. QED
          BY <5>3, <5>4
      <4>3. QED
        BY <4>1, <4>2 DEF DownloadsWhatIsMissing
    <3>6. FinalNamesAreWhole'
      BY <3>1, <3>2 DEF FinalNamesAreWhole, PartsAreWhole
    <3>7. QED
      BY <3>3, <3>4, <3>5, <3>6
  <2>3. QED
    BY <2>1, <2>2
<1>7. QED
  BY <1>1, <1>4, <1>5, <1>6 DEF FetchWorks

\* So does every other step.
LEMMA FetchStepKeeps == FetchInv /\ [FetchNext]_fetchVars => FetchInv'
<1> SUFFICES ASSUME FetchInv, [FetchNext]_fetchVars PROVE FetchInv'
  OBVIOUS
<1> USE ModelFetchAssumption DEF FetchInv, FetchTypeOK
<1>1. ASSUME NEW t \in Asker, NEW a \in Artifact, AsksFor(t, a) PROVE FetchInv'
  <2>1. FetchTypeOK'
    <3>1. asks' \in 0 .. MaxAsks
      BY <1>1 DEF AsksFor
    <3>2. QED
      BY <1>1, <3>1 DEF AsksFor
  <2>2. UnderTheLock' /\ DownloadsWhatIsMissing' /\ PartsAreWhole'
    BY <1>1 DEF AsksFor, UnderTheLock, DownloadsWhatIsMissing, PartsAreWhole, AtWork
  <2>3. QED
    BY <1>1, <2>1, <2>2 DEF AsksFor, FinalNamesAreWhole
<1>2. ASSUME NEW p \in Process, Restarts(p) PROVE FetchInv'
  <2>1. FetchTypeOK'
    <3>1. fetchEvents' \in 0 .. MaxFetchEvents
      BY <1>2 DEF Restarts, Befalls
    <3>2. QED
      BY <1>2, <3>1 DEF Restarts
  <2>2. UnderTheLock' /\ DownloadsWhatIsMissing' /\ PartsAreWhole'
    BY <1>2 DEF Restarts, UnderTheLock, DownloadsWhatIsMissing, PartsAreWhole, AtWork
  <2>3. QED
    BY <1>2, <2>1, <2>2 DEF Restarts, FinalNamesAreWhole
<1>3. CASE UNCHANGED fetchVars
  BY <1>3 DEF fetchVars, UnderTheLock, DownloadsWhatIsMissing, PartsAreWhole, FinalNamesAreWhole
<1>4. QED
  BY <1>1, <1>2, <1>3, FetchWorkKeeps DEF FetchNext

\* A failed fetch takes its temporary file with it, whatever it fetched.
LEMMA CleansUp == [FetchNext]_fetchVars =>
                    [\A t \in Asker : FetchWorks(t) => strays' = strays]_fetchVars
BY DEF FetchWorks, Locks, Streams, Verifies, PutsInPlace, FailsAndCleans, RemovesPart

\* A process puts a model in place that it had not put there.
LEMMA FetchesOnce == FetchInv =>
    [\A t \in Asker : PutsInPlace(t) /\ asker'[t] = "got" /\ wants[t] \in Model
                        => installer[wants[t]] # ProcessOf[t]]_fetchVars
BY DEF FetchInv, DownloadsWhatIsMissing, PutsInPlace, AtWork

-----------------------------------------------------------------------------
(* SpeakerNames: a microphone is not somebody's name. *)

\* The names, before and after a pass, are functions of segments to names.
NamesAreNames ==
    /\ names \in [Microphone -> [Piece -> Nat]]
    /\ record.names \in [Microphone -> [Piece -> Nat]]
    /\ record.voiceless \subseteq Microphone
    /\ heard.candidates \subseteq Microphone

\* The meta records the references of the last attribute pass, also when that
\* pass wrote nothing.
MetaIsHeard == heard.refs = mixedReferences

\* As long as no role was edited, a source the manifest calls no speaker is
\* named only as one of the candidates that pass judged.
DeclaredAreUnnamed ==
    settledRoles => \A s \in Microphone, p \in Piece :
        role[s] # "candidate" => names[s][p] \in heard.candidates \union {Unnamed}

NamesInv ==
    /\ NamesTypeOK
    /\ NamesAreNames /\ MetaIsHeard /\ DeclaredAreUnnamed
    /\ MicrophonesAreNotSpeakers

\* Nothing is transcribed and nobody is named.
LEMMA NamesInitInv == NamesInit => NamesInv
<1> SUFFICES ASSUME NamesInit PROVE NamesInv
  OBVIOUS
<1>1. /\ names = [s \in Microphone |-> [p \in Piece |-> Unnamed]]
      /\ record.names = [s \in Microphone |-> [p \in Piece |-> Unnamed]]
      /\ record.voiceless = {} /\ heard.refs = {} /\ heard.candidates = {} /\ mixedReferences = {}
  BY DEF NamesInit, NoRecord, NothingHeard
<1>2. NamesAreNames
  BY <1>1 DEF NamesAreNames, Unnamed
<1>3. namingPasses \in 0 .. MaxNamingPasses
  BY NamingBounds DEF NamesInit
<1>4. NamesTypeOK
  BY <1>1, <1>2, <1>3 DEF NamesInit, NamesTypeOK, NamesAreNames
<1>5. MetaIsHeard /\ DeclaredAreUnnamed /\ MicrophonesAreNotSpeakers
  BY <1>1 DEF MetaIsHeard, DeclaredAreUnnamed, MicrophonesAreNotSpeakers
<1>6. QED
  BY <1>2, <1>4, <1>5 DEF NamesInv

\* A pass counts.
LEMMA PassesCount ==
    ASSUME NamesTypeOK, OnePass PROVE namingPasses' \in 0 .. MaxNamingPasses
BY NamingBounds DEF NamesTypeOK, OnePass

\* What a diarize pass leaves in a source it names is a cluster's number, and it
\* names no reference.
LEMMA DiarizeKeeps == ASSUME NamesInv, Diarize PROVE NamesInv'
<1> USE DEF NamesInv
<1>1. PICK found \in SUBSET Microphone, clusters \in [Microphone -> Clustered] :
         names' = [s \in Microphone |->
                     IF s \in found /\ MayBeClustered(s) THEN clusters[s] ELSE names[s]]
  BY DEF Diarize
<1>2. \A s \in Microphone : clusters[s] \in [Piece -> Nat]
  <2>1. \A n : 1 .. n \subseteq Nat
    OBVIOUS
  <2>2. QED
    BY <2>1 DEF Clustered
<1>3. UNCHANGED <<role, mixedReferences, heard, settledRoles, record>>
  BY DEF Diarize
<1>4. NamesAreNames'
  BY <1>1, <1>2, <1>3 DEF NamesAreNames
<1>5. NamesTypeOK'
  BY <1>3, <1>4, PassesCount DEF NamesTypeOK, NamesAreNames, Diarize
<1>6. MetaIsHeard' /\ DeclaredAreUnnamed'
  BY <1>1, <1>3 DEF MetaIsHeard, DeclaredAreUnnamed, MayBeClustered
<1>7. MicrophonesAreNotSpeakers'
  <2>1. \A s \in mixedReferences : names'[s] = names[s]
    BY <1>1 DEF MayBeClustered, NamesTypeOK
  <2>2. QED
    BY <1>3, <2>1 DEF MicrophonesAreNotSpeakers, MetaIsHeard
<1>8. QED
  BY <1>4, <1>5, <1>6, <1>7

\* What an attribute pass leaves in a source is one of its candidates or what
\* the segment entered with, and a source it may not name entered unnamed.
LEMMA AttributeKeeps ==
    ASSUME NamesInv, NEW named \in SUBSET Microphone, NEW windowed \in BOOLEAN,
           Attribute(named, windowed)
    PROVE  NamesInv'
<1> USE DEF NamesInv
<1> DEFINE refs == References(named)
           cands == Candidates(named)
<1>1. PICK new \in [Microphone -> [Piece -> Microphone \union {Unnamed}]] :
         /\ \A s \in Microphone, p \in Piece : new[s][p] \in Decided(named, s, p)
         /\ IF MustWrite(new, refs, windowed)
            THEN names' = new /\ mixedReferences' = refs
            ELSE UNCHANGED <<names, mixedReferences>>
  BY DEF Attribute
<1>2. /\ heard' = [refs |-> refs, candidates |-> cands]
      /\ UNCHANGED <<role, settledRoles, record>>
  BY DEF Attribute
<1>3. names' = new /\ mixedReferences' = refs
  BY <1>1 DEF MustWrite
<1>4. refs \subseteq Microphone /\ cands \subseteq Microphone
  BY DEF References, Candidates
<1>5. \A s \in Microphone \ cands, p \in Piece : new[s][p] \in cands \union {Unnamed}
  BY <1>1 DEF Decided, Enters
<1>6. NamesAreNames'
  <2>1. new \in [Microphone -> [Piece -> Nat]]
    <3>1. Microphone \union {Unnamed} \subseteq Nat
      BY NamingBounds DEF Unnamed
    <3>2. ASSUME NEW s \in Microphone PROVE new[s] \in [Piece -> Nat]
      <4>1. new[s] \in [Piece -> Microphone \union {Unnamed}]
        BY <1>1
      <4>2. QED
        BY <3>1, <4>1
    <3>3. QED
      BY <1>1, <3>2
  <2>2. QED
    BY <1>2, <1>3, <1>4, <2>1 DEF NamesAreNames
<1>7. NamesTypeOK'
  BY <1>2, <1>3, <1>4, <1>6, PassesCount DEF NamesTypeOK, NamesAreNames, Attribute
<1>8. MetaIsHeard' /\ DeclaredAreUnnamed'
  <2>1. \A s \in Microphone : role[s] # "candidate" => s \notin cands
    BY DEF Candidates
  <2>2. QED
    BY <1>2, <1>3, <1>5, <2>1 DEF MetaIsHeard, DeclaredAreUnnamed
<1>9. MicrophonesAreNotSpeakers'
  <2>1. \A s \in refs : s \in Microphone \ cands
    BY <1>4 DEF Candidates
  <2>2. QED
    BY <1>2, <1>3, <1>5, <2>1 DEF MicrophonesAreNotSpeakers
<1>10. QED
  BY <1>6, <1>7, <1>8, <1>9

\* What reconcile puts in a source that must not be named is what the passes
\* left there, and never that source's own label.
LEMMA ReconcileKeeps == ASSUME NamesInv, Reconcile PROVE NamesInv'
<1> USE DEF NamesInv
<1>1. /\ record' = [names |-> [s \in Microphone |-> [p \in Piece |-> NamedAs(s, p)]],
                    voiceless |-> IF settledRoles THEN Voiceless ELSE {},
                    speakers |-> heard.candidates]
      /\ UNCHANGED <<role, names, mixedReferences, heard, settledRoles>>
  BY DEF Reconcile
<1>2. Voiceless \subseteq Microphone
  BY DEF Voiceless, NamesTypeOK
<1>3. \A s \in Microphone, p \in Piece : NamedAs(s, p) \in Nat
  BY NamingBounds DEF NamedAs, NamesAreNames, Unnamed
<1>4. NamesAreNames'
  BY <1>1, <1>2, <1>3 DEF NamesAreNames
<1>5. NamesTypeOK'
  BY <1>1, <1>4, PassesCount DEF NamesTypeOK, NamesAreNames, Reconcile
<1>6. MetaIsHeard' /\ DeclaredAreUnnamed'
  BY <1>1 DEF MetaIsHeard, DeclaredAreUnnamed
<1>7. MicrophonesAreNotSpeakers'
  <2>1. ASSUME NEW s \in record'.voiceless, NEW p \in Piece
        PROVE  record'.names[s][p] \in record'.speakers \union {Unnamed}
    <3>1. settledRoles /\ s \in Voiceless /\ s \in Microphone
      BY <1>1, <1>2
    <3>2. names[s][p] \in heard.candidates \union {Unnamed}
      BY <3>1 DEF Voiceless, DeclaredAreUnnamed, MicrophonesAreNotSpeakers, MetaIsHeard
    <3>3. NamedAs(s, p) \in heard.candidates \union {Unnamed}
      BY <3>1, <3>2 DEF NamedAs
    <3>4. QED
      BY <1>1, <3>1, <3>3
  <2>2. QED
    BY <1>1, <2>1 DEF MicrophonesAreNotSpeakers
<1>8. QED
  BY <1>4, <1>5, <1>6, <1>7

\* So does every step.
LEMMA NamesStepKeeps == NamesInv /\ [NamesNext]_namesVars => NamesInv'
<1> SUFFICES ASSUME NamesInv, [NamesNext]_namesVars PROVE NamesInv'
  OBVIOUS
<1> USE DEF NamesInv
<1>1. CASE Transcribe
  <2>1. /\ names' = [s \in Microphone |-> [p \in Piece |-> Unnamed]] /\ mixedReferences' = {}
        /\ heard'.refs = {} /\ heard'.candidates = {} /\ settledRoles' = TRUE
        /\ UNCHANGED <<role, record>> /\ OnePass
    BY <1>1 DEF Transcribe, NothingHeard
  <2>2. NamesAreNames'
    BY <2>1 DEF NamesAreNames, Unnamed
  <2>3. NamesTypeOK'
    BY <2>1, <2>2, PassesCount DEF NamesTypeOK, NamesAreNames
  <2>4. QED
    BY <2>1, <2>2, <2>3 DEF MetaIsHeard, DeclaredAreUnnamed, MicrophonesAreNotSpeakers
<1>2. ASSUME NEW s \in Microphone, NEW r \in Roles, DeclareRole(s, r) PROVE NamesInv'
  <2>1. NamesTypeOK'
    BY <1>2, PassesCount DEF NamesTypeOK, DeclareRole
  <2>2. QED
    BY <1>2, <2>1 DEF DeclareRole, NamesAreNames, MetaIsHeard, DeclaredAreUnnamed,
       MicrophonesAreNotSpeakers
<1>3. CASE Diarize
  BY <1>3, DiarizeKeeps
<1>4. ASSUME NEW named \in SUBSET Microphone, NEW windowed \in BOOLEAN,
             Attribute(named, windowed)
      PROVE  NamesInv'
  BY <1>4, AttributeKeeps
<1>5. CASE Reconcile
  BY <1>5, ReconcileKeeps
<1>6. CASE UNCHANGED namesVars
  BY <1>6 DEF namesVars, NamesTypeOK, NamesAreNames, MetaIsHeard, DeclaredAreUnnamed,
     MicrophonesAreNotSpeakers
<1>7. QED
  BY <1>1, <1>2, <1>3, <1>4, <1>5, <1>6 DEF NamesNext

-----------------------------------------------------------------------------
(* HelloCheck: a check reads back what it spoke. *)

\* Two checks are at work at once only on two nodes, and both know.
OverlapsAreCrossed ==
    \A c, d \in Checker : c # d /\ Busy(c) /\ Busy(d) => c \in crossed

\* The tape of a check that nobody crossed goes through the chain unmixed.
ItsOwnTape ==
    \A c \in Checker \ crossed :
        /\ checker[c] \in {"spoken", "ready"} => checkSpace["tape"] = c
        /\ checker[c] = "ingested" => checkSpace["audio"] = c
        /\ checker[c] = "transcribed" => checkSpace["words"] = c

CheckInv == CheckTypeOK /\ OverlapsAreCrossed /\ ItsOwnTape

\* Nobody has clicked.
LEMMA CheckInitInv == CheckInit => CheckInv
<1> SUFFICES ASSUME CheckInit PROVE CheckInv
  OBVIOUS
<1>1. checkSpace \in [{"tape", "audio", "words"} -> Checker \cup {NoChecker}]
  BY DEF CheckInit, Blank
<1>2. CheckTypeOK
  BY <1>1, HelloCheckAssumption DEF CheckInit, CheckTypeOK
<1>3. QED
  BY <1>2 DEF CheckInit, CheckInv, OverlapsAreCrossed, ItsOwnTape, Busy

\* Every step of one check, and every kill, keeps it.
LEMMA CheckStepKeeps == CheckInv /\ [CheckNext]_checkVars => CheckInv'
<1> SUFFICES ASSUME CheckInv, [CheckNext]_checkVars PROVE CheckInv'
  OBVIOUS
<1> USE HelloCheckAssumption DEF CheckInv
<1>1. ASSUME NEW c \in Checker, Wipes(c) PROVE CheckInv'
  <2>1. CheckTypeOK'
    <3>1. checkSpace' \in [{"tape", "audio", "words"} -> Checker \cup {NoChecker}]
      BY <1>1 DEF Wipes, Blank
    <3>2. clicks' \in 0 .. MaxClicks
      BY <1>1 DEF Wipes, CheckTypeOK
    <3>3. QED
      BY <1>1, <3>1, <3>2 DEF Wipes, CheckTypeOK, CheckIs, Elsewhere
  <2>2. \A d \in Checker \ {c} : Busy(d) => c \in crossed' /\ d \in crossed'
    BY <1>1 DEF Wipes, LockFree, Elsewhere
  <2>3. \A d \in Checker \ {c} : /\ checker'[d] = checker[d] /\ Busy(d)' = Busy(d)
                                 /\ d \in crossed => d \in crossed'
    BY <1>1 DEF Wipes, CheckIs, Busy, CheckTypeOK
  <2>4. checker'[c] = "wiped"
    BY <1>1 DEF Wipes, CheckIs, CheckTypeOK
  <2>5. OverlapsAreCrossed'
    BY <2>2, <2>3, <2>4 DEF OverlapsAreCrossed
  <2>6. ItsOwnTape'
    BY <2>2, <2>3, <2>4 DEF ItsOwnTape, Busy
  <2>7. QED
    BY <2>1, <2>5, <2>6
<1>2. ASSUME NEW c \in Checker, CheckWorks(c) PROVE CheckInv'
  <2>1. /\ Busy(c) /\ UNCHANGED <<crossed, clicks>>
        /\ checker' = [checker EXCEPT ![c] = checker'[c]]
        /\ checker'[c] \in {"spoken", "finding", "ready", "ingested", "transcribed", "ok"}
        /\ checkSpace' \in [{"tape", "audio", "words"} -> Checker \cup {NoChecker}]
        /\ missed' \in 0 .. MaxCheckEvents
    <3>1. ASSUME NEW e, Missed(e) PROVE missed' \in 0 .. MaxCheckEvents
      BY <3>1 DEF Missed, CheckTypeOK
    <3>2. CASE Speaks(c)
      BY <3>1, <3>2 DEF Speaks, CheckIs, Busy, CheckTypeOK
    <3>3. CASE Looks(c)
      BY <3>1, <3>3 DEF Looks, CheckIs, Busy, CheckTypeOK
    <3>4. CASE Ingests(c)
      BY <3>4 DEF Ingests, CheckIs, Busy, CheckTypeOK
    <3>5. CASE Transcribes(c)
      BY <3>5 DEF Transcribes, CheckIs, Busy, CheckTypeOK
    <3>6. CASE Reads(c)
      BY <3>6 DEF Reads, CheckIs, Busy, CheckTypeOK
    <3>7. QED
      BY <1>2, <3>2, <3>3, <3>4, <3>5, <3>6 DEF CheckWorks
  <2>2. CheckTypeOK'
    BY <2>1 DEF CheckTypeOK
  <2>3. \A d \in Checker \ {c} : checker'[d] = checker[d] /\ (Busy(d)' => Busy(d))
    BY <2>1 DEF Busy, CheckTypeOK
  <2>4. \A d \in Checker \ {c} : Busy(d) => d \in crossed /\ c \in crossed
    BY <2>1 DEF OverlapsAreCrossed
  <2>5. OverlapsAreCrossed'
    BY <2>1, <2>3, <2>4 DEF OverlapsAreCrossed
  <2>6. ItsOwnTape'
    <3>1. ASSUME NEW d \in Checker \ crossed, d # c
          PROVE  checker'[d] \notin {"spoken", "ready", "ingested", "transcribed"}
      BY <2>3, <2>4, <3>1 DEF Busy
    <3>2. ASSUME c \notin crossed
          PROVE  /\ checker'[c] \in {"spoken", "ready"} => checkSpace'["tape"] = c
                 /\ checker'[c] = "ingested" => checkSpace'["audio"] = c
                 /\ checker'[c] = "transcribed" => checkSpace'["words"] = c
      BY <1>2, <3>2 DEF CheckWorks, Speaks, Looks, Ingests, Transcribes, Reads, CheckIs,
         ItsOwnTape, CheckTypeOK
    <3>3. QED
      BY <2>1, <3>1, <3>2 DEF ItsOwnTape
  <2>7. QED
    BY <2>2, <2>5, <2>6
<1>3. ASSUME NEW c \in Checker, CheckerDies(c) PROVE CheckInv'
  <2>1. CheckTypeOK'
    BY <1>3 DEF CheckerDies, Missed, CheckTypeOK
  <2>2. QED
    BY <1>3, <2>1 DEF CheckerDies, OverlapsAreCrossed, ItsOwnTape, Busy, CheckTypeOK
<1>4. CASE UNCHANGED checkVars
  BY <1>4 DEF checkVars, CheckTypeOK, OverlapsAreCrossed, ItsOwnTape, Busy
<1>5. QED
  BY <1>1, <1>2, <1>3, <1>4 DEF CheckNext

\* A check that says "ok" showed the transcript of its own tape.
LEMMA ShowsItsOwn == CheckInv =>
    [\A c \in Checker : checker[c] = "transcribed" /\ checker'[c] = "ok"
          => Shown(c) = c \/ c \in crossed]_checkVars
BY DEF CheckInv, ItsOwnTape, Shown

-----------------------------------------------------------------------------
(* Folds over sequences: what a fold computes is the last of the values its     *)
(* step takes from the front on.  The library defines it by recursion over sets *)
(* of places, so that such a function exists is shown first.                    *)

\* Induction over an interval, of a set of numbers in place of a predicate.
LEMMA Upwards ==
  ASSUME NEW n \in Nat, NEW P, 0 \in P, \A k \in 1 .. n : k - 1 \in P => k \in P
  PROVE  \A k \in 0 .. n : k \in P
<1> DEFINE B == {k \in 0 .. n : k \notin P}
<1> SUFFICES ASSUME B # {} PROVE FALSE
  OBVIOUS
<1>1. B \subseteq Nat
  OBVIOUS
<1>2. PICK k \in B : \A j \in B : ~ (<<j, k>> \in OpToRel(<, Nat))
  <2> HIDE DEF B
  <2> QED BY <1>1, NatLessThanWellFounded, WFMin
<1>3. \A j \in B : ~ (j < k)
  <2> SUFFICES ASSUME NEW j \in B, j < k PROVE FALSE
    OBVIOUS
  <2>1. <<j, k>> \in OpToRel(<, Nat)
    BY <1>1 DEF OpToRel
  <2> QED BY <1>2, <2>1
<1>4. k \in 1 .. n /\ k - 1 \notin B
  BY <1>3
<1>5. QED
  BY <1>4

\* The last number of a nonempty set of numbers up to n.
LEMMA LastOf ==
  ASSUME NEW n \in Nat, NEW s \in SUBSET (1 .. n), s # {}
  PROVE  Max(s) \in s /\ \A u \in s : Max(s) >= u
<1> DEFINE P == {k \in 0 .. n : \A t \in SUBSET (1 .. k) :
                    t # {} => \E u \in t : \A v \in t : u >= v}
<1>1. 0 \in P
  <2>1. 1 .. 0 = {}
    OBVIOUS
  <2>2. 0 \in 0 .. n
    OBVIOUS
  <2>3. \A t \in SUBSET {} : t # {} => \E u \in t : \A v \in t : u >= v
    OBVIOUS
  <2> QED BY <2>1, <2>2, <2>3
<1>2. ASSUME NEW k \in 1 .. n, k - 1 \in P PROVE k \in P
  <2> SUFFICES ASSUME NEW t \in SUBSET (1 .. k), t # {}
               PROVE  \E u \in t : \A v \in t : u >= v
    OBVIOUS
  <2>1. CASE k \in t
    BY <2>1
  <2>2. CASE k \notin t
    <3>1. t \in SUBSET (1 .. (k - 1))
      BY <2>2
    <3> QED BY <1>2, <3>1
  <2> QED BY <2>1, <2>2
<1>3. n \in P
  <2> HIDE DEF P
  <2> QED BY <1>1, <1>2, Upwards
<1>4. \E u \in s : \A v \in s : u >= v
  BY <1>3
<1> QED BY <1>4 DEF Max

\* The last number up to k is k.
LEMMA LastOfAll ==
  ASSUME NEW k \in Nat \ {0}
  PROVE  Max(1 .. k) = k /\ (1 .. k) \ {k} = 1 .. (k - 1) /\ 1 .. k # {}
<1>1. Max(1 .. k) \in 1 .. k /\ \A u \in 1 .. k : Max(1 .. k) >= u
  <2>1. 1 .. k # {}
    OBVIOUS
  <2> QED BY <2>1, LastOf
<1> QED BY <1>1

\* A fold over the sets of numbers up to n: G takes the value of the rest at the
\* last number of the set.
FoldsWith(it, n, b, G) ==
    it = [s \in SUBSET (1 .. n) |->
            IF s = {} THEN b ELSE G[<<it[s \ {Max(s)}], Max(s)>>]]

\* A fold over the numbers up to n exists: whatever step G is taken from a value
\* at a number, there is a function of the sets of numbers that takes it at the
\* last one of each.
LEMMA FoldExists ==
  ASSUME NEW n \in Nat, NEW V, NEW b \in V, NEW G \in [V \X (1 .. n) -> V]
  PROVE  \E it \in [SUBSET (1 .. n) -> V] :
            FoldsWith(it, n, b, G)
<1> DEFINE Solves(h, k) ==
      h = [s \in SUBSET (1 .. k) |-> IF s = {} THEN b ELSE G[<<h[s \ {Max(s)}], Max(s)>>]]
<1> DEFINE P == {k \in 0 .. n : \E h \in [SUBSET (1 .. k) -> V] : Solves(h, k)}
<1>1. 0 \in P
  <2> DEFINE h == [s \in SUBSET (1 .. 0) |-> b]
  <2>1. \A s \in SUBSET (1 .. 0) : s = {}
    OBVIOUS
  <2>2. h \in [SUBSET (1 .. 0) -> V] /\ Solves(h, 0)
    BY <2>1
  <2> QED BY <2>2
<1>2. ASSUME NEW k \in 1 .. n, k - 1 \in P PROVE k \in P
  <2>1. PICK g \in [SUBSET (1 .. (k - 1)) -> V] : Solves(g, k - 1)
    BY <1>2
  <2> DEFINE h == [s \in SUBSET (1 .. k) |->
                     IF k \in s THEN G[<<g[s \ {k}], k>>] ELSE g[s]]
  <2>2. \A s \in SUBSET (1 .. k) : k \notin s => s \in SUBSET (1 .. (k - 1))
    OBVIOUS
  <2>3. ASSUME NEW s \in SUBSET (1 .. k) PROVE s \ {k} \in SUBSET (1 .. (k - 1))
    BY <2>2
  <2>4. h \in [SUBSET (1 .. k) -> V]
    <3> SUFFICES ASSUME NEW s \in SUBSET (1 .. k)
                 PROVE  (IF k \in s THEN G[<<g[s \ {k}], k>>] ELSE g[s]) \in V
      OBVIOUS
    <3>1. k \in s => g[s \ {k}] \in V
      BY <2>1, <2>3
    <3>2. k \notin s => g[s] \in V
      BY <2>1, <2>2
    <3> QED BY <3>1, <3>2
  <2>5. ASSUME NEW s \in SUBSET (1 .. k), s # {}
        PROVE  h[s] = G[<<h[s \ {Max(s)}], Max(s)>>]
    <3>1. CASE k \in s
      <4>1. Max(s) = k
        <5>1. Max(s) \in s /\ \A u \in s : Max(s) >= u
          <6>1. s \in SUBSET (1 .. n)
            OBVIOUS
          <6> QED BY <2>5, <6>1, LastOf
        <5>2. Max(s) \in 1 .. k /\ Max(s) >= k
          BY <3>1, <5>1
        <5> QED BY <5>2
      <4>2. h[s \ {k}] = g[s \ {k}]
        BY <2>3
      <4>3. h[s] = G[<<g[s \ {k}], k>>]
        BY <3>1
      <4> QED BY <4>1, <4>2, <4>3
    <3>2. CASE k \notin s
      <4>1. s \in SUBSET (1 .. (k - 1))
        BY <2>2, <3>2
      <4>2. s \ {Max(s)} \in SUBSET (1 .. (k - 1)) /\ k \notin s \ {Max(s)}
        BY <3>2, <4>1
      <4>3. g[s] = G[<<g[s \ {Max(s)}], Max(s)>>]
        BY <2>1, <2>5, <4>1
      <4>4. h[s] = g[s] /\ h[s \ {Max(s)}] = g[s \ {Max(s)}]
        BY <3>2, <4>2
      <4> QED BY <4>3, <4>4
    <3> QED BY <3>1, <3>2
  <2>6. h[{}] = b
    <3>1. {} \in SUBSET (1 .. (k - 1))
      OBVIOUS
    <3>2. g[{}] = b
      BY <2>1, <3>1
    <3> QED BY <3>2
  <2>7. Solves(h, k)
    BY <2>4, <2>5, <2>6
  <2> HIDE DEF h, Solves
  <2> QED BY <2>4, <2>7
<1>3. n \in P
  <2> HIDE DEF P
  <2> QED BY <1>1, <1>2, Upwards
<1> QED BY <1>3 DEF FoldsWith

\* The larger and the smaller of two numbers.
LEMMA MaxOfTwo ==
  ASSUME NEW i \in Int, NEW j \in Int
  PROVE  Max({i, j}) = IF i >= j THEN i ELSE j
BY DEF Max

\* The smaller of two numbers.
LEMMA MinOfTwo ==
  ASSUME NEW i \in Int, NEW j \in Int
  PROVE  Min({i, j}) = IF i <= j THEN i ELSE j
BY DEF Min

-----------------------------------------------------------------------------
(* The transcript and the record (TranscriptMerge): the types of its folds. *)

\* A segment as decoded, what Emit carries along, and a cue of the record.
Segment == [from : Int, to : Int, text : Words \union {Noise}, source : Recordings]
EmitState == [out : Seq(Segment), frontier : Int]
EmitNothing == [out |-> <<>>, frontier |-> -1]
SegSeq == Seq(Segment)
Cue == [from : Int, to : Int, text : SUBSET (Words \union {Noise}), source : Recordings]

CueSeq == Seq(Cue)

\* Each step of the folds keeps its type.
LEMMA EmitType ==
  ASSUME NEW acc \in EmitState, NEW g \in Segment
  PROVE  Emit(acc, g) \in EmitState
<1>1. Max({g.from, acc.frontier}) \in Int
  BY MaxOfTwo DEF EmitState, Segment
<1>2. [g EXCEPT !.from = Max({@, acc.frontier})] \in Segment
  BY <1>1 DEF Segment
<1> QED BY <1>2 DEF Emit, EmitState, Segment

\* A step of Clean keeps the type.
LEMMA SaysType ==
  ASSUME NEW acc \in SegSeq, NEW g \in Segment
  PROVE  Says(acc, g) \in SegSeq
BY DEF Says, SegSeq

\* A step of Joined keeps the type.
LEMMA BridgesType ==
  ASSUME NEW acc \in CueSeq, NEW g \in Cue
  PROVE  Bridges(acc, g) \in CueSeq
<1> USE DEF CueSeq
<1>1. CASE acc # <<>> /\ Joins(Last(acc), g)
  <2>1. Last(acc) \in Cue
    BY <1>1 DEF Last
  <2>2. Front(acc) \in Seq(Cue)
    BY <1>1 DEF Front
  <2>3. [Last(acc) EXCEPT !.to = g.to, !.text = @ \union g.text] \in Cue
    BY <2>1 DEF Cue
  <2> QED BY <1>1, <2>2, <2>3 DEF Bridges
<1> QED BY <1>1 DEF Bridges

\* A step of Resolved keeps the type.
LEMMA AdmitsType ==
  ASSUME NEW acc \in CueSeq, NEW g \in Cue
  PROVE  Admits(acc, g) \in CueSeq
BY DEF Admits, CueSeq

\* The fold of MergeChunks, and its values from the front on.
EmitIter(segs, it) ==
    it = [s \in SUBSET DOMAIN segs |->
            IF s = {} THEN EmitNothing ELSE Emit(it[s \ {Max(s)}], segs[Max(s)])]

\* MergeChunks' fold is the last of the values Emit takes, one segment at a time.
LEMMA EmitFolds ==
  ASSUME NEW segs \in Seq(Segment)
  PROVE  \E f \in [0 .. Len(segs) -> EmitState] :
            /\ f[0] = EmitNothing
            /\ \A k \in 1 .. Len(segs) : f[k] = Emit(f[k - 1], segs[k])
            /\ FoldLeft(Emit, [out |-> <<>>, frontier |-> -1], segs) = f[Len(segs)]
<1>0. PICK n : n = Len(segs) /\ n \in Nat /\ DOMAIN segs = 1 .. n
  OBVIOUS
<1>z. EmitNothing \in EmitState
  BY DEF EmitState, EmitNothing
<1>1. \E it : EmitIter(segs, it)
  <2> DEFINE G == [p \in EmitState \X (1 .. n) |-> Emit(p[1], segs[p[2]])]
  <2>1. G \in [EmitState \X (1 .. n) -> EmitState]
    BY <1>0, EmitType
  <2>2. PICK it \in [SUBSET (1 .. n) -> EmitState] : FoldsWith(it, n, EmitNothing, G)
    <3> HIDE DEF G
    <3> QED BY <1>0, <1>z, <2>1, FoldExists
  <2>3. ASSUME NEW s \in SUBSET (1 .. n), s # {}
        PROVE  it[s] = Emit(it[s \ {Max(s)}], segs[Max(s)])
    <3>1. Max(s) \in 1 .. n
      BY <1>0, <2>3, LastOf
    <3>2. it[s] = G[<<it[s \ {Max(s)}], Max(s)>>]
      <4> HIDE DEF G
      <4> QED BY <2>2, <2>3 DEF FoldsWith
    <3> QED BY <2>2, <3>1, <3>2
  <2>4. it[{}] = EmitNothing
    <3> HIDE DEF G
    <3> QED BY <2>2 DEF FoldsWith
  <2>5. EmitIter(segs, it)
    <3> HIDE DEF G
    <3> QED BY <1>0, <2>2, <2>3, <2>4 DEF EmitIter
  <2> QED BY <2>5
<1>2. PICK c : c = CHOOSE it : EmitIter(segs, it)
  OBVIOUS
<1>3. FoldLeft(Emit, [out |-> <<>>, frontier |-> -1], segs) = c[1 .. n]
  BY <1>0, <1>2 DEF FoldLeft, MapThenFoldSet, EmitIter, EmitNothing
<1>4. EmitIter(segs, c)
  BY <1>1, <1>2
<1> DEFINE f == [k \in 0 .. n |-> c[1 .. k]]
<1>5. f[0] = EmitNothing
  <2>1. 1 .. 0 = {}
    OBVIOUS
  <2> QED BY <1>0, <1>4, <2>1 DEF EmitIter
<1>6. ASSUME NEW k \in 1 .. n PROVE f[k] = Emit(f[k - 1], segs[k])
  <2>1. Max(1 .. k) = k /\ (1 .. k) \ {k} = 1 .. (k - 1) /\ 1 .. k # {}
    BY <1>0, LastOfAll
  <2>2. 1 .. k \in SUBSET (1 .. n)
    BY <1>0
  <2>3. c[1 .. k] = Emit(c[1 .. (k - 1)], segs[k])
    BY <1>0, <1>4, <2>1, <2>2 DEF EmitIter
  <2> QED BY <1>0, <2>3
<1>7. \A k \in 0 .. n : f[k] \in EmitState
  <2> DEFINE P == {k \in 0 .. n : f[k] \in EmitState}
  <2>1. 0 \in P
    BY <1>0, <1>5, <1>z
  <2>2. ASSUME NEW k \in 1 .. n, k - 1 \in P PROVE k \in P
    <3> HIDE DEF f
    <3>1. segs[k] \in Segment /\ f[k - 1] \in EmitState
      BY <1>0, <2>2
    <3> QED BY <1>6, <3>1, EmitType
  <2>3. \A k \in 0 .. n : k \in P
    <3> HIDE DEF P
    <3> QED BY <1>0, <2>1, <2>2, Upwards
  <2> HIDE DEF f
  <2> QED BY <2>3
<1>8. f \in [0 .. n -> EmitState] /\ f[n] = c[1 .. n]
  BY <1>0, <1>7
<1> HIDE DEF f
<1> QED BY <1>0, <1>3, <1>5, <1>6, <1>8

\* The fold of Clean.
SaysIter(segs, it) ==
    it = [s \in SUBSET DOMAIN segs |->
            IF s = {} THEN <<>> ELSE Says(it[s \ {Max(s)}], segs[Max(s)])]

\* Clean's fold is the last of the values Says takes, one segment at a time.
LEMMA SaysFolds ==
  ASSUME NEW segs \in Seq(Segment)
  PROVE  \E f \in [0 .. Len(segs) -> SegSeq] :
            /\ f[0] = <<>>
            /\ \A k \in 1 .. Len(segs) : f[k] = Says(f[k - 1], segs[k])
            /\ FoldLeft(Says, <<>>, segs) = f[Len(segs)]
<1>0. PICK n : n = Len(segs) /\ n \in Nat /\ DOMAIN segs = 1 .. n
  OBVIOUS
<1>z. <<>> \in SegSeq
  BY DEF SegSeq
<1>1. \E it : SaysIter(segs, it)
  <2> DEFINE G == [p \in SegSeq \X (1 .. n) |-> Says(p[1], segs[p[2]])]
  <2>1. G \in [SegSeq \X (1 .. n) -> SegSeq]
    BY <1>0, SaysType
  <2>2. PICK it \in [SUBSET (1 .. n) -> SegSeq] : FoldsWith(it, n, <<>>, G)
    <3> HIDE DEF G
    <3> QED BY <1>0, <1>z, <2>1, FoldExists
  <2>3. ASSUME NEW s \in SUBSET (1 .. n), s # {}
        PROVE  it[s] = Says(it[s \ {Max(s)}], segs[Max(s)])
    <3>1. Max(s) \in 1 .. n
      BY <1>0, <2>3, LastOf
    <3>2. it[s] = G[<<it[s \ {Max(s)}], Max(s)>>]
      <4> HIDE DEF G
      <4> QED BY <2>2, <2>3 DEF FoldsWith
    <3> QED BY <2>2, <3>1, <3>2
  <2>4. it[{}] = <<>>
    <3> HIDE DEF G
    <3> QED BY <2>2 DEF FoldsWith
  <2>5. SaysIter(segs, it)
    <3> HIDE DEF G
    <3> QED BY <1>0, <2>2, <2>3, <2>4 DEF SaysIter
  <2> QED BY <2>5
<1>2. PICK c : c = CHOOSE it : SaysIter(segs, it)
  OBVIOUS
<1>3. FoldLeft(Says, <<>>, segs) = c[1 .. n]
  BY <1>0, <1>2 DEF FoldLeft, MapThenFoldSet, SaysIter
<1>4. SaysIter(segs, c)
  BY <1>1, <1>2
<1> DEFINE f == [k \in 0 .. n |-> c[1 .. k]]
<1>5. f[0] = <<>>
  <2>1. 1 .. 0 = {}
    OBVIOUS
  <2> QED BY <1>0, <1>4, <2>1 DEF SaysIter
<1>6. ASSUME NEW k \in 1 .. n PROVE f[k] = Says(f[k - 1], segs[k])
  <2>1. Max(1 .. k) = k /\ (1 .. k) \ {k} = 1 .. (k - 1) /\ 1 .. k # {}
    BY <1>0, LastOfAll
  <2>2. 1 .. k \in SUBSET (1 .. n)
    BY <1>0
  <2>3. c[1 .. k] = Says(c[1 .. (k - 1)], segs[k])
    BY <1>0, <1>4, <2>1, <2>2 DEF SaysIter
  <2> QED BY <1>0, <2>3
<1>7. \A k \in 0 .. n : f[k] \in SegSeq
  <2> DEFINE P == {k \in 0 .. n : f[k] \in SegSeq}
  <2>1. 0 \in P
    BY <1>0, <1>5, <1>z
  <2>2. ASSUME NEW k \in 1 .. n, k - 1 \in P PROVE k \in P
    <3> HIDE DEF f
    <3>1. segs[k] \in Segment /\ f[k - 1] \in SegSeq
      BY <1>0, <2>2
    <3> QED BY <1>6, <3>1, SaysType
  <2>3. \A k \in 0 .. n : k \in P
    <3> HIDE DEF P
    <3> QED BY <1>0, <2>1, <2>2, Upwards
  <2> HIDE DEF f
  <2> QED BY <2>3
<1>8. f \in [0 .. n -> SegSeq] /\ f[n] = c[1 .. n]
  BY <1>0, <1>7
<1> HIDE DEF f
<1> QED BY <1>0, <1>3, <1>5, <1>6, <1>8

\* The fold of Joined.
BridgesIter(segs, it) ==
    it = [s \in SUBSET DOMAIN segs |->
            IF s = {} THEN <<>> ELSE Bridges(it[s \ {Max(s)}], segs[Max(s)])]

\* Joined's fold is the last of the values Bridges takes, one cue at a time.
LEMMA BridgesFolds ==
  ASSUME NEW segs \in Seq(Cue)
  PROVE  \E f \in [0 .. Len(segs) -> CueSeq] :
            /\ f[0] = <<>>
            /\ \A k \in 1 .. Len(segs) : f[k] = Bridges(f[k - 1], segs[k])
            /\ FoldLeft(Bridges, <<>>, segs) = f[Len(segs)]
<1>0. PICK n : n = Len(segs) /\ n \in Nat /\ DOMAIN segs = 1 .. n
  OBVIOUS
<1>z. <<>> \in CueSeq
  BY DEF CueSeq
<1>1. \E it : BridgesIter(segs, it)
  <2> DEFINE G == [p \in CueSeq \X (1 .. n) |-> Bridges(p[1], segs[p[2]])]
  <2>1. G \in [CueSeq \X (1 .. n) -> CueSeq]
    BY <1>0, BridgesType
  <2>2. PICK it \in [SUBSET (1 .. n) -> CueSeq] : FoldsWith(it, n, <<>>, G)
    <3> HIDE DEF G
    <3> QED BY <1>0, <1>z, <2>1, FoldExists
  <2>3. ASSUME NEW s \in SUBSET (1 .. n), s # {}
        PROVE  it[s] = Bridges(it[s \ {Max(s)}], segs[Max(s)])
    <3>1. Max(s) \in 1 .. n
      BY <1>0, <2>3, LastOf
    <3>2. it[s] = G[<<it[s \ {Max(s)}], Max(s)>>]
      <4> HIDE DEF G
      <4> QED BY <2>2, <2>3 DEF FoldsWith
    <3> QED BY <2>2, <3>1, <3>2
  <2>4. it[{}] = <<>>
    <3> HIDE DEF G
    <3> QED BY <2>2 DEF FoldsWith
  <2>5. BridgesIter(segs, it)
    <3> HIDE DEF G
    <3> QED BY <1>0, <2>2, <2>3, <2>4 DEF BridgesIter
  <2> QED BY <2>5
<1>2. PICK c : c = CHOOSE it : BridgesIter(segs, it)
  OBVIOUS
<1>3. FoldLeft(Bridges, <<>>, segs) = c[1 .. n]
  BY <1>0, <1>2 DEF FoldLeft, MapThenFoldSet, BridgesIter
<1>4. BridgesIter(segs, c)
  BY <1>1, <1>2
<1> DEFINE f == [k \in 0 .. n |-> c[1 .. k]]
<1>5. f[0] = <<>>
  <2>1. 1 .. 0 = {}
    OBVIOUS
  <2> QED BY <1>0, <1>4, <2>1 DEF BridgesIter
<1>6. ASSUME NEW k \in 1 .. n PROVE f[k] = Bridges(f[k - 1], segs[k])
  <2>1. Max(1 .. k) = k /\ (1 .. k) \ {k} = 1 .. (k - 1) /\ 1 .. k # {}
    BY <1>0, LastOfAll
  <2>2. 1 .. k \in SUBSET (1 .. n)
    BY <1>0
  <2>3. c[1 .. k] = Bridges(c[1 .. (k - 1)], segs[k])
    BY <1>0, <1>4, <2>1, <2>2 DEF BridgesIter
  <2> QED BY <1>0, <2>3
<1>7. \A k \in 0 .. n : f[k] \in CueSeq
  <2> DEFINE P == {k \in 0 .. n : f[k] \in CueSeq}
  <2>1. 0 \in P
    BY <1>0, <1>5, <1>z
  <2>2. ASSUME NEW k \in 1 .. n, k - 1 \in P PROVE k \in P
    <3> HIDE DEF f
    <3>1. segs[k] \in Cue /\ f[k - 1] \in CueSeq
      BY <1>0, <2>2
    <3> QED BY <1>6, <3>1, BridgesType
  <2>3. \A k \in 0 .. n : k \in P
    <3> HIDE DEF P
    <3> QED BY <1>0, <2>1, <2>2, Upwards
  <2> HIDE DEF f
  <2> QED BY <2>3
<1>8. f \in [0 .. n -> CueSeq] /\ f[n] = c[1 .. n]
  BY <1>0, <1>7
<1> HIDE DEF f
<1> QED BY <1>0, <1>3, <1>5, <1>6, <1>8

\* The fold of Resolved.
AdmitsIter(segs, it) ==
    it = [s \in SUBSET DOMAIN segs |->
            IF s = {} THEN <<>> ELSE Admits(it[s \ {Max(s)}], segs[Max(s)])]

\* Resolved's fold is the last of the values Admits takes, one cue at a time.
LEMMA AdmitsFolds ==
  ASSUME NEW segs \in Seq(Cue)
  PROVE  \E f \in [0 .. Len(segs) -> CueSeq] :
            /\ f[0] = <<>>
            /\ \A k \in 1 .. Len(segs) : f[k] = Admits(f[k - 1], segs[k])
            /\ FoldLeft(Admits, <<>>, segs) = f[Len(segs)]
<1>0. PICK n : n = Len(segs) /\ n \in Nat /\ DOMAIN segs = 1 .. n
  OBVIOUS
<1>z. <<>> \in CueSeq
  BY DEF CueSeq
<1>1. \E it : AdmitsIter(segs, it)
  <2> DEFINE G == [p \in CueSeq \X (1 .. n) |-> Admits(p[1], segs[p[2]])]
  <2>1. G \in [CueSeq \X (1 .. n) -> CueSeq]
    BY <1>0, AdmitsType
  <2>2. PICK it \in [SUBSET (1 .. n) -> CueSeq] : FoldsWith(it, n, <<>>, G)
    <3> HIDE DEF G
    <3> QED BY <1>0, <1>z, <2>1, FoldExists
  <2>3. ASSUME NEW s \in SUBSET (1 .. n), s # {}
        PROVE  it[s] = Admits(it[s \ {Max(s)}], segs[Max(s)])
    <3>1. Max(s) \in 1 .. n
      BY <1>0, <2>3, LastOf
    <3>2. it[s] = G[<<it[s \ {Max(s)}], Max(s)>>]
      <4> HIDE DEF G
      <4> QED BY <2>2, <2>3 DEF FoldsWith
    <3> QED BY <2>2, <3>1, <3>2
  <2>4. it[{}] = <<>>
    <3> HIDE DEF G
    <3> QED BY <2>2 DEF FoldsWith
  <2>5. AdmitsIter(segs, it)
    <3> HIDE DEF G
    <3> QED BY <1>0, <2>2, <2>3, <2>4 DEF AdmitsIter
  <2> QED BY <2>5
<1>2. PICK c : c = CHOOSE it : AdmitsIter(segs, it)
  OBVIOUS
<1>3. FoldLeft(Admits, <<>>, segs) = c[1 .. n]
  BY <1>0, <1>2 DEF FoldLeft, MapThenFoldSet, AdmitsIter
<1>4. AdmitsIter(segs, c)
  BY <1>1, <1>2
<1> DEFINE f == [k \in 0 .. n |-> c[1 .. k]]
<1>5. f[0] = <<>>
  <2>1. 1 .. 0 = {}
    OBVIOUS
  <2> QED BY <1>0, <1>4, <2>1 DEF AdmitsIter
<1>6. ASSUME NEW k \in 1 .. n PROVE f[k] = Admits(f[k - 1], segs[k])
  <2>1. Max(1 .. k) = k /\ (1 .. k) \ {k} = 1 .. (k - 1) /\ 1 .. k # {}
    BY <1>0, LastOfAll
  <2>2. 1 .. k \in SUBSET (1 .. n)
    BY <1>0
  <2>3. c[1 .. k] = Admits(c[1 .. (k - 1)], segs[k])
    BY <1>0, <1>4, <2>1, <2>2 DEF AdmitsIter
  <2> QED BY <1>0, <2>3
<1>7. \A k \in 0 .. n : f[k] \in CueSeq
  <2> DEFINE P == {k \in 0 .. n : f[k] \in CueSeq}
  <2>1. 0 \in P
    BY <1>0, <1>5, <1>z
  <2>2. ASSUME NEW k \in 1 .. n, k - 1 \in P PROVE k \in P
    <3> HIDE DEF f
    <3>1. segs[k] \in Cue /\ f[k - 1] \in CueSeq
      BY <1>0, <2>2
    <3> QED BY <1>6, <3>1, AdmitsType
  <2>3. \A k \in 0 .. n : k \in P
    <3> HIDE DEF P
    <3> QED BY <1>0, <2>1, <2>2, Upwards
  <2> HIDE DEF f
  <2> QED BY <2>3
<1>8. f \in [0 .. n -> CueSeq] /\ f[n] = c[1 .. n]
  BY <1>0, <1>7
<1> HIDE DEF f
<1> QED BY <1>0, <1>3, <1>5, <1>6, <1>8

-----------------------------------------------------------------------------
(* What each step of the folds of a transcript keeps. *)

\* Place p of segs is said in out by its place a, and by no later one.
SaidAt(segs, out, ix, p, a) ==
    /\ out[a].text = segs[p].text /\ out[a].source = segs[p].source
    /\ ix[a] <= p
    /\ \A b \in 1 .. Len(out) : b > a => ix[b] > p

\* out is what Clean leaves of the first j of segs: ix are their places.
CleanOf(segs, j, out, ix) ==
    /\ ix \in [1 .. Len(out) -> 1 .. j]
    /\ \A a, b \in 1 .. Len(out) : a < b => ix[a] < ix[b]
    /\ \A a \in 1 .. Len(out) : out[a] = segs[ix[a]] /\ out[a].text # Noise
    /\ \A p \in 1 .. j : segs[p].text # Noise => \E a \in 1 .. Len(out) : SaidAt(segs, out, ix, p, a)

\* One more segment leaves Clean's output what is said of it.
LEMMA CleanStep ==
  ASSUME NEW segs \in SegSeq, NEW j \in 1 .. Len(segs), NEW out \in SegSeq, NEW ix,
         CleanOf(segs, j - 1, out, ix)
  PROVE  \E iy : CleanOf(segs, j, Says(out, segs[j]), iy)
<1>0. PICK n : n = Len(out) /\ n \in Nat /\ DOMAIN out = 1 .. n
  BY DEF SegSeq
<1>1. /\ ix \in [1 .. n -> 1 .. (j - 1)]
      /\ \A a, b \in 1 .. n : a < b => ix[a] < ix[b]
      /\ \A a \in 1 .. n : out[a] = segs[ix[a]] /\ out[a].text # Noise
      /\ \A p \in 1 .. (j - 1) : segs[p].text # Noise =>
           \E a \in 1 .. n : SaidAt(segs, out, ix, p, a)
  BY <1>0 DEF CleanOf
<1>j. j \in Nat /\ j >= 1
  BY DEF SegSeq
<1>2. ix \in [1 .. n -> 1 .. j]
  BY <1>1, <1>j
<1>3. CASE segs[j].text = Noise
  <2>1. Says(out, segs[j]) = out
    BY <1>3 DEF Says
  <2>2. \A p \in 1 .. j : segs[p].text # Noise => \E a \in 1 .. n : SaidAt(segs, out, ix, p, a)
    BY <1>1, <1>3, <1>j
  <2>3. CleanOf(segs, j, out, ix)
    BY <1>0, <1>1, <1>2, <2>2 DEF CleanOf
  <2> QED BY <2>1, <2>3
<1>4. CASE /\ segs[j].text # Noise
           /\ out # <<>> /\ Last(out).text = segs[j].text /\ Last(out).source = segs[j].source
  <2>1. Says(out, segs[j]) = out
    BY <1>4 DEF Says
  <2>2. n \in 1 .. n /\ Last(out) = out[n]
    BY <1>0, <1>4 DEF Last, SegSeq
  <2>3. SaidAt(segs, out, ix, j, n)
    <3>1. ix[n] <= j
      BY <1>1, <1>j, <2>2
    <3> QED BY <1>0, <1>4, <2>2, <3>1 DEF SaidAt
  <2>4. \A p \in 1 .. j : segs[p].text # Noise => \E a \in 1 .. n : SaidAt(segs, out, ix, p, a)
    <3> SUFFICES ASSUME NEW p \in 1 .. j, segs[p].text # Noise
                 PROVE  \E a \in 1 .. n : SaidAt(segs, out, ix, p, a)
      OBVIOUS
    <3>1. CASE p = j
      BY <2>2, <2>3, <3>1
    <3>2. CASE p # j
      <4>1. p \in 1 .. (j - 1)
        BY <1>j, <3>2
      <4> QED BY <1>1, <4>1
    <3> QED BY <3>1, <3>2
  <2>5. CleanOf(segs, j, out, ix)
    BY <1>0, <1>1, <1>2, <2>4 DEF CleanOf
  <2> QED BY <2>1, <2>5
<1>5. CASE /\ segs[j].text # Noise
           /\ ~ (out # <<>> /\ Last(out).text = segs[j].text /\ Last(out).source = segs[j].source)
  <2>0. PICK new : new = Append(out, segs[j])
    OBVIOUS
  <2>1. Says(out, segs[j]) = new
    BY <1>5, <2>0 DEF Says
  <2>2. Len(new) = n + 1 /\ new[n + 1] = segs[j] /\ \A a \in 1 .. n : new[a] = out[a]
    BY <1>0, <2>0 DEF SegSeq
  <2> DEFINE iy == [a \in 1 .. n + 1 |-> IF a = n + 1 THEN j ELSE ix[a]]
  <2>3. /\ iy \in [1 .. n + 1 -> 1 .. j]
        /\ iy[n + 1] = j
        /\ \A a \in 1 .. n : iy[a] = ix[a]
    BY <1>0, <1>2, <1>j
  <2> HIDE DEF iy
  <2>4. \A a, b \in 1 .. n + 1 : a < b => iy[a] < iy[b]
    <3> SUFFICES ASSUME NEW a \in 1 .. n + 1, NEW b \in 1 .. n + 1, a < b PROVE iy[a] < iy[b]
      OBVIOUS
    <3>0. a \in 1 .. n
      BY <1>0
    <3>1. a \in 1 .. n /\ ix[a] \in 1 .. (j - 1) /\ iy[a] = ix[a]
      BY <1>1, <2>3, <3>0
    <3>2. CASE b = n + 1
      BY <1>j, <2>3, <3>1, <3>2
    <3>3. CASE b # n + 1
      <4>1. b \in 1 .. n
        BY <1>0, <3>3
      <4> QED BY <1>1, <2>3, <3>1, <4>1
    <3> QED BY <3>2, <3>3
  <2>5. \A a \in 1 .. n + 1 : new[a] = segs[iy[a]] /\ new[a].text # Noise
    <3> SUFFICES ASSUME NEW a \in 1 .. n + 1 PROVE new[a] = segs[iy[a]] /\ new[a].text # Noise
      OBVIOUS
    <3>1. CASE a = n + 1
      BY <1>5, <2>2, <2>3, <3>1
    <3>2. CASE a # n + 1
      <4>1. a \in 1 .. n
        BY <1>0, <3>2
      <4> QED BY <1>1, <2>2, <2>3, <4>1
    <3> QED BY <3>1, <3>2
  <2>6. ASSUME NEW p \in 1 .. j, segs[p].text # Noise
        PROVE  \E a \in 1 .. n + 1 : SaidAt(segs, new, iy, p, a)
    <3>1. CASE p = j
      <4>1. SaidAt(segs, new, iy, j, n + 1)
        BY <1>0, <1>j, <2>2, <2>3 DEF SaidAt
      <4>2. n + 1 \in 1 .. n + 1
        BY <1>0
      <4> QED BY <3>1, <4>1, <4>2
    <3>2. CASE p # j
      <4>1. p \in 1 .. (j - 1)
        BY <1>j, <3>2
      <4>2. PICK a \in 1 .. n : SaidAt(segs, out, ix, p, a)
        BY <1>1, <2>6, <4>1
      <4>3. /\ out[a].text = segs[p].text /\ out[a].source = segs[p].source /\ ix[a] <= p
            /\ \A b \in 1 .. n : b > a => ix[b] > p
        BY <1>0, <4>2 DEF SaidAt
      <4>4. ASSUME NEW b \in 1 .. n + 1, b > a PROVE iy[b] > p
        <5>1. CASE b = n + 1
          BY <1>j, <2>3, <3>2, <5>1
        <5>2. CASE b # n + 1
          <6>1. b \in 1 .. n
            BY <1>0, <5>2
          <6> QED BY <2>3, <4>3, <4>4, <6>1
        <5> QED BY <5>1, <5>2
      <4>5. SaidAt(segs, new, iy, p, a)
        BY <2>2, <2>3, <4>3, <4>4 DEF SaidAt
      <4>6. a \in 1 .. n + 1
        BY <1>0
      <4> QED BY <4>5, <4>6
    <3> QED BY <3>1, <3>2
  <2>7. CleanOf(segs, j, new, iy)
    BY <2>2, <2>3, <2>4, <2>5, <2>6 DEF CleanOf
  <2> QED BY <2>1, <2>7
<1> QED BY <1>3, <1>4, <1>5

\* Clean keeps of what is said the first of each run, in order, and nothing else.
LEMMA CleanKeeps ==
  ASSUME NEW segs \in SegSeq
  PROVE  Clean(segs) \in SegSeq /\ \E ix : CleanOf(segs, Len(segs), Clean(segs), ix)
<1>0. PICK n : n = Len(segs) /\ n \in Nat /\ DOMAIN segs = 1 .. n
  BY DEF SegSeq
<1>1. PICK f \in [0 .. n -> SegSeq] :
        /\ f[0] = <<>>
        /\ \A k \in 1 .. n : f[k] = Says(f[k - 1], segs[k])
        /\ FoldLeft(Says, <<>>, segs) = f[n]
  BY <1>0, SaysFolds DEF SegSeq
<1> DEFINE P == {k \in 0 .. n : \E ix : CleanOf(segs, k, f[k], ix)}
<1>2. 0 \in P
  <2>1. CleanOf(segs, 0, <<>>, <<>>)
    <3>1. 1 .. 0 = {} /\ Len(<<>>) = 0
      OBVIOUS
    <3>2. <<>> \in [1 .. 0 -> 1 .. 0]
      OBVIOUS
    <3> QED BY <3>1, <3>2 DEF CleanOf
  <2> QED BY <1>0, <1>1, <2>1
<1>3. ASSUME NEW k \in 1 .. n, k - 1 \in P PROVE k \in P
  <2>1. PICK ix : CleanOf(segs, k - 1, f[k - 1], ix)
    BY <1>3
  <2>2. f[k - 1] \in SegSeq
    BY <1>0, <1>1
  <2>3. \E iy : CleanOf(segs, k, Says(f[k - 1], segs[k]), iy)
    BY <1>0, <2>1, <2>2, CleanStep
  <2> QED BY <1>1, <2>3
<1>4. n \in P
  <2> HIDE DEF P
  <2>1. \A k \in 0 .. n : k \in P
    BY <1>0, <1>2, <1>3, Upwards
  <2> QED BY <1>0, <2>1
<1>5. Clean(segs) = f[n]
  BY <1>1 DEF Clean
<1> QED BY <1>0, <1>1, <1>4, <1>5

\* What ends at frontier or before, one behind the other.
EmitOf(segs, s, j, acc) ==
    /\ \A a \in 1 .. Len(acc.out) :
         /\ acc.out[a].from < acc.out[a].to /\ acc.out[a].to <= acc.frontier
         /\ acc.out[a].source = s
    /\ \A a, b \in 1 .. Len(acc.out) : a < b => acc.out[a].to <= acc.out[b].from
    /\ \A t \in Int : (t >= -1 /\ \A i \in 1 .. j : segs[i].to <= t) => acc.frontier <= t

\* What was said at t by the i-th, when no earlier one lasted longer, is said in out.
EmitSays(segs, i, t, out) ==
    (segs[i].from <= t /\ t < segs[i].to /\ t >= -1 /\ \A k \in 1 .. i - 1 : segs[k].to <= t) =>
       \E a \in 1 .. Len(out) : out[a].text = segs[i].text /\ out[a].from <= t /\ t < out[a].to

\* One more segment leaves MergeChunks' output in time order, and all that was said
\* in it.
LEMMA EmitStep ==
  ASSUME NEW segs \in SegSeq, NEW s, NEW j \in 1 .. Len(segs), NEW acc \in EmitState,
         segs[j].from < segs[j].to, segs[j].source = s,
         EmitOf(segs, s, j - 1, acc),
         \A i \in 1 .. j - 1, t \in Int : EmitSays(segs, i, t, acc.out)
  PROVE  LET new == Emit(acc, segs[j])
         IN  /\ EmitOf(segs, s, j, new)
             /\ \A i \in 1 .. j, t \in Int : EmitSays(segs, i, t, new.out)
<1>0. PICK out, F, g : out = acc.out /\ F = acc.frontier /\ g = segs[j]
  OBVIOUS
<1>t. /\ out \in SegSeq /\ F \in Int /\ g \in Segment
      /\ g.from \in Int /\ g.to \in Int /\ g.from < g.to /\ g.source = s /\ j \in Nat /\ j >= 1
  <2>1. out \in SegSeq /\ F \in Int
    BY <1>0 DEF EmitState, SegSeq
  <2>2. g \in Segment /\ j \in Nat /\ j >= 1
    BY <1>0 DEF SegSeq
  <2>3. g.from \in Int /\ g.to \in Int
    BY <2>2 DEF Segment
  <2> QED BY <1>0, <2>1, <2>2, <2>3
<1>n. PICK n : n = Len(out) /\ n \in Nat
  BY <1>t DEF SegSeq
<1>1. /\ \A a \in 1 .. n : out[a].from < out[a].to /\ out[a].to <= F /\ out[a].source = s
      /\ \A a, b \in 1 .. n : a < b => out[a].to <= out[b].from
      /\ \A t \in Int : (t >= -1 /\ \A i \in 1 .. j - 1 : segs[i].to <= t) => F <= t
  BY <1>0, <1>n DEF EmitOf
<1>2. \A i \in 1 .. j - 1, t \in Int : EmitSays(segs, i, t, out)
  BY <1>0
<1>m. \A a \in 1 .. n : out[a].from \in Int /\ out[a].to \in Int
  <2>1. ASSUME NEW a \in 1 .. n PROVE out[a] \in Segment
    BY <1>n, <1>t DEF SegSeq
  <2> QED BY <2>1 DEF Segment
<1>s. 1 .. j - 1 \subseteq 1 .. j
  BY <1>t
<1>3. CASE g.to <= F
  <2>1. Emit(acc, segs[j]) = acc
    BY <1>0, <1>3 DEF Emit
  <2>2. \A t \in Int : (t >= -1 /\ \A i \in 1 .. j : segs[i].to <= t) => F <= t
    BY <1>1, <1>s
  <2>3. EmitOf(segs, s, j, acc)
    BY <1>0, <1>1, <1>n, <2>2 DEF EmitOf
  <2>4. ASSUME NEW t \in Int PROVE EmitSays(segs, j, t, out)
    <3> SUFFICES ASSUME g.from <= t, t < g.to, t >= -1, \A k \in 1 .. j - 1 : segs[k].to <= t PROVE FALSE
      BY <1>0 DEF EmitSays
    <3>1. F <= t
      BY <1>1
    <3> QED BY <1>3, <1>t, <3>1
  <2>5. \A i \in 1 .. j, t \in Int : EmitSays(segs, i, t, out)
    <3> SUFFICES ASSUME NEW i \in 1 .. j, NEW t \in Int PROVE EmitSays(segs, i, t, out)
      OBVIOUS
    <3>1. i = j \/ i \in 1 .. j - 1
      BY <1>t
    <3> QED BY <1>2, <2>4, <3>1
  <2> QED BY <1>0, <2>1, <2>3, <2>5
<1>4. CASE ~ (g.to <= F)
  <2>0. PICK h : h = [g EXCEPT !.from = Max({@, F})]
    OBVIOUS
  <2>1. Max({g.from, F}) \in Int /\ Max({g.from, F}) >= F /\ Max({g.from, F}) >= g.from /\ Max({g.from, F}) < g.to
        /\ (Max({g.from, F}) = F \/ Max({g.from, F}) = g.from)
    BY <1>4, <1>t, MaxOfTwo
  <2>2. /\ h \in Segment /\ h.from = Max({g.from, F}) /\ h.to = g.to /\ h.text = g.text /\ h.source = s
    BY <1>t, <2>0, <2>1 DEF Segment
  <2>3. PICK new : new = Append(out, h)
    OBVIOUS
  <2>4. Emit(acc, segs[j]) = [out |-> new, frontier |-> g.to]
    BY <1>0, <1>4, <2>0, <2>3 DEF Emit
  <2>5. Len(new) = n + 1 /\ new[n + 1] = h /\ \A a \in 1 .. n : new[a] = out[a]
    BY <1>n, <1>t, <2>2, <2>3 DEF SegSeq
  <2>6. ASSUME NEW a \in 1 .. n + 1
        PROVE  new[a].from < new[a].to /\ new[a].to <= g.to /\ new[a].source = s
    <3>1. CASE a = n + 1
      BY <1>t, <2>1, <2>2, <2>5, <3>1
    <3>2. CASE a # n + 1
      <4>1. a \in 1 .. n
        BY <1>n, <3>2
      <4> QED BY <1>1, <1>4, <1>m, <1>t, <2>5, <4>1
    <3> QED BY <3>1, <3>2
  <2>7. ASSUME NEW a \in 1 .. n + 1, NEW b \in 1 .. n + 1, a < b PROVE new[a].to <= new[b].from
    <3>1. a \in 1 .. n
      BY <1>n, <2>7
    <3>2. CASE b = n + 1
      <4>1. out[a].to <= F /\ F <= h.from
        BY <1>1, <2>1, <2>2, <3>1
      <4>2. new[a] = out[a] /\ new[b] = h /\ h.from \in Int /\ out[a].to \in Int
        BY <1>m, <2>1, <2>2, <2>5, <3>1, <3>2
      <4> QED BY <1>t, <4>1, <4>2
    <3>3. CASE b # n + 1
      <4>1. b \in 1 .. n
        BY <1>n, <3>3
      <4> QED BY <1>1, <2>5, <2>7, <3>1, <4>1
    <3> QED BY <3>2, <3>3
  <2>8. ASSUME NEW t \in Int, t >= -1, \A i \in 1 .. j : segs[i].to <= t PROVE g.to <= t
    <3>1. j \in 1 .. j
      BY <1>t
    <3> QED BY <1>0, <2>8, <3>1
  <2>9. ASSUME NEW i \in 1 .. j, NEW t \in Int PROVE EmitSays(segs, i, t, new)
    <3>1. CASE i = j
      <4> SUFFICES ASSUME g.from <= t, t < g.to, t >= -1, \A k \in 1 .. j - 1 : segs[k].to <= t
                   PROVE  new[n + 1].text = g.text /\ new[n + 1].from <= t /\ t < new[n + 1].to
        <5>1. n + 1 \in 1 .. Len(new)
          BY <1>n, <2>5
        <5> QED BY <1>0, <3>1, <5>1 DEF EmitSays
      <4>1. F <= t
        BY <1>1
      <4> QED BY <2>1, <2>2, <2>5, <4>1
    <3>2. CASE i # j
      <4>1. i \in 1 .. j - 1
        BY <1>t, <3>2
      <4>2. EmitSays(segs, i, t, out)
        BY <1>2, <4>1
      <4>3. \A a \in 1 .. Len(out) : a \in 1 .. Len(new) /\ new[a] = out[a]
        BY <1>n, <2>5
      <4> QED BY <4>2, <4>3 DEF EmitSays
    <3> QED BY <3>1, <3>2
  <2>a. PICK now : now = [out |-> new, frontier |-> g.to]
    OBVIOUS
  <2>b. now.out = new /\ now.frontier = g.to /\ Emit(acc, segs[j]) = now
    BY <2>4, <2>a
  <2>c. EmitOf(segs, s, j, now)
    BY <2>5, <2>6, <2>7, <2>8, <2>b DEF EmitOf
  <2> QED BY <2>9, <2>b, <2>c
<1> QED BY <1>3, <1>4

-----------------------------------------------------------------------------
(* The concatenation of sequences. *)

\* The same with the numbers up to each k in place of their sets.
StepsWith(h, n, b, G) == h[0] = b /\ \A k \in 1 .. n : h[k] = G[<<h[k - 1], k>>]

\* Whatever step is taken from a value at a number, there is a function of the numbers
\* up to n that takes it at each.
LEMMA StepsExist ==
  ASSUME NEW n \in Nat, NEW V, NEW b \in V, NEW G \in [V \X (1 .. n) -> V]
  PROVE  \E h \in [0 .. n -> V] : StepsWith(h, n, b, G)
<1>1. PICK it \in [SUBSET (1 .. n) -> V] : FoldsWith(it, n, b, G)
  BY FoldExists
<1> DEFINE h == [k \in 0 .. n |-> it[1 .. k]]
<1>2. ASSUME NEW k \in 0 .. n PROVE 1 .. k \in SUBSET (1 .. n)
  OBVIOUS
<1>3. h \in [0 .. n -> V]
  BY <1>1, <1>2
<1>4. h[0] = b
  <2>1. 1 .. 0 = {}
    OBVIOUS
  <2> QED BY <1>1, <2>1 DEF FoldsWith
<1>5. ASSUME NEW k \in 1 .. n PROVE h[k] = G[<<h[k - 1], k>>]
  <2>1. Max(1 .. k) = k /\ (1 .. k) \ {k} = 1 .. (k - 1) /\ 1 .. k # {}
    <3>1. k \in Nat \ {0}
      OBVIOUS
    <3> QED BY <3>1, LastOfAll
  <2>2. 1 .. k \in SUBSET (1 .. n)
    BY <1>2
  <2>3. it[1 .. k] = G[<<it[(1 .. k) \ {Max(1 .. k)}], Max(1 .. k)>>]
    BY <1>1, <2>1, <2>2 DEF FoldsWith
  <2>4. it[1 .. k] = G[<<it[1 .. (k - 1)], k>>]
    BY <2>1, <2>3
  <2>5. h[k] = it[1 .. k] /\ h[k - 1] = it[1 .. (k - 1)]
    OBVIOUS
  <2> HIDE DEF h
  <2> QED BY <2>4, <2>5
<1> HIDE DEF h
<1> QED BY <1>3, <1>4, <1>5 DEF StepsWith

\* What FlattenSeq computes with.
FlattenIter(ss, f) ==
    f = [i \in 1 .. Len(ss) |-> IF i = 1 THEN ss[i] ELSE f[i - 1] \o ss[i]]

ListOf(X) == Seq(X)

\* FlattenSeq puts the sequences of a sequence one behind the other.
LEMMA Flattens ==
  ASSUME NEW X, NEW ss \in Seq(ListOf(X))
  PROVE  \E h \in [0 .. Len(ss) -> ListOf(X)] :
            /\ h[0] = <<>>
            /\ \A k \in 1 .. Len(ss) : h[k] = h[k - 1] \o ss[k]
            /\ FlattenSeq(ss) = h[Len(ss)]
<1>0. PICK n : n = Len(ss) /\ n \in Nat /\ DOMAIN ss = 1 .. n
  OBVIOUS
<1>1. PICK V : V = ListOf(X)
  OBVIOUS
<1>2. <<>> \in V /\ \A u, v \in V : u \o v \in V
  BY <1>1 DEF ListOf
<1>3. \A k \in 1 .. n : ss[k] \in V
  BY <1>0, <1>1
<1> DEFINE G == [p \in V \X (1 .. n) |-> p[1] \o ss[p[2]]]
<1>4. G \in [V \X (1 .. n) -> V]
  BY <1>2, <1>3
<1>5. PICK h \in [0 .. n -> V] : StepsWith(h, n, <<>>, G)
  <2> HIDE DEF G
  <2> QED BY <1>0, <1>2, <1>4, StepsExist
<1>s. h[0] = <<>> /\ \A k \in 1 .. n : h[k] = G[<<h[k - 1], k>>]
  <2> HIDE DEF G
  <2> QED BY <1>5 DEF StepsWith
<1>6. ASSUME NEW k \in 1 .. n PROVE h[k] = h[k - 1] \o ss[k]
  <2>1. k - 1 \in 0 .. n
    BY <1>0
  <2>2. <<h[k - 1], k>> \in V \X (1 .. n)
    BY <1>5, <2>1
  <2> QED BY <1>s, <2>2
<1>7. CASE n = 0
  <2>1. ss = <<>>
    BY <1>0, <1>7
  <2>2. FlattenSeq(ss) = <<>>
    BY <2>1 DEF FlattenSeq
  <2> QED BY <1>0, <1>1, <1>5, <1>s, <1>6, <1>7, <2>2
<1>8. CASE n > 0
  <2> DEFINE g == [k \in 1 .. n |-> h[k]]
  <2>1. h[1] = ss[1]
    <3>1. 1 \in 1 .. n /\ ss[1] \in ListOf(X)
      BY <1>0, <1>1, <1>3, <1>8
    <3>2. h[1] = <<>> \o ss[1]
      <4>1. h[1 - 1] = <<>>
        BY <1>s
      <4> QED BY <1>6, <3>1, <4>1
    <3> QED BY <3>1, <3>2, ConcatEmptySeq DEF ListOf
  <2>2. FlattenIter(ss, g)
    <3>1. ASSUME NEW k \in 1 .. n
          PROVE  g[k] = IF k = 1 THEN ss[k] ELSE g[k - 1] \o ss[k]
      <4>1. CASE k = 1
        BY <2>1, <4>1
      <4>2. CASE k # 1
        <5>1. k - 1 \in 1 .. n
          BY <1>0, <4>2
        <5> QED BY <1>6, <4>2, <5>1
      <4> QED BY <4>1, <4>2
    <3> HIDE DEF g
    <3>2. g = [k \in 1 .. n |-> g[k]]
      BY DEF g
    <3> QED BY <1>0, <3>1, <3>2 DEF FlattenIter
  <2>3. PICK c : c = CHOOSE f : FlattenIter(ss, f)
    OBVIOUS
  <2>4. FlattenIter(ss, c)
    <3> HIDE DEF g
    <3> QED BY <2>2, <2>3
  <2>5. FlattenSeq(ss) = c[n]
    BY <1>0, <1>8, <2>3 DEF FlattenSeq, FlattenIter
  <2>6. \A k \in 0 .. n : k > 0 => c[k] = h[k]
    <3> DEFINE P == {k \in 0 .. n : k > 0 => c[k] = h[k]}
    <3>1. 0 \in P
      BY <1>0
    <3>2. ASSUME NEW k \in 1 .. n, k - 1 \in P PROVE k \in P
      <4>1. c[k] = IF k = 1 THEN ss[k] ELSE c[k - 1] \o ss[k]
        BY <1>0, <2>4 DEF FlattenIter
      <4>2. CASE k = 1
        BY <1>0, <2>1, <4>1, <4>2
      <4>3. CASE k # 1
        <5>1. c[k - 1] = h[k - 1]
          BY <1>0, <3>2, <4>3
        <5>2. c[k] = c[k - 1] \o ss[k]
          BY <4>1, <4>3
        <5>3. h[k] = h[k - 1] \o ss[k]
          BY <1>6
        <5>4. c[k] = h[k]
          BY <5>1, <5>2, <5>3, Zenon
        <5> QED BY <1>0, <5>4
      <4> QED BY <4>2, <4>3
    <3>3. \A k \in 0 .. n : k \in P
      <4> HIDE DEF P
      <4> QED BY <1>0, <3>1, <3>2, Upwards
    <3> QED BY <3>3
  <2>7. FlattenSeq(ss) = h[n]
    BY <1>0, <1>8, <2>5, <2>6
  <2> QED BY <1>0, <1>1, <1>5, <1>s, <1>6, <2>7
<1> QED BY <1>0, <1>7, <1>8

\* Element i of a sequence of sequences' concatenation was in one of the first q.
Origin(ss, q, e) == \E k \in 1 .. q : \E m \in 1 .. Len(ss[k]) : e = ss[k][m]

\* What precedes ss[k][m]: what precedes it in its own sequence, and the earlier ones.
Before(ss, k, m, e) == (\E i \in 1 .. m - 1 : e = ss[k][i]) \/ Origin(ss, k - 1, e)

\* Place j of out holds an element of the first q, and nothing but what precedes
\* it is before it.
Behind(ss, q, out, j) ==
    \E k \in 1 .. q : \E m \in 1 .. Len(ss[k]) :
       out[j] = ss[k][m] /\ \A i \in 1 .. j - 1 : Before(ss, k, m, out[i])

\* Each element of the sequences has a place in their concatenation, behind
\* nothing but what precedes it.
LEMMA FlatPlaces ==
  ASSUME NEW X, NEW ss \in Seq(ListOf(X))
  PROVE  /\ FlattenSeq(ss) \in Seq(X)
         /\ \A i \in 1 .. Len(FlattenSeq(ss)) : Origin(ss, Len(ss), FlattenSeq(ss)[i])
         /\ \A j \in 1 .. Len(FlattenSeq(ss)) : Behind(ss, Len(ss), FlattenSeq(ss), j)
         /\ \A k \in 1 .. Len(ss), m \in Nat : m \in 1 .. Len(ss[k]) =>
              \E j \in 1 .. Len(FlattenSeq(ss)) :
                /\ FlattenSeq(ss)[j] = ss[k][m]
                /\ \A i \in 1 .. j - 1 : Before(ss, k, m, FlattenSeq(ss)[i])
<1>0. PICK n : n = Len(ss) /\ n \in Nat /\ DOMAIN ss = 1 .. n
  OBVIOUS
<1>1. PICK h \in [0 .. n -> ListOf(X)] :
        /\ h[0] = <<>>
        /\ \A k \in 1 .. n : h[k] = h[k - 1] \o ss[k]
        /\ FlattenSeq(ss) = h[n]
  BY <1>0, Flattens
<1> DEFINE Come(q) == \A i \in 1 .. Len(h[q]) : Origin(ss, q, h[q][i])
           Placed1(q, k, m) == \E j \in 1 .. Len(h[q]) :
                                 /\ h[q][j] = ss[k][m]
                                 /\ \A i \in 1 .. j - 1 : Before(ss, k, m, h[q][i])
           P == {q \in 0 .. n : /\ Come(q)
                                /\ \A j \in 1 .. Len(h[q]) : Behind(ss, q, h[q], j)
                                /\ \A k \in 1 .. q, m \in Nat : m \in 1 .. Len(ss[k]) => Placed1(q, k, m)}
<1>2. 0 \in P
  BY <1>0, <1>1
<1>3. ASSUME NEW q \in 1 .. n, q - 1 \in P PROVE q \in P
  <2>0. PICK a, b, c : a = h[q - 1] /\ b = ss[q] /\ c = h[q]
    OBVIOUS
  <2>1. a \in Seq(X) /\ b \in Seq(X) /\ c \in Seq(X) /\ c = a \o b
    <3>1. q - 1 \in 0 .. n /\ q \in 0 .. n
      BY <1>0
    <3>2. h[q - 1] \in ListOf(X) /\ h[q] \in ListOf(X) /\ ss[q] \in ListOf(X)
      BY <1>0, <1>1, <3>1
    <3>3. h[q] = h[q - 1] \o ss[q]
      BY <1>1
    <3> QED BY <2>0, <3>2, <3>3 DEF ListOf
  <2>2. /\ Len(c) = Len(a) + Len(b) /\ Len(a) \in Nat /\ Len(b) \in Nat
        /\ \A i \in 1 .. Len(a) : c[i] = a[i]
        /\ \A i \in 1 .. Len(b) : c[Len(a) + i] = b[i]
    BY <2>1
  <2>3. \A i \in 1 .. Len(a) : Origin(ss, q - 1, a[i])
    BY <1>3, <2>0
  <2>4. Come(q)
    <3> SUFFICES ASSUME NEW i \in 1 .. Len(c) PROVE Origin(ss, q, c[i])
      BY <2>0
    <3>1. CASE i \in 1 .. Len(a)
      <4>1. Origin(ss, q - 1, c[i])
        BY <2>2, <2>3, <3>1
      <4>2. PICK k \in 1 .. (q - 1) : \E m \in 1 .. Len(ss[k]) : c[i] = ss[k][m]
        BY <4>1 DEF Origin
      <4>3. k \in 1 .. q
        OBVIOUS
      <4> QED BY <4>2, <4>3 DEF Origin
    <3>2. CASE i \notin 1 .. Len(a)
      <4>1. i - Len(a) \in 1 .. Len(b) /\ c[i] = b[i - Len(a)]
        <5>1. i - Len(a) \in 1 .. Len(b) /\ Len(a) + (i - Len(a)) = i
          BY <2>2, <3>2
        <5> QED BY <2>2, <5>1
      <4> QED BY <2>0, <4>1 DEF Origin
    <3> QED BY <3>1, <3>2
  <2>6. ASSUME NEW j \in 1 .. Len(c) PROVE Behind(ss, q, c, j)
    <3>1. CASE j \in 1 .. Len(a)
      <4>1. Behind(ss, q - 1, a, j)
        BY <1>3, <2>0, <3>1
      <4>2. PICK k \in 1 .. (q - 1) : \E m \in 1 .. Len(ss[k]) :
              a[j] = ss[k][m] /\ \A i \in 1 .. j - 1 : Before(ss, k, m, a[i])
        BY <4>1 DEF Behind
      <4>3. PICK m \in 1 .. Len(ss[k]) :
              a[j] = ss[k][m] /\ \A i \in 1 .. j - 1 : Before(ss, k, m, a[i])
        BY <4>2
      <4>4. c[j] = ss[k][m] /\ \A i \in 1 .. j - 1 : Before(ss, k, m, c[i])
        <5>1. c[j] = a[j]
          BY <2>2, <3>1
        <5>2. \A i \in 1 .. j - 1 : c[i] = a[i]
          BY <2>2, <3>1
        <5> QED BY <4>3, <5>1, <5>2
      <4>5. k \in 1 .. q
        OBVIOUS
      <4> QED BY <4>4, <4>5 DEF Behind
    <3>2. CASE j \notin 1 .. Len(a)
      <4>1. PICK m \in 1 .. Len(b) : j = Len(a) + m
        <5>1. j - Len(a) \in 1 .. Len(b) /\ j = Len(a) + (j - Len(a))
          BY <2>2, <3>2
        <5> QED BY <5>1
      <4>2. c[j] = ss[q][m] /\ m \in 1 .. Len(ss[q])
        BY <2>0, <2>2, <4>1
      <4>3. ASSUME NEW i \in 1 .. j - 1 PROVE Before(ss, q, m, c[i])
        <5>1. CASE i \in 1 .. Len(a)
          BY <2>2, <2>3, <5>1 DEF Before
        <5>2. CASE i \notin 1 .. Len(a)
          <6>1. /\ i - Len(a) \in 1 .. Len(b) /\ Len(a) + (i - Len(a)) = i
                /\ i - Len(a) \in 1 .. m - 1
            BY <2>2, <4>1, <5>2
          <6>2. c[i] = b[i - Len(a)]
            BY <2>2, <6>1
          <6> QED BY <2>0, <6>1, <6>2 DEF Before
        <5> QED BY <5>1, <5>2
      <4> QED BY <4>2, <4>3 DEF Behind
    <3> QED BY <3>1, <3>2
  <2>5. ASSUME NEW k \in 1 .. q, NEW m \in Nat, m \in 1 .. Len(ss[k]) PROVE Placed1(q, k, m)
    <3>1. CASE k = q
      <4> DEFINE j == Len(a) + m
      <4>1. j \in 1 .. Len(c) /\ c[j] = b[m]
        <5>1. m \in 1 .. Len(b)
          BY <2>0, <2>5, <3>1
        <5> QED BY <2>2, <5>1
      <4>2. ASSUME NEW i \in 1 .. j - 1 PROVE Before(ss, k, m, c[i])
        <5>1. CASE i \in 1 .. Len(a)
          BY <2>2, <2>3, <3>1, <5>1 DEF Before
        <5>2. CASE i \notin 1 .. Len(a)
          <6>1. /\ i - Len(a) \in 1 .. Len(b) /\ Len(a) + (i - Len(a)) = i
                /\ i - Len(a) \in 1 .. m - 1
            BY <2>0, <2>2, <2>5, <3>1, <5>2
          <6>2. c[i] = b[i - Len(a)]
            BY <2>2, <6>1
          <6> QED BY <2>0, <3>1, <6>1, <6>2 DEF Before
        <5> QED BY <5>1, <5>2
      <4> HIDE DEF j
      <4> QED BY <2>0, <3>1, <4>1, <4>2
    <3>2. CASE k # q
      <4>1. k \in 1 .. (q - 1)
        BY <3>2
      <4>2. PICK j \in 1 .. Len(a) :
              a[j] = ss[k][m] /\ \A i \in 1 .. j - 1 : Before(ss, k, m, a[i])
        BY <1>3, <2>0, <2>5, <4>1
      <4>3. j \in 1 .. Len(c) /\ c[j] = ss[k][m]
        BY <2>2, <4>2
      <4>4. \A i \in 1 .. j - 1 : Before(ss, k, m, c[i])
        BY <2>2, <4>2
      <4> QED BY <2>0, <4>3, <4>4
    <3> QED BY <3>1, <3>2
  <2>7. \A j \in 1 .. Len(h[q]) : Behind(ss, q, h[q], j)
    BY <2>0, <2>6
  <2> QED BY <1>0, <2>4, <2>5, <2>7
<1>4. n \in P
  <2> HIDE DEF P
  <2>1. \A q \in 0 .. n : q \in P
    BY <1>0, <1>2, <1>3, Upwards
  <2> QED BY <1>0, <2>1
<1>5. FlattenSeq(ss) \in Seq(X)
  BY <1>0, <1>1 DEF ListOf
<1> QED BY <1>0, <1>1, <1>4, <1>5

-----------------------------------------------------------------------------
(* The merge of the chunks of a recording. *)

EmitEnd(segs) == FoldLeft(Emit, [out |-> <<>>, frontier |-> -1], segs)

\* What is said of MergeChunks' steps holds at the end.
LEMMA EmitAll ==
  ASSUME NEW segs \in SegSeq, NEW s,
         \A i \in 1 .. Len(segs) : segs[i].from < segs[i].to /\ segs[i].source = s
  PROVE  /\ EmitEnd(segs) \in EmitState /\ EmitOf(segs, s, Len(segs), EmitEnd(segs))
         /\ \A i \in 1 .. Len(segs), t \in Int : EmitSays(segs, i, t, EmitEnd(segs).out)
<1>0. PICK n : n = Len(segs) /\ n \in Nat
  BY DEF SegSeq
<1>1. PICK f \in [0 .. n -> EmitState] :
        /\ f[0] = EmitNothing
        /\ \A k \in 1 .. n : f[k] = Emit(f[k - 1], segs[k])
        /\ EmitEnd(segs) = f[n]
  BY <1>0, EmitFolds DEF SegSeq, EmitEnd
<1> DEFINE P == {k \in 0 .. n : /\ EmitOf(segs, s, k, f[k])
                                /\ \A i \in 1 .. k, t \in Int : EmitSays(segs, i, t, f[k].out)}
<1>2. 0 \in P
  <2>1. 1 .. 0 = {} /\ EmitNothing.out = <<>> /\ EmitNothing.frontier = -1 /\ Len(<<>>) = 0
    BY DEF EmitNothing
  <2>2. EmitOf(segs, s, 0, EmitNothing)
    BY <2>1 DEF EmitOf
  <2> QED BY <1>0, <1>1, <2>1, <2>2
<1>3. ASSUME NEW k \in 1 .. n, k - 1 \in P PROVE k \in P
  <2>1. f[k - 1] \in EmitState /\ f[k] = Emit(f[k - 1], segs[k])
    BY <1>0, <1>1
  <2>2. EmitOf(segs, s, k - 1, f[k - 1]) /\ \A i \in 1 .. k - 1, t \in Int : EmitSays(segs, i, t, f[k - 1].out)
    BY <1>3
  <2>3. EmitOf(segs, s, k, f[k]) /\ \A i \in 1 .. k, t \in Int : EmitSays(segs, i, t, f[k].out)
    BY <1>0, <2>1, <2>2, EmitStep
  <2> QED BY <2>3
<1>4. n \in P
  <2> HIDE DEF P
  <2>1. \A k \in 0 .. n : k \in P
    BY <1>0, <1>2, <1>3, Upwards
  <2> QED BY <1>0, <2>1
<1> QED BY <1>0, <1>1, <1>4

\* What the chunks of s heard: segments of s that take some time.
HeardOf(chunks, s) ==
    /\ chunks \in Seq(ListOf(Segment))
    /\ \A k \in 1 .. Len(chunks) : \A m \in 1 .. Len(chunks[k]) :
         chunks[k][m].from < chunks[k][m].to /\ chunks[k][m].source = s

\* What is said at t in segs: the last that begins up to t has this text.
SaidThen(segs, text, t) ==
    \E h \in ToSet(segs) : /\ h.text = text /\ h.from <= t
                           /\ ~ \E l \in ToSet(segs) : h.from < l.from /\ l.from <= t

\* One source's line of time: segments that say something, one behind the other.
LineOf(segs, s) ==
    /\ segs \in SegSeq
    /\ \A a \in 1 .. Len(segs) : /\ segs[a].from < segs[a].to /\ segs[a].source = s
                                 /\ segs[a].text # Noise
    /\ \A a, b \in 1 .. Len(segs) : a < b => segs[a].to <= segs[b].from

\* At t no chunk before the k-th, nor a segment of it before the m-th, goes on.
OverBy(chunks, k, m, t) ==
    /\ \A i \in 1 .. m - 1 : chunks[k][i].to <= t
    /\ \A q \in 1 .. k - 1 : \A i \in 1 .. Len(chunks[q]) : chunks[q][i].to <= t

\* The merge of a recording's chunks is in time order, and says at each moment what the
\* first chunk to reach it heard there (pipeline/transcription.py, merge_chunks).
LEMMA MergedLine ==
  ASSUME NEW s, NEW chunks, HeardOf(chunks, s)
  PROVE  /\ LineOf(MergeChunks(chunks), s)
         /\ \A k \in 1 .. Len(chunks), m \in Nat, t \in Nat :
              (/\ m \in 1 .. Len(chunks[k]) /\ OverBy(chunks, k, m, t)
               /\ chunks[k][m].text # Noise /\ chunks[k][m].from <= t /\ t < chunks[k][m].to)
              => SaidThen(MergeChunks(chunks), chunks[k][m].text, t)
<1>0. PICK flat, E, out : flat = FlattenSeq(chunks) /\ E = EmitEnd(flat).out /\ out = Clean(E)
  OBVIOUS
<1>1. MergeChunks(chunks) = out
  BY <1>0 DEF MergeChunks, EmitEnd
<1>2. /\ chunks \in Seq(ListOf(Segment))
      /\ \A k \in 1 .. Len(chunks) : \A m \in 1 .. Len(chunks[k]) :
           chunks[k][m].from < chunks[k][m].to /\ chunks[k][m].source = s
  BY DEF HeardOf
<1>3. /\ flat \in SegSeq
      /\ \A i \in 1 .. Len(flat) : Origin(chunks, Len(chunks), flat[i])
      /\ \A k \in 1 .. Len(chunks), m \in Nat : m \in 1 .. Len(chunks[k]) =>
           \E j \in 1 .. Len(flat) :
             flat[j] = chunks[k][m] /\ \A i \in 1 .. j - 1 : Before(chunks, k, m, flat[i])
  BY <1>0, <1>2, FlatPlaces DEF SegSeq
<1>4. \A i \in 1 .. Len(flat) : flat[i].from < flat[i].to /\ flat[i].source = s
  <2> SUFFICES ASSUME NEW i \in 1 .. Len(flat) PROVE flat[i].from < flat[i].to /\ flat[i].source = s
    OBVIOUS
  <2>1. PICK k \in 1 .. Len(chunks) : \E m \in 1 .. Len(chunks[k]) : flat[i] = chunks[k][m]
    BY <1>3 DEF Origin
  <2> QED BY <1>2, <2>1
<1>5. /\ EmitEnd(flat) \in EmitState /\ EmitOf(flat, s, Len(flat), EmitEnd(flat))
      /\ \A i \in 1 .. Len(flat), t \in Int : EmitSays(flat, i, t, E)
  BY <1>0, <1>3, <1>4, EmitAll
<1>6. /\ E \in SegSeq
      /\ \A a \in 1 .. Len(E) : E[a].from < E[a].to /\ E[a].source = s
      /\ \A a, b \in 1 .. Len(E) : a < b => E[a].to <= E[b].from
  BY <1>0, <1>5 DEF EmitOf, EmitState, SegSeq
<1>i. \A a \in 1 .. Len(E) : E[a].from \in Int /\ E[a].to \in Int
  <2>1. ASSUME NEW a \in 1 .. Len(E) PROVE E[a] \in Segment
    BY <1>6 DEF SegSeq
  <2> QED BY <2>1 DEF Segment
<1>7. out \in SegSeq /\ \E ix : CleanOf(E, Len(E), out, ix)
  BY <1>0, <1>6, CleanKeeps
<1> PICK ix : CleanOf(E, Len(E), out, ix)
  BY <1>7
<1>8. /\ ix \in [1 .. Len(out) -> 1 .. Len(E)]
      /\ \A a, b \in 1 .. Len(out) : a < b => ix[a] < ix[b]
      /\ \A a \in 1 .. Len(out) : out[a] = E[ix[a]] /\ out[a].text # Noise
      /\ \A p \in 1 .. Len(E) : E[p].text # Noise => \E a \in 1 .. Len(out) : SaidAt(E, out, ix, p, a)
  BY DEF CleanOf
<1>9. LineOf(out, s)
  <2>1. ASSUME NEW a \in 1 .. Len(out)
        PROVE  out[a].from < out[a].to /\ out[a].source = s /\ out[a].text # Noise
    BY <1>6, <1>8
  <2>2. ASSUME NEW a \in 1 .. Len(out), NEW b \in 1 .. Len(out), a < b PROVE out[a].to <= out[b].from
    BY <1>6, <1>8, <2>2
  <2> QED BY <1>7, <2>1, <2>2 DEF LineOf
<1>10. ASSUME NEW k \in 1 .. Len(chunks), NEW m \in Nat, NEW t \in Nat,
              m \in 1 .. Len(chunks[k]), OverBy(chunks, k, m, t),
              chunks[k][m].text # Noise, chunks[k][m].from <= t, t < chunks[k][m].to
       PROVE  SaidThen(out, chunks[k][m].text, t)
  <2>1. PICK j \in 1 .. Len(flat) :
          flat[j] = chunks[k][m] /\ \A i \in 1 .. j - 1 : Before(chunks, k, m, flat[i])
    BY <1>3, <1>10
  <2>2. \A i \in 1 .. j - 1 : flat[i].to <= t
    BY <1>10, <2>1 DEF Before, Origin, OverBy
  <2>3. PICK p \in 1 .. Len(E) : E[p].text = chunks[k][m].text /\ E[p].from <= t /\ t < E[p].to
    BY <1>5, <1>10, <2>1, <2>2 DEF EmitSays
  <2>4. PICK a \in 1 .. Len(out) : SaidAt(E, out, ix, p, a)
    BY <1>8, <1>10, <2>3
  <2>5. /\ out[a].text = chunks[k][m].text /\ ix[a] <= p
        /\ \A b \in 1 .. Len(out) : b > a => ix[b] > p
    BY <2>3, <2>4 DEF SaidAt
  <2>6. ix[a] \in 1 .. Len(E) /\ out[a] = E[ix[a]]
    BY <1>8
  <2>7. out[a].from <= t
    <3>1. CASE ix[a] = p
      BY <2>3, <2>6, <3>1
    <3>2. CASE ix[a] < p
      <4>1. E[ix[a]].to <= E[p].from /\ E[ix[a]].from < E[ix[a]].to
        BY <1>6, <2>6, <3>2
      <4>2. /\ E[ix[a]].from \in Int /\ E[ix[a]].to \in Int /\ E[p].from \in Int
            /\ E[p].from <= t
        BY <1>i, <2>3, <2>6
      <4> QED BY <2>6, <4>1, <4>2
    <3>3. p \in Int /\ ix[a] \in Int
      BY <2>6, <1>6 DEF SegSeq
    <3> QED BY <2>5, <3>3, <3>1, <3>2
  <2>8. ASSUME NEW l \in ToSet(out), out[a].from < l.from, l.from <= t PROVE FALSE
    <3>1. PICK b \in 1 .. Len(out) : l = out[b]
      BY <1>7 DEF ToSet, SegSeq
    <3>2. ix[b] \in 1 .. Len(E) /\ l = E[ix[b]]
      BY <1>8, <3>1
    <3>3. ~ (b > a)
      <4> SUFFICES ASSUME b > a PROVE FALSE
        OBVIOUS
      <4>1. ix[b] > p
        BY <2>5
      <4>2. E[p].to <= E[ix[b]].from
        BY <1>6, <3>2, <4>1
      <4> QED BY <1>i, <2>3, <2>8, <3>2, <4>2
    <3>4. b # a
      BY <1>i, <2>6, <2>8, <3>1
    <3>5. b < a
      BY <1>7, <3>3, <3>4 DEF SegSeq
    <3>6. out[b].from < out[b].to /\ out[b].to <= out[a].from
      BY <1>9, <3>5 DEF LineOf
    <3>7. out[b].from \in Int /\ out[b].to \in Int /\ out[a].from \in Int
      BY <1>i, <1>8
    <3> QED BY <2>8, <3>1, <3>6, <3>7
  <2>9. out[a] \in ToSet(out)
    BY <1>7 DEF ToSet, SegSeq
  <2> QED BY <2>5, <2>7, <2>8, <2>9 DEF SaidThen
<1> QED BY <1>1, <1>9, <1>10

-----------------------------------------------------------------------------
(* Sorting: the community module's sort is a choice among the reorderings, so *)
(* that a sorted one exists is shown by ranking the places.                   *)

\* Where B[i] are the places before i in a total order of the places, the place
\* with k - 1 others before it is one of a kind, and they are in order.
Ranked(n, B) ==
    /\ \A k \in 1 .. n : \E i \in 1 .. n : Cardinality(B[i]) = k - 1
    /\ \A q \in [1 .. n -> 1 .. n] :
         (\A k \in 1 .. n : Cardinality(B[q[k]]) = k - 1) =>
            /\ \A w \in 1 .. n : \E v \in 1 .. n : q[v] = w
            /\ \A i, j \in 1 .. n : i < j => q[i] \in B[q[j]]

\* The places of a strict total order are ranked by the number of those before them.
LEMMA Ranks ==
  ASSUME NEW n \in Nat, NEW B \in [1 .. n -> SUBSET (1 .. n)],
         \A i \in 1 .. n : i \notin B[i],
         \A i, j \in 1 .. n : i # j => i \in B[j] \/ j \in B[i],
         \A i, j \in 1 .. n : i \in B[j] => B[i] \subseteq B[j]
  PROVE  Ranked(n, B)
<1> DEFINE S == 1 .. n
<1> DEFINE r == [i \in S |-> Cardinality(B[i]) + 1]
<1>1. IsFiniteSet(S) /\ Cardinality(S) = n
  BY FS_Interval
<1>2. ASSUME NEW i \in S PROVE Cardinality(B[i]) \in Nat /\ Cardinality(B[i]) < n /\ IsFiniteSet(B[i])
  <2>1. B[i] \in SUBSET S /\ B[i] # S
    OBVIOUS
  <2>2. IsFiniteSet(B[i]) /\ Cardinality(B[i]) <= n /\ Cardinality(B[i]) # n
    <3> HIDE DEF S
    <3> QED BY <1>1, <2>1, FS_Subset
  <2>3. Cardinality(B[i]) \in Nat
    BY <2>2, FS_CardinalityType
  <2> QED BY <2>2, <2>3
<1>3. r \in [S -> S]
  BY <1>2
<1>4. ASSUME NEW i \in S, NEW j \in S, i \in B[j] PROVE r[i] < r[j]
  <2>1. B[i] \in SUBSET B[j] /\ B[i] # B[j]
    BY <1>4
  <2>2. Cardinality(B[i]) <= Cardinality(B[j]) /\ Cardinality(B[i]) # Cardinality(B[j])
    BY <1>2, <2>1, FS_Subset
  <2> QED BY <1>2, <2>2
<1>5. ASSUME NEW i \in S, NEW j \in S, r[i] = r[j] PROVE i = j
  <2> SUFFICES ASSUME i # j PROVE FALSE
    OBVIOUS
  <2>1. i \in B[j] \/ j \in B[i]
    OBVIOUS
  <2>2. r[i] < r[j] \/ r[j] < r[i]
    <3> HIDE DEF r, S
    <3> QED BY <1>4, <2>1
  <2>3. r[i] \in Nat /\ r[j] \in Nat
    BY <1>2
  <2> HIDE DEF r
  <2> QED BY <1>5, <2>2, <2>3
<1>6. \A w \in S : \E v \in S : r[v] = w
  <2> HIDE DEF r, S
  <2>1. r \in Injection(S, S)
    BY <1>3, <1>5 DEF Injection, IsInjective
  <2>2. r \in Surjection(S, S)
    BY <1>1, <2>1, FS_Injection
  <2> QED BY <2>2 DEF Surjection
<1>a. ASSUME NEW k \in S PROVE \E i \in S : Cardinality(B[i]) = k - 1
  <2>1. PICK v \in S : r[v] = k
    <3> HIDE DEF r, S
    <3> QED BY <1>6
  <2>2. Cardinality(B[v]) = k - 1
    BY <1>2, <2>1
  <2> QED BY <2>2
<1>b. SUFFICES ASSUME NEW q \in [S -> S], \A k \in S : Cardinality(B[q[k]]) = k - 1
               PROVE  /\ \A w \in S : \E v \in S : q[v] = w
                      /\ \A i, j \in S : i < j => q[i] \in B[q[j]]
  BY <1>a DEF Ranked
<1>7. ASSUME NEW k \in S PROVE q[k] \in S /\ r[q[k]] = k
  BY <1>2, <1>b
<1>9. ASSUME NEW w \in S PROVE \E v \in S : q[v] = w
  <2>1. r[w] \in S
    BY <1>3
  <2>2. q[r[w]] \in S /\ r[q[r[w]]] = r[w]
    <3> HIDE DEF r, S
    <3> QED BY <1>7, <2>1
  <2> HIDE DEF r, S
  <2> QED BY <1>5, <2>1, <2>2
<1>10. ASSUME NEW i \in S, NEW j \in S, i < j PROVE q[i] \in B[q[j]]
  <2>1. q[i] \in S /\ r[q[i]] = i /\ q[j] \in S /\ r[q[j]] = j
    <3> HIDE DEF r, S
    <3> QED BY <1>7
  <2>2. q[i] # q[j]
    <3> SUFFICES ASSUME q[i] = q[j] PROVE FALSE
      OBVIOUS
    <3>1. i = j
      <4> HIDE DEF r, S
      <4> QED BY <2>1
    <3> QED BY <1>10, <3>1
  <2>3. q[i] \in B[q[j]] \/ q[j] \in B[q[i]]
    BY <2>1, <2>2
  <2>4. ~ (q[j] \in B[q[i]])
    <3> SUFFICES ASSUME q[j] \in B[q[i]] PROVE FALSE
      OBVIOUS
    <3>1. r[q[j]] < r[q[i]]
      <4> HIDE DEF r, S
      <4> QED BY <1>4, <2>1
    <3> HIDE DEF r
    <3> QED BY <1>10, <2>1, <3>1
  <2> QED BY <2>3, <2>4
<1> QED BY <1>9, <1>10

\* Earlier and Better order segments strictly.
LEMMA EarlierIsOrder ==
  ASSUME NEW g, NEW h, NEW l, g.from \in Int, g.to \in Int, h.from \in Int, h.to \in Int,
         l.from \in Int, l.to \in Int
  PROVE  /\ ~ Earlier(g, g)
         /\ Earlier(g, h) => ~ Earlier(h, g)
         /\ Earlier(g, h) /\ Earlier(h, l) => Earlier(g, l)
         /\ ~ Earlier(h, g) /\ ~ Earlier(l, h) => ~ Earlier(l, g)
BY DEF Earlier

\* The merit of cues is such an order too.
LEMMA BetterIsOrder ==
  ASSUME NEW g, NEW h, NEW l,
         confidenceOf[g.source] \in Int, confidenceOf[h.source] \in Int,
         confidenceOf[l.source] \in Int,
         g.source \in Int, h.source \in Int, l.source \in Int
  PROVE  /\ ~ Better(g, g)
         /\ Better(g, h) => ~ Better(h, g)
         /\ Better(g, h) /\ Better(h, l) => Better(g, l)
         /\ ~ Better(h, g) /\ ~ Better(l, h) => ~ Better(l, g)
BY DEF Better

\* A stable sort by a relation L of places, given as the places before each.
StableBefore(n, L) ==
    [i \in 1 .. n |-> {j \in 1 .. n : <<j, i>> \in L \/ (j < i /\ <<i, j>> \notin L)}]

\* A strict order of the places that leaves some of them equal.
Asymmetric(n, L)    == \A i, j \in 1 .. n : <<i, j>> \in L => <<j, i>> \notin L
NegTransitive(n, L) == \A i, j, k \in 1 .. n : <<j, i>> \notin L /\ <<k, j>> \notin L => <<k, i>> \notin L

\* A stable sort ranks the places.
LEMMA StableRanks ==
  ASSUME NEW n \in Nat, NEW L, Asymmetric(n, L), NegTransitive(n, L)
  PROVE  Ranked(n, StableBefore(n, L))
<1> PICK B : B = StableBefore(n, L)
  OBVIOUS
<1>1. B \in [1 .. n -> SUBSET (1 .. n)]
  BY DEF StableBefore
<1>2. ASSUME NEW i \in 1 .. n, NEW j \in 1 .. n
      PROVE  j \in B[i] <=> (<<j, i>> \in L \/ (j < i /\ <<i, j>> \notin L))
  BY DEF StableBefore
<1>3. ASSUME NEW i \in 1 .. n, NEW j \in 1 .. n PROVE <<i, j>> \in L => <<j, i>> \notin L
  BY DEF Asymmetric
<1>4. ASSUME NEW i \in 1 .. n, NEW j \in 1 .. n, NEW k \in 1 .. n,
             <<j, i>> \notin L, <<k, j>> \notin L PROVE <<k, i>> \notin L
  BY <1>4 DEF NegTransitive
<1>5. ASSUME NEW i \in 1 .. n PROVE i \notin B[i]
  <2>1. i \in B[i] <=> (<<i, i>> \in L \/ (i < i /\ <<i, i>> \notin L))
    BY <1>2
  <2>2. <<i, i>> \in L => <<i, i>> \notin L
    BY <1>3
  <2> QED BY <2>1, <2>2
<1>6. ASSUME NEW i \in 1 .. n, NEW j \in 1 .. n, i # j PROVE i \in B[j] \/ j \in B[i]
  <2>1. i < j \/ j < i
    BY <1>6
  <2>2. i \in B[j] <=> (<<i, j>> \in L \/ (i < j /\ <<j, i>> \notin L))
    BY <1>2
  <2>3. j \in B[i] <=> (<<j, i>> \in L \/ (j < i /\ <<i, j>> \notin L))
    BY <1>2
  <2> QED BY <2>1, <2>2, <2>3
<1>7. ASSUME NEW i \in 1 .. n, NEW j \in 1 .. n, i \in B[j] PROVE B[i] \subseteq B[j]
  <2> SUFFICES ASSUME NEW m \in B[i] PROVE m \in B[j]
    OBVIOUS
  <2>1. m \in 1 .. n
    BY <1>1
  <2>a. <<m, i>> \in L \/ (m < i /\ <<i, m>> \notin L)
    BY <1>2, <2>1
  <2>b. <<i, j>> \in L \/ (i < j /\ <<j, i>> \notin L)
    BY <1>2, <1>7
  <2>2. <<i, m>> \notin L /\ <<j, i>> \notin L
    BY <1>3, <2>1, <2>a, <2>b
  <2>3. <<j, m>> \notin L
    BY <1>4, <2>1, <2>2
  <2>c. m \in B[j] <=> (<<m, j>> \in L \/ (m < j /\ <<j, m>> \notin L))
    BY <1>2, <2>1
  <2>4. CASE m < j
    BY <2>3, <2>4, <2>c
  <2>5. CASE ~ (m < j)
    <3>1. <<m, i>> \in L \/ <<i, j>> \in L
      BY <2>1, <2>5, <2>a, <2>b
    <3>2. CASE <<m, j>> \notin L
      <4>1. CASE <<m, i>> \in L
        <5>1. <<m, i>> \notin L
          BY <1>4, <2>1, <2>2, <3>2
        <5> QED BY <4>1, <5>1
      <4>2. CASE <<i, j>> \in L
        <5>1. <<i, j>> \notin L
          BY <1>4, <2>1, <2>2, <3>2
        <5> QED BY <4>2, <5>1
      <4> QED BY <3>1, <4>1, <4>2
    <3> QED BY <3>2, <2>c
  <2> QED BY <2>4, <2>5
<1> QED BY <1>1, <1>5, <1>6, <1>7, Ranks

\* out has the elements of segs, each place's in one place.
Reorders(q, segs, out) ==
    /\ q \in [1 .. Len(segs) -> 1 .. Len(segs)]
    /\ \A k \in 1 .. Len(segs) : out[k] = segs[q[k]]
    /\ \A w \in 1 .. Len(segs) : \E k \in 1 .. Len(segs) : q[k] = w
    /\ \A i, j \in 1 .. Len(segs) : i < j => q[i] # q[j]

\* What Sorted and the order of merit make of a sequence: its elements, each in
\* one place, none behind a later one.
LEMMA SortedIs ==
  ASSUME NEW T, \A g \in T : g.from \in Int /\ g.to \in Int,
         NEW segs \in Seq(T)
  PROVE  LET out == Sorted(segs)
         IN  /\ out \in Seq(T) /\ Len(out) = Len(segs)
             /\ \E q : Reorders(q, segs, out)
             /\ \A i, j \in 1 .. Len(segs) : i < j => ~ Earlier(out[j], out[i])
<1>0. PICK n : n = Len(segs) /\ n \in Nat /\ DOMAIN segs = 1 .. n
  OBVIOUS
<1> DEFINE L == {p \in (1 .. n) \X (1 .. n) : Earlier(segs[p[1]], segs[p[2]])}
           before(i) == {j \in 1 .. n : Earlier(segs[j], segs[i]) \/ (j < i /\ ~ Earlier(segs[i], segs[j]))}
           B == [i \in 1 .. n |-> before(i)]
           q == [k \in 1 .. n |-> CHOOSE i \in 1 .. n : Cardinality(before(i)) = k - 1]
           out == Sorted(segs)
<1>1. \A i, j \in 1 .. n : <<i, j>> \in L <=> Earlier(segs[i], segs[j])
  OBVIOUS
<1>2. Asymmetric(n, L) /\ NegTransitive(n, L)
  <2> HIDE DEF L
  <2>1. ASSUME NEW i \in 1 .. n, NEW j \in 1 .. n, NEW k \in 1 .. n
        PROVE  /\ ~ Earlier(segs[i], segs[i])
               /\ Earlier(segs[i], segs[j]) => ~ Earlier(segs[j], segs[i])
               /\ ~ Earlier(segs[j], segs[i]) /\ ~ Earlier(segs[k], segs[j]) => ~ Earlier(segs[k], segs[i])
    <3>1. segs[i] \in T /\ segs[j] \in T /\ segs[k] \in T
      BY <1>0
    <3> QED BY <3>1, EarlierIsOrder
  <2> QED BY <1>1, <2>1 DEF Asymmetric, NegTransitive
<1>3. B = StableBefore(n, L)
  <2>1. \A i \in 1 .. n : before(i) = {j \in 1 .. n : <<j, i>> \in L \/ (j < i /\ <<i, j>> \notin L)}
    <3> HIDE DEF L
    <3> QED BY <1>1
  <2> HIDE DEF L, before
  <2> QED BY <2>1 DEF StableBefore
<1>b. ASSUME NEW i \in 1 .. n PROVE B[i] = before(i)
  <2> HIDE DEF before
  <2> QED OBVIOUS
<1>r. Ranked(n, B)
  <2> HIDE DEF B, L, before
  <2>1. Ranked(n, StableBefore(n, L))
    BY <1>0, <1>2, StableRanks
  <2> QED BY <1>3, <2>1
<1>c. ASSUME NEW k \in 1 .. n PROVE \E i \in 1 .. n : Cardinality(before(i)) = k - 1
  <2> HIDE DEF B, L, before
  <2>1. PICK i \in 1 .. n : Cardinality(B[i]) = k - 1
    BY <1>r DEF Ranked
  <2> QED BY <1>b, <2>1
<1>d. ASSUME NEW k \in 1 .. n PROVE q[k] \in 1 .. n /\ Cardinality(B[q[k]]) = k - 1
  <2> HIDE DEF before, B
  <2>1. q[k] = CHOOSE i \in 1 .. n : Cardinality(before(i)) = k - 1
    OBVIOUS
  <2> HIDE DEF q
  <2>2. q[k] \in 1 .. n /\ Cardinality(before(q[k])) = k - 1
    BY <1>c, <2>1
  <2> QED BY <1>b, <2>2
<1>4. /\ q \in [1 .. n -> 1 .. n]
      /\ \A w \in 1 .. n : \E v \in 1 .. n : q[v] = w
      /\ \A i, j \in 1 .. n : i < j => q[i] \in B[q[j]]
  <2>1. q = [k \in 1 .. n |-> q[k]]
    <3> HIDE DEF before
    <3> QED OBVIOUS
  <2> HIDE DEF L, B, q
  <2>2. q \in [1 .. n -> 1 .. n]
    BY <1>d, <2>1
  <2> QED BY <1>r, <1>d, <2>2 DEF Ranked
<1>5. out = [k \in 1 .. n |-> segs[q[k]]]
  <2>1. out = [k \in 1 .. n |-> segs[CHOOSE i \in 1 .. n : Cardinality(before(i)) = k - 1]]
    BY <1>0 DEF SortedBy, Sorted
  <2>2. ASSUME NEW k \in 1 .. n PROVE out[k] = segs[q[k]]
    <3> HIDE DEF out, before
    <3>1. out[k] = segs[CHOOSE i \in 1 .. n : Cardinality(before(i)) = k - 1]
      BY <2>1
    <3>2. q[k] = CHOOSE i \in 1 .. n : Cardinality(before(i)) = k - 1
      OBVIOUS
    <3> HIDE DEF q
    <3> QED BY <3>1, <3>2, Zenon
  <2>3. out = [k \in 1 .. n |-> out[k]]
    <3> HIDE DEF out, before
    <3> QED BY <2>1
  <2> HIDE DEF q, before, out
  <2> QED BY <2>2, <2>3
<1>6. out \in Seq(T) /\ Len(out) = n /\ \A k \in 1 .. n : out[k] = segs[q[k]]
  <2>1. ASSUME NEW k \in 1 .. n PROVE segs[q[k]] \in T
    <3> HIDE DEF q
    <3>1. q[k] \in 1 .. n
      BY <1>4
    <3> QED BY <1>0, <3>1
  <2> HIDE DEF q, out
  <2>2. out \in [1 .. n -> T]
    BY <1>5, <2>1
  <2> QED BY <1>0, <1>5, <2>2
<1>7. ASSUME NEW i \in 1 .. n, NEW j \in 1 .. n, i < j
      PROVE  q[i] # q[j] /\ ~ Earlier(segs[q[j]], segs[q[i]])
  <2>1. q[i] \in 1 .. n /\ q[j] \in 1 .. n /\ q[i] \in B[q[j]]
    <3> HIDE DEF q, B
    <3> QED BY <1>4, <1>7
  <2>2. <<q[i], q[j]>> \in L \/ (q[i] < q[j] /\ <<q[j], q[i]>> \notin L)
    <3> HIDE DEF q, L, B
    <3> QED BY <1>3, <2>1 DEF StableBefore
  <2>3. <<q[j], q[i]>> \notin L /\ q[i] # q[j]
    <3> HIDE DEF q, L
    <3> QED BY <1>2, <2>1, <2>2 DEF Asymmetric
  <2> HIDE DEF q, L
  <2> QED BY <1>1, <2>1, <2>3
<1>8. Reorders(q, segs, out)
  <2>1. /\ q \in [1 .. n -> 1 .. n]
        /\ \A w \in 1 .. n : \E k \in 1 .. n : q[k] = w
    <3> HIDE DEF q, B
    <3> QED BY <1>4
  <2> HIDE DEF q, out
  <2> QED BY <1>0, <1>6, <1>7, <2>1 DEF Reorders
<1>9. ASSUME NEW i \in 1 .. n, NEW j \in 1 .. n, i < j PROVE ~ Earlier(out[j], out[i])
  <2> HIDE DEF q, out
  <2> QED BY <1>6, <1>7, <1>9
<1>a. out \in Seq(T) /\ Len(out) = n
  BY <1>6
<1> HIDE DEF q
<1> QED BY <1>0, <1>8, <1>9, <1>a

\* A sequence by merit is a reordering of its cues, none behind a worse one.
LEMMA MeritedIs ==
  ASSUME NEW T, \A g \in T : confidenceOf[g.source] \in Int /\ g.source \in Int,
         NEW segs \in Seq(T)
  PROVE  LET out == ByMerit(segs)
         IN  /\ out \in Seq(T) /\ Len(out) = Len(segs)
             /\ \E q : Reorders(q, segs, out)
             /\ \A i, j \in 1 .. Len(segs) : i < j => ~ Better(out[j], out[i])
<1>0. PICK n : n = Len(segs) /\ n \in Nat /\ DOMAIN segs = 1 .. n
  OBVIOUS
<1> DEFINE L == {p \in (1 .. n) \X (1 .. n) : Better(segs[p[1]], segs[p[2]])}
           before(i) == {j \in 1 .. n : Better(segs[j], segs[i]) \/ (j < i /\ ~ Better(segs[i], segs[j]))}
           B == [i \in 1 .. n |-> before(i)]
           q == [k \in 1 .. n |-> CHOOSE i \in 1 .. n : Cardinality(before(i)) = k - 1]
           out == ByMerit(segs)
<1>1. \A i, j \in 1 .. n : <<i, j>> \in L <=> Better(segs[i], segs[j])
  OBVIOUS
<1>2. Asymmetric(n, L) /\ NegTransitive(n, L)
  <2> HIDE DEF L
  <2>1. ASSUME NEW i \in 1 .. n, NEW j \in 1 .. n, NEW k \in 1 .. n
        PROVE  /\ ~ Better(segs[i], segs[i])
               /\ Better(segs[i], segs[j]) => ~ Better(segs[j], segs[i])
               /\ ~ Better(segs[j], segs[i]) /\ ~ Better(segs[k], segs[j]) => ~ Better(segs[k], segs[i])
    <3>1. segs[i] \in T /\ segs[j] \in T /\ segs[k] \in T
      BY <1>0
    <3> QED BY <3>1, BetterIsOrder
  <2> QED BY <1>1, <2>1 DEF Asymmetric, NegTransitive
<1>3. B = StableBefore(n, L)
  <2>1. \A i \in 1 .. n : before(i) = {j \in 1 .. n : <<j, i>> \in L \/ (j < i /\ <<i, j>> \notin L)}
    <3> HIDE DEF L
    <3> QED BY <1>1
  <2> HIDE DEF L, before
  <2> QED BY <2>1 DEF StableBefore
<1>b. ASSUME NEW i \in 1 .. n PROVE B[i] = before(i)
  <2> HIDE DEF before
  <2> QED OBVIOUS
<1>r. Ranked(n, B)
  <2> HIDE DEF B, L, before
  <2>1. Ranked(n, StableBefore(n, L))
    BY <1>0, <1>2, StableRanks
  <2> QED BY <1>3, <2>1
<1>c. ASSUME NEW k \in 1 .. n PROVE \E i \in 1 .. n : Cardinality(before(i)) = k - 1
  <2> HIDE DEF B, L, before
  <2>1. PICK i \in 1 .. n : Cardinality(B[i]) = k - 1
    BY <1>r DEF Ranked
  <2> QED BY <1>b, <2>1
<1>d. ASSUME NEW k \in 1 .. n PROVE q[k] \in 1 .. n /\ Cardinality(B[q[k]]) = k - 1
  <2> HIDE DEF before, B
  <2>1. q[k] = CHOOSE i \in 1 .. n : Cardinality(before(i)) = k - 1
    OBVIOUS
  <2> HIDE DEF q
  <2>2. q[k] \in 1 .. n /\ Cardinality(before(q[k])) = k - 1
    BY <1>c, <2>1
  <2> QED BY <1>b, <2>2
<1>4. /\ q \in [1 .. n -> 1 .. n]
      /\ \A w \in 1 .. n : \E v \in 1 .. n : q[v] = w
      /\ \A i, j \in 1 .. n : i < j => q[i] \in B[q[j]]
  <2>1. q = [k \in 1 .. n |-> q[k]]
    <3> HIDE DEF before
    <3> QED OBVIOUS
  <2> HIDE DEF L, B, q
  <2>2. q \in [1 .. n -> 1 .. n]
    BY <1>d, <2>1
  <2> QED BY <1>r, <1>d, <2>2 DEF Ranked
<1>5. out = [k \in 1 .. n |-> segs[q[k]]]
  <2>1. out = [k \in 1 .. n |-> segs[CHOOSE i \in 1 .. n : Cardinality(before(i)) = k - 1]]
    BY <1>0 DEF SortedBy, ByMerit
  <2>2. ASSUME NEW k \in 1 .. n PROVE out[k] = segs[q[k]]
    <3> HIDE DEF out, before
    <3>1. out[k] = segs[CHOOSE i \in 1 .. n : Cardinality(before(i)) = k - 1]
      BY <2>1
    <3>2. q[k] = CHOOSE i \in 1 .. n : Cardinality(before(i)) = k - 1
      OBVIOUS
    <3> HIDE DEF q
    <3> QED BY <3>1, <3>2, Zenon
  <2>3. out = [k \in 1 .. n |-> out[k]]
    <3> HIDE DEF out, before
    <3> QED BY <2>1
  <2> HIDE DEF q, before, out
  <2> QED BY <2>2, <2>3
<1>6. out \in Seq(T) /\ Len(out) = n /\ \A k \in 1 .. n : out[k] = segs[q[k]]
  <2>1. ASSUME NEW k \in 1 .. n PROVE segs[q[k]] \in T
    <3> HIDE DEF q
    <3>1. q[k] \in 1 .. n
      BY <1>4
    <3> QED BY <1>0, <3>1
  <2> HIDE DEF q, out
  <2>2. out \in [1 .. n -> T]
    BY <1>5, <2>1
  <2> QED BY <1>0, <1>5, <2>2
<1>7. ASSUME NEW i \in 1 .. n, NEW j \in 1 .. n, i < j
      PROVE  q[i] # q[j] /\ ~ Better(segs[q[j]], segs[q[i]])
  <2>1. q[i] \in 1 .. n /\ q[j] \in 1 .. n /\ q[i] \in B[q[j]]
    <3> HIDE DEF q, B
    <3> QED BY <1>4, <1>7
  <2>2. <<q[i], q[j]>> \in L \/ (q[i] < q[j] /\ <<q[j], q[i]>> \notin L)
    <3> HIDE DEF q, L, B
    <3> QED BY <1>3, <2>1 DEF StableBefore
  <2>3. <<q[j], q[i]>> \notin L /\ q[i] # q[j]
    <3> HIDE DEF q, L
    <3> QED BY <1>2, <2>1, <2>2 DEF Asymmetric
  <2> HIDE DEF q, L
  <2> QED BY <1>1, <2>1, <2>3
<1>8. Reorders(q, segs, out)
  <2>1. /\ q \in [1 .. n -> 1 .. n]
        /\ \A w \in 1 .. n : \E k \in 1 .. n : q[k] = w
    <3> HIDE DEF q, B
    <3> QED BY <1>4
  <2> HIDE DEF q, out
  <2> QED BY <1>0, <1>6, <1>7, <2>1 DEF Reorders
<1>9. ASSUME NEW i \in 1 .. n, NEW j \in 1 .. n, i < j PROVE ~ Better(out[j], out[i])
  <2> HIDE DEF q, out
  <2> QED BY <1>6, <1>7, <1>9
<1>a. out \in Seq(T) /\ Len(out) = n
  BY <1>6
<1> HIDE DEF q
<1> QED BY <1>0, <1>8, <1>9, <1>a

-----------------------------------------------------------------------------
(* What each step of the folds of the record keeps. *)

\* What Joined leaves of the first j cues: as many sources, each cue some time.
BridgeOf(segs, j, out) ==
    /\ \A a \in 1 .. Len(out) : out[a].from < out[a].to
    /\ \A i \in 1 .. j : \E a \in 1 .. Len(out) : out[a].source = segs[i].source

\* One more cue leaves Joined's output what is said of it.
LEMMA BridgeStep ==
  ASSUME NEW segs \in CueSeq, NEW j \in 1 .. Len(segs), NEW out \in CueSeq,
         segs[j].from < segs[j].to, BridgeOf(segs, j - 1, out)
  PROVE  BridgeOf(segs, j, Bridges(out, segs[j]))
<1>0. PICK n, g : n = Len(out) /\ n \in Nat /\ g = segs[j] /\ g \in Cue
  BY DEF CueSeq
<1>j. j \in Nat /\ j >= 1
  BY DEF CueSeq
<1>i. g.from \in Int /\ g.to \in Int
  BY <1>0 DEF Cue
<1>1. /\ \A a \in 1 .. n : out[a].from < out[a].to
      /\ \A i \in 1 .. j - 1 : \E a \in 1 .. n : out[a].source = segs[i].source
  BY <1>0 DEF BridgeOf
<1>2. CASE out # <<>> /\ Joins(Last(out), g)
  <2>0. PICK front, l, new : front = Front(out) /\ l = Last(out) /\ new = [l EXCEPT !.to = g.to, !.text = @ \union g.text]
    OBVIOUS
  <2>1. n \in 1 .. n /\ l = out[n] /\ l \in Cue /\ n - 1 \in Nat
    BY <1>0, <1>2, <2>0 DEF Last, CueSeq
  <2>2. /\ front \in CueSeq /\ Len(front) = n - 1 /\ \A a \in 1 .. n - 1 : front[a] = out[a]
    BY <1>0, <1>2, <2>0, <2>1 DEF Front, CueSeq
  <2>3. new \in Cue /\ new.from = l.from /\ new.to = g.to /\ new.source = l.source /\ l.from \in Int /\ l.to \in Int
    BY <1>0, <2>0, <2>1 DEF Cue
  <2>4. new.from < new.to /\ l.source = g.source
    <3>1. l.from < l.to /\ g.from > l.to /\ g.from < g.to /\ l.source = g.source
      BY <1>0, <1>1, <1>2, <2>0, <2>1 DEF Joins
    <3> QED BY <1>i, <2>3, <3>1
  <2>5. PICK all : all = Append(front, new)
    OBVIOUS
  <2>6. Bridges(out, segs[j]) = all
    BY <1>0, <1>2, <2>0, <2>5 DEF Bridges
  <2>7. Len(all) = n /\ all[n] = new /\ \A a \in 1 .. n - 1 : all[a] = out[a]
    BY <1>0, <2>1, <2>2, <2>3, <2>5 DEF CueSeq
  <2>8. \A a \in 1 .. n : all[a].from < all[a].to /\ all[a].source = out[a].source
    <3> SUFFICES ASSUME NEW a \in 1 .. n PROVE all[a].from < all[a].to /\ all[a].source = out[a].source
      OBVIOUS
    <3>1. CASE a = n
      BY <2>1, <2>3, <2>4, <2>7, <3>1
    <3>2. CASE a # n
      <4>1. a \in 1 .. n - 1
        BY <1>0, <3>2
      <4> QED BY <1>1, <2>7, <4>1
    <3> QED BY <3>1, <3>2
  <2>9. ASSUME NEW i \in 1 .. j PROVE \E a \in 1 .. n : all[a].source = segs[i].source
    <3>1. CASE i = j
      BY <1>0, <2>1, <2>3, <2>4, <2>7, <3>1
    <3>2. CASE i # j
      <4>1. i \in 1 .. j - 1
        BY <1>j, <3>2
      <4> QED BY <1>1, <2>8, <4>1
    <3> QED BY <3>1, <3>2
  <2> QED BY <2>6, <2>7, <2>8, <2>9 DEF BridgeOf
<1>3. CASE ~ (out # <<>> /\ Joins(Last(out), g))
  <2>0. PICK all : all = Append(out, g)
    OBVIOUS
  <2>1. Bridges(out, segs[j]) = all
    BY <1>0, <1>3, <2>0 DEF Bridges
  <2>2. Len(all) = n + 1 /\ all[n + 1] = g /\ \A a \in 1 .. n : all[a] = out[a]
    BY <1>0, <2>0 DEF CueSeq
  <2>3. ASSUME NEW a \in 1 .. n + 1 PROVE all[a].from < all[a].to
    <3>1. a = n + 1 \/ a \in 1 .. n
      BY <1>0
    <3> QED BY <1>0, <1>1, <2>2, <3>1
  <2>4. ASSUME NEW i \in 1 .. j PROVE \E a \in 1 .. n + 1 : all[a].source = segs[i].source
    <3>1. CASE i = j
      BY <1>0, <2>2, <3>1
    <3>2. CASE i # j
      <4>1. i \in 1 .. j - 1
        BY <1>j, <3>2
      <4>2. \A a \in 1 .. n : a \in 1 .. n + 1
        BY <1>0
      <4> QED BY <1>1, <2>2, <4>1, <4>2
    <3> QED BY <3>1, <3>2
  <2> QED BY <2>1, <2>2, <2>3, <2>4 DEF BridgeOf
<1> QED BY <1>2, <1>3

\* What is said of Joined's steps holds at the end.
LEMMA BridgeAll ==
  ASSUME NEW segs \in CueSeq, \A i \in 1 .. Len(segs) : segs[i].from < segs[i].to
  PROVE  LET out == FoldLeft(Bridges, <<>>, segs)
         IN  out \in CueSeq /\ BridgeOf(segs, Len(segs), out)
<1>0. PICK n : n = Len(segs) /\ n \in Nat
  BY DEF CueSeq
<1>1. PICK f \in [0 .. n -> CueSeq] :
        /\ f[0] = <<>>
        /\ \A k \in 1 .. n : f[k] = Bridges(f[k - 1], segs[k])
        /\ FoldLeft(Bridges, <<>>, segs) = f[n]
  BY <1>0, BridgesFolds DEF CueSeq
<1> DEFINE P == {k \in 0 .. n : BridgeOf(segs, k, f[k])}
<1>2. 0 \in P
  <2>1. 1 .. 0 = {} /\ Len(<<>>) = 0
    OBVIOUS
  <2>2. BridgeOf(segs, 0, <<>>)
    BY <2>1 DEF BridgeOf
  <2> QED BY <1>0, <1>1, <2>2
<1>3. ASSUME NEW k \in 1 .. n, k - 1 \in P PROVE k \in P
  <2>1. f[k - 1] \in CueSeq /\ f[k] = Bridges(f[k - 1], segs[k])
    BY <1>0, <1>1
  <2>2. BridgeOf(segs, k, f[k])
    BY <1>0, <1>3, <2>1, BridgeStep
  <2> QED BY <2>2
<1>4. n \in P
  <2> HIDE DEF P
  <2>1. \A k \in 0 .. n : k \in P
    BY <1>0, <1>2, <1>3, Upwards
  <2> QED BY <1>0, <2>1
<1> QED BY <1>0, <1>1, <1>4

\* What is chosen of the first j cues: no two of it overlap, and what is left out
\* overlaps a chosen one before it.
AdmitOf(segs, j, chosen) ==
    /\ \A a, b \in 1 .. Len(chosen) : a # b => ~ Overlap(chosen[a], chosen[b])
    /\ \A a \in 1 .. Len(chosen) : \E i \in 1 .. j : chosen[a] = segs[i]
    /\ \A i \in 1 .. j : \/ \E a \in 1 .. Len(chosen) : chosen[a] = segs[i]
                         \/ \E a \in 1 .. Len(chosen), k \in 1 .. i - 1 :
                              chosen[a] = segs[k] /\ Overlap(segs[i], chosen[a])

\* One more cue leaves Resolved's choice what is said of it.
LEMMA AdmitStep ==
  ASSUME NEW segs \in CueSeq, NEW j \in 1 .. Len(segs), NEW chosen \in CueSeq,
         AdmitOf(segs, j - 1, chosen)
  PROVE  AdmitOf(segs, j, Admits(chosen, segs[j]))
<1>0. PICK n, g : n = Len(chosen) /\ n \in Nat /\ g = segs[j] /\ g \in Cue
  BY DEF CueSeq
<1>j. j \in Nat /\ j >= 1
  BY DEF CueSeq
<1>1. /\ \A a, b \in 1 .. n : a # b => ~ Overlap(chosen[a], chosen[b])
      /\ \A a \in 1 .. n : \E i \in 1 .. j - 1 : chosen[a] = segs[i]
      /\ \A i \in 1 .. j - 1 : \/ \E a \in 1 .. n : chosen[a] = segs[i]
                               \/ \E a \in 1 .. n, k \in 1 .. i - 1 :
                                    chosen[a] = segs[k] /\ Overlap(segs[i], chosen[a])
  BY <1>0 DEF AdmitOf
<1>s. \A i \in 1 .. j - 1 : i \in 1 .. j
  BY <1>j
<1>k. Keeps(chosen, g) <=> \A a \in 1 .. n : ~ Overlap(g, chosen[a])
  BY <1>0 DEF Keeps, ToSet, CueSeq
<1>2. CASE Keeps(chosen, g)
  <2>0. PICK all : all = Append(chosen, g)
    OBVIOUS
  <2>1. Admits(chosen, segs[j]) = all
    BY <1>0, <1>2, <2>0 DEF Admits
  <2>2. Len(all) = n + 1 /\ all[n + 1] = g /\ \A a \in 1 .. n : all[a] = chosen[a]
    BY <1>0, <2>0 DEF CueSeq
  <2>3. ASSUME NEW a \in 1 .. n + 1, NEW b \in 1 .. n + 1, a # b PROVE ~ Overlap(all[a], all[b])
    <3>1. CASE a \in 1 .. n /\ b \in 1 .. n
      BY <1>1, <2>2, <2>3, <3>1
    <3>2. CASE a = n + 1 /\ b \in 1 .. n
      BY <1>2, <1>k, <2>2, <3>2
    <3>3. CASE b = n + 1 /\ a \in 1 .. n
      <4>1. ~ Overlap(g, chosen[a])
        BY <1>2, <1>k, <3>3
      <4>2. ~ Overlap(chosen[a], g)
        BY <4>1 DEF Overlap
      <4> QED BY <2>2, <3>3, <4>2
    <3> QED BY <1>0, <2>3, <3>1, <3>2, <3>3
  <2>4. ASSUME NEW a \in 1 .. n + 1 PROVE \E i \in 1 .. j : all[a] = segs[i]
    <3>1. CASE a = n + 1
      BY <1>0, <1>j, <2>2, <3>1
    <3>2. CASE a \in 1 .. n
      BY <1>1, <1>s, <2>2, <3>2
    <3> QED BY <1>0, <3>1, <3>2
  <2>5. ASSUME NEW i \in 1 .. j
        PROVE  \/ \E a \in 1 .. n + 1 : all[a] = segs[i]
               \/ \E a \in 1 .. n + 1, k \in 1 .. i - 1 : all[a] = segs[k] /\ Overlap(segs[i], all[a])
    <3>1. CASE i = j
      <4>1. n + 1 \in 1 .. n + 1
        BY <1>0
      <4> QED BY <1>0, <2>2, <3>1, <4>1
    <3>2. CASE i \in 1 .. j - 1
      <4>1. \A a \in 1 .. n : a \in 1 .. n + 1
        BY <1>0
      <4>2. CASE \E a \in 1 .. n : chosen[a] = segs[i]
        BY <2>2, <4>1, <4>2
      <4>3. CASE \E a \in 1 .. n, k \in 1 .. i - 1 : chosen[a] = segs[k] /\ Overlap(segs[i], chosen[a])
        BY <2>2, <4>1, <4>3
      <4> QED BY <1>1, <3>2, <4>2, <4>3
    <3> QED BY <1>j, <3>1, <3>2
  <2> QED BY <2>1, <2>2, <2>3, <2>4, <2>5 DEF AdmitOf
<1>3. CASE ~ Keeps(chosen, g)
  <2>1. Admits(chosen, segs[j]) = chosen
    BY <1>0, <1>3 DEF Admits
  <2>2. ASSUME NEW i \in 1 .. j
        PROVE  \/ \E a \in 1 .. n : chosen[a] = segs[i]
               \/ \E a \in 1 .. n, k \in 1 .. i - 1 : chosen[a] = segs[k] /\ Overlap(segs[i], chosen[a])
    <3>1. CASE i = j
      <4>1. PICK a \in 1 .. n : Overlap(g, chosen[a])
        BY <1>3, <1>k
      <4> QED BY <1>0, <1>1, <3>1, <4>1
    <3>2. CASE i \in 1 .. j - 1
      BY <1>1, <3>2
    <3> QED BY <1>j, <3>1, <3>2
  <2>3. \A a \in 1 .. n : \E i \in 1 .. j : chosen[a] = segs[i]
    BY <1>1, <1>s
  <2> QED BY <1>0, <1>1, <2>1, <2>2, <2>3 DEF AdmitOf
<1> QED BY <1>2, <1>3

\* What is said of Resolved's steps holds at the end.
LEMMA AdmitAll ==
  ASSUME NEW segs \in CueSeq
  PROVE  LET chosen == FoldLeft(Admits, <<>>, segs)
         IN  chosen \in CueSeq /\ AdmitOf(segs, Len(segs), chosen)
<1>0. PICK n : n = Len(segs) /\ n \in Nat
  BY DEF CueSeq
<1>1. PICK f \in [0 .. n -> CueSeq] :
        /\ f[0] = <<>>
        /\ \A k \in 1 .. n : f[k] = Admits(f[k - 1], segs[k])
        /\ FoldLeft(Admits, <<>>, segs) = f[n]
  BY <1>0, AdmitsFolds DEF CueSeq
<1> DEFINE P == {k \in 0 .. n : AdmitOf(segs, k, f[k])}
<1>2. 0 \in P
  <2>1. 1 .. 0 = {} /\ Len(<<>>) = 0
    OBVIOUS
  <2>2. AdmitOf(segs, 0, <<>>)
    BY <2>1 DEF AdmitOf
  <2> QED BY <1>0, <1>1, <2>2
<1>3. ASSUME NEW k \in 1 .. n, k - 1 \in P PROVE k \in P
  <2>1. f[k - 1] \in CueSeq /\ f[k] = Admits(f[k - 1], segs[k])
    BY <1>0, <1>1
  <2>2. AdmitOf(segs, k, f[k])
    BY <1>0, <1>3, <2>1, AdmitStep
  <2> QED BY <2>2
<1>4. n \in P
  <2> HIDE DEF P
  <2>1. \A k \in 0 .. n : k \in P
    BY <1>0, <1>2, <1>3, Upwards
  <2> QED BY <1>0, <2>1
<1> QED BY <1>0, <1>1, <1>4

-----------------------------------------------------------------------------
(* The record of the cues. *)

\* A record of cues: in order with no overlap, and a cue left out of it gave way.
FairOf(out, cues) ==
    /\ SaidOnce(out)
    /\ \A g \in ToSet(cues) \ ToSet(out) : \E h \in ToSet(out) : Overlap(g, h) /\ ~ Better(g, h)

\* The record's cues are in order with no overlap, and one left out of it gave way to one
\* no worse (engine/merge.py).
LEMMA ResolvedIsFair ==
  ASSUME NEW cues \in CueSeq, confidenceOf \in [Recordings -> Int], Recordings \subseteq Int,
         \A i \in 1 .. Len(cues) : cues[i].from < cues[i].to
  PROVE  Resolved(cues) \in CueSeq /\ FairOf(Resolved(cues), cues)
<1>0. PICK M, K, R : M = ByMerit(cues) /\ K = FoldLeft(Admits, <<>>, M) /\ R = Sorted(K)
  OBVIOUS
<1>r. Resolved(cues) = R
  BY <1>0 DEF Resolved
<1>1. \A g \in Cue : confidenceOf[g.source] \in Int /\ g.source \in Int
  BY DEF Cue
<1>2. \A g \in Cue : g.from \in Int /\ g.to \in Int
  BY DEF Cue
<1>3. /\ M \in Seq(Cue) /\ Len(M) = Len(cues)
      /\ \E q : Reorders(q, cues, M)
      /\ \A i, j \in 1 .. Len(cues) : i < j => ~ Better(M[j], M[i])
  BY <1>0, <1>1, MeritedIs DEF CueSeq
<1> PICK q : Reorders(q, cues, M)
  BY <1>3
<1>q. /\ q \in [1 .. Len(cues) -> 1 .. Len(cues)]
      /\ \A k \in 1 .. Len(cues) : M[k] = cues[q[k]]
      /\ \A w \in 1 .. Len(cues) : \E k \in 1 .. Len(cues) : q[k] = w
  BY DEF Reorders
<1>m. \A i \in 1 .. Len(M) : M[i].from < M[i].to
  BY <1>3, <1>q
<1>4. K \in CueSeq /\ AdmitOf(M, Len(M), K)
  BY <1>0, <1>3, AdmitAll DEF CueSeq
<1>k. /\ \A a, b \in 1 .. Len(K) : a # b => ~ Overlap(K[a], K[b])
      /\ \A a \in 1 .. Len(K) : \E i \in 1 .. Len(M) : K[a] = M[i]
      /\ \A i \in 1 .. Len(M) : \/ \E a \in 1 .. Len(K) : K[a] = M[i]
                                \/ \E a \in 1 .. Len(K), k \in 1 .. i - 1 :
                                     K[a] = M[k] /\ Overlap(M[i], K[a])
  BY <1>4 DEF AdmitOf
<1>5. /\ R \in Seq(Cue) /\ Len(R) = Len(K)
      /\ \E p : Reorders(p, K, R)
      /\ \A i, j \in 1 .. Len(K) : i < j => ~ Earlier(R[j], R[i])
  BY <1>0, <1>2, <1>4, SortedIs DEF CueSeq
<1> PICK p : Reorders(p, K, R)
  BY <1>5
<1>p. /\ p \in [1 .. Len(K) -> 1 .. Len(K)]
      /\ \A k \in 1 .. Len(K) : R[k] = K[p[k]]
      /\ \A w \in 1 .. Len(K) : \E k \in 1 .. Len(K) : p[k] = w
      /\ \A i, j \in 1 .. Len(K) : i < j => p[i] # p[j]
  BY DEF Reorders
<1>6. SaidOnce(R)
  <2> SUFFICES ASSUME NEW i \in 1 .. Len(R) - 1 PROVE R[i].to <= R[i + 1].from
    BY DEF SaidOnce
  <2>1. i \in 1 .. Len(K) /\ i + 1 \in 1 .. Len(K) /\ i < i + 1
    BY <1>4, <1>5 DEF CueSeq
  <2>2. ~ Earlier(R[i + 1], R[i])
    BY <1>5, <2>1
  <2>3. ~ Overlap(R[i], R[i + 1])
    <3>1. p[i] # p[i + 1] /\ p[i] \in 1 .. Len(K) /\ p[i + 1] \in 1 .. Len(K)
      BY <1>p, <2>1
    <3>2. ~ Overlap(K[p[i]], K[p[i + 1]])
      BY <1>k, <3>1
    <3>3. R[i] = K[p[i]] /\ R[i + 1] = K[p[i + 1]]
      BY <1>p, <2>1
    <3> QED BY <3>2, <3>3
  <2>4. R[i] \in Cue /\ R[i + 1] \in Cue
    BY <1>5, <2>1
  <2>5. R[i].from < R[i].to /\ R[i + 1].from < R[i + 1].to
    <3>1. ASSUME NEW k \in 1 .. Len(K) PROVE R[k].from < R[k].to
      <4>1. p[k] \in 1 .. Len(K) /\ R[k] = K[p[k]]
        BY <1>p
      <4>2. PICK w \in 1 .. Len(M) : K[p[k]] = M[w]
        BY <1>k, <4>1
      <4> QED BY <1>m, <4>1, <4>2
    <3> QED BY <2>1, <3>1
  <2> QED BY <1>2, <2>2, <2>3, <2>4, <2>5 DEF Earlier, Overlap
<1>7. ASSUME NEW a \in 1 .. Len(K) PROVE K[a] \in ToSet(R)
  <2>1. PICK k \in 1 .. Len(K) : p[k] = a
    BY <1>p
  <2>2. R[k] = K[a] /\ k \in 1 .. Len(R)
    BY <1>5, <1>p, <2>1
  <2> QED BY <1>5, <2>2 DEF ToSet
<1>8. ASSUME NEW g \in ToSet(cues), g \notin ToSet(R)
      PROVE  \E h \in ToSet(R) : Overlap(g, h) /\ ~ Better(g, h)
  <2>1. PICK w \in 1 .. Len(cues) : g = cues[w]
    BY DEF ToSet, CueSeq
  <2>2. PICK i \in 1 .. Len(cues) : q[i] = w
    BY <1>q
  <2>3. g = M[i] /\ i \in 1 .. Len(M)
    BY <1>3, <1>q, <2>1, <2>2
  <2>4. ~ \E a \in 1 .. Len(K) : K[a] = M[i]
    BY <1>7, <1>8, <2>3
  <2>5. PICK a \in 1 .. Len(K), k \in 1 .. i - 1 : K[a] = M[k] /\ Overlap(M[i], K[a])
    BY <1>k, <2>3, <2>4
  <2>6. ~ Better(M[i], M[k])
    <3>1. k \in 1 .. Len(cues) /\ k < i
      BY <1>3, <2>3, <2>5 DEF CueSeq
    <3> QED BY <1>3, <3>1
  <2> QED BY <1>7, <2>3, <2>5, <2>6
<1> QED BY <1>5, <1>6, <1>8, <1>r DEF FairOf, CueSeq

-----------------------------------------------------------------------------
(* The cues of the placed sources. *)

\* Each recording is placed, or nowhere.
PlacesOf(off) == \A s \in Recordings : off[s] = {} \/ \E o \in Int : off[s] = {o}

\* Each source's cleaned segments, moved to its place.
LEMMA ShiftedIs ==
  ASSUME NEW s \in Recordings, LineOf(transcript[s], s), PlacesOf(offset)
  PROVE  /\ Shifted(s) \in SegSeq
         /\ \A i \in 1 .. Len(Shifted(s)) :
              /\ Shifted(s)[i].from < Shifted(s)[i].to /\ Shifted(s)[i].source = s
              /\ Shifted(s)[i].text # Noise
         /\ offset[s] # {} => Len(Shifted(s)) = Len(transcript[s])
<1>0. PICK tr, n : tr = transcript[s] /\ n = Len(tr) /\ n \in Nat /\ tr \in SegSeq /\ DOMAIN tr = 1 .. n
  BY DEF LineOf, SegSeq
<1>1. \A a \in 1 .. n : tr[a].from < tr[a].to /\ tr[a].source = s /\ tr[a].text # Noise
  BY <1>0 DEF LineOf
<1>2. CASE offset[s] = {}
  <2>1. Shifted(s) = <<>> /\ <<>> \in SegSeq /\ Len(<<>>) = 0
    BY <1>2 DEF Shifted, SegSeq
  <2> QED BY <1>2, <2>1
<1>3. CASE \E o \in Int : offset[s] = {o}
  <2>1. PICK o \in Int : offset[s] = {o}
    BY <1>3
  <2>2. (CHOOSE w \in offset[s] : TRUE) = o /\ offset[s] # {}
    BY <2>1
  <2> DEFINE sh == [i \in 1 .. n |-> [tr[i] EXCEPT !.from = @ + o, !.to = @ + o]]
  <2>3. Shifted(s) = sh
    BY <1>0, <2>2 DEF Shifted
  <2>4. ASSUME NEW i \in 1 .. n
        PROVE  /\ sh[i] \in Segment /\ sh[i].from < sh[i].to /\ sh[i].source = s /\ sh[i].text # Noise
    <3>1. tr[i] \in Segment
      BY <1>0 DEF SegSeq
    <3>2. tr[i].from \in Int /\ tr[i].to \in Int /\ tr[i].from < tr[i].to
      BY <1>1, <3>1 DEF Segment
    <3>3. sh[i] = [tr[i] EXCEPT !.from = @ + o, !.to = @ + o]
      OBVIOUS
    <3> HIDE DEF sh
    <3>4. /\ sh[i] \in Segment /\ sh[i].from = tr[i].from + o /\ sh[i].to = tr[i].to + o
          /\ sh[i].source = tr[i].source /\ sh[i].text = tr[i].text
      <4>1. PICK g, h : g = tr[i] /\ h = sh[i]
        OBVIOUS
      <4>2. g \in Segment /\ h = [g EXCEPT !.from = @ + o, !.to = @ + o]
        BY <3>1, <3>3, <4>1
      <4>3. g.from + o \in Int /\ g.to + o \in Int
        BY <3>2, <4>1
      <4>4. h \in Segment /\ h.from = g.from + o /\ h.to = g.to + o /\ h.source = g.source /\ h.text = g.text
        BY <4>2, <4>3 DEF Segment
      <4> QED BY <4>1, <4>4
    <3> QED BY <1>1, <3>2, <3>4
  <2>5. sh \in SegSeq /\ Len(sh) = n
    <3>1. sh = [i \in 1 .. n |-> sh[i]]
      OBVIOUS
    <3> HIDE DEF sh
    <3>2. sh \in [1 .. n -> Segment]
      BY <2>4, <3>1
    <3> QED BY <1>0, <3>2 DEF SegSeq
  <2> HIDE DEF sh
  <2> QED BY <1>0, <2>3, <2>4, <2>5
<1> QED BY <1>2, <1>3 DEF PlacesOf

\* The cues before the resolution: in time each, and of every placed source that
\* said something.
LEMMA CuesAre ==
  ASSUME NEW N \in Nat, Recordings = 1 .. N,
         \A s \in Recordings : LineOf(transcript[s], s), PlacesOf(offset)
  PROVE  /\ Cues \in CueSeq
         /\ \A i \in 1 .. Len(Cues) : Cues[i].from < Cues[i].to
         /\ \A s \in Recordings : offset[s] # {} /\ transcript[s] # <<>> =>
              \E g \in ToSet(Cues) : g.source = s
<1>0. PICK sh, flat, cl, so, jo :
        /\ sh = [s \in Recordings |-> Shifted(s)]
        /\ flat = FlattenSeq(sh) /\ cl = Clean(flat) /\ so = Sorted(cl) /\ jo = Joined(so)
  OBVIOUS
<1>c. Cues = jo
  BY <1>0 DEF Cues
<1>1. ASSUME NEW s \in Recordings
      PROVE  /\ sh[s] \in ListOf(Segment)
             /\ \A i \in 1 .. Len(sh[s]) :
                  sh[s][i].from < sh[s][i].to /\ sh[s][i].source = s /\ sh[s][i].text # Noise
             /\ offset[s] # {} => Len(sh[s]) = Len(transcript[s])
  <2>1. sh[s] = Shifted(s)
    BY <1>0
  <2> QED BY <2>1, ShiftedIs DEF ListOf, SegSeq
<1>2. sh \in Seq(ListOf(Segment)) /\ Len(sh) = N
  <2>1. sh \in [1 .. N -> ListOf(Segment)]
    BY <1>0, <1>1
  <2> QED BY <2>1
<1>3. /\ flat \in SegSeq
      /\ \A i \in 1 .. Len(flat) : Origin(sh, N, flat[i])
      /\ \A k \in 1 .. N, m \in Nat : m \in 1 .. Len(sh[k]) =>
           \E j \in 1 .. Len(flat) : flat[j] = sh[k][m]
  <2>1. /\ FlattenSeq(sh) \in Seq(Segment)
        /\ \A i \in 1 .. Len(FlattenSeq(sh)) : Origin(sh, Len(sh), FlattenSeq(sh)[i])
        /\ \A k \in 1 .. Len(sh), m \in Nat : m \in 1 .. Len(sh[k]) =>
             \E j \in 1 .. Len(FlattenSeq(sh)) :
               /\ FlattenSeq(sh)[j] = sh[k][m]
               /\ \A i \in 1 .. j - 1 : Before(sh, k, m, FlattenSeq(sh)[i])
    BY <1>2, FlatPlaces
  <2>2. flat = FlattenSeq(sh) /\ Len(sh) = N
    BY <1>0, <1>2
  <2>3. ASSUME NEW k \in 1 .. N, NEW m \in Nat, m \in 1 .. Len(sh[k])
        PROVE  \E j \in 1 .. Len(flat) : flat[j] = sh[k][m]
    BY <2>1, <2>2, <2>3
  <2> QED BY <2>1, <2>2, <2>3 DEF SegSeq
<1>4. ASSUME NEW i \in 1 .. Len(flat) PROVE flat[i].from < flat[i].to
  <2>1. PICK k \in 1 .. N : \E m \in 1 .. Len(sh[k]) : flat[i] = sh[k][m]
    BY <1>3 DEF Origin
  <2> QED BY <1>1, <2>1
<1>5. cl \in SegSeq /\ \E ix : CleanOf(flat, Len(flat), cl, ix)
  BY <1>0, <1>3, CleanKeeps
<1> PICK ix : CleanOf(flat, Len(flat), cl, ix)
  BY <1>5
<1>6. /\ ix \in [1 .. Len(cl) -> 1 .. Len(flat)]
      /\ \A a \in 1 .. Len(cl) : cl[a] = flat[ix[a]]
      /\ \A p \in 1 .. Len(flat) : flat[p].text # Noise => \E a \in 1 .. Len(cl) : cl[a].source = flat[p].source
  BY DEF CleanOf, SaidAt
<1>7. \A a \in 1 .. Len(cl) : cl[a].from < cl[a].to
  BY <1>4, <1>6
<1>8. /\ so \in Seq(Segment) /\ Len(so) = Len(cl) /\ \E q : Reorders(q, cl, so)
  <2>1. \A g \in Segment : g.from \in Int /\ g.to \in Int
    BY DEF Segment
  <2> QED BY <1>0, <1>5, <2>1, SortedIs DEF SegSeq
<1> PICK q : Reorders(q, cl, so)
  BY <1>8
<1>9. /\ q \in [1 .. Len(cl) -> 1 .. Len(cl)]
      /\ \A k \in 1 .. Len(cl) : so[k] = cl[q[k]]
      /\ \A w \in 1 .. Len(cl) : \E k \in 1 .. Len(cl) : q[k] = w
  BY DEF Reorders
<1> DEFINE wide == [i \in DOMAIN so |-> [so[i] EXCEPT !.text = {@}]]
<1>10. ASSUME NEW i \in 1 .. Len(so)
       PROVE  wide[i] \in Cue /\ wide[i].from < wide[i].to /\ wide[i].source = so[i].source
  <2>1. so[i] \in Segment /\ i \in DOMAIN so
    BY <1>8
  <2>2. wide[i] = [so[i] EXCEPT !.text = {@}]
    BY <2>1
  <2> HIDE DEF wide
  <2>3. /\ wide[i] \in Cue /\ wide[i].from = so[i].from /\ wide[i].to = so[i].to
        /\ wide[i].source = so[i].source
    BY <2>1, <2>2 DEF Segment, Cue
  <2>4. so[i].from < so[i].to
    BY <1>7, <1>8, <1>9
  <2> QED BY <2>3, <2>4
<1>11. wide \in CueSeq /\ Len(wide) = Len(so)
  <2>1. wide = [i \in 1 .. Len(so) |-> wide[i]] /\ Len(so) \in Nat
    BY <1>8
  <2> HIDE DEF wide
  <2>2. wide \in [1 .. Len(so) -> Cue]
    BY <1>10, <2>1
  <2> QED BY <2>1, <2>2 DEF CueSeq
<1>12. jo = FoldLeft(Bridges, <<>>, wide)
  BY <1>0 DEF Joined
<1>13. jo \in CueSeq /\ BridgeOf(wide, Len(wide), jo)
  <2> HIDE DEF wide
  <2> QED BY <1>10, <1>11, <1>12, BridgeAll
<1>14. ASSUME NEW s \in Recordings, offset[s] # {}, transcript[s] # <<>>
       PROVE  \E g \in ToSet(jo) : g.source = s
  <2>1. Len(transcript[s]) \in Nat \ {0}
    BY <1>14 DEF LineOf, SegSeq
  <2>2. s \in 1 .. N /\ 1 \in 1 .. Len(sh[s])
    BY <1>1, <1>14, <2>1
  <2>3. PICK j \in 1 .. Len(flat) : flat[j] = sh[s][1]
    BY <1>3, <2>2
  <2>4. flat[j].source = s /\ flat[j].text # Noise
    BY <1>1, <2>2, <2>3
  <2>5. PICK a \in 1 .. Len(cl) : cl[a].source = s
    BY <1>6, <2>4
  <2>6. PICK k \in 1 .. Len(cl) : so[k] = cl[a]
    BY <1>9
  <2>7. k \in 1 .. Len(wide) /\ wide[k].source = s
    BY <1>8, <1>10, <1>11, <2>5, <2>6
  <2>8. PICK b \in 1 .. Len(jo) : jo[b].source = s
    <3> HIDE DEF wide
    <3> QED BY <1>13, <2>7 DEF BridgeOf
  <2>9. jo[b] \in ToSet(jo)
    BY <1>13 DEF ToSet, CueSeq
  <2> QED BY <2>8, <2>9
<1>15. \A i \in 1 .. Len(jo) : jo[i].from < jo[i].to
  <2> HIDE DEF wide
  <2> QED BY <1>13 DEF BridgeOf
<1> HIDE DEF wide
<1> QED BY <1>13, <1>14, <1>15, <1>c

-----------------------------------------------------------------------------
(* The plan of chunks, and the lag a correlation answers. *)

\* A count of steps that reaches over the rest is no less than nothing.
LEMMA NoLess ==
  ASSUME NEW i \in Nat, NEW d \in Nat \ {0}
  PROVE  i \div d \in Nat
OBVIOUS

\* A later window begins no earlier.
LEMMA Grows ==
  ASSUME NEW i \in Nat, NEW k \in Nat, i <= k, NEW d \in Nat
  PROVE  i * d \in Nat /\ k * d \in Nat /\ i * d <= k * d
<1>1. PICK e : e = k - i /\ e \in Nat /\ k = i + e
  OBVIOUS
<1>2. k * d = i * d + e * d
  BY <1>1
<1>3. i * d \in Nat /\ e * d \in Nat
  BY <1>1
<1> QED BY <1>2, <1>3

\* The windows of a plan: none begins before the recording, a later one ends no earlier.
LEMMA PlanIs ==
  ASSUME NEW duration \in Nat
  PROVE  LET plan == ChunkPlan(duration)
         IN  /\ Len(plan) \in Nat /\ DOMAIN plan = 1 .. Len(plan)
             /\ \A k \in 1 .. Len(plan) : plan[k][1] \in Nat /\ plan[k][2] \in Int
             /\ \A i, k \in 1 .. Len(plan) : i <= k => plan[i][2] <= plan[k][2]
<1>0. ChunkTicks \in Nat \ {0} /\ OverlapTicks \in 0 .. ChunkTicks - 1
  BY MergeBounds
<1>1. PICK step : step = ChunkTicks - OverlapTicks /\ step \in Nat \ {0}
  BY <1>0
<1>2. PICK count : count = IF duration <= ChunkTicks THEN 1
                           ELSE 1 + (duration - ChunkTicks + step - 1) \div step
  OBVIOUS
<1>3. count \in Nat \ {0}
  <2>1. CASE duration <= ChunkTicks
    BY <1>2, <2>1
  <2>2. CASE ~ (duration <= ChunkTicks)
    <3>1. duration - ChunkTicks + step - 1 \in Nat
      BY <1>0, <1>1, <2>2
    <3>2. (duration - ChunkTicks + step - 1) \div step \in Nat
      BY <1>1, <3>1, NoLess
    <3> QED BY <1>2, <2>2, <3>2
  <2> QED BY <2>1, <2>2
<1>4. CASE duration <= 0
  <2>1. ChunkPlan(duration) = <<>>
    BY <1>4 DEF ChunkPlan
  <2> QED BY <2>1
<1>5. CASE ~ (duration <= 0)
  <2> DEFINE plan == [k \in 1 .. count |-> <<(k - 1) * step, Min({duration, (k - 1) * step + ChunkTicks})>>]
  <2>1. ChunkPlan(duration) = plan
    BY <1>1, <1>2, <1>5 DEF ChunkPlan
  <2>2. ASSUME NEW k \in 1 .. count
        PROVE  /\ plan[k][1] = (k - 1) * step /\ (k - 1) * step \in Nat
               /\ plan[k][2] = IF duration <= (k - 1) * step + ChunkTicks THEN duration
                               ELSE (k - 1) * step + ChunkTicks
               /\ plan[k][2] \in Int
    <3>1. plan[k] = <<(k - 1) * step, Min({duration, (k - 1) * step + ChunkTicks})>>
      OBVIOUS
    <3>2. k - 1 \in Nat
      OBVIOUS
    <3>3. (k - 1) * step \in Nat
      BY <1>1, <3>2, Grows
    <3> HIDE DEF plan
    <3>4. PICK b : b = (k - 1) * step /\ b \in Nat
      BY <3>3
    <3>5. b + ChunkTicks \in Int /\ duration \in Int
      BY <1>0, <3>4
    <3>6. Min({duration, b + ChunkTicks}) = IF duration <= b + ChunkTicks THEN duration ELSE b + ChunkTicks
      BY <3>5, MinOfTwo
    <3>7. plan[k][1] = b /\ plan[k][2] = Min({duration, b + ChunkTicks})
      BY <3>1, <3>4
    <3> QED BY <3>4, <3>5, <3>6, <3>7
  <2>3. ASSUME NEW i \in 1 .. count, NEW k \in 1 .. count, i <= k PROVE plan[i][2] <= plan[k][2]
    <3>1. i - 1 \in Nat /\ k - 1 \in Nat /\ i - 1 <= k - 1
      BY <2>3
    <3>2. (i - 1) * step <= (k - 1) * step /\ (i - 1) * step \in Nat /\ (k - 1) * step \in Nat
      BY <1>1, <3>1, Grows
    <3>3. PICK b, c : b = (i - 1) * step /\ c = (k - 1) * step /\ b \in Nat /\ c \in Nat /\ b <= c
      BY <3>2
    <3>4. /\ plan[i][2] = IF duration <= b + ChunkTicks THEN duration ELSE b + ChunkTicks
          /\ plan[k][2] = IF duration <= c + ChunkTicks THEN duration ELSE c + ChunkTicks
      BY <2>2, <3>3
    <3> HIDE DEF plan
    <3> QED BY <1>0, <3>3, <3>4
  <2>4. Len(plan) = count /\ DOMAIN plan = 1 .. count
    BY <1>3
  <2> HIDE DEF plan
  <2> QED BY <1>3, <2>1, <2>2, <2>3, <2>4
<1> QED BY <1>4, <1>5

\* What a window's decoder heard: segments of the source, one after the other,
\* within the window.
WithinWindow(c, s, w) ==
    /\ c \in Seq(Segment)
    /\ \A m \in 1 .. Len(c) : /\ c[m].from \in Nat /\ c[m].to \in Int /\ c[m].from < c[m].to
                              /\ c[m].to <= w[2] /\ c[m].source = s
    /\ \A i, m \in 1 .. Len(c) : i < m => c[i].to <= c[m].from

\* A segment a decoder may hear in a window is within it.
LEMMA SegmentsAre ==
  ASSUME NEW s \in Recordings, NEW w, w[1] \in Nat, w[2] \in Int, NEW g \in Segments(s, w)
  PROVE  /\ g \in Segment /\ g.from \in Nat /\ g.to \in Int /\ g.from < g.to
         /\ g.to <= w[2] /\ g.source = s
<1>1. PICK t \in Spans(w), u \in Words \union {Noise} :
        g = [from |-> t[1], to |-> t[2], text |-> u, source |-> s]
  BY DEF Segments
<1>2. t[1] \in w[1] .. w[2] /\ t[2] \in w[1] .. w[2] /\ t[1] < t[2]
  BY DEF Spans
<1>3. t[1] \in Nat /\ t[2] \in Int /\ t[2] <= w[2]
  BY <1>2
<1> QED BY <1>1, <1>2, <1>3 DEF Segment

\* What a decoder may hear in a window is within it, in time order.
LEMMA HeardIs ==
  ASSUME NEW s \in Recordings, NEW w, w[1] \in Nat, w[2] \in Int, NEW c \in Hearable(s, w)
  PROVE  WithinWindow(c, s, w)
<1>1. CASE c = <<>>
  BY <1>1 DEF WithinWindow
<1>2. ASSUME NEW g \in Segments(s, w), c = <<g>> PROVE WithinWindow(c, s, w)
  <2>1. Len(c) = 1 /\ c[1] = g
    BY <1>2
  <2>2. \A m \in 1 .. 1 : m = 1
    OBVIOUS
  <2>3. c \in Seq(Segment)
    BY <1>2, SegmentsAre
  <2> QED BY <2>1, <2>2, <2>3, SegmentsAre DEF WithinWindow
<1>3. ASSUME NEW p \in Segments(s, w) \X Segments(s, w), p[1].to <= p[2].from, c = p
      PROVE  WithinWindow(c, s, w)
  <2>1. PICK g, h : g \in Segments(s, w) /\ h \in Segments(s, w) /\ c = <<g, h>> /\ g.to <= h.from
    BY <1>3
  <2>2. Len(c) = 2 /\ c[1] = g /\ c[2] = h
    BY <2>1
  <2>3. \A m \in 1 .. 2 : m = 1 \/ m = 2
    OBVIOUS
  <2>4. c \in Seq(Segment)
    BY <2>1, SegmentsAre
  <2>5. /\ g.from \in Nat /\ g.to \in Int /\ g.from < g.to /\ g.to <= w[2] /\ g.source = s
        /\ h.from \in Nat /\ h.to \in Int /\ h.from < h.to /\ h.to <= w[2] /\ h.source = s
    BY <2>1, SegmentsAre
  <2>6. ASSUME NEW i \in 1 .. 2, NEW m \in 1 .. 2, i < m PROVE i = 1 /\ m = 2
    BY <2>6
  <2>7. \A i, m \in 1 .. 2 : i < m => c[i].to <= c[m].from
    BY <2>1, <2>2, <2>6
  <2>8. \A m \in 1 .. 2 : /\ c[m].from \in Nat /\ c[m].to \in Int /\ c[m].from < c[m].to
                          /\ c[m].to <= w[2] /\ c[m].source = s
    BY <2>2, <2>3, <2>5
  <2> QED BY <2>2, <2>4, <2>7, <2>8 DEF WithinWindow
<1> QED BY <1>1, <1>2, <1>3 DEF Hearable

-----------------------------------------------------------------------------
\* The place of the last of some values.
LEMMA PeakOf ==
  ASSUME NEW n \in Nat, NEW v \in [1 .. n -> Int], NEW c \in SUBSET (1 .. n), c # {}
  PROVE  \E j \in c : v[j] = Max({v[i] : i \in c}) /\ \A i \in c : v[j] >= v[i]
<1> DEFINE P == {k \in 0 .. n : \A d \in SUBSET (1 .. k) : d # {} => \E j \in d : \A i \in d : v[j] >= v[i]}
<1>1. 0 \in P
  <2>1. 1 .. 0 = {}
    OBVIOUS
  <2>2. \A d \in SUBSET (1 .. 0) : d = {}
    BY <2>1
  <2>3. 0 \in 0 .. n
    OBVIOUS
  <2> QED BY <2>2, <2>3
<1>2. ASSUME NEW k \in 1 .. n, k - 1 \in P PROVE k \in P
  <2> SUFFICES ASSUME NEW d \in SUBSET (1 .. k), d # {} PROVE \E j \in d : \A i \in d : v[j] >= v[i]
    OBVIOUS
  <2>1. d \ {k} \in SUBSET (1 .. (k - 1))
    OBVIOUS
  <2>i. \A i \in d : v[i] \in Int
    OBVIOUS
  <2>2. CASE d \ {k} = {}
    <3>1. d = {k}
      BY <2>2
    <3> QED BY <2>i, <3>1
  <2>3. CASE d \ {k} # {}
    <3>1. PICK j \in d \ {k} : \A i \in d \ {k} : v[j] >= v[i]
      BY <1>2, <2>1, <2>3
    <3>2. CASE k \in d /\ v[k] > v[j]
      <4>1. \A i \in d : v[k] >= v[i]
        BY <2>i, <3>1, <3>2
      <4> QED BY <3>2, <4>1
    <3>3. CASE ~ (k \in d /\ v[k] > v[j])
      <4>1. \A i \in d : v[j] >= v[i]
        BY <2>i, <3>1, <3>3
      <4> QED BY <3>1, <4>1
    <3> QED BY <3>2, <3>3
  <2> QED BY <2>2, <2>3
<1>3. n \in P
  <2> HIDE DEF P
  <2>1. \A k \in 0 .. n : k \in P
    BY <1>1, <1>2, Upwards
  <2> QED BY <2>1
<1>4. PICK j \in c : \A i \in c : v[j] >= v[i]
  BY <1>3
<1> DEFINE V == {v[i] : i \in c}
<1>5. v[j] \in V /\ \A u \in V : v[j] >= u /\ u \in Int
  BY <1>4
<1>6. PICK m : m = Max(V)
  OBVIOUS
<1>7. m \in V /\ \A u \in V : m >= u
  <2> HIDE DEF V
  <2> QED BY <1>5, <1>6 DEF Max
<1>8. v[j] = m
  <2>1. v[j] \in Int /\ m \in Int /\ v[j] >= m /\ m >= v[j]
    <3> HIDE DEF V
    <3> QED BY <1>5, <1>7
  <2> QED BY <2>1
<1> QED BY <1>4, <1>6, <1>8

\* Of some windows, the largest agreement or, among equals, the higher peak.
Beats(votes, c, d) ==
    \/ Cardinality(c) > Cardinality(d)
    \/ Cardinality(c) = Cardinality(d) /\ Peak(votes, c) >= Peak(votes, d)

\* The best agreement is one of some windows, one of which has its peak.
LEMMA BestIs ==
  ASSUME NEW n \in Nat \ {0}, NEW votes \in [1 .. n -> Int \X Int], VoteTolerance \in Nat
  PROVE  /\ Best(votes) \in SUBSET (1 .. n) /\ Best(votes) # {}
         /\ \E j \in Best(votes) : votes[j][2] = Peak(votes, Best(votes))
<1>1. ASSUME NEW i \in 1 .. n
      PROVE  Agreeing(votes, i) \in SUBSET (1 .. n) /\ Agreeing(votes, i) # {}
  <2>1. votes[i][1] \in Int
    OBVIOUS
  <2>2. Abs(votes[i][1] - votes[i][1]) <= VoteTolerance
    BY <2>1 DEF Abs
  <2>3. i \in Agreeing(votes, i) /\ Agreeing(votes, i) \subseteq 1 .. n
    BY <2>2 DEF Agreeing
  <2> QED BY <2>3
<1>2. ASSUME NEW c \in SUBSET (1 .. n), c # {}
      PROVE  /\ Peak(votes, c) \in Int /\ Cardinality(c) \in Nat
             /\ \E j \in c : votes[j][2] = Peak(votes, c)
  <2> DEFINE v == [i \in 1 .. n |-> votes[i][2]]
  <2>1. v \in [1 .. n -> Int]
    OBVIOUS
  <2>2. \E j \in c : v[j] = Max({v[i] : i \in c})
    <3> HIDE DEF v
    <3> QED BY <1>2, <2>1, PeakOf
  <2>3. {v[i] : i \in c} = {votes[i][2] : i \in c}
    OBVIOUS
  <2>4. PICK j \in c : votes[j][2] = Peak(votes, c)
    BY <2>2, <2>3 DEF Peak
  <2>5. votes[j][2] \in Int
    OBVIOUS
  <2>6. IsFiniteSet(c)
    <3>1. IsFiniteSet(1 .. n)
      BY FS_Interval
    <3> QED BY <3>1, FS_Subset
  <2>7. Cardinality(c) \in Nat
    BY <2>6, FS_CardinalityType
  <2> QED BY <2>4, <2>5, <2>7
<1> DEFINE ag == [i \in 1 .. n |-> Agreeing(votes, i)]
           P == {k \in 0 .. n : k > 0 => \E i \in 1 .. k : \A j \in 1 .. k : Beats(votes, ag[i], ag[j])}
<1>3. ASSUME NEW i \in 1 .. n PROVE ag[i] \in SUBSET (1 .. n) /\ ag[i] # {} /\ ag[i] = Agreeing(votes, i)
  BY <1>1
<1>4. ASSUME NEW i \in 1 .. n PROVE Peak(votes, ag[i]) \in Int /\ Cardinality(ag[i]) \in Nat
  <2> HIDE DEF ag
  <2> QED BY <1>2, <1>3
<1>5. 0 \in P
  OBVIOUS
<1>6. ASSUME NEW k \in 1 .. n, k - 1 \in P PROVE k \in P
  <2> HIDE DEF ag
  <2>r. \A i \in 1 .. n : Beats(votes, ag[i], ag[i])
    BY <1>4 DEF Beats
  <2>1. CASE k = 1
    <3>1. \A j \in 1 .. 1 : j = 1
      OBVIOUS
    <3>2. 1 \in 1 .. k /\ 1 \in 1 .. n
      OBVIOUS
    <3> QED BY <2>r, <2>1, <3>1, <3>2
  <2>2. CASE k # 1
    <3>1. PICK i \in 1 .. (k - 1) : \A j \in 1 .. (k - 1) : Beats(votes, ag[i], ag[j])
      BY <1>6, <2>2
    <3>2. i \in 1 .. n /\ i \in 1 .. k
      OBVIOUS
    <3>3. CASE Beats(votes, ag[i], ag[k])
      <4>1. \A j \in 1 .. k : Beats(votes, ag[i], ag[j])
        BY <3>1, <3>3
      <4> QED BY <3>2, <4>1
    <3>4. CASE ~ Beats(votes, ag[i], ag[k])
      <4>1. ASSUME NEW j \in 1 .. k PROVE Beats(votes, ag[k], ag[j])
        <5>1. CASE j = k
          BY <2>r, <5>1
        <5>2. CASE j # k
          <6>1. j \in 1 .. (k - 1) /\ j \in 1 .. n
            BY <5>2
          <6>2. Beats(votes, ag[i], ag[j])
            BY <3>1, <6>1
          <6>3. /\ Peak(votes, ag[i]) \in Int /\ Cardinality(ag[i]) \in Nat
                /\ Peak(votes, ag[j]) \in Int /\ Cardinality(ag[j]) \in Nat
                /\ Peak(votes, ag[k]) \in Int /\ Cardinality(ag[k]) \in Nat
            BY <1>4, <3>2, <6>1
          <6>4. PICK pi, pj, pk, ci, cj, ck :
                  /\ pi = Peak(votes, ag[i]) /\ pj = Peak(votes, ag[j]) /\ pk = Peak(votes, ag[k])
                  /\ ci = Cardinality(ag[i]) /\ cj = Cardinality(ag[j]) /\ ck = Cardinality(ag[k])
            OBVIOUS
          <6>5. ~ (ci > ck \/ (ci = ck /\ pi >= pk)) /\ (ci > cj \/ (ci = cj /\ pi >= pj))
            BY <3>4, <6>2, <6>4 DEF Beats
          <6>6. ck > cj \/ (ck = cj /\ pk >= pj)
            <7>1. /\ pi \in Int /\ pj \in Int /\ pk \in Int
                  /\ ci \in Int /\ cj \in Int /\ ck \in Int
              BY <6>3, <6>4
            <7> QED BY <6>5, <7>1
          <6> QED BY <6>4, <6>6 DEF Beats
        <5> QED BY <5>1, <5>2
      <4> QED BY <4>1
    <3> QED BY <3>3, <3>4
  <2> QED BY <2>1, <2>2
<1>7. n \in P
  <2> HIDE DEF P
  <2>1. \A k \in 0 .. n : k \in P
    BY <1>5, <1>6, Upwards
  <2> QED BY <2>1
<1> DEFINE cluster == {Agreeing(votes, i) : i \in DOMAIN votes}
<1>8. PICK c \in cluster : \A d \in cluster : Beats(votes, c, d)
  <2>1. PICK i \in 1 .. n : \A j \in 1 .. n : Beats(votes, ag[i], ag[j])
    <3> HIDE DEF ag
    <3> QED BY <1>7
  <2>2. ag[i] \in cluster
    BY <1>3
  <2>3. \A d \in cluster : \E j \in 1 .. n : d = ag[j]
    BY <1>3
  <2> HIDE DEF ag, cluster
  <2> QED BY <2>1, <2>2, <2>3
<1>9. PICK b : b = Best(votes)
  OBVIOUS
<1>10. b = CHOOSE e \in cluster : \A d \in cluster : Beats(votes, e, d)
  BY <1>9 DEF Best, Beats
<1>11. b \in cluster
  <2> HIDE DEF cluster
  <2> QED BY <1>8, <1>10
<1>12. b \in SUBSET (1 .. n) /\ b # {}
  BY <1>1, <1>11
<1> QED BY <1>2, <1>9, <1>12

\* A correlation answers one lag, or nothing.
LEMMA EstimateIs ==
  ASSUME NEW votes \in Votes
  PROVE  Estimate(votes) = {} \/ \E o \in Int : Estimate(votes) = {o}
<1>1. Lags \subseteq Int /\ Peaks \subseteq Int /\ VoteTolerance \in Nat /\ MaxVotes \in Nat
  BY MergeBounds
<1>2. PICK n \in 0 .. MaxVotes : votes \in [1 .. n -> Lags \X Peaks]
  BY DEF Votes
<1>3. CASE n = 0
  <2>1. votes = <<>>
    BY <1>2, <1>3
  <2> QED BY <2>1 DEF Estimate
<1>4. CASE n # 0
  <2>1. n \in Nat \ {0} /\ votes \in [1 .. n -> Int \X Int]
    <3>1. Lags \X Peaks \subseteq Int \X Int
      BY <1>1
    <3> QED BY <1>1, <1>2, <1>4, <3>1
  <2>2. /\ Best(votes) \in SUBSET (1 .. n)
        /\ \E j \in Best(votes) : votes[j][2] = Peak(votes, Best(votes))
    BY <1>1, <2>1, BestIs
  <2>3. PICK b : b = Best(votes)
    OBVIOUS
  <2>4. PICK j : j = CHOOSE i \in b : votes[i][2] = Peak(votes, b)
    OBVIOUS
  <2>5. j \in b
    BY <2>2, <2>3, <2>4
  <2>6. votes[j][1] \in Int
    BY <2>1, <2>2, <2>3, <2>5
  <2>7. Estimate(votes) = {} \/ Estimate(votes) = {votes[j][1]}
    BY <2>3, <2>4 DEF Estimate
  <2> QED BY <2>6, <2>7
<1> QED BY <1>3, <1>4

-----------------------------------------------------------------------------
(* The invariant of the merge: the transcripts are the merges of chunks that are *)
(* within their windows, and the record is fair to the cues.                     *)

\* What the chunks of each recording heard so far, each within its window.
ChunksOf(cr) ==
    /\ cr = [s \in Recordings |-> cr[s]]
    /\ \A s \in Recordings :
         /\ cr[s] \in Seq(ListOf(Segment)) /\ Len(cr[s]) <= Len(ChunkPlan(LengthOf[s]))
         /\ \A k \in 1 .. Len(cr[s]) : WithinWindow(cr[s][k], s, ChunkPlan(LengthOf[s])[k])

\* The inductive invariant of the merge: every chunk heard what its window holds,
\* a transcript is the merge of all of them, a recording has at most one place,
\* and the record is fair to its cues.
MergeInv ==
    /\ mergeAt \in {"decode", "align", "reconcile", "done"}
    /\ confidenceOf \in [Recordings -> Int]
    /\ ChunksOf(chunkResults)
    /\ PlacesOf(offset)
    /\ mergeAt # "decode" => \A s \in Recordings :
         /\ Len(chunkResults[s]) = Len(ChunkPlan(LengthOf[s]))
         /\ transcript[s] = MergeChunks(chunkResults[s])
    /\ mergeAt = "done" => FairOf(timeline, Cues)

\* The constants are what the invariant needs of them.
LEMMA RecordingsAre ==
  /\ \E n \in Nat : Recordings = 1 .. n
  /\ Recordings \subseteq Int
  /\ \A s \in Recordings : LengthOf[s] \in Nat
  /\ Confidences \subseteq [Recordings -> Int]
  /\ Gaps \subseteq Int
<1>1. Recordings = 1 .. Cardinality(Recordings) /\ Cardinality(Recordings) \in Nat
  BY MergeBounds, FS_CardinalityType
<1> QED BY <1>1, MergeBounds

\* The window of each chunk is one a decoder may be given.
LEMMA WindowsAre ==
  ASSUME NEW s \in Recordings
  PROVE  LET plan == ChunkPlan(LengthOf[s])
         IN  /\ Len(plan) \in Nat /\ DOMAIN plan = 1 .. Len(plan)
             /\ \A k \in 1 .. Len(plan) : plan[k][1] \in Nat /\ plan[k][2] \in Int
             /\ \A i, k \in 1 .. Len(plan) : i <= k => plan[i][2] <= plan[k][2]
<1>1. LengthOf[s] \in Nat
  BY RecordingsAre
<1> QED BY <1>1, PlanIs

\* Nothing is decoded, placed or recorded in the beginning.
LEMMA MergeInitHolds == MergeInit => MergeInv
<1> SUFFICES ASSUME MergeInit PROVE MergeInv
  OBVIOUS
<1>1. confidenceOf \in [Recordings -> Int]
  BY RecordingsAre DEF MergeInit
<1>2. ChunksOf(chunkResults)
  <2>1. ASSUME NEW s \in Recordings
        PROVE  /\ chunkResults[s] \in Seq(ListOf(Segment)) /\ Len(chunkResults[s]) <= Len(ChunkPlan(LengthOf[s]))
               /\ \A k \in 1 .. Len(chunkResults[s]) : WithinWindow(chunkResults[s][k], s, ChunkPlan(LengthOf[s])[k])
    <3>1. chunkResults[s] = <<>> /\ Len(<<>>) = 0 /\ 1 .. 0 = {} /\ <<>> \in Seq(ListOf(Segment))
      BY DEF MergeInit
    <3>2. Len(ChunkPlan(LengthOf[s])) \in Nat
      BY WindowsAre
    <3> QED BY <3>1, <3>2
  <2>2. chunkResults = [s \in Recordings |-> chunkResults[s]]
    BY DEF MergeInit
  <2> QED BY <2>1, <2>2 DEF ChunksOf
<1>3. PlacesOf(offset)
  BY DEF MergeInit, PlacesOf
<1> QED BY <1>1, <1>2, <1>3 DEF MergeInit, MergeInv

\* A transcript of all its chunks is one line of time.
LEMMA TranscriptIs ==
  ASSUME MergeInv, mergeAt # "decode", NEW s \in Recordings
  PROVE  HeardOf(chunkResults[s], s) /\ LineOf(transcript[s], s)
<1>1. /\ chunkResults[s] \in Seq(ListOf(Segment))
      /\ \A k \in 1 .. Len(chunkResults[s]) :
           WithinWindow(chunkResults[s][k], s, ChunkPlan(LengthOf[s])[k])
  BY DEF MergeInv, ChunksOf
<1>2. HeardOf(chunkResults[s], s)
  BY <1>1 DEF HeardOf, WithinWindow
<1>3. LineOf(MergeChunks(chunkResults[s]), s)
  BY <1>2, MergedLine
<1>4. transcript[s] = MergeChunks(chunkResults[s])
  BY DEF MergeInv
<1> QED BY <1>2, <1>3, <1>4

\* The cues are what the transcripts and the places make of them.
LEMMA CuesStay ==
  ASSUME transcript' = transcript, offset' = offset
  PROVE  Cues' = Cues
BY DEF Cues, Shifted

\* And what is fair to them stays so while confidence does.
LEMMA FairStays ==
  ASSUME NEW out, NEW cues, FairOf(out, cues), confidenceOf' = confidenceOf
  PROVE  FairOf(out, cues)'
BY DEF FairOf, Better

\* A decoded chunk is what its window may be heard to say.
LEMMA DecodeKeeps ==
  ASSUME MergeInv, NEW s \in Recordings, DecodeChunk(s)
  PROVE  MergeInv'
<1>0. PICK k : k = Len(chunkResults[s]) + 1
  OBVIOUS
<1>1. /\ mergeAt = "decode" /\ k <= Len(ChunkPlan(LengthOf[s]))
      /\ UNCHANGED <<confidenceOf, transcript, offset, timeline, mergeAt>>
  BY <1>0 DEF DecodeChunk
<1>2. PICK c \in Hearable(s, ChunkPlan(LengthOf[s])[k]) :
        chunkResults' = [chunkResults EXCEPT ![s] = Append(@, c)]
  BY <1>0 DEF DecodeChunk
<1>3. /\ chunkResults = [r \in Recordings |-> chunkResults[r]]
      /\ \A r \in Recordings :
           /\ chunkResults[r] \in Seq(ListOf(Segment))
           /\ Len(chunkResults[r]) <= Len(ChunkPlan(LengthOf[r]))
           /\ \A i \in 1 .. Len(chunkResults[r]) :
                WithinWindow(chunkResults[r][i], r, ChunkPlan(LengthOf[r])[i])
  BY DEF MergeInv, ChunksOf
<1>4. PICK old : old = chunkResults[s]
  OBVIOUS
<1>5. old \in Seq(ListOf(Segment)) /\ Len(old) \in Nat /\ k = Len(old) + 1
  BY <1>0, <1>3, <1>4
<1>6. WithinWindow(c, s, ChunkPlan(LengthOf[s])[k])
  <2>1. k \in 1 .. Len(ChunkPlan(LengthOf[s]))
    BY <1>1, <1>5, WindowsAre
  <2>2. PICK w : w = ChunkPlan(LengthOf[s])[k]
    OBVIOUS
  <2>3. w[1] \in Nat /\ w[2] \in Int /\ c \in Hearable(s, w)
    BY <1>2, <2>1, <2>2, WindowsAre
  <2> QED BY <2>2, <2>3, HeardIs
<1>7. PICK new : new = Append(old, c)
  OBVIOUS
<1>8. /\ new \in Seq(ListOf(Segment)) /\ Len(new) = k /\ new[k] = c
      /\ \A i \in 1 .. Len(old) : new[i] = old[i]
  <2>1. c \in ListOf(Segment)
    BY <1>6 DEF WithinWindow, ListOf
  <2> QED BY <1>5, <1>7, <2>1
<1>9. /\ chunkResults' = [r \in Recordings |-> chunkResults'[r]]
      /\ chunkResults'[s] = new
      /\ \A r \in Recordings : r # s => chunkResults'[r] = chunkResults[r]
  BY <1>2, <1>3, <1>4, <1>7
<1>10. ASSUME NEW i \in 1 .. Len(new) PROVE WithinWindow(new[i], s, ChunkPlan(LengthOf[s])[i])
  <2>1. CASE i = k
    BY <1>6, <1>8, <2>1
  <2>2. CASE i # k
    <3>1. i \in 1 .. Len(old)
      BY <1>5, <1>8, <2>2
    <3> QED BY <1>3, <1>4, <1>8, <3>1
  <2> QED BY <2>1, <2>2
<1>11. ChunksOf(chunkResults')
  <2>1. ASSUME NEW r \in Recordings
        PROVE  /\ chunkResults'[r] \in Seq(ListOf(Segment))
               /\ Len(chunkResults'[r]) <= Len(ChunkPlan(LengthOf[r]))
               /\ \A i \in 1 .. Len(chunkResults'[r]) :
                    WithinWindow(chunkResults'[r][i], r, ChunkPlan(LengthOf[r])[i])
    <3>1. CASE r = s
      BY <1>1, <1>8, <1>9, <1>10, <3>1
    <3>2. CASE r # s
      BY <1>3, <1>9, <3>2
    <3> QED BY <3>1, <3>2
  <2> QED BY <1>9, <2>1 DEF ChunksOf
<1>12. ChunksOf(chunkResults)'
  BY <1>11 DEF ChunksOf, WithinWindow
<1> QED BY <1>1, <1>12 DEF MergeInv, PlacesOf

\* The transcripts are the merges of all chunks of the plan.
LEMMA FinishKeeps ==
  ASSUME MergeInv, FinishTranscribe
  PROVE  MergeInv'
<1>1. /\ \A s \in Recordings : Len(chunkResults[s]) = Len(ChunkPlan(LengthOf[s]))
      /\ transcript' = [s \in Recordings |-> MergeChunks(chunkResults[s])]
      /\ mergeAt' = "align"
      /\ UNCHANGED <<chunkResults, confidenceOf, offset, timeline>>
  BY DEF FinishTranscribe
<1>2. ChunksOf(chunkResults)' /\ PlacesOf(offset)'
  BY <1>1 DEF MergeInv, ChunksOf, PlacesOf
<1>3. \A s \in Recordings : transcript'[s] = MergeChunks(chunkResults'[s])
  BY <1>1
<1>4. (mergeAt # "decode" => \A s \in Recordings :
         /\ Len(chunkResults[s]) = Len(ChunkPlan(LengthOf[s]))
         /\ transcript[s] = MergeChunks(chunkResults[s]))'
  BY <1>1, <1>3
<1> QED BY <1>1, <1>2, <1>4 DEF MergeInv

\* A source is placed once, or nowhere.
LEMMA AlignKeeps ==
  ASSUME MergeInv, AlignSources
  PROVE  MergeInv'
<1>1. /\ mergeAt = "align" /\ mergeAt' = "reconcile"
      /\ UNCHANGED <<chunkResults, confidenceOf, transcript, timeline>>
  BY DEF AlignSources
<1>2. PICK gap \in [Recordings \ {1} -> {{}} \union {{d} : d \in Gaps}],
           votes \in [Recordings \ {1} -> Votes] :
        offset' = [s \in Recordings |->
                     IF s = 1 THEN {0} ELSE Placed(s, gap[s], Estimate(votes[s]))]
  BY DEF AlignSources
<1>3. ASSUME NEW s \in Recordings PROVE offset'[s] = {} \/ \E o \in Int : offset'[s] = {o}
  <2>1. CASE s = 1
    BY <1>2, <2>1
  <2>2. CASE s # 1
    <3>1. s \in Recordings \ {1}
      BY <2>2
    <3>2. gap[s] = {} \/ \E d \in Int : gap[s] = {d}
      <4>1. gap[s] \in {{}} \union {{d} : d \in Gaps}
        BY <3>1
      <4> QED BY <4>1, RecordingsAre
    <3>3. Estimate(votes[s]) = {} \/ \E o \in Int : Estimate(votes[s]) = {o}
      <4>1. votes[s] \in Votes
        BY <3>1
      <4> QED BY <4>1, EstimateIs
    <3>4. offset'[s] = gap[s] \/ offset'[s] = Estimate(votes[s])
      BY <1>2, <2>2 DEF Placed
    <3> QED BY <3>2, <3>3, <3>4
  <2> QED BY <2>1, <2>2
<1>4. PlacesOf(offset)'
  BY <1>3 DEF PlacesOf
<1>5. ChunksOf(chunkResults)'
  BY <1>1 DEF MergeInv, ChunksOf
<1>6. (mergeAt # "decode" => \A s \in Recordings :
         /\ Len(chunkResults[s]) = Len(ChunkPlan(LengthOf[s]))
         /\ transcript[s] = MergeChunks(chunkResults[s]))'
  <2>1. \A s \in Recordings : /\ Len(chunkResults[s]) = Len(ChunkPlan(LengthOf[s]))
                              /\ transcript[s] = MergeChunks(chunkResults[s])
    BY <1>1 DEF MergeInv
  <2> QED BY <1>1, <2>1
<1> QED BY <1>1, <1>4, <1>5, <1>6 DEF MergeInv

\* The record is made of the cues of the placed sources.
LEMMA RecordKeeps ==
  ASSUME MergeInv, Reconciles
  PROVE  MergeInv'
<1>1. /\ mergeAt = "reconcile" /\ mergeAt' = "done" /\ timeline' = Resolved(Cues)
      /\ UNCHANGED <<chunkResults, confidenceOf, transcript, offset>>
  BY DEF Reconciles
<1>2. \A s \in Recordings : LineOf(transcript[s], s)
  BY <1>1, TranscriptIs
<1>3. PICK N \in Nat : Recordings = 1 .. N
  BY RecordingsAre
<1>4. Cues \in CueSeq /\ \A i \in 1 .. Len(Cues) : Cues[i].from < Cues[i].to
  BY <1>2, <1>3, CuesAre DEF MergeInv
<1>5. FairOf(Resolved(Cues), Cues)
  BY <1>4, RecordingsAre, ResolvedIsFair DEF MergeInv
<1>6. PICK cues, out : cues = Cues /\ out = Resolved(Cues)
  OBVIOUS
<1>7. FairOf(out, cues)'
  BY <1>1, <1>5, <1>6, FairStays
<1>8. Cues' = cues /\ timeline' = out
  BY <1>1, <1>6, CuesStay
<1>9. FairOf(timeline, Cues)'
  BY <1>1, <1>7, <1>8 DEF FairOf, Better
<1>10. ChunksOf(chunkResults)' /\ PlacesOf(offset)'
  BY <1>1 DEF MergeInv, ChunksOf, PlacesOf
<1>11. (mergeAt # "decode" => \A s \in Recordings :
         /\ Len(chunkResults[s]) = Len(ChunkPlan(LengthOf[s]))
         /\ transcript[s] = MergeChunks(chunkResults[s]))'
  <2>1. \A s \in Recordings : /\ Len(chunkResults[s]) = Len(ChunkPlan(LengthOf[s]))
                              /\ transcript[s] = MergeChunks(chunkResults[s])
    BY <1>1 DEF MergeInv
  <2> QED BY <1>1, <2>1
<1> QED BY <1>1, <1>9, <1>10, <1>11 DEF MergeInv

\* A step of another part leaves the merge.
LEMMA MergeRests ==
  ASSUME MergeInv, UNCHANGED mergeVars
  PROVE  MergeInv'
<1>1. UNCHANGED <<chunkResults, confidenceOf, transcript, offset, timeline, mergeAt>>
  BY DEF mergeVars
<1>2. Cues' = Cues
  BY <1>1, CuesStay
<1>3. mergeAt = "done" => FairOf(timeline, Cues)'
  <2>1. PICK cues, out : cues = Cues /\ out = timeline
    OBVIOUS
  <2>2. mergeAt = "done" => FairOf(out, cues)'
    BY <1>1, <2>1, FairStays DEF MergeInv
  <2>3. Cues' = cues /\ timeline' = out
    BY <1>1, <1>2, <2>1
  <2> QED BY <2>2, <2>3 DEF FairOf, Better
<1>4. ChunksOf(chunkResults)' /\ PlacesOf(offset)'
  BY <1>1 DEF MergeInv, ChunksOf, PlacesOf
<1>5. (mergeAt # "decode" => \A s \in Recordings :
         /\ Len(chunkResults[s]) = Len(ChunkPlan(LengthOf[s]))
         /\ transcript[s] = MergeChunks(chunkResults[s]))'
  <2>1. mergeAt # "decode" => \A s \in Recordings : /\ Len(chunkResults[s]) = Len(ChunkPlan(LengthOf[s]))
                              /\ transcript[s] = MergeChunks(chunkResults[s])
    BY DEF MergeInv
  <2> QED BY <1>1, <2>1
<1> QED BY <1>1, <1>3, <1>4, <1>5 DEF MergeInv

\* The invariant of the merge is inductive.
LEMMA MergeStepKeeps == MergeInv /\ [MergeNext]_mergeVars => MergeInv'
BY DecodeKeeps, FinishKeeps, AlignKeeps, RecordKeeps, MergeRests DEF MergeNext

\* What the invariant says of the transcript and of the record.
LEMMA MergeInvGives == MergeInv => MergeTypeOK /\ OwnedSpeechIsKept /\ TimelineIsFair
<1> SUFFICES ASSUME MergeInv PROVE MergeTypeOK /\ OwnedSpeechIsKept /\ TimelineIsFair
  OBVIOUS
<1>1. MergeTypeOK
  <2>1. ASSUME NEW s \in Recordings PROVE Cardinality(offset[s]) <= 1
    <3>1. offset[s] = {} \/ \E o \in Int : offset[s] = {o}
      BY DEF MergeInv, PlacesOf
    <3>2. CASE offset[s] = {}
      <4>1. Cardinality({}) = 0
        BY FS_EmptySet
      <4> QED BY <3>2, <4>1
    <3>3. CASE \E o \in Int : offset[s] = {o}
      <4>1. PICK o \in Int : offset[s] = {o}
        BY <3>3
      <4>2. Cardinality({o}) = 1
        BY FS_Singleton
      <4> QED BY <4>1, <4>2
    <3> QED BY <3>1, <3>2, <3>3
  <2> QED BY <2>1 DEF MergeInv, ChunksOf, MergeTypeOK
<1>2. OwnedSpeechIsKept
  <2> SUFFICES ASSUME mergeAt # "decode", NEW s \in Recordings,
                      NEW k \in DOMAIN ChunkPlan(LengthOf[s]),
                      NEW g \in ToSet(chunkResults[s][k]), NEW t \in g.from .. g.to - 1,
                      g.text # Noise, k > 1 => t >= ChunkPlan(LengthOf[s])[k - 1][2]
               PROVE  SaidThen(transcript[s], g.text, t)
    BY DEF OwnedSpeechIsKept, SaidThen
  <2>0. PICK ch, plan : ch = chunkResults[s] /\ plan = ChunkPlan(LengthOf[s])
    OBVIOUS
  <2>1. /\ Len(plan) \in Nat /\ k \in 1 .. Len(plan)
        /\ \A i \in 1 .. Len(plan) : plan[i][2] \in Int
        /\ \A i, q \in 1 .. Len(plan) : i <= q => plan[i][2] <= plan[q][2]
    BY <2>0, WindowsAre
  <2>2. /\ Len(ch) = Len(plan) /\ transcript[s] = MergeChunks(ch)
        /\ \A i \in 1 .. Len(ch) : WithinWindow(ch[i], s, plan[i])
    BY <2>0 DEF MergeInv, ChunksOf
  <2>3. HeardOf(ch, s)
    BY <2>0, TranscriptIs
  <2>4. /\ ch[k] \in Seq(Segment)
        /\ \A m \in 1 .. Len(ch[k]) : /\ ch[k][m].from \in Nat /\ ch[k][m].to \in Int
        /\ \A i, m \in 1 .. Len(ch[k]) : i < m => ch[k][i].to <= ch[k][m].from
    BY <2>1, <2>2 DEF WithinWindow
  <2>5. PICK m \in 1 .. Len(ch[k]) : g = ch[k][m]
    BY <2>0, <2>4 DEF ToSet
  <2>6. t \in Nat /\ g.from <= t /\ t < g.to /\ g.from \in Nat
    BY <2>4, <2>5
  <2>7. ASSUME NEW i \in 1 .. m - 1 PROVE ch[k][i].to <= t
    <3>1. i \in 1 .. Len(ch[k]) /\ i < m
      BY <2>4
    <3>2. ch[k][i].to <= g.from /\ ch[k][i].to \in Int
      BY <2>4, <2>5, <3>1
    <3> QED BY <2>6, <3>2
  <2>8. ASSUME NEW q \in 1 .. k - 1, NEW i \in 1 .. Len(ch[q]) PROVE ch[q][i].to <= t
    <3>1. q \in 1 .. Len(plan) /\ k - 1 \in 1 .. Len(plan) /\ q <= k - 1 /\ k > 1
      BY <2>1
    <3>2. ch[q][i].to \in Int /\ ch[q][i].to <= plan[q][2]
      BY <2>2, <3>1 DEF WithinWindow
    <3>3. plan[q][2] <= plan[k - 1][2] /\ plan[q][2] \in Int /\ plan[k - 1][2] \in Int
      BY <2>1, <3>1
    <3>4. t >= plan[k - 1][2]
      BY <2>0, <3>1
    <3> QED BY <2>6, <3>2, <3>3, <3>4
  <2>9. OverBy(ch, k, m, t)
    BY <2>7, <2>8 DEF OverBy
  <2>10. k \in 1 .. Len(ch) /\ m \in Nat
    BY <2>1, <2>2, <2>4
  <2>11. SaidThen(MergeChunks(ch), ch[k][m].text, t)
    BY <2>3, <2>5, <2>6, <2>9, <2>10, MergedLine
  <2> QED BY <2>2, <2>5, <2>11
<1>3. mergeAt # "decode" => \A s \in Recordings : SaidOnce(transcript[s])
  <2> SUFFICES ASSUME mergeAt # "decode", NEW s \in Recordings PROVE SaidOnce(transcript[s])
    OBVIOUS
  <2>1. LineOf(transcript[s], s)
    BY TranscriptIs
  <2>2. Len(transcript[s]) \in Nat
    BY <2>1 DEF LineOf, SegSeq
  <2> SUFFICES ASSUME NEW i \in 1 .. Len(transcript[s]) - 1
               PROVE  transcript[s][i].to <= transcript[s][i + 1].from
    BY DEF SaidOnce
  <2>3. i \in 1 .. Len(transcript[s]) /\ i + 1 \in 1 .. Len(transcript[s]) /\ i < i + 1
    BY <2>2
  <2> QED BY <2>1, <2>3 DEF LineOf
<1>4. ASSUME mergeAt = "done", NEW s \in Recordings \ Unplaced, transcript[s] # <<>>
      PROVE  \E g \in ToSet(Cues) : g.source = s
  <2>1. \A r \in Recordings : LineOf(transcript[r], r)
    BY <1>4, TranscriptIs
  <2>2. offset[s] # {}
    BY <1>4 DEF Unplaced
  <2>3. PICK N \in Nat : Recordings = 1 .. N
    BY RecordingsAre
  <2> QED BY <1>4, <2>1, <2>2, <2>3, CuesAre DEF MergeInv
<1>5. mergeAt = "done" => FairOf(timeline, Cues)
  BY DEF MergeInv
<1>6. TimelineIsFair
  BY <1>3, <1>4, <1>5 DEF TimelineIsFair, FairOf
<1> QED BY <1>1, <1>2, <1>6

-----------------------------------------------------------------------------
(* Ingest (SourceIdentity): names, marks and ids. *)

\* Two different marks, two different numbers on one id, give two ids; a marked id
\* is not the one it was put on.
LEMMA MarkIs ==
  ASSUME NEW d \in SourceId, NEW m \in {"ch", "-"} \X Nat
  PROVE  /\ Mark(d, m) \in SourceId
         /\ Mark(d, m)[2] # <<>> /\ Last(Mark(d, m)[2]) = m
         /\ \A e \in SourceId, k \in {"ch", "-"} \X Nat : Mark(d, m) = Mark(e, k) => d = e /\ m = k
<1> DEFINE S == {Proposes[p][1] : p \in DOMAIN Proposes}
           T == {"ch", "-"} \X Nat
<1>0. SourceId = S \X Seq(T)
  BY DEF SourceId
<1> HIDE DEF S, T
<1>1. PICK a \in S : \E b \in Seq(T) : d = <<a, b>>
  BY <1>0
<1>2. PICK b \in Seq(T) : d = <<a, b>>
  BY <1>1
<1>t. m \in T
  BY DEF T
<1>3. Append(b, m) \in Seq(T) /\ Len(Append(b, m)) = Len(b) + 1 /\ Len(b) \in Nat
      /\ Append(b, m)[Len(b) + 1] = m
  BY <1>t, <1>2
<1>4. Mark(d, m) = <<a, Append(b, m)>>
  BY <1>2 DEF Mark
<1>5. Mark(d, m) \in SourceId
  <2>1. PICK c : c = Append(b, m) /\ c \in Seq(T)
    BY <1>3
  <2>2. <<a, c>> \in S \X Seq(T)
    BY <2>1
  <2> QED BY <1>0, <1>4, <2>1, <2>2
<1>6. Mark(d, m)[2] # <<>> /\ Last(Mark(d, m)[2]) = m
  BY <1>3, <1>4 DEF Last
<1>7. ASSUME NEW e \in SourceId, NEW k \in {"ch", "-"} \X Nat, Mark(d, m) = Mark(e, k)
      PROVE  d = e /\ m = k
  <2>1. PICK v \in S : \E w \in Seq(T) : e = <<v, w>>
    BY <1>0
  <2>2. PICK w \in Seq(T) : e = <<v, w>>
    BY <2>1
  <2>t. k \in T
    BY DEF T
  <2>3. a = v /\ Append(b, m) = Append(w, k)
    BY <1>4, <1>7, <2>2 DEF Mark
  <2>4. b = w /\ m = k
    <3>1. PICK c : c = Append(b, m) /\ c = Append(w, k)
      BY <2>3
    <3>2. /\ Len(c) = Len(b) + 1 /\ Len(b) \in Nat /\ c[Len(b) + 1] = m
          /\ \A i \in 1 .. Len(b) : c[i] = b[i]
      <4>1. b \in Seq(T) /\ m \in T /\ c = Append(b, m)
        BY <1>t, <1>2, <3>1
      <4>2. Len(b) \in Nat /\ Len(c) = Len(b) + 1 /\ c[Len(b) + 1] = m
        BY <4>1
      <4>3. \A i \in 1 .. Len(b) : c[i] = b[i]
        BY <4>1
      <4> QED BY <4>2, <4>3
    <3>3. /\ Len(c) = Len(w) + 1 /\ Len(w) \in Nat /\ c[Len(w) + 1] = k
          /\ \A i \in 1 .. Len(w) : c[i] = w[i]
      <4>1. w \in Seq(T) /\ k \in T /\ c = Append(w, k)
        BY <2>t, <2>2, <3>1
      <4>2. Len(w) \in Nat /\ Len(c) = Len(w) + 1 /\ c[Len(w) + 1] = k
        BY <4>1
      <4>3. \A i \in 1 .. Len(w) : c[i] = w[i]
        BY <4>1
      <4> QED BY <4>2, <4>3
    <3>4. Len(b) = Len(w) /\ m = k
      BY <3>2, <3>3
    <3>5. b \in Seq(T) /\ w \in Seq(T) /\ \A i \in 1 .. Len(b) : b[i] = w[i]
      BY <3>2, <3>3, <3>4
    <3>6. b = w
      BY <3>4, <3>5, SeqEqual
    <3> QED BY <3>4, <3>6
  <2> QED BY <1>2, <2>2, <2>3, <2>4
<1> QED BY <1>5, <1>6, <1>7

\* The first of some numbers.
LEMMA FirstOf ==
  ASSUME NEW s \in SUBSET Nat, s # {}
  PROVE  Min(s) \in s /\ \A u \in s : Min(s) <= u
<1>1. PICK k \in s : \A j \in s : ~ (<<j, k>> \in OpToRel(<, Nat))
  BY NatLessThanWellFounded, WFMin
<1>2. \A j \in s : k <= j
  <2> SUFFICES ASSUME NEW j \in s, j < k PROVE FALSE
    OBVIOUS
  <2>1. <<j, k>> \in OpToRel(<, Nat)
    BY DEF OpToRel
  <2> QED BY <1>1, <2>1
<1> QED BY <1>1, <1>2 DEF Min

\* A number on an id is a mark.
LEMMA Numbered == \A n \in Nat : <<"-", n>> \in {"ch", "-"} \X Nat
OBVIOUS

\* The ids a unit may settle on: its proposal, or the first number on it not taken.
SettlesOn(taken, desired, id) ==
    \/ desired \notin taken /\ id = desired
    \/ /\ desired \in taken
       /\ \E n \in Nat : /\ n >= 2 /\ id = Mark(desired, <<"-", n>>)
                         /\ \A m \in 2 .. n - 1 : Mark(desired, <<"-", m>>) \in taken

\* Whatever is taken, a free id is found for the unit.
LEMMA StageIdIs ==
  ASSUME NEW taken \in SUBSET SourceId, IsFiniteSet(taken), NEW desired \in SourceId
  PROVE  /\ StageId(taken, desired) \in SourceId \ taken
         /\ SettlesOn(taken, desired, StageId(taken, desired))
<1>1. CASE desired \notin taken
  BY <1>1 DEF StageId, SettlesOn
<1>2. CASE desired \in taken
  <2>0. PICK q : q = Cardinality(taken) /\ q \in Nat
    BY FS_CardinalityType
  <2> DEFINE free == {n \in 2 .. q + 2 : Mark(desired, <<"-", n>>) \notin taken}
  <2>1. free # {}
    <3> SUFFICES ASSUME free = {} PROVE FALSE
      OBVIOUS
    <3> DEFINE f == [n \in 2 .. q + 2 |-> Mark(desired, <<"-", n>>)]
    <3>1. f \in [2 .. q + 2 -> taken]
      OBVIOUS
    <3>2. IsFiniteSet(2 .. q + 2) /\ Cardinality(2 .. q + 2) = q + 1
      <4>1. PICK b \in Nat : b = q + 2
        BY <2>0
      <4>2. IsFiniteSet(2 .. b) /\ Cardinality(2 .. b) = IF 2 > b THEN 0 ELSE b - 2 + 1
        BY FS_Interval
      <4> QED BY <2>0, <4>1, <4>2
    <3>3. \E i, j \in 2 .. q + 2 : i # j /\ f[i] = f[j]
      <4>1. PICK A, g : A = 2 .. q + 2 /\ g = f
        OBVIOUS
      <4>2. IsFiniteSet(A) /\ Cardinality(taken) < Cardinality(A)
        BY <2>0, <3>2, <4>1
      <4>3. g \in [A -> taken]
        BY <3>1, <4>1
      <4>4. \E i, j \in A : i # j /\ g[i] = g[j]
        BY <4>2, <4>3, FS_PigeonHole
      <4> QED BY <4>1, <4>4
    <3>4. PICK i \in 2 .. q + 2 : \E j \in 2 .. q + 2 : i # j /\ f[i] = f[j]
      BY <3>3
    <3>5. PICK j \in 2 .. q + 2 : i # j /\ f[i] = f[j]
      BY <3>4
    <3>6. Mark(desired, <<"-", i>>) = Mark(desired, <<"-", j>>)
      BY <3>5
    <3>7. <<"-", i>> = <<"-", j>>
      <4>1. i \in Nat /\ j \in Nat
        BY <2>0
      <4>2. <<"-", i>> \in {"ch", "-"} \X Nat /\ <<"-", j>> \in {"ch", "-"} \X Nat
        BY <4>1, Numbered
      <4> QED BY <3>6, <4>2, MarkIs
    <3> QED BY <3>5, <3>7
  <2>2. PICK n : n = Min(free)
    OBVIOUS
  <2>3. n \in free /\ \A u \in free : n <= u
    <3>1. free \in SUBSET Nat
      BY <2>0
    <3> HIDE DEF free
    <3> QED BY <2>1, <2>2, <3>1, FirstOf
  <2>4. StageId(taken, desired) = Mark(desired, <<"-", n>>)
    BY <1>2, <2>0, <2>2 DEF StageId
  <2>5. n \in Nat /\ n >= 2 /\ Mark(desired, <<"-", n>>) \notin taken
    BY <2>0, <2>3
  <2>6. Mark(desired, <<"-", n>>) \in SourceId
    BY <2>5, Numbered, MarkIs
  <2>7. \A m \in 2 .. n - 1 : Mark(desired, <<"-", m>>) \in taken
    <3> SUFFICES ASSUME NEW m \in 2 .. n - 1, Mark(desired, <<"-", m>>) \notin taken PROVE FALSE
      OBVIOUS
    <3>1. m \in free
      BY <2>0, <2>3
    <3> QED BY <2>3, <2>5, <3>1
  <2> QED BY <1>2, <2>4, <2>5, <2>6, <2>7 DEF SettlesOn
<1> QED BY <1>1, <1>2

-----------------------------------------------------------------------------
\* The names are those of the list, each proposing an id.
LEMMA NamesAre ==
  \E n \in Nat : /\ DOMAIN FileName = 1 .. n /\ Len(FileName) = n
                 /\ \A i \in 1 .. n : FileName[i] \in Names
                 /\ \A p \in Names : (\E i \in 1 .. n : FileName[i] = p) /\ Proposes[p] \in SourceId
<1>1. FileName \in Seq(DOMAIN Proposes) /\ \A p \in DOMAIN Proposes : Proposes[p] \in SourceId
  BY SourceBounds
<1>2. PICK n : n = Len(FileName) /\ n \in Nat /\ DOMAIN FileName = 1 .. n
  BY <1>1
<1>3. Names = {FileName[i] : i \in 1 .. n}
  BY <1>2 DEF Names, ToSet
<1>4. \A i \in 1 .. n : FileName[i] \in DOMAIN Proposes
  BY <1>1, <1>2
<1> QED BY <1>1, <1>2, <1>3, <1>4

\* A folder gives each name a tape or none.
FolderOK == split \in BOOLEAN /\ folder \in [Names -> SourceTape \union {NoTape}]

\* What the units of a tape's file ask for: one id each, the last mark of which tells
\* the channels of a split tape apart.
LEMMA ProposalsAre ==
  ASSUME FolderOK, NEW p \in Names, NEW t \in SourceTape
  PROVE  LET P == ProposalsOf(p, t)
         IN  /\ DOMAIN P = 1 .. (IF split /\ ChannelsOf[t] > 1 THEN ChannelsOf[t] ELSE 1)
             /\ ChannelsOf[t] \in Nat \ {0}
             /\ \A i \in DOMAIN P : P[i] \in SourceId /\ Channel(t, i) \in 0 .. ChannelsOf[t]
             /\ \A i \in DOMAIN P : P[i] = IF split /\ ChannelsOf[t] > 1
                                           THEN Mark(Proposes[p], <<"ch", i>>) ELSE Proposes[p]
             /\ \A i, j \in DOMAIN P : Channel(t, i) = Channel(t, j) => i = j
<1>1. Proposes[p] \in SourceId
  BY NamesAre
<1>2. ChannelsOf[t] \in Nat \ {0}
  BY SourceBounds
<1>3. CASE split /\ ChannelsOf[t] > 1
  <2>1. ProposalsOf(p, t) = [c \in 1 .. ChannelsOf[t] |-> Mark(Proposes[p], <<"ch", c>>)]
    BY <1>3 DEF ProposalsOf
  <2>2. \A c \in 1 .. ChannelsOf[t] : Mark(Proposes[p], <<"ch", c>>) \in SourceId
    BY <1>1, <1>2, MarkIs
  <2> QED BY <1>2, <1>3, <2>1, <2>2 DEF Channel
<1>4. CASE ~ (split /\ ChannelsOf[t] > 1)
  <2>1. ProposalsOf(p, t) = <<Proposes[p]>>
    BY <1>4 DEF ProposalsOf
  <2>2. DOMAIN ProposalsOf(p, t) = 1 .. 1 /\ \A i \in 1 .. 1 : i = 1 /\ ProposalsOf(p, t)[i] = Proposes[p]
    BY <2>1
  <2> QED BY <1>1, <1>2, <1>4, <2>2 DEF Channel
<1> QED BY <1>3, <1>4

\* Two units of one tape that ask for one id are of one slot.
LEMMA SlotsApart ==
  ASSUME FolderOK, NEW p \in Names, NEW q \in Names, NEW t \in SourceTape,
         NEW i \in DOMAIN ProposalsOf(p, t), NEW j \in DOMAIN ProposalsOf(q, t),
         ProposalsOf(p, t)[i] = ProposalsOf(q, t)[j]
  PROVE  i = j
<1>1. /\ DOMAIN ProposalsOf(p, t) = 1 .. (IF split /\ ChannelsOf[t] > 1 THEN ChannelsOf[t] ELSE 1)
      /\ DOMAIN ProposalsOf(q, t) = 1 .. (IF split /\ ChannelsOf[t] > 1 THEN ChannelsOf[t] ELSE 1)
      /\ ChannelsOf[t] \in Nat \ {0}
      /\ ProposalsOf(p, t)[i] = IF split /\ ChannelsOf[t] > 1 THEN Mark(Proposes[p], <<"ch", i>>) ELSE Proposes[p]
      /\ ProposalsOf(q, t)[j] = IF split /\ ChannelsOf[t] > 1 THEN Mark(Proposes[q], <<"ch", j>>) ELSE Proposes[q]
  BY ProposalsAre
<1>2. CASE split /\ ChannelsOf[t] > 1
  <2>1. i \in Nat /\ j \in Nat
    BY <1>1
  <2>2. <<"ch", i>> \in {"ch", "-"} \X Nat /\ <<"ch", j>> \in {"ch", "-"} \X Nat
    BY <2>1
  <2>3. Proposes[p] \in SourceId /\ Proposes[q] \in SourceId
    BY NamesAre
  <2>4. Mark(Proposes[p], <<"ch", i>>) = Mark(Proposes[q], <<"ch", j>>)
    BY <1>1, <1>2
  <2>5. <<"ch", i>> = <<"ch", j>>
    BY <2>2, <2>3, <2>4, MarkIs
  <2> QED BY <2>5
<1>3. CASE ~ (split /\ ChannelsOf[t] > 1)
  BY <1>1, <1>3
<1> QED BY <1>2, <1>3

\* The source of a tape is the same whichever copy is asked, and is kept itself.
LEMMA KeptForIs ==
  ASSUME FolderOK, NEW p \in Present
  PROVE  /\ KeptFor(p) \in KeptCopies
         /\ folder[KeptFor(p)] = folder[p] /\ folder[p] \in SourceTape
         /\ \A q \in Present : folder[q] = folder[p] => KeptFor(q) = KeptFor(p)
<1>0. p \in Names /\ folder[p] # NoTape /\ folder[p] \in SourceTape
  BY DEF Present, FolderOK
<1>1. PICK n \in Nat : /\ DOMAIN FileName = 1 .. n
                       /\ \A i \in 1 .. n : FileName[i] \in Names
                       /\ \A r \in Names : \E i \in 1 .. n : FileName[i] = r
  BY NamesAre
<1> DEFINE at == {i \in 1 .. n : folder[FileName[i]] = folder[p]}
<1>2. at \in SUBSET Nat /\ at # {}
  BY <1>0, <1>1
<1>3. PICK k : k = Min(at)
  OBVIOUS
<1>4. k \in at
  <2> HIDE DEF at
  <2> QED BY <1>2, <1>3, FirstOf
<1>5. KeptFor(p) = FileName[k]
  BY <1>1, <1>3 DEF KeptFor
<1>6. ASSUME NEW q \in Present, folder[q] = folder[p] PROVE KeptFor(q) = KeptFor(p)
  BY <1>6 DEF KeptFor
<1>7. FileName[k] \in Present /\ folder[FileName[k]] = folder[p]
  BY <1>0, <1>1, <1>4 DEF Present
<1>8. KeptFor(FileName[k]) = KeptFor(p)
  BY <1>6, <1>7
<1> QED BY <1>0, <1>5, <1>6, <1>7, <1>8 DEF KeptCopies

-----------------------------------------------------------------------------
(* What a pass is asked for. *)

\* What the units of the folder ask for, and a unit as staged.
Bases(p) == ProposalsOf(p, folder[p])
Asked == {w \in [file : Names, slot : Nat, channel : Nat, desired : SourceId] :
            /\ w.file \in KeptCopies /\ w.slot \in DOMAIN Bases(w.file)
            /\ w.channel = Channel(folder[w.file], w.slot)
            /\ w.desired = Bases(w.file)[w.slot]}
StagedUnit == [file : Names, slot : Nat, channel : Nat, id : SourceId]
UnitSeq == Seq(StagedUnit)

\* The ids of staged units are finitely many.
LEMMA IdsAreFinite ==
  ASSUME NEW units \in UnitSeq
  PROVE  /\ {units[k].id : k \in DOMAIN units} \in SUBSET SourceId
         /\ IsFiniteSet({units[k].id : k \in DOMAIN units})
<1>1. PICK n : n = Len(units) /\ n \in Nat /\ DOMAIN units = 1 .. n
  BY DEF UnitSeq
<1>2. \A k \in 1 .. n : units[k] \in StagedUnit
  BY <1>1 DEF UnitSeq
<1> DEFINE ids == {units[k].id : k \in DOMAIN units}
           f == [k \in 1 .. n |-> units[k].id]
<1>3. ids \in SUBSET SourceId
  BY <1>1, <1>2 DEF StagedUnit
<1>4. f \in [1 .. n -> ids] /\ \A t \in ids : \E k \in 1 .. n : f[k] = t
  BY <1>1
<1>5. IsFiniteSet(1 .. n)
  BY <1>1, FS_Interval
<1>6. IsFiniteSet(ids)
  <2> HIDE DEF f, ids
  <2>1. f \in Surjection(1 .. n, ids)
    BY <1>4 DEF Surjection
  <2> QED BY <1>5, <2>1, FS_Surjection
<1> QED BY <1>3, <1>6

\* Staging one more keeps the type.
LEMMA StageType ==
  ASSUME NEW acc \in UnitSeq, NEW g \in Asked
  PROVE  Stage(acc, g) \in UnitSeq
<1> DEFINE taken == {acc[k].id : k \in DOMAIN acc}
<1>1. taken \in SUBSET SourceId /\ IsFiniteSet(taken)
  BY IdsAreFinite
<1>2. g.desired \in SourceId /\ g.file \in Names /\ g.slot \in Nat /\ g.channel \in Nat
  BY DEF Asked
<1>3. StageId(taken, g.desired) \in SourceId
  <2> HIDE DEF taken
  <2> QED BY <1>1, <1>2, StageIdIs
<1>4. [file |-> g.file, slot |-> g.slot, channel |-> g.channel,
       id |-> StageId(taken, g.desired)] \in StagedUnit
  <2> HIDE DEF taken
  <2> QED BY <1>2, <1>3 DEF StagedUnit
<1> QED BY <1>4 DEF Stage, UnitSeq

\* The fold of Units.
StageIter(segs, it) ==
    it = [s \in SUBSET DOMAIN segs |->
            IF s = {} THEN <<>> ELSE Stage(it[s \ {Max(s)}], segs[Max(s)])]

\* Units' fold is the last of the values Stage takes, one unit at a time.
LEMMA StageFolds ==
  ASSUME NEW segs \in Seq(Asked)
  PROVE  \E f \in [0 .. Len(segs) -> UnitSeq] :
            /\ f[0] = <<>>
            /\ \A k \in 1 .. Len(segs) : f[k] = Stage(f[k - 1], segs[k])
            /\ FoldLeft(Stage, <<>>, segs) = f[Len(segs)]
<1>0. PICK n : n = Len(segs) /\ n \in Nat /\ DOMAIN segs = 1 .. n
  OBVIOUS
<1>z. <<>> \in UnitSeq
  BY DEF UnitSeq
<1>1. \E it : StageIter(segs, it)
  <2> DEFINE G == [p \in UnitSeq \X (1 .. n) |-> Stage(p[1], segs[p[2]])]
  <2>1. G \in [UnitSeq \X (1 .. n) -> UnitSeq]
    BY <1>0, StageType
  <2>2. PICK it \in [SUBSET (1 .. n) -> UnitSeq] : FoldsWith(it, n, <<>>, G)
    <3> HIDE DEF G
    <3> QED BY <1>0, <1>z, <2>1, FoldExists
  <2>3. ASSUME NEW s \in SUBSET (1 .. n), s # {}
        PROVE  it[s] = Stage(it[s \ {Max(s)}], segs[Max(s)])
    <3>1. Max(s) \in 1 .. n
      BY <1>0, <2>3, LastOf
    <3>2. it[s] = G[<<it[s \ {Max(s)}], Max(s)>>]
      <4> HIDE DEF G
      <4> QED BY <2>2, <2>3 DEF FoldsWith
    <3> QED BY <2>2, <3>1, <3>2
  <2>4. it[{}] = <<>>
    <3> HIDE DEF G
    <3> QED BY <2>2 DEF FoldsWith
  <2>5. StageIter(segs, it)
    <3> HIDE DEF G
    <3> QED BY <1>0, <2>2, <2>3, <2>4 DEF StageIter
  <2> QED BY <2>5
<1>2. PICK c : c = CHOOSE it : StageIter(segs, it)
  OBVIOUS
<1>3. FoldLeft(Stage, <<>>, segs) = c[1 .. n]
  BY <1>0, <1>2 DEF FoldLeft, MapThenFoldSet, StageIter
<1>4. StageIter(segs, c)
  BY <1>1, <1>2
<1> DEFINE f == [k \in 0 .. n |-> c[1 .. k]]
<1>5. f[0] = <<>>
  <2>1. 1 .. 0 = {}
    OBVIOUS
  <2> QED BY <1>0, <1>4, <2>1 DEF StageIter
<1>6. ASSUME NEW k \in 1 .. n PROVE f[k] = Stage(f[k - 1], segs[k])
  <2>1. Max(1 .. k) = k /\ (1 .. k) \ {k} = 1 .. (k - 1) /\ 1 .. k # {}
    BY <1>0, LastOfAll
  <2>2. 1 .. k \in SUBSET (1 .. n)
    BY <1>0
  <2>3. c[1 .. k] = Stage(c[1 .. (k - 1)], segs[k])
    BY <1>0, <1>4, <2>1, <2>2 DEF StageIter
  <2> QED BY <1>0, <2>3
<1>7. \A k \in 0 .. n : f[k] \in UnitSeq
  <2> DEFINE P == {k \in 0 .. n : f[k] \in UnitSeq}
  <2>1. 0 \in P
    BY <1>0, <1>5, <1>z
  <2>2. ASSUME NEW k \in 1 .. n, k - 1 \in P PROVE k \in P
    <3> HIDE DEF f
    <3>1. segs[k] \in Asked /\ f[k - 1] \in UnitSeq
      BY <1>0, <2>2
    <3> QED BY <1>6, <3>1, StageType
  <2>3. \A k \in 0 .. n : k \in P
    <3> HIDE DEF P
    <3> QED BY <1>0, <2>1, <2>2, Upwards
  <2> HIDE DEF f
  <2> QED BY <2>3
<1>8. f \in [0 .. n -> UnitSeq] /\ f[n] = c[1 .. n]
  BY <1>0, <1>7
<1> HIDE DEF f
<1> QED BY <1>0, <1>3, <1>5, <1>6, <1>8

\* What is asked of a pass, file by file.
Asks == FlattenSeq([k \in DOMAIN FileName |-> Wanted(FileName[k])])
AskSeq == Seq(Asked)

\* The files' lists are lists of what the units ask for.
LEMMA WantedIs ==
  ASSUME FolderOK, NEW p \in Names
  PROVE  /\ Wanted(p) \in ListOf(Asked)
         /\ \A m \in 1 .. Len(Wanted(p)) : Wanted(p)[m].file = p /\ Wanted(p)[m].slot = m
         /\ p \in KeptCopies => 1 .. Len(Wanted(p)) = DOMAIN Bases(p)
<1>1. CASE p \notin KeptCopies
  BY <1>1 DEF Wanted, ListOf
<1>2. CASE p \in KeptCopies
  <2>1. folder[p] \in SourceTape
    BY <1>2 DEF KeptCopies, Present, FolderOK
  <2>2. PICK n : /\ n = (IF split /\ ChannelsOf[folder[p]] > 1 THEN ChannelsOf[folder[p]] ELSE 1)
                 /\ n \in Nat /\ DOMAIN Bases(p) = 1 .. n
                 /\ \A i \in 1 .. n : /\ Bases(p)[i] \in SourceId
                                     /\ Channel(folder[p], i) \in Nat
    <3>1. ChannelsOf[folder[p]] \in Nat \ {0}
      BY <2>1, ProposalsAre
    <3> QED BY <2>1, <3>1, ProposalsAre DEF Bases
  <2>3. Wanted(p) = [i \in 1 .. n |-> [file |-> p, slot |-> i, channel |-> Channel(folder[p], i),
                                        desired |-> Bases(p)[i]]]
    BY <1>2, <2>2 DEF Wanted, Bases
  <2>4. ASSUME NEW i \in 1 .. n
        PROVE  [file |-> p, slot |-> i, channel |-> Channel(folder[p], i), desired |-> Bases(p)[i]] \in Asked
    <3>1. i \in Nat /\ i \in DOMAIN Bases(p)
      BY <2>2
    <3> QED BY <1>2, <2>2, <3>1 DEF Asked
  <2>5. Wanted(p) \in Seq(Asked) /\ Len(Wanted(p)) = n
    BY <2>2, <2>3, <2>4
  <2>6. \A m \in 1 .. n : Wanted(p)[m].file = p /\ Wanted(p)[m].slot = m
    BY <2>3
  <2> QED BY <2>2, <2>5, <2>6 DEF ListOf
<1> QED BY <1>1, <1>2

\* No unit asks twice, and every unit of every kept file asks.
LEMMA AsksAre ==
  ASSUME FolderOK
  PROVE  /\ Asks \in AskSeq
         /\ \A i, j \in 1 .. Len(Asks) :
              Asks[i].file = Asks[j].file /\ Asks[i].slot = Asks[j].slot => i = j
         /\ \A p \in KeptCopies : \A m \in DOMAIN Bases(p) :
              \E i \in 1 .. Len(Asks) : Asks[i].file = p /\ Asks[i].slot = m
<1>1. PICK n \in Nat : /\ DOMAIN FileName = 1 .. n
                       /\ \A i \in 1 .. n : FileName[i] \in Names
                       /\ \A r \in Names : \E i \in 1 .. n : FileName[i] = r
  BY NamesAre
<1> DEFINE ss == [k \in DOMAIN FileName |-> Wanted(FileName[k])]
<1>2. ss \in Seq(ListOf(Asked)) /\ Len(ss) = n /\ \A k \in 1 .. n : ss[k] = Wanted(FileName[k])
  <2>1. \A k \in 1 .. n : Wanted(FileName[k]) \in ListOf(Asked)
    BY <1>1, WantedIs
  <2> QED BY <1>1, <2>1
<1>3. Asks = FlattenSeq(ss)
  BY DEF Asks
<1>4. /\ Asks \in Seq(Asked)
      /\ \A j \in 1 .. Len(Asks) : Behind(ss, n, Asks, j)
      /\ \A k \in 1 .. n, m \in Nat : m \in 1 .. Len(ss[k]) => \E j \in 1 .. Len(Asks) : Asks[j] = ss[k][m]
  <2> HIDE DEF ss
  <2> QED BY <1>2, <1>3, FlatPlaces
<1> HIDE DEF ss
<1>w. ASSUME NEW k \in 1 .. n, NEW m \in 1 .. Len(ss[k])
      PROVE  m \in Nat /\ ss[k][m].file = FileName[k] /\ ss[k][m].slot = m
  <2>1. FileName[k] \in Names /\ ss[k] = Wanted(FileName[k])
    BY <1>1, <1>2
  <2>2. Wanted(FileName[k]) \in Seq(Asked)
    BY <2>1, WantedIs DEF ListOf
  <2>3. Len(ss[k]) \in Nat
    BY <2>1, <2>2
  <2> QED BY <2>1, <2>3, WantedIs
<1>5. ASSUME NEW i \in 1 .. Len(Asks), NEW j \in 1 .. Len(Asks), i < j,
             Asks[i].file = Asks[j].file, Asks[i].slot = Asks[j].slot
      PROVE  FALSE
  <2>1. PICK k \in 1 .. n : \E m \in 1 .. Len(ss[k]) :
           Asks[j] = ss[k][m] /\ \A e \in 1 .. j - 1 : Before(ss, k, m, Asks[e])
    BY <1>4 DEF Behind
  <2>2. PICK m \in 1 .. Len(ss[k]) :
           Asks[j] = ss[k][m] /\ \A e \in 1 .. j - 1 : Before(ss, k, m, Asks[e])
    BY <2>1
  <2>3. Asks[j].file = FileName[k] /\ Asks[j].slot = m /\ m \in Nat
    BY <1>w, <2>2
  <2>4. Before(ss, k, m, Asks[i])
    <3>1. i \in 1 .. j - 1
      BY <1>5
    <3> QED BY <2>2, <3>1
  <2>5. CASE \E e \in 1 .. m - 1 : Asks[i] = ss[k][e]
    <3>1. PICK e \in 1 .. m - 1 : Asks[i] = ss[k][e]
      BY <2>5
    <3>2. e \in 1 .. Len(ss[k]) /\ e # m
      <4>1. FileName[k] \in Names /\ ss[k] = Wanted(FileName[k])
        BY <1>1, <1>2
      <4>2. Wanted(FileName[k]) \in Seq(Asked)
        BY <4>1, WantedIs DEF ListOf
      <4>3. Len(ss[k]) \in Nat
        BY <4>1, <4>2
      <4> QED BY <2>3, <3>1, <4>3
    <3> QED BY <1>5, <1>w, <2>3, <3>1, <3>2
  <2>6. CASE Origin(ss, k - 1, Asks[i])
    <3>1. PICK q \in 1 .. k - 1 : \E e \in 1 .. Len(ss[q]) : Asks[i] = ss[q][e]
      BY <2>6 DEF Origin
    <3>2. q \in 1 .. n /\ q # k
      BY <1>1
    <3>3. Asks[i].file = FileName[q]
      BY <1>w, <3>1, <3>2
    <3>4. FileName[q] = FileName[k]
      BY <1>5, <2>3, <3>3
    <3> QED BY <1>1, <3>2, <3>4, SourceBounds
  <2> QED BY <2>4, <2>5, <2>6 DEF Before
<1>6. ASSUME NEW p \in KeptCopies, NEW m \in DOMAIN Bases(p)
      PROVE  \E i \in 1 .. Len(Asks) : Asks[i].file = p /\ Asks[i].slot = m
  <2>0. p \in Names
    BY DEF KeptCopies, Present
  <2>1. PICK k \in 1 .. n : FileName[k] = p
    BY <1>1, <2>0
  <2>2. ss[k] = Wanted(p)
    BY <1>2, <2>1
  <2>3. m \in 1 .. Len(ss[k])
    BY <2>0, <2>2, WantedIs
  <2>4. m \in Nat /\ ss[k][m].file = p /\ ss[k][m].slot = m
    BY <1>w, <2>1, <2>3
  <2>5. PICK j \in 1 .. Len(Asks) : Asks[j] = ss[k][m]
    BY <1>4, <2>3, <2>4
  <2> QED BY <2>4, <2>5
<1>7. \A i, j \in 1 .. Len(Asks) :
        Asks[i].file = Asks[j].file /\ Asks[i].slot = Asks[j].slot => i = j
  <2> SUFFICES ASSUME NEW i \in 1 .. Len(Asks), NEW j \in 1 .. Len(Asks),
                      Asks[i].file = Asks[j].file, Asks[i].slot = Asks[j].slot, i # j
               PROVE  FALSE
    OBVIOUS
  <2>1. Len(Asks) \in Nat
    BY <1>4
  <2>2. i < j \/ j < i
    BY <2>1
  <2> QED BY <1>5, <2>2
<1> QED BY <1>4, <1>6, <1>7 DEF AskSeq

-----------------------------------------------------------------------------
(* The ids a pass settles. *)

\* Unit i is what was asked, under an id free when its turn came.
PlacedAt(u, i) ==
    /\ u[i] = [file |-> Asks[i].file, slot |-> Asks[i].slot,
               channel |-> Asks[i].channel, id |-> u[i].id]
    /\ u[i].id \notin {u[j].id : j \in 1 .. i - 1}
    /\ SettlesOn({u[j].id : j \in 1 .. i - 1}, Asks[i].desired, u[i].id)

\* Each unit staged is what was asked, under the id free when its turn came.
LEMMA UnitsGrow ==
  ASSUME FolderOK
  PROVE  /\ Units \in UnitSeq /\ Len(Units) = Len(Asks) /\ Len(Asks) \in Nat
         /\ DOMAIN Units = 1 .. Len(Asks)
         /\ \A i \in 1 .. Len(Asks) : Asks[i] \in Asked /\ PlacedAt(Units, i)
<1>0. Asks \in Seq(Asked)
  BY AsksAre DEF AskSeq
<1>1. PICK n : n = Len(Asks) /\ n \in Nat
  BY <1>0
<1>2. Units = FoldLeft(Stage, <<>>, Asks)
  BY DEF Units, Asks
<1>3. PICK f \in [0 .. n -> UnitSeq] :
        /\ f[0] = <<>>
        /\ \A k \in 1 .. n : f[k] = Stage(f[k - 1], Asks[k])
        /\ FoldLeft(Stage, <<>>, Asks) = f[n]
  BY <1>0, <1>1, StageFolds
<1> DEFINE P == {k \in 0 .. n : Len(f[k]) = k /\ \A i \in 1 .. k : PlacedAt(f[k], i)}
<1>4. 0 \in P
  BY <1>1, <1>3
<1>5. ASSUME NEW k \in 1 .. n, k - 1 \in P PROVE k \in P
  <2>0. PICK a, b, w : a = f[k - 1] /\ b = f[k] /\ w = Asks[k]
    OBVIOUS
  <2>1. a \in UnitSeq /\ b \in UnitSeq /\ w \in Asked /\ Len(a) = k - 1 /\ DOMAIN a = 1 .. (k - 1)
    <3>1. k - 1 \in 0 .. n /\ k \in 0 .. n
      BY <1>1
    <3>2. a \in UnitSeq /\ b \in UnitSeq
      BY <1>3, <2>0, <3>1
    <3>3. w \in Asked
      BY <1>0, <1>1, <2>0
    <3>4. Len(a) = k - 1
      BY <1>5, <2>0
    <3> QED BY <3>2, <3>3, <3>4 DEF UnitSeq
  <2> DEFINE taken == {a[j].id : j \in 1 .. k - 1}
             new == [file |-> w.file, slot |-> w.slot, channel |-> w.channel,
                     id |-> StageId(taken, w.desired)]
  <2>2. b = Append(a, new)
    <3>1. b = Stage(a, w)
      BY <1>3, <2>0
    <3> QED BY <2>1, <3>1 DEF Stage
  <2>3. taken \in SUBSET SourceId /\ IsFiniteSet(taken)
    BY <2>1, IdsAreFinite
  <2>4. w.desired \in SourceId
    BY <2>1 DEF Asked
  <2>5. PICK id : id = StageId(taken, w.desired) /\ id \notin taken /\ SettlesOn(taken, w.desired, id)
    <3> HIDE DEF taken
    <3> QED BY <2>3, <2>4, StageIdIs
  <2>6. /\ Len(b) = k /\ b[k] = new
        /\ \A i \in 1 .. (k - 1) : b[i] = a[i]
    <3>1. a \in Seq(StagedUnit)
      BY <2>1 DEF UnitSeq
    <3>2. PICK v : v = new
      OBVIOUS
    <3>3. Len(Append(a, v)) = k /\ Append(a, v)[k] = v /\ \A i \in 1 .. (k - 1) : Append(a, v)[i] = a[i]
      BY <2>1, <3>1
    <3> QED BY <2>2, <3>2, <3>3
  <2>7. ASSUME NEW i \in 1 .. k PROVE PlacedAt(b, i)
    <3>1. CASE i = k
      <4>1. {b[j].id : j \in 1 .. i - 1} = taken
        BY <2>6, <3>1
      <4>2. b[i] = [file |-> w.file, slot |-> w.slot, channel |-> w.channel, id |-> id]
        BY <2>5, <2>6, <3>1
      <4>3. Asks[i] = w /\ b[i].id = id
        BY <2>0, <3>1, <4>2
      <4> HIDE DEF taken
      <4> QED BY <2>5, <4>1, <4>2, <4>3 DEF PlacedAt
    <3>2. CASE i # k
      <4>1. i \in 1 .. (k - 1)
        BY <3>2
      <4>2. {b[j].id : j \in 1 .. i - 1} = {a[j].id : j \in 1 .. i - 1}
        <5>1. \A j \in 1 .. i - 1 : j \in 1 .. (k - 1)
          BY <4>1
        <5> QED BY <2>6, <5>1
      <4>3. b[i] = a[i]
        BY <2>6, <4>1
      <4>4. PlacedAt(a, i)
        BY <1>5, <2>0, <4>1
      <4>5. /\ a[i] = [file |-> Asks[i].file, slot |-> Asks[i].slot,
                       channel |-> Asks[i].channel, id |-> a[i].id]
            /\ a[i].id \notin {a[j].id : j \in 1 .. i - 1}
            /\ SettlesOn({a[j].id : j \in 1 .. i - 1}, Asks[i].desired, a[i].id)
        BY <4>4 DEF PlacedAt
      <4> QED BY <4>2, <4>3, <4>5 DEF PlacedAt
    <3> QED BY <3>1, <3>2
  <2>8. Len(f[k]) = k
    BY <2>0, <2>6
  <2>9. \A i \in 1 .. k : PlacedAt(f[k], i)
    BY <2>0, <2>7
  <2> QED BY <1>1, <2>8, <2>9
<1>6. n \in P
  <2> HIDE DEF P
  <2>1. \A k \in 0 .. n : k \in P
    BY <1>1, <1>4, <1>5, Upwards
  <2> QED BY <1>1, <2>1
<1>7. Units = f[n] /\ Units \in UnitSeq /\ DOMAIN Units = 1 .. Len(Units)
  BY <1>1, <1>2, <1>3 DEF UnitSeq
<1>8. \A i \in 1 .. n : Asks[i] \in Asked
  BY <1>0, <1>1
<1>9. Len(Units) = n /\ \A i \in 1 .. n : PlacedAt(Units, i)
  BY <1>6, <1>7
<1> QED BY <1>1, <1>7, <1>8, <1>9

\* The id of a unit that asked for base, among the ids of its pass.
WellNamed(ids, base, id) ==
    \/ id = base
    \/ /\ base \in ids
       /\ \E n \in Nat : /\ n >= 2 /\ id = Mark(base, <<"-", n>>)
                         /\ \A m \in 2 .. n - 1 : Mark(base, <<"-", m>>) \in ids

\* The ids a pass stages.
StagedIds == {Units[i].id : i \in DOMAIN Units}

\* The units of a pass: each is one unit of a kept file, under an id of its own that
\* its name accounts for; and no unit of a kept file is left out.
LEMMA UnitsAre ==
  ASSUME FolderOK
  PROVE  /\ Units \in Seq(StagedUnit) /\ Len(Units) \in Nat /\ DOMAIN Units = 1 .. Len(Units)
         /\ \A i \in 1 .. Len(Units) :
              /\ Units[i].file \in KeptCopies /\ Units[i].slot \in DOMAIN Bases(Units[i].file)
              /\ Units[i].channel = Channel(folder[Units[i].file], Units[i].slot)
              /\ WellNamed(StagedIds, Bases(Units[i].file)[Units[i].slot], Units[i].id)
         /\ \A i, j \in 1 .. Len(Units) :
              \/ i = j
              \/ /\ Units[i].id # Units[j].id
                 /\ Units[i].file # Units[j].file \/ Units[i].slot # Units[j].slot
         /\ \A p \in KeptCopies : \A m \in DOMAIN Bases(p) :
              \E i \in 1 .. Len(Units) : Units[i].file = p /\ Units[i].slot = m
<1>1. PICK n : n = Len(Asks) /\ n \in Nat /\ Len(Units) = n /\ DOMAIN Units = 1 .. n /\ Units \in UnitSeq
  BY UnitsGrow
<1>2. ASSUME NEW i \in 1 .. n
      PROVE  Asks[i] \in Asked /\ PlacedAt(Units, i)
             /\ Units[i].file = Asks[i].file /\ Units[i].slot = Asks[i].slot
             /\ Units[i].channel = Asks[i].channel
  <2>1. Asks[i] \in Asked /\ PlacedAt(Units, i)
    BY <1>1, UnitsGrow
  <2> QED BY <2>1 DEF PlacedAt
<1>3. ASSUME NEW i \in 1 .. n
      PROVE  /\ Units[i].file \in KeptCopies /\ Units[i].slot \in DOMAIN Bases(Units[i].file)
             /\ Units[i].channel = Channel(folder[Units[i].file], Units[i].slot)
             /\ WellNamed(StagedIds, Bases(Units[i].file)[Units[i].slot], Units[i].id)
  <2>1. /\ Asks[i].file \in KeptCopies /\ Asks[i].slot \in DOMAIN Bases(Asks[i].file)
        /\ Asks[i].channel = Channel(folder[Asks[i].file], Asks[i].slot)
        /\ Asks[i].desired = Bases(Asks[i].file)[Asks[i].slot]
    BY <1>2 DEF Asked
  <2>2. SettlesOn({Units[j].id : j \in 1 .. i - 1}, Asks[i].desired, Units[i].id)
    BY <1>2 DEF PlacedAt
  <2>3. {Units[j].id : j \in 1 .. i - 1} \subseteq StagedIds
    BY <1>1 DEF StagedIds
  <2>4. WellNamed(StagedIds, Asks[i].desired, Units[i].id)
    BY <2>2, <2>3 DEF SettlesOn, WellNamed
  <2> QED BY <1>2, <2>1, <2>4
<1>4. ASSUME NEW i \in 1 .. n, NEW j \in 1 .. n, i < j PROVE Units[i].id # Units[j].id
  <2>1. Units[j].id \notin {Units[k].id : k \in 1 .. j - 1}
    BY <1>2 DEF PlacedAt
  <2>2. i \in 1 .. j - 1
    BY <1>4
  <2> QED BY <2>1, <2>2
<1>5. ASSUME NEW i \in 1 .. n, NEW j \in 1 .. n, i # j
      PROVE  Units[i].id # Units[j].id /\ (Units[i].file # Units[j].file \/ Units[i].slot # Units[j].slot)
  <2>1. i < j \/ j < i
    BY <1>5
  <2>2. Units[i].id # Units[j].id
    BY <1>4, <2>1
  <2>3. Asks[i].file # Asks[j].file \/ Asks[i].slot # Asks[j].slot
    BY <1>1, <1>5, AsksAre
  <2> QED BY <1>2, <2>2, <2>3
<1>6. ASSUME NEW p \in KeptCopies, NEW m \in DOMAIN Bases(p)
      PROVE  \E i \in 1 .. n : Units[i].file = p /\ Units[i].slot = m
  <2>1. PICK i \in 1 .. n : Asks[i].file = p /\ Asks[i].slot = m
    BY <1>1, AsksAre
  <2> QED BY <1>2, <2>1
<1> QED BY <1>1, <1>3, <1>5, <1>6 DEF UnitSeq

-----------------------------------------------------------------------------
(* The pass and the manifest it writes. *)

\* A source of a manifest, and what one unit of a pass becomes.
Entry == [id : SourceId, file : Names, unit : SourceTape \X Nat, start : BOOLEAN, mixed : BOOLEAN]
EntryOf(u) == [id |-> u.id, file |-> u.file, unit |-> <<folder[u.file], u.channel>>,
               start |-> u.start, mixed |-> u.mixed]
EntrySeq == Seq(Entry)
EntryUnit == [id : SourceId, file : KeptCopies, channel : Nat, start : BOOLEAN, mixed : BOOLEAN]

\* The slot of a unit, and the id its file proposed for it.
SlotOf(unit) == IF split /\ ChannelsOf[unit[1]] > 1 THEN unit[2] ELSE 1
BaseOf(e) == ProposalsOf(e.file, e.unit[1])[SlotOf(e.unit)]
IdsOf(m) == {m[k].id : k \in DOMAIN m}

\* A source is of a unit its tape has.
UnitThere(e) == /\ SlotOf(e.unit) \in DOMAIN ProposalsOf(e.file, e.unit[1])
                /\ e.unit[2] = Channel(e.unit[1], SlotOf(e.unit))

\* A manifest as a pass writes it.
ManifestWell(m) ==
    /\ m \in EntrySeq
    /\ \A j, k \in DOMAIN m : j # k => m[j].id # m[k].id /\ m[j].unit # m[k].unit
    /\ \A j, k \in DOMAIN m : m[j].unit[1] = m[k].unit[1] => m[j].file = m[k].file
    /\ \A k \in DOMAIN m : UnitThere(m[k]) /\ WellNamed(IdsOf(m), BaseOf(m[k]), m[k].id)

\* What a pass begins with: its units, each with what is declared of it.
LEMMA StagedAre ==
  ASSUME FolderOK
  PROVE  /\ StagedUnits \in Seq(EntryUnit) /\ Len(StagedUnits) = Len(Units) /\ Len(Units) \in Nat
         /\ DOMAIN StagedUnits = 1 .. Len(Units) /\ DOMAIN Units = 1 .. Len(Units)
         /\ \A i \in 1 .. Len(Units) :
              /\ StagedUnits[i] \in EntryUnit
              /\ StagedUnits[i].id = Units[i].id /\ StagedUnits[i].file = Units[i].file
              /\ StagedUnits[i].channel = Units[i].channel
              /\ StagedUnits[i].start = StartOf(Units[i], StagedIds)
              /\ StagedUnits[i].mixed = RoleOf(Units[i], StagedIds)
<1>1. PICK n : n = Len(Units) /\ n \in Nat /\ DOMAIN Units = 1 .. n
  BY UnitsAre
<1> DEFINE row(i) == [id |-> Units[i].id, file |-> Units[i].file, channel |-> Units[i].channel,
                      start |-> StartOf(Units[i], StagedIds), mixed |-> RoleOf(Units[i], StagedIds)]
<1>2. StagedUnits = [i \in 1 .. n |-> row(i)]
  BY <1>1 DEF StagedUnits, StagedIds
<1>3. ASSUME NEW i \in 1 .. n PROVE row(i) \in EntryUnit
  <2>1. Units[i] \in StagedUnit /\ Units[i].file \in KeptCopies
    BY <1>1, UnitsAre
  <2>2. StartOf(Units[i], StagedIds) \in BOOLEAN /\ RoleOf(Units[i], StagedIds) \in BOOLEAN
    BY DEF StartOf, RoleOf
  <2> QED BY <2>1, <2>2 DEF EntryUnit, StagedUnit
<1>4. StagedUnits \in Seq(EntryUnit) /\ Len(StagedUnits) = n /\ DOMAIN StagedUnits = 1 .. n
  <2> HIDE DEF row
  <2> QED BY <1>1, <1>2, <1>3
<1>5. \A i \in 1 .. n : StagedUnits[i] = row(i)
  <2> HIDE DEF row
  <2> QED BY <1>2
<1> QED BY <1>1, <1>3, <1>4, <1>5

\* What a unit becomes is a source, of a unit its tape has.
LEMMA EntryIs ==
  ASSUME FolderOK, NEW i \in 1 .. Len(Units)
  PROVE  LET e == EntryOf(StagedUnits[i])
         IN  /\ e \in Entry /\ e.id = Units[i].id /\ e.file = Units[i].file
             /\ e.file \in KeptCopies
             /\ e.unit[1] = folder[e.file] /\ folder[e.file] \in SourceTape
             /\ SlotOf(e.unit) = Units[i].slot /\ UnitThere(e)
             /\ BaseOf(e) = Bases(Units[i].file)[Units[i].slot]
             /\ e.start = StartOf(Units[i], StagedIds) /\ e.mixed = RoleOf(Units[i], StagedIds)
<1>1. PICK s, u : s = StagedUnits[i] /\ u = Units[i]
  OBVIOUS
<1>2. /\ s \in EntryUnit /\ s.id = u.id /\ s.file = u.file /\ s.channel = u.channel
      /\ s.start = StartOf(u, StagedIds) /\ s.mixed = RoleOf(u, StagedIds)
  BY <1>1, StagedAre
<1>3. u.file \in KeptCopies /\ u.slot \in DOMAIN Bases(u.file) /\ u.channel = Channel(folder[u.file], u.slot)
  BY <1>1, UnitsAre
<1>4. u.file \in Names /\ folder[u.file] \in SourceTape
  BY <1>3 DEF KeptCopies, Present, FolderOK
<1>5. PICK e : e = EntryOf(s)
  OBVIOUS
<1>6. /\ e \in Entry /\ e.id = u.id /\ e.file = u.file /\ e.unit = <<folder[u.file], u.channel>>
      /\ e.start = s.start /\ e.mixed = s.mixed
  BY <1>2, <1>4, <1>5 DEF EntryOf, Entry, EntryUnit
<1>7. SlotOf(e.unit) = u.slot
  <2>1. DOMAIN Bases(u.file) = 1 .. (IF split /\ ChannelsOf[folder[u.file]] > 1 THEN ChannelsOf[folder[u.file]] ELSE 1)
    BY <1>4, ProposalsAre DEF Bases
  <2>2. e.unit[1] = folder[u.file] /\ e.unit[2] = u.channel
    BY <1>6
  <2>3. CASE split /\ ChannelsOf[folder[u.file]] > 1
    BY <1>3, <2>2, <2>3 DEF SlotOf, Channel
  <2>4. CASE ~ (split /\ ChannelsOf[folder[u.file]] > 1)
    BY <1>3, <2>1, <2>2, <2>4 DEF SlotOf
  <2> QED BY <2>3, <2>4
<1>8. e.unit[1] = folder[e.file] /\ e.unit[2] = Channel(e.unit[1], SlotOf(e.unit))
  BY <1>3, <1>6, <1>7
<1>9. SlotOf(e.unit) \in DOMAIN ProposalsOf(e.file, e.unit[1])
  BY <1>3, <1>6, <1>7, <1>8 DEF Bases
<1>10. BaseOf(e) = Bases(u.file)[u.slot]
  BY <1>6, <1>7, <1>8 DEF BaseOf, Bases
<1> QED BY <1>1, <1>2, <1>3, <1>4, <1>5, <1>6, <1>7, <1>8, <1>9, <1>10 DEF UnitThere

\* What a whole pass writes is a manifest as a pass writes it.
LEMMA WellWritten ==
  ASSUME FolderOK, NEW m \in EntrySeq, Len(m) = Len(Units),
         \A i \in 1 .. Len(m) : m[i] = EntryOf(StagedUnits[i])
  PROVE  ManifestWell(m) /\ IdsOf(m) = StagedIds
<1>1. PICK n : n = Len(Units) /\ n \in Nat /\ DOMAIN Units = 1 .. n /\ DOMAIN m = 1 .. n
  BY UnitsAre DEF EntrySeq
<1>2. ASSUME NEW i \in 1 .. n
      PROVE  /\ m[i] \in Entry /\ m[i].id = Units[i].id /\ m[i].file = Units[i].file
             /\ m[i].file \in KeptCopies
             /\ m[i].unit[1] = folder[m[i].file] /\ folder[m[i].file] \in SourceTape
             /\ SlotOf(m[i].unit) = Units[i].slot /\ UnitThere(m[i])
             /\ BaseOf(m[i]) = Bases(Units[i].file)[Units[i].slot]
  <2>1. m[i] = EntryOf(StagedUnits[i])
    BY <1>1
  <2> QED BY <1>1, <2>1, EntryIs
<1>3. IdsOf(m) = StagedIds
  BY <1>1, <1>2 DEF IdsOf, StagedIds
<1>4. ASSUME NEW j \in 1 .. n, NEW k \in 1 .. n, m[j].unit[1] = m[k].unit[1]
      PROVE  m[j].file = m[k].file
  <2>1. m[j].file \in Present /\ m[k].file \in Present
        /\ KeptFor(m[j].file) = m[j].file /\ KeptFor(m[k].file) = m[k].file
    BY <1>2 DEF KeptCopies
  <2>2. folder[m[j].file] = folder[m[k].file]
    BY <1>2, <1>4
  <2>3. KeptFor(m[j].file) = KeptFor(m[k].file)
    BY <2>1, <2>2, KeptForIs
  <2> QED BY <2>1, <2>3
<1>5. ASSUME NEW j \in 1 .. n, NEW k \in 1 .. n, j # k
      PROVE  m[j].id # m[k].id /\ m[j].unit # m[k].unit
  <2>1. /\ Units[j].id # Units[k].id
        /\ Units[j].file # Units[k].file \/ Units[j].slot # Units[k].slot
    BY <1>1, <1>5, UnitsAre
  <2>2. m[j].id # m[k].id
    BY <1>2, <2>1
  <2>3. ASSUME m[j].unit = m[k].unit PROVE FALSE
    <3>1. m[j].file = m[k].file
      BY <1>4, <2>3
    <3>2. SlotOf(m[j].unit) = SlotOf(m[k].unit)
      BY <2>3
    <3> QED BY <1>2, <2>1, <3>1, <3>2
  <2> QED BY <2>2, <2>3
<1>6. ASSUME NEW k \in 1 .. n
      PROVE  UnitThere(m[k]) /\ WellNamed(IdsOf(m), BaseOf(m[k]), m[k].id)
  <2>1. WellNamed(StagedIds, Bases(Units[k].file)[Units[k].slot], Units[k].id)
    BY <1>1, UnitsAre
  <2> QED BY <1>2, <1>3, <2>1
<1> QED BY <1>1, <1>3, <1>4, <1>5, <1>6 DEF ManifestWell

-----------------------------------------------------------------------------
(* The invariant of the sources: the pass under way is the one its folder began, *)
(* and the manifest is one a pass wrote, its sources each in their own file.     *)

\* While the folder and the manifest stay, so does what a pass would begin with.
LEMMA AsksStay ==
  ASSUME split' = split, folder' = folder
  PROVE  Asks' = Asks
BY DEF Asks, Wanted, KeptCopies, Present, KeptFor, ProposalsOf, Channel

\* So do the units it would stage.
LEMMA UnitsStay ==
  ASSUME split' = split, folder' = folder
  PROVE  Units' = Units
<1>1. Asks' = Asks
  BY AsksStay
<1> QED BY <1>1 DEF Units, Asks

\* And, while the manifest stays, what they would begin with.
LEMMA StagedStay ==
  ASSUME split' = split, folder' = folder, manifest' = manifest
  PROVE  StagedUnits' = StagedUnits
<1>1. Units' = Units
  BY UnitsStay
<1>2. \A u, s : StartOf(u, s)' = StartOf(u, s) /\ RoleOf(u, s)' = RoleOf(u, s)
  BY DEF StartOf, RoleOf, CopiesOf, Present, KeptFor, Declares, Inherits, SettledFor, DeclaredIds,
         ProposalsOf
<1> QED BY <1>1, <1>2 DEF StagedUnits

\* A manifest as a pass writes it stays one.
LEMMA WellStays ==
  ASSUME split' = split, ManifestWell(manifest')
  PROVE  ManifestWell(manifest)'
BY DEF ManifestWell, IdsOf, BaseOf, SlotOf, UnitThere, ProposalsOf, Channel

\* Every tape has as many channels as the most, or fewer.
LEMMA MostChannels ==
  \A t \in SourceTape : /\ ChannelsOf[t] \in Nat
                        /\ ChannelsOf[t] <= Max({ChannelsOf[s] : s \in SourceTape})
                        /\ Max({ChannelsOf[s] : s \in SourceTape}) \in Nat
<1> SUFFICES ASSUME NEW t \in SourceTape
             PROVE  /\ ChannelsOf[t] \in Nat
                    /\ ChannelsOf[t] <= Max({ChannelsOf[s] : s \in SourceTape})
                    /\ Max({ChannelsOf[s] : s \in SourceTape}) \in Nat
  OBVIOUS
<1>0. IsFiniteSet(SourceTape) /\ \A s \in SourceTape : ChannelsOf[s] \in Nat
  BY SourceBounds
<1>1. \E n \in Nat : ExistsSurjection(1 .. n, SourceTape)
  BY <1>0, FS_NatSurjection
<1>2. PICK n \in Nat : ExistsSurjection(1 .. n, SourceTape)
  BY <1>1
<1>3. PICK f \in [1 .. n -> SourceTape] : \A s \in SourceTape : \E i \in 1 .. n : f[i] = s
  BY <1>2 DEF ExistsSurjection, Surjection
<1>4. PICK v \in [1 .. n -> Int] : \A i \in 1 .. n : v[i] = ChannelsOf[f[i]]
  <2> DEFINE v == [i \in 1 .. n |-> ChannelsOf[f[i]]]
  <2>1. v \in [1 .. n -> Int]
    BY <1>0
  <2> QED BY <2>1
<1>5. 1 .. n \in SUBSET (1 .. n) /\ 1 .. n # {}
  BY <1>3
<1>6. PICK j \in 1 .. n : v[j] = Max({v[i] : i \in 1 .. n}) /\ \A i \in 1 .. n : v[j] >= v[i]
  BY <1>5, PeakOf
<1>7. {v[i] : i \in 1 .. n} = {ChannelsOf[s] : s \in SourceTape}
  BY <1>3, <1>4
<1>8. PICK i \in 1 .. n : f[i] = t
  BY <1>3
<1>9. v[j] \in Nat /\ v[i] = ChannelsOf[t] /\ v[i] \in Nat
  BY <1>0, <1>4, <1>8
<1> QED BY <1>6, <1>7, <1>9

\* A source is of a unit, with no more channels than the most a tape has.
LEMMA UnitIs ==
  ASSUME FolderOK, NEW e \in Entry, UnitThere(e)
  PROVE  e.unit \in Unit
<1>1. PICK t \in SourceTape : \E c \in Nat : e.unit = <<t, c>>
  BY DEF Entry
<1>2. PICK c \in Nat : e.unit = <<t, c>>
  BY <1>1
<1>3. e.file \in Names
  BY DEF Entry
<1>4. SlotOf(e.unit) \in DOMAIN ProposalsOf(e.file, t) /\ c = Channel(t, SlotOf(e.unit))
  BY <1>2 DEF UnitThere
<1>5. c \in 0 .. ChannelsOf[t] /\ ChannelsOf[t] \in Nat
  BY <1>3, <1>4, ProposalsAre
<1>6. PICK M : M = Max({ChannelsOf[s] : s \in SourceTape})
  OBVIOUS
<1>7. c \in 0 .. M
  BY <1>5, <1>6, MostChannels
<1> QED BY <1>2, <1>6, <1>7 DEF Unit

\* The pass under way is the one its folder and its manifest began: what it has
\* decoded are the first of its units, each in its own file.
PassFollows ==
    /\ ingesting = [units |-> ingesting.units, done |-> ingesting.done]
    /\ ingesting.done \in EntrySeq
    /\ Len(ingesting.units) \in Nat /\ Len(ingesting.done) <= Len(ingesting.units)
    /\ ingesting # NoPass =>
         /\ ingesting.units = StagedUnits
         /\ \A n \in 1 .. Len(ingesting.done) : ingesting.done[n] = EntryOf(StagedUnits[n])

\* Each source of m is in its own file.
Heard(m) == \A k \in DOMAIN m : m[k].id \in DOMAIN audio /\ audio[m[k].id] = m[k].unit

\* The invariant of the sources.
SourceInv ==
    /\ FolderOK
    /\ ManifestWell(manifest)
    /\ PassFollows
    /\ \A i \in DOMAIN audio : audio[i] \in Unit
    /\ Heard(ingesting.done)
    /\ ~ cutShort /\ ingesting.done = <<>> => Heard(manifest)
    /\ cutShort \in BOOLEAN
    /\ ingests \in 0 .. MaxIngests /\ dirEdits \in 0 .. MaxDirEdits
    /\ declarations \in 0 .. MaxDeclarations

\* Nothing is staged, decoded or published in the beginning.
LEMMA SourceInitHolds == SourceInit => SourceInv
<1> SUFFICES ASSUME SourceInit PROVE SourceInv
  OBVIOUS
<1>1. FolderOK
  BY SourceBounds DEF SourceInit, FolderOK
<1>2. manifest = <<>> /\ audio = <<>> /\ ingesting = NoPass /\ cutShort = FALSE
  BY DEF SourceInit
<1>3. DOMAIN manifest = {} /\ DOMAIN audio = {} /\ manifest \in EntrySeq
  BY <1>2 DEF EntrySeq
<1>4. ManifestWell(manifest)
  BY <1>3 DEF ManifestWell
<1>5. ingesting.done = <<>> /\ ingesting.units = <<>>
  BY <1>2 DEF NoPass
<1>6. PassFollows
  BY <1>2, <1>5 DEF PassFollows, NoPass, EntrySeq
<1>7. Heard(manifest) /\ Heard(ingesting.done)
  BY <1>2, <1>3, <1>5 DEF Heard
<1>8. /\ ingests \in 0 .. MaxIngests /\ dirEdits \in 0 .. MaxDirEdits
      /\ declarations \in 0 .. MaxDeclarations
  BY SourceBounds DEF SourceInit
<1> QED BY <1>1, <1>2, <1>3, <1>4, <1>6, <1>7, <1>8 DEF SourceInv

\* A pass begins with its units, none decoded.
LEMMA BeginKeeps == SourceInv /\ BeginIngest => SourceInv'
<1> SUFFICES ASSUME SourceInv, BeginIngest PROVE SourceInv'
  OBVIOUS
<1>1. /\ split' = split /\ folder' = folder /\ manifest' = manifest /\ audio' = audio
      /\ cutShort' = cutShort /\ dirEdits' = dirEdits /\ declarations' = declarations
      /\ ingesting = NoPass /\ ingesting' = [units |-> StagedUnits, done |-> <<>>]
  BY DEF BeginIngest
<1>2. FolderOK'
  BY <1>1 DEF SourceInv, FolderOK
<1>3. ManifestWell(manifest)'
  BY <1>1, WellStays DEF SourceInv
<1>4. StagedUnits' = StagedUnits /\ Len(StagedUnits) \in Nat
  BY <1>1, StagedStay, StagedAre DEF SourceInv
<1>5. ingesting'.done = <<>> /\ ingesting'.units = StagedUnits
  BY <1>1
<1>6. PassFollows'
  BY <1>1, <1>4, <1>5 DEF PassFollows, EntrySeq
<1>7. Heard(manifest)' = Heard(manifest) /\ Heard(ingesting.done)'
  BY <1>1, <1>5 DEF Heard
<1>8. ingesting.done = <<>>
  BY <1>1 DEF NoPass
<1>9. ingests' \in 0 .. MaxIngests
  BY SourceBounds DEF SourceInv, BeginIngest
<1> QED BY <1>1, <1>2, <1>3, <1>6, <1>7, <1>8, <1>9 DEF SourceInv

\* A unit decoded goes to its own file, and none of this pass's was there.
LEMMA DecodesKeep == SourceInv /\ Decode => SourceInv'
<1> SUFFICES ASSUME SourceInv, Decode PROVE SourceInv'
  OBVIOUS
<1>0. PICK n : n = Len(ingesting.done) + 1
  OBVIOUS
<1>1. n \in Nat /\ n >= 1 /\ n <= Len(ingesting.units) /\ Len(ingesting.done) = n - 1
      /\ DOMAIN ingesting.done = 1 .. (n - 1)
  BY <1>0 DEF Decode, SourceInv, PassFollows, EntrySeq
<1>2. ingesting # NoPass
  <2>1. ingesting = NoPass => Len(ingesting.units) = 0
    BY DEF NoPass
  <2> QED BY <1>1, <2>1
<1>3. ingesting.units = StagedUnits /\ \A k \in 1 .. (n - 1) : ingesting.done[k] = EntryOf(StagedUnits[k])
  BY <1>1, <1>2 DEF SourceInv, PassFollows
<1>4. n \in 1 .. Len(Units) /\ Len(StagedUnits) = Len(Units)
  BY <1>1, <1>3, StagedAre DEF SourceInv
<1>5. PICK u, e : u = StagedUnits[n] /\ e = EntryOf(u)
  OBVIOUS
<1>6. e \in Entry /\ e.id = u.id /\ e.unit \in Unit /\ e.unit = <<folder[u.file], u.channel>>
  <2>1. e \in Entry /\ UnitThere(e)
    BY <1>4, <1>5, EntryIs DEF SourceInv
  <2>2. e.unit \in Unit
    BY <2>1, UnitIs DEF SourceInv
  <2> QED BY <1>5, <2>1, <2>2 DEF EntryOf
<1>7. /\ audio' = [i \in DOMAIN audio \union {u.id} |-> IF i = u.id THEN e.unit ELSE audio[i]]
      /\ ingesting' = [ingesting EXCEPT !.done = Append(@, e)]
      /\ split' = split /\ folder' = folder /\ manifest' = manifest /\ cutShort' = cutShort
      /\ ingests' = ingests /\ dirEdits' = dirEdits /\ declarations' = declarations
  BY <1>0, <1>3, <1>5, <1>6 DEF Decode, EntryOf
<1>8. PICK d, r : d = ingesting.done /\ r = Append(d, e)
  OBVIOUS
<1>9. /\ r \in EntrySeq /\ Len(r) = n /\ DOMAIN r = 1 .. n /\ r[n] = e
      /\ \A k \in 1 .. (n - 1) : r[k] = d[k]
      /\ d \in Seq(Entry)
  <2>1. d \in Seq(Entry)
    BY <1>8 DEF SourceInv, PassFollows, EntrySeq
  <2>2. Len(d) = n - 1
    BY <1>1, <1>8
  <2> QED BY <1>1, <1>6, <1>8, <2>1, <2>2 DEF EntrySeq
<1>10. ingesting' = [units |-> StagedUnits, done |-> r] /\ ingesting'.done = r
       /\ ingesting'.units = StagedUnits
  <2>1. ingesting = [units |-> StagedUnits, done |-> d]
    BY <1>3, <1>8 DEF SourceInv, PassFollows
  <2>2. ingesting' = [ingesting EXCEPT !.done = r]
    BY <1>7, <1>8
  <2>3. [ingesting EXCEPT !.done = r] = [units |-> StagedUnits, done |-> r]
    BY <2>1
  <2>4. ingesting' = [units |-> StagedUnits, done |-> r]
    BY <2>2, <2>3, Zenon
  <2> QED BY <2>4
<1>11. \A k \in 1 .. n : r[k] = EntryOf(StagedUnits[k])
  <2>1. \A k \in 1 .. (n - 1) : r[k] = EntryOf(StagedUnits[k])
    BY <1>3, <1>8, <1>9
  <2>2. \A k \in 1 .. n : k = n \/ k \in 1 .. (n - 1)
    BY <1>1
  <2> QED BY <1>5, <1>9, <2>1, <2>2
<1>12. StagedUnits' = StagedUnits /\ \A v : EntryOf(v)' = EntryOf(v)
  BY <1>7, StagedStay DEF EntryOf
<1>13. PassFollows'
  <2>1. Len(ingesting'.done) <= Len(ingesting'.units) /\ Len(ingesting'.units) \in Nat
    BY <1>1, <1>3, <1>4, <1>9, <1>10
  <2>2. \A k \in 1 .. Len(ingesting'.done) : ingesting'.done[k] = EntryOf(StagedUnits[k])'
    BY <1>9, <1>10, <1>11, <1>12
  <2> QED BY <1>9, <1>10, <1>12, <2>1, <2>2 DEF PassFollows
<1>14. Heard(ingesting.done)'
  <2> SUFFICES ASSUME NEW k \in 1 .. n
               PROVE  r[k].id \in DOMAIN audio' /\ audio'[r[k].id] = r[k].unit
    BY <1>9, <1>10 DEF Heard
  <2>1. CASE k = n
    BY <1>6, <1>7, <1>9, <2>1
  <2>2. CASE k # n
    <3>1. k \in 1 .. (n - 1)
      BY <1>1, <2>2
    <3>2. r[k] = d[k] /\ d[k].id \in DOMAIN audio /\ audio[d[k].id] = d[k].unit
      BY <1>1, <1>8, <1>9, <3>1 DEF SourceInv, Heard
    <3>3. r[k].id # u.id
      <4>1. k \in 1 .. Len(Units)
        BY <1>4, <3>1
      <4>2. r[k].id = Units[k].id /\ u.id = Units[n].id
        BY <1>4, <1>5, <1>11, <4>1, EntryIs, StagedAre DEF SourceInv
      <4> QED BY <1>4, <2>2, <4>1, <4>2, UnitsAre DEF SourceInv
    <3> QED BY <1>7, <3>2, <3>3
  <2> QED BY <2>1, <2>2
<1>15. \A i \in DOMAIN audio' : audio'[i] \in Unit
  BY <1>6, <1>7 DEF SourceInv
<1>16. Unit' = Unit
  BY DEF Unit
<1>17. FolderOK' /\ ManifestWell(manifest)'
  BY <1>7, WellStays DEF SourceInv, FolderOK
<1>18. ingesting'.done # <<>>
  BY <1>1, <1>9, <1>10
<1> QED BY <1>7, <1>13, <1>14, <1>15, <1>16, <1>17, <1>18 DEF SourceInv

\* A pass cut short publishes nothing.
LEMMA EndsEarlyKeeps == SourceInv /\ EndsEarly => SourceInv'
<1> SUFFICES ASSUME SourceInv, EndsEarly PROVE SourceInv'
  OBVIOUS
<1>1. /\ split' = split /\ folder' = folder /\ manifest' = manifest /\ audio' = audio
      /\ ingesting' = NoPass /\ cutShort' = (cutShort \/ ingesting.done # <<>>)
      /\ ingests' = ingests /\ dirEdits' = dirEdits /\ declarations' = declarations
  BY DEF EndsEarly
<1>2. FolderOK' /\ ManifestWell(manifest)'
  BY <1>1, WellStays DEF SourceInv, FolderOK
<1>3. ingesting' = [units |-> ingesting'.units, done |-> ingesting'.done]
      /\ ingesting'.done = <<>> /\ ingesting'.units = <<>>
  BY <1>1 DEF NoPass
<1>4. PassFollows'
  BY <1>1, <1>3 DEF PassFollows, NoPass, EntrySeq
<1>5. Heard(manifest)' = Heard(manifest) /\ Heard(ingesting.done)'
  BY <1>1, <1>3 DEF Heard
<1> QED BY <1>1, <1>2, <1>4, <1>5 DEF SourceInv

\* The manifest written is the whole pass.
LEMMA WriteKeeps == SourceInv /\ WriteManifest => SourceInv'
<1> SUFFICES ASSUME SourceInv, WriteManifest PROVE SourceInv'
  OBVIOUS
<1>1. /\ split' = split /\ folder' = folder /\ manifest' = ingesting.done /\ audio' = audio
      /\ ingesting # NoPass /\ Len(ingesting.done) = Len(ingesting.units)
      /\ ingesting' = NoPass /\ cutShort' = FALSE
      /\ ingests' = ingests /\ dirEdits' = dirEdits /\ declarations' = declarations
  BY DEF WriteManifest
<1>2. ManifestWell(manifest')
  <2>1. Len(ingesting.done) = Len(Units) /\ ingesting.done \in EntrySeq
        /\ \A i \in 1 .. Len(ingesting.done) : ingesting.done[i] = EntryOf(StagedUnits[i])
    BY <1>1, StagedAre DEF SourceInv, PassFollows
  <2>2. ManifestWell(ingesting.done)
    BY <2>1, WellWritten DEF SourceInv
  <2> QED BY <1>1, <2>2
<1>3. FolderOK' /\ ManifestWell(manifest)'
  BY <1>1, <1>2, WellStays DEF SourceInv, FolderOK
<1>4. ingesting' = [units |-> ingesting'.units, done |-> ingesting'.done]
      /\ ingesting'.done = <<>> /\ ingesting'.units = <<>>
  BY <1>1 DEF NoPass
<1>5. PassFollows'
  BY <1>1, <1>4 DEF PassFollows, NoPass, EntrySeq
<1>6. Heard(manifest)' /\ Heard(ingesting.done)'
  BY <1>1, <1>4 DEF Heard, SourceInv
<1> QED BY <1>1, <1>3, <1>5, <1>6 DEF SourceInv

\* A file put under a name waits for the next pass.
LEMMA PutKeeps ==
  ASSUME SourceInv, NEW p \in Names, NEW t \in SourceTape \union {NoTape}, PutFile(p, t)
  PROVE  SourceInv'
<1>1. /\ split' = split /\ folder' = [folder EXCEPT ![p] = t] /\ manifest' = manifest
      /\ audio' = audio /\ ingesting' = NoPass /\ ingesting = NoPass /\ cutShort' = cutShort
      /\ ingests' = ingests /\ dirEdits' = dirEdits + 1 /\ declarations' = declarations
      /\ dirEdits < MaxDirEdits
  BY DEF PutFile
<1>2. FolderOK' /\ ManifestWell(manifest)'
  BY <1>1, WellStays DEF SourceInv, FolderOK
<1>3. ingesting' = [units |-> ingesting'.units, done |-> ingesting'.done]
      /\ ingesting'.done = <<>> /\ ingesting'.units = <<>> /\ ingesting.done = <<>>
  BY <1>1 DEF NoPass
<1>4. PassFollows'
  BY <1>1, <1>3 DEF PassFollows, NoPass, EntrySeq
<1>5. Heard(manifest)' = Heard(manifest) /\ Heard(ingesting.done)'
  BY <1>1, <1>3 DEF Heard
<1>6. dirEdits' \in 0 .. MaxDirEdits
  BY <1>1, SourceBounds DEF SourceInv
<1> QED BY <1>1, <1>2, <1>3, <1>4, <1>5, <1>6 DEF SourceInv

\* A declaration is about a source that is there, and moves nothing.
LEMMA DeclareKeeps ==
  ASSUME SourceInv, NEW k \in DOMAIN manifest, Declare(k)
  PROVE  SourceInv'
<1>1. /\ split' = split /\ folder' = folder /\ audio' = audio /\ cutShort' = cutShort
      /\ ingesting' = NoPass /\ ingesting = NoPass /\ ingests' = ingests /\ dirEdits' = dirEdits
      /\ declarations' = declarations + 1 /\ declarations < MaxDeclarations
      /\ \/ manifest' = [manifest EXCEPT ![k].mixed = TRUE]
         \/ manifest' = [manifest EXCEPT ![k].start = TRUE]
  BY DEF Declare
<1>2. manifest \in Seq(Entry)
  BY DEF SourceInv, ManifestWell, EntrySeq
<1>3. /\ manifest' \in EntrySeq /\ DOMAIN manifest' = DOMAIN manifest
      /\ \A j \in DOMAIN manifest : /\ manifest'[j].id = manifest[j].id
                                    /\ manifest'[j].file = manifest[j].file
                                    /\ manifest'[j].unit = manifest[j].unit
  <2>1. manifest[k] \in Entry
    BY <1>2
  <2>2. [manifest[k] EXCEPT !.mixed = TRUE] \in Entry /\ [manifest[k] EXCEPT !.start = TRUE] \in Entry
    BY <2>1 DEF Entry
  <2>3. \A j \in DOMAIN manifest : manifest[j] \in Entry
    BY <1>2
  <2>4. PICK e \in Entry : /\ e.id = manifest[k].id /\ e.file = manifest[k].file /\ e.unit = manifest[k].unit
                          /\ manifest' = [manifest EXCEPT ![k] = e]
    <3>1. CASE manifest' = [manifest EXCEPT ![k].mixed = TRUE]
      BY <2>1, <2>2, <3>1 DEF Entry
    <3>2. CASE manifest' = [manifest EXCEPT ![k].start = TRUE]
      BY <2>1, <2>2, <3>2 DEF Entry
    <3> QED BY <1>1, <3>1, <3>2
  <2>5. manifest' \in Seq(Entry) /\ DOMAIN manifest' = DOMAIN manifest
    BY <1>2, <2>4
  <2> QED BY <1>2, <2>4, <2>5 DEF EntrySeq
<1>4. ManifestWell(manifest')
  <2>1. IdsOf(manifest') = IdsOf(manifest)
    BY <1>3 DEF IdsOf
  <2>2. \A j \in DOMAIN manifest : /\ BaseOf(manifest'[j]) = BaseOf(manifest[j])
                                   /\ UnitThere(manifest'[j]) = UnitThere(manifest[j])
    BY <1>3 DEF BaseOf, UnitThere
  <2> QED BY <1>3, <2>1, <2>2 DEF SourceInv, ManifestWell
<1>5. FolderOK' /\ ManifestWell(manifest)'
  BY <1>1, <1>4, WellStays DEF SourceInv, FolderOK
<1>6. ingesting' = [units |-> ingesting'.units, done |-> ingesting'.done]
      /\ ingesting'.done = <<>> /\ ingesting'.units = <<>> /\ ingesting.done = <<>>
  BY <1>1 DEF NoPass
<1>7. PassFollows'
  BY <1>1, <1>6 DEF PassFollows, NoPass, EntrySeq
<1>8. Heard(manifest)' = Heard(manifest) /\ Heard(ingesting.done)'
  BY <1>1, <1>3, <1>6 DEF Heard
<1>9. declarations' \in 0 .. MaxDeclarations
  BY <1>1, SourceBounds DEF SourceInv
<1> QED BY <1>1, <1>5, <1>6, <1>7, <1>8, <1>9 DEF SourceInv

\* A step of another part leaves the sources.
LEMMA SourceRests == SourceInv /\ UNCHANGED sourceVars => SourceInv'
<1> SUFFICES ASSUME SourceInv, UNCHANGED sourceVars PROVE SourceInv'
  OBVIOUS
<1>1. /\ split' = split /\ folder' = folder /\ audio' = audio /\ cutShort' = cutShort
      /\ manifest' = manifest /\ ingesting' = ingesting /\ ingests' = ingests
      /\ dirEdits' = dirEdits /\ declarations' = declarations
  BY DEF sourceVars
<1>2. FolderOK' /\ ManifestWell(manifest)'
  BY <1>1, WellStays DEF SourceInv, FolderOK
<1>3. StagedUnits' = StagedUnits /\ \A v : EntryOf(v)' = EntryOf(v)
  BY <1>1, StagedStay DEF EntryOf
<1>4. PassFollows'
  BY <1>1, <1>3 DEF SourceInv, PassFollows
<1>5. Heard(manifest)' = Heard(manifest) /\ Heard(ingesting.done)' = Heard(ingesting.done)
  BY <1>1 DEF Heard
<1> QED BY <1>1, <1>2, <1>4, <1>5 DEF SourceInv

\* The invariant of the sources is inductive.
LEMMA SourceStepKeeps == SourceInv /\ [SourceNext]_sourceVars => SourceInv'
<1> SUFFICES ASSUME SourceInv, [SourceNext]_sourceVars PROVE SourceInv'
  OBVIOUS
<1>1. CASE SourceNext
  <2>1. CASE BeginIngest
    BY <2>1, BeginKeeps
  <2>2. CASE Decode
    BY <2>2, DecodesKeep
  <2>3. CASE EndsEarly
    BY <2>3, EndsEarlyKeeps
  <2>4. CASE WriteManifest
    BY <2>4, WriteKeeps
  <2>5. CASE \E p \in Names, t \in SourceTape \union {NoTape} : PutFile(p, t)
    BY <2>5, PutKeeps
  <2>6. CASE \E k \in DOMAIN manifest : Declare(k)
    BY <2>6, DeclareKeeps
  <2> QED BY <1>1, <2>1, <2>2, <2>3, <2>4, <2>5, <2>6 DEF SourceNext
<1>2. CASE UNCHANGED sourceVars
  BY <1>2, SourceRests
<1> QED BY <1>1, <1>2

\* What the invariant says of the sources.
LEMMA SourceInvGives == SourceInv => SourceTypeOK /\ OneAudioPerSource
<1> SUFFICES ASSUME SourceInv PROVE SourceTypeOK /\ OneAudioPerSource
  OBVIOUS
<1>1. ASSUME NEW k \in DOMAIN manifest
      PROVE  manifest[k].unit \in Unit /\ manifest[k].mixed \in BOOLEAN /\ manifest[k].start \in BOOLEAN
  <2>1. manifest[k] \in Entry /\ UnitThere(manifest[k])
    BY DEF SourceInv, ManifestWell, EntrySeq
  <2>2. manifest[k].unit \in Unit
    BY <2>1, UnitIs DEF SourceInv
  <2> QED BY <2>1, <2>2 DEF Entry
<1>2. SourceTypeOK
  BY <1>1 DEF SourceInv, SourceTypeOK, FolderOK, PassFollows
<1>3. ingesting = NoPass => ingesting.done = <<>>
  BY DEF NoPass
<1>4. OneAudioPerSource
  BY <1>3 DEF SourceInv, OneAudioPerSource, Heard, ManifestWell
<1> QED BY <1>2, <1>4

-----------------------------------------------------------------------------
(* What moves a declaration: of an id, the unit it is on is told by its base and *)
(* by who else has it.                                                          *)

\* An id that base or a number on it may be.
OnBase(base, id) == id = base \/ \E n \in Nat : id = Mark(base, <<"-", n>>)

\* A name the ids of a pass account for is on its base.
LEMMA NamedIsOnBase ==
  ASSUME NEW ids, NEW base, NEW id, WellNamed(ids, base, id)
  PROVE  OnBase(base, id)
BY DEF WellNamed, OnBase

\* One unit of one file has one id in two manifests, when neither gives the ids of
\* the other to another unit.
LEMMA SameUnitSameId ==
  ASSUME NEW old, NEW new, ManifestWell(old), ManifestWell(new), ~ HandsOver(old, new),
         NEW e \in Entries(old), NEW f \in Entries(new), e.unit = f.unit, e.file = f.file
  PROVE  e.id = f.id
<1>1. PICK i \in DOMAIN old : e = old[i]
  BY DEF Entries
<1>2. PICK j \in DOMAIN new : f = new[j]
  BY DEF Entries
<1>3. ASSUME e.id \in IdsOf(new) PROVE e.id = f.id
  <2>1. PICK k \in DOMAIN new : new[k].id = e.id
    BY <1>3 DEF IdsOf
  <2>2. new[k].unit = e.unit
    BY <2>1 DEF HandsOver, Entries
  <2>3. k = j
    BY <1>2, <2>2 DEF ManifestWell
  <2> QED BY <1>2, <2>1, <2>3
<1>4. ASSUME f.id \in IdsOf(old) PROVE e.id = f.id
  <2>1. PICK k \in DOMAIN old : old[k].id = f.id
    BY <1>4 DEF IdsOf
  <2>2. old[k].unit = f.unit
    BY <2>1 DEF HandsOver, Entries
  <2>3. k = i
    BY <1>1, <2>2 DEF ManifestWell
  <2> QED BY <1>1, <2>1, <2>3
<1>5. PICK b : b = BaseOf(e)
  OBVIOUS
<1>6. b = BaseOf(f)
  BY <1>5 DEF BaseOf
<1>7. WellNamed(IdsOf(old), b, e.id) /\ WellNamed(IdsOf(new), b, f.id)
  BY <1>1, <1>2, <1>5, <1>6 DEF ManifestWell
<1>8. CASE e.id = b
  BY <1>3, <1>7, <1>8 DEF WellNamed
<1>9. CASE f.id = b
  BY <1>4, <1>7, <1>9 DEF WellNamed
<1>10. CASE e.id # b /\ f.id # b
  <2>1. PICK k \in Nat : /\ k >= 2 /\ e.id = Mark(b, <<"-", k>>)
                         /\ \A m \in 2 .. k - 1 : Mark(b, <<"-", m>>) \in IdsOf(old)
    BY <1>7, <1>10 DEF WellNamed
  <2>2. PICK n \in Nat : /\ n >= 2 /\ f.id = Mark(b, <<"-", n>>)
                         /\ \A m \in 2 .. n - 1 : Mark(b, <<"-", m>>) \in IdsOf(new)
    BY <1>7, <1>10 DEF WellNamed
  <2>3. CASE n < k
    <3>1. n \in 2 .. k - 1
      BY <2>2, <2>3
    <3> QED BY <1>4, <2>1, <2>2, <3>1
  <2>4. CASE k < n
    <3>1. k \in 2 .. n - 1
      BY <2>1, <2>4
    <3> QED BY <1>3, <2>1, <2>2, <3>1
  <2>5. CASE k = n
    BY <2>1, <2>2, <2>5
  <2> QED BY <2>3, <2>4, <2>5
<1> QED BY <1>8, <1>9, <1>10

\* No name that is there proposes a numbered id.
LEMMA Unnumbered ==
  ASSUME FolderOK, ~ NumberedName, NEW p \in Present, NEW t \in SourceTape,
         NEW i \in DOMAIN ProposalsOf(p, t), NEW d \in SourceId, NEW n \in Nat
  PROVE  ProposalsOf(p, t)[i] # Mark(d, <<"-", n>>)
<1> SUFFICES ASSUME ProposalsOf(p, t)[i] = Mark(d, <<"-", n>>) PROVE FALSE
  OBVIOUS
<1>1. p \in Names /\ Proposes[p] \in SourceId
  BY NamesAre DEF Present
<1>2. /\ DOMAIN ProposalsOf(p, t) = 1 .. (IF split /\ ChannelsOf[t] > 1 THEN ChannelsOf[t] ELSE 1)
      /\ ChannelsOf[t] \in Nat \ {0}
      /\ ProposalsOf(p, t)[i] = IF split /\ ChannelsOf[t] > 1 THEN Mark(Proposes[p], <<"ch", i>>) ELSE Proposes[p]
  BY <1>1, ProposalsAre
<1>3. <<"-", n>> \in {"ch", "-"} \X Nat
  BY Numbered
<1>4. CASE split /\ ChannelsOf[t] > 1
  <2>1. i \in Nat
    BY <1>2
  <2>2. <<"ch", i>> \in {"ch", "-"} \X Nat
    BY <2>1
  <2>3. <<"ch", i>> = <<"-", n>>
    BY <1>1, <1>2, <1>3, <1>4, <2>2, MarkIs
  <2> QED BY <2>3
<1>5. CASE ~ (split /\ ChannelsOf[t] > 1)
  <2>1. Proposes[p] = Mark(d, <<"-", n>>)
    BY <1>2, <1>5
  <2>2. Proposes[p][2] # <<>> /\ Last(Proposes[p][2]) = <<"-", n>>
    BY <1>3, <2>1, MarkIs
  <2>3. Proposes[p][2] \in Seq({"ch", "-"} \X Nat)
    BY <1>1 DEF SourceId
  <2>4. PICK s : s = Proposes[p][2]
    OBVIOUS
  <2>5. Len(s) \in DOMAIN s /\ s[Len(s)] = <<"-", n>>
    BY <2>2, <2>3, <2>4 DEF Last
  <2>6. s[Len(s)][1] = "-"
    BY <2>5
  <2> QED BY <2>4, <2>5, <2>6 DEF NumberedName
<1> QED BY <1>4, <1>5

\* An id is on one base only.
LEMMA OneBase ==
  ASSUME FolderOK, ~ NumberedName, NEW p \in Present, NEW q \in Present,
         NEW t \in SourceTape, NEW v \in SourceTape,
         NEW i \in DOMAIN ProposalsOf(p, t), NEW j \in DOMAIN ProposalsOf(q, v), NEW id,
         OnBase(ProposalsOf(p, t)[i], id), OnBase(ProposalsOf(q, v)[j], id)
  PROVE  ProposalsOf(p, t)[i] = ProposalsOf(q, v)[j]
<1>1. PICK a, b : a = ProposalsOf(p, t)[i] /\ b = ProposalsOf(q, v)[j]
  OBVIOUS
<1>2. a \in SourceId /\ b \in SourceId
  BY <1>1, ProposalsAre DEF Present
<1>3. \A n \in Nat : a # Mark(b, <<"-", n>>) /\ b # Mark(a, <<"-", n>>)
  BY <1>1, <1>2, Unnumbered
<1>4. CASE id = a \/ id = b
  BY <1>1, <1>3, <1>4 DEF OnBase
<1>5. CASE id # a /\ id # b
  <2>1. PICK n \in Nat : id = Mark(a, <<"-", n>>)
    BY <1>1, <1>5 DEF OnBase
  <2>2. PICK m \in Nat : id = Mark(b, <<"-", m>>)
    BY <1>1, <1>5 DEF OnBase
  <2>3. <<"-", n>> \in {"ch", "-"} \X Nat /\ <<"-", m>> \in {"ch", "-"} \X Nat
    BY Numbered
  <2>4. Mark(a, <<"-", n>>) = Mark(b, <<"-", m>>)
    BY <2>1, <2>2
  <2>5. a = b
    BY <1>2, <2>3, <2>4, MarkIs
  <2> QED BY <1>1, <2>5
<1> QED BY <1>4, <1>5

\* What a copy's declaration settled on is declared, of nothing staged, and on its base.
LEMMA SettledIs ==
  ASSUME NEW base, NEW staged, NEW id \in SettledFor(base, staged), DeclaredIds \subseteq SourceId
  PROVE  id \in DeclaredIds \ staged /\ OnBase(base, id)
<1> DEFINE free     == DeclaredIds \ staged
           numbers  == {Last(e[2])[2] : e \in {i \in free : i[2] # <<>>}}
           numbered == {n \in numbers : Mark(base, <<"-", n>>) \in free}
<1>1. numbers \subseteq Nat
  <2> SUFFICES ASSUME NEW e \in free, e[2] # <<>> PROVE Last(e[2])[2] \in Nat
    OBVIOUS
  <2>1. e[2] \in Seq({"ch", "-"} \X Nat)
    BY DEF SourceId
  <2>2. Last(e[2]) \in {"ch", "-"} \X Nat
    BY <2>1 DEF Last
  <2> QED BY <2>2
<1>2. SettledFor(base, staged) = IF base \in free THEN {base}
        ELSE IF numbered # {} THEN {Mark(base, <<"-", Min(numbered)>>)} ELSE {}
  BY DEF SettledFor
<1>3. numbered \in SUBSET Nat
  BY <1>1
<1>4. CASE base \in free
  BY <1>2, <1>4 DEF OnBase
<1>5. CASE base \notin free
  <2>1. numbered # {} /\ id = Mark(base, <<"-", Min(numbered)>>)
    <3> HIDE DEF numbered, free
    <3> QED BY <1>2, <1>5
  <2>2. Min(numbered) \in numbered
    <3> HIDE DEF numbered
    <3> QED BY <1>3, <2>1, FirstOf
  <2>3. Min(numbered) \in Nat /\ Mark(base, <<"-", Min(numbered)>>) \in free
    <3>1. PICK n : n = Min(numbered)
      OBVIOUS
    <3> QED BY <1>1, <2>2, <3>1
  <2> HIDE DEF numbered
  <2> QED BY <2>1, <2>3 DEF OnBase
<1> QED BY <1>4, <1>5

\* The only id on base that is declared of nothing staged is the one settled on.
LEMMA SettledFinds ==
  ASSUME NEW base \in SourceId, NEW staged, DeclaredIds \subseteq SourceId,
         NEW id \in DeclaredIds \ staged, OnBase(base, id),
         \A other \in DeclaredIds \ staged : OnBase(base, other) => other = id
  PROVE  id \in SettledFor(base, staged)
<1> DEFINE free     == DeclaredIds \ staged
           numbers  == {Last(e[2])[2] : e \in {i \in free : i[2] # <<>>}}
           numbered == {n \in numbers : Mark(base, <<"-", n>>) \in free}
<1>1. numbers \subseteq Nat
  <2> SUFFICES ASSUME NEW e \in free, e[2] # <<>> PROVE Last(e[2])[2] \in Nat
    OBVIOUS
  <2>1. e[2] \in Seq({"ch", "-"} \X Nat)
    BY DEF SourceId
  <2>2. Last(e[2]) \in {"ch", "-"} \X Nat
    BY <2>1 DEF Last
  <2> QED BY <2>2
<1>2. SettledFor(base, staged) = IF base \in free THEN {base}
        ELSE IF numbered # {} THEN {Mark(base, <<"-", Min(numbered)>>)} ELSE {}
  BY DEF SettledFor
<1>4. CASE base \in free
  <2>1. base = id
    BY <1>4 DEF OnBase
  <2> QED BY <1>2, <1>4, <2>1
<1>5. CASE base \notin free
  <2>1. PICK n \in Nat : id = Mark(base, <<"-", n>>)
    BY <1>5 DEF OnBase
  <2>2. id[2] # <<>> /\ Last(id[2]) = <<"-", n>>
    BY <2>1, Numbered, MarkIs
  <2>3. n \in numbers
    <3>1. Last(id[2])[2] = n
      BY <2>2
    <3> QED BY <2>2, <3>1
  <2>4. n \in numbered /\ numbered \in SUBSET Nat
    BY <1>1, <2>1, <2>3
  <2>5. Min(numbered) \in numbered
    <3> HIDE DEF numbered
    <3> QED BY <2>4, FirstOf
  <2>6. PICK m : m = Min(numbered)
    OBVIOUS
  <2>7. m \in Nat /\ Mark(base, <<"-", m>>) \in free
    BY <2>4, <2>5, <2>6
  <2>8. Mark(base, <<"-", m>>) = id
    BY <2>7 DEF OnBase
  <2>9. SettledFor(base, staged) = {Mark(base, <<"-", m>>)}
    <3> HIDE DEF numbered, free
    <3> QED BY <1>2, <1>5, <2>4, <2>6
  <2> QED BY <2>8, <2>9
<1> QED BY <1>4, <1>5

-----------------------------------------------------------------------------
(* The declarations a pass reads. *)

\* A pass that has decoded all its units, about to write new, with none of the
\* four things that move a declaration.
PlainPass(new) ==
    /\ FolderOK /\ ManifestWell(manifest)
    /\ new \in EntrySeq /\ Len(new) = Len(Units)
    /\ \A i \in 1 .. Len(new) : new[i] = EntryOf(StagedUnits[i])
    /\ ~ HandsOver(manifest, new) /\ ~ LosesAFile(manifest)
    /\ ~ NumberedName /\ ~ CopiesCollide

\* What is there of a source of the last manifest.
LEMMA OldIs ==
  ASSUME NEW new, PlainPass(new), NEW e \in Entries(manifest)
  PROVE  /\ e \in Entry /\ e.file \in Present /\ e.file \in Names
         /\ folder[e.file] = e.unit[1] /\ e.unit[1] \in SourceTape
         /\ e.unit = <<e.unit[1], e.unit[2]>>
         /\ SlotOf(e.unit) \in DOMAIN Bases(e.file) /\ BaseOf(e) = Bases(e.file)[SlotOf(e.unit)]
         /\ e.unit[2] = Channel(e.unit[1], SlotOf(e.unit))
         /\ BaseOf(e) \in SourceId /\ OnBase(BaseOf(e), e.id)
<1>1. PICK k \in DOMAIN manifest : e = manifest[k]
  BY DEF Entries
<1>2. e \in Entry /\ UnitThere(e) /\ WellNamed(IdsOf(manifest), BaseOf(e), e.id)
  BY <1>1 DEF PlainPass, ManifestWell, EntrySeq
<1>3. e.file \in Names /\ e.unit[1] \in SourceTape /\ e.unit = <<e.unit[1], e.unit[2]>>
  BY <1>2 DEF Entry
<1>4. folder[e.file] = e.unit[1]
  BY DEF PlainPass, LosesAFile
<1>5. e.file \in Present
  BY <1>3, <1>4, SourceBounds DEF Present
<1>6. BaseOf(e) \in SourceId
  BY <1>2, <1>3, ProposalsAre DEF PlainPass, BaseOf, UnitThere
<1> QED BY <1>2, <1>3, <1>4, <1>5, <1>6, NamedIsOnBase DEF UnitThere, BaseOf, Bases

\* What is declared is declared of a source of the last manifest.
LEMMA DeclaredOf ==
  ASSUME NEW new, PlainPass(new)
  PROVE  /\ DeclaredIds \subseteq SourceId
         /\ \A id \in DeclaredIds : \E e \in Entries(manifest) : e.id = id
<1>1. \A id \in DeclaredIds : \E e \in Entries(manifest) : e.id = id
  BY DEF DeclaredIds, Entries
<1>2. \A e \in Entries(manifest) : e.id \in SourceId
  BY OldIs DEF Entry
<1> QED BY <1>1, <1>2

\* What a unit of the pass becomes.
LEMMA NewIs ==
  ASSUME NEW new, PlainPass(new)
  PROVE  /\ ManifestWell(new) /\ IdsOf(new) = StagedIds
         /\ Len(new) \in Nat /\ DOMAIN new = 1 .. Len(new) /\ Len(new) = Len(Units)
         /\ \A i \in 1 .. Len(new) :
              /\ new[i].id = Units[i].id /\ new[i].file = Units[i].file /\ new[i].file \in KeptCopies
              /\ new[i] \in Entry /\ new[i].unit = <<new[i].unit[1], new[i].unit[2]>>
              /\ new[i].unit[1] = folder[new[i].file] /\ folder[new[i].file] \in SourceTape
              /\ SlotOf(new[i].unit) = Units[i].slot
              /\ new[i].unit[2] = Channel(new[i].unit[1], Units[i].slot)
              /\ new[i].start = StartOf(Units[i], StagedIds)
              /\ new[i].mixed = RoleOf(Units[i], StagedIds)
<1>1. FolderOK /\ new \in EntrySeq /\ Len(new) = Len(Units)
      /\ \A i \in 1 .. Len(new) : new[i] = EntryOf(StagedUnits[i])
  BY DEF PlainPass
<1>2. ManifestWell(new) /\ IdsOf(new) = StagedIds
  BY <1>1, WellWritten
<1>3. Len(new) \in Nat /\ DOMAIN new = 1 .. Len(new)
  BY <1>1 DEF EntrySeq
<1>4. ASSUME NEW i \in 1 .. Len(new)
      PROVE  /\ new[i].id = Units[i].id /\ new[i].file = Units[i].file /\ new[i].file \in KeptCopies
             /\ new[i] \in Entry
             /\ new[i].unit[1] = folder[new[i].file] /\ folder[new[i].file] \in SourceTape
             /\ SlotOf(new[i].unit) = Units[i].slot /\ UnitThere(new[i])
             /\ new[i].start = StartOf(Units[i], StagedIds)
             /\ new[i].mixed = RoleOf(Units[i], StagedIds)
  <2>1. PICK e : e = new[i] /\ e = EntryOf(StagedUnits[i])
    BY <1>1
  <2>2. i \in 1 .. Len(Units)
    BY <1>1
  <2> QED BY <1>1, <2>1, <2>2, EntryIs
<1>5. ASSUME NEW i \in 1 .. Len(new)
      PROVE  /\ new[i].unit[2] = Channel(new[i].unit[1], Units[i].slot)
             /\ new[i].unit = <<new[i].unit[1], new[i].unit[2]>>
  BY <1>4 DEF UnitThere, Entry
<1> QED BY <1>1, <1>2, <1>3, <1>4, <1>5

\* A source whose id nothing staged has is of a folded copy.
LEMMA FoldedOnly ==
  ASSUME NEW new, PlainPass(new), NEW e \in Entries(manifest), e.id \notin StagedIds
  PROVE  KeptFor(e.file) # e.file
<1> SUFFICES ASSUME KeptFor(e.file) = e.file PROVE FALSE
  OBVIOUS
<1>1. e.file \in KeptCopies
  BY OldIs DEF KeptCopies
<1>2. SlotOf(e.unit) \in DOMAIN Bases(e.file)
  BY OldIs
<1>3. PICK i \in 1 .. Len(Units) : Units[i].file = e.file /\ Units[i].slot = SlotOf(e.unit)
  BY <1>1, <1>2, UnitsAre DEF PlainPass
<1>4. PICK f : f = new[i]
  OBVIOUS
<1>5. /\ f.id = Units[i].id /\ f.file = e.file /\ f.unit = <<f.unit[1], f.unit[2]>>
      /\ f.unit[1] = folder[e.file] /\ f.unit[2] = Channel(f.unit[1], SlotOf(e.unit))
  BY <1>3, <1>4, NewIs
<1>6. f.unit = e.unit
  <2>1. /\ e.unit = <<e.unit[1], e.unit[2]>> /\ folder[e.file] = e.unit[1]
        /\ e.unit[2] = Channel(e.unit[1], SlotOf(e.unit))
    BY OldIs
  <2> QED BY <1>5, <2>1
<1>7. f \in Entries(new)
  BY <1>3, <1>4, NewIs DEF Entries
<1>8. e.id = f.id
  BY <1>5, <1>6, <1>7, NewIs, SameUnitSameId DEF PlainPass
<1>9. f.id \in StagedIds
  BY <1>3, <1>5, NewIs DEF StagedIds
<1> QED BY <1>8, <1>9

\* A source whose id nothing staged has, and that asked for what a folded copy asks
\* for, is of the same unit.
LEMMA OneFolded ==
  ASSUME NEW new, PlainPass(new), NEW e \in Entries(manifest), e.id \notin StagedIds,
         NEW c \in Present, KeptFor(c) # c, NEW s \in DOMAIN Bases(c), BaseOf(e) = Bases(c)[s]
  PROVE  e.unit[1] = folder[c] /\ SlotOf(e.unit) = s
<1>1. KeptFor(e.file) # e.file /\ e.file \in Present
  BY FoldedOnly, OldIs
<1>2. SlotOf(e.unit) \in DOMAIN Bases(e.file) /\ BaseOf(e) = Bases(e.file)[SlotOf(e.unit)]
      /\ folder[e.file] = e.unit[1]
  BY OldIs
<1>3. BaseOf(e) \in ToSet(Bases(e.file)) /\ BaseOf(e) \in ToSet(Bases(c))
  BY <1>2 DEF ToSet
<1>4. folder[e.file] = folder[c]
  BY <1>1, <1>3 DEF PlainPass, CopiesCollide, Bases
<1>5. PICK t : t = folder[c] /\ t \in SourceTape
  BY DEF PlainPass, FolderOK, Present
<1>6. /\ e.file \in Names /\ c \in Names
      /\ SlotOf(e.unit) \in DOMAIN ProposalsOf(e.file, t) /\ s \in DOMAIN ProposalsOf(c, t)
      /\ ProposalsOf(e.file, t)[SlotOf(e.unit)] = ProposalsOf(c, t)[s]
  BY <1>1, <1>2, <1>4, <1>5 DEF Bases, Present
<1>7. SlotOf(e.unit) = s
  BY <1>5, <1>6, SlotsApart DEF PlainPass
<1> QED BY <1>2, <1>4, <1>7

\* The two things an operator may declare.
Fields == {"mixed", "start"}

\* What a source of the pass is declared by is a source of its own unit.
LEMMA InheritsItsOwn ==
  ASSUME NEW new, PlainPass(new), NEW i \in 1 .. Len(new), NEW field \in Fields,
         Declares(Units[i].id, field) \/ Inherits(Units[i], StagedIds, field)
  PROVE  \E e \in Entries(manifest) : e.unit = new[i].unit /\ e[field]
<1>0. PICK f, u : f = new[i] /\ u = Units[i]
  OBVIOUS
<1>1. /\ f.id = u.id /\ f.file = u.file /\ f.file \in KeptCopies
      /\ f.unit[1] = folder[f.file] /\ f.unit = <<f.unit[1], f.unit[2]>> /\ SlotOf(f.unit) = u.slot
      /\ f.unit[2] = Channel(f.unit[1], u.slot) /\ f \in Entries(new) /\ folder[f.file] \in SourceTape
  BY <1>0, NewIs DEF Entries
<1>2. CASE Declares(u.id, field)
  <2>1. PICK e \in Entries(manifest) : e.id = u.id /\ e[field]
    BY <1>2 DEF Declares, Entries
  <2>2. e.unit = f.unit
    BY <1>1, <2>1 DEF PlainPass, HandsOver
  <2> QED BY <1>0, <2>1, <2>2
<1>3. CASE Inherits(u, StagedIds, field)
  <2>1. PICK c \in CopiesOf(u.file) :
           \E id \in SettledFor(ProposalsOf(c, folder[c])[u.slot], StagedIds) : Declares(id, field)
    BY <1>3 DEF Inherits
  <2>2. PICK id \in SettledFor(Bases(c)[u.slot], StagedIds) : Declares(id, field)
    BY <2>1 DEF Bases
  <2>3. c \in Present /\ c \in Names /\ c # u.file /\ KeptFor(c) = u.file
    BY DEF CopiesOf, Present
  <2>4. id \in DeclaredIds \ StagedIds /\ OnBase(Bases(c)[u.slot], id)
    BY <2>2, DeclaredOf, SettledIs
  <2>5. PICK e \in Entries(manifest) : e.id = id /\ e[field]
    BY <2>2 DEF Declares, Entries
  <2>6. folder[c] = folder[f.file]
    <3>1. folder[KeptFor(c)] = folder[c]
      BY <2>3, KeptForIs DEF PlainPass
    <3> QED BY <1>1, <2>3, <3>1
  <2>7. u.slot \in DOMAIN Bases(c)
    <3>1. u.slot \in DOMAIN Bases(u.file)
      BY <1>0, UnitsAre, NewIs DEF PlainPass
    <3>2. DOMAIN Bases(u.file) = DOMAIN Bases(c)
      <4>1. u.file \in Names /\ folder[u.file] = folder[c] /\ folder[c] \in SourceTape
        BY <1>1, <2>6 DEF KeptCopies, Present
      <4> QED BY <2>3, <4>1, ProposalsAre DEF PlainPass, Bases
    <3> QED BY <3>1, <3>2
  <2>8. BaseOf(e) = Bases(c)[u.slot]
    <3>1. /\ e.file \in Present /\ SlotOf(e.unit) \in DOMAIN Bases(e.file)
          /\ BaseOf(e) = Bases(e.file)[SlotOf(e.unit)] /\ OnBase(BaseOf(e), e.id)
          /\ folder[e.file] \in SourceTape
      BY OldIs
    <3>2. folder[c] \in SourceTape /\ FolderOK /\ ~ NumberedName
      BY <1>1, <2>6 DEF PlainPass
    <3>3. OnBase(Bases(e.file)[SlotOf(e.unit)], id) /\ OnBase(Bases(c)[u.slot], id)
      BY <2>4, <2>5, <3>1
    <3> QED BY <2>3, <2>7, <3>1, <3>2, <3>3, OneBase DEF Bases
  <2>9. e.unit[1] = folder[c] /\ SlotOf(e.unit) = u.slot
    BY <2>3, <2>4, <2>5, <2>7, <2>8, OneFolded
  <2>10. e.unit = f.unit
    <3>1. e.unit = <<e.unit[1], e.unit[2]>> /\ e.unit[2] = Channel(e.unit[1], SlotOf(e.unit))
      BY OldIs
    <3> QED BY <1>1, <2>6, <2>9, <3>1
  <2> QED BY <1>0, <2>5, <2>10
<1> QED BY <1>0, <1>2, <1>3

\* What a unit was declared in the last manifest, it is in the pass.
LEMMA KeepsItsOwn ==
  ASSUME NEW new, PlainPass(new), NEW i \in 1 .. Len(new), NEW field \in Fields,
         NEW e \in Entries(manifest), e.unit = new[i].unit, e[field]
  PROVE  Declares(Units[i].id, field) \/ Inherits(Units[i], StagedIds, field)
<1>0. PICK f, u : f = new[i] /\ u = Units[i]
  OBVIOUS
<1>1. /\ f.id = u.id /\ f.file = u.file /\ f.file \in KeptCopies
      /\ f.unit[1] = folder[f.file] /\ SlotOf(f.unit) = u.slot
      /\ f \in Entries(new) /\ folder[f.file] \in SourceTape
  BY <1>0, NewIs DEF Entries
<1>2. e.unit = f.unit
  BY <1>0
<1>3. e.id = f.id => Declares(u.id, field)
  BY <1>1 DEF Declares, Entries
<1>4. CASE e.file = f.file
  BY <1>0, <1>1, <1>2, <1>3, <1>4, NewIs, SameUnitSameId DEF PlainPass
<1>5. CASE e.id \in StagedIds
  <2>1. PICK j \in DOMAIN new : new[j].id = e.id
    BY <1>5, NewIs DEF IdsOf
  <2>2. new[j].unit = e.unit
    BY <2>1 DEF PlainPass, HandsOver, Entries
  <2>3. i \in DOMAIN new /\ ManifestWell(new)
    BY NewIs
  <2>4. i = j
    BY <1>0, <1>2, <2>2, <2>3 DEF ManifestWell
  <2> QED BY <1>0, <1>3, <2>1, <2>4
<1>6. CASE e.file # f.file /\ e.id \notin StagedIds
  <2>1. PICK c : c = e.file
    OBVIOUS
  <2>2. /\ c \in Present /\ c \in Names /\ folder[c] = e.unit[1] /\ SlotOf(e.unit) \in DOMAIN Bases(c)
        /\ BaseOf(e) = Bases(c)[SlotOf(e.unit)] /\ BaseOf(e) \in SourceId /\ OnBase(BaseOf(e), e.id)
        /\ e.unit[1] \in SourceTape
    BY <2>1, OldIs
  <2>3. KeptFor(c) = f.file /\ KeptFor(c) # c
    <3>1. f.file \in Present /\ KeptFor(f.file) = f.file
      BY <1>1 DEF KeptCopies
    <3>2. folder[f.file] = folder[c]
      BY <1>1, <1>2, <2>2
    <3>3. KeptFor(f.file) = KeptFor(c)
      BY <2>2, <3>1, <3>2, KeptForIs DEF PlainPass
    <3> QED BY <1>6, <2>1, <3>1, <3>3
  <2>4. c \in CopiesOf(u.file)
    BY <1>1, <2>2, <2>3 DEF CopiesOf
  <2>5. PICK b : b = BaseOf(e) /\ b = ProposalsOf(c, folder[c])[u.slot]
    BY <1>1, <1>2, <2>2 DEF Bases
  <2>6. e.id \in DeclaredIds \ StagedIds
    <3>1. PICK k \in DOMAIN manifest : e = manifest[k]
      BY DEF Entries
    <3>2. manifest[k].mixed \/ manifest[k].start
      BY <3>1 DEF Fields
    <3>3. e.id \in DeclaredIds
      BY <3>1, <3>2 DEF DeclaredIds
    <3> QED BY <1>6, <3>3
  <2>7. ASSUME NEW other \in DeclaredIds \ StagedIds, OnBase(b, other) PROVE other = e.id
    <3>1. PICK d \in Entries(manifest) : d.id = other
      BY DeclaredOf
    <3>2. /\ d.file \in Present /\ SlotOf(d.unit) \in DOMAIN Bases(d.file)
          /\ BaseOf(d) = Bases(d.file)[SlotOf(d.unit)] /\ OnBase(BaseOf(d), d.id)
          /\ folder[d.file] \in SourceTape
          /\ d.unit = <<d.unit[1], d.unit[2]>> /\ d.unit[2] = Channel(d.unit[1], SlotOf(d.unit))
      BY OldIs
    <3>3. BaseOf(d) = Bases(c)[SlotOf(e.unit)]
      <4>1. folder[c] \in SourceTape /\ FolderOK /\ ~ NumberedName
        BY <2>2 DEF PlainPass
      <4>2. OnBase(Bases(d.file)[SlotOf(d.unit)], other) /\ OnBase(Bases(c)[SlotOf(e.unit)], other)
        BY <2>2, <2>5, <2>7, <3>1, <3>2
      <4> QED BY <2>2, <3>2, <4>1, <4>2, OneBase DEF Bases
    <3>4. d.unit[1] = folder[c] /\ SlotOf(d.unit) = SlotOf(e.unit)
      BY <2>2, <2>3, <2>7, <3>1, <3>3, OneFolded
    <3>5. d.unit = e.unit
      <4>1. e.unit = <<e.unit[1], e.unit[2]>> /\ e.unit[2] = Channel(e.unit[1], SlotOf(e.unit))
        BY OldIs
      <4> QED BY <2>2, <3>2, <3>4, <4>1
    <3>6. d = e
      BY <3>5 DEF PlainPass, ManifestWell, Entries
    <3> QED BY <3>1, <3>6
  <2>8. e.id \in SettledFor(b, StagedIds)
    <3>1. b \in SourceId /\ OnBase(b, e.id) /\ DeclaredIds \subseteq SourceId
      BY <2>2, <2>5, DeclaredOf
    <3> QED BY <2>6, <2>7, <3>1, SettledFinds
  <2>9. Declares(e.id, field)
    BY DEF Declares, Entries
  <2>10. Inherits(u, StagedIds, field)
    BY <2>4, <2>5, <2>8, <2>9 DEF Inherits
  <2> QED BY <1>0, <2>10
<1> QED BY <1>0, <1>4, <1>5, <1>6

\* A plain pass keeps every declaration with its audio, and gives none to another.
LEMMA PlainPassFollows ==
  ASSUME NEW new, PlainPass(new)
  PROVE  Follows(manifest, new)
<1> DEFINE OfItsOwn(f) ==
      LET was == {e \in Entries(manifest) : e.unit = f.unit}
      IN  /\ f.mixed = (\E e \in was : e.mixed)
          /\ (\E e \in was : e.start) => f.start
          /\ f.start => \/ \E e \in was : e.start
                        \/ \E p \in Stamped : folder[p] = f.unit[1]
<1>a. (\A f \in Entries(new) : OfItsOwn(f)) => Follows(manifest, new)
  BY DEF Follows
<1>b. ASSUME \A i \in 1 .. Len(new) : OfItsOwn(new[i]) PROVE \A f \in Entries(new) : OfItsOwn(f)
  <2> HIDE DEF OfItsOwn
  <2> QED BY <1>b, NewIs DEF Entries
<1> SUFFICES ASSUME NEW i \in 1 .. Len(new) PROVE OfItsOwn(new[i])
  BY <1>a, <1>b
<1>1. PICK f, u : f = new[i] /\ u = Units[i]
  OBVIOUS
<1>2. /\ f.file = u.file /\ f.unit[1] = folder[f.file]
      /\ f.start = StartOf(u, StagedIds) /\ f.mixed = RoleOf(u, StagedIds)
  BY <1>1, NewIs
<1>3. RoleOf(u, StagedIds) <=> \E e \in Entries(manifest) : e.unit = f.unit /\ e.mixed
  <2>1. "mixed" \in Fields
    BY DEF Fields
  <2>2. RoleOf(u, StagedIds) <=> Declares(u.id, "mixed") \/ Inherits(u, StagedIds, "mixed")
    BY DEF RoleOf
  <2>3. RoleOf(u, StagedIds) => \E e \in Entries(manifest) : e.unit = f.unit /\ e["mixed"]
    BY <1>1, <2>1, <2>2, InheritsItsOwn
  <2>4. ASSUME NEW e \in Entries(manifest), e.unit = f.unit, e["mixed"] PROVE RoleOf(u, StagedIds)
    BY <1>1, <2>1, <2>2, <2>4, KeepsItsOwn
  <2> QED BY <2>3, <2>4
<1>4. ASSUME NEW e \in Entries(manifest), e.unit = f.unit, e.start PROVE StartOf(u, StagedIds)
  <2>1. "start" \in Fields /\ e["start"]
    BY <1>4 DEF Fields
  <2>2. Declares(u.id, "start") \/ Inherits(u, StagedIds, "start")
    BY <1>1, <1>4, <2>1, KeepsItsOwn
  <2> QED BY <2>2 DEF StartOf
<1>5. ASSUME StartOf(u, StagedIds)
      PROVE  \/ \E e \in Entries(manifest) : e.unit = f.unit /\ e.start
             \/ \E p \in Stamped : folder[p] = f.unit[1]
  <2>1. CASE u.file \in Stamped
    BY <1>2, <2>1
  <2>2. CASE \E c \in CopiesOf(u.file) : c \in Stamped
    <3>1. PICK c \in CopiesOf(u.file) : c \in Stamped
      BY <2>2
    <3>2. c \in Present /\ KeptFor(c) = u.file
      BY DEF CopiesOf
    <3>3. folder[c] = folder[u.file]
      BY <3>2, KeptForIs DEF PlainPass
    <3> QED BY <1>2, <3>1, <3>3
  <2>3. CASE Declares(u.id, "start") \/ Inherits(u, StagedIds, "start")
    <3>1. "start" \in Fields
      BY DEF Fields
    <3>2. \E e \in Entries(manifest) : e.unit = f.unit /\ e["start"]
      BY <1>1, <2>3, <3>1, InheritsItsOwn
    <3> QED BY <3>2
  <2> QED BY <1>5, <2>1, <2>2, <2>3 DEF StartOf
<1>6. f.mixed \in BOOLEAN /\ f.start \in BOOLEAN
  <2>1. f \in Entry
    BY <1>1, NewIs
  <2> QED BY <2>1 DEF Entry
<1>7. \A e \in Entries(manifest) : e.mixed \in BOOLEAN
  BY OldIs DEF Entry
<1> DEFINE was == {e \in Entries(manifest) : e.unit = f.unit}
<1>8. f.mixed = (\E e \in was : e.mixed)
  BY <1>2, <1>3, <1>6
<1>9. (\E e \in was : e.start) => f.start
  BY <1>2, <1>4
<1>10. f.start => (\E e \in was : e.start) \/ \E p \in Stamped : folder[p] = f.unit[1]
  BY <1>2, <1>5
<1> QED BY <1>1, <1>8, <1>9, <1>10

\* Only the end of a pass writes the manifest while one is under way.
LEMMA DeclarationsFollow ==
  SourceInv /\ [SourceNext]_sourceVars =>
    [manifest' # manifest /\ ingesting # NoPass
       /\ ~ HandsOver(manifest, manifest') /\ ~ LosesAFile(manifest)
       /\ ~ NumberedName /\ ~ CopiesCollide
     => Follows(manifest, manifest')]_sourceVars
<1> SUFFICES ASSUME SourceInv, [SourceNext]_sourceVars, manifest' # manifest, ingesting # NoPass,
                    ~ HandsOver(manifest, manifest'), ~ LosesAFile(manifest),
                    ~ NumberedName, ~ CopiesCollide
             PROVE  Follows(manifest, manifest')
  OBVIOUS
<1>1. WriteManifest
  <2>1. SourceNext
    BY DEF sourceVars
  <2>2. ~ BeginIngest /\ ~ Decode /\ ~ EndsEarly
    BY DEF BeginIngest, Decode, EndsEarly
  <2>3. ~ \E p \in Names, t \in SourceTape \union {NoTape} : PutFile(p, t)
    BY DEF PutFile
  <2>4. ~ \E k \in DOMAIN manifest : Declare(k)
    BY DEF Declare
  <2> QED BY <2>1, <2>2, <2>3, <2>4 DEF SourceNext
<1>2. manifest' = ingesting.done /\ Len(ingesting.done) = Len(ingesting.units)
  BY <1>1 DEF WriteManifest
<1>3. Len(ingesting.done) = Len(Units) /\ ingesting.done \in EntrySeq
      /\ \A i \in 1 .. Len(ingesting.done) : ingesting.done[i] = EntryOf(StagedUnits[i])
  BY <1>2, StagedAre DEF SourceInv, PassFollows
<1>4. PlainPass(ingesting.done)
  BY <1>2, <1>3 DEF PlainPass, SourceInv
<1> QED BY <1>2, <1>4, PlainPassFollows

-----------------------------------------------------------------------------
(* The stages together. *)

\* A step of the pipeline is a step of one part and leaves the others alone.
LEMMA PartsStep ==
  ASSUME [PipelineNext]_pipelineVars
  PROVE  /\ [Next]_vars /\ [NamesNext]_namesVars /\ [PublicationNext]_publicationVars
         /\ [FetchNext]_fetchVars /\ [CheckNext]_checkVars
         /\ [SourceNext]_sourceVars /\ [MergeNext]_mergeVars
         /\ part' = part
BY DEF PipelineNext, CacheStep, SourcesStep, NamesStep, MergeStep, PublicationStep, FetchStep,
   CheckStep, pipelineVars, cacheVars

\* What is known of every part.
PipelineInv == /\ TypeOK /\ NamesInv /\ PublicationInv /\ RootInv /\ FetchInv /\ CheckInv
               /\ SourceInv /\ MergeInv

\* The invariant of the pipeline.
LEMMA PipelineInvariant == PipelineSpec => []PipelineInv
<1>1. PipelineInit => PipelineInv
  BY TypeInit, NamesInitInv, PublicationInitInv, RootInitInv, FetchInitInv, CheckInitInv,
     SourceInitHolds, MergeInitHolds
  DEF PipelineInit, PipelineInv
<1>2. PipelineInv /\ [PipelineNext]_pipelineVars => PipelineInv'
  <2> SUFFICES ASSUME PipelineInv, [PipelineNext]_pipelineVars PROVE PipelineInv'
    OBVIOUS
  <2>1. TypeOK' /\ NamesInv'
    BY PartsStep, TypeStep, NamesStepKeeps DEF PipelineInv
  <2>2. PublicationInv' /\ RootInv'
    BY PartsStep, PublicationInvStays, RootInvStays DEF PipelineInv
  <2>3. FetchInv' /\ CheckInv'
    BY PartsStep, FetchStepKeeps, CheckStepKeeps DEF PipelineInv
  <2>4. SourceInv' /\ MergeInv'
    BY PartsStep, SourceStepKeeps, MergeStepKeeps DEF PipelineInv
  <2>5. QED
    BY <2>1, <2>2, <2>3, <2>4 DEF PipelineInv
<1>3. QED
  BY <1>1, <1>2, PTL DEF PipelineSpec

\* Every variable of these parts keeps its type, for any chunks, sources, runs,
\* threads and processes; in particular every artifact row names a place.
THEOREM PipelineTypesCorrect == PipelineSpec => []PipelineTypeOK
<1>1. PipelineInv => PipelineTypeOK
  BY DEF PipelineInv, NamesInv, PublicationInv, FetchInv, CheckInv, PipelineTypeOK
<1>2. QED
  BY <1>1, PipelineInvariant, PTL

\* The file an artifact row names holds the bytes the row recorded, at every
\* moment of any number of interleaved publications, failed and killed ones
\* included; the root is the last complete publication, unless two met or one
\* was cut short in its renames; a pinned model's name and the helper's hold a
\* whole file, through concurrent fetches, cut connections and kills; and the
\* record names no microphone an attribute pass, a role or a one-off declaration
\* called no speaker.
THEOREM FilesAreTrue == PipelineSpec => []FilesHold
<1>1. PipelineInv => FilesHold
  <2>1. PipelineInv => RootIsLastPublication
    BY RootInvGives DEF PipelineInv
  <2>2. QED
    BY <2>1 DEF PipelineInv, PublicationInv, FetchInv, NamesInv, FilesHold
<1>2. QED
  BY <1>1, PipelineInvariant, PTL

\* Each source of a manifest names the audio it was staged with, and no two name the
\* same, however the names, the channels and the numbers of a folder collide and
\* wherever passes are cut short; at each moment of a recording, what the chunk that
\* owns it heard is in the transcript; and the record is in order, nobody's words over
\* another's, none left out but for a cue at least as good that it overlaps.  For any
\* names, tapes and folders, any plan of chunks, anything the decoders may hear.
THEOREM SourcesAndTranscriptCorrect == PipelineSpec => []SourcesAndTranscriptHold
<1>1. PipelineInv => SourcesAndTranscriptHold
  BY SourceInvGives, MergeInvGives DEF PipelineInv, SourcesAndTranscriptHold
<1>2. QED
  BY <1>1, PipelineInvariant, PTL

\* A pass that hands no id to another unit, finds every file where it was, meets no
\* numbered name and folds no two copies that ask for one id keeps each declaration with
\* its audio, under the source's own id or the one a folded copy had settled on, and
\* gives it to no other (_settled_id_for).
THEOREM DeclarationsAreKept == PipelineSpec => DeclarationsFollowTheAudio
<1>1. ASSUME PipelineInv, [PipelineNext]_pipelineVars
      PROVE  [manifest' # manifest /\ ingesting # NoPass
                /\ ~ HandsOver(manifest, manifest') /\ ~ LosesAFile(manifest)
                /\ ~ NumberedName /\ ~ CopiesCollide
              => Follows(manifest, manifest')]_sourceVars
  BY <1>1, PartsStep, DeclarationsFollow DEF PipelineInv
<1>2. QED
  BY <1>1, PipelineInvariant, PTL DEF PipelineSpec, DeclarationsFollowTheAudio

\* No rename destroys the last copy of a document; a failed fetch takes its
\* temporary file with it; a process downloads a model it has not put in place
\* before; and a check that says the chain worked read its own tape.
THEOREM PipelineStepsAreLegal == PipelineSpec => PipelineSteps
<1>1. PipelineSpec => NothingIsLost
  <2>1. ASSUME PipelineInv, [PipelineNext]_pipelineVars
        PROVE  [\A d \in Doc : root[d] # NoDoc /\ root'[d] # root[d]
                  => \E place \in Places \ {Root} : Read(place, d) = root[d]]_publicationVars
    BY <2>1, PartsStep, NothingDestroyed DEF PipelineInv
  <2>2. QED
    BY <2>1, PipelineInvariant, PTL DEF PipelineSpec, NothingIsLost
<1>2. PipelineSpec => StraysAreOfKilled
  <2>1. ASSUME [PipelineNext]_pipelineVars
        PROVE  [\A t \in Asker : FetchWorks(t) => strays' = strays]_fetchVars
    BY <2>1, PartsStep, CleansUp
  <2>2. QED
    BY <2>1, PTL DEF PipelineSpec, StraysAreOfKilled
<1>3. PipelineSpec => FetchedOncePerProcess
  <2>1. ASSUME PipelineInv, [PipelineNext]_pipelineVars
        PROVE  [\A t \in Asker : PutsInPlace(t) /\ asker'[t] = "got" /\ wants[t] \in Model
                  => installer[wants[t]] # ProcessOf[t]]_fetchVars
    BY <2>1, FetchesOnce DEF PipelineInv
  <2>2. QED
    BY <2>1, PipelineInvariant, PTL DEF PipelineSpec, FetchedOncePerProcess
<1>4. PipelineSpec => CheckShowsItsOwnTape
  <2>1. ASSUME PipelineInv, [PipelineNext]_pipelineVars
        PROVE  [\A c \in Checker : checker[c] = "transcribed" /\ checker'[c] = "ok"
                  => Shown(c) = c \/ c \in crossed]_checkVars
    BY <2>1, ShowsItsOwn DEF PipelineInv
  <2>2. QED
    BY <2>1, PipelineInvariant, PTL DEF PipelineSpec, CheckShowsItsOwnTape
<1>5. QED
  BY <1>1, <1>2, <1>3, <1>4 DEF PipelineSteps
=============================================================================
