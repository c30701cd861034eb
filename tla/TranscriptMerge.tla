---------------------------- MODULE TranscriptMerge ----------------------------
(***************************************************************************)
(* From decoded chunks to one timeline: the chunk plan of a source, the    *)
(* merge of its overlapping chunks (pipeline/transcription.py), the offset *)
(* that places it (engine/align.py), and the record's cues                 *)
(* (engine/merge.py, engine/text.py).                                      *)
(*                                                                         *)
(* Time is counted in ticks, the rounding of seconds is left out.  What a  *)
(* decoder hears is any sequence of disjoint segments within its window,   *)
(* one confidence per source; what a correlation answers is any lag, or    *)
(* nothing.  A segment's speaker is its source's (SpeakerNames has the     *)
(* rest), and a text is a word or the Noise every cleaning drops.          *)
(***************************************************************************)
EXTENDS Integers, Sequences, FiniteSets, SequencesExt, FiniteSetsExt

CONSTANTS
    Recordings,     \* 1 .. the number of sources, in the manifest's order
    LengthOf,       \* LengthOf[s]: the length of a recording
    ChunkTicks, OverlapTicks,       \* the plan's window and overlap
    JoinGap, MaxCue,                \* _JOIN_GAP_S, _MAX_CUE_S
    MaxLag, AlignWindow,            \* _MAX_LAG_S, _WINDOW_S
    VoteTolerance, MinVotes, Strong,    \* _VOTE_TOLERANCE_S, _MIN_VOTES, _STRONG_COEFFICIENT
    Peaks, MaxVotes,                \* what a window's peak may be, how many windows vote
    Words, Noise,
    Confidences,    \* the confidences the sources may have, a function of the source
    Lags,           \* what a correlation may answer
    Gaps            \* how far apart two declared starts may be

ASSUME MergeBounds ==
    /\ ChunkTicks \in Nat \ {0} /\ OverlapTicks \in 0 .. ChunkTicks - 1
    /\ IsFiniteSet(Recordings) /\ Recordings = 1 .. Cardinality(Recordings)
    /\ LengthOf \in [Recordings -> Nat]
    /\ Confidences \subseteq [Recordings -> Int]
    /\ Lags \subseteq Int /\ Gaps \subseteq Int /\ Peaks \subseteq Int
    /\ VoteTolerance \in Nat /\ MaxVotes \in Nat

Abs(n) == IF n < 0 THEN - n ELSE n

VARIABLES
    chunkResults,   \* chunkResults[s]: what each decoded chunk of s heard, in plan order
    confidenceOf,   \* the confidence of a source's segments
    transcript,     \* transcript[s]: the merged segments of s, in its own time
    offset,         \* offset[s]: {its place on the reference's clock}, or {}
    timeline,       \* the record's segments
    mergeAt         \* "decode", "align", "reconcile", "done"

mergeVars == <<chunkResults, confidenceOf, transcript, offset, timeline, mergeAt>>

MergeInit ==
    /\ chunkResults = [s \in Recordings |-> <<>>]
    /\ confidenceOf \in Confidences
    /\ transcript = [s \in Recordings |-> <<>>]
    /\ offset = [s \in Recordings |-> {}]
    /\ timeline = <<>>
    /\ mergeAt = "decode"

-----------------------------------------------------------------------------
(* The plan of chunks (plan_chunks). *)

\* Windows of ChunkTicks, each starting OverlapTicks before the last one ended,
\* up to the one that reaches the end.
ChunkPlan(duration) ==
    LET step   == ChunkTicks - OverlapTicks
        count  == IF duration <= ChunkTicks THEN 1
                  ELSE 1 + (duration - ChunkTicks + step - 1) \div step
    IN  IF duration <= 0 THEN <<>>
        ELSE [k \in 1 .. count |->
                <<(k - 1) * step, Min({duration, (k - 1) * step + ChunkTicks})>>]

-----------------------------------------------------------------------------
(* What a decoder may hear in a window: at most two segments, one after the    *)
(* other.                                                                      *)

Spans(w) == {t \in (w[1] .. w[2]) \X (w[1] .. w[2]) : t[1] < t[2]}

Segments(s, w) == {[from |-> t[1], to |-> t[2], text |-> x, source |-> s] :
                     t \in Spans(w), x \in Words \union {Noise}}

Hearable(s, w) ==
    {<<>>} \union {<<g>> : g \in Segments(s, w)}
           \union {p \in Segments(s, w) \X Segments(s, w) : p[1].to <= p[2].from}

DecodeChunk(s) ==
    LET k == Len(chunkResults[s]) + 1
    IN  /\ mergeAt = "decode"
        /\ \A r \in Recordings : r < s => Len(chunkResults[r]) = Len(ChunkPlan(LengthOf[r]))
        /\ k <= Len(ChunkPlan(LengthOf[s]))
        /\ \E heardThere \in Hearable(s, ChunkPlan(LengthOf[s])[k]) :
             chunkResults' = [chunkResults EXCEPT ![s] = Append(@, heardThere)]
        /\ UNCHANGED <<confidenceOf, transcript, offset, timeline, mergeAt>>

-----------------------------------------------------------------------------
(* Cleaning (clean_segments): noise goes, and of consecutive segments of one   *)
(* source with one text the first stays.                                       *)

Says(out, g) ==
    IF \/ g.text = Noise
       \/ out # <<>> /\ Last(out).text = g.text /\ Last(out).source = g.source
    THEN out ELSE Append(out, g)

Clean(segs) == FoldLeft(Says, <<>>, segs)

\* merge_chunk_segments: what ends behind the furthest end so far is dropped,
\* what straddles it is clipped.
Emit_Straddlers(acc, g) ==
    IF g.from < acc.frontier THEN acc
    ELSE [out |-> Append(acc.out, g), frontier |-> g.to]
Emit(acc, g) ==
    IF g.to <= acc.frontier THEN acc
    ELSE [out |-> Append(acc.out, [g EXCEPT !.from = Max({@, acc.frontier})]),
          frontier |-> g.to]

MergeChunks(chunks) ==
    Clean(FoldLeft(Emit, [out |-> <<>>, frontier |-> -1], FlattenSeq(chunks)).out)

FinishTranscribe ==
    /\ mergeAt = "decode"
    /\ \A s \in Recordings : Len(chunkResults[s]) = Len(ChunkPlan(LengthOf[s]))
    /\ transcript' = [s \in Recordings |-> MergeChunks(chunkResults[s])]
    /\ mergeAt' = "align"
    /\ UNCHANGED <<chunkResults, confidenceOf, offset, timeline>>

-----------------------------------------------------------------------------
(* Placing (align_sources, with the first source as the reference).  Each      *)
(* window of the reference that stands out in the source votes for a lag,      *)
(* with its peak; the windows are given as the votes they came to.             *)

Votes == UNION {[1 .. n -> Lags \X Peaks] : n \in 0 .. MaxVotes}

Agreeing(votes, i) == {j \in DOMAIN votes : Abs(votes[j][1] - votes[i][1]) <= VoteTolerance}

Peak(votes, js) == Max({votes[j][2] : j \in js})

\* The windows of the largest agreement, of the higher peak among equals.
Best(votes) ==
    LET cluster == {Agreeing(votes, i) : i \in DOMAIN votes}
    IN  CHOOSE c \in cluster : \A d \in cluster :
          \/ Cardinality(c) > Cardinality(d)
          \/ Cardinality(c) = Cardinality(d) /\ Peak(votes, c) >= Peak(votes, d)

\* estimate_offset: the lag of the best window of the best agreement, or {}
\* where nothing voted or one weak window stands alone.
Estimate(votes) ==
    IF votes = <<>> THEN {}
    ELSE LET best == Best(votes)
         IN  IF Cardinality(best) < MinVotes /\ Peak(votes, best) < Strong THEN {}
             ELSE {votes[CHOOSE j \in best : votes[j][2] = Peak(votes, best)][1]}

\* Declared starts so far apart that the earlier recording is over, but for one
\* window of correlation, before the later begins.
CannotOverlap(s, gap) ==
    Abs(gap) >= LengthOf[IF gap >= 0 THEN 1 ELSE s] - AlignWindow

\* The declaration where correlation cannot answer, the audio's verdict where
\* it has one, else the declaration, else nowhere.
Placed(s, gap, verdict) ==
    IF \E d \in gap : Abs(d) > MaxLag \/ CannotOverlap(s, d) THEN gap
    ELSE IF verdict # {} THEN verdict
    ELSE gap

AlignSources ==
    /\ mergeAt = "align"
    /\ \E gap \in [Recordings \ {1} -> {{}} \union {{d} : d \in Gaps}],
          votes \in [Recordings \ {1} -> Votes] :
         offset' = [s \in Recordings |->
                      IF s = 1 THEN {0} ELSE Placed(s, gap[s], Estimate(votes[s]))]
    /\ mergeAt' = "reconcile"
    /\ UNCHANGED <<chunkResults, confidenceOf, transcript, timeline>>

-----------------------------------------------------------------------------
(* The record (merge.reconcile). *)

Shifted(s) ==
    IF offset[s] = {} THEN <<>>
    ELSE LET by == CHOOSE o \in offset[s] : TRUE
         IN  [i \in DOMAIN transcript[s] |->
                [transcript[s][i] EXCEPT !.from = @ + by, !.to = @ + by]]

Earlier(g, h) == g.from < h.from \/ (g.from = h.from /\ g.to < h.to)

\* Python's sort is stable: equal keys keep their order.  The k-th has k - 1
\* others before it.
SortedBy(segs, Less(_, _)) ==
    LET before(i) == {j \in DOMAIN segs : \/ Less(segs[j], segs[i])
                                          \/ j < i /\ ~ Less(segs[i], segs[j])}
    IN  [k \in DOMAIN segs |->
           segs[CHOOSE i \in DOMAIN segs : Cardinality(before(i)) = k - 1]]

Sorted(segs) == SortedBy(segs, Earlier)

\* _join_continuous: a pause of at most JoinGap between two cues of one source
\* is bridged, unless the cue grows over MaxCue.
Joins(g, h) ==
    /\ g.source = h.source
    /\ h.from > g.to /\ h.from - g.to <= JoinGap
    /\ h.to - g.from <= MaxCue

Bridges(out, g) ==
    IF out # <<>> /\ Joins(Last(out), g)
    THEN Append(Front(out), [Last(out) EXCEPT !.to = g.to, !.text = @ \union g.text])
    ELSE Append(out, g)

Joined(segs) == FoldLeft(Bridges, <<>>, [i \in DOMAIN segs |-> [segs[i] EXCEPT !.text = {@}]])

Overlap(g, h) == g.from < h.to /\ h.from < g.to

\* Confidence first, then the order of the sources.
Better(g, h) ==
    \/ confidenceOf[g.source] > confidenceOf[h.source]
    \/ confidenceOf[g.source] = confidenceOf[h.source] /\ g.source < h.source

\* _resolve_overlaps: the best first, each kept unless it overlaps one kept.
Keeps_Last(kept, g) == kept = <<>> \/ ~ Overlap(g, Last(kept))
Keeps(kept, g) == \A h \in ToSet(kept) : ~ Overlap(g, h)

Admits(kept, g) == IF Keeps(kept, g) THEN Append(kept, g) ELSE kept

ByMerit(segs) == SortedBy(segs, Better)

Resolved(segs) == Sorted(FoldLeft(Admits, <<>>, ByMerit(segs)))

Cues == Joined(Sorted(Clean(FlattenSeq([s \in Recordings |-> Shifted(s)]))))

\* unplaced_sources: what is left out for want of a place.
Unplaced == {s \in Recordings : offset[s] = {} /\ transcript[s] # <<>>}

Reconciles ==
    /\ mergeAt = "reconcile"
    /\ timeline' = Resolved(Cues)
    /\ mergeAt' = "done"
    /\ UNCHANGED <<chunkResults, confidenceOf, transcript, offset>>

MergeNext ==
    \/ \E s \in Recordings : DecodeChunk(s)
    \/ FinishTranscribe \/ AlignSources \/ Reconciles

MergeSpec == MergeInit /\ [][MergeNext]_mergeVars

-----------------------------------------------------------------------------
(* Properties. *)

MergeTypeOK ==
    /\ mergeAt \in {"decode", "align", "reconcile", "done"}
    /\ \A s \in Recordings :
         /\ Len(chunkResults[s]) <= Len(ChunkPlan(LengthOf[s]))
         /\ Cardinality(offset[s]) <= 1

\* What a chunk heard after the earlier chunk's window was over is said in the
\* transcript at that instant, unless the cleaning took it for a repetition of
\* what is said there already: overlapping windows neither lose a segment that
\* straddles them nor leave it to the chunk that heard half of it
\* (merge_chunk_segments).
OwnedSpeechIsKept ==
    mergeAt # "decode" =>
      \A s \in Recordings :
        LET plan == ChunkPlan(LengthOf[s])
        IN  \A k \in DOMAIN plan : \A g \in ToSet(chunkResults[s][k]) :
              \A t \in g.from .. g.to - 1 :
                (g.text # Noise /\ (k > 1 => t >= plan[k - 1][2])) =>
                  \E h \in ToSet(transcript[s]) :
                    /\ h.text = g.text /\ h.from <= t
                    /\ ~ \E l \in ToSet(transcript[s]) : h.from < l.from /\ l.from <= t

\* The transcript of one source is one line of time: no instant is said twice.
SaidOnce(segs) ==
    \A i \in 1 .. Len(segs) - 1 : segs[i].to <= segs[i + 1].from

\* The record speaks with one voice at a time, in order, and a placed cue is
\* left out of it only for a kept one over it that is at least as good; a source
\* that said something is in the record's reach or reported as unplaced.
TimelineIsFair ==
    /\ mergeAt # "decode" => \A s \in Recordings : SaidOnce(transcript[s])
    /\ mergeAt = "done" =>
         /\ SaidOnce(timeline)
         /\ \A g \in ToSet(Cues) \ ToSet(timeline) :
              \E h \in ToSet(timeline) : Overlap(g, h) /\ ~ Better(g, h)
         /\ \A s \in Recordings \ Unplaced :
              transcript[s] # <<>> => \E g \in ToSet(Cues) : g.source = s
=============================================================================
