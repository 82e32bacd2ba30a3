-------------------------- MODULE SequenceMatcher --------------------------
(***************************************************************************)
(* MATCH over the events of one entity, which arrive in sub-batches.       *)
(*                                                                         *)
(* Patterns with a repetition or an alternation run on the automaton: each *)
(* state keeps every candidate that reached it.  All others run on the     *)
(* step counter: one candidate for each binding track, and a backlog of    *)
(* events from which it may start again.                                   *)
(***************************************************************************)
EXTENDS PatternCompiler

CONSTANTS
    Null,     \* no window; the value of a column that has none
    Jobs      \* [pattern, matchAll, emitAll, window, perSession, from, to, events]

VARIABLES
    job,    \* the compiled stage and the entity's events [type, ts, key, session]
    state,  \* the entity's state
    out     \* the rows of the entity: <<completions, partials>>, once it is finished

vars == <<job, state, out>>

nfa == job.nfa

EmptyDeques == [i \in 0..nfa.accept |-> <<>>]

\* A track of the automaton, or of the step counter.
NfaTrack(key) == [key |-> key, deques |-> EmptyDeques, scanFrom |-> Null]
CounterTrack(key, ts) ==
    [key |-> key, step |-> 1, anchor |-> ts, last |-> ts, scanFrom |-> Null,
     done |-> FALSE, gone |-> FALSE]

Init ==
    \E j \in Jobs :
        LET strategy == SelectStrategy(j.pattern)
            compiled == Compile(j.pattern)
        IN  /\ job = j @@ [nfa |-> compiled, strategy |-> strategy]
            /\ state = [next        |-> 1,
                        tracks      |-> IF strategy = "Nfa" /\ ~compiled.bindings
                                        THEN <<NfaTrack(Null)>> ELSE <<>>,
                        step0       |-> <<>>,
                        completions |-> <<>>,
                        partials    |-> {},
                        session     |-> Null]
            /\ out = Null

-----------------------------------------------------------------------------
(* Shared by both strategies *)

Expired(anchor, ts) == job.window # Null /\ ts - anchor > job.window

CanStartEntry(ts) == job.from <= ts /\ ts < job.to

\* A variable is bound by the first step and compared by the others; a null
\* matches neither way.
KeyMatches(t, e, key) == t.bound /\ t.target > 1 => e.key # Null /\ e.key = key

EntryKey(t, e) == IF t.bound THEN e.key ELSE Null

\* Partials are compared by anchor and step in the end, so a set will do.
WithPartials(s, rows) == IF job.emitAll THEN [s EXCEPT !.partials = @ \cup rows] ELSE s

Partial(key, anchor, step) == [key |-> key, anchor |-> anchor, step |-> step]

WithCompletion(s, key, anchor, ts) ==
    [s EXCEPT !.completions = Append(@, [key |-> key, anchor |-> anchor, final |-> ts])]

\* Mutant: the event that completed a match may start the next one.
AfterScanFromIncluded(scanFrom, ts) == scanFrom = Null \/ ts >= scanFrom

\* A match with MATCH ALL starts after the one before it ended.
AfterScanFrom(scanFrom, ts) == scanFrom = Null \/ ts > scanFrom

-----------------------------------------------------------------------------
(* The automaton *)

\* A candidate is found again by its anchor, from the back; the later step wins.
InsertDedup(deque, c) ==
    LET notAfter == {i \in DOMAIN deque : deque[i].anchor <= c.anchor}
    IN  IF notAfter # {} /\ deque[Max(notAfter)].anchor = c.anchor
        THEN [deque EXCEPT ![Max(notAfter)].last = Max({@, c.last})]
        ELSE Append(deque, c)

\* The deque from its first candidate inside the window on.
Unexpired(deque, ts) ==
    LET live == {i \in DOMAIN deque : ~Expired(deque[i].anchor, ts)}
    IN  IF live = {} THEN <<>> ELSE SubSeq(deque, Min(live), Len(deque))

Survivors(i, deque, e) ==
    IF i = nfa.accept THEN deque
    ELSE IF e.type \in nfa.poison[i] THEN <<>>
    ELSE Unexpired(deque, e.ts)

Propagations(i, deque, e, key) ==
    FlattenSeq([n \in DOMAIN nfa.trans[i] |->
        LET t == nfa.trans[i][n]
        IN  IF e.type \in t.types /\ KeyMatches(t, e, key)
            THEN [c \in DOMAIN deque |->
                    [target |-> t.target, anchor |-> deque[c].anchor, last |-> deque[c].last]]
            ELSE <<>>])

\* Phase 1: expire, kill and propagate, from the last state to the first.
Advance(s, n, e) ==
    LET track == s.tracks[n]
        live  == [i \in DOMAIN track.deques |-> Survivors(i, track.deques[i], e)]
        moves == SelectSeq(
                    FlattenSeq([k \in 1..nfa.accept |->
                        Propagations(nfa.accept - k, live[nfa.accept - k], e, track.key)]),
                    LAMBDA p : e.ts > p.last /\ ~Expired(p.anchor, e.ts))
        lost  == UNION {{Partial(track.key, c.anchor, nfa.step[i]) :
                            c \in Range(track.deques[i]) \ Range(live[i])} : i \in DOMAIN live}
        Move(deques, p) ==
            [deques EXCEPT ![p.target] =
                InsertDedup(@, [anchor |-> p.anchor, last |-> e.ts])]
    IN  WithPartials([s EXCEPT !.tracks[n].deques = FoldLeft(Move, live, moves)], lost)

\* Phase 2: the first transitions t that the event takes open candidates.
Open(s, n, e, ts) ==
    IF AfterScanFrom(s.tracks[n].scanFrom, e.ts)
    THEN [s EXCEPT !.tracks[n].deques = FoldLeft(
            LAMBDA deques, t : [deques EXCEPT ![t.target] =
                InsertDedup(@, [anchor |-> e.ts, last |-> e.ts])], @, ts)]
    ELSE s

\* Phase 3: the earliest anchor in the accept state completes; what is left of
\* the track is dropped (no anchor is later than the event at hand).
Accept(s, n) ==
    LET track == s.tracks[n]
        won   == track.deques[nfa.accept][1]
        reset == [track EXCEPT !.deques = EmptyDeques,
                               !.scanFrom = IF job.matchAll THEN won.last ELSE @]
    IN  IF track.deques[nfa.accept] = <<>> THEN s
        ELSE WithCompletion([s EXCEPT !.tracks[n] = reset], track.key, won.anchor, won.last)

Completed(s, key) == \E c \in Range(s.completions) : c.key = key

TrackOf(s, key) == SelectInSeq(s.tracks, LAMBDA t : t.key = key)

Entries(e) == SelectSeq(nfa.trans[0], LAMBDA t : e.type \in t.types /\ CanStartEntry(e.ts))

NfaEvent(s, e) == Accept(Open(Advance(s, 1, e), 1, e, Entries(e)), 1)

\* With a variable, tracks take their completions before new candidates open.
NfaEventWithBindings(s, e) ==
    LET Existing(r, n) == IF ~job.matchAll /\ Completed(r, r.tracks[n].key) THEN r
                          ELSE Accept(Advance(r, n, e), n)
        advanced == FoldLeft(Existing, s, [n \in DOMAIN s.tracks |-> n])
        Enter(r, t) ==
            IF t.bound /\ e.key = Null THEN r
            ELSE LET key == EntryKey(t, e)
                     q   == IF TrackOf(r, key) # 0 THEN r
                            ELSE [r EXCEPT !.tracks = Append(@, NfaTrack(key))]
                 IN  Open(q, TrackOf(q, key), e, <<t>>)
    IN  FoldLeft(Enter, advanced, Entries(e))

\* Every candidate that is left, at the end of the entity or of a session.
NfaDrained(s) ==
    LET Left(n) == UNION {{Partial(s.tracks[n].key, c.anchor, nfa.step[i]) :
                                c \in Range(s.tracks[n].deques[i])} : i \in 0..nfa.accept}
    IN  WithPartials([s EXCEPT !.tracks = [n \in DOMAIN @ |-> [@[n] EXCEPT !.deques = EmptyDeques]]],
                     UNION {Left(n) : n \in DOMAIN s.tracks})

-----------------------------------------------------------------------------
(* The step counter *)

Active(track) == track.step > 0 /\ ~track.done

\* The backlog without the expired events at its front.
FreshBacklog(step0, ts) == Unexpired(step0, ts)

\* Events of the backlog on which a track of an expired anchor may go on.
RebindAnchors(track, step0, ts) ==
    {i \in DOMAIN step0 :
        /\ ~Expired(step0[i].anchor, ts)
        /\ step0[i].anchor <= track.last
        /\ AfterScanFrom(track.scanFrom, step0[i].anchor)
        /\ step0[i].key = track.key}

\* on_match_complete.  The backlog of the track is used up: no event in it is
\* later than the one at hand, so there is none to start again from.
Complete(s, n, ts) ==
    LET track == s.tracks[n]
        won   == WithCompletion(s, track.key, track.anchor, ts)
    IN  IF job.matchAll
        THEN [won EXCEPT !.tracks[n] = [track EXCEPT !.step = 0, !.scanFrom = ts],
                         !.step0 = SelectSeq(@, LAMBDA b : b.anchor > ts \/ b.key # track.key)]
        ELSE [won EXCEPT !.tracks[n].done = TRUE]

\* A track that expires or is poisoned is marked here and removed later.
DropTrack(s, n) ==
    LET track == s.tracks[n]
    IN  WithPartials([s EXCEPT !.tracks[n].gone = TRUE],
                     {Partial(track.key, track.anchor, track.step)})

Forward(s, n, e) ==
    LET track == s.tracks[n]
        t     == Head(nfa.trans[track.step])
        moved == [s EXCEPT !.tracks[n].step = t.target, !.tracks[n].last = e.ts]
    IN  IF ~(e.type \in t.types /\ e.ts > track.last /\ KeyMatches(t, e, track.key)) THEN s
        ELSE IF t.target = nfa.accept THEN Complete(moved, n, e.ts)
        ELSE moved

AdvanceTrack(s, n, e) ==
    LET track   == s.tracks[n]
        late    == Expired(track.anchor, e.ts)
        fresh   == IF late THEN [s EXCEPT !.step0 = FreshBacklog(@, e.ts)] ELSE s
        anchors == RebindAnchors(track, fresh.step0, e.ts)
        bound   == IF late THEN [fresh EXCEPT !.tracks[n].anchor = fresh.step0[Min(anchors)].anchor]
                   ELSE fresh
    IN  IF ~Active(track) THEN s
        ELSE IF late /\ anchors = {} THEN DropTrack(fresh, n)
        ELSE IF e.type \in nfa.poison[track.step] THEN DropTrack(bound, n)
        ELSE Forward(bound, n, e)

\* check_step0.
EnterCounter(s, e) ==
    LET t   == Head(nfa.trans[0])
        key == EntryKey(t, e)
        n   == TrackOf(s, key)
        new == [s EXCEPT !.step0 = Append(@, [anchor |-> e.ts, key |-> key])]
        started ==
            IF n = 0 THEN [new EXCEPT !.tracks = Append(@, CounterTrack(key, e.ts))]
            ELSE IF s.tracks[n].step = 0
                 THEN [new EXCEPT !.tracks[n] = [CounterTrack(key, e.ts) EXCEPT !.scanFrom = s.tracks[n].scanFrom]]
                 ELSE new
        fresh == n = 0 \/ s.tracks[n].step = 0
    IN  IF \/ e.type \notin t.types
           \/ ~CanStartEntry(e.ts)
           \/ t.bound /\ e.key = Null
           \/ n # 0 /\ (s.tracks[n].done \/ ~AfterScanFrom(s.tracks[n].scanFrom, e.ts))
        THEN s
        ELSE IF fresh /\ nfa.accept = 1 THEN Complete(started, TrackOf(started, key), e.ts)
        ELSE started

CounterEvent(s, e) ==
    LET advanced == FoldLeft(LAMBDA r, n : AdvanceTrack(r, n, e), s, [n \in DOMAIN s.tracks |-> n])
    IN  EnterCounter([advanced EXCEPT !.tracks = SelectSeq(@, LAMBDA t : ~t.gone)], e)

CounterDrained(s) ==
    WithPartials([s EXCEPT !.tracks = <<>>, !.step0 = <<>>],
                 {Partial(t.key, t.anchor, t.step) : t \in {t \in Range(s.tracks) : Active(t)}})

\* finish_entity: with MATCH ALL, the backlog has entered the pattern too.
CounterFinished(s) ==
    LET Emitted(p) == \E r \in Range(s.completions) \cup s.partials : r.key = p.key /\ r.anchor = p.anchor
        live == {Partial(t.key, t.anchor, t.step) : t \in {t \in Range(s.tracks) : Active(t)}}
        idle == {Partial(b.key, b.anchor, 1) :
                    b \in {b \in Range(s.step0) : \A p \in live : p.key # b.key \/ p.anchor # b.anchor}}
    IN  WithPartials(s, {p \in live \cup (IF job.matchAll THEN idle ELSE {}) : ~Emitted(p)})

-----------------------------------------------------------------------------
(* SequenceMatchOperator *)

UsesNfa == job.strategy = "Nfa"

EndSession(s) == IF UsesNfa THEN NfaDrained(s) ELSE CounterDrained(s)

\* MATCH FIRST without variables is done with its first completion.
Stopped(s) == ~job.matchAll /\ ~nfa.bindings /\ s.completions # <<>>

Event(s, e) ==
    LET crossed == job.perSession /\ s.session # Null /\ s.session # e.session
        r == [(IF crossed THEN EndSession(s) ELSE s) EXCEPT !.session = e.session]
    IN  IF Stopped(s) THEN s
        ELSE IF e.type \notin nfa.relevant THEN r
        ELSE IF ~UsesNfa THEN CounterEvent(r, e)
        ELSE IF nfa.bindings THEN NfaEventWithBindings(r, e)
        ELSE NfaEvent(r, e)

\* process_sub_batch: the next n events of the entity.
ProcessSubBatch(n) ==
    /\ out = Null
    /\ state.next + n <= Len(job.events) + 1
    /\ state' = [FoldLeft(Event, state, SubSeq(job.events, state.next, state.next + n - 1))
                 EXCEPT !.next = state.next + n]
    /\ UNCHANGED <<job, out>>

\* Mutant: MATCH FIRST keeps a partial for every entry, as MATCH ALL does.
NormalizedUnmatched(completions, partials) ==
    LET SameRow(p, q) == p.key = q.key /\ p.anchor = q.anchor
        Better(p, q)  == p.step > q.step
    IN  {p \in partials :
            /\ \A c \in Range(completions) : ~SameRow(p, c)
            /\ \A q \in partials : SameRow(p, q) => ~Better(q, p)}

\* Each entry, or with MATCH FIRST each track, keeps its farthest partial,
\* and none if it completed.
Normalized(completions, partials) ==
    LET SameRow(p, q) == p.key = q.key /\ (job.matchAll => p.anchor = q.anchor)
        Better(p, q)  == p.step > q.step \/ (p.step = q.step /\ p.anchor < q.anchor)
    IN  {p \in partials :
            /\ \A c \in Range(completions) : ~SameRow(p, c)
            /\ \A q \in partials : SameRow(p, q) => ~Better(q, p)}

FinishEntity ==
    /\ out = Null
    /\ state.next > Len(job.events)
    /\ LET s == IF UsesNfa THEN NfaDrained(state) ELSE CounterFinished(state)
       IN  out' = <<s.completions, IF job.emitAll THEN Normalized(s.completions, s.partials) ELSE {}>>
    /\ UNCHANGED <<job, state>>

Next == (\E n \in 1..Len(job.events) : ProcessSubBatch(n)) \/ FinishEntity

Spec == Init /\ [][Next]_vars

-----------------------------------------------------------------------------
(* What a match is, without automata, candidates or tracks *)

E == job.events
P == job.pattern

\* The step i may come next after the step h (0: none).
Follows(h, i) ==
    \/ h = i /\ Repeats(P[i])
    \/ h < i /\ \A m \in h + 1..i - 1 : P[m].repeat = "star"

\* The event k may be taken by the step i of a match of this key.
Takes(i, k, key) == E[k].type \in P[i].types /\ (P[i].bound => E[k].key = key)

InRange(k) == E[k].ts \in job.from..job.to - 1

Entry(k, key) == InRange(k) /\ \E i \in DOMAIN P : Follows(0, i) /\ Takes(i, k, key)

EntryKeys == {EntryKey(P[1], E[k]) : k \in {k \in DOMAIN E :
                    (P[1].bound => E[k].key # Null) /\ Entry(k, EntryKey(P[1], E[k]))}}

\* The event k may follow the event j, taken by the step h, in a match.
Joins(j, h, k) ==
    /\ E[j].ts < E[k].ts
    /\ job.perSession => E[j].session = E[k].session
    /\ \A m \in j + 1..k - 1 : E[m].type \notin P[h].without

\* Pairs of a step that the event k may be taken by and a start of the match.
Chains(key) ==
    LET ends[k \in 1..Len(E)] ==
            {<<i, E[k].ts>> : i \in {i \in DOMAIN P :
                Follows(0, i) /\ Takes(i, k, key) /\ InRange(k)}}
            \cup {p \in (DOMAIN P) \X {E[j].ts : j \in 1..k - 1} :
                    /\ Takes(p[1], k, key)
                    /\ job.window = Null \/ E[k].ts - p[2] <= job.window
                    /\ \E j \in 1..k - 1 : \E h \in 1..p[1] :
                        <<h, p[2]>> \in ends[j] /\ Follows(h, p[1]) /\ Joins(j, h, k)}
    IN  ends

\* Steps of a match up to the step i that cannot be left out.
Progress(i) == 1 + Cardinality({m \in 1..i - 1 : P[m].repeat # "star"})

\* A match ends as early as it can and starts as early as it can; the next one
\* starts after it.
Matches(key) ==
    LET ends == Chains(key)
        Starts(found, k) ==
            {a \in {x[2] : x \in {x \in ends[k] : x[1] = Len(P)}} :
                found = <<>> \/ (job.matchAll /\ a > Last(found).final)}
        Take(found, k) ==
            IF Starts(found, k) = {} THEN found
            ELSE Append(found, [key |-> key, anchor |-> Min(Starts(found, k)), final |-> E[k].ts])
    IN  FoldLeft(Take, <<>>, [k \in DOMAIN E |-> k])

\* The automaton takes events of one time apart, and the step counter starts
\* again only where its one candidate cannot fail.
AtMostOneEntry(key) == \A k, m \in DOMAIN E : Entry(k, key) /\ Entry(m, key) => k = m
CannotFail == job.window = Null /\ \A step \in Range(P) : step.without = {}
DistinctTimes == \A k \in 1..Len(E) - 1 : E[k].ts < E[k + 1].ts
Covered ==
    /\ UsesNfa => DistinctTimes
    /\ ~UsesNfa => /\ CannotFail \/ \A key \in EntryKeys : AtMostOneEntry(key)
                   /\ job.matchAll \/ ~nfa.bindings \/ ~job.perSession

Finished == out # Null

\* A finished entity has exactly the matches that the pattern, read as a
\* relation on events, has.  Sub-batches, candidates, expiry, poisoning,
\* deduplication, backlogs and the order of the tracks do not show.
MatchesExact ==
    Finished /\ Covered =>
        /\ \A key \in EntryKeys : SelectSeq(out[1], LAMBDA c : c.key = key) = Matches(key)
        /\ \A c \in Range(out[1]) : c.key \in EntryKeys

\* EMIT ALL accounts for every entry once: with MATCH FIRST a key that entered
\* has its match or the farthest step it came to, never both and never two;
\* with MATCH ALL no start has two rows.
EntriesAccountedOnce ==
    Finished /\ job.emitAll /\ Covered =>
        LET rows == Range(out[1]) \cup out[2]
        IN  IF job.matchAll
            THEN /\ Len(out[1]) + Cardinality(out[2]) = Cardinality({<<r.key, r.anchor>> : r \in rows})
                 /\ \A r \in rows : \E k \in DOMAIN E : E[k].ts = r.anchor /\ Entry(k, r.key)
            ELSE \A key \in EntryKeys :
                    LET mine == {p \in out[2] : p.key = key}
                        far  == UNION {Chains(key)[k] : k \in DOMAIN E}
                        top  == Max({Progress(x[1]) : x \in far})
                    IN  IF Matches(key) # <<>> THEN mine = {}
                        ELSE mine = {Partial(key, Min({x[2] : x \in {x \in far : Progress(x[1]) = top}}), top)}
=============================================================================
