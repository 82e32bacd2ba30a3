----------------------------- MODULE EventTable -----------------------------
(***************************************************************************)
(* What one event table promises its clients, with no segment, file or     *)
(* tombstone in sight: rows appear when an ingest bucket commits, and a row *)
(* disappears only because a running DELETE named it or the table was      *)
(* dropped.  In particular nothing a compaction, a failed statement, a     *)
(* crash or a restart does can be seen, and a row that is gone stays gone. *)
(*                                                                         *)
(* TableStore is shown to implement this module.                           *)
(***************************************************************************)
CONSTANTS
    Keys,          \* identities of the rows clients may ever insert
    StickyDeletes  \* TRUE: a standing entity or time-range delete may swallow
                   \* rows that are inserted after it

VARIABLES
    known,   \* rows that were committed at some time
    live,    \* rows a query returns now
    doomed   \* rows the running DELETE has set out to remove

tableVars == <<known, live, doomed>>

Init ==
    /\ known = {}
    /\ live = {}
    /\ doomed = {}

\* One (window, shard) bucket of an INSERT commits: all its rows at once.
Insert ==
    \E K \in SUBSET (Keys \ known) :
        /\ K # {}
        /\ known' = known \cup K
        /\ \/ live' = live \cup K
           \/ StickyDeletes /\ \E V \in SUBSET K : live' = live \cup V
        /\ UNCHANGED doomed

BeginDelete ==
    /\ doomed = {}
    /\ doomed' \in SUBSET live
    /\ UNCHANGED <<known, live>>

\* One shard of the running DELETE takes effect.
Hide ==
    /\ \E K \in SUBSET doomed : live' = live \ K
    /\ UNCHANGED <<known, doomed>>

\* The DELETE returns, fails or dies with the process.
EndDelete ==
    /\ doomed' = {}
    /\ UNCHANGED <<known, live>>

Drop ==
    /\ live' = {}
    /\ doomed' = {}
    /\ UNCHANGED known

Next == Insert \/ BeginDelete \/ Hide \/ EndDelete \/ Drop

Spec == Init /\ [][Next]_tableVars
=============================================================================
