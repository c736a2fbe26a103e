----------------------------- MODULE ReadModels -----------------------------
(***************************************************************************)
(* The materialized read models of one repository together: what the       *)
(* application service writes beside every batch of events, and shows from *)
(* it alone (materializeShardedProjectReadModels).                         *)
(***************************************************************************)
EXTENDS WebViews

\* Every state that the commands of a Project can lead to is one that can be
\* read again: no reader's check refuses what was written, of the log, of the
\* graph and of the activity of each Node (its lists as far as the writer and the
\* reader sort them alike), and what the indexes say is confirmed by the log.
\* The readers fail closed, so a state for which this fails stays unreadable.
EveryStateIsReadable ==
    /\ LogIsReadable /\ GraphIsReadable
    /\ ActivityIsReadable /\ ActivityIsAuthoritative

\* Whatever the sizes of windows, pages and shards, the windows of the graph and
\* of every activity list, and the pages of a filtered event list, show all
\* there is.
WindowsShowAll ==
    EventWalkFindsAll /\ GraphWalkShowsAll /\ ActivityWalkShowsAll
=============================================================================
