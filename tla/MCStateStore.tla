---------------------------- MODULE MCStateStore ----------------------------
(* Instances of StateStore for TLC. *)
EXTENDS StateStore, TLC

\* Workers are alike.
WorkerSymmetry == Permutations(Worker)

\* Three commands of a Project: it is created first, each is accepted once.
Commands == {"create", "start", "finish"}
MCNodeOf == [c \in Command |-> CASE c = "create" -> "root"
                                 [] c = "finish" -> "child"
                                 [] OTHER -> None]

Past(view) == {view[i] : i \in DOMAIN view}

MCAccepts(view, c) ==
    CASE c = "create" -> Past(view) = {}
      [] c = "start"  -> "create" \in Past(view) /\ "start" \notin Past(view)
      [] c = "finish" -> "start" \in Past(view) /\ "finish" \notin Past(view)
=============================================================================
