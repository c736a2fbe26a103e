--------------------------- MODULE StateFileCache ---------------------------
(***************************************************************************)
(* The cache of state files of HunsuApplicationService: the contents of    *)
(* exact paths at exact heads.  A read fetches what is missing, joining a  *)
(* fetch of the same files, and then takes all of its files from the map.  *)
(* Contents never change at a head, so that the map needs no generation;   *)
(* but every invalidation, of whichever repository, empties it.            *)
(*                                                                         *)
(* When a fetch is answered, the requests that wait for it run before the  *)
(* event loop turns to anything else: the answer and their reads of the    *)
(* map are one step.                                                       *)
(***************************************************************************)
EXTENDS FiniteSets

CONSTANTS
    Snapshot,       \* repositories at exact heads
    Path,
    Present,        \* the files that exist: pairs of snapshot and path
    Asker,          \* requests in progress at one time
    NoFetch         \* in place of one of them, while it waits for none

File == Snapshot \X Path

VARIABLES
    held,           \* the files in #readStateFilesByHead
    stage,          \* each request: idle, fetching, waiting or ended
    wanted,         \* the files a request asked for
    missing,        \* those it did not find in the map
    awaits,         \* the request whose fetch it waits for
    flights,        \* requests whose fetch is in #readStateFileFlights
    cleared         \* history: requests during which the map was emptied

fileVars == <<held, stage, wanted, missing, awaits, flights, cleared>>

FileEnded == {"answered", "integrity_failure", "transport_failure"}

FilesInit ==
    /\ held = {} /\ flights = {} /\ cleared = {}
    /\ stage = [r \in Asker |-> "idle"]
    /\ wanted = [r \in Asker |-> {}] /\ missing = [r \in Asker |-> {}]
    /\ awaits = [r \in Asker |-> NoFetch]

\* Mutant of SameFetch: any fetch that brings one of the files will do.
OverlappingFetch(f, K) == missing[f] \cap K # {}

\* Fetches are found by exactly the files they fetch.
SameFetch(f, K) == missing[f] = K

\* A request for files of one snapshot.
RequestFiles(r, F) ==
    /\ stage[r] = "idle"
    /\ wanted' = [wanted EXCEPT ![r] = F]
    /\ missing' = [missing EXCEPT ![r] = F \ held]
    /\ \/ /\ F \subseteq held
          /\ stage' = [stage EXCEPT ![r] = "answered"]
          /\ UNCHANGED <<awaits, flights>>
       \/ \E f \in flights :
             /\ F \ held # {} /\ SameFetch(f, F \ held)
             /\ stage' = [stage EXCEPT ![r] = "waiting"]
             /\ awaits' = [awaits EXCEPT ![r] = f]
             /\ UNCHANGED flights
       \/ /\ F \ held # {} /\ ~ \E f \in flights : SameFetch(f, F \ held)
          /\ stage' = [stage EXCEPT ![r] = "fetching"]
          /\ flights' = flights \cup {r}
          /\ UNCHANGED awaits
    /\ UNCHANGED <<held, cleared>>

\* Who is answered with a fetch.
Sharing(f) == {f} \cup {r \in Asker : stage[r] = "waiting" /\ awaits[r] = f}

\* All requested files are looked up again, not only the fetched ones.
Collected(r) == IF wanted[r] \subseteq held' THEN "answered"
                                             ELSE "integrity_failure"

\* GitHub answers with the files; one that does not exist fails the fetch.
Fetched(f) ==
    /\ stage[f] = "fetching"
    /\ IF missing[f] \subseteq Present
       THEN /\ held' = held \cup missing[f]
            /\ stage' = [r \in Asker |-> IF r \in Sharing(f) THEN Collected(r)
                                                       ELSE stage[r]]
       ELSE /\ stage' = [r \in Asker |-> IF r \in Sharing(f)
                                      THEN "integrity_failure" ELSE stage[r]]
            /\ UNCHANGED held
    /\ flights' = flights \ {f}
    /\ UNCHANGED <<wanted, missing, awaits, cleared>>

FetchFails(f) ==
    /\ stage[f] = "fetching"
    /\ stage' = [r \in Asker |-> IF r \in Sharing(f) THEN "transport_failure"
                                                 ELSE stage[r]]
    /\ flights' = flights \ {f}
    /\ UNCHANGED <<held, wanted, missing, awaits, cleared>>

ReturnFiles(r) ==
    /\ stage[r] \in FileEnded
    /\ stage' = [stage EXCEPT ![r] = "idle"]
    /\ wanted' = [wanted EXCEPT ![r] = {}]
    /\ missing' = [missing EXCEPT ![r] = {}]
    /\ awaits' = [awaits EXCEPT ![r] = NoFetch]
    /\ cleared' = cleared \ {r}
    /\ UNCHANGED <<held, flights>>

\* An invalidation of any repository or installation.
ForgetFiles ==
    /\ held' = {} /\ flights' = {}
    /\ cleared' = cleared \cup {r \in Asker : stage[r] # "idle"}
    /\ UNCHANGED <<stage, wanted, missing, awaits>>

FilesNext ==
    \/ \E r \in Asker, s \in Snapshot, K \in (SUBSET Path) \ {{}} :
          RequestFiles(r, {s} \X K)
    \/ \E r \in Asker : Fetched(r) \/ FetchFails(r) \/ ReturnFiles(r)
    \/ ForgetFiles

FilesSpec == FilesInit /\ [][FilesNext]_fileVars

-----------------------------------------------------------------------------

\* Without an invalidation in the meantime, a request is refused for a missing
\* file only if one of its files is missing from the snapshot: what it found
\* in the map and what it fetched are together all it asked for.
MissingOnlyWhenCleared ==
    \A r \in Asker :
       stage[r] = "integrity_failure" /\ r \notin cleared
       => ~ wanted[r] \subseteq Present
=============================================================================
