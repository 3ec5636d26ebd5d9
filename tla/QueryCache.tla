----------------------------- MODULE QueryCache -----------------------------
(***************************************************************************)
(* One key of the cache-aside decorator (infra/cache/decorator.py) over    *)
(* Redis, with the per-process single flight of infra/cache/backend.py, as *)
(* AuthorizationQueryService and SocialQueryService use it: a command      *)
(* commits a change of the fact and deletes the key afterwards.            *)
(*                                                                         *)
(* The fact has two parts read by two statements (the role grants and the  *)
(* direct grants of get_effective).  Redis may lose a write or a deletion: *)
(* RedisCache swallows every failure.                                      *)
(***************************************************************************)
EXTENDS Naturals, Sequences, FiniteSets

CONSTANTS
    Readers,     \* request tasks of one server process
    Writers,     \* commands that change the fact, each run once
    None,
    MaxTasks     \* bound on loader tasks

VARIABLES
    fact,      \* committed value, a pair of versions
    cache,     \* None or the cached pair
    tasks,     \* loader tasks: [pc, val, overtaken]
    slot,      \* the registered task of the key, or None
    rd,        \* the readers: [pc, task]
    wr,        \* the writers: "ready", "delete", "done"
    unclean    \* a deletion failed, or a stored load was overtaken by a commit

qcVars == <<fact, cache, tasks, slot, rd, wr, unclean>>

Init ==
    /\ fact = <<0, 0>>
    /\ cache = None
    /\ tasks = <<>>
    /\ slot = None
    /\ rd = [r \in Readers |-> [pc |-> "idle", task |-> None]]
    /\ wr = [w \in Writers |-> "ready"]
    /\ unclean = FALSE

\* Look the key up; a hit is answered and leaves no trace.
Get(r) ==
    /\ rd[r].pc = "idle" /\ cache = None
    /\ rd' = [rd EXCEPT ![r].pc = "join"]
    /\ UNCHANGED <<fact, cache, tasks, slot, wr, unclean>>

\* load_once: start a loader task, or wait for the registered one.
Join(r) ==
    /\ rd[r].pc = "join"
    /\ IF slot = None
       THEN /\ Len(tasks) < MaxTasks
            /\ tasks' = Append(tasks, [pc |-> "first", val |-> <<0, 0>>, overtaken |-> FALSE])
            /\ slot' = Len(tasks) + 1
       ELSE UNCHANGED <<tasks, slot>>
    /\ rd' = [rd EXCEPT ![r] = [pc |-> "wait", task |-> slot']]
    /\ UNCHANGED <<fact, cache, wr, unclean>>

\* The statements of the load, then the store in Redis.
Load(t) ==
    /\ \/ /\ tasks[t].pc = "first"
          /\ tasks' = [tasks EXCEPT ![t].pc = "second", ![t].val[1] = fact[1]]
       \/ /\ tasks[t].pc = "second"
          /\ tasks' = [tasks EXCEPT ![t].pc = "store", ![t].val[2] = fact[2]]
    /\ UNCHANGED <<fact, cache, slot, rd, wr, unclean>>

Store(t) ==
    /\ tasks[t].pc = "store"
    /\ tasks' = [tasks EXCEPT ![t].pc = "done"]
    /\ \/ cache' = tasks[t].val /\ unclean' = tasks[t].overtaken
       \/ UNCHANGED <<cache, unclean>>
    /\ UNCHANGED <<fact, slot, rd, wr>>

Wake(r) ==
    /\ rd[r].pc = "wait" /\ tasks[rd[r].task].pc = "done"
    /\ rd' = [rd EXCEPT ![r].pc = "pop"]
    /\ UNCHANGED <<fact, cache, tasks, slot, wr, unclean>>

\* Every waiter of a finished task unregisters it, if it still is registered.
Pop(r) ==
    /\ rd[r].pc = "pop"
    /\ slot' = IF slot = rd[r].task THEN None ELSE slot
    /\ rd' = [rd EXCEPT ![r] = [pc |-> "idle", task |-> None]]
    /\ UNCHANGED <<fact, cache, tasks, wr, unclean>>

\* A waiting request is cancelled: the awaited task, shared or not, is too.
Cancel(r) ==
    /\ rd[r].pc = "wait" /\ tasks[rd[r].task].pc # "done"
    /\ tasks' = [tasks EXCEPT ![rd[r].task].pc = "done"]
    /\ UNCHANGED <<fact, cache, slot, rd, wr, unclean>>

\* A command commits; the loads under way did not read it, or read half of it.
Commit(w) ==
    /\ wr[w] = "ready"
    /\ wr' = [wr EXCEPT ![w] = "delete"]
    /\ \E i \in 1..2 : fact' = [fact EXCEPT ![i] = @ + 1]
    /\ tasks' = [t \in DOMAIN tasks |->
                    [tasks[t] EXCEPT !.overtaken = @ \/ tasks[t].pc # "done"]]
    /\ UNCHANGED <<cache, slot, rd, unclean>>

\* Mutant: the key is deleted before the commit.
DeleteEarly(w) ==
    \/ /\ wr[w] = "ready" /\ cache # None
       /\ cache' = None
       /\ UNCHANGED <<fact, tasks, slot, rd, wr, unclean>>
    \/ /\ wr[w] = "delete"
       /\ wr' = [wr EXCEPT ![w] = "done"]
       /\ UNCHANGED <<fact, cache, tasks, slot, rd, unclean>>

\* The deletion that follows the commit, which Redis may refuse; the command's
\* process may also die before it.
Delete(w) ==
    /\ wr[w] = "delete"
    /\ wr' = [wr EXCEPT ![w] = "done"]
    /\ \/ cache' = None /\ unclean' = FALSE
       \/ unclean' = (cache # None) /\ UNCHANGED cache
    /\ UNCHANGED <<fact, tasks, slot, rd>>

\* The entry reaches its time to live.
Expire ==
    /\ cache # None
    /\ cache' = None /\ unclean' = FALSE
    /\ UNCHANGED <<fact, tasks, slot, rd, wr>>

Next ==
    \/ Expire
    \/ \E r \in Readers : Get(r) \/ Join(r) \/ Wake(r) \/ Pop(r) \/ Cancel(r)
    \/ \E t \in DOMAIN tasks : Load(t) \/ Store(t)
    \/ \E w \in Writers : Commit(w) \/ Delete(w)

Spec == Init /\ [][Next]_qcVars

-----------------------------------------------------------------------------
\* A process runs at most one load of a key at a time: a waiter that finds a
\* newer task registered under the key leaves it registered.
SingleFlight ==
    Cardinality({t \in DOMAIN tasks : tasks[t].pc # "done"}) <= 1

\* A cached answer that differs from the committed fact has one of three
\* causes: a command that committed has yet to delete the key, its deletion
\* failed, or the load that stored the answer was overtaken by a commit.
StaleHasCause ==
    \/ cache = None \/ cache = fact \/ unclean
    \/ \E w \in Writers : wr[w] = "delete"
=============================================================================
