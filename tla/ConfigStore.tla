----------------------------- MODULE ConfigStore -----------------------------
(***************************************************************************)
(* Package internal/services/configstore: the store of managed             *)
(* configurations, in process memory or as one JSON blob under a Redis key.*)
(* List and Save are atomic (memory: the store's own mutex; Redis: a       *)
(* single GET or SET); what can go wrong is chosen by Faults.              *)
(***************************************************************************)
EXTENDS HaproxyCfg

CONSTANTS
    Backend,    \* "memory" or "redis"
    Faults      \* which faults of the environment a model allows

\* client     creating the runtime client fails
\* list       Redis GET fails
\* save       Redis SET fails and is not applied
\* late       Redis SET is applied but its answer is lost (timeout, cancel)
\* disk       a file operation fails and changes nothing
\* truncated  a file write fails, or the process dies in it, after truncation
\* torn       the same, after any part of the content was written
\* close      a file write fails after all of the content was written
\* haproxy    the runtime socket fails; a reload may have happened all the same
\* crash      the process dies
\* reset      the container's files are reset
FaultKinds == {"client", "list", "save", "late", "disk", "truncated", "torn",
               "close", "haproxy", "crash", "reset"}

ASSUME StoreAssumption ==
    /\ Backend \in {"memory", "redis"}
    /\ Faults \subseteq FaultKinds

VARIABLES
    store,         \* the configurations held by the store
    storeClosed    \* the Redis client was closed by OnStop

storeVars == <<store, storeClosed>>

StoreTypeOK ==
    /\ store \subseteq Config
    /\ storeClosed \in BOOLEAN

ListSucceeds == ~storeClosed

ListFails == Backend = "redis" /\ (storeClosed \/ "list" \in Faults)

SaveSucceeds(list) ==
    /\ ~storeClosed
    /\ store' = list
    /\ UNCHANGED storeClosed

SaveFails(list) ==
    /\ Backend = "redis"
    /\ \/ (storeClosed \/ "save" \in Faults) /\ UNCHANGED store
       \/ ~storeClosed /\ "late" \in Faults /\ store' = list
    /\ UNCHANGED storeClosed

\* Only the Redis store implements Close.
NeverClosed ==
    /\ storeClosed' = FALSE
    /\ UNCHANGED store
CloseStore ==
    /\ storeClosed' = (Backend = "redis")
    /\ UNCHANGED store

\* A process that ends takes the in-memory store with it.
StoreAfterExit ==
    /\ store' = IF Backend = "memory" THEN {} ELSE store
    /\ storeClosed' = FALSE
=============================================================================
