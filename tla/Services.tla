------------------------------- MODULE Services -------------------------------
(***************************************************************************)
(* The services beside the storage manager: the ring of its cache, the list  *)
(* on the screen, lazy loading, the memory monitor, the configuration and    *)
(* its files, export, import and backups.  They share no state, so that each *)
(* behaviour here is one of a single part, the others at rest.              *)
(***************************************************************************)
EXTENDS LRUList, ConversationHistory, LazyLoading, MemoryMonitor, Configuration, ConfigFiles, Transfer

VARIABLE part   \* the part this behaviour is about

Parts == {"ring", "history", "loading", "memory", "config", "store", "migration", "export", "backup"}

vars == <<part, listVars, historyVars, lazyVars, monitorVars, configVars, storeVars, migrationVars, transferVars>>

\* A part at rest has one initial state.
Init ==
    /\ part \in Parts
    /\ ListInit /\ LazyInit /\ MonitorInit
    /\ HistoryInit
    /\ part /= "history" => storage = "none"
    /\ configFiles \in InitialFiles
    /\ part /= "config" => configFiles = CHOOSE files \in InitialFiles : TRUE
    /\ ConfigInit
    /\ currentEnv \in Builtins
    /\ part /= "store" => currentEnv = CHOOSE n \in Builtins : TRUE
    /\ StoreInit
    /\ part /= "store" => DOMAIN environmentFiles = {}
    /\ MigrationInit
    /\ part /= "migration" => \A p \in Paths : versioned[p].version = 1
    /\ TransferInit
    /\ part /= "export" => history = CHOOSE h \in Histories : TRUE

Next ==
    \/ /\ part = "ring" /\ ListNext
       /\ UNCHANGED <<part, historyVars, lazyVars, monitorVars, configVars, storeVars, migrationVars, transferVars>>
    \/ /\ part = "history" /\ HistoryNext
       /\ UNCHANGED <<part, listVars, lazyVars, monitorVars, configVars, storeVars, migrationVars, transferVars>>
    \/ /\ part = "loading" /\ LazyNext
       /\ UNCHANGED <<part, listVars, historyVars, monitorVars, configVars, storeVars, migrationVars, transferVars>>
    \/ /\ part = "memory" /\ MonitorNext
       /\ UNCHANGED <<part, listVars, historyVars, lazyVars, configVars, storeVars, migrationVars, transferVars>>
    \/ /\ part = "config" /\ ConfigNext
       /\ UNCHANGED <<part, listVars, historyVars, lazyVars, monitorVars, storeVars, migrationVars, transferVars>>
    \/ /\ part = "store" /\ StoreNext
       /\ UNCHANGED <<part, listVars, historyVars, lazyVars, monitorVars, configVars, migrationVars, transferVars>>
    \/ /\ part = "migration" /\ MigrationNext
       /\ UNCHANGED <<part, listVars, historyVars, lazyVars, monitorVars, configVars, storeVars, transferVars>>
    \/ /\ part = "export" /\ ExportNext
       /\ UNCHANGED <<part, listVars, historyVars, lazyVars, monitorVars, configVars, storeVars, migrationVars>>
    \/ /\ part = "backup" /\ BackupNext
       /\ UNCHANGED <<part, listVars, historyVars, lazyVars, monitorVars, configVars, storeVars, migrationVars>>

Spec == Init /\ [][Next]_vars
=============================================================================
