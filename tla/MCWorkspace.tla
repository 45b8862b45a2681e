----------------------------- MODULE MCWorkspace -----------------------------
(* The safety of what is stored and of the processes that run.  The components share *)
(* no state, so one behaviour exercises one of them and the others rest in their     *)
(* initial state.                                                                    *)
EXTENDS SessionStore, Identity, Compaction, ProcessRegistry, Memory

VARIABLE part   \* the component this behaviour exercises

WorkspaceInit ==
    /\ part \in {"store", "identity", "compaction", "process", "memory"}
    /\ StoreInit /\ IdentityInit /\ CompactionInit /\ MemoryInit /\ Init
    /\ part = "process" \/ \A p \in Procs : stage[p] = "over"

StoreMoves ==
    StoreNext /\ UNCHANGED <<identityVars, compactionVars, memoryVars, vars>>
IdentityMoves ==
    IdentityNext /\ UNCHANGED <<storeVars, compactionVars, memoryVars, vars>>
CompactionMoves ==
    CompactionNext /\ UNCHANGED <<storeVars, identityVars, memoryVars, vars>>
MemoryMoves ==
    MemoryNext /\ UNCHANGED <<storeVars, identityVars, compactionVars, vars>>
ProcessMoves ==
    Next /\ UNCHANGED <<storeVars, identityVars, compactionVars, memoryVars>>

WorkspaceNext ==
    /\ UNCHANGED part
    /\ \/ part = "store" /\ StoreMoves
       \/ part = "identity" /\ IdentityMoves
       \/ part = "compaction" /\ CompactionMoves
       \/ part = "process" /\ ProcessMoves
       \/ part = "memory" /\ MemoryMoves

workspaceVars == <<part, storeVars, identityVars, compactionVars, memoryVars, vars>>
WorkspaceSpec == WorkspaceInit /\ [][WorkspaceNext]_workspaceVars
=============================================================================
