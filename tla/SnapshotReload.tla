--------------------------- MODULE SnapshotReload ---------------------------
(***************************************************************************)
(* Creating a snapshot while blocks are produced.  CreateSnapshot          *)
(* (emulator/blockchain.go) ends in ReloadBlockchain, which reads the      *)
(* latest block from storage and then replaces the pending block.  Neither *)
(* takes Blockchain.mu, so the operations of module Blockchain, which do,  *)
(* run between the two.  Writing the snapshot file itself leaves the chain *)
(* as it is.                                                               *)
(***************************************************************************)
EXTENDS Blockchain

VARIABLE
    reload      \* the blocks that a reload has read and not used yet

CreateSnapshot ==
    /\ reload = {}
    /\ reload' = {blocks[latest]}
    /\ UNCHANGED vars

ReplacePendingBlock ==
    /\ \E b \in reload : pending' \in NewPendingBlocks(b)
    /\ reload' = {}
    /\ UNCHANGED <<blocks, latest, autoMine, entropy, starts>>

ReloadInit == Init /\ reload = {}

ReloadNext ==
    \/ Next /\ UNCHANGED reload
    \/ CreateSnapshot
    \/ ReplacePendingBlock

ReloadSpec == ReloadInit /\ [][ReloadNext]_<<vars, reload>>

=============================================================================
