--------------------------- MODULE PersistentLog ---------------------------
(***************************************************************************)
(* What a Raft core is promised by the persistent half of its store: a run *)
(* of entries that grows only at its end, is cut only from its end by a    *)
(* truncation and from its front by a purge, a purge mark that only        *)
(* advances, and a vote that only advances.  A crash is not an action: it  *)
(* changes nothing that was promised.  Only a power loss does, and takes   *)
(* all three back to the same earlier moment.  RaftLog implements this.    *)
(***************************************************************************)
EXTENDS Integers

CONSTANTS MaxIndex, LeaderIds, NoRow, MaxVote, PowerLossPossible

VARIABLES entries,  \* the live log: entries[i] is the leader id of entry i
          purged,   \* the highest purged index, or None
          vote,     \* the saved vote
          synced    \* the three above as a power loss would leave them

vars == <<entries, purged, vote, synced>>

Index == 0..MaxIndex
None == -1

\* i is the index right behind the last live entry (or behind the purge mark).
IsNext(i) ==
    /\ i > purged
    /\ \A j \in Index : (purged < j /\ j < i) => entries[j] # NoRow
    /\ \A j \in Index : j >= i => entries[j] = NoRow

Init ==
    /\ entries = [i \in Index |-> NoRow]
    /\ purged = None
    /\ vote = 0
    /\ synced = [entries |-> entries, purged |-> purged, vote |-> vote]

AppendEntry(i, leader) ==
    /\ IsNext(i)
    /\ entries' = [entries EXCEPT ![i] = leader]
    /\ UNCHANGED <<purged, vote, synced>>

TruncateSince(i) ==
    /\ i > purged
    /\ entries' = [j \in Index |-> IF j >= i THEN NoRow ELSE entries[j]]
    /\ UNCHANGED <<purged, vote, synced>>

PurgeUpto(i) ==
    /\ i > purged
    /\ purged' = i
    /\ entries' = [j \in Index |-> IF j <= i THEN NoRow ELSE entries[j]]
    /\ UNCHANGED <<vote, synced>>

SaveVote(v) ==
    /\ v > vote
    /\ vote' = v
    /\ UNCHANGED <<entries, purged, synced>>

Sync ==
    /\ PowerLossPossible
    /\ synced' = [entries |-> entries, purged |-> purged, vote |-> vote]
    /\ UNCHANGED <<entries, purged, vote>>

PowerLoss ==
    /\ PowerLossPossible
    /\ entries' = synced.entries
    /\ purged' = synced.purged
    /\ vote' = synced.vote
    /\ UNCHANGED synced

Next ==
    \/ \E i \in Index, leader \in LeaderIds : AppendEntry(i, leader)
    \/ \E i \in Index : TruncateSince(i) \/ PurgeUpto(i)
    \/ \E v \in 1..MaxVote : SaveVote(v)
    \/ Sync \/ PowerLoss

Spec == Init /\ [][Next]_vars
=============================================================================
