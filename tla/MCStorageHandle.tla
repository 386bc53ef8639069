-------------------------- MODULE MCStorageHandle --------------------------
(* Model values for the run of StorageHandle with its buffers. *)
EXTENDS SqliteMemory

CONSTANTS c1, c2

MCCallers == {c1, c2}

\* One caller loads or serializes twice, the other one once.
MCBuffered == {<<c1, 1>>, <<c1, 2>>, <<c2, 1>>}
=============================================================================
