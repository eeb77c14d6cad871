------------------------- MODULE AbstractBlobStore -------------------------
(****************************************************************************)
(* What the blob store promises its clients, whatever happens inside: blobs *)
(* appear whole and within the limits, a client that reads one keeps it, a  *)
(* blob that is withdrawn (deleted or expired) is never read again, and its *)
(* room is given back only when nobody reads it.                            *)
(****************************************************************************)
EXTENDS Integers, FiniteSets

CONSTANTS BlobIds, Readers, NoBlob, MaxBlobBytes, MaxTotalBytes, MaxBlobs

VARIABLES
  kept,       \* the blobs that take up room, each with its size
  readable,   \* those that a client can find
  reading,    \* the blob each reader has open
  shut        \* TRUE once the store is closed

avars == <<kept, readable, reading, shut>>

Room(f) == Cardinality({b \in (DOMAIN f) \X (1..MaxBlobBytes) : b[2] <= f[b[1]]})

Read == {reading[r] : r \in Readers} \ {NoBlob}

\* Room may be reclaimed from blobs that nobody reads or can find.
Reclaimable(S, findable) ==
  S \subseteq DOMAIN kept \ Read /\ S \intersect findable = {}

Keep(S) == [i \in DOMAIN kept \ S |-> kept[i]]

Init ==
  /\ kept = [i \in {} |-> 0] /\ readable = {} /\ shut = FALSE
  /\ reading = [r \in Readers |-> NoBlob]

Publish(i, size) ==
  /\ ~shut
  /\ \E S \in SUBSET (DOMAIN kept) :
       /\ Reclaimable(S, readable)
       /\ i \notin DOMAIN kept \ S
       /\ kept' = [j \in (DOMAIN kept \ S) \union {i} |-> IF j = i THEN size ELSE kept[j]]
  /\ readable' \in {readable, readable \union {i}}
  /\ Room(kept') <= MaxTotalBytes /\ Cardinality(DOMAIN kept') <= MaxBlobs
  /\ UNCHANGED <<reading, shut>>

StartReading(r, i) ==
  /\ ~shut /\ reading[r] = NoBlob /\ i \in readable
  /\ reading' = [reading EXCEPT ![r] = i]
  /\ UNCHANGED <<readable, shut>>
  /\ \E S \in SUBSET (DOMAIN kept) : Reclaimable(S, readable) /\ kept' = Keep(S)

\* The last reader of a withdrawn blob may give its room back as it leaves.
StopReading(r) ==
  /\ reading[r] # NoBlob
  /\ reading' = [reading EXCEPT ![r] = NoBlob]
  /\ \/ UNCHANGED kept
     \/ /\ reading[r] \notin readable
        /\ \A q \in Readers \ {r} : reading[q] # reading[r]
        /\ kept' = Keep({reading[r]})
  /\ UNCHANGED <<readable, shut>>

\* Delete, the passing of time, and every cleanup.
Withdraw ==
  /\ ~shut
  /\ readable' \subseteq readable
  /\ \E S \in SUBSET (DOMAIN kept) : Reclaimable(S, readable') /\ kept' = Keep(S)
  /\ UNCHANGED <<reading, shut>>

Shut ==
  /\ shut' = TRUE /\ readable' = {}
  /\ UNCHANGED <<kept, reading>>

Forget ==
  /\ shut /\ Read = {}
  /\ kept' = [i \in {} |-> 0]
  /\ UNCHANGED <<readable, reading, shut>>

Next ==
  \/ \E i \in BlobIds, size \in 0..MaxBlobBytes : Publish(i, size)
  \/ \E r \in Readers, i \in BlobIds : StartReading(r, i)
  \/ \E r \in Readers : StopReading(r)
  \/ \E new \in SUBSET readable : readable' = new /\ Withdraw
  \/ Shut \/ Forget

Spec == Init /\ [][Next]_avars
=============================================================================
