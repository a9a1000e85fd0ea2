------------------------------ MODULE MCStorage ------------------------------
(* One stream part, whose messages m1 and m2 arrive in any order of their        *)
(* timestamps.  The process starts with an empty database, or with a bucket that *)
(* an earlier process has filled with m0.                                        *)
EXTENDS Storage, TLC

MCTimestamp == [m \in Message |-> IF m = "m0" THEN 1 ELSE IF m = "m1" THEN 2 ELSE 3]
MCSequenceNumber == [m \in Message |-> 0]

EmptyDatabase ==
  /\ dates = <<>> /\ table = [d \in {} |-> {}]
  /\ data = {} /\ acked = {}

FilledBucket ==
  /\ dates = <<Timestamp["m0"]>> /\ table = Timestamp["m0"] :> [id |-> 1, records |-> 1]
  /\ data = {<<1, "m0">>} /\ acked = {"m0"}

MCInit ==
  /\ EmptyDatabase \/ FilledBucket
  /\ accepted = acked
  /\ batches = [b \in {} |-> {}] /\ pendingBatches = {} /\ dropped = {}
  /\ heap = <<>> /\ buckets = [b \in {} |-> {}] /\ minTimestamp = None
  /\ waiting = {} /\ immediate = <<>> /\ check = Idle
  /\ storing = [b \in {} |-> {}] /\ storingOn = FALSE
  /\ expiring = {} /\ forgotten = {} /\ deleted = {} /\ crashes = 0

\* m0 is only stored by the earlier process.
MCNext == Next /\ (accepted' \ accepted) \subseteq {"m1", "m2"}

MCSpec == MCInit /\ [][MCNext]_vars /\ Fairness
=============================================================================
