--------------------------- MODULE MCStorageAgents ---------------------------
(* Instances of StorageAgents for TLC: a DS8K whose password changes, an XIV  *)
(* and an SVC that is given with two endpoints.                               *)
EXTENDS StorageAgents, TLC

MCKind == [k \in Keys |-> CASE k = "k1" -> "ds8k" [] k = "k2" -> "xiv" [] k = "k3" -> "svc"]
MCEndpoints == [k \in Keys |-> IF k = "k3" THEN 2 ELSE 1]
MCPasswords == [k \in Keys |-> IF k = "k1" THEN {"old", "new"} ELSE {"old"}]
MCMaxConnections == [c \in Classes |-> 1]
=============================================================================
