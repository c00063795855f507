-------------------------- MODULE MCStorageGroups --------------------------
(* Drives of one node; "all" takes every drive, "one" one per node, and       *)
(* "bad" names a field drives do not have.                                    *)
EXTENDS StorageGroups

MCGroupOrder == <<"one", "all", "bad">>
MCNodeOf == [d \in Drive |-> "n1"]
MCDriveField == [d \in Drive |-> [Type |-> "HDD", Health |-> "GOOD"]]
MCFieldValues == [Type |-> {"HDD", "SSD"}, Health |-> {"GOOD", "BAD"}]
MCMatchFields == [g \in Group |-> IF g = "bad" THEN [Colour |-> "red"]
                                  ELSE [Type |-> "HDD", Health |-> "BAD"]]
MCNumber == [g \in Group |-> IF g = "one" THEN 1 ELSE 0]
=============================================================================
