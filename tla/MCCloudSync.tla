----------------------------- MODULE MCCloudSync -----------------------------
(* A small backend: one or two targets, two or three writes. *)
EXTENDS CloudSync, TLC

CONSTANTS e1, e2, t1, t2, d1, d2, s1

Order_1 == <<t1>>
Order_2 == <<t1, t2>>

Kind_Folder == [t \in {t1} |-> "folder"]
Kind_FolderS3 == (t1 :> "folder") @@ (t2 :> "s3")
Kind_WebDav == [t \in {t1} |-> "webdav"]

\* Where no target refuses a key, what a row is about, and what a snapshot
\* contains and is filed under, decides nothing about what happens next.
View_NoSnapshots == <<next, born, status, attempts, day, drains, cloud, snapPc, snapAt>>

\* Bounds of the prune run: what follows a third event batch on a target, or a
\* row's second failure, is not explored.
Few ==
    /\ \A t \in Targets : Cardinality(store[t]) <= 2
    /\ \A n \in Rows : attempts[n] <= 1

Symmetric == Permutations(Drains)
=============================================================================
