--------------------------- MODULE MCAdminHandler ---------------------------
(* Requests for one or two databases and S3 paths in one or two buckets.   *)
EXTENDS AdminHandler, TLC

CONSTANTS db1, db2, path1, path2, b1, b2

OneBucket == (path1 :> b1) @@ (path2 :> b1)
TwoBuckets == (path1 :> b1) @@ (path2 :> b2)

Plain(ops) == [op : ops, db : {db1}]
Add(role) == [op : {"addDB"}, db : {db1}, role : {role}, overwrite : BOOLEAN]
Load(db, paths) == [op : {"addS3SstFilesToDB"}, db : {db}, path : paths]
Clear == [op : {"clearDB"}, db : {db1}, reopen : BOOLEAN]
Change == [op : {"changeDBRole"}, db : {db1}, role : {"MASTER", "NOOP"}, up : {FALSE}]
            \cup [op : {"changeDBRole"}, db : {db1}, role : {"SLAVE"}, up : BOOLEAN]
ToS3 == [op : {"backupDBToS3"}, db : {db1}, path : {path2}]
FromS3 == [op : {"restoreDBFromS3"}, db : {db1}, path : {path2}]
Ingestion == Plain({"startMessageIngestion", "stopMessageIngestion"})

\* Everything but backups.
Lifecycle ==
    Add("SLAVE") \cup Load(db1, {path1, path2}) \cup Clear \cup Change
      \cup Plain({"closeDB", "checkDB", "setDBOptions"}) \cup Ingestion

\* Two databases, two buckets, backups of one of them.
Transfers ==
    [op : {"addDB"}, db : {db1, db2}, role : {"SLAVE", "MASTER"}, overwrite : {FALSE}]
      \cup Load(db1, {path1}) \cup Load(db2, {path2}) \cup ToS3 \cup FromS3

Live ==
    Add("SLAVE") \cup Load(db1, {path1}) \cup Clear \cup ToS3 \cup FromS3
      \cup Plain({"closeDB", "checkDB", "backupDB", "restoreDB"})

Reload == Add("SLAVE") \cup Load(db1, {path1, path2}) \cup Plain({"backupDB", "restoreDB", "closeDB"})

LoadAndBackup == Add("SLAVE") \cup Load(db1, {path1}) \cup ToS3

Symmetric == Permutations(Thread)
=============================================================================
