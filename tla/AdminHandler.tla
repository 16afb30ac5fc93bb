---------------------------- MODULE AdminHandler ----------------------------
(***************************************************************************)
(* rocksdb_admin/admin_handler.cpp, application_db_manager.cpp and         *)
(* application_db.cpp: the handlers of the admin service, which create,    *)
(* fill, back up, restore and drop the databases of a server.              *)
(*                                                                         *)
(* A handler runs on a thread of its own.  Its steps are separated where   *)
(* another thread or a crash can come in between and see a difference; the *)
(* handlers are made of the same pieces (lock, look up, remove, wait,      *)
(* clear, open, register...), and th[t].pc names the next one.  A return   *)
(* runs the SCOPE_EXITs in its own step.  db_admin_lock_ is a mutex per    *)
(* name, which is what ObjectLock is shown to be.                          *)
(*                                                                         *)
(* The constructor (line 396) gives num_current_s3_sst_uploadings_ no      *)
(* value: it starts with any of Garbage.                                   *)
(*                                                                         *)
(* External: rocksdb (opening a database that is open in this process      *)
(* fails), S3 and HDFS (a transfer works or fails), Kafka (messages have   *)
(* the timestamps 1, 2, ... and a replay starts at the first one not       *)
(* before the timestamp it is given).                                      *)
(***************************************************************************)
EXTENDS Integers, FiniteSets

CONSTANTS
    Thread,        \* the threads that run handlers
    DB,            \* database names
    Request,       \* the requests clients send, each with op and db
    BucketOf,      \* BucketOf[p]: the S3 bucket of path p, with its rate limit
    None,
    Checkpoint,    \* FLAGS_enable_checkpoint_backup
    Overlap,       \* allow_overlapping_keys
    Garbage,       \* what an int nobody initialized may hold
    MaxLoading,    \* FLAGS_max_s3_sst_loading_concurrency
    MaxRequests,   \* bound on the number of requests
    MaxMsgs,       \* bound on the Kafka messages
    MaxCrashes     \* bound on the crashes of the process

ASSUME CheckpointAssumption == Checkpoint \in BOOLEAN /\ Overlap \in BOOLEAN
ASSUME GarbageAssumption == Garbage \subseteq Int /\ Garbage # {}
ASSUME BoundAssumption == {MaxLoading, MaxRequests, MaxMsgs, MaxCrashes} \subseteq Nat

VARIABLES
    lock,      \* lock[d]: who has db_admin_lock_ for d
    app,       \* app[d]: the ApplicationDB of d
    handle,    \* handle[d]: is the rocksdb::DB of d open
    disk,      \* disk[d]: what the files of d hold
    meta,      \* meta[d]: d's entry in meta_db_
    backup,    \* backup[d]: the latest backup of d
    loads,     \* num_current_s3_sst_downloadings_ and ..._uploadings_
    util,      \* the bucket of s3_util_, None for nullptr
    s3lock,    \* who has s3_util_lock_
    kafka,     \* kafka[d]: the KafkaWatcher of d in kafka_watcher_map_
    th,        \* th[t]: thread t
    count      \* history: requests sent and crashes

vars == <<lock, app, handle, disk, meta, backup, loads, util, s3lock, kafka, th, count>>
store == <<disk, meta, backup>>
s3 == <<loads, util, s3lock>>

Path == DOMAIN BucketOf

\* s3: the dataset loaded last; upto: messages 1..upto were given to the DB.
Empty == [s3 |-> None, upto |-> 0]
Files == [s3 : Path \cup {None}, upto : 0 .. MaxMsgs]

NoMeta == [s3 |-> None, ts |-> 0]
NoApp == [st |-> "none", role |-> "SLAVE", up |-> FALSE]
NoKafka == [st |-> "none", pos |-> 1, s3 |-> None]

\* ref: holds a shared_ptr to the ApplicationDB; counted: counted in loads;
\* util: holds a shared_ptr to s3_util_; role, up: what to register with;
\* copy: the checkpoint taken by a backup.
Idle == [pc |-> "idle", req |-> None, ref |-> FALSE, counted |-> FALSE, util |-> FALSE,
         role |-> "SLAVE", up |-> FALSE, reopen |-> FALSE, copy |-> Empty, res |-> None]

TypeOK ==
    /\ lock \in [DB -> Thread \cup {None}]
    /\ app \in [DB -> [st : {"none", "added", "removed"},
                       role : {"MASTER", "SLAVE", "NOOP"}, up : BOOLEAN]]
    /\ handle \in [DB -> {"open", "closed"}]
    /\ disk \in [DB -> Files]
    /\ meta \in [DB -> [s3 : Path \cup {None}, ts : 0 .. MaxMsgs]]
    /\ backup \in [DB -> Files \cup {None}]
    /\ loads \in [down : Nat, up : Int]
    /\ util \in {BucketOf[p] : p \in Path} \cup {None}
    /\ s3lock \in Thread \cup {None}
    /\ \A d \in DB : kafka[d].st \in {"none", "dead", "idle", "meta", "write"}
    /\ \A t \in Thread : th[t].req \in Request \cup {None}

Init ==
    /\ lock = [d \in DB |-> None]
    /\ app = [d \in DB |-> NoApp]
    /\ handle = [d \in DB |-> "closed"]
    /\ disk = [d \in DB |-> Empty]
    /\ meta = [d \in DB |-> NoMeta]
    /\ backup = [d \in DB |-> None]
    /\ loads \in [down : {0}, up : Garbage]
    /\ util = None
    /\ s3lock = None
    /\ kafka = [d \in DB |-> NoKafka]
    /\ th = [t \in Thread |-> Idle]
    /\ count = [requests |-> 0, crashes |-> 0]

-----------------------------------------------------------------------------
Op(t) == th[t].req.op
Db(t) == th[t].req.db
At(t, l) == th[t].pc = l
Goto(t, l) == th' = [th EXCEPT ![t].pc = l]
Kind(t) == IF Op(t) = "backupDBToS3" THEN "up" ELSE "down"

Return_AlwaysUncounts(t, r) ==
    /\ th' = [th EXCEPT ![t] = [Idle EXCEPT !.req = th[t].req, !.res = r]]
    /\ lock' = [d \in DB |-> IF lock[d] = t THEN None ELSE lock[d]]
    /\ loads' = [loads EXCEPT ![Kind(t)] = @ - 1]

Return_KeepsLock(t, r) ==
    /\ th' = [th EXCEPT ![t] = [Idle EXCEPT !.req = th[t].req, !.res = r]]
    /\ loads' = IF th[t].counted THEN [loads EXCEPT ![Kind(t)] = @ - 1] ELSE loads
    /\ UNCHANGED lock

\* The handler answers its caller; the SCOPE_EXITs and destructors run.
Return(t, r) ==
    /\ th' = [th EXCEPT ![t] = [Idle EXCEPT !.req = th[t].req, !.res = r]]
    /\ lock' = [d \in DB |-> IF lock[d] = t THEN None ELSE lock[d]]
    /\ loads' = IF th[t].counted THEN [loads EXCEPT ![Kind(t)] = @ - 1] ELSE loads

\* A step that only moves t on.
Only(t, l) ==
    /\ Goto(t, l)
    /\ UNCHANGED <<lock, loads>>

\* What a request of each kind does first.
Start(t, q) ==
    /\ At(t, "idle")
    /\ count.requests < MaxRequests
    /\ count' = [count EXCEPT !.requests = @ + 1]
    /\ th' = [th EXCEPT ![t] = [Idle EXCEPT
                !.req = q,
                !.pc = CASE q.op \in {"backupDBToS3", "restoreDBFromS3"} -> "count"
                         [] q.op = "checkDB" -> "get"
                         [] OTHER -> "lock"]]
    /\ UNCHANGED <<lock, app, handle, store, s3, kafka>>

Lock_Skipped(t) ==
    /\ At(t, "lock")
    /\ Only(t, "get")
    /\ UNCHANGED <<app, handle, store, util, s3lock, kafka, count>>

\* db_admin_lock_.Lock(db_name)
Lock(t) ==
    /\ At(t, "lock")
    /\ lock[Db(t)] = None
    /\ lock' = [lock EXCEPT ![Db(t)] = t]
    /\ Goto(t, "get")
    /\ UNCHANGED <<app, handle, store, s3, kafka, count>>

Restores == {"restoreDB", "restoreDBFromS3"}

GetAbsent_NoCheck(t) ==
    /\ At(t, "get")
    /\ Op(t) \in Restores \cup {"addDB"}
    /\ Only(t, IF Op(t) \in Restores THEN "restore" ELSE "open")
    /\ UNCHANGED <<app, handle, store, util, s3lock, kafka, count>>

\* Early returns that have changed nothing yet: an upstream address or a
\* database name that does not parse, an HDFS environment or a directory that
\* cannot be made.
Refuse(t) ==
    /\ \/ At(t, "lock") /\ Op(t) \in {"backupDB", "restoreDB"}
       \/ At(t, "lock") /\ Op(t) = "backupDBToS3" /\ Checkpoint
       \/ At(t, "get") /\ Op(t) = "addDB" /\ app[Db(t)].st # "added"
       \/ At(t, "get") /\ Op(t) = "changeDBRole" /\ th[t].req.role = "SLAVE" /\ th[t].req.up
       \/ At(t, "s3util") \/ At(t, "watch")
    /\ Return(t, "REFUSED")
    /\ UNCHANGED <<app, handle, store, util, s3lock, kafka, count>>

\* addDB and the restores refuse a database that exists.
GetAbsent(t) ==
    /\ At(t, "get")
    /\ Op(t) \in Restores \cup {"addDB"}
    /\ IF app[Db(t)].st = "added"
         THEN Return(t, "DB_EXIST")
         ELSE Only(t, CASE Op(t) \in Restores -> "restore"
                        [] Op(t) = "addDB" /\ th[t].req.overwrite -> "clear_meta"
                        [] OTHER -> "open")
    /\ UNCHANGED <<app, handle, store, util, s3lock, kafka, count>>

\* Handlers that work on an existing database take a reference to it.
GetPresent(t) ==
    /\ At(t, "get")
    /\ Op(t) \notin Restores \cup {"addDB", "closeDB", "changeDBRole", "clearDB"}
    /\ IF app[Db(t)].st # "added"
         THEN Return(t, "DB_NOT_FOUND")
         ELSE /\ th' = [th EXCEPT ![t].ref = TRUE,
                  ![t].pc = CASE Op(t) \in {"backupDB", "backupDBToS3"} -> "backup"
                              [] Op(t) = "addS3SstFilesToDB" -> "already"
                              [] Op(t) = "startMessageIngestion" -> "watch"
                              [] Op(t) = "stopMessageIngestion" -> "unwatch"
                              [] OTHER -> "use"]
              /\ UNCHANGED <<lock, loads>>
    /\ UNCHANGED <<app, handle, store, util, s3lock, kafka, count>>

\* db->IsSlave() ? SLAVE : MASTER, which clearDB and addS3SstFilesToDB use to
\* register the database again.
RoleToReopen(d) == IF app[d].role = "SLAVE" THEN "SLAVE" ELSE "MASTER"

\* closeDB, changeDBRoleAndUpStream and clearDB go on to removeDB().
GetToRemove(t) ==
    LET d == Db(t)
        q == th[t].req
    IN
    /\ At(t, "get")
    /\ \/ /\ Op(t) = "changeDBRole" /\ q.role \notin {"MASTER", "SLAVE"}
          /\ Return(t, "INVALID_DB_ROLE")
       \/ /\ Op(t) = "changeDBRole" /\ q.role \in {"MASTER", "SLAVE"}
          /\ th' = [th EXCEPT ![t].pc = "remove", ![t].role = q.role,
                              ![t].up = q.role = "SLAVE" /\ q.up]
          /\ UNCHANGED <<lock, loads>>
       \/ /\ Op(t) = "clearDB"
          /\ th' = [th EXCEPT ![t].pc = "remove", ![t].role = RoleToReopen(d),
                              ![t].up = app[d].up,
                              ![t].reopen = q.reopen /\ app[d].st = "added"]
          /\ UNCHANGED <<lock, loads>>
       \/ /\ Op(t) = "closeDB"
          /\ Only(t, "remove")
    /\ UNCHANGED <<app, handle, store, util, s3lock, kafka, count>>

\* ApplicationDBManager::removeDB() takes the ApplicationDB out of dbs_.
Remove(t) ==
    LET d == Db(t) IN
    /\ At(t, "remove")
    /\ \/ /\ app[d].st = "added"
          /\ app' = [app EXCEPT ![d].st = "removed"]
          /\ Only(t, "wait")
       \/ /\ app[d].st # "added" /\ Op(t) \in {"closeDB", "changeDBRole"}
          /\ Return(t, "DB_NOT_FOUND")
          /\ UNCHANGED app
       \/ /\ app[d].st # "added" /\ Op(t) \notin {"closeDB", "changeDBRole"}
          /\ Only(t, IF Op(t) = "clearDB" THEN "clear_meta" ELSE "destroy")
          /\ UNCHANGED app
    /\ UNCHANGED <<handle, store, util, s3lock, kafka, count>>

Referenced(d) ==
    \/ \E t \in Thread : th[t].ref /\ Db(t) = d
    \/ kafka[d].st # "none"

AfterRemove(t) ==
    CASE Op(t) = "closeDB" -> Return(t, "ok")
      [] Op(t) = "changeDBRole" -> Only(t, "register")
      [] Op(t) = "clearDB" -> Only(t, "clear_meta")
      [] OTHER -> Only(t, "destroy")

Removed_Lingers(t) ==
    /\ handle' = IF Op(t) = "changeDBRole" THEN handle
                                           ELSE [handle EXCEPT ![Db(t)] = "closed"]
    /\ AfterRemove(t)
    /\ UNCHANGED <<app, store, util, s3lock, kafka, count>>

Removed_LeavesOpen(t) ==
    /\ app' = [app EXCEPT ![Db(t)] = NoApp]
    /\ AfterRemove(t)
    /\ UNCHANGED <<handle, store, util, s3lock, kafka, count>>

\* The ApplicationDB dies; its rocksdb::DB is closed unless it is registered
\* again.
Removed(t) ==
    LET d == Db(t) IN
    /\ app' = [app EXCEPT ![d] = NoApp]
    /\ handle' = IF Op(t) = "changeDBRole" THEN handle
                                           ELSE [handle EXCEPT ![d] = "closed"]
    /\ AfterRemove(t)
    /\ UNCHANGED <<store, util, s3lock, kafka, count>>

Wait_Skipped(t) ==
    /\ At(t, "wait")
    /\ Removed(t)

\* waitOnApplicationDBRef(): until nobody else holds the ApplicationDB.
Wait(t) ==
    /\ At(t, "wait")
    /\ ~Referenced(Db(t))
    /\ Removed(t)

\* clearMetaData(), before the data goes.
ClearMeta(t) ==
    LET d == Db(t) IN
    /\ At(t, "clear_meta")
    /\ meta' = [meta EXCEPT ![d] = NoMeta]
    /\ IF Op(t) = "addS3SstFilesToDB" /\ ~Overlap
         THEN th' = [th EXCEPT ![t].pc = "remove", ![t].ref = FALSE,
                               ![t].role = RoleToReopen(d),
                               ![t].up = app[d].role = "SLAVE" /\ app[d].up]
         ELSE Goto(t, IF Op(t) = "addS3SstFilesToDB" THEN "ingest" ELSE "destroy")
    /\ UNCHANGED <<lock, app, handle, disk, backup, s3, kafka, count>>

\* rocksdb::DestroyDB(); it fails, half done or not, on an error and on a
\* database that is open.
Destroy(t) ==
    LET d == Db(t) IN
    /\ At(t, "destroy")
    /\ \/ /\ handle[d] = "closed"
          /\ disk' = [disk EXCEPT ![d] = Empty]
          /\ IF Op(t) = "clearDB" /\ ~th[t].reopen THEN Return(t, "ok")
                                                   ELSE Only(t, "open")
       \/ /\ handle[d] = "closed"
          /\ disk' = [disk EXCEPT ![d] = Empty]
          /\ Return(t, "DB_ADMIN_ERROR")
       \/ /\ UNCHANGED disk
          /\ Return(t, "DB_ADMIN_ERROR")
    /\ UNCHANGED <<app, handle, meta, backup, util, s3lock, kafka, count>>

\* rocksdb::DB::Open() or GetRocksdb().
Open(t) ==
    LET d == Db(t) IN
    /\ At(t, "open")
    /\ \/ /\ handle[d] = "closed"
          /\ handle' = [handle EXCEPT ![d] = "open"]
          /\ Only(t, "register")
       \/ /\ Return(t, "DB_ERROR")
          /\ UNCHANGED handle
    /\ UNCHANGED <<app, store, util, s3lock, kafka, count>>

\* addDB looks at db_role only now; the opened rocksdb::DB is leaked.
RejectRole(t) ==
    /\ At(t, "register")
    /\ Op(t) = "addDB" /\ th[t].req.role \notin {"SLAVE", "NOOP"}
    /\ Return(t, "INVALID_DB_ROLE")
    /\ UNCHANGED <<app, handle, store, util, s3lock, kafka, count>>

\* ApplicationDBManager::addDB(): an ApplicationDB with the role and upstream
\* of the request, or of the database that was removed.  It fails if the name
\* is taken, which RegisterFindsNone says it never is.
Register(t) ==
    LET d == Db(t)
        q == th[t].req
        role == CASE Op(t) = "addDB" -> q.role
                  [] Op(t) \in Restores -> "SLAVE"
                  [] OTHER -> th[t].role
        isup == Op(t) \in Restores \cup {"addDB"} \/ th[t].up
    IN
    /\ At(t, "register")
    /\ Op(t) = "addDB" => q.role \in {"SLAVE", "NOOP"}
    /\ app[d].st # "added"
    /\ app' = [app EXCEPT ![d] = [st |-> "added", role |-> role, up |-> isup]]
    /\ IF Op(t) = "addS3SstFilesToDB"
         THEN /\ th' = [th EXCEPT ![t].pc = "ingest", ![t].ref = TRUE]
              /\ UNCHANGED <<lock, loads>>
         ELSE Return(t, "ok")
    /\ UNCHANGED <<handle, store, util, s3lock, kafka, count>>

-----------------------------------------------------------------------------
(***************************************************************************)
(* Loading and backing up.                                                 *)
(***************************************************************************)

\* "Already hosting": the dataset asked for is the one meta_db_ names.
Already(t) ==
    /\ At(t, "already")
    /\ IF meta[Db(t)].s3 = th[t].req.path THEN Return(t, "ok") ELSE Only(t, "count")
    /\ UNCHANGED <<app, handle, store, util, s3lock, kafka, count>>

Count_OffByOne(t) ==
    LET n == loads[Kind(t)] IN
    /\ At(t, "count")
    /\ loads' = [loads EXCEPT ![Kind(t)] = n + 1]
    /\ th' = [th EXCEPT ![t].counted = TRUE,
                        ![t].pc = IF n > MaxLoading THEN "over" ELSE "s3util"]
    /\ UNCHANGED <<lock, app, handle, store, util, s3lock, kafka, count>>

\* fetch_add(1) and the test of what it returned.
Count(t) ==
    LET n == loads[Kind(t)] IN
    /\ At(t, "count")
    /\ loads' = [loads EXCEPT ![Kind(t)] = n + 1]
    /\ th' = [th EXCEPT
                ![t].counted = TRUE,
                ![t].pc = CASE n >= MaxLoading -> "over"
                            [] Op(t) = "backupDBToS3" /\ Checkpoint -> "lock"
                            [] Op(t) = "restoreDBFromS3" /\ Checkpoint -> "wipe"
                            [] OTHER -> "s3util"]
    /\ UNCHANGED <<lock, app, handle, store, util, s3lock, kafka, count>>

\* "Concurrent downloading limit hits": the count goes down again.
OverLimit(t) ==
    /\ At(t, "over")
    /\ Return(t, "DB_ADMIN_ERROR")
    /\ UNCHANGED <<app, handle, store, util, s3lock, kafka, count>>

\* restoreDBFromS3 of a checkpoint empties the database's own directory; it
\* has neither taken db_admin_lock_ nor looked whether the database is open.
Wipe(t) ==
    /\ At(t, "wipe")
    /\ disk' = [disk EXCEPT ![Db(t)] = Empty]
    /\ Only(t, "s3util")
    /\ UNCHANGED <<app, handle, meta, backup, util, s3lock, kafka, count>>

\* createLocalS3Util() takes s3_util_lock_ ...
S3Util(t) ==
    /\ At(t, "s3util")
    /\ s3lock = None
    /\ s3lock' = t
    /\ Only(t, "drain")
    /\ UNCHANGED <<app, handle, store, util, kafka, count>>

\* ... gives it back with a client for the bucket of the request ...
HasUtil(t) ==
    /\ util' = BucketOf[th[t].req.path]
    /\ s3lock' = None
    /\ th' = [th EXCEPT ![t].util = TRUE,
                ![t].pc = CASE Op(t) = "addS3SstFilesToDB" -> "download"
                            [] Op(t) = "restoreDBFromS3" /\ Checkpoint -> "download"
                            [] Op(t) = "backupDBToS3" /\ Checkpoint -> "upload"
                            [] OTHER -> "lock"]
    /\ UNCHANGED <<lock, app, handle, store, loads, kafka, count>>

Drain_Skipped(t) ==
    /\ At(t, "drain")
    /\ HasUtil(t)

\* ... and keeps it while requests that use another bucket drain.
Drain(t) ==
    /\ At(t, "drain")
    /\ util = BucketOf[th[t].req.path] \/ ~\E u \in Thread : th[u].util
    /\ HasUtil(t)

\* The files of a dataset arrive in a directory of their own; the files of a
\* checkpoint in the database's directory, where an error leaves no database.
Download(t) ==
    LET d == Db(t) IN
    /\ At(t, "download")
    /\ \/ /\ Op(t) = "addS3SstFilesToDB"
          /\ Only(t, "clear_meta")
          /\ UNCHANGED disk
       \/ /\ Op(t) = "restoreDBFromS3" /\ backup[d] # None
          /\ disk' = [disk EXCEPT ![d] = backup[d]]
          /\ Only(t, "open")
       \/ /\ Return(t, "DB_ADMIN_ERROR")
          /\ UNCHANGED disk
    /\ UNCHANGED <<app, handle, meta, backup, util, s3lock, kafka, count>>

\* IngestExternalFile()
Ingest(t) ==
    /\ At(t, "ingest")
    /\ \/ /\ disk' = [disk EXCEPT ![Db(t)].s3 = th[t].req.path]
          /\ Only(t, "write_meta")
       \/ /\ Return(t, "DB_ADMIN_ERROR")
          /\ UNCHANGED disk
    /\ UNCHANGED <<app, handle, meta, backup, util, s3lock, kafka, count>>

\* writeMetaData() after the data is in; without a timestamp.
WriteMeta(t) ==
    /\ At(t, "write_meta")
    /\ meta' = [meta EXCEPT ![Db(t)] = [s3 |-> th[t].req.path, ts |-> 0]]
    /\ Return(t, "ok")
    /\ UNCHANGED <<app, handle, disk, backup, util, s3lock, kafka, count>>

\* backupDBHelper(), or the checkpoint that backupDBToS3 uploads later.
Backup(t) ==
    LET d == Db(t) IN
    /\ At(t, "backup")
    /\ \/ /\ Op(t) = "backupDBToS3" /\ Checkpoint
          /\ th' = [th EXCEPT ![t].pc = "s3util", ![t].copy = disk[d]]
          /\ UNCHANGED <<lock, loads, backup>>
       \/ /\ Op(t) = "backupDB" \/ ~Checkpoint
          /\ backup' = [backup EXCEPT ![d] = disk[d]]
          /\ Return(t, "ok")
       \/ /\ Return(t, "DB_ADMIN_ERROR")
          /\ UNCHANGED backup
    /\ UNCHANGED <<app, handle, disk, meta, util, s3lock, kafka, count>>

Upload(t) ==
    /\ At(t, "upload")
    /\ \/ /\ backup' = [backup EXCEPT ![Db(t)] = th[t].copy]
          /\ Return(t, "ok")
       \/ /\ Return(t, "DB_ADMIN_ERROR")
          /\ UNCHANGED backup
    /\ UNCHANGED <<app, handle, disk, meta, util, s3lock, kafka, count>>

\* restoreDBHelper(): RestoreDBFromLatestBackup(), which drops the old files.
Restore(t) ==
    LET d == Db(t) IN
    /\ At(t, "restore")
    /\ \/ /\ backup[d] # None
          /\ disk' = [disk EXCEPT ![d] = backup[d]]
          /\ Only(t, "open")
       \/ /\ disk' \in {disk, [disk EXCEPT ![d] = Empty]}
          /\ Return(t, "DB_ADMIN_ERROR")
    /\ UNCHANGED <<app, handle, meta, backup, util, s3lock, kafka, count>>

\* checkDB, getSequenceNumber, compactDB, setDBOptions.
Use(t) ==
    /\ At(t, "use")
    /\ Return(t, "ok")
    /\ UNCHANGED <<app, handle, store, util, s3lock, kafka, count>>

-----------------------------------------------------------------------------
(***************************************************************************)
(* Kafka ingestion.  The watcher's callback holds the ApplicationDB.       *)
(***************************************************************************)
Later(a, b) == IF a > b THEN a ELSE b

\* startMessageIngestion replays from the later of the requested and the
\* recorded timestamp; the seek may fail and leave a watcher with no thread.
Watch(t) ==
    LET d == Db(t) IN
    /\ At(t, "watch")
    /\ \/ /\ kafka[d].st # "none"
          /\ Return(t, "DB_ADMIN_ERROR")
          /\ UNCHANGED kafka
       \/ /\ kafka[d].st = "none"
          /\ kafka' = [kafka EXCEPT ![d] =
                         [NoKafka EXCEPT !.st = "idle", !.pos = Later(1, meta[d].ts)]]
          /\ Only(t, "replay")
       \/ /\ kafka[d].st = "none"
          /\ kafka' = [kafka EXCEPT ![d].st = "dead"]
          /\ Return(t, "ok")
    /\ UNCHANGED <<app, handle, store, util, s3lock, count>>

\* StartWith() returns when the watcher has caught up and has its own thread.
Replayed(t) ==
    /\ At(t, "replay")
    /\ kafka[Db(t)].st = "idle"
    /\ Return(t, "ok")
    /\ UNCHANGED <<app, handle, store, util, s3lock, kafka, count>>

\* stopMessageIngestion: StopAndWait() joins the watcher's thread.
Unwatch(t) ==
    LET d == Db(t) IN
    /\ At(t, "unwatch")
    /\ \/ /\ kafka[d].st = "none"
          /\ Return(t, "DB_ADMIN_ERROR")
          /\ UNCHANGED kafka
       \/ /\ kafka[d].st \in {"idle", "dead"}
          /\ kafka' = [kafka EXCEPT ![d] = NoKafka]
          /\ Return(t, "ok")
    /\ UNCHANGED <<app, handle, store, util, s3lock, count>>

\* The callback gives a message to the database; every
\* FLAGS_kafka_ts_update_interval messages it records the timestamp.
Consume(d) ==
    LET i == kafka[d].pos IN
    /\ kafka[d].st = "idle" /\ i <= MaxMsgs
    /\ disk' = [disk EXCEPT ![d].upto = IF i = @ + 1 THEN i ELSE @]
    /\ \E st \in {"idle", "meta"} :
          kafka' = [kafka EXCEPT ![d].st = st, ![d].pos = i + 1]
    /\ UNCHANGED <<lock, app, handle, meta, backup, s3, th, count>>

ReadMeta(d) ==
    /\ kafka[d].st = "meta"
    /\ kafka' = [kafka EXCEPT ![d].st = "write", ![d].s3 = meta[d].s3]
    /\ UNCHANGED <<lock, app, handle, store, s3, th, count>>

RecordTimestamp_Next(d) ==
    /\ kafka[d].st = "write"
    /\ meta' = [meta EXCEPT ![d] = [s3 |-> kafka[d].s3, ts |-> kafka[d].pos]]
    /\ kafka' = [kafka EXCEPT ![d].st = "idle"]
    /\ UNCHANGED <<lock, app, handle, disk, backup, s3, th, count>>

\* The entry read before is written back with the timestamp of the message.
RecordTimestamp(d) ==
    /\ kafka[d].st = "write"
    /\ meta' = [meta EXCEPT ![d] = [s3 |-> kafka[d].s3, ts |-> kafka[d].pos - 1]]
    /\ kafka' = [kafka EXCEPT ![d].st = "idle"]
    /\ UNCHANGED <<lock, app, handle, disk, backup, s3, th, count>>

-----------------------------------------------------------------------------
\* The process dies and starts again with no database added.
Crash ==
    /\ count.crashes < MaxCrashes
    /\ count' = [count EXCEPT !.crashes = @ + 1]
    /\ lock' = [d \in DB |-> None]
    /\ app' = [d \in DB |-> NoApp]
    /\ handle' = [d \in DB |-> "closed"]
    /\ loads' \in [down : {0}, up : Garbage]
    /\ util' = None
    /\ s3lock' = None
    /\ kafka' = [d \in DB |-> NoKafka]
    /\ th' = [t \in Thread |-> Idle]
    /\ UNCHANGED store

Handler(t) ==
    \/ Lock(t) \/ Refuse(t) \/ GetAbsent(t) \/ GetPresent(t) \/ GetToRemove(t)
    \/ Remove(t) \/ Wait(t) \/ ClearMeta(t) \/ Destroy(t) \/ Open(t)
    \/ RejectRole(t) \/ Register(t)
    \/ Already(t) \/ Count(t) \/ OverLimit(t) \/ Wipe(t) \/ S3Util(t) \/ Drain(t)
    \/ Download(t) \/ Ingest(t) \/ WriteMeta(t)
    \/ Backup(t) \/ Upload(t) \/ Restore(t) \/ Use(t)
    \/ Watch(t) \/ Replayed(t) \/ Unwatch(t)

Watcher(d) == Consume(d) \/ ReadMeta(d) \/ RecordTimestamp(d)

Next ==
    \/ \E t \in Thread : Handler(t) \/ \E q \in Request : Start(t, q)
    \/ \E d \in DB : Watcher(d)
    \/ Crash

Spec == Init /\ [][Next]_vars

\* Threads run; a lock is given to one of those that wait for it again and
\* again.
Fairness ==
    /\ \A t \in Thread : WF_vars(Handler(t)) /\ SF_vars(Lock(t)) /\ SF_vars(S3Util(t))
    /\ \A d \in DB : WF_vars(Watcher(d))

FairSpec == Spec /\ Fairness

-----------------------------------------------------------------------------
(***************************************************************************)
(* Properties.                                                             *)
(***************************************************************************)

\* removeDB() (application_db_manager.cpp:94): whoever holds an ApplicationDB,
\* a request without the lock or a Kafka callback, finds its rocksdb::DB open.
UsedDBIsOpen ==
    \A d \in DB : Referenced(d) => handle[d] = "open" /\ app[d].st # "none"

\* An open rocksdb::DB belongs to an ApplicationDB or to the handler that is
\* about to register it: no handler loses one.
HandleIsOwned ==
    \A d \in DB : handle[d] = "open" =>
        \/ app[d].st # "none"
        \/ \E t \in Thread : At(t, "register") /\ Db(t) = d

\* The handler that opened the database finds its name free
\* (application_db_manager.cpp:46, application_db.cpp:58).
RegisterFindsNone ==
    \A t \in Thread : At(t, "register") => app[Db(t)].st = "none"

\* rocksdb_admin.thrift:22: the dataset in the meta data is the one "that is
\* currently being hosted by this DB", so that "Already hosting" is true.
HostedIsLoaded ==
    \A d \in DB : meta[d].s3 # None => disk[d].s3 = meta[d].s3

\* A replay from the recorded timestamp (admin_handler.cpp:1533) skips no
\* message that the database was not given.
ReplaySkipsNothing ==
    \A d \in DB : meta[d].ts <= disk[d].upto

\* admin_handler.cpp:625, "Could not restore an opened DB, close it first":
\* the files of an open database are only added to.
FilesOfOpenDBAreKept ==
    [][\A d \in DB :
          handle[d] = "open" =>
              /\ disk'[d].upto >= disk[d].upto
              /\ disk[d].s3 # None => disk'[d].s3 # None]_vars

Counted(k) == {t \in Thread : th[t].counted /\ Kind(t) = k}

\* FLAGS_max_s3_sst_loading_concurrency, "Max S3 SST loading concurrency"
\* (line 94): so many requests go on to download files, whatever the order in
\* which they count, and the count does not drift.
DownloadsAreLimited ==
    /\ loads["down"] = Cardinality(Counted("down"))
    /\ Cardinality({t \in Counted("down") : ~At(t, "over")}) <= MaxLoading

\* Lines 1303-1311: requests for another bucket wait until the old ones are
\* done, so that there is one S3 client at a time and each request has the
\* client of its bucket.
S3ClientIsOwn ==
    \A t \in Thread : th[t].util => util = BucketOf[th[t].req.path]

\* Line 1303: a request for another bucket "has to wait for old requests to
\* drain", and they do.
OldRequestsDrain ==
    \A t \in Thread : At(t, "drain") ~> ~At(t, "drain")

\* Every request is answered: no handler waits for ever for a lock, for the
\* references to an ApplicationDB or for the S3 client.
RequestsAreAnswered ==
    \A t \in Thread : ~At(t, "idle") ~> At(t, "idle")
=============================================================================
