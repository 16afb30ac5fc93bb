------------------------ MODULE ReplicationReconfig -------------------------
(***************************************************************************)
(* rocksdb_replicator/rocksdb_replicator.cpp on top of Replication: a      *)
(* replica is taken out with removeDB() and put back, with another role or *)
(* upstream, with addDB() -- what AdminHandler::changeDBRoleAndUpStream()  *)
(* does -- and a server process dies.  Its database keeps its log.         *)
(***************************************************************************)
EXTENDS Replication

CONSTANTS Config,    \* the [node, role, up] that addDB() is called with
          MaxAdds    \* bound on the calls of addDB()

ASSUME ConfigAssumption ==
    Config \subseteq [node : Node, role : {"MASTER", "SLAVE", "NOOP"}, up : Node]

\* removeDB() takes the ReplicatedDB out of db_map_; it returns when nobody
\* holds the object any more, that is, when ~Alive(n).
RemoveDB(n) ==
    /\ dbst[n] = "present"
    /\ adds < MaxAdds
    /\ dbst' = [dbst EXCEPT ![n] = "removed"]
    /\ UNCHANGED <<log, acked, cache, role, up, pull, applying, call, wr, sent,
                   faults, adds>>

AddDB_LoopSurvives(f) ==
    LET n == f.node IN
    /\ ~Alive(n)
    /\ adds < MaxAdds
    /\ dbst' = [dbst EXCEPT ![n] = "present"]
    /\ role' = [role EXCEPT ![n] = f.role]
    /\ up' = [up EXCEPT ![n] = f.up]
    /\ acked' = [acked EXCEPT ![n] = 0]
    /\ cache' = [cache EXCEPT ![n] = EmptyBag]
    /\ pull' = [pull EXCEPT ![n] = IF f.role = "SLAVE" THEN "ready" ELSE "stopped"]
    /\ adds' = adds + 1
    /\ UNCHANGED <<log, applying, call, wr, sent, faults>>

\* addDB(): a new ReplicatedDB, with an empty box and no iterators.  What was
\* waiting for the old one keeps a weak_ptr to it and finds it gone.
AddDB(f) ==
    LET n == f.node IN
    /\ ~Alive(n)
    /\ adds < MaxAdds
    /\ dbst' = [dbst EXCEPT ![n] = "present"]
    /\ role' = [role EXCEPT ![n] = f.role]
    /\ up' = [up EXCEPT ![n] = f.up]
    /\ acked' = [acked EXCEPT ![n] = 0]
    /\ cache' = [cache EXCEPT ![n] = EmptyBag]
    /\ pull' = [pull EXCEPT ![n] = IF f.role = "SLAVE" THEN "ready" ELSE "stopped"]
    /\ call' = [c \in Call |->
                  [call[c] EXCEPT
                     !.live = @ /\ call[c].from # n,
                     !.srv = IF call[c].to = n /\ @ \in {"parked", "serve"}
                               THEN "orphan" ELSE @]]
    /\ adds' = adds + 1
    /\ UNCHANGED <<log, applying, wr, sent, faults>>

\* The process of n dies: its threads, its pending calls and the connections
\* to it are gone.
Crash(n) ==
    /\ dbst[n] = "present"
    /\ adds < MaxAdds
    /\ Fault
    /\ dbst' = [dbst EXCEPT ![n] = "removed"]
    /\ pull' = [pull EXCEPT ![n] = "stopped"]
    /\ applying' = [applying EXCEPT ![n] = << >>]
    /\ wr' = [b \in Batch |->
                IF wr[b].node = n /\ wr[b].st \in {"written", "wait"}
                  THEN [wr[b] EXCEPT !.st = "crashed"] ELSE wr[b]]
    /\ call' = [c \in Call |->
                  [call[c] EXCEPT
                     !.live = @ /\ call[c].from # n,
                     !.srv = IF call[c].to = n THEN "none" ELSE @,
                     !.rpc = IF call[c].to = n THEN "none" ELSE @,
                     !.upd = IF call[c].to = n THEN << >> ELSE @]]
    /\ UNCHANGED <<log, acked, cache, role, up, sent, adds>>

\* A call of which nothing is left.
Forget(c) ==
    /\ call[c] # NoCall
    /\ call[c].rpc = "none" /\ call[c].srv = "none" /\ ~call[c].live
    /\ call' = [call EXCEPT ![c] = NoCall]
    /\ UNCHANGED <<log, acked, cache, cfgVars, pull, applying, wr, sent, faults>>

ReconfigNext ==
    \/ Next
    \/ \E n \in Node : RemoveDB(n) \/ Crash(n)
    \/ \E f \in Config : AddDB(f)
    \/ \E c \in Call : Forget(c)

ReconfigSpec == Init /\ [][ReconfigNext]_vars

ReconfigFairness ==
    /\ \A n \in Node : WF_vars(SlaveStep(n))
    /\ \A c \in Call : /\ WF_vars(CallStep(c))
                       /\ WF_vars(ServerStep(c))
                       /\ WF_vars(Forget(c))
    /\ \A b \in Batch : WF_vars(ClientStep(b))

FairReconfigSpec == ReconfigSpec /\ ReconfigFairness

-----------------------------------------------------------------------------
(***************************************************************************)
(* Properties.  SinglePullLoop must survive reconfiguration too.           *)
(***************************************************************************)

\* removeDB() returns (rocksdb_replicator.cpp:131-137): once the database is
\* out of db_map_, the holders of the object let go of it one by one and take
\* no new reference for ever.
RemoveDBReturns ==
    \A n \in Node : (dbst[n] = "removed") ~> (~Alive(n) \/ dbst[n] = "present")

\* replicated_db.cpp:46, mode 2: "ack client once committed to Master and one
\* of the Slaves", stated at the step in which Write() returns OK.
AckStepIsReplicated ==
    [][\A b \in Batch :
          Mode = 2 /\ wr[b].st = "wait" /\ wr'[b].st = "ok" =>
              \E s \in Slaves(wr[b].node) : b \in Batches(log[s])]_vars

\* Every replicate request that reached a server is answered or dies with the
\* process, also when the database is removed while the request is parked.
RequestsAreAnswered ==
    \A c \in Call : (call[c].srv # "none") ~> (call[c].srv = "none")
=============================================================================
