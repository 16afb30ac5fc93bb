---------------------------- MODULE Replication -----------------------------
(***************************************************************************)
(* rocksdb_replicator/replicated_db.cpp: pull-based replication of one     *)
(* database.  A slave asks its upstream for the updates after its own last *)
(* sequence number; the upstream reads them from its write-ahead log with  *)
(* an iterator it keeps cached under the sequence number the slave should  *)
(* ask for next; the slave applies them and asks again.  A client write to *)
(* the master returns when the replication mode says it is replicated.     *)
(*                                                                         *)
(* A node's database is its log (WriteAheadLog).  The clients' waits use   *)
(* what MaxNumberBox promises, the parked requests what                    *)
(* NonBlockingConditionVariable promises.                                  *)
(***************************************************************************)
EXTENDS Naturals, Sequences, Bags, WriteAheadLog

CONSTANTS
    Node,         \* the replicas of the database
    Upstream,     \* Upstream[n]: whom n pulls from; n itself for the master
    Call,         \* bound: the replicate RPCs that can be outstanding at once
    Mode,         \* FLAGS_replicator_replication_mode
    MaxUpdates,   \* FLAGS_replicator_max_updates_per_response
    MaxFaults     \* bound on lost messages, RPC errors and I/O errors

ASSUME NodeAssumption == Node # {}
ASSUME UpstreamAssumption == Upstream \in [Node -> Node]
ASSUME ModeAssumption == Mode \in 0 .. 2
ASSUME MaxUpdatesAssumption == MaxUpdates \in Nat
ASSUME MaxFaultsAssumption == MaxFaults \in Nat

VARIABLES
    log,       \* log[n]: the operations in n's rocksdb::DB
    acked,     \* acked[n]: max_seq_no_acked_
    cache,     \* cache[n]: the bag of cached_iters_, each its key and position
    dbst,      \* dbst[n]: "present" in db_map_, or "removed" from it
    role,      \* role[n]: role_
    up,        \* up[n]: upstream_addr_
    adds,      \* history: how many replicas were put back with addDB()
    pull,      \* pull[n]: where the pull loop of slave n is
    applying,  \* applying[n]: the operations n has received and not yet applied
    call,      \* call[c]: an outstanding replicate RPC
    wr,        \* wr[b]: the client call that writes batch b
    sent,      \* history: the batches put into a response
    faults     \* history: how many faults have happened

vars == <<log, acked, cache, dbst, role, up, adds, pull, applying, call, wr, sent,
          faults>>
cfgVars == <<dbst, role, up, adds>>

Iter == [key : Nat, pos : Nat]

\* rpc: what is on the wire; live: the slave still waits for the answer;
\* srv: where the server is with it; next: next_seq_no; pos: where its
\* iterator is, 0 for none; n: updates read so far; upd: their operations.
NoCall == [rpc |-> "none", live |-> FALSE, from |-> CHOOSE n \in Node : TRUE,
           to |-> CHOOSE n \in Node : TRUE, seq |-> 0, srv |-> "none",
           next |-> 0, pos |-> 0, n |-> 0, upd |-> << >>]

CallRec == [rpc : {"none", "request", "handling", "response", "exception"},
            live : BOOLEAN, from : Node, to : Node, seq : Nat,
            srv : {"none", "parked", "serve", "read", "finish", "orphan"},
            next : Nat, pos : Nat, n : Nat, upd : Seq(Op)]

NoWrite == [st |-> "new", node |-> CHOOSE n \in Node : TRUE, seq |-> 0]

WriteRec == [st : {"new", "written", "wait", "ok", "timeout", "error", "rejected",
                   "crashed"},
             node : Node, seq : Nat]

TypeOK ==
    /\ log \in [Node -> Seq(Op)]
    /\ acked \in [Node -> Nat]
    /\ cache = [n \in Node |-> cache[n]]
    /\ \A n \in Node : IsABag(cache[n]) /\ BagToSet(cache[n]) \subseteq Iter
    /\ dbst \in [Node -> {"present", "removed"}]
    /\ role \in [Node -> {"MASTER", "SLAVE", "NOOP"}]
    /\ up \in [Node -> Node]
    /\ adds \in Nat
    /\ pull \in [Node -> {"stopped", "ready", "waiting", "apply", "delay"}]
    /\ applying \in [Node -> Seq(Op)]
    /\ call \in [Call -> CallRec]
    /\ wr \in [Batch -> WriteRec]
    /\ sent \subseteq Batch
    /\ faults \in 0 .. MaxFaults

Init ==
    /\ log = [n \in Node |-> << >>]
    /\ acked = [n \in Node |-> 0]
    /\ cache = [n \in Node |-> EmptyBag]
    /\ dbst = [n \in Node |-> "present"]
    /\ role = [n \in Node |-> IF Upstream[n] = n THEN "MASTER" ELSE "SLAVE"]
    /\ up = Upstream
    /\ adds = 0
    /\ pull = [n \in Node |-> IF Upstream[n] = n THEN "stopped" ELSE "ready"]
    /\ applying = [n \in Node |-> << >>]
    /\ call = [c \in Call |-> NoCall]
    /\ wr = [b \in Batch |-> NoWrite]
    /\ sent = {}
    /\ faults = 0

-----------------------------------------------------------------------------
Latest(n) == Len(log[n])

Post_Exclusive(n, num) == acked' = [acked EXCEPT ![n] = num - 1]

\* max_seq_no_acked_.post()
Post(n, num) == acked' = [acked EXCEPT ![n] = IF num > @ THEN num ELSE @]

Fault == faults < MaxFaults /\ faults' = faults + 1

\* Who holds a shared_ptr to the ReplicatedDB of n besides db_map_: client
\* writes, the executor while it serves a request, the pull callback.
Held(n) ==
    \/ \E b \in Batch : wr[b].st \in {"written", "wait"} /\ wr[b].node = n
    \/ \E c \in Call : call[c].srv \in {"read", "finish"} /\ call[c].to = n
    \/ pull[n] \in {"apply", "ready"}

\* weak_db.lock() succeeds.
Alive(n) == dbst[n] = "present" \/ Held(n)

\* A call that nobody waits for, serves or carries any more is over.
Set(c, r) ==
    call' = [call EXCEPT ![c] =
               IF r.rpc = "none" /\ r.srv = "none" /\ ~r.live THEN NoCall ELSE r]

-----------------------------------------------------------------------------
(***************************************************************************)
(* The slave: pullFromUpstream() and its callback                          *)
(***************************************************************************)
Pull(s, c) ==
    /\ pull[s] = "ready"
    /\ call[c] = NoCall
    /\ call' = [call EXCEPT ![c] =
                  [NoCall EXCEPT !.rpc = "request", !.live = TRUE, !.from = s,
                                 !.to = up[s], !.seq = Latest(s)]]
    /\ pull' = [pull EXCEPT ![s] = "waiting"]
    /\ UNCHANGED <<log, acked, cache, cfgVars, applying, wr, sent, faults>>

\* The callback gets the response; it starts to apply the updates.
Receive(c) ==
    LET r == call[c] IN
    /\ r.rpc = "response"
    /\ r.live /\ Alive(r.from)
    /\ Set(c, [r EXCEPT !.rpc = "none", !.live = FALSE, !.upd = << >>])
    /\ applying' = [applying EXCEPT ![r.from] = r.upd]
    /\ pull' = [pull EXCEPT ![r.from] = "apply"]
    /\ UNCHANGED <<log, acked, cache, cfgVars, wr, sent, faults>>

\* The callback gets a ReplicateException.
ReceiveException(c) ==
    LET r == call[c] IN
    /\ r.rpc = "exception"
    /\ r.live /\ Alive(r.from)
    /\ Set(c, [r EXCEPT !.rpc = "none", !.live = FALSE])
    /\ pull' = [pull EXCEPT ![r.from] = "delay"]
    /\ UNCHANGED <<log, acked, cache, cfgVars, applying, wr, sent, faults>>

\* The slave's ReplicatedDB is gone when the callback runs: the loop ends.
CallbackExpired(c) ==
    LET r == call[c] IN
    /\ r.live /\ ~Alive(r.from)
    /\ Set(c, [r EXCEPT !.live = FALSE])
    /\ pull' = [pull EXCEPT ![r.from] = "stopped"]
    /\ UNCHANGED <<log, acked, cache, cfgVars, applying, wr, sent, faults>>

\* The RPC times out, or the connection breaks, at the slave.  It needs no
\* fault if a message of the call was lost.
RpcError(c) ==
    LET r == call[c] IN
    /\ r.live /\ Alive(r.from)
    /\ IF r.rpc = "none" THEN UNCHANGED faults ELSE Fault
    /\ Set(c, [r EXCEPT !.live = FALSE])
    /\ pull' = [pull EXCEPT ![r.from] = "delay"]
    /\ UNCHANGED <<log, acked, cache, cfgVars, applying, wr, sent>>

\* db_->Write() of the next update.
ApplyUpdate(s) ==
    LET b == Head(applying[s])[1] IN
    /\ pull[s] = "apply"
    /\ applying[s] # << >>
    /\ log' = [log EXCEPT ![s] = @ \o Block(b)]
    /\ applying' = [applying EXCEPT ![s] = SubSeq(@, Count[b] + 1, Len(@))]
    /\ UNCHANGED <<acked, cache, cfgVars, pull, call, wr, sent, faults>>

ApplyFails_Continues(s) ==
    LET b == Head(applying[s])[1] IN
    /\ pull[s] = "apply"
    /\ applying[s] # << >>
    /\ Fault
    /\ applying' = [applying EXCEPT ![s] = SubSeq(@, Count[b] + 1, Len(@))]
    /\ UNCHANGED <<log, acked, cache, cfgVars, pull, call, wr, sent>>

\* db_->Write() fails: the rest of the response is dropped, the next pull
\* is delayed.
ApplyFails(s) ==
    /\ pull[s] = "apply"
    /\ applying[s] # << >>
    /\ Fault
    /\ applying' = [applying EXCEPT ![s] = << >>]
    /\ pull' = [pull EXCEPT ![s] = "delay"]
    /\ UNCHANGED <<log, acked, cache, cfgVars, call, wr, sent>>

ApplyDone(s) ==
    /\ pull[s] = "apply"
    /\ applying[s] = << >>
    /\ pull' = [pull EXCEPT ![s] = "ready"]
    /\ UNCHANGED <<log, acked, cache, cfgVars, applying, call, wr, sent, faults>>

DelayOver_NotScheduled(s) == pull[s] = "delay" /\ UNCHANGED vars

\* The delayed pull, unless the ReplicatedDB is gone.
DelayOver(s) ==
    /\ pull[s] = "delay"
    /\ pull' = [pull EXCEPT ![s] = IF Alive(s) THEN "ready" ELSE "stopped"]
    /\ UNCHANGED <<log, acked, cache, cfgVars, applying, call, wr, sent, faults>>

-----------------------------------------------------------------------------
(***************************************************************************)
(* The network                                                             *)
(***************************************************************************)
LoseMessage(c) ==
    LET r == call[c] IN
    /\ r.rpc \in {"request", "response", "exception"}
    /\ Fault
    /\ Set(c, [r EXCEPT !.rpc = "none", !.upd = << >>])
    /\ UNCHANGED <<log, acked, cache, cfgVars, pull, applying, wr, sent>>

\* An answer that comes after the slave's RPC has failed is not delivered.
DropLateAnswer(c) ==
    LET r == call[c] IN
    /\ r.rpc \in {"response", "exception"}
    /\ ~r.live
    /\ Set(c, [r EXCEPT !.rpc = "none", !.upd = << >>])
    /\ UNCHANGED <<log, acked, cache, cfgVars, pull, applying, wr, sent, faults>>

-----------------------------------------------------------------------------
(***************************************************************************)
(* The upstream: ReplicatorHandler and handleReplicateRequest()            *)
(***************************************************************************)
HandleRequest_AcksNext(c) ==
    LET r == call[c] IN
    /\ r.rpc = "request"
    /\ IF Mode # 0 THEN Post(r.to, r.seq + 1) ELSE UNCHANGED acked
    /\ call' = [call EXCEPT
                  ![c].rpc = "handling",
                  ![c].srv = IF Latest(r.to) > r.seq THEN "serve" ELSE "parked"]
    /\ UNCHANGED <<log, cache, cfgVars, pull, applying, wr, sent, faults>>

\* The sequence number of the request is what the slave has committed.  The
\* request is handed to the executor at once, or parked.
HandleRequest(c) ==
    LET r == call[c] IN
    /\ r.rpc = "request"
    /\ dbst[r.to] = "present"
    /\ IF Mode # 0 THEN Post(r.to, r.seq) ELSE UNCHANGED acked
    /\ call' = [call EXCEPT
                  ![c].rpc = "handling",
                  ![c].srv = IF Latest(r.to) > r.seq THEN "serve" ELSE "parked"]
    /\ UNCHANGED <<log, cache, cfgVars, pull, applying, wr, sent, faults>>

\* SOURCE_NOT_FOUND: the database is not in db_map_.
RejectRequest(c) ==
    LET r == call[c] IN
    /\ r.rpc = "request"
    /\ dbst[r.to] # "present"
    /\ call' = [call EXCEPT ![c].rpc = "exception"]
    /\ UNCHANGED <<log, acked, cache, cfgVars, pull, applying, wr, sent, faults>>

Wake_OnlyNotified(c) ==
    /\ call[c].srv = "parked"
    /\ Latest(call[c].to) > call[c].seq
    /\ call' = [call EXCEPT ![c].srv = "serve"]
    /\ UNCHANGED <<log, acked, cache, cfgVars, pull, applying, wr, sent, faults>>

\* cond_var_ runs a parked request: notified, or after max_wait_ms.
Wake(c) ==
    /\ call[c].srv = "parked"
    /\ call' = [call EXCEPT ![c].srv = "serve"]
    /\ UNCHANGED <<log, acked, cache, cfgVars, pull, applying, wr, sent, faults>>

\* SOURCE_NOT_FOUND: the ReplicatedDB is gone when its task runs.
SourceRemoved(c) ==
    LET r == call[c] IN
    /\ r.srv = "orphan" \/ (r.srv = "serve" /\ ~Alive(r.to))
    /\ call' = [call EXCEPT ![c].srv = "none", ![c].rpc = "exception"]
    /\ UNCHANGED <<log, acked, cache, cfgVars, pull, applying, wr, sent, faults>>

Cached(n, seq) == {it \in BagToSet(cache[n]) : it.key = seq}

\* getCachedIter() and, if there is none or it has nothing to read (the wait
\* timed out, or a new log file was created), a fresh iterator.
OpenIter(c) ==
    LET r == call[c]
        first == r.seq + 1
        Reading(pos) == call' = [call EXCEPT ![c] =
                          [r EXCEPT !.srv = "read", !.next = first, !.pos = pos]]
    IN
    /\ r.srv = "serve" /\ Alive(r.to)
    /\ \/ \E it \in Cached(r.to, first) :
            /\ cache' = [cache EXCEPT ![r.to] = @ (-) SetToBag({it})]
            /\ \/ it.pos <= Latest(r.to) /\ Reading(it.pos)
               \/ Reading(GetUpdatesSince(log[r.to], first))
       \/ /\ Cached(r.to, first) = {}
          /\ Reading(GetUpdatesSince(log[r.to], first))
          /\ UNCHANGED cache
    /\ UNCHANGED <<log, acked, cfgVars, pull, applying, wr, sent, faults>>

\* SOURCE_READ_ERROR: GetUpdatesSince() fails.
OpenIterFails(c) ==
    LET r == call[c] IN
    /\ r.srv = "serve" /\ Alive(r.to)
    /\ Fault
    /\ \/ \E it \in Cached(r.to, r.seq + 1) :
            cache' = [cache EXCEPT ![r.to] = @ (-) SetToBag({it})]
       \/ Cached(r.to, r.seq + 1) = {} /\ UNCHANGED cache
    /\ call' = [call EXCEPT ![c].srv = "none", ![c].rpc = "exception"]
    /\ UNCHANGED <<log, acked, cfgVars, pull, applying, wr, sent>>

HasUpdate(r) == r.n < MaxUpdates /\ r.pos # 0 /\ r.pos <= Latest(r.to)

\* One round of the loop that fills the response.
ReadUpdate(c) ==
    LET r == call[c]
        b == log[r.to][r.pos][1]
    IN
    /\ r.srv = "read"
    /\ HasUpdate(r)
    /\ call' = [call EXCEPT ![c] =
                  [r EXCEPT !.next = @ + Count[b], !.pos = @ + Count[b],
                            !.n = @ + 1, !.upd = @ \o Block(b)]]
    /\ UNCHANGED <<log, acked, cache, cfgVars, pull, applying, wr, sent, faults>>

Reply(c) ==
    LET r == call[c] IN
    /\ r.srv = "read"
    /\ ~HasUpdate(r)
    /\ call' = [call EXCEPT ![c].rpc = "response", ![c].srv = "finish"]
    /\ sent' = sent \cup Batches(r.upd)
    /\ UNCHANGED <<log, acked, cache, cfgVars, pull, applying, wr, faults>>

Finish_KeyIsLast(c) ==
    LET r == call[c] IN
    /\ r.srv = "finish"
    /\ IF Mode = 1 THEN Post(r.to, r.next - 1) ELSE UNCHANGED acked
    /\ cache' = IF r.pos = 0 THEN cache
                ELSE [cache EXCEPT ![r.to] =
                        @ (+) SetToBag({[key |-> r.next - 1, pos |-> r.pos]})]
    /\ Set(c, [r EXCEPT !.srv = "none", !.next = 0, !.pos = 0, !.n = 0])
    /\ UNCHANGED <<log, cfgVars, pull, applying, wr, sent, faults>>

Finish_AcksNext(c) ==
    LET r == call[c] IN
    /\ r.srv = "finish"
    /\ IF Mode = 1 THEN Post(r.to, r.next) ELSE UNCHANGED acked
    /\ cache' = IF r.pos = 0 THEN cache
                ELSE [cache EXCEPT ![r.to] =
                        @ (+) SetToBag({[key |-> r.next, pos |-> r.pos]})]
    /\ Set(c, [r EXCEPT !.srv = "none", !.next = 0, !.pos = 0, !.n = 0])
    /\ UNCHANGED <<log, cfgVars, pull, applying, wr, sent, faults>>

\* After the response is on its way: mode 1 counts it as replicated, and the
\* iterator goes back to the cache under the next expected number.
Finish(c) ==
    LET r == call[c] IN
    /\ r.srv = "finish"
    /\ IF Mode = 1 THEN Post(r.to, r.next - 1) ELSE UNCHANGED acked
    /\ cache' = IF r.pos = 0 THEN cache
                ELSE [cache EXCEPT ![r.to] =
                        @ (+) SetToBag({[key |-> r.next, pos |-> r.pos]})]
    /\ Set(c, [r EXCEPT !.srv = "none", !.next = 0, !.pos = 0, !.n = 0])
    /\ UNCHANGED <<log, cfgVars, pull, applying, wr, sent, faults>>

\* The cleaner erases an iterator that has been idle too long (ages are
\* abstracted: any iterator may have been).
CleanIdleCachedIters(n) ==
    /\ \E it \in BagToSet(cache[n]) :
         cache' = [cache EXCEPT ![n] = @ (-) SetToBag({it})]
    /\ UNCHANGED <<log, acked, cfgVars, pull, applying, call, wr, sent, faults>>

-----------------------------------------------------------------------------
(***************************************************************************)
(* The clients: RocksDBReplicator::write() and ReplicatedDB::Write()       *)
(***************************************************************************)
Write(b, n) ==
    /\ wr[b].st = "new"
    /\ dbst[n] = "present"
    /\ role[n] # "SLAVE"
    /\ log' = [log EXCEPT ![n] = @ \o Block(b)]
    /\ wr' = [wr EXCEPT ![b].st = "written", ![b].node = n]
    /\ UNCHANGED <<acked, cache, cfgVars, pull, applying, call, sent, faults>>

\* WRITE_TO_SLAVE
WriteToSlave(b, n) ==
    /\ wr[b].st = "new"
    /\ dbst[n] = "present"
    /\ role[n] = "SLAVE"
    /\ wr' = [wr EXCEPT ![b].st = "rejected", ![b].node = n]
    /\ UNCHANGED <<log, acked, cache, cfgVars, pull, applying, call, sent, faults>>

\* WRITE_ERROR: rocksdb::DB::Write() fails.
WriteFails(b, n) ==
    /\ wr[b].st = "new"
    /\ dbst[n] = "present"
    /\ role[n] # "SLAVE"
    /\ Fault
    /\ wr' = [wr EXCEPT ![b].st = "error", ![b].node = n]
    /\ UNCHANGED <<log, acked, cache, cfgVars, pull, applying, call, sent>>

ReadSeqNo_BeforeWrite(b) ==
    LET n == wr[b].node IN
    /\ wr[b].st = "written"
    /\ wr' = [wr EXCEPT ![b].st = IF Mode = 0 THEN "ok" ELSE "wait",
                        ![b].seq = Latest(n) - Count[b]]
    /\ UNCHANGED <<log, acked, cache, cfgVars, pull, applying, call, sent, faults>>

\* cur_seq_no is read after the write, when other clients may have written.
ReadSeqNo(b) ==
    LET n == wr[b].node IN
    /\ wr[b].st = "written"
    /\ wr' = [wr EXCEPT ![b].st = IF Mode = 0 THEN "ok" ELSE "wait",
                        ![b].seq = Latest(n)]
    /\ UNCHANGED <<log, acked, cache, cfgVars, pull, applying, call, sent, faults>>

WriteAcked(b) ==
    /\ wr[b].st = "wait"
    /\ wr[b].seq <= acked[wr[b].node]
    /\ wr' = [wr EXCEPT ![b].st = "ok"]
    /\ UNCHANGED <<log, acked, cache, cfgVars, pull, applying, call, sent, faults>>

WriteTimeout_Never(b) == wr[b].st = "wait" /\ FALSE

\* WAIT_SLAVE_TIMEOUT
WriteTimeout(b) ==
    /\ wr[b].st = "wait"
    /\ wr[b].seq > acked[wr[b].node]
    /\ wr' = [wr EXCEPT ![b].st = "timeout"]
    /\ UNCHANGED <<log, acked, cache, cfgVars, pull, applying, call, sent, faults>>

-----------------------------------------------------------------------------
SlaveStep(s) ==
    \/ ApplyUpdate(s)
    \/ ApplyDone(s)
    \/ DelayOver(s)
    \/ \E c \in Call : Pull(s, c)

CallStep(c) ==
    \/ Receive(c)
    \/ ReceiveException(c)
    \/ DropLateAnswer(c)
    \/ CallbackExpired(c)
    \/ call[c].rpc = "none" /\ RpcError(c)

ServerStep(c) ==
    \/ HandleRequest(c)
    \/ RejectRequest(c)
    \/ Wake(c)
    \/ SourceRemoved(c)
    \/ OpenIter(c)
    \/ ReadUpdate(c)
    \/ Reply(c)
    \/ Finish(c)

ClientStep(b) ==
    \/ ReadSeqNo(b)
    \/ WriteAcked(b)
    \/ WriteTimeout(b)

Next ==
    \/ \E s \in Node : \/ ApplyUpdate(s) \/ ApplyDone(s) \/ DelayOver(s)
                       \/ ApplyFails(s) \/ CleanIdleCachedIters(s)
                       \/ \E c \in Call : Pull(s, c)
    \/ \E c \in Call : \/ Receive(c) \/ ReceiveException(c) \/ RpcError(c)
                       \/ CallbackExpired(c) \/ LoseMessage(c) \/ DropLateAnswer(c)
                       \/ HandleRequest(c) \/ RejectRequest(c) \/ Wake(c)
                       \/ SourceRemoved(c)
                       \/ OpenIter(c) \/ OpenIterFails(c)
                       \/ ReadUpdate(c) \/ Reply(c) \/ Finish(c)
    \/ \E b \in Batch : \/ \E n \in Node : \/ Write(b, n) \/ WriteToSlave(b, n)
                                           \/ WriteFails(b, n)
                        \/ ReadSeqNo(b) \/ WriteAcked(b) \/ WriteTimeout(b)

Spec == Init /\ [][Next]_vars

\* The executor runs what it is given, timers fire, messages that are not
\* lost arrive, and an RPC that lost one fails in the end.  Clients need not
\* write and nothing need go wrong.
Fairness ==
    /\ \A s \in Node : WF_vars(SlaveStep(s))
    /\ \A c \in Call : WF_vars(CallStep(c)) /\ WF_vars(ServerStep(c))
    /\ \A b \in Batch : WF_vars(ClientStep(b))

FairSpec == Spec /\ Fairness

-----------------------------------------------------------------------------
(***************************************************************************)
(* Properties                                                              *)
(***************************************************************************)
Slaves(n) == {s \in Node : s # n /\ role[s] = "SLAVE" /\ up[s] = n}

\* A slave never skips, repeats or reorders an update, although it does not
\* check what it receives (replicated_db.cpp:180-203): its log is a prefix of
\* its upstream's, through lost messages, late answers, failed writes and
\* cached iterators that several calls race for.
SlaveIsPrefix ==
    \A s \in Node : role[s] = "SLAVE" => IsPrefixOf(log[s], log[up[s]])

\* replicator.thrift:54-55: "updates is an ordered continuous range of updates
\* starting from the seq_no specified": what is in a response on the wire is
\* what follows the sequence number of its request in the upstream's log.
ResponseIsContinuousRange ==
    \A c \in Call :
        LET r == call[c] IN
        r.rpc = "response" =>
            \A i \in 1 .. Len(r.upd) :
                /\ r.seq + i <= Latest(r.to)
                /\ r.upd[i] = log[r.to][r.seq + i]

\* One pull loop per slave, and it never dies: "It is very bad if we fail to
\* rescheudle a pull request" (replicated_db.cpp:213).  A slave in db_map_
\* waits for exactly one answer, or is about to ask; no late answer or error
\* starts a second loop.
SinglePullLoop ==
    \A s \in Node :
        LET Waits == {c \in Call : call[c].live /\ call[c].from = s} IN
        /\ \A c, d \in Waits : c = d
        /\ Waits # {} <=> pull[s] = "waiting"
        /\ role[s] = "SLAVE" /\ dbst[s] = "present" => pull[s] # "stopped"

\* The replication modes (replicated_db.cpp:41-46): a write that returned OK
\* was put into a response to a slave in mode 1, and is in the database of a
\* slave of its master in mode 2.
AckIsReplicated ==
    \A b \in Batch :
        wr[b].st = "ok" =>
            /\ Mode = 1 => b \in sent
            /\ Mode = 2 => \E s \in Slaves(wr[b].node) : b \in Batches(log[s])

\* The sequence number Write() hands out (rocksdb_replicator.h:90-92) gives
\* read-after-write consistency: a replica that has reached it has the batch.
SeqNoCoversWrite ==
    \A b \in Batch, s \in Node :
        wr[b].st \in {"wait", "ok", "timeout"} /\ Latest(s) >= wr[b].seq
            => b \in Batches(log[s])

\* Whatever is committed on a node reaches every slave of it.
SlavesCatchUp ==
    \A b \in Batch, s \in Node :
        (role[s] = "SLAVE" /\ b \in Batches(log[up[s]])) ~> (b \in Batches(log[s]))
=============================================================================
