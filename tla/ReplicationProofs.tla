------------------------- MODULE ReplicationProofs --------------------------
(***************************************************************************)
(* Proofs about Replication: for any replicas, topology, batches, response *)
(* limit and number of faults, a slave's log is a prefix of its            *)
(* upstream's, and a response is the continuous range after the number of  *)
(* its request.                                                            *)
(***************************************************************************)
EXTENDS Replication, WriteAheadLogProofs, TLAPS

Static ==
    /\ dbst = [n \in Node |-> "present"]
    /\ role = [n \in Node |-> IF Upstream[n] = n THEN "MASTER" ELSE "SLAVE"]
    /\ up = Upstream

LogInv == \A n \in Node : Whole(log[n])

\* What a call carries is the range after its sequence number, of whole
\* batches; its iterator is where next_seq_no says.
CallOK(r) ==
    LET l == log[r.to] IN
    /\ At(l, r.seq + 1)
    /\ Follows(r.upd, l, r.seq)
    /\ At(l, r.seq + Len(r.upd) + 1)
    /\ r.srv \in {"parked", "serve", "read"} => r.rpc = "handling"
    /\ r.rpc = "request" \/ r.srv \in {"parked", "serve"} => r.upd = << >>
    /\ r.srv = "read" => r.next = r.seq + Len(r.upd) + 1
    /\ r.srv \in {"read", "finish"} =>
          /\ r.next >= 1
          /\ r.pos # 0 => r.pos = r.next /\ At(l, r.pos)

CallInv == \A c \in Call : CallOK(call[c])

\* A slave that waits for an answer asked its upstream for what comes after
\* its log; and it waits for one answer.
LiveInv ==
    /\ \A c \in Call :
          LET r == call[c] IN
          r.live => /\ r.to = Upstream[r.from]
                    /\ r.seq = Len(log[r.from])
                    /\ pull[r.from] = "waiting"
    /\ \A c, d \in Call :
          call[c].live /\ call[d].live /\ call[c].from = call[d].from => c = d

\* What a slave has is a prefix of its upstream's log, and what it has
\* received and not applied comes next in that log.
SlaveOK(s) ==
    LET l == log[Upstream[s]] IN
    /\ Upstream[s] = s => pull[s] = "stopped" /\ applying[s] = << >>
    /\ IsPrefixOf(log[s], l)
    /\ At(l, Len(log[s]) + 1)
    /\ Follows(applying[s], l, Len(log[s]))
    /\ At(l, Len(log[s]) + Len(applying[s]) + 1)

SlaveInv == \A s \in Node : SlaveOK(s)

\* An iterator is cached under the sequence number it is at.
CacheInv ==
    \A n \in Node : \A it \in BagToSet(cache[n]) :
        it.key = it.pos /\ At(log[n], it.pos)

IInv == TypeOK /\ Static /\ LogInv /\ CallInv /\ LiveInv /\ SlaveInv /\ CacheInv

-----------------------------------------------------------------------------
\* Appending a batch to a log keeps what is known of every log.
LEMMA LogGrows ==
    ASSUME IInv, NEW n \in Node, NEW b \in Batch,
           log' = [log EXCEPT ![n] = @ \o Block(b)]
    PROVE  /\ log' \in [Node -> Seq(Op)]
           /\ \A k \in Node : k # n => log'[k] = log[k]
           /\ log'[n] = log[n] \o Block(b)
           /\ \A k \in Node : Whole(log'[k])
           /\ \A k \in Node : \A p : At(log[k], p) => At(log'[k], p)
           /\ \A k \in Node : \A u \in Seq(Op) : \A q \in Nat :
                 Follows(u, log[k], q) => Follows(u, log'[k], q)
           /\ \A k \in Node : \A a \in Seq(Op) :
                 IsPrefixOf(a, log[k]) => IsPrefixOf(a, log'[k])
  <1>1. log \in [Node -> Seq(Op)] /\ \A k \in Node : Whole(log[k])
    BY DEF IInv, TypeOK, LogInv
  <1>2. log[n] \in Seq(Op) /\ log[n] \o Block(b) \in Seq(Op)
    BY <1>1, AppendBatch
  <1>3. /\ log' \in [Node -> Seq(Op)]
        /\ \A k \in Node : k # n => log'[k] = log[k]
        /\ log'[n] = log[n] \o Block(b)
    BY <1>1, <1>2
  <1>4. Whole(log[n] \o Block(b))
    BY <1>1, <1>2, WholeAppend
  <1>5. \A p : At(log[n], p) => At(log[n] \o Block(b), p)
    BY <1>2, AtAppend
  <1>6. \A u \in Seq(Op) : \A q \in Nat :
            Follows(u, log[n], q) => Follows(u, log[n] \o Block(b), q)
    BY <1>2, FollowsAppend
  <1>7. \A a \in Seq(Op) : IsPrefixOf(a, log[n]) => IsPrefixOf(a, log[n] \o Block(b))
    BY <1>2, PrefixAppend
  <1>8. ASSUME NEW k \in Node
        PROVE  /\ Whole(log'[k])
               /\ \A p : At(log[k], p) => At(log'[k], p)
               /\ \A u \in Seq(Op) : \A q \in Nat :
                     Follows(u, log[k], q) => Follows(u, log'[k], q)
               /\ \A a \in Seq(Op) : IsPrefixOf(a, log[k]) => IsPrefixOf(a, log'[k])
    <2>1. CASE k = n
      BY <1>3, <1>4, <1>5, <1>6, <1>7, <2>1, Zenon
    <2>2. CASE k # n
      BY <1>1, <1>3, <2>2, Zenon
    <2>3. QED BY <2>1, <2>2
  <1>9. QED BY <1>3, <1>8, Zenon

\* The record of no call is a call record.
LEMMA NoCallTyped == NoCall \in CallRec
  BY NodeAssumption DEF NoCall, CallRec

\* The record of no call satisfies what is asked of calls.
LEMMA NoCallOK ==
    ASSUME TypeOK, LogInv
    PROVE  NoCall \in CallRec /\ CallOK(NoCall)
  <1>1. NoCall \in CallRec
    BY NoCallTyped
  <1>2. NoCall.to \in Node /\ NoCall.seq = 0 /\ NoCall.upd = << >> /\ NoCall.srv = "none"
        /\ NoCall.rpc = "none"
    BY NodeAssumption DEF NoCall
  <1> DEFINE l == log[NoCall.to]
  <1>3. l \in Seq(Op) /\ Whole(l)
    BY <1>2 DEF TypeOK, LogInv
  <1>4. At(l, 1)
    BY <1>3, AtFirst
  <1>5. Follows(<< >>, l, 0)
    BY <1>3 DEF Follows
  <1>6. QED BY <1>1, <1>2, <1>4, <1>5 DEF CallOK

\* No step of Replication itself changes the configuration.
LEMMA ConfigIsFixed ==
    ASSUME [Next]_vars
    PROVE  UNCHANGED cfgVars
  <1> USE DEF cfgVars
  <1>1. ASSUME NEW s \in Node,
               \/ ApplyUpdate(s) \/ ApplyDone(s) \/ DelayOver(s) \/ ApplyFails(s)
               \/ CleanIdleCachedIters(s) \/ \E c \in Call : Pull(s, c)
        PROVE  UNCHANGED cfgVars
    BY <1>1 DEF ApplyUpdate, ApplyDone, DelayOver, ApplyFails, CleanIdleCachedIters, Pull
  <1>2. ASSUME NEW c \in Call,
               \/ Receive(c) \/ ReceiveException(c) \/ RpcError(c) \/ CallbackExpired(c)
               \/ LoseMessage(c) \/ DropLateAnswer(c) \/ HandleRequest(c) \/ RejectRequest(c)
        PROVE  UNCHANGED cfgVars
    BY <1>2 DEF Receive, ReceiveException, RpcError, CallbackExpired, LoseMessage,
       DropLateAnswer, HandleRequest, RejectRequest
  <1>3. ASSUME NEW c \in Call,
               \/ Wake(c) \/ SourceRemoved(c) \/ OpenIter(c) \/ OpenIterFails(c)
               \/ ReadUpdate(c) \/ Reply(c) \/ Finish(c)
        PROVE  UNCHANGED cfgVars
    BY <1>3 DEF Wake, SourceRemoved, OpenIter, OpenIterFails, ReadUpdate, Reply, Finish
  <1>4. ASSUME NEW b \in Batch, NEW n \in Node,
               Write(b, n) \/ WriteToSlave(b, n) \/ WriteFails(b, n)
        PROVE  UNCHANGED cfgVars
    BY <1>4 DEF Write, WriteToSlave, WriteFails
  <1>5. ASSUME NEW b \in Batch, ReadSeqNo(b) \/ WriteAcked(b) \/ WriteTimeout(b)
        PROVE  UNCHANGED cfgVars
    BY <1>5 DEF ReadSeqNo, WriteAcked, WriteTimeout
  <1>6. CASE UNCHANGED vars
    BY <1>6 DEF vars
  <1>7. QED BY <1>1, <1>2, <1>3, <1>4, <1>5, <1>6 DEF Next

\* Roles and upstreams stay what the constants say.
LEMMA NextStatic == IInv /\ [Next]_vars => Static'
  BY ConfigIsFixed DEF IInv, Static, cfgVars

\* Logs change only by a client's write on the master and by applying a
\* received batch on a slave.
LEMMA LogSteps ==
    ASSUME [Next]_vars
    PROVE  \/ UNCHANGED log
           \/ \E s \in Node : ApplyUpdate(s)
           \/ \E b \in Batch, n \in Node : Write(b, n)
  <1>1. ASSUME NEW s \in Node,
               \/ ApplyUpdate(s) \/ ApplyDone(s) \/ DelayOver(s) \/ ApplyFails(s)
               \/ CleanIdleCachedIters(s) \/ \E c \in Call : Pull(s, c)
        PROVE  UNCHANGED log \/ ApplyUpdate(s)
    BY <1>1 DEF ApplyDone, DelayOver, ApplyFails, CleanIdleCachedIters, Pull
  <1>2. ASSUME NEW c \in Call,
               \/ Receive(c) \/ ReceiveException(c) \/ RpcError(c) \/ CallbackExpired(c)
               \/ LoseMessage(c) \/ DropLateAnswer(c) \/ HandleRequest(c) \/ RejectRequest(c)
        PROVE  UNCHANGED log
    BY <1>2 DEF Receive, ReceiveException, RpcError, CallbackExpired, LoseMessage,
       DropLateAnswer, HandleRequest, RejectRequest
  <1>3. ASSUME NEW c \in Call,
               \/ Wake(c) \/ SourceRemoved(c) \/ OpenIter(c) \/ OpenIterFails(c)
               \/ ReadUpdate(c) \/ Reply(c) \/ Finish(c)
        PROVE  UNCHANGED log
    BY <1>3 DEF Wake, SourceRemoved, OpenIter, OpenIterFails, ReadUpdate, Reply, Finish
  <1>4. ASSUME NEW b \in Batch, NEW n \in Node,
               Write(b, n) \/ WriteToSlave(b, n) \/ WriteFails(b, n)
        PROVE  UNCHANGED log \/ Write(b, n)
    BY <1>4 DEF WriteToSlave, WriteFails
  <1>5. ASSUME NEW b \in Batch, ReadSeqNo(b) \/ WriteAcked(b) \/ WriteTimeout(b)
        PROVE  UNCHANGED log
    BY <1>5 DEF ReadSeqNo, WriteAcked, WriteTimeout
  <1>6. CASE UNCHANGED vars
    BY <1>6 DEF vars
  <1>7. QED BY <1>1, <1>2, <1>3, <1>4, <1>5, <1>6 DEF Next

\* What is applied is a batch.
LEMMA AppliedBatch ==
    ASSUME IInv, NEW s \in Node, ApplyUpdate(s)
    PROVE  LET b == Head(applying[s])[1]
               l == log[Upstream[s]]
           IN  /\ Upstream[s] # s
               /\ b \in Batch
               /\ log' = [log EXCEPT ![s] = @ \o Block(b)]
               /\ applying' \in [Node -> Seq(Op)]
               /\ \A k \in Node : k # s => applying'[k] = applying[k]
               /\ log'[Upstream[s]] = l
               /\ IsPrefixOf(log'[s], l)
               /\ Follows(applying'[s], l, Len(log'[s]))
               /\ At(l, Len(log'[s]) + 1)
               /\ At(l, Len(log'[s]) + Len(applying'[s]) + 1)
  <1> DEFINE b == Head(applying[s])[1]
             l == log[Upstream[s]]
             u == applying[s]
             v == SubSeq(u, Count[b] + 1, Len(u))
             d == log[s] \o Block(b)
  <1>1. /\ log \in [Node -> Seq(Op)] /\ applying \in [Node -> Seq(Op)]
        /\ Upstream[s] \in Node /\ SlaveOK(s) /\ Whole(l)
    BY UpstreamAssumption DEF IInv, TypeOK, SlaveInv, LogInv
  <1>2. pull[s] = "apply" /\ u # << >> /\ log' = [log EXCEPT ![s] = d]
        /\ applying' = [applying EXCEPT ![s] = v]
    BY DEF ApplyUpdate
  <1>3. Upstream[s] # s
    BY <1>1, <1>2 DEF SlaveOK
  <1>4. /\ IsPrefixOf(log[s], l) /\ Follows(u, l, Len(log[s]))
        /\ At(l, Len(log[s]) + 1) /\ At(l, Len(log[s]) + Len(u) + 1)
    BY <1>1 DEF SlaveOK
  <1>5. l \in Seq(Op) /\ u \in Seq(Op) /\ log[s] \in Seq(Op)
    BY <1>1
  <1>6. /\ b \in Batch
        /\ v \in Seq(Op)
        /\ Len(d) + Len(v) = Len(log[s]) + Len(u)
        /\ IsPrefixOf(d, l)
        /\ Follows(v, l, Len(d))
        /\ At(l, Len(d) + 1)
    BY <1>1, <1>2, <1>4, <1>5, ApplyBatch
  <1> HIDE DEF b, u, v, d
  <1>7. log'[s] = d /\ applying'[s] = v /\ log'[Upstream[s]] = l
        /\ applying' \in [Node -> Seq(Op)]
        /\ \A k \in Node : k # s => applying'[k] = applying[k]
    BY <1>1, <1>2, <1>3, <1>6
  <1>8. At(l, Len(d) + Len(v) + 1)
    BY <1>4, <1>6, Zenon
  <1>9. QED BY <1>2, <1>3, <1>6, <1>7, <1>8 DEF b, d

-----------------------------------------------------------------------------
\* A step that changes a log appends a batch to it.
LEMMA LogStepIsAppend ==
    ASSUME IInv, [Next]_vars
    PROVE  \/ UNCHANGED log
           \/ \E n \in Node, b \in Batch : log' = [log EXCEPT ![n] = @ \o Block(b)]
  <1>1. CASE UNCHANGED log
    BY <1>1
  <1>2. CASE \E s \in Node : ApplyUpdate(s)
    BY <1>2, AppliedBatch
  <1>3. CASE \E b \in Batch, n \in Node : Write(b, n)
    BY <1>3 DEF Write
  <1>4. QED BY <1>1, <1>2, <1>3, LogSteps

\* What every step keeps of the logs.
LEMMA LogFacts ==
    ASSUME IInv, [Next]_vars
    PROVE  /\ log' \in [Node -> Seq(Op)]
           /\ \A k \in Node : Whole(log'[k])
           /\ \A k \in Node : \A p : At(log[k], p) => At(log'[k], p)
           /\ \A k \in Node : \A u \in Seq(Op) : \A q \in Nat :
                 Follows(u, log[k], q) => Follows(u, log'[k], q)
           /\ \A k \in Node : \A a \in Seq(Op) :
                 IsPrefixOf(a, log[k]) => IsPrefixOf(a, log'[k])
  <1>1. CASE UNCHANGED log
    BY <1>1 DEF IInv, TypeOK, LogInv
  <1>2. CASE \E n \in Node, b \in Batch : log' = [log EXCEPT ![n] = @ \o Block(b)]
    <2>1. PICK n \in Node, b \in Batch : log' = [log EXCEPT ![n] = @ \o Block(b)]
      BY <1>2
    <2>2. QED BY <2>1, LogGrows
  <1>3. QED BY <1>1, <1>2, LogStepIsAppend

\* Every log consists of whole batches.
LEMMA NextLogInv == IInv /\ [Next]_vars => LogInv'
  BY LogFacts DEF LogInv

\* A call that a step leaves alone stays what it was.
LEMMA CallKept ==
    ASSUME IInv, [Next]_vars, NEW r \in CallRec, CallOK(r)
    PROVE  CallOK(r)'
  <1>1. r.to \in Node /\ r.upd \in Seq(Op) /\ r.seq \in Nat
    BY DEF CallRec
  <1>2. \A p : At(log[r.to], p) => At(log'[r.to], p)
    BY <1>1, LogFacts
  <1>3. Follows(r.upd, log[r.to], r.seq) => Follows(r.upd, log'[r.to], r.seq)
    BY <1>1, LogFacts
  <1>4. QED BY <1>2, <1>3 DEF CallOK

\* Over a step that does not touch the logs, what a call may be is decided by
\* its record.
LEMMA CallMoves ==
    ASSUME IInv, UNCHANGED log, NEW c \in Call, NEW r \in CallRec, CallOK(r),
           call' = [call EXCEPT ![c] = r]
    PROVE  CallInv' /\ call' \in [Call -> CallRec]
  <1>1. call \in [Call -> CallRec] /\ \A d \in Call : CallOK(call[d])
    BY DEF IInv, TypeOK, CallInv
  <1>2. call' \in [Call -> CallRec] /\ \A d \in Call : call'[d] = IF d = c THEN r ELSE call[d]
    BY <1>1
  <1>3. \A d \in Call : CallOK(call'[d])
    BY <1>1, <1>2
  <1>4. QED BY <1>2, <1>3 DEF CallInv, CallOK

\* The same for a call that may be over.
LEMMA CallSet ==
    ASSUME IInv, UNCHANGED log, NEW c \in Call, NEW r \in CallRec, CallOK(r), Set(c, r)
    PROVE  CallInv' /\ call' \in [Call -> CallRec]
  <1>1. NoCall \in CallRec /\ CallOK(NoCall)
    BY NoCallOK DEF IInv
  <1>2. CASE r.rpc = "none" /\ r.srv = "none" /\ ~r.live
    BY <1>1, <1>2, CallMoves DEF Set
  <1>3. CASE ~(r.rpc = "none" /\ r.srv = "none" /\ ~r.live)
    BY <1>3, CallMoves DEF Set
  <1>4. QED BY <1>2, <1>3

\* Every step keeps the calls as they should be.
LEMMA NextCallInv ==
    ASSUME IInv, [Next]_vars
    PROVE  CallInv' /\ call' \in [Call -> CallRec]
  <1> USE DEF cfgVars
  <1>0. call \in [Call -> CallRec] /\ \A c \in Call : call[c] \in CallRec /\ CallOK(call[c])
    BY DEF IInv, TypeOK, CallInv
  <1>a. \A c \in Call : LET l == log[call[c].to] IN
            /\ call[c].to \in Node /\ l \in Seq(Op) /\ Len(l) \in Nat /\ Whole(l)
            /\ call[c].seq \in Nat /\ call[c].upd \in Seq(Op) /\ Len(call[c].upd) \in Nat
            /\ << >> \in Seq(Op) /\ Follows(<< >>, l, call[c].seq)
    <2> SUFFICES ASSUME NEW c \in Call
                 PROVE LET l == log[call[c].to] IN
            /\ call[c].to \in Node /\ l \in Seq(Op) /\ Len(l) \in Nat /\ Whole(l)
            /\ call[c].seq \in Nat /\ call[c].upd \in Seq(Op) /\ Len(call[c].upd) \in Nat
            /\ << >> \in Seq(Op) /\ Follows(<< >>, l, call[c].seq)
      OBVIOUS
    <2>1. call[c].to \in Node /\ call[c].seq \in Nat /\ call[c].upd \in Seq(Op)
      BY <1>0 DEF CallRec
    <2>2. log[call[c].to] \in Seq(Op) /\ Whole(log[call[c].to])
      BY <2>1 DEF IInv, TypeOK, LogInv
    <2>3. At(log[call[c].to], call[c].seq + 1)
      BY <1>0 DEF CallOK
    <2>4. Follows(<< >>, log[call[c].to], call[c].seq)
      BY <2>1, <2>2, <2>3 DEF At, Follows
    <2>5. QED BY <2>1, <2>2, <2>4
  <1>1. CASE UNCHANGED call
    <2>1. \A c \in Call : CallOK(call[c])'
      BY <1>0, <1>1, CallKept DEF CallOK
    <2>2. QED BY <1>0, <1>1, <2>1 DEF CallInv
  <1>2. ASSUME NEW s \in Node, NEW c \in Call, Pull(s, c)
        PROVE  CallInv' /\ call' \in [Call -> CallRec]
    <2> DEFINE r == [NoCall EXCEPT !.rpc = "request", !.live = TRUE, !.from = s,
                                   !.to = up[s], !.seq = Latest(s)]
               l == log[Upstream[s]]
    <2>1. Upstream[s] \in Node /\ up[s] = Upstream[s] /\ Latest(s) \in Nat
      BY UpstreamAssumption DEF IInv, Static, TypeOK, Latest
    <2>2. r \in CallRec /\ r.to = Upstream[s] /\ r.seq = Len(log[s]) /\ r.upd = << >>
          /\ r.srv = "none" /\ r.rpc = "request"
      <3>1. NoCall \in CallRec /\ NoCall.upd = << >> /\ NoCall.srv = "none"
        BY NoCallOK DEF IInv, NoCall
      <3>2. r \in CallRec
        BY <2>1, <3>1, Zenon DEF CallRec
      <3>3. QED BY <2>1, <3>1, Zenon DEF CallRec, Latest
    <2>3. l \in Seq(Op) /\ At(l, Len(log[s]) + 1)
      BY <2>1 DEF IInv, TypeOK, SlaveInv, SlaveOK
    <2>4. Follows(<< >>, l, Len(log[s]))
      BY <2>1, <2>3 DEF At, Follows, Latest
    <2>5. CallOK(r)
      <3> HIDE DEF r
      <3>1. Len(r.upd) = 0 /\ Len(log[s]) + 0 + 1 = Len(log[s]) + 1
        BY <2>1, <2>2 DEF Latest
      <3>2. QED BY <2>2, <2>3, <2>4, <3>1 DEF CallOK
    <2>6. QED BY <1>2, <2>2, <2>5, CallMoves DEF Pull
  <1>3. ASSUME NEW c \in Call,
               Receive(c) \/ LoseMessage(c) \/ DropLateAnswer(c)
        PROVE  CallInv' /\ call' \in [Call -> CallRec]
    <2> DEFINE q == call[c]
    <2>1. q.rpc \in {"request", "response", "exception"} /\ UNCHANGED log
      BY <1>3 DEF Receive, LoseMessage, DropLateAnswer
    <2>2. \/ Set(c, [q EXCEPT !.rpc = "none", !.live = FALSE, !.upd = << >>])
          \/ Set(c, [q EXCEPT !.rpc = "none", !.upd = << >>])
      BY <1>3 DEF Receive, LoseMessage, DropLateAnswer
    <2>3. ASSUME NEW x, x = [q EXCEPT !.rpc = "none", !.live = FALSE, !.upd = << >>]
                        \/ x = [q EXCEPT !.rpc = "none", !.upd = << >>]
          PROVE  x \in CallRec /\ CallOK(x)
      <3>1. q \in CallRec /\ CallOK(q)
        BY <1>0
      <3>2. /\ x \in CallRec /\ x.to = q.to /\ x.seq = q.seq /\ x.upd = << >> /\ x.rpc = "none"
            /\ x.srv = q.srv /\ x.next = q.next /\ x.pos = q.pos
        <4> HIDE DEF q
        <4>1. << >> \in Seq(Op)
          BY <1>a
        <4>2. CASE x = [q EXCEPT !.rpc = "none", !.live = FALSE, !.upd = << >>]
          BY <3>1, <4>1, <4>2, Zenon DEF CallRec
        <4>3. CASE x = [q EXCEPT !.rpc = "none", !.upd = << >>]
          BY <3>1, <4>1, <4>3, Zenon DEF CallRec
        <4>4. QED BY <2>3, <4>2, <4>3
      <3>3. Len(x.upd) = 0 /\ q.seq + 0 + 1 = q.seq + 1
        BY <1>a, <3>2
      <3>4. QED BY <1>a, <2>1, <3>1, <3>2, <3>3 DEF CallOK
    <2>4. QED BY <2>1, <2>2, <2>3, CallSet
  <1>4. ASSUME NEW c \in Call,
               ReceiveException(c) \/ RpcError(c) \/ CallbackExpired(c)
        PROVE  CallInv' /\ call' \in [Call -> CallRec]
    <2> DEFINE q == call[c]
    <2>1. q \in CallRec /\ CallOK(q) /\ UNCHANGED log
      BY <1>0, <1>4 DEF ReceiveException, RpcError, CallbackExpired
    <2>2. \/ q.rpc = "exception" /\ Set(c, [q EXCEPT !.rpc = "none", !.live = FALSE])
          \/ Set(c, [q EXCEPT !.live = FALSE])
      BY <1>4 DEF ReceiveException, RpcError, CallbackExpired
    <2>3. ASSUME NEW x, \/ q.rpc = "exception" /\ x = [q EXCEPT !.rpc = "none", !.live = FALSE]
                        \/ x = [q EXCEPT !.live = FALSE]
          PROVE  x \in CallRec /\ CallOK(x)
      <3>1. /\ x \in CallRec /\ x.to = q.to /\ x.seq = q.seq /\ x.upd = q.upd
            /\ x.srv = q.srv /\ x.next = q.next /\ x.pos = q.pos
            /\ x.rpc = q.rpc \/ (q.rpc = "exception" /\ x.rpc = "none")
        BY <2>1, <2>3 DEF CallRec
      <3>2. QED BY <2>1, <3>1 DEF CallOK
    <2>4. QED BY <2>1, <2>2, <2>3, CallSet
  <1>5. ASSUME NEW c \in Call, UNCHANGED log,
               NEW rpc1 \in {"handling", "response", "exception"},
               NEW srv1 \in {"none", "parked", "serve", "finish"},
               call' = [call EXCEPT ![c].rpc = rpc1, ![c].srv = srv1],
               srv1 \in {"parked", "serve"} => rpc1 = "handling" /\ call[c].upd = << >>,
               srv1 = "finish" => call[c].srv = "read"
        PROVE  CallInv' /\ call' \in [Call -> CallRec]
    <2> DEFINE q == call[c]
               x == [q EXCEPT !.rpc = rpc1, !.srv = srv1]
    <2>1. q \in CallRec /\ CallOK(q)
      BY <1>0
    <2>2. call' = [call EXCEPT ![c] = x]
      BY <1>0, <1>5, <2>1, Zenon
    <2>3. x \in CallRec
      BY <1>5, <2>1, Zenon DEF CallRec
    <2>4. /\ x.rpc = rpc1 /\ x.srv = srv1 /\ x.to = q.to /\ x.seq = q.seq /\ x.upd = q.upd
          /\ x.next = q.next /\ x.pos = q.pos
      BY <2>1, Zenon DEF CallRec
    <2> HIDE DEF x
    <2>5. CallOK(x)
      BY <1>5, <2>1, <2>4 DEF CallOK
    <2>6. QED BY <1>5, <2>2, <2>3, <2>5, CallMoves
  <1>6. ASSUME NEW c \in Call, HandleRequest(c) \/ RejectRequest(c)
        PROVE  CallInv' /\ call' \in [Call -> CallRec]
    <2>1. call[c].rpc = "request" /\ call[c].upd = << >> /\ UNCHANGED log
      BY <1>0, <1>6 DEF CallOK, HandleRequest, RejectRequest
    <2>2. dbst[call[c].to] = "present"
      BY <1>a DEF IInv, Static
    <2>3. call' = [call EXCEPT ![c].rpc = "handling",
                     ![c].srv = IF Latest(call[c].to) > call[c].seq THEN "serve" ELSE "parked"]
      BY <1>6, <2>2 DEF HandleRequest, RejectRequest
    <2>4. PICK srv1 \in {"parked", "serve"} :
             call' = [call EXCEPT ![c].rpc = "handling", ![c].srv = srv1]
      BY <2>3
    <2>5. srv1 \in {"none", "parked", "serve", "finish"} /\ srv1 # "finish"
      BY <2>4
    <2>6. "handling" \in {"handling", "response", "exception"}
      OBVIOUS
    <2>7. QED BY <2>1, <2>4, <2>5, <2>6, <1>5
  <1>7. ASSUME NEW c \in Call, Wake(c)
        PROVE  CallInv' /\ call' \in [Call -> CallRec]
    <2>1. call[c].srv = "parked" /\ UNCHANGED log /\ call' = [call EXCEPT ![c].srv = "serve"]
      BY <1>7 DEF Wake
    <2>2. call[c].upd = << >> /\ call[c].rpc = "handling"
      BY <1>0, <2>1 DEF CallOK
    <2>3. call' = [call EXCEPT ![c].rpc = "handling", ![c].srv = "serve"]
      <3>1. call[c] \in CallRec
        BY <1>0
      <3>2. [call[c] EXCEPT !.srv = "serve"] = [call[c] EXCEPT !.rpc = "handling", !.srv = "serve"]
        BY <2>2, <3>1 DEF CallRec
      <3>3. QED BY <1>0, <2>1, <3>2, Zenon
    <2>4. "serve" \in {"none", "parked", "serve", "finish"} /\ "serve" # "finish"
          /\ "handling" \in {"handling", "response", "exception"}
      OBVIOUS
    <2>5. QED BY <2>1, <2>2, <2>3, <2>4, <1>5, Zenon
  <1>8. ASSUME NEW c \in Call, SourceRemoved(c) \/ OpenIterFails(c)
        PROVE  CallInv' /\ call' \in [Call -> CallRec]
    <2>1. UNCHANGED log /\ call' = [call EXCEPT ![c].srv = "none", ![c].rpc = "exception"]
      BY <1>8 DEF SourceRemoved, OpenIterFails
    <2>2. call' = [call EXCEPT ![c].rpc = "exception", ![c].srv = "none"]
      <3>1. call[c] \in CallRec
        BY <1>0
      <3>2. [call[c] EXCEPT !.srv = "none", !.rpc = "exception"]
               = [call[c] EXCEPT !.rpc = "exception", !.srv = "none"]
        BY <3>1 DEF CallRec
      <3>3. QED BY <1>0, <2>1, <3>2, Zenon
    <2>3. "none" \in {"none", "parked", "serve", "finish"} /\ "none" # "finish"
          /\ "none" \notin {"parked", "serve"}
          /\ "exception" \in {"handling", "response", "exception"}
      OBVIOUS
    <2>4. QED BY <2>1, <2>2, <2>3, <1>5, Zenon
  <1>9. ASSUME NEW c \in Call, Reply(c)
        PROVE  CallInv' /\ call' \in [Call -> CallRec]
    <2>1. "finish" \in {"none", "parked", "serve", "finish"} /\ "finish" \notin {"parked", "serve"}
          /\ "response" \in {"handling", "response", "exception"}
      OBVIOUS
    <2>2. /\ UNCHANGED log /\ call[c].srv = "read"
          /\ call' = [call EXCEPT ![c].rpc = "response", ![c].srv = "finish"]
      BY <1>9 DEF Reply
    <2>3. QED BY <2>1, <2>2, <1>5, Zenon
  <1>10. ASSUME NEW c \in Call, OpenIter(c)
         PROVE  CallInv' /\ call' \in [Call -> CallRec]
    <2> DEFINE q == call[c]
               l == log[q.to]
               first == q.seq + 1
    <2>1. q.srv = "serve" /\ UNCHANGED log /\ q \in CallRec /\ CallOK(q)
      BY <1>0, <1>10 DEF OpenIter
    <2>2. q.upd = << >> /\ q.rpc = "handling" /\ first \in Nat /\ first >= 1 /\ At(l, first)
      BY <1>a, <2>1 DEF CallOK
    <2>3. \E pos \in {0, first} :
             call' = [call EXCEPT ![c] = [q EXCEPT !.srv = "read", !.next = first, !.pos = pos]]
      <3>1. GetUpdatesSince(l, first) \in {0, first}
        BY <1>a, <2>2, FreshIter
      <3>2. \A it \in Cached(q.to, first) : it.pos = first
        BY <1>a DEF IInv, CacheInv, Cached
      <3>3. QED BY <1>10, <3>1, <3>2 DEF OpenIter
    <2>4. PICK pos \in {0, first} :
             call' = [call EXCEPT ![c] = [q EXCEPT !.srv = "read", !.next = first, !.pos = pos]]
      BY <2>3
    <2> DEFINE x == [q EXCEPT !.srv = "read", !.next = first, !.pos = pos]
    <2>5. pos \in Nat
      BY <2>2
    <2>6. x \in CallRec
      BY <2>1, <2>2, <2>5, Zenon DEF CallRec
    <2>7. /\ x.rpc = q.rpc /\ x.srv = "read" /\ x.to = q.to /\ x.seq = q.seq /\ x.upd = q.upd
          /\ x.next = first /\ x.pos = pos
      BY <2>1, Zenon DEF CallRec
    <2> HIDE DEF x
    <2>8. Len(x.upd) = 0 /\ x.seq + 0 + 1 = first
      BY <1>a, <2>2, <2>7
    <2>9. CallOK(x)
      BY <2>1, <2>2, <2>7, <2>8 DEF CallOK
    <2>10. QED BY <2>1, <2>4, <2>6, <2>9, CallMoves DEF x
  <1>11. ASSUME NEW c \in Call, ReadUpdate(c)
         PROVE  CallInv' /\ call' \in [Call -> CallRec]
    <2> DEFINE q == call[c]
               l == log[q.to]
               p == q.seq + Len(q.upd) + 1
               b == l[q.pos][1]
               x == [q EXCEPT !.next = @ + Count[b], !.pos = @ + Count[b],
                              !.n = @ + 1, !.upd = @ \o Block(b)]
    <2>1. /\ q.srv = "read" /\ q.pos # 0 /\ q.pos <= Len(l) /\ UNCHANGED log
          /\ call' = [call EXCEPT ![c] = x]
          /\ q \in CallRec /\ CallOK(q)
      BY <1>0, <1>11 DEF ReadUpdate, HasUpdate, Latest
    <2>2. /\ q.pos = p /\ q.next = p /\ At(l, p) /\ p <= Len(l) /\ q.rpc = "handling"
          /\ At(l, q.seq + 1) /\ Follows(q.upd, l, q.seq) /\ q.next \in Nat /\ q.n \in Nat
          /\ p \in Nat /\ p >= 1
      BY <1>a, <2>1 DEF CallOK, CallRec
    <2>3. b = l[p][1]
      BY <2>2
    <2> HIDE DEF p
    <2>4. b \in Batch /\ At(l, p + Count[b])
      BY <1>a, <2>2, <2>3, NextBatch
    <2>5. Follows(q.upd \o Block(b), l, q.seq)
      BY <1>a, <2>2, <2>3, FollowsExtend DEF p
    <2>6. q.upd \o Block(b) \in Seq(Op) /\ Len(q.upd \o Block(b)) = Len(q.upd) + Count[b]
      BY <1>a, <2>4, AppendBatch
    <2> HIDE DEF b
    <2>7. Count[b] \in Nat /\ Count[b] >= 1
      BY <2>4, CountAssumption
    <2>8. q.pos + Count[b] \in Nat /\ q.next + Count[b] \in Nat /\ q.n + 1 \in Nat
      BY <2>2, <2>7
    <2>9. x \in CallRec
      BY <2>1, <2>6, <2>8, Zenon DEF CallRec
    <2>10. /\ x.rpc = q.rpc /\ x.srv = "read" /\ x.to = q.to /\ x.seq = q.seq
           /\ x.upd = q.upd \o Block(b) /\ x.next = q.next + Count[b] /\ x.pos = q.pos + Count[b]
      BY <2>1, Zenon DEF CallRec
    <2> HIDE DEF x
    <2>11. x.seq + Len(x.upd) + 1 = p + Count[b] /\ x.next = p + Count[b] /\ x.pos = p + Count[b]
           /\ p + Count[b] >= 1
      <3>1. x.seq = q.seq /\ Len(x.upd) = Len(q.upd) + Count[b]
        BY <2>6, <2>10, Zenon
      <3>2. q.seq \in Nat /\ Len(q.upd) \in Nat
        BY <1>a
      <3>3. \A i, j, k \in Nat : i + (j + k) + 1 = (i + j + 1) + k
        OBVIOUS
      <3>4. x.seq + Len(x.upd) + 1 = p + Count[b]
        <4>1. q.seq + (Len(q.upd) + Count[b]) + 1 = (q.seq + Len(q.upd) + 1) + Count[b]
          BY <2>7, <3>2, <3>3, Zenon
        <4>2. QED BY <3>1, <4>1, Zenon DEF p
      <3>5. x.next = p + Count[b] /\ x.pos = p + Count[b]
        <4>1. q.next = p /\ q.pos = p
          BY <2>2
        <4>2. QED BY <2>10, <4>1, Zenon
      <3>6. p + Count[b] >= 1
        <4>1. \A i, j \in Nat : i >= 1 => i + j >= 1
          OBVIOUS
        <4>2. QED BY <2>2, <2>7, <4>1, Zenon
      <3>7. QED BY <3>4, <3>5, <3>6
    <2>12. CallOK(x)
      BY <2>2, <2>4, <2>5, <2>10, <2>11 DEF CallOK
    <2>13. QED BY <2>1, <2>9, <2>12, CallMoves
  <1>12. ASSUME NEW c \in Call, Finish(c)
         PROVE  CallInv' /\ call' \in [Call -> CallRec]
    <2> DEFINE q == call[c]
               x == [q EXCEPT !.srv = "none", !.next = 0, !.pos = 0, !.n = 0]
    <2>1. q.srv = "finish" /\ UNCHANGED log /\ Set(c, x) /\ q \in CallRec /\ CallOK(q)
      BY <1>0, <1>12 DEF Finish
    <2>2. x \in CallRec
      BY <2>1, Zenon DEF CallRec
    <2>3. /\ x.rpc = q.rpc /\ x.srv = "none" /\ x.to = q.to /\ x.seq = q.seq /\ x.upd = q.upd
      BY <2>1, Zenon DEF CallRec
    <2> HIDE DEF x
    <2>4. CallOK(x)
      BY <2>1, <2>3 DEF CallOK
    <2>5. QED BY <2>1, <2>2, <2>4, CallSet
  <1>13. ASSUME NEW s \in Node, ApplyUpdate(s) \/ ApplyDone(s) \/ DelayOver(s) \/ ApplyFails(s)
                                \/ CleanIdleCachedIters(s)
         PROVE  UNCHANGED call
    BY <1>13 DEF ApplyUpdate, ApplyDone, DelayOver, ApplyFails, CleanIdleCachedIters
  <1>14. ASSUME NEW b \in Batch,
                \/ \E n \in Node : Write(b, n) \/ WriteToSlave(b, n) \/ WriteFails(b, n)
                \/ ReadSeqNo(b) \/ WriteAcked(b) \/ WriteTimeout(b)
         PROVE  UNCHANGED call
    BY <1>14 DEF Write, WriteToSlave, WriteFails, ReadSeqNo, WriteAcked, WriteTimeout
  <1>15. CASE UNCHANGED vars
    BY <1>1, <1>15 DEF vars
  <1>16. QED
    BY <1>1, <1>2, <1>3, <1>4, <1>6, <1>7, <1>8, <1>9, <1>10, <1>11, <1>12, <1>13, <1>14,
       <1>15 DEF Next

\* Every step keeps that a waiting slave waits for one answer, to a request
\* for what follows its log.
LEMMA NextLiveInv ==
    ASSUME IInv, [Next]_vars
    PROVE  LiveInv'
  <1> USE DEF cfgVars
  <1>0. call \in [Call -> CallRec] /\ pull \in [Node -> {"stopped", "ready", "waiting", "apply", "delay"}]
        /\ \A c \in Call : call[c] \in CallRec /\ call[c].from \in Node
    BY DEF IInv, TypeOK, CallRec
  <1>b. LiveInv
    BY DEF IInv
  <1>1. ASSUME UNCHANGED log,
               \A c \in Call : call'[c].live =>
                  /\ call[c].live /\ call'[c].from = call[c].from
                  /\ call'[c].to = call[c].to /\ call'[c].seq = call[c].seq
                  /\ pull'[call[c].from] = pull[call[c].from]
        PROVE  LiveInv'
    BY <1>1, <1>b DEF LiveInv
  <1>2. ASSUME NEW s \in Node, NEW c \in Call, Pull(s, c)
        PROVE  LiveInv'
    <2>1. up[s] = Upstream[s] /\ pull[s] = "ready" /\ pull'[s] = "waiting" /\ UNCHANGED log
      BY <1>0, <1>2 DEF IInv, Static, Pull
    <2>2. /\ call'[c].from = s /\ call'[c].to = up[s] /\ call'[c].seq = Len(log[s])
          /\ \A d \in Call : d # c => call'[d] = call[d]
      <3>1. call'[c] = [NoCall EXCEPT !.rpc = "request", !.live = TRUE, !.from = s,
                                      !.to = up[s], !.seq = Latest(s)]
            /\ \A d \in Call : d # c => call'[d] = call[d]
        BY <1>0, <1>2 DEF Pull
      <3>2. QED BY <3>1 DEF NoCall, Latest
    <2>3. \A d \in Call : call[d].live => call[d].from # s
      BY <1>b, <2>1 DEF LiveInv
    <2>4. \A n \in Node : n # s => pull'[n] = pull[n]
      BY <1>0, <1>2 DEF Pull
    <2>5. ASSUME NEW d \in Call, call'[d].live
          PROVE  /\ call'[d].to = Upstream[call'[d].from]
                 /\ call'[d].seq = Len(log'[call'[d].from])
                 /\ pull'[call'[d].from] = "waiting"
      <3>1. CASE d = c
        BY <2>1, <2>2, <3>1
      <3>2. CASE d # c
        BY <1>0, <1>b, <2>1, <2>2, <2>3, <2>4, <2>5, <3>2 DEF LiveInv
      <3>3. QED BY <3>1, <3>2
    <2>6. ASSUME NEW d \in Call, NEW e \in Call, call'[d].live, call'[e].live,
                 call'[d].from = call'[e].from
          PROVE  d = e
      BY <1>b, <2>2, <2>3, <2>6 DEF LiveInv
    <2>7. QED BY <2>5, <2>6 DEF LiveInv
  <1>3. ASSUME NEW c \in Call,
               \/ Receive(c) \/ ReceiveException(c) \/ RpcError(c) \/ CallbackExpired(c)
        PROVE  LiveInv'
    <2> DEFINE q == call[c]
    <2>1. q.live /\ UNCHANGED log /\ \E p : pull' = [pull EXCEPT ![q.from] = p]
      BY <1>3 DEF Receive, ReceiveException, RpcError, CallbackExpired
    <2>2. \A n \in Node : n # q.from => pull'[n] = pull[n]
      BY <1>0, <2>1
    <2>3. (\A d \in Call : d # c => call'[d] = call[d]) /\ ~call'[c].live
      <3>1. NoCall.live = FALSE
        BY DEF NoCall
      <3>2. \A x : Set(c, x) => (\A d \in Call : d # c => call'[d] = call[d])
                                /\ call'[c] \in {NoCall, x}
        BY <1>0 DEF Set
      <3>3. \E x : Set(c, x) /\ x.live = FALSE
        <4>1. /\ [q EXCEPT !.rpc = "none", !.live = FALSE, !.upd = << >>].live = FALSE
              /\ [q EXCEPT !.rpc = "none", !.live = FALSE].live = FALSE
              /\ [q EXCEPT !.live = FALSE].live = FALSE
          BY <1>0, Zenon DEF CallRec
        <4>2. QED BY <1>3, <4>1, Zenon DEF Receive, ReceiveException, RpcError, CallbackExpired
      <3>4. QED BY <3>1, <3>2, <3>3
    <2>4. \A d \in Call : d # c /\ call[d].live => call[d].from # q.from
      BY <1>b, <2>1 DEF LiveInv
    <2>5. QED BY <1>0, <1>1, <2>1, <2>2, <2>3, <2>4
  <1>4. ASSUME NEW c \in Call,
               \/ LoseMessage(c) \/ DropLateAnswer(c) \/ HandleRequest(c) \/ RejectRequest(c)
               \/ Wake(c) \/ SourceRemoved(c) \/ OpenIter(c) \/ OpenIterFails(c)
               \/ ReadUpdate(c) \/ Reply(c) \/ Finish(c)
        PROVE  LiveInv'
    <2> DEFINE q == call[c]
    <2>1. UNCHANGED <<log, pull>>
      BY <1>4 DEF LoseMessage, DropLateAnswer, HandleRequest, RejectRequest, Wake,
         SourceRemoved, OpenIter, OpenIterFails, ReadUpdate, Reply, Finish
    <2>2. /\ \A d \in Call : d # c => call'[d] = call[d]
          /\ call'[c].live => /\ q.live /\ call'[c].from = q.from
                              /\ call'[c].to = q.to /\ call'[c].seq = q.seq
      <3>1. q \in CallRec /\ NoCall.live = FALSE
        BY <1>0 DEF NoCall
      <3>2. CASE LoseMessage(c) \/ DropLateAnswer(c)
        <4>1. Set(c, [q EXCEPT !.rpc = "none", !.upd = << >>])
          BY <3>2 DEF LoseMessage, DropLateAnswer
        <4>2. QED BY <1>0, <3>1, <4>1 DEF Set, CallRec
      <3>3. CASE Finish(c)
        <4>1. Set(c, [q EXCEPT !.srv = "none", !.next = 0, !.pos = 0, !.n = 0])
          BY <3>3 DEF Finish
        <4>2. QED BY <1>0, <3>1, <4>1 DEF Set, CallRec
      <3>4. CASE OpenIter(c)
        <4>1. \E pos : call' = [call EXCEPT ![c] =
                          [q EXCEPT !.srv = "read", !.next = q.seq + 1, !.pos = pos]]
          BY <3>4 DEF OpenIter
        <4>2. QED BY <1>0, <3>1, <4>1 DEF CallRec
      <3>5. CASE ReadUpdate(c)
        BY <1>0, <3>1, <3>5 DEF ReadUpdate, CallRec
      <3>6. CASE HandleRequest(c) \/ RejectRequest(c) \/ Wake(c) \/ SourceRemoved(c)
                 \/ OpenIterFails(c) \/ Reply(c)
        <4>1. \/ \E v : call' = [call EXCEPT ![c].srv = v]
              \/ \E v : call' = [call EXCEPT ![c].rpc = v]
              \/ \E v, w : call' = [call EXCEPT ![c].rpc = v, ![c].srv = w]
              \/ \E v, w : call' = [call EXCEPT ![c].srv = v, ![c].rpc = w]
          BY <3>6, Zenon DEF HandleRequest, RejectRequest, Wake, SourceRemoved, OpenIterFails, Reply
        <4>2. CASE \E v : call' = [call EXCEPT ![c].srv = v]
          BY <1>0, <3>1, <4>2 DEF CallRec
        <4>3. CASE \E v : call' = [call EXCEPT ![c].rpc = v]
          BY <1>0, <3>1, <4>3 DEF CallRec
        <4>4. CASE \E v, w : call' = [call EXCEPT ![c].rpc = v, ![c].srv = w]
          BY <1>0, <3>1, <4>4 DEF CallRec
        <4>5. CASE \E v, w : call' = [call EXCEPT ![c].srv = v, ![c].rpc = w]
          BY <1>0, <3>1, <4>5 DEF CallRec
        <4>6. QED BY <4>1, <4>2, <4>3, <4>4, <4>5, Zenon
      <3>7. QED BY <1>4, <3>2, <3>3, <3>4, <3>5, <3>6
    <2>3. QED BY <1>1, <2>1, <2>2
  <1>5. ASSUME NEW s \in Node,
               ApplyDone(s) \/ DelayOver(s) \/ ApplyFails(s) \/ CleanIdleCachedIters(s)
        PROVE  LiveInv'
    <2>1. UNCHANGED <<log, call>>
      BY <1>5 DEF ApplyDone, DelayOver, ApplyFails, CleanIdleCachedIters
    <2>2. \A n \in Node : pull[n] = "waiting" => pull'[n] = pull[n]
      BY <1>0, <1>5 DEF ApplyDone, DelayOver, ApplyFails, CleanIdleCachedIters
    <2>3. QED BY <1>0, <1>1, <1>b, <2>1, <2>2 DEF LiveInv
  <1>6. ASSUME NEW s \in Node, ApplyUpdate(s)
        PROVE  LiveInv'
    <2>1. pull[s] = "apply" /\ UNCHANGED <<call, pull>>
      BY <1>6 DEF ApplyUpdate
    <2>2. \A n \in Node : n # s => log'[n] = log[n]
      <3>1. PICK b \in Batch : log' = [log EXCEPT ![s] = @ \o Block(b)]
        BY <1>6, AppliedBatch
      <3>2. QED BY <3>1, LogGrows
    <2>3. QED BY <1>0, <1>b, <2>1, <2>2 DEF LiveInv
  <1>7. ASSUME NEW b \in Batch, NEW n \in Node, Write(b, n)
        PROVE  LiveInv'
    <2>1. role[n] # "SLAVE" /\ UNCHANGED <<call, pull>>
      BY <1>7 DEF Write
    <2>2. pull[n] = "stopped"
      <3>1. Upstream[n] = n
        BY <2>1 DEF IInv, Static
      <3>2. QED BY <3>1 DEF IInv, SlaveInv, SlaveOK
    <2>3. \A k \in Node : k # n => log'[k] = log[k]
      BY <1>7, LogGrows DEF Write
    <2>4. QED BY <1>0, <1>b, <2>1, <2>2, <2>3 DEF LiveInv
  <1>8. ASSUME NEW b \in Batch,
               \/ \E n \in Node : WriteToSlave(b, n) \/ WriteFails(b, n)
               \/ ReadSeqNo(b) \/ WriteAcked(b) \/ WriteTimeout(b)
        PROVE  LiveInv'
    <2>1. UNCHANGED <<log, call, pull>>
      BY <1>8 DEF WriteToSlave, WriteFails, ReadSeqNo, WriteAcked, WriteTimeout
    <2>2. QED BY <1>b, <2>1 DEF LiveInv
  <1>9. CASE UNCHANGED vars
    BY <1>b, <1>9 DEF vars, LiveInv
  <1>10. QED
    BY <1>2, <1>3, <1>4, <1>5, <1>6, <1>7, <1>8, <1>9 DEF Next

\* Every step keeps what is known of the slaves.
LEMMA NextSlaveInv ==
    ASSUME IInv, [Next]_vars
    PROVE  SlaveInv' /\ applying' \in [Node -> Seq(Op)]
  <1> USE DEF cfgVars
  <1>0. /\ log \in [Node -> Seq(Op)] /\ applying \in [Node -> Seq(Op)]
        /\ pull \in [Node -> {"stopped", "ready", "waiting", "apply", "delay"}]
        /\ Upstream \in [Node -> Node] /\ \A s \in Node : SlaveOK(s)
    BY UpstreamAssumption DEF IInv, TypeOK, SlaveInv
  <1>1. ASSUME UNCHANGED <<log, applying>>,
               \A s \in Node : pull[s] = "stopped" => pull'[s] = "stopped"
        PROVE  SlaveInv' /\ applying' \in [Node -> Seq(Op)]
    <2>1. \A s \in Node : SlaveOK(s)'
      BY <1>0, <1>1 DEF SlaveOK
    <2>2. QED BY <1>0, <1>1, <2>1 DEF SlaveInv
  <1>2. ASSUME NEW s \in Node, ApplyUpdate(s)
        PROVE  SlaveInv' /\ applying' \in [Node -> Seq(Op)]
    <2> DEFINE l == log[Upstream[s]]
    <2>1. /\ Upstream[s] # s
          /\ applying' \in [Node -> Seq(Op)]
          /\ \A k \in Node : k # s => applying'[k] = applying[k]
          /\ log'[Upstream[s]] = l
          /\ IsPrefixOf(log'[s], l)
          /\ Follows(applying'[s], l, Len(log'[s]))
          /\ At(l, Len(log'[s]) + 1)
          /\ At(l, Len(log'[s]) + Len(applying'[s]) + 1)
      BY <1>2, AppliedBatch
    <2>2. UNCHANGED pull
      BY <1>2 DEF ApplyUpdate
    <2>3. SlaveOK(s)'
      BY <2>1, Zenon DEF SlaveOK
    <2>4. ASSUME NEW k \in Node, k # s
          PROVE  SlaveOK(k)'
      <3>1. applying'[k] = applying[k] /\ Upstream[k] \in Node
        BY <1>0, <2>1, <2>4
      <3>2. log'[k] = log[k]
        <4>1. PICK b \in Batch : log' = [log EXCEPT ![s] = @ \o Block(b)]
          BY <1>2, AppliedBatch
        <4>2. QED BY <2>4, <4>1, LogGrows
      <3>3. log[k] \in Seq(Op) /\ applying[k] \in Seq(Op) /\ Len(log[k]) \in Nat
        BY <1>0
      <3>4. SlaveOK(k)
        BY <1>0
      <3>5. /\ IsPrefixOf(log[k], log'[Upstream[k]])
            /\ At(log'[Upstream[k]], Len(log[k]) + 1)
            /\ Follows(applying[k], log'[Upstream[k]], Len(log[k]))
            /\ At(log'[Upstream[k]], Len(log[k]) + Len(applying[k]) + 1)
        BY <3>1, <3>3, <3>4, LogFacts DEF SlaveOK
      <3>6. QED BY <2>2, <3>1, <3>2, <3>4, <3>5, Zenon DEF SlaveOK
    <2>5. QED BY <2>1, <2>3, <2>4 DEF SlaveInv
  <1>3. ASSUME NEW b \in Batch, NEW n \in Node, Write(b, n)
        PROVE  SlaveInv' /\ applying' \in [Node -> Seq(Op)]
    <2>1. /\ role[n] # "SLAVE" /\ UNCHANGED <<applying, pull>>
          /\ log' = [log EXCEPT ![n] = @ \o Block(b)]
      BY <1>3 DEF Write
    <2>2. Upstream[n] = n
      BY <2>1 DEF IInv, Static
    <2>3. pull[n] = "stopped" /\ applying[n] = << >>
      BY <1>0, <2>2, Zenon DEF SlaveOK
    <2>4. ASSUME NEW k \in Node PROVE SlaveOK(k)'
      <3>1. Upstream[k] \in Node /\ SlaveOK(k)
        BY <1>0
      <3>2. CASE k = n
        <4> DEFINE l == log'[n]
        <4>1. l \in Seq(Op) /\ Len(l) \in Nat
          BY LogFacts
        <4>2. IsPrefixOf(l, l) /\ At(l, Len(l) + 1) /\ Follows(<< >>, l, Len(l))
              /\ At(l, Len(l) + Len(<< >>) + 1)
          BY <4>1 DEF IsPrefixOf, At, Follows
        <4>3. QED BY <2>1, <2>2, <2>3, <3>2, <4>2, Zenon DEF SlaveOK
      <3>3. CASE k # n
        <4>1. log'[k] = log[k]
          BY <2>1, <3>3, LogGrows
        <4>2. log[k] \in Seq(Op) /\ applying[k] \in Seq(Op) /\ Len(log[k]) \in Nat
          BY <1>0
        <4>3. /\ IsPrefixOf(log[k], log'[Upstream[k]])
              /\ At(log'[Upstream[k]], Len(log[k]) + 1)
              /\ Follows(applying[k], log'[Upstream[k]], Len(log[k]))
              /\ At(log'[Upstream[k]], Len(log[k]) + Len(applying[k]) + 1)
          BY <3>1, <4>2, LogFacts DEF SlaveOK
        <4>4. QED BY <2>1, <3>1, <4>1, <4>3, Zenon DEF SlaveOK
      <3>4. QED BY <3>2, <3>3
    <2>5. QED BY <1>0, <2>1, <2>4 DEF SlaveInv
  <1>4. ASSUME NEW c \in Call, Receive(c)
        PROVE  SlaveInv' /\ applying' \in [Node -> Seq(Op)]
    <2> DEFINE q == call[c]
    <2>1. /\ q.live /\ UNCHANGED log /\ applying' = [applying EXCEPT ![q.from] = q.upd]
          /\ pull' = [pull EXCEPT ![q.from] = "apply"]
      BY <1>4 DEF Receive
    <2>2. q.from \in Node /\ q.upd \in Seq(Op) /\ CallOK(q)
      BY DEF IInv, TypeOK, CallRec, CallInv
    <2>3. q.to = Upstream[q.from] /\ q.seq = Len(log[q.from]) /\ pull[q.from] = "waiting"
      BY <2>1 DEF IInv, LiveInv
    <2>4. applying' \in [Node -> Seq(Op)] /\ applying'[q.from] = q.upd
          /\ \A k \in Node : k # q.from => applying'[k] = applying[k] /\ pull'[k] = pull[k]
      BY <1>0, <2>1, <2>2
    <2>5. Follows(q.upd, log[q.to], q.seq) /\ At(log[q.to], q.seq + Len(q.upd) + 1)
      BY <2>2 DEF CallOK
    <2>6. SlaveOK(q.from)
      BY <1>0, <2>2
    <2>7. Upstream[q.from] # q.from
      BY <2>3, <2>6 DEF SlaveOK
    <2>8. ASSUME NEW k \in Node PROVE SlaveOK(k)'
      <3>1. CASE k = q.from
        BY <2>1, <2>3, <2>4, <2>5, <2>6, <2>7, <3>1, Zenon DEF SlaveOK
      <3>2. CASE k # q.from
        BY <1>0, <2>1, <2>4, <3>2, Zenon DEF SlaveOK
      <3>3. QED BY <3>1, <3>2
    <2>9. QED BY <2>4, <2>8 DEF SlaveInv
  <1>5. ASSUME NEW c \in Call, ReceiveException(c) \/ RpcError(c) \/ CallbackExpired(c)
        PROVE  SlaveInv' /\ applying' \in [Node -> Seq(Op)]
    <2> DEFINE q == call[c]
    <2>1. q.live /\ UNCHANGED <<log, applying>> /\ \E p : pull' = [pull EXCEPT ![q.from] = p]
      BY <1>5 DEF ReceiveException, RpcError, CallbackExpired
    <2>2. pull[q.from] = "waiting"
      BY <2>1 DEF IInv, LiveInv
    <2>3. QED BY <1>0, <1>1, <2>1, <2>2
  <1>6. ASSUME NEW s \in Node, ApplyFails(s)
        PROVE  SlaveInv' /\ applying' \in [Node -> Seq(Op)]
    <2>1. /\ pull[s] = "apply" /\ UNCHANGED log /\ applying' = [applying EXCEPT ![s] = << >>]
          /\ pull' = [pull EXCEPT ![s] = "delay"]
      BY <1>6 DEF ApplyFails
    <2>2. SlaveOK(s) /\ log[s] \in Seq(Op) /\ log[Upstream[s]] \in Seq(Op) /\ << >> \in Seq(Op)
      BY <1>0
    <2>3. Follows(<< >>, log[Upstream[s]], Len(log[s]))
          /\ At(log[Upstream[s]], Len(log[s]) + Len(<< >>) + 1)
      BY <2>2 DEF SlaveOK, Follows, IsPrefixOf
    <2>4. Upstream[s] # s
      BY <2>1, <2>2, Zenon DEF SlaveOK
    <2>5. applying' \in [Node -> Seq(Op)] /\ applying'[s] = << >>
          /\ \A k \in Node : k # s => applying'[k] = applying[k] /\ pull'[k] = pull[k]
      BY <1>0, <2>1, <2>2
    <2>6. ASSUME NEW k \in Node PROVE SlaveOK(k)'
      <3>1. CASE k = s
        BY <2>1, <2>2, <2>3, <2>4, <2>5, <3>1, Zenon DEF SlaveOK
      <3>2. CASE k # s
        BY <1>0, <2>1, <2>5, <3>2, Zenon DEF SlaveOK
      <3>3. QED BY <3>1, <3>2
    <2>7. QED BY <2>5, <2>6 DEF SlaveInv
  <1>7. ASSUME NEW s \in Node,
               \/ ApplyDone(s) \/ DelayOver(s) \/ CleanIdleCachedIters(s)
               \/ \E c \in Call : Pull(s, c)
        PROVE  SlaveInv' /\ applying' \in [Node -> Seq(Op)]
    <2>1. UNCHANGED <<log, applying>>
      BY <1>7 DEF ApplyDone, DelayOver, CleanIdleCachedIters, Pull
    <2>2. \A k \in Node : pull[k] = "stopped" => pull'[k] = "stopped"
      BY <1>0, <1>7 DEF ApplyDone, DelayOver, CleanIdleCachedIters, Pull
    <2>3. QED BY <1>1, <2>1, <2>2
  <1>8. ASSUME NEW c \in Call,
               \/ LoseMessage(c) \/ DropLateAnswer(c) \/ HandleRequest(c) \/ RejectRequest(c)
               \/ Wake(c) \/ SourceRemoved(c) \/ OpenIter(c) \/ OpenIterFails(c)
               \/ ReadUpdate(c) \/ Reply(c) \/ Finish(c)
        PROVE  UNCHANGED <<log, applying, pull>>
    BY <1>8 DEF LoseMessage, DropLateAnswer, HandleRequest, RejectRequest, Wake,
       SourceRemoved, OpenIter, OpenIterFails, ReadUpdate, Reply, Finish
  <1>9. ASSUME NEW b \in Batch,
               \/ \E n \in Node : WriteToSlave(b, n) \/ WriteFails(b, n)
               \/ ReadSeqNo(b) \/ WriteAcked(b) \/ WriteTimeout(b)
        PROVE  UNCHANGED <<log, applying, pull>>
    BY <1>9 DEF WriteToSlave, WriteFails, ReadSeqNo, WriteAcked, WriteTimeout
  <1>10. UNCHANGED <<log, applying, pull>> => SlaveInv' /\ applying' \in [Node -> Seq(Op)]
    BY <1>1
  <1>11. CASE UNCHANGED vars
    BY <1>10, <1>11 DEF vars
  <1>12. QED
    BY <1>2, <1>3, <1>4, <1>5, <1>6, <1>7, <1>8, <1>9, <1>10, <1>11 DEF Next

\* Taking an iterator out of a bag, or putting one into it, leaves a bag.
LEMMA BagSteps ==
    ASSUME NEW B, IsABag(B), NEW it
    PROVE  /\ IsABag(B (-) SetToBag({it})) /\ BagToSet(B (-) SetToBag({it})) \subseteq BagToSet(B)
           /\ IsABag(B (+) SetToBag({it})) /\ BagToSet(B (+) SetToBag({it})) = BagToSet(B) \cup {it}
  <1>1. B \in [DOMAIN B -> {n \in Nat : n > 0}]
    BY DEF IsABag
  <1> DEFINE M == [e \in DOMAIN B |-> IF e \in DOMAIN SetToBag({it}) THEN B[e] - SetToBag({it})[e]
                                      ELSE B[e]]
             D == {d \in DOMAIN M : M[d] > 0}
  <1>2. B (-) SetToBag({it}) = [e \in D |-> M[e]]
    BY DEF (-)
  <1>3. DOMAIN M = DOMAIN B /\ D \subseteq DOMAIN B
    OBVIOUS
  <1>4. ASSUME NEW e \in D PROVE M[e] \in {n \in Nat : n > 0}
    <2>1. B[e] \in Nat /\ M[e] > 0
      BY <1>1, <1>3
    <2>2. M[e] = B[e] - 1 \/ M[e] = B[e]
      BY <1>3 DEF SetToBag
    <2> HIDE DEF M
    <2>3. QED BY <2>1, <2>2
  <1> HIDE DEF M, D
  <1>5. IsABag([e \in D |-> M[e]]) /\ BagToSet([e \in D |-> M[e]]) \subseteq BagToSet(B)
    BY <1>3, <1>4 DEF IsABag, BagToSet
  <1>6. /\ IsABag(B (+) SetToBag({it})) /\ BagToSet(B (+) SetToBag({it})) = BagToSet(B) \cup {it}
    <2> DEFINE E == DOMAIN B \cup {it}
               P == [e \in E |-> (IF e \in DOMAIN B THEN B[e] ELSE 0)
                                 + (IF e \in {it} THEN 1 ELSE 0)]
    <2>1. B (+) SetToBag({it}) = P
      BY DEF (+), SetToBag
    <2>2. ASSUME NEW e \in E PROVE P[e] \in {n \in Nat : n > 0}
      <3>1. CASE e \in DOMAIN B
        <4>1. B[e] \in Nat /\ B[e] > 0
          BY <1>1, <3>1
        <4>2. P[e] = B[e] + 1 \/ P[e] = B[e] + 0
          BY <3>1
        <4> HIDE DEF P
        <4>3. QED BY <4>1, <4>2
      <3>2. CASE e \notin DOMAIN B
        BY <3>2
      <3>3. QED BY <3>1, <3>2
    <2>3. P \in [E -> {n \in Nat : n > 0}] /\ DOMAIN P = E
      BY <2>2
    <2> HIDE DEF P, E
    <2>4. QED BY <2>1, <2>3 DEF IsABag, BagToSet, E
  <1>7. QED BY <1>2, <1>5, <1>6

\* Every step keeps the caches bags of iterators that are where their key says.
LEMMA NextCacheInv ==
    ASSUME IInv, [Next]_vars
    PROVE  /\ CacheInv'
           /\ cache' = [n \in Node |-> cache'[n]]
           /\ \A n \in Node : IsABag(cache'[n]) /\ BagToSet(cache'[n]) \subseteq Iter
  <1> USE DEF cfgVars
  <1> DEFINE OK(n, B) == /\ IsABag(B) /\ BagToSet(B) \subseteq Iter
                         /\ \A it \in BagToSet(B) : it.key = it.pos /\ At(log'[n], it.pos)
  <1>0. cache = [n \in Node |-> cache[n]]
    BY DEF IInv, TypeOK
  <1>1. ASSUME NEW n \in Node PROVE OK(n, cache[n])
    <2>1. IsABag(cache[n]) /\ BagToSet(cache[n]) \subseteq Iter
          /\ \A it \in BagToSet(cache[n]) : it.key = it.pos /\ At(log[n], it.pos)
      BY DEF IInv, TypeOK, CacheInv
    <2>2. \A p : At(log[n], p) => At(log'[n], p)
      BY LogFacts
    <2>3. QED BY <2>1, <2>2
  <1>2. SUFFICES cache' = [n \in Node |-> cache'[n]] /\ \A n \in Node : OK(n, cache'[n])
    BY DEF CacheInv
  <1>3. CASE UNCHANGED cache
    BY <1>0, <1>1, <1>3
  <1>4. ASSUME NEW n \in Node, NEW B, OK(n, B), cache' = [cache EXCEPT ![n] = B]
        PROVE  cache' = [k \in Node |-> cache'[k]] /\ \A k \in Node : OK(k, cache'[k])
    <2>1. \A k \in Node : cache'[k] = IF k = n THEN B ELSE cache[k]
      BY <1>0, <1>4
    <2>2. cache' = [k \in Node |-> cache'[k]]
      BY <1>0, <1>4
    <2> HIDE DEF OK
    <2>3. QED BY <1>1, <1>4, <2>1, <2>2
  <1>5. ASSUME NEW n \in Node, NEW it, cache' = [cache EXCEPT ![n] = @ (-) SetToBag({it})]
        PROVE  cache' = [k \in Node |-> cache'[k]] /\ \A k \in Node : OK(k, cache'[k])
    <2>1. OK(n, cache[n])
      BY <1>1
    <2>2. OK(n, cache[n] (-) SetToBag({it}))
      BY <2>1, BagSteps
    <2> HIDE DEF OK
    <2>3. QED BY <1>4, <1>5, <2>2, Zenon
  <1>6. ASSUME NEW c \in Call, OpenIter(c) \/ OpenIterFails(c)
        PROVE  cache' = [n \in Node |-> cache'[n]] /\ \A n \in Node : OK(n, cache'[n])
    <2>1. call[c].to \in Node
      BY DEF IInv, TypeOK, CallRec
    <2>2. \/ UNCHANGED cache
          \/ \E it : cache' = [cache EXCEPT ![call[c].to] = @ (-) SetToBag({it})]
      BY <1>6 DEF OpenIter, OpenIterFails
    <2> HIDE DEF OK
    <2>3. QED BY <1>3, <1>5, <2>1, <2>2
  <1>7. ASSUME NEW s \in Node, CleanIdleCachedIters(s)
        PROVE  cache' = [n \in Node |-> cache'[n]] /\ \A n \in Node : OK(n, cache'[n])
    <2> HIDE DEF OK
    <2> QED BY <1>5, <1>7 DEF CleanIdleCachedIters
  <1>8. ASSUME NEW c \in Call, Finish(c)
        PROVE  cache' = [n \in Node |-> cache'[n]] /\ \A n \in Node : OK(n, cache'[n])
    <2> DEFINE q == call[c]
               it == [key |-> q.next, pos |-> q.pos]
               B == cache[q.to] (+) SetToBag({it})
    <2>1. q.to \in Node /\ CallOK(q) /\ q.srv = "finish" /\ q.next \in Nat /\ q.pos \in Nat
          /\ UNCHANGED log
      BY <1>8 DEF IInv, TypeOK, CallRec, CallInv, Finish
    <2>2. CASE q.pos = 0
      BY <1>3, <1>8, <2>2 DEF Finish
    <2>3. CASE q.pos # 0
      <3>1. q.pos = q.next /\ At(log'[q.to], q.pos)
        BY <2>1, <2>3 DEF CallOK
      <3>2. it \in Iter /\ it.key = it.pos /\ it.pos = q.pos
        BY <2>1, <3>1 DEF Iter
      <3> HIDE DEF it
      <3>3. OK(q.to, cache[q.to])
        BY <1>1, <2>1
      <3>4. OK(q.to, B)
        <4>1. IsABag(B) /\ BagToSet(B) = BagToSet(cache[q.to]) \cup {it}
          BY <3>3, BagSteps, Zenon
        <4>2. \A x \in BagToSet(B) : x = it \/ x \in BagToSet(cache[q.to])
          BY <4>1, Zenon
        <4>3. BagToSet(B) \subseteq Iter
          BY <3>2, <3>3, <4>2, Zenon
        <4>4. ASSUME NEW x \in BagToSet(B) PROVE x.key = x.pos /\ At(log'[q.to], x.pos)
          BY <3>1, <3>2, <3>3, <4>2, <4>4, Zenon
        <4>5. QED BY <4>1, <4>3, <4>4, Zenon
      <3>5. cache' = [cache EXCEPT ![q.to] = B]
        BY <1>8, <2>3 DEF Finish, it
      <3> HIDE DEF OK, B
      <3>6. QED BY <1>4, <2>1, <3>4, <3>5
    <2>4. QED BY <2>2, <2>3
  <1>9. ASSUME NEW s \in Node,
               \/ ApplyUpdate(s) \/ ApplyDone(s) \/ DelayOver(s) \/ ApplyFails(s)
               \/ \E c \in Call : Pull(s, c)
        PROVE  UNCHANGED cache
    BY <1>9 DEF ApplyUpdate, ApplyDone, DelayOver, ApplyFails, Pull
  <1>10. ASSUME NEW c \in Call,
                \/ Receive(c) \/ ReceiveException(c) \/ RpcError(c) \/ CallbackExpired(c)
                \/ LoseMessage(c) \/ DropLateAnswer(c) \/ HandleRequest(c) \/ RejectRequest(c)
                \/ Wake(c) \/ SourceRemoved(c) \/ ReadUpdate(c) \/ Reply(c)
         PROVE  UNCHANGED cache
    BY <1>10 DEF Receive, ReceiveException, RpcError, CallbackExpired, LoseMessage,
       DropLateAnswer, HandleRequest, RejectRequest, Wake, SourceRemoved, ReadUpdate, Reply
  <1>11. ASSUME NEW b \in Batch,
                \/ \E n \in Node : Write(b, n) \/ WriteToSlave(b, n) \/ WriteFails(b, n)
                \/ ReadSeqNo(b) \/ WriteAcked(b) \/ WriteTimeout(b)
         PROVE  UNCHANGED cache
    BY <1>11 DEF Write, WriteToSlave, WriteFails, ReadSeqNo, WriteAcked, WriteTimeout
  <1>12. CASE UNCHANGED vars
    BY <1>3, <1>12 DEF vars
  <1> HIDE DEF OK
  <1>13. QED
    BY <1>3, <1>6, <1>7, <1>8, <1>9, <1>10, <1>11, <1>12 DEF Next

\* Every step keeps the types.
LEMMA NextTypeOK ==
    ASSUME IInv, [Next]_vars
    PROVE  TypeOK'
  <1> USE DEF cfgVars
  <1>0. TypeOK
    BY DEF IInv
  <1>1. log' \in [Node -> Seq(Op)]
    BY LogFacts
  <1>2. /\ cache' = [n \in Node |-> cache'[n]]
        /\ \A n \in Node : IsABag(cache'[n]) /\ BagToSet(cache'[n]) \subseteq Iter
    BY NextCacheInv
  <1>3. call' \in [Call -> CallRec] /\ applying' \in [Node -> Seq(Op)]
    BY NextCallInv, NextSlaveInv
  <1>4. dbst' \in [Node -> {"present", "removed"}] /\ up' \in [Node -> Node]
        /\ role' \in [Node -> {"MASTER", "SLAVE", "NOOP"}]
    BY NextStatic, UpstreamAssumption DEF Static
  <1>5. acked' \in [Node -> Nat]
    <2>1. acked \in [Node -> Nat] /\ \A c \in Call : call[c].to \in Node /\ call[c].seq \in Nat
      BY <1>0 DEF TypeOK, CallRec
    <2>2. ASSUME NEW n \in Node, NEW k \in Nat, Post(n, k) PROVE acked' \in [Node -> Nat]
      BY <2>1, <2>2 DEF Post
    <2>3. ASSUME NEW c \in Call, HandleRequest(c) PROVE acked' \in [Node -> Nat]
      BY <2>1, <2>2, <2>3 DEF HandleRequest
    <2>4. ASSUME NEW c \in Call, Finish(c) PROVE acked' \in [Node -> Nat]
      <3>1. call[c].srv = "finish" /\ CallOK(call[c]) /\ call[c].next \in Nat
        BY <2>4 DEF IInv, TypeOK, CallInv, CallRec, Finish
      <3>2. call[c].next >= 1
        BY <3>1, Zenon DEF CallOK
      <3>3. call[c].next - 1 \in Nat
        BY <3>1, <3>2
      <3>4. QED BY <2>1, <2>2, <2>4, <3>3 DEF Finish
    <2>5. ASSUME NEW s \in Node,
                 \/ ApplyUpdate(s) \/ ApplyDone(s) \/ DelayOver(s) \/ ApplyFails(s)
                 \/ CleanIdleCachedIters(s) \/ \E c \in Call : Pull(s, c)
          PROVE  UNCHANGED acked
      BY <2>5 DEF ApplyUpdate, ApplyDone, DelayOver, ApplyFails, CleanIdleCachedIters, Pull
    <2>6. ASSUME NEW c \in Call,
                 \/ Receive(c) \/ ReceiveException(c) \/ RpcError(c) \/ CallbackExpired(c)
                 \/ LoseMessage(c) \/ DropLateAnswer(c) \/ RejectRequest(c) \/ Wake(c)
                 \/ SourceRemoved(c) \/ OpenIter(c) \/ OpenIterFails(c) \/ ReadUpdate(c)
                 \/ Reply(c)
          PROVE  UNCHANGED acked
      BY <2>6 DEF Receive, ReceiveException, RpcError, CallbackExpired, LoseMessage,
         DropLateAnswer, RejectRequest, Wake, SourceRemoved, OpenIter, OpenIterFails,
         ReadUpdate, Reply
    <2>7. ASSUME NEW b \in Batch,
                 \/ \E n \in Node : Write(b, n) \/ WriteToSlave(b, n) \/ WriteFails(b, n)
                 \/ ReadSeqNo(b) \/ WriteAcked(b) \/ WriteTimeout(b)
          PROVE  UNCHANGED acked
      BY <2>7 DEF Write, WriteToSlave, WriteFails, ReadSeqNo, WriteAcked, WriteTimeout
    <2>8. QED BY <2>1, <2>3, <2>4, <2>5, <2>6, <2>7 DEF Next, vars
  <1>6. pull' \in [Node -> {"stopped", "ready", "waiting", "apply", "delay"}]
    <2>1. pull \in [Node -> {"stopped", "ready", "waiting", "apply", "delay"}]
      BY <1>0 DEF TypeOK
    <2>2. \/ UNCHANGED pull
          \/ \E n, p : pull' = [pull EXCEPT ![n] = p]
                       /\ p \in {"stopped", "ready", "waiting", "apply", "delay"}
      <3>1. ASSUME NEW s \in Node,
                   \/ ApplyUpdate(s) \/ ApplyDone(s) \/ DelayOver(s) \/ ApplyFails(s)
                   \/ CleanIdleCachedIters(s) \/ \E c \in Call : Pull(s, c)
            PROVE  <2>2!2 \/ UNCHANGED pull
        BY <3>1 DEF ApplyUpdate, ApplyDone, DelayOver, ApplyFails, CleanIdleCachedIters, Pull
      <3>2. ASSUME NEW c \in Call,
                   \/ Receive(c) \/ ReceiveException(c) \/ RpcError(c) \/ CallbackExpired(c)
            PROVE  <2>2!2
        BY <3>2 DEF Receive, ReceiveException, RpcError, CallbackExpired
      <3>3. ASSUME NEW c \in Call,
                   \/ LoseMessage(c) \/ DropLateAnswer(c) \/ HandleRequest(c) \/ RejectRequest(c)
                   \/ Wake(c) \/ SourceRemoved(c) \/ OpenIter(c) \/ OpenIterFails(c)
                   \/ ReadUpdate(c) \/ Reply(c) \/ Finish(c)
            PROVE  UNCHANGED pull
        BY <3>3 DEF LoseMessage, DropLateAnswer, HandleRequest, RejectRequest, Wake,
           SourceRemoved, OpenIter, OpenIterFails, ReadUpdate, Reply, Finish
      <3>4. ASSUME NEW b \in Batch,
                   \/ \E n \in Node : Write(b, n) \/ WriteToSlave(b, n) \/ WriteFails(b, n)
                   \/ ReadSeqNo(b) \/ WriteAcked(b) \/ WriteTimeout(b)
            PROVE  UNCHANGED pull
        BY <3>4 DEF Write, WriteToSlave, WriteFails, ReadSeqNo, WriteAcked, WriteTimeout
      <3>5. QED BY <3>1, <3>2, <3>3, <3>4 DEF Next, vars
    <2>3. QED BY <2>1, <2>2
  <1>7. wr' \in [Batch -> WriteRec] /\ sent' \subseteq Batch /\ faults' \in 0 .. MaxFaults
    <2>1. wr \in [Batch -> WriteRec] /\ sent \subseteq Batch /\ faults \in 0 .. MaxFaults
          /\ \A n \in Node : Latest(n) \in Nat
      BY <1>0 DEF TypeOK, Latest
    <2>2. Fault => faults' \in 0 .. MaxFaults
      BY <2>1, MaxFaultsAssumption DEF Fault
    <2>3. ASSUME NEW b \in Batch, NEW r \in WriteRec, wr' = [wr EXCEPT ![b] = r]
          PROVE  wr' \in [Batch -> WriteRec]
      BY <2>1, <2>3
    <2>4. ASSUME NEW b \in Batch,
                 \/ \E n \in Node : Write(b, n) \/ WriteToSlave(b, n) \/ WriteFails(b, n)
                 \/ ReadSeqNo(b) \/ WriteAcked(b) \/ WriteTimeout(b)
          PROVE  \E r \in WriteRec : wr' = [wr EXCEPT ![b] = r]
      <3> DEFINE St == {"new", "written", "wait", "ok", "timeout", "error", "rejected", "crashed"}
      <3>1. wr[b] \in WriteRec /\ wr[b].node \in Node
        BY <2>1 DEF WriteRec
      <3>2. \A st \in St, n \in Node : [wr[b] EXCEPT !.st = st, !.node = n] \in WriteRec
        BY <3>1 DEF WriteRec
      <3>3. \A st \in St : [wr[b] EXCEPT !.st = st] \in WriteRec
        BY <3>1 DEF WriteRec
      <3>4. \A st \in St, k \in Nat : [wr[b] EXCEPT !.st = st, !.seq = k] \in WriteRec
        BY <3>1 DEF WriteRec
      <3>5. "written" \in St /\ "wait" \in St /\ "ok" \in St /\ "timeout" \in St
            /\ "error" \in St /\ "rejected" \in St
        OBVIOUS
      <3> HIDE DEF St
      <3>6. ASSUME NEW n \in Node, Write(b, n) \/ WriteToSlave(b, n) \/ WriteFails(b, n)
            PROVE  \E r \in WriteRec : wr' = [wr EXCEPT ![b] = r]
        <4>1. \E st \in St : wr' = [wr EXCEPT ![b].st = st, ![b].node = n]
          BY <3>5, <3>6, Zenon DEF Write, WriteToSlave, WriteFails
        <4>2. PICK st \in St : wr' = [wr EXCEPT ![b] = [wr[b] EXCEPT !.st = st, !.node = n]]
          BY <2>1, <4>1, Zenon
        <4>3. QED BY <3>2, <4>2, Zenon
      <3>7. ASSUME ReadSeqNo(b)
            PROVE  \E r \in WriteRec : wr' = [wr EXCEPT ![b] = r]
        <4>1. \E st \in St, k \in Nat : wr' = [wr EXCEPT ![b].st = st, ![b].seq = k]
          <5>1. (IF Mode = 0 THEN "ok" ELSE "wait") \in St /\ Latest(wr[b].node) \in Nat
            BY <2>1, <3>1, <3>5
          <5>2. QED BY <3>7, <5>1, Zenon DEF ReadSeqNo
        <4>2. PICK st \in St, k \in Nat :
                 wr' = [wr EXCEPT ![b] = [wr[b] EXCEPT !.st = st, !.seq = k]]
          BY <2>1, <4>1, ZenonT(60)
        <4>3. QED BY <3>4, <4>2, Zenon
      <3>8. ASSUME WriteAcked(b) \/ WriteTimeout(b)
            PROVE  \E r \in WriteRec : wr' = [wr EXCEPT ![b] = r]
        <4>1. \E st \in St : wr' = [wr EXCEPT ![b].st = st]
          BY <3>5, <3>8, Zenon DEF WriteAcked, WriteTimeout
        <4>2. PICK st \in St : wr' = [wr EXCEPT ![b] = [wr[b] EXCEPT !.st = st]]
          BY <2>1, <4>1, Zenon
        <4>3. QED BY <3>3, <4>2, Zenon
      <3>9. QED BY <2>4, <3>6, <3>7, <3>8
    <2>5. ASSUME NEW b \in Batch,
                 \/ \E n \in Node : Write(b, n) \/ WriteToSlave(b, n) \/ WriteFails(b, n)
                 \/ ReadSeqNo(b) \/ WriteAcked(b) \/ WriteTimeout(b)
          PROVE  UNCHANGED sent /\ (UNCHANGED faults \/ Fault)
      BY <2>5 DEF Write, WriteToSlave, WriteFails, ReadSeqNo, WriteAcked, WriteTimeout
    <2>6. ASSUME NEW s \in Node,
                 \/ ApplyUpdate(s) \/ ApplyDone(s) \/ DelayOver(s) \/ ApplyFails(s)
                 \/ CleanIdleCachedIters(s) \/ \E c \in Call : Pull(s, c)
          PROVE  UNCHANGED <<wr, sent>> /\ (UNCHANGED faults \/ Fault)
      BY <2>6 DEF ApplyUpdate, ApplyDone, DelayOver, ApplyFails, CleanIdleCachedIters, Pull
    <2>7. ASSUME NEW c \in Call,
                 \/ Receive(c) \/ ReceiveException(c) \/ RpcError(c) \/ CallbackExpired(c)
                 \/ LoseMessage(c) \/ DropLateAnswer(c) \/ HandleRequest(c) \/ RejectRequest(c)
                 \/ Wake(c) \/ SourceRemoved(c) \/ OpenIter(c) \/ OpenIterFails(c)
                 \/ ReadUpdate(c) \/ Finish(c)
          PROVE  UNCHANGED <<wr, sent>> /\ (UNCHANGED faults \/ Fault)
      BY <2>7 DEF Receive, ReceiveException, RpcError, CallbackExpired, LoseMessage,
         DropLateAnswer, HandleRequest, RejectRequest, Wake, SourceRemoved, OpenIter,
         OpenIterFails, ReadUpdate, Finish
    <2>8. ASSUME NEW c \in Call, Reply(c)
          PROVE  UNCHANGED <<wr, faults>> /\ sent' \subseteq Batch
      <3>1. call[c].upd \in Seq(Op)
        BY <1>0 DEF TypeOK, CallRec
      <3>2. Batches(call[c].upd) \subseteq Batch
        BY <3>1 DEF Batches, Op
      <3>3. QED BY <2>1, <2>8, <3>2 DEF Reply
    <2>9. QED BY <2>1, <2>2, <2>3, <2>4, <2>5, <2>6, <2>7, <2>8 DEF Next, vars
  <1>8. adds' \in Nat
    <2>1. adds \in Nat
      BY <1>0 DEF TypeOK
    <2>2. UNCHANGED adds
      BY ConfigIsFixed DEF cfgVars
    <2>3. QED BY <2>1, <2>2
  <1>9. QED
    BY <1>1, <1>2, <1>3, <1>4, <1>5, <1>6, <1>7, <1>8 DEF TypeOK

-----------------------------------------------------------------------------
\* The invariant holds of the initial state.
LEMMA InitIInv == Init => IInv
  <1> SUFFICES ASSUME Init PROVE IInv
    OBVIOUS
  <1>0. << >> \in Seq(Op) /\ Len(<< >>) = 0
    OBVIOUS
  <1>1. log \in [Node -> Seq(Op)] /\ applying \in [Node -> Seq(Op)]
        /\ \A n \in Node : log[n] = << >> /\ applying[n] = << >>
    BY <1>0 DEF Init
  <1>2. LogInv
    BY <1>1 DEF LogInv, Whole
  <1>3. NoCall \in CallRec
    BY NoCallTyped
  <1>4. NoWrite \in WriteRec
    BY NodeAssumption DEF NoWrite, WriteRec
  <1>5. IsABag(EmptyBag) /\ BagToSet(EmptyBag) = {}
    BY DEF IsABag, BagToSet, EmptyBag, SetToBag
  <1>6. cache = [n \in Node |-> cache[n]] /\ \A n \in Node : cache[n] = EmptyBag
    BY DEF Init
  <1>7. TypeOK
    <2>1. call \in [Call -> CallRec] /\ wr \in [Batch -> WriteRec]
      BY <1>3, <1>4 DEF Init
    <2>2. /\ acked \in [Node -> Nat] /\ adds \in Nat
          /\ faults \in 0 .. MaxFaults /\ sent \subseteq Batch
      BY MaxFaultsAssumption DEF Init
    <2>3. /\ dbst \in [Node -> {"present", "removed"}]
          /\ role \in [Node -> {"MASTER", "SLAVE", "NOOP"}]
          /\ up \in [Node -> Node]
          /\ pull \in [Node -> {"stopped", "ready", "waiting", "apply", "delay"}]
      BY UpstreamAssumption DEF Init
    <2>4. \A n \in Node : IsABag(cache[n]) /\ BagToSet(cache[n]) \subseteq Iter
      BY <1>5, <1>6
    <2>5. QED BY <1>1, <1>6, <2>1, <2>2, <2>3, <2>4 DEF TypeOK
  <1>8. CallInv
    <2>1. CallOK(NoCall)
      BY <1>2, <1>7, NoCallOK
    <2>2. QED BY <2>1 DEF Init, CallInv
  <1>9. LiveInv
    BY DEF Init, LiveInv, NoCall
  <1>10. SlaveInv
    <2>1. ASSUME NEW s \in Node PROVE SlaveOK(s)
      <3>1. log[s] = << >> /\ applying[s] = << >> /\ log[Upstream[s]] = << >>
        BY <1>1, UpstreamAssumption
      <3>2. IsPrefixOf(<< >>, << >>) /\ At(<< >>, 1) /\ Follows(<< >>, << >>, 0)
        BY DEF IsPrefixOf, At, Follows
      <3>3. Upstream[s] = s => pull[s] = "stopped"
        BY DEF Init
      <3>4. Len(<< >>) + 1 = 1 /\ Len(<< >>) + Len(<< >>) + 1 = 1
        BY <1>0
      <3>5. QED BY <1>0, <3>1, <3>2, <3>3, <3>4 DEF SlaveOK
    <2>2. QED BY <2>1 DEF SlaveInv
  <1>11. CacheInv
    BY <1>5, <1>6 DEF CacheInv
  <1>12. Static
    BY DEF Init, Static
  <1>13. QED BY <1>2, <1>7, <1>8, <1>9, <1>10, <1>11, <1>12 DEF IInv

\* The invariant is inductive.
LEMMA NextIInv == IInv /\ [Next]_vars => IInv'
  BY NextTypeOK, NextStatic, NextLogInv, NextCallInv, NextLiveInv, NextSlaveInv, NextCacheInv
     DEF IInv

\* It holds throughout.
LEMMA AlwaysIInv == Spec => []IInv
  BY InitIInv, NextIInv, PTL DEF Spec

\* replicated_db.cpp:180-203: for any replicas, topology, batches, response
\* limit and number of faults, what a slave has is a prefix of what its
\* upstream has.
THEOREM SlaveIsAlwaysPrefix == Spec => []SlaveIsPrefix
  <1>1. IInv => SlaveIsPrefix
    BY DEF IInv, Static, SlaveInv, SlaveOK, SlaveIsPrefix
  <1>2. QED BY <1>1, AlwaysIInv, PTL

\* replicator.thrift:54-55: a response is the continuous range of updates
\* after the sequence number of its request.
THEOREM ResponsesAreContinuous == Spec => []ResponseIsContinuousRange
  <1>1. IInv => ResponseIsContinuousRange
    <2> SUFFICES ASSUME IInv, NEW c \in Call, NEW i \in 1 .. Len(call[c].upd)
                 PROVE  /\ call[c].seq + i <= Latest(call[c].to)
                        /\ call[c].upd[i] = log[call[c].to][call[c].seq + i]
      BY DEF ResponseIsContinuousRange
    <2> DEFINE q == call[c]
    <2>1. q.seq \in Nat /\ Len(q.upd) \in Nat /\ Len(log[q.to]) \in Nat
      BY DEF IInv, TypeOK, CallRec
    <2>2. Follows(q.upd, log[q.to], q.seq)
      BY DEF IInv, CallInv, CallOK
    <2>3. QED BY <2>1, <2>2 DEF Follows, Latest
  <1>2. QED BY <1>1, AlwaysIInv, PTL

\* The types of the replicator's state.
THEOREM TypeCorrect == Spec => []TypeOK
  BY AlwaysIInv, PTL DEF IInv
=============================================================================
