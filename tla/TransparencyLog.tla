--------------------------- MODULE TransparencyLog ---------------------------
(***************************************************************************)
(* The TransparencyLog class (packages/tlog-core/src/log.ts) over the      *)
(* storage of TlogStorage, as JavaScript runs it: every method is async,   *)
(* the part of it before its first await runs inside the call, and each    *)
(* continuation is a job of the FIFO microtask queue.  The storage methods *)
(* never wait for anything outside, so a promise they return is settled    *)
(* when it is awaited, and its continuation joins the queue at once.       *)
(*                                                                         *)
(* A call may begin between any two jobs: its caller may itself be one.    *)
(* Each element of Calls is one invocation.  pc[c] names the await at      *)
(* which c is suspended; what c read before it is in size[c], known[c] and *)
(* head[c], and may be out of date by the time c resumes.                  *)
(***************************************************************************)
EXTENDS TlogStorage

CONSTANTS
    Appenders,     \* invocations of appendEvent
    Signers,       \* invocations of signTreeHead
    Readers,       \* invocations of the proof and entry queries
    Storers,       \* invocations of storage.storeSth from outside the class
    DirectHeads,   \* the tree heads that Storers pass
    Query          \* the arguments of the queries Readers make

Calls == Appenders \cup Signers \cup Readers \cup Storers

ASSUME CallsAreDistinct ==
    /\ Appenders \cap Signers = {}
    /\ Appenders \cap Readers = {}
    /\ Appenders \cap Storers = {}
    /\ Signers \cap Readers = {}
    /\ Signers \cap Storers = {}
    /\ Readers \cap Storers = {}

ASSUME DirectHeadsAreHeads == \A sth \in DirectHeads : sth.treeSize \in Nat

(* maxCount is the one number of a query whose wholeness nothing checks; a *)
(* fraction of it is dropped by the slice it bounds.                       *)
ASSUME MaxCountsAreWhole ==
    \A query \in Query : query.kind = "entries" => query.maxCount \in Nat

VARIABLES
    queue,         \* the microtask queue: the invocations with a job in it
    pc,            \* where each invocation is suspended
    request,       \* the argument it was called with
    size,          \* the tree size it read first
    known,         \* what its latest await resolved to: a size or an index
    head,          \* the tree head it builds or was given
    answer         \* what it returned

callVars == <<queue, pc, request, size, known, head, answer>>
vars == <<entries, byLeafHash, byCertId, sths,
          queue, pc, request, size, known, head, answer>>

NoHead == [treeSize |-> 0, rootHash |-> EmptyTreeRoot]
Nothing == [kind |-> "none"]

Init ==
    /\ StorageInit
    /\ queue = <<>>
    /\ pc = [c \in Calls |-> "idle"]
    /\ request = [c \in Calls |-> Nothing]
    /\ size = [c \in Calls |-> 0]
    /\ known = [c \in Calls |-> 0]
    /\ head = [c \in Calls |-> NoHead]
    /\ answer = [c \in Calls |-> Nothing]

-----------------------------------------------------------------------------
(* The event loop.                                                         *)

(* c is called and runs up to its first await. *)
Begins(c, at) ==
    /\ pc[c] = "idle"
    /\ pc' = [pc EXCEPT ![c] = at]
    /\ queue' = Append(queue, c)

(* The next job is c's continuation after the await named at. *)
Resumes(c, at) ==
    /\ queue # <<>>
    /\ c = Head(queue)
    /\ pc[c] = at

(* Mutant: the promise awaited is never settled. *)
AwaitsForEver(c, at) ==
    /\ pc' = [pc EXCEPT ![c] = at]
    /\ queue' = Tail(queue)

(* ... and c reaches its next await, or its end. *)
AwaitsNext(c, at) ==
    /\ pc' = [pc EXCEPT ![c] = at]
    /\ queue' = Append(Tail(queue), c)

Settles(c, how) ==
    /\ pc' = [pc EXCEPT ![c] = how]
    /\ queue' = Tail(queue)

-----------------------------------------------------------------------------
(* appendEvent: the size is read before the await and used after it.       *)

CallAppendEvent(c, input) ==
    /\ request' = [request EXCEPT ![c] = input]
    /\ \/ /\ ValidTlogEntry(BuildTlogEntry(input))
          /\ Begins(c, "append.size")
          /\ size' = [size EXCEPT ![c] = Size]
       \/ /\ ~ValidTlogEntry(BuildTlogEntry(input))
          /\ pc[c] = "idle"
          /\ pc' = [pc EXCEPT ![c] = "failed"]
          /\ UNCHANGED <<queue, size>>
    /\ UNCHANGED <<storageVars, known, head, answer>>

AppendAtSize(c) ==
    LET record == StoredEntry(size[c], BuildTlogEntry(request[c]))
    IN  /\ Resumes(c, "append.size")
        /\ \/ /\ AppendAllowed(record)
              /\ AppendRecord(record)
              /\ Settles(c, "done")
              /\ answer' = [answer EXCEPT ![c] = record]
           \/ /\ ~AppendAllowed(record)
              /\ Settles(c, "failed")
              /\ UNCHANGED <<storageVars, answer>>
        /\ UNCHANGED <<request, size, known, head>>

-----------------------------------------------------------------------------
(* signTreeHead, with rootHashAt and storeSth inside it: six awaits.       *)

CallSignTreeHead(c) ==
    /\ Begins(c, "sign.size")
    /\ size' = [size EXCEPT ![c] = Size]
    /\ UNCHANGED <<storageVars, request, known, head, answer>>

(* rootHashAt(treeSize) is called and reads the size again. *)
RootHashAt(c) ==
    /\ Resumes(c, "sign.size")
    /\ AwaitsNext(c, "root.size")
    /\ known' = [known EXCEPT ![c] = Size]
    /\ UNCHANGED <<storageVars, request, size, head, answer>>

(* Mutant: the root is taken over all the leaves there are by now. *)
ReadAllLeafHashes(c) ==
    /\ Resumes(c, "root.size")
    /\ AwaitsNext(c, "root.range")
    /\ head' = [head EXCEPT ![c] =
                  [treeSize |-> size[c],
                   rootHash |-> MerkleRootFromLeafHashes(LeafHashes(Size))]]
    /\ UNCHANGED <<storageVars, request, size, known, answer>>

(* Mutant: the check is repeated until the log has stopped growing. *)
ReadLeafHashesWhenStable(c) ==
    /\ Resumes(c, "root.size")
    /\ \/ /\ known[c] = Size
          /\ AwaitsNext(c, "root.range")
          /\ head' = [head EXCEPT ![c] =
                        [treeSize |-> size[c],
                         rootHash |-> MerkleRootFromLeafHashes(LeafHashes(size[c]))]]
          /\ UNCHANGED known
       \/ /\ known[c] # Size
          /\ AwaitsNext(c, "root.size")
          /\ known' = [known EXCEPT ![c] = Size]
          /\ UNCHANGED head
    /\ UNCHANGED <<storageVars, request, size, answer>>

(* The slice of leaf hashes is a copy: the root is settled by this job.    *)
ReadLeafHashes(c) ==
    /\ Resumes(c, "root.size")
    /\ \/ /\ size[c] <= known[c] /\ RangeAllowed(0, size[c])
          /\ AwaitsNext(c, "root.range")
          /\ head' = [head EXCEPT ![c] =
                        [treeSize |-> size[c],
                         rootHash |-> MerkleRootFromLeafHashes(LeafHashes(size[c]))]]
       \/ /\ ~(size[c] <= known[c] /\ RangeAllowed(0, size[c]))
          /\ Settles(c, "failed")
          /\ UNCHANGED head
    /\ UNCHANGED <<storageVars, request, size, known, answer>>

(* getLeafHashes and rootHashAt return through two more awaits. *)
ReturnThrough(c, from, to) ==
    /\ Resumes(c, from)
    /\ AwaitsNext(c, to)
    /\ UNCHANGED <<storageVars, request, size, known, head, answer>>

(* Mutant: storeSth is not awaited, and signTreeHead returns with a job of *)
(* its own still in the queue.                                             *)
ReadLatestSthNotAwaited(c) ==
    /\ Resumes(c, "sign.root")
    /\ AwaitsNext(c, "done")
    /\ known' = [known EXCEPT ![c] = LatestSize]
    /\ UNCHANGED <<storageVars, request, size, head, answer>>

(* The head is signed and storeSth is called: it reads the latest head.    *)
ReadLatestSth(c) ==
    /\ Resumes(c, "sign.root")
    /\ AwaitsNext(c, "sth.latest")
    /\ known' = [known EXCEPT ![c] = LatestSize]
    /\ UNCHANGED <<storageVars, request, size, head, answer>>

(* Mutant: a head of the same size counts as a regression. *)
StoreLargerSth(c) ==
    /\ Resumes(c, "sth.latest")
    /\ \/ /\ known[c] < head[c].treeSize
          /\ sths' = Append(sths, head[c])
          /\ Settles(c, "done")
       \/ /\ head[c].treeSize <= known[c]
          /\ Settles(c, "failed")
          /\ UNCHANGED sths
    /\ UNCHANGED <<entries, byLeafHash, byCertId, request, size, known, head, answer>>

(* ... and compares after the await with what it read before it. *)
StoreSth(c) ==
    /\ Resumes(c, "sth.latest")
    /\ \/ /\ known[c] <= head[c].treeSize
          /\ sths' = Append(sths, head[c])
          /\ Settles(c, "done")
       \/ /\ head[c].treeSize < known[c]
          /\ Settles(c, "failed")
          /\ UNCHANGED sths
    /\ UNCHANGED <<entries, byLeafHash, byCertId, request, size, known, head, answer>>

(* storeSth called directly, as the storage interface allows. *)
CallStoreSth(c, sth) ==
    /\ Begins(c, "sth.latest")
    /\ head' = [head EXCEPT ![c] = sth]
    /\ known' = [known EXCEPT ![c] = LatestSize]
    /\ UNCHANGED <<storageVars, request, size, answer>>

-----------------------------------------------------------------------------
(* The queries.  Each checks its arguments against a size read before an   *)
(* await and then takes a slice of the log as it is after it.              *)

InclusionQuery == {query \in Query : query.kind = "inclusion"}      \* leafHash, treeSize
ConsistencyQuery == {query \in Query : query.kind = "consistency"}  \* first, second
EntriesQuery == {query \in Query : query.kind = "entries"}          \* start, end, maxCount

(* inclusionProofByHash looks the leaf up before anything else. *)
CallInclusionProof(c, query) ==
    /\ Begins(c, "proof.find")
    /\ query.leafHash \in LeafHash
    /\ request' = [request EXCEPT ![c] = query]
    /\ known' = [known EXCEPT ![c] = byLeafHash[query.leafHash]]
    /\ UNCHANGED <<storageVars, size, head, answer>>

InclusionProofByIndex(c) ==
    /\ Resumes(c, "proof.find")
    /\ \/ /\ known[c] # Undefined
          /\ AwaitsNext(c, "query.size")
          /\ size' = [size EXCEPT ![c] = Size]
       \/ /\ known[c] = Undefined
          /\ Settles(c, "failed")
          /\ UNCHANGED size
    /\ UNCHANGED <<storageVars, request, known, head, answer>>

CallQuery(c, query) ==
    /\ Begins(c, "query.size")
    /\ request' = [request EXCEPT ![c] = query]
    /\ size' = [size EXCEPT ![c] = Size]
    /\ UNCHANGED <<storageVars, known, head, answer>>

QueryAllowed(c) ==
    LET query == request[c]
    IN  CASE query.kind = "inclusion" ->
               /\ query.treeSize \in Int
               /\ query.treeSize >= 1 /\ query.treeSize <= size[c]
               /\ known[c] >= 0 /\ known[c] < query.treeSize
          [] query.kind = "consistency" ->
               /\ query.first \in Int /\ query.second \in Int
               /\ 0 < query.first /\ query.first < query.second /\ query.second <= size[c]
          [] query.kind = "entries" ->
               /\ query.start \in Int /\ query.end \in Int
               /\ 0 <= query.start /\ query.start <= query.end /\ query.end < size[c]

(* maxCount = 0 stands for no maxCount: the code ignores one below 1. *)
EntriesEnd(query) ==
    IF query.maxCount >= 1 /\ query.start + query.maxCount < query.end + 1
    THEN query.start + query.maxCount
    ELSE query.end + 1

(* Mutant: proofs are made over all the leaves there are by now. *)
QueryAnswerOfNow(c) ==
    LET query == request[c]
    IN  CASE query.kind = "inclusion" ->
               [kind |-> "inclusion", leafIndex |-> known[c],
                auditPath |-> InclusionPath(known[c], LeafHashes(Size))]
          [] query.kind = "consistency" ->
               [kind |-> "consistency", path |-> ConsistencyPath(query.first, LeafHashes(Size))]
          [] query.kind = "entries" ->
               [kind |-> "entries", range |-> GetRange(query.start, EntriesEnd(query))]

QueryAnswer(c) ==
    LET query == request[c]
    IN  CASE query.kind = "inclusion" ->
               [kind |-> "inclusion", leafIndex |-> known[c],
                auditPath |-> InclusionPath(known[c], LeafHashes(query.treeSize))]
          [] query.kind = "consistency" ->
               [kind |-> "consistency",
                path |-> ConsistencyPath(query.first, LeafHashes(query.second))]
          [] query.kind = "entries" ->
               [kind |-> "entries", range |-> GetRange(query.start, EntriesEnd(query))]

AnswerQuery(c) ==
    /\ Resumes(c, "query.size")
    /\ \/ /\ QueryAllowed(c)
          /\ Settles(c, "done")
          /\ answer' = [answer EXCEPT ![c] = QueryAnswer(c)]
       \/ /\ ~QueryAllowed(c)
          /\ Settles(c, "failed")
          /\ UNCHANGED answer
    /\ UNCHANGED <<storageVars, request, size, known, head>>

-----------------------------------------------------------------------------

Call ==
    \/ \E c \in Appenders, input \in Input : CallAppendEvent(c, input)
    \/ \E c \in Signers : CallSignTreeHead(c)
    \/ \E c \in Storers, sth \in DirectHeads : CallStoreSth(c, sth)
    \/ \E c \in Readers, query \in InclusionQuery : CallInclusionProof(c, query)
    \/ \E c \in Readers, query \in ConsistencyQuery \cup EntriesQuery : CallQuery(c, query)

(* One job of the microtask queue. *)
RunJob ==
    \E c \in Calls :
      \/ AppendAtSize(c)
      \/ RootHashAt(c)
      \/ ReadLeafHashes(c)
      \/ ReturnThrough(c, "root.range", "root.hashes")
      \/ ReturnThrough(c, "root.hashes", "sign.root")
      \/ ReadLatestSth(c)
      \/ StoreSth(c)
      \/ InclusionProofByIndex(c)
      \/ AnswerQuery(c)

Next == Call \/ RunJob

Spec == Init /\ [][Next]_vars

(* The event loop runs every queued job; nobody is obliged to call.        *)
FairSpec == Spec /\ WF_vars(RunJob)

-----------------------------------------------------------------------------
(* Properties.                                                             *)

Pc == {"idle", "append.size", "sign.size", "root.size", "root.range", "root.hashes",
       "sign.root", "sth.latest", "proof.find", "query.size", "done", "failed"}

Suspended == {c \in Calls : pc[c] \notin {"idle", "done", "failed"}}

(* The awaits of each method. *)
SigningPc == {"sign.size", "root.size", "root.range", "root.hashes", "sign.root"}

RightMethod(c) ==
    /\ pc[c] = "append.size" => c \in Appenders /\ request[c] \in Input
    /\ pc[c] \in SigningPc => c \in Signers
    /\ pc[c] = "sth.latest" => c \in Signers \cup Storers
    /\ pc[c] \in {"proof.find", "query.size"} => c \in Readers /\ request[c] \in Query

(* The queue holds each suspended call once, and no other: what a call     *)
(* began has ended when it returns. *)
QueueHoldsSuspended ==
    /\ \A i \in 1..Len(queue) : queue[i] \in Suspended
    /\ \A c \in Suspended : \E i \in 1..Len(queue) : queue[i] = c
    /\ \A i, j \in 1..Len(queue) : queue[i] = queue[j] => i = j

(* Types of the state; every suspended call has exactly one job, and each  *)
(* call is suspended in its own method with a request of its own kind.     *)
TypeOK ==
    /\ entries \in Seq([leafIndex : Nat, entry : Entry, leafHash : LeafHash])
    /\ byLeafHash \in [LeafHash -> Nat \cup {Undefined}]
    /\ byCertId \in [CertId -> Seq(Nat)]
    /\ \A k \in 1..Len(sths) : sths[k].treeSize \in Nat
    /\ queue \in Seq(Calls)
    /\ pc \in [Calls -> Pc]
    /\ request \in [Calls -> Input \cup Query \cup {Nothing}]
    /\ size \in [Calls -> Nat]
    /\ known \in [Calls -> Nat \cup {Undefined}]
    /\ \A c \in Calls : head[c].treeSize \in Nat
    /\ DOMAIN head = Calls /\ DOMAIN answer = Calls
    /\ \A c \in Calls : RightMethod(c)
    /\ QueueHoldsSuspended

(* Racing appendEvent calls never leave a gap, a wrong index or the same   *)
(* entry twice in the log, and the two lookup maps of MemoryTlogStorage    *)
(* agree with it: a leaf hash leads to the position that holds it, and a   *)
(* certificate's index list is, in order, exactly its entries' positions.  *)
IndexesAgree ==
    /\ \A i \in 1..Size :
         /\ entries[i].leafIndex = i - 1
         /\ entries[i].leafHash = HashLeaf(entries[i].entry)
    /\ \A h \in LeafHash, k \in 0..(Size - 1) :
         byLeafHash[h] = k <=> entries[k + 1].leafHash = h
    /\ \A h \in LeafHash : byLeafHash[h] < Size
    /\ \A id \in CertId :
         LET list == byCertId[id]
         IN  /\ \A i, j \in 1..Len(list) : i < j => list[i] < list[j]
             /\ {list[i] : i \in 1..Len(list)} =
                  {k \in 0..(Size - 1) : entries[k + 1].entry.certId = id}

(* appendEvent tells the truth: the index it returns holds, for ever, the  *)
(* entry built from its input; no two calls are given one index; and it is *)
(* refused only when another append moved the log on between its size()    *)
(* and its append(), or when the entry is in the log already.              *)
AppendAnswersHold ==
    /\ \A c \in Appenders :
         pc[c] = "done" =>
           /\ answer[c].entry = BuildTlogEntry(request[c])
           /\ answer[c].leafIndex + 1 \in 1..Size
           /\ entries[answer[c].leafIndex + 1] = answer[c]
    /\ \A c, d \in Appenders :
         pc[c] = "done" /\ pc[d] = "done" /\ c # d
           => answer[c].leafIndex # answer[d].leafIndex
    /\ \A c \in Appenders :
         pc[c] = "failed" /\ ValidTlogEntry(BuildTlogEntry(request[c])) =>
           \/ size[c] < Size
           \/ \E i \in 1..Size : entries[i].entry = BuildTlogEntry(request[c])

(* Every stored tree head commits to a prefix of the log as it is now: the *)
(* root signed over a slice read three awaits earlier is still the root of *)
(* the first treeSize leaves, however many appends ran meanwhile.          *)
SthsCommitToPrefixes ==
    \A k \in 1..Len(sths) :
      /\ sths[k].treeSize <= Size
      /\ sths[k].rootHash = MerkleRootFromLeafHashes(LeafHashes(sths[k].treeSize))

(* The sizes of the stored heads never go down ("MUST reject treeSize      *)
(* regressions", storage.ts), although storeSth compares with a head read  *)
(* before an await.                                                        *)
SthSizesNeverRegress ==
    \A i, j \in 1..Len(sths) : i <= j => sths[i].treeSize <= sths[j].treeSize

(* The signTreeHead calls under way, and which of two is nearer its end.   *)
Signing == {c \in Signers : pc[c] \in SigningPc \cup {"sth.latest"}}

Stage(at) ==
    CASE at = "sign.size"   -> 0
      [] at = "root.size"   -> 1
      [] at = "root.range"  -> 2
      [] at = "root.hashes" -> 3
      [] at = "sign.root"   -> 4
      [] at = "sth.latest"  -> 5

Before(c, d) == \E i, j \in 1..Len(queue) : i < j /\ queue[i] = c /\ queue[j] = d

Ahead(c, d) ==
    \/ Stage(pc[d]) < Stage(pc[c])
    \/ Stage(pc[d]) = Stage(pc[c]) /\ Before(c, d)

(* Why the stored sizes stay in order: the FIFO queue lets no signTreeHead *)
(* overtake another, so the one nearer its end read the log no later, and  *)
(* no head stored by now is larger than one still to be stored.            *)
SigningInOrder ==
    /\ \A c, d \in Signing : Ahead(c, d) => size[c] <= size[d]
    /\ \A c \in Signing, k \in 1..Len(sths) : sths[k].treeSize <= size[c]

(* signTreeHead never fails, whatever appends, queries and other           *)
(* signTreeHead calls it races with: its size is in range when rootHashAt  *)
(* checks it, and no head stored in between is larger than its own.        *)
SigningNeverFails == \A c \in Signers : pc[c] # "failed"

(* A head of this log, by what the log holds now. *)
CommitsToPrefix(sth) ==
    /\ sth.treeSize <= Size
    /\ sth.rootHash = MerkleRootFromLeafHashes(LeafHashes(sth.treeSize))

(* The proofs a client is given hold against every signed head of this log *)
(* it may hold, of the sizes it asked about, whenever query, appends and   *)
(* heads ran.                                                              *)
ProofsVerifyAgainstSths ==
    LET ours == {sths[k] : k \in {i \in 1..Len(sths) : CommitsToPrefix(sths[i])}}
    IN  \A c \in Readers : pc[c] = "done" =>
      /\ request[c].kind = "inclusion" =>
           \A sth \in ours : sth.treeSize = request[c].treeSize =>
             VerifyInclusion(request[c].leafHash, answer[c].leafIndex,
                             request[c].treeSize, answer[c].auditPath, sth.rootHash)
      /\ request[c].kind = "consistency" =>
           \A old, new \in ours :
             old.treeSize = request[c].first /\ new.treeSize = request[c].second =>
               VerifyConsistency(request[c].first, request[c].second,
                                 old.rootHash, new.rootHash, answer[c].path)
      /\ request[c].kind = "entries" =>
           /\ answer[c].range # <<>>
           /\ \A i \in 1..Len(answer[c].range) :
                answer[c].range[i] = entries[request[c].start + i]

(* The log as the readers of AppendOnlyLog see it, with its Merkle roots.  *)
RootOfEntries(list) ==
    MerkleRootFromLeafHashes([i \in 1..Len(list) |-> HashLeaf(list[i])])

Promise == INSTANCE AppendOnlyLog WITH
    Root <- RootOfEntries,
    log <- [i \in 1..Len(entries) |-> entries[i].entry],
    heads <- sths

(* Every step of the implementation is a step, or a stutter, of the log    *)
(* its readers were promised: entries only added at the end and once, each *)
(* new head over a prefix no shorter than the last head's.                 *)
KeepsThePromise == Promise!Spec

(* Every call is answered, by a result or an error.                        *)
EveryCallSettles ==
    \A c \in Calls : pc[c] # "idle" ~> pc[c] \in {"done", "failed"}
=============================================================================
