------------------------ MODULE TransparencyLog_proofs ------------------------
(***************************************************************************)
(* The transparency log for every set of calls and inputs: its types, the  *)
(* agreement of its indexes, the truth of appendEvent's answers, and, when *)
(* only signTreeHead stores heads, that the heads commit to prefixes that  *)
(* never shrink and that the whole implements AppendOnlyLog.               *)
(*                                                                         *)
(* Each part strengthens the one before.  TypeInv: the types, one job per  *)
(* suspended call.  LogInv: the indexes agree and no call has read a size  *)
(* beyond the log, which only grows.  HeadInv: the head a call has built   *)
(* is over the prefix it read, wherever the log has gone since.  OrderInv: *)
(* the FIFO queue keeps the signing calls in the order of the sizes they   *)
(* read (SigningInOrder), without which storeSth's late comparison could   *)
(* let a head regress or refuse one.                                       *)
(***************************************************************************)
EXTENDS TransparencyLog, Merkle_proofs, SequenceTheorems, TLAPS

-----------------------------------------------------------------------------
(* Sequences.                                                              *)

(* What appending to a sequence leaves and adds. *)
LEMMA SeqAppend ==
    ASSUME NEW S, NEW s \in Seq(S), NEW e \in S
    PROVE  /\ Append(s, e) \in Seq(S)
           /\ Len(Append(s, e)) = Len(s) + 1
           /\ \A i \in 1..Len(s) : Append(s, e)[i] = s[i]
           /\ Append(s, e)[Len(s) + 1] = e
OBVIOUS

(* Head and tail by index. *)
LEMMA SeqTail ==
    ASSUME NEW S, NEW s \in Seq(S), s # <<>>
    PROVE  /\ Len(s) \in Nat \ {0}
           /\ Head(s) = s[1] /\ Head(s) \in S
           /\ Tail(s) \in Seq(S)
           /\ Len(Tail(s)) = Len(s) - 1
           /\ \A i \in 1..(Len(s) - 1) : Tail(s)[i] = s[i + 1]
OBVIOUS

(* The head moved to the end. *)
LEMMA SeqRotate ==
    ASSUME NEW S, NEW s \in Seq(S), s # <<>>
    PROVE  /\ Append(Tail(s), Head(s)) \in Seq(S)
           /\ Len(Append(Tail(s), Head(s))) = Len(s)
           /\ \A i \in 1..(Len(s) - 1) : Append(Tail(s), Head(s))[i] = s[i + 1]
           /\ Append(Tail(s), Head(s))[Len(s)] = s[1]
BY SeqTail, SeqAppend

(* Moving the head to the end keeps the elements and their distinctness. *)
Rotated(s) == Append(Tail(s), Head(s))

(* Moving the head to the back keeps the elements, and each one once. *)
LEMMA SeqRotateKeeps ==
    ASSUME NEW S, NEW s \in Seq(S), s # <<>>
    PROVE  /\ Rotated(s) \in Seq(S)
           /\ Len(Rotated(s)) = Len(s)
           /\ \A i \in 1..Len(s) : \E j \in 1..Len(s) : Rotated(s)[j] = s[i]
           /\ \A j \in 1..Len(s) : \E i \in 1..Len(s) : Rotated(s)[j] = s[i]
           /\ (\A i, j \in 1..Len(s) : s[i] = s[j] => i = j)
                => (\A i, j \in 1..Len(s) : Rotated(s)[i] = Rotated(s)[j] => i = j)
<1> DEFINE n == Len(s)
           t == Rotated(s)
<1>1. n \in Nat \ {0}
  BY SeqTail
<1>2. /\ t \in Seq(S) /\ Len(t) = n
      /\ \A i \in 1..(n - 1) : t[i] = s[i + 1]
      /\ t[n] = s[1]
  BY SeqRotate DEF Rotated
<1> HIDE DEF n, t
<1>3. ASSUME NEW i \in 1..n PROVE \E j \in 1..n : t[j] = s[i]
  <2>1. CASE i = 1
    <3>1. n \in 1..n /\ t[n] = s[i]
      BY <1>1, <1>2, <2>1
    <3> QED BY <3>1
  <2>2. CASE i # 1
    <3>1. i - 1 \in 1..(n - 1) /\ i - 1 \in 1..n /\ (i - 1) + 1 = i
      BY <1>1, <2>2
    <3>2. t[i - 1] = s[i]
      BY <3>1, <1>2
    <3> QED BY <3>1, <3>2
  <2> QED BY <2>1, <2>2
<1>4. ASSUME NEW j \in 1..n PROVE \E i \in 1..n : t[j] = s[i]
  <2>1. CASE j = n
    <3>1. 1 \in 1..n /\ t[j] = s[1]
      BY <1>1, <1>2, <2>1
    <3> QED BY <3>1
  <2>2. CASE j # n
    <3>1. j \in 1..(n - 1) /\ j + 1 \in 1..n
      BY <1>1, <2>2
    <3>2. t[j] = s[j + 1]
      BY <3>1, <1>2
    <3> QED BY <3>1, <3>2
  <2> QED BY <2>1, <2>2
<1>5. ASSUME \A i, j \in 1..n : s[i] = s[j] => i = j,
             NEW i \in 1..n, NEW j \in 1..n, t[i] = t[j]
      PROVE  i = j
  <2>1. CASE i = n /\ j = n
    BY <2>1
  <2>2. CASE i = n /\ j # n
    <3>1. j \in 1..(n - 1) /\ j + 1 \in 1..n /\ 1 \in 1..n /\ j + 1 # 1
      BY <1>1, <2>2
    <3>2. s[1] = s[j + 1]
      BY <1>2, <1>5, <2>2, <3>1
    <3> QED BY <3>1, <3>2, <1>5
  <2>3. CASE i # n /\ j = n
    <3>1. i \in 1..(n - 1) /\ i + 1 \in 1..n /\ 1 \in 1..n /\ i + 1 # 1
      BY <1>1, <2>3
    <3>2. s[1] = s[i + 1]
      BY <1>2, <1>5, <2>3, <3>1
    <3> QED BY <3>1, <3>2, <1>5
  <2>4. CASE i # n /\ j # n
    <3>1. i \in 1..(n - 1) /\ j \in 1..(n - 1) /\ i + 1 \in 1..n /\ j + 1 \in 1..n
      BY <1>1, <2>4
    <3>2. s[i + 1] = s[j + 1]
      BY <1>2, <1>5, <3>1
    <3>3. i + 1 = j + 1
      BY <3>1, <3>2, <1>5
    <3> QED BY <3>3
  <2> QED BY <2>1, <2>2, <2>3, <2>4
<1> QED BY <1>2, <1>3, <1>4, <1>5 DEF n, t

-----------------------------------------------------------------------------
(* The microtask queue.                                                    *)

Live == Pc \ {"idle", "done", "failed"}

QueueTyped ==
    /\ queue \in Seq(Calls)
    /\ pc \in [Calls -> Pc]
    /\ QueueHoldsSuspended

(* A call that begins joins the queue. *)
LEMMA QueueBegins ==
    ASSUME QueueTyped, NEW c \in Calls, NEW at \in Live, Begins(c, at)
    PROVE  QueueTyped'
<1> USE DEF QueueTyped, Begins, Live, Pc
<1>1. queue' \in Seq(Calls) /\ pc' \in [Calls -> Pc]
  BY SeqAppend
<1>2. Suspended' = Suspended \cup {c}
  BY DEF Suspended
<1>3. /\ Len(queue') = Len(queue) + 1
      /\ \A i \in 1..Len(queue) : queue'[i] = queue[i]
      /\ queue'[Len(queue) + 1] = c
      /\ Len(queue) \in Nat
  BY SeqAppend
<1>4. \A i \in 1..Len(queue) : queue[i] # c
  BY DEF QueueHoldsSuspended, Suspended
<1>5. \A i \in 1..Len(queue') : queue'[i] \in Suspended'
  BY <1>2, <1>3 DEF QueueHoldsSuspended
<1>6. \A d \in Suspended' : \E i \in 1..Len(queue') : queue'[i] = d
  <2> SUFFICES ASSUME NEW d \in Suspended' PROVE \E i \in 1..Len(queue') : queue'[i] = d
    OBVIOUS
  <2>1. CASE d = c
    BY <2>1, <1>3
  <2>2. CASE d \in Suspended
    <3>1. PICK i \in 1..Len(queue) : queue[i] = d
      BY <2>2 DEF QueueHoldsSuspended
    <3>2. i \in 1..Len(queue') /\ queue'[i] = d
      BY <3>1, <1>3
    <3> QED BY <3>2
  <2> QED BY <2>1, <2>2, <1>2
<1>7. \A i, j \in 1..Len(queue') : queue'[i] = queue'[j] => i = j
  BY <1>3, <1>4 DEF QueueHoldsSuspended
<1> QED BY <1>1, <1>5, <1>6, <1>7 DEF QueueHoldsSuspended

(* A call that reaches another await moves from the front to the back. *)
LEMMA QueueAwaits ==
    ASSUME QueueTyped, NEW c \in Calls, NEW from, NEW to \in Live,
           Resumes(c, from), AwaitsNext(c, to)
    PROVE  QueueTyped'
<1>1. /\ queue \in Seq(Calls) /\ queue # <<>> /\ c = Head(queue)
      /\ queue' = Rotated(queue)
  BY DEF QueueTyped, Resumes, AwaitsNext, Rotated
<1>2. pc' \in [Calls -> Pc] /\ pc' = [pc EXCEPT ![c] = to]
  BY DEF QueueTyped, AwaitsNext, Live
<1>3. c = queue[1] /\ Len(queue) \in Nat \ {0}
  BY <1>1, SeqTail
<1>4. c \in Suspended
  BY <1>3 DEF QueueHoldsSuspended, QueueTyped
<1>5. Suspended' = Suspended
  BY <1>2, <1>4 DEF Suspended, Live, QueueTyped
<1>6. /\ queue' \in Seq(Calls)
      /\ Len(queue') = Len(queue)
      /\ \A i \in 1..Len(queue) : \E j \in 1..Len(queue) : queue'[j] = queue[i]
      /\ \A j \in 1..Len(queue) : \E i \in 1..Len(queue) : queue'[j] = queue[i]
      /\ (\A i, j \in 1..Len(queue) : queue[i] = queue[j] => i = j)
           => (\A i, j \in 1..Len(queue) : queue'[i] = queue'[j] => i = j)
  <2>1. /\ Rotated(queue) \in Seq(Calls)
        /\ Len(Rotated(queue)) = Len(queue)
        /\ \A i \in 1..Len(queue) : \E j \in 1..Len(queue) : Rotated(queue)[j] = queue[i]
        /\ \A j \in 1..Len(queue) : \E i \in 1..Len(queue) : Rotated(queue)[j] = queue[i]
        /\ (\A i, j \in 1..Len(queue) : queue[i] = queue[j] => i = j)
             => (\A i, j \in 1..Len(queue) : Rotated(queue)[i] = Rotated(queue)[j] => i = j)
    BY <1>1, SeqRotateKeeps, Zenon
  <2> QED BY <1>1, <2>1, Zenon
<1>7. QueueHoldsSuspended'
  <2>1. \A i \in 1..Len(queue') : queue'[i] \in Suspended'
    BY <1>5, <1>6, Zenon DEF QueueHoldsSuspended, QueueTyped
  <2>2. \A d \in Suspended' : \E i \in 1..Len(queue') : queue'[i] = d
    <3> SUFFICES ASSUME NEW d \in Suspended PROVE \E i \in 1..Len(queue') : queue'[i] = d
      BY <1>5
    <3>1. PICK i \in 1..Len(queue) : queue[i] = d
      BY DEF QueueHoldsSuspended, QueueTyped
    <3>2. PICK j \in 1..Len(queue) : queue'[j] = queue[i]
      BY <1>6
    <3> QED BY <3>1, <3>2, <1>6
  <2>3. \A i, j \in 1..Len(queue') : queue'[i] = queue'[j] => i = j
    BY <1>6, Zenon DEF QueueHoldsSuspended, QueueTyped
  <2> QED BY <2>1, <2>2, <2>3 DEF QueueHoldsSuspended
<1> QED BY <1>2, <1>6, <1>7 DEF QueueTyped

(* A call that ends leaves the queue. *)
LEMMA QueueSettles ==
    ASSUME QueueTyped, NEW c \in Calls, NEW from, NEW how \in {"done", "failed"},
           Resumes(c, from), Settles(c, how)
    PROVE  QueueTyped'
<1> USE DEF QueueTyped, Resumes, Settles, Live, Pc
<1>1. queue' \in Seq(Calls) /\ pc' \in [Calls -> Pc]
  BY SeqTail
<1>2. c = queue[1] /\ Len(queue) \in Nat \ {0}
  BY SeqTail
<1>3. Suspended' = Suspended \ {c}
  BY DEF Suspended
<1>4. /\ Len(queue') = Len(queue) - 1
      /\ \A i \in 1..(Len(queue) - 1) : queue'[i] = queue[i + 1]
  BY SeqTail
<1>5. \A i \in 2..Len(queue) : queue[i] # c
  BY <1>2 DEF QueueHoldsSuspended
<1>6. \A i \in 1..Len(queue') : queue'[i] \in Suspended'
  BY <1>2, <1>3, <1>4, <1>5 DEF QueueHoldsSuspended
<1>7. \A d \in Suspended' : \E i \in 1..Len(queue') : queue'[i] = d
  <2> SUFFICES ASSUME NEW d \in Suspended, d # c PROVE \E i \in 1..Len(queue') : queue'[i] = d
    BY <1>3
  <2>1. PICK i \in 1..Len(queue) : queue[i] = d
    BY DEF QueueHoldsSuspended
  <2>2. i - 1 \in 1..Len(queue') /\ queue'[i - 1] = d
    BY <2>1, <1>2, <1>4
  <2> QED BY <2>2
<1>8. \A i, j \in 1..Len(queue') : queue'[i] = queue'[j] => i = j
  <2> SUFFICES ASSUME NEW i \in 1..Len(queue'), NEW j \in 1..Len(queue'),
                      queue'[i] = queue'[j]
               PROVE  i = j
    OBVIOUS
  <2>1. queue[i + 1] = queue[j + 1] /\ i + 1 \in 1..Len(queue) /\ j + 1 \in 1..Len(queue)
    BY <1>2, <1>4
  <2>2. i + 1 = j + 1
    BY <2>1 DEF QueueHoldsSuspended
  <2> QED BY <2>2
<1> QED BY <1>1, <1>6, <1>7, <1>8 DEF QueueHoldsSuspended
-----------------------------------------------------------------------------
(* Types.                                                                  *)

(* The initial state is typed. *)
LEMMA InitTypeOK == Init => TypeOK
<1> SUFFICES ASSUME Init PROVE TypeOK
  OBVIOUS
<1> USE DEF Init, StorageInit
<1>1. /\ entries \in Seq([leafIndex : Nat, entry : Entry, leafHash : LeafHash])
      /\ byLeafHash \in [LeafHash -> Nat \cup {Undefined}]
      /\ byCertId \in [CertId -> Seq(Nat)]
      /\ queue \in Seq(Calls)
  OBVIOUS
<1>2. pc \in [Calls -> Pc]
  BY DEF Pc
<1>3. /\ request \in [Calls -> Input \cup Query \cup {Nothing}]
      /\ size \in [Calls -> Nat]
      /\ known \in [Calls -> Nat \cup {Undefined}]
      /\ DOMAIN head = Calls /\ DOMAIN answer = Calls
      /\ \A k \in 1..Len(sths) : sths[k].treeSize \in Nat
  OBVIOUS
<1>4. \A c \in Calls : head[c].treeSize \in Nat
  BY DEF NoHead
<1>5. \A c \in Calls : RightMethod(c)
  BY DEF RightMethod, SigningPc
<1>6. QueueHoldsSuspended
  BY DEF QueueHoldsSuspended, Suspended
<1> QED BY <1>1, <1>2, <1>3, <1>4, <1>5, <1>6 DEF TypeOK

(* sths is a sequence; of what, depends on the heads DirectHeads brings. *)
TypeInv == TypeOK /\ \E S : sths \in Seq(S)

(* The same for an element of any kind. *)
LEMMA SeqAppendAny ==
    ASSUME NEW S, NEW s \in Seq(S), NEW e
    PROVE  /\ Append(s, e) \in Seq(S \cup {e})
           /\ Len(Append(s, e)) = Len(s) + 1
           /\ Len(s) \in Nat
           /\ \A i \in 1..Len(s) : Append(s, e)[i] = s[i]
           /\ Append(s, e)[Len(s) + 1] = e
<1>1. s \in Seq(S \cup {e})
  OBVIOUS
<1> QED BY <1>1, SeqAppend

(* getLatestSth() gives a size or Undefined. *)
LEMMA LatestSizeType == TypeInv => LatestSize \in Nat \cup {Undefined}
<1> SUFFICES ASSUME TypeInv, sths # <<>> PROVE sths[Len(sths)].treeSize \in Nat
  BY DEF LatestSize
<1>1. PICK S : sths \in Seq(S)
  BY DEF TypeInv
<1>2. Len(sths) \in 1..Len(sths)
  BY <1>1, SeqTail
<1> QED BY <1>2 DEF TypeInv, TypeOK

(* The parts of the type invariant that a call's own bookkeeping touches.  *)
CallTypes ==
    /\ request \in [Calls -> Input \cup Query \cup {Nothing}]
    /\ size \in [Calls -> Nat]
    /\ known \in [Calls -> Nat \cup {Undefined}]
    /\ \A c \in Calls : head[c].treeSize \in Nat
    /\ DOMAIN head = Calls /\ DOMAIN answer = Calls

StorageTypes ==
    /\ entries \in Seq([leafIndex : Nat, entry : Entry, leafHash : LeafHash])
    /\ byLeafHash \in [LeafHash -> Nat \cup {Undefined}]
    /\ byCertId \in [CertId -> Seq(Nat)]
    /\ \A k \in 1..Len(sths) : sths[k].treeSize \in Nat
    /\ \E S : sths \in Seq(S)

(* The type invariant, part by part. *)
LEMMA TypeInvParts ==
    TypeInv <=> StorageTypes /\ QueueTyped /\ CallTypes /\ \A c \in Calls : RightMethod(c)
BY DEF TypeInv, TypeOK, StorageTypes, QueueTyped, CallTypes

(* The size of the log is a number. *)
LEMMA SizeType == StorageTypes => Size \in Nat
BY DEF StorageTypes, Size

(* A step that leaves the storage alone keeps its types. *)
LEMMA StorageTypesUnchanged == StorageTypes /\ UNCHANGED storageVars => StorageTypes'
BY DEF StorageTypes, storageVars

(* append() keeps the types. *)
LEMMA AppendRecordType ==
    ASSUME StorageTypes, NEW entry \in Entry, NEW n \in Nat,
           AppendRecord(StoredEntry(n, entry))
    PROVE  StorageTypes'
<1> DEFINE record == StoredEntry(n, entry)
<1>1. /\ record \in [leafIndex : Nat, entry : Entry, leafHash : LeafHash]
      /\ record.leafIndex = n /\ record.leafHash \in LeafHash /\ record.entry.certId \in CertId
  BY DEF StoredEntry, LeafHash, CertId
<1> HIDE DEF record
<1>2. entries' \in Seq([leafIndex : Nat, entry : Entry, leafHash : LeafHash])
  BY <1>1, SeqAppend DEF AppendRecord, StorageTypes, record
<1>3. byLeafHash' \in [LeafHash -> Nat \cup {Undefined}]
  BY <1>1 DEF AppendRecord, StorageTypes, record
<1>4. byCertId' \in [CertId -> Seq(Nat)]
  <2>1. Append(byCertId[record.entry.certId], record.leafIndex) \in Seq(Nat)
    BY <1>1, SeqAppend DEF StorageTypes
  <2> QED BY <2>1, <1>1 DEF AppendRecord, StorageTypes, record
<1>5. UNCHANGED sths
  BY DEF AppendRecord
<1> QED BY <1>2, <1>3, <1>4, <1>5 DEF StorageTypes

(* The other calls keep their own method and request. *)
LEMMA RightMethodKept ==
    ASSUME QueueTyped, CallTypes, NEW c \in Calls, NEW at \in Pc, NEW r,
           \A d \in Calls : RightMethod(d),
           pc' = [pc EXCEPT ![c] = at],
           request' = [request EXCEPT ![c] = r],
           /\ at = "append.size" => c \in Appenders /\ r \in Input
           /\ at \in SigningPc => c \in Signers
           /\ at = "sth.latest" => c \in Signers \cup Storers
           /\ at \in {"proof.find", "query.size"} => c \in Readers /\ r \in Query
    PROVE  \A d \in Calls : RightMethod(d)'
<1> SUFFICES ASSUME NEW d \in Calls PROVE RightMethod(d)'
  OBVIOUS
<1>1. CASE d = c
  <2>1. pc'[d] = at /\ request'[d] = r
    BY <1>1 DEF QueueTyped, CallTypes
  <2> QED BY <1>1, <2>1 DEF RightMethod
<1>2. CASE d # c
  <2>1. pc'[d] = pc[d] /\ request'[d] = request[d]
    BY <1>2 DEF QueueTyped, CallTypes
  <2> QED BY <2>1 DEF RightMethod
<1> QED BY <1>1, <1>2

(* A request left alone is a request assigned to itself. *)
LEMMA RequestKept ==
    ASSUME CallTypes, NEW c \in Calls, UNCHANGED request
    PROVE  request' = [request EXCEPT ![c] = request[c]]
BY DEF CallTypes

(* The parts make up the whole in the next state too. *)
LEMMA TypeInvNext ==
    ASSUME StorageTypes', QueueTyped', CallTypes', \A c \in Calls : RightMethod(c)'
    PROVE  TypeInv'
BY DEF TypeInv, TypeOK, StorageTypes, QueueTyped, CallTypes

(* Each action keeps the types. *)
LEMMA CallAppendEventType ==
    ASSUME TypeInv, NEW c \in Appenders, NEW input \in Input, CallAppendEvent(c, input)
    PROVE  TypeInv'
<1>1. c \in Calls
  BY DEF Calls
<1>2. StorageTypes /\ QueueTyped /\ CallTypes /\ \A d \in Calls : RightMethod(d)
  BY TypeInvParts
<1>3. StorageTypes'
  BY <1>2, StorageTypesUnchanged DEF CallAppendEvent
<1>4. CallTypes'
  BY <1>2, SizeType DEF CallAppendEvent, CallTypes
<1>5. request' = [request EXCEPT ![c] = input]
  BY DEF CallAppendEvent
<1>6. CASE Begins(c, "append.size")
  <2>1. QueueTyped'
    BY <1>1, <1>2, <1>6, QueueBegins DEF Live, Pc
  <2>2. \A d \in Calls : RightMethod(d)'
    BY <1>1, <1>2, <1>5, <1>6, RightMethodKept DEF Begins, Pc, SigningPc
  <2> QED BY <1>3, <1>4, <2>1, <2>2, TypeInvNext
<1>7. CASE pc[c] = "idle" /\ pc' = [pc EXCEPT ![c] = "failed"] /\ UNCHANGED queue
  <2>1. Suspended' = Suspended
    BY <1>1, <1>2, <1>7 DEF Suspended, QueueTyped
  <2>2. QueueTyped'
    BY <1>2, <1>7, <2>1 DEF QueueTyped, QueueHoldsSuspended, Pc
  <2>3. \A d \in Calls : RightMethod(d)'
    BY <1>1, <1>2, <1>5, <1>7, RightMethodKept DEF Pc, SigningPc
  <2> QED BY <1>3, <1>4, <2>2, <2>3, TypeInvNext
<1> QED BY <1>6, <1>7 DEF CallAppendEvent

(* A step of the event loop keeps the types when its bookkeeping does and  *)
(* the await it reaches is one of c's own method.                          *)
LEMMA StepType ==
    ASSUME TypeInv, NEW c \in Calls, NEW from, NEW at \in Pc, NEW r,
           \/ at \in Live /\ Begins(c, at)
           \/ at \in Live /\ Resumes(c, from) /\ AwaitsNext(c, at)
           \/ at \in {"done", "failed"} /\ Resumes(c, from) /\ Settles(c, at),
           request' = [request EXCEPT ![c] = r],
           /\ at = "append.size" => c \in Appenders /\ r \in Input
           /\ at \in SigningPc => c \in Signers
           /\ at = "sth.latest" => c \in Signers \cup Storers
           /\ at \in {"proof.find", "query.size"} => c \in Readers /\ r \in Query,
           StorageTypes', CallTypes'
    PROVE  TypeInv'
<1>1. QueueTyped /\ CallTypes /\ \A d \in Calls : RightMethod(d)
  BY TypeInvParts
<1>2. QueueTyped'
  BY <1>1, QueueBegins, QueueAwaits, QueueSettles
<1>3. pc' = [pc EXCEPT ![c] = at]
  BY DEF Begins, AwaitsNext, Settles
<1>4. \A d \in Calls : RightMethod(d)'
  BY <1>1, <1>3, RightMethodKept
<1> QED BY <1>2, <1>4, TypeInvNext

(* The step of a call that only moves on. *)
LEMMA MoveType ==
    ASSUME TypeInv, NEW c \in Calls, NEW from, NEW at \in Pc,
           \/ at \in Live /\ Begins(c, at)
           \/ at \in Live /\ Resumes(c, from) /\ AwaitsNext(c, at)
           \/ at \in {"done", "failed"} /\ Resumes(c, from) /\ Settles(c, at),
           UNCHANGED request,
           /\ at = "append.size" => c \in Appenders /\ request[c] \in Input
           /\ at \in SigningPc => c \in Signers
           /\ at = "sth.latest" => c \in Signers \cup Storers
           /\ at \in {"proof.find", "query.size"} => c \in Readers /\ request[c] \in Query,
           StorageTypes', CallTypes'
    PROVE  TypeInv'
<1>1. request' = [request EXCEPT ![c] = request[c]]
  BY TypeInvParts DEF CallTypes
<1> QED BY <1>1, StepType

(* ... the continuation of appendEvent, *)
LEMMA AppendAtSizeType ==
    ASSUME TypeInv, NEW c \in Calls, AppendAtSize(c) PROVE TypeInv'
<1>1. StorageTypes /\ CallTypes /\ RightMethod(c)
  BY TypeInvParts
<1>2. size[c] \in Nat /\ BuildTlogEntry(request[c]) \in Entry
  BY <1>1 DEF CallTypes, RightMethod, AppendAtSize, Resumes, Entry
<1>3. StorageTypes'
  BY <1>1, <1>2, AppendRecordType, StorageTypesUnchanged DEF AppendAtSize
<1>4. CallTypes'
  BY <1>1 DEF AppendAtSize, CallTypes
<1>5. UNCHANGED request /\ Resumes(c, "append.size")
  BY DEF AppendAtSize
<1>6. CASE Settles(c, "done")
  BY <1>3, <1>4, <1>5, <1>6, MoveType DEF Pc, SigningPc
<1>7. CASE Settles(c, "failed")
  BY <1>3, <1>4, <1>5, <1>7, MoveType DEF Pc, SigningPc
<1> QED BY <1>6, <1>7 DEF AppendAtSize

(* ... the five parts of signTreeHead and its two returns, *)
LEMMA CallSignTreeHeadType ==
    ASSUME TypeInv, NEW c \in Signers, CallSignTreeHead(c) PROVE TypeInv'
<1>1. StorageTypes /\ CallTypes /\ c \in Calls
  BY TypeInvParts DEF Calls
<1>2. StorageTypes' /\ CallTypes'
  BY <1>1, SizeType, StorageTypesUnchanged DEF CallSignTreeHead, CallTypes
<1>3. UNCHANGED request /\ Begins(c, "sign.size")
  BY DEF CallSignTreeHead
<1> QED BY <1>1, <1>2, <1>3, MoveType DEF Pc, Live, SigningPc

(* ... rootHashAt up to its await, *)
LEMMA RootHashAtType ==
    ASSUME TypeInv, NEW c \in Calls, RootHashAt(c) PROVE TypeInv'
<1>1. StorageTypes /\ CallTypes /\ RightMethod(c)
  BY TypeInvParts
<1>2. StorageTypes' /\ CallTypes'
  BY <1>1, SizeType, StorageTypesUnchanged DEF RootHashAt, CallTypes
<1>3. /\ UNCHANGED request /\ Resumes(c, "sign.size") /\ AwaitsNext(c, "root.size")
      /\ c \in Signers
  BY <1>1 DEF RootHashAt, RightMethod, Resumes, SigningPc
<1> QED BY <1>2, <1>3, MoveType DEF Pc, Live, SigningPc

(* ... the slice of leaf hashes, *)
LEMMA ReadLeafHashesType ==
    ASSUME TypeInv, NEW c \in Calls, ReadLeafHashes(c) PROVE TypeInv'
<1>1. StorageTypes /\ CallTypes /\ RightMethod(c)
  BY TypeInvParts
<1>2. StorageTypes'
  BY <1>1, StorageTypesUnchanged DEF ReadLeafHashes
<1>3. \A d \in Calls : head'[d].treeSize \in Nat
  <2>1. CASE UNCHANGED head
    BY <1>1, <2>1 DEF CallTypes
  <2>2. CASE \E root : head' = [head EXCEPT ![c] = [treeSize |-> size[c], rootHash |-> root]]
    <3>1. PICK root : head' = [head EXCEPT ![c] = [treeSize |-> size[c], rootHash |-> root]]
      BY <2>2
    <3> SUFFICES ASSUME NEW d \in Calls PROVE head'[d].treeSize \in Nat
      OBVIOUS
    <3>2. head'[d] = head[d] \/ head'[d] = [treeSize |-> size[c], rootHash |-> root]
      BY <3>1
    <3> QED BY <1>1, <3>2 DEF CallTypes
  <2> QED BY <2>1, <2>2 DEF ReadLeafHashes
<1>4. CallTypes'
  BY <1>1, <1>3 DEF ReadLeafHashes, CallTypes
<1>5. UNCHANGED request /\ Resumes(c, "root.size") /\ c \in Signers
  BY <1>1 DEF ReadLeafHashes, RightMethod, Resumes, SigningPc
<1>6. CASE AwaitsNext(c, "root.range")
  BY <1>2, <1>4, <1>5, <1>6, MoveType DEF Pc, Live, SigningPc
<1>7. CASE Settles(c, "failed")
  BY <1>2, <1>4, <1>5, <1>7, MoveType DEF Pc, SigningPc
<1> QED BY <1>6, <1>7 DEF ReadLeafHashes

(* ... the returns through awaits, *)
LEMMA ReturnThroughType ==
    ASSUME TypeInv, NEW c \in Calls, NEW from \in SigningPc, NEW to \in SigningPc,
           ReturnThrough(c, from, to)
    PROVE  TypeInv'
<1>1. StorageTypes /\ CallTypes /\ RightMethod(c)
  BY TypeInvParts
<1>2. StorageTypes' /\ CallTypes'
  BY <1>1, StorageTypesUnchanged DEF ReturnThrough, CallTypes
<1>3. UNCHANGED request /\ Resumes(c, from) /\ AwaitsNext(c, to) /\ c \in Signers
  BY <1>1 DEF ReturnThrough, RightMethod, Resumes
<1> QED BY <1>2, <1>3, MoveType DEF Pc, Live, SigningPc

(* ... storeSth up to its await, *)
LEMMA ReadLatestSthType ==
    ASSUME TypeInv, NEW c \in Calls, ReadLatestSth(c) PROVE TypeInv'
<1>1. StorageTypes /\ CallTypes /\ RightMethod(c)
  BY TypeInvParts
<1>2. StorageTypes' /\ CallTypes'
  BY <1>1, LatestSizeType, StorageTypesUnchanged DEF ReadLatestSth, CallTypes
<1>3. /\ UNCHANGED request /\ Resumes(c, "sign.root") /\ AwaitsNext(c, "sth.latest")
      /\ c \in Signers
  BY <1>1 DEF ReadLatestSth, RightMethod, Resumes, SigningPc
<1> QED BY <1>2, <1>3, MoveType DEF Pc, Live, SigningPc

(* ... and after it, *)
LEMMA StoreSthType ==
    ASSUME TypeInv, NEW c \in Calls, StoreSth(c) PROVE TypeInv'
<1>1. StorageTypes /\ CallTypes
  BY TypeInvParts
<1>2. StorageTypes'
  <2>1. PICK S : sths \in Seq(S)
    BY <1>1 DEF StorageTypes
  <2>2. CASE sths' = Append(sths, head[c])
    <3>1. sths' \in Seq(S \cup {head[c]})
      BY <2>1, <2>2, SeqAppendAny
    <3>2. \A k \in 1..Len(sths') : sths'[k].treeSize \in Nat
      <4> SUFFICES ASSUME NEW k \in 1..Len(sths') PROVE sths'[k].treeSize \in Nat
        OBVIOUS
      <4>1. /\ Len(sths') = Len(sths) + 1 /\ Len(sths) \in Nat
            /\ \A i \in 1..Len(sths) : sths'[i] = sths[i]
            /\ sths'[Len(sths) + 1] = head[c]
        BY <2>1, <2>2, SeqAppendAny
      <4>2. CASE k = Len(sths) + 1
        BY <1>1, <4>1, <4>2 DEF CallTypes
      <4>3. CASE k # Len(sths) + 1
        <5>1. k \in 1..Len(sths)
          BY <4>1, <4>3
        <5> QED BY <1>1, <4>1, <5>1 DEF StorageTypes
      <4> QED BY <4>2, <4>3
    <3> QED BY <1>1, <3>1, <3>2 DEF StoreSth, StorageTypes
  <2>3. CASE UNCHANGED sths
    BY <1>1, <2>3 DEF StoreSth, StorageTypes
  <2> QED BY <2>2, <2>3 DEF StoreSth
<1>3. CallTypes'
  BY <1>1 DEF StoreSth, CallTypes
<1>4. UNCHANGED request /\ Resumes(c, "sth.latest")
  BY DEF StoreSth
<1>5. CASE Settles(c, "done")
  BY <1>2, <1>3, <1>4, <1>5, MoveType DEF Pc, SigningPc
<1>6. CASE Settles(c, "failed")
  BY <1>2, <1>3, <1>4, <1>6, MoveType DEF Pc, SigningPc
<1> QED BY <1>5, <1>6 DEF StoreSth

(* ... storeSth called from outside, *)
LEMMA CallStoreSthType ==
    ASSUME TypeInv, NEW c \in Storers, NEW sth \in DirectHeads, CallStoreSth(c, sth)
    PROVE  TypeInv'
<1>1. StorageTypes /\ CallTypes /\ c \in Calls
  BY TypeInvParts DEF Calls
<1>2. StorageTypes'
  BY <1>1, StorageTypesUnchanged DEF CallStoreSth
<1>3. \A d \in Calls : head'[d].treeSize \in Nat
  BY <1>1, DirectHeadsAreHeads DEF CallStoreSth, CallTypes
<1>4. CallTypes'
  BY <1>1, <1>3, LatestSizeType DEF CallStoreSth, CallTypes
<1>5. UNCHANGED request /\ Begins(c, "sth.latest")
  BY DEF CallStoreSth
<1> QED BY <1>1, <1>2, <1>4, <1>5, MoveType DEF Pc, Live, SigningPc

(* ... inclusionProofByHash up to its await, *)
LEMMA CallInclusionProofType ==
    ASSUME TypeInv, NEW c \in Readers, NEW query \in Query, CallInclusionProof(c, query)
    PROVE  TypeInv'
<1>1. StorageTypes /\ CallTypes /\ c \in Calls
  BY TypeInvParts DEF Calls
<1>2. StorageTypes' /\ CallTypes'
  BY <1>1, StorageTypesUnchanged DEF CallInclusionProof, CallTypes, StorageTypes
<1>3. request' = [request EXCEPT ![c] = query] /\ Begins(c, "proof.find")
  BY DEF CallInclusionProof
<1> QED BY <1>1, <1>2, <1>3, StepType DEF Pc, Live, SigningPc

(* ... the other queries up to theirs, *)
LEMMA CallQueryType ==
    ASSUME TypeInv, NEW c \in Readers, NEW query \in Query, CallQuery(c, query)
    PROVE  TypeInv'
<1>1. StorageTypes /\ CallTypes /\ c \in Calls
  BY TypeInvParts DEF Calls
<1>2. StorageTypes' /\ CallTypes'
  BY <1>1, SizeType, StorageTypesUnchanged DEF CallQuery, CallTypes
<1>3. request' = [request EXCEPT ![c] = query] /\ Begins(c, "query.size")
  BY DEF CallQuery
<1> QED BY <1>1, <1>2, <1>3, StepType DEF Pc, Live, SigningPc

(* ... inclusionProofByIndex, *)
LEMMA InclusionProofByIndexType ==
    ASSUME TypeInv, NEW c \in Calls, InclusionProofByIndex(c) PROVE TypeInv'
<1>1. StorageTypes /\ CallTypes /\ RightMethod(c)
  BY TypeInvParts
<1>2. StorageTypes' /\ CallTypes'
  BY <1>1, SizeType, StorageTypesUnchanged DEF InclusionProofByIndex, CallTypes
<1>3. /\ UNCHANGED request /\ Resumes(c, "proof.find")
      /\ c \in Readers /\ request[c] \in Query
  BY <1>1 DEF InclusionProofByIndex, RightMethod, Resumes
<1>4. CASE AwaitsNext(c, "query.size")
  BY <1>2, <1>3, <1>4, MoveType DEF Pc, Live, SigningPc
<1>5. CASE Settles(c, "failed")
  BY <1>2, <1>3, <1>5, MoveType DEF Pc, SigningPc
<1> QED BY <1>4, <1>5 DEF InclusionProofByIndex

(* ... and the answer to a query. *)
LEMMA AnswerQueryType ==
    ASSUME TypeInv, NEW c \in Calls, AnswerQuery(c) PROVE TypeInv'
<1>1. StorageTypes /\ CallTypes
  BY TypeInvParts
<1>2. StorageTypes' /\ CallTypes'
  BY <1>1, StorageTypesUnchanged DEF AnswerQuery, CallTypes
<1>3. UNCHANGED request /\ Resumes(c, "query.size")
  BY DEF AnswerQuery
<1>4. CASE Settles(c, "done")
  BY <1>2, <1>3, <1>4, MoveType DEF Pc, SigningPc
<1>5. CASE Settles(c, "failed")
  BY <1>2, <1>3, <1>5, MoveType DEF Pc, SigningPc
<1> QED BY <1>4, <1>5 DEF AnswerQuery

(* So does a step that changes nothing. *)
LEMMA StutterType == TypeInv /\ UNCHANGED vars => TypeInv'
BY DEF vars, TypeInv, TypeOK, RightMethod, QueueHoldsSuspended, Suspended

(* Every step keeps the types. *)
LEMMA NextType == TypeInv /\ [Next]_vars => TypeInv'
<1> SUFFICES ASSUME TypeInv, [Next]_vars PROVE TypeInv'
  OBVIOUS
<1>1. CASE Call
  <2>1. ASSUME NEW c \in Appenders, NEW input \in Input, CallAppendEvent(c, input)
        PROVE  TypeInv'
    BY <2>1, CallAppendEventType
  <2>2. ASSUME NEW c \in Signers, CallSignTreeHead(c) PROVE TypeInv'
    BY <2>2, CallSignTreeHeadType
  <2>3. ASSUME NEW c \in Storers, NEW sth \in DirectHeads, CallStoreSth(c, sth)
        PROVE  TypeInv'
    BY <2>3, CallStoreSthType
  <2>4. ASSUME NEW c \in Readers, NEW query \in InclusionQuery, CallInclusionProof(c, query)
        PROVE  TypeInv'
    BY <2>4, CallInclusionProofType DEF InclusionQuery
  <2>5. ASSUME NEW c \in Readers, NEW query \in ConsistencyQuery \cup EntriesQuery,
               CallQuery(c, query)
        PROVE  TypeInv'
    BY <2>5, CallQueryType DEF ConsistencyQuery, EntriesQuery
  <2> QED BY <1>1, <2>1, <2>2, <2>3, <2>4, <2>5 DEF Call
<1>2. CASE RunJob
  <2>1. PICK c \in Calls :
          \/ AppendAtSize(c)
          \/ RootHashAt(c)
          \/ ReadLeafHashes(c)
          \/ ReturnThrough(c, "root.range", "root.hashes")
          \/ ReturnThrough(c, "root.hashes", "sign.root")
          \/ ReadLatestSth(c)
          \/ StoreSth(c)
          \/ InclusionProofByIndex(c)
          \/ AnswerQuery(c)
    BY <1>2 DEF RunJob
  <2>2. CASE AppendAtSize(c) BY <2>2, AppendAtSizeType
  <2>3. CASE RootHashAt(c) BY <2>3, RootHashAtType
  <2>4. CASE ReadLeafHashes(c) BY <2>4, ReadLeafHashesType
  <2>5. CASE ReturnThrough(c, "root.range", "root.hashes")
    BY <2>5, ReturnThroughType DEF SigningPc
  <2>6. CASE ReturnThrough(c, "root.hashes", "sign.root")
    BY <2>6, ReturnThroughType DEF SigningPc
  <2>7. CASE ReadLatestSth(c) BY <2>7, ReadLatestSthType
  <2>8. CASE StoreSth(c) BY <2>8, StoreSthType
  <2>9. CASE InclusionProofByIndex(c) BY <2>9, InclusionProofByIndexType
  <2>10. CASE AnswerQuery(c) BY <2>10, AnswerQueryType
  <2> QED BY <2>1, <2>2, <2>3, <2>4, <2>5, <2>6, <2>7, <2>8, <2>9, <2>10
<1>3. CASE UNCHANGED vars BY <1>3, StutterType
<1> QED BY <1>1, <1>2, <1>3 DEF Next

(* The initial state has the type invariant. *)
LEMMA InitTypeInv == Init => TypeInv
<1>1. Init => \E S : sths \in Seq(S)
  <2>1. ASSUME Init PROVE sths \in Seq({})
    BY <2>1 DEF Init, StorageInit
  <2> QED BY <2>1
<1> QED BY <1>1, InitTypeOK DEF TypeInv

(* The type invariant holds for ever. *)
LEMMA TypeInvariant == Spec => []TypeInv
BY InitTypeInv, NextType, PTL DEF Spec

(* However the invocations interleave, the state keeps its types, a        *)
(* suspended invocation has exactly one job in the microtask queue and it  *)
(* is suspended in its own method, with the request it was called with.    *)
THEOREM TypeCorrect == Spec => []TypeOK
<1>1. TypeInv => TypeOK
  BY DEF TypeInv
<1> QED BY <1>1, TypeInvariant, PTL

-----------------------------------------------------------------------------
(* The log: what appendEvent keeps of it.                                  *)

SizesRead == \A c \in Calls : size[c] <= Size

LogInv == TypeInv /\ IndexesAgree /\ SizesRead

(* Only the second half of appendEvent writes the log, and only when the   *)
(* storage allows it.                                                      *)
LogUnchanged == UNCHANGED <<entries, byLeafHash, byCertId>>

Appends(c) ==
    LET record == StoredEntry(size[c], BuildTlogEntry(request[c]))
    IN  /\ Resumes(c, "append.size")
        /\ AppendAllowed(record)
        /\ AppendRecord(record)
        /\ answer' = [answer EXCEPT ![c] = record]
        /\ pc' = [pc EXCEPT ![c] = "done"]
        /\ UNCHANGED <<request, size>>

(* Only the continuation of appendEvent touches the log. *)
LEMMA WhoAppends ==
    ASSUME [Next]_vars
    PROVE  LogUnchanged \/ \E c \in Calls : Appends(c)
<1>1. CASE Call
  BY <1>1 DEF Call, CallAppendEvent, CallSignTreeHead, CallStoreSth, CallInclusionProof,
              CallQuery, storageVars, LogUnchanged
<1>2. ASSUME NEW c \in Calls, AppendAtSize(c) PROVE LogUnchanged \/ Appends(c)
  BY <1>2 DEF AppendAtSize, Appends, Settles, storageVars, LogUnchanged
<1>3. ASSUME NEW c \in Calls, ~AppendAtSize(c),
             \/ RootHashAt(c)
             \/ ReadLeafHashes(c)
             \/ ReturnThrough(c, "root.range", "root.hashes")
             \/ ReturnThrough(c, "root.hashes", "sign.root")
             \/ ReadLatestSth(c)
             \/ StoreSth(c)
             \/ InclusionProofByIndex(c)
             \/ AnswerQuery(c)
      PROVE  LogUnchanged
  BY <1>3 DEF RootHashAt, ReadLeafHashes, ReturnThrough, ReadLatestSth, StoreSth,
              InclusionProofByIndex, AnswerQuery, storageVars, LogUnchanged
<1>4. CASE RunJob
  BY <1>2, <1>3, <1>4 DEF RunJob
<1>5. CASE UNCHANGED vars
  BY <1>5 DEF vars, LogUnchanged
<1> QED BY <1>1, <1>4, <1>5 DEF Next

(* What an allowed append does to the log. *)
LEMMA AppendEffect ==
    ASSUME TypeInv, NEW c \in Calls, Appends(c)
    PROVE  LET entry == BuildTlogEntry(request[c])
           IN  /\ entry \in Entry /\ HashLeaf(entry) \in LeafHash /\ entry.certId \in CertId
               /\ size[c] = Size /\ Size \in Nat /\ Size' = Size + 1
               /\ \A i \in 1..Size : entries'[i] = entries[i]
               /\ entries'[Size + 1] = StoredEntry(Size, entry)
               /\ byLeafHash[HashLeaf(entry)] = Undefined
               /\ byLeafHash' = [byLeafHash EXCEPT ![HashLeaf(entry)] = Size]
               /\ byCertId' = [byCertId EXCEPT ![entry.certId] = Append(@, Size)]
<1> DEFINE entry == BuildTlogEntry(request[c])
           record == StoredEntry(Size, entry)
<1>1. /\ entry \in Entry /\ size[c] = Size /\ AppendAllowed(record) /\ AppendRecord(record)
  <2>1. RightMethod(c)
    BY TypeInvParts
  <2> QED BY <2>1 DEF Appends, AppendAllowed, RightMethod, Resumes, Entry, StoredEntry
<1>2. HashLeaf(entry) \in LeafHash /\ entry.certId \in CertId
  BY <1>1 DEF LeafHash, CertId
<1>3. /\ entries \in Seq([leafIndex : Nat, entry : Entry, leafHash : LeafHash])
      /\ Size \in Nat
  BY TypeInvParts, SizeType DEF StorageTypes
<1>4. record \in [leafIndex : Nat, entry : Entry, leafHash : LeafHash]
  BY <1>1, <1>2, <1>3 DEF StoredEntry
<1>5. entries' = Append(entries, record)
  BY <1>1 DEF AppendRecord
<1>6. /\ Size' = Size + 1
      /\ \A i \in 1..Size : entries'[i] = entries[i]
      /\ entries'[Size + 1] = record
  <2> HIDE DEF record
  <2> QED BY <1>3, <1>4, <1>5, SeqAppend DEF Size
<1>7. /\ byLeafHash[HashLeaf(entry)] = Undefined
      /\ byLeafHash' = [byLeafHash EXCEPT ![HashLeaf(entry)] = Size]
      /\ byCertId' = [byCertId EXCEPT ![entry.certId] = Append(@, Size)]
  BY <1>1 DEF AppendAllowed, AppendRecord, StoredEntry
<1> QED BY <1>1, <1>2, <1>3, <1>6, <1>7

(* The log only grows. *)
LEMMA LogGrows ==
    ASSUME TypeInv, [Next]_vars
    PROVE  /\ Size \in Nat /\ Size' \in Nat /\ Size <= Size'
           /\ \A i \in 1..Size : entries'[i] = entries[i]
           /\ \A n \in 0..Size : LeafHashes(n)' = LeafHashes(n)
<1>1. Size \in Nat
  BY TypeInvParts, SizeType
<1>2. /\ Size' \in Nat /\ Size <= Size'
      /\ \A i \in 1..Size : entries'[i] = entries[i]
  <2>1. CASE LogUnchanged
    BY <1>1, <2>1 DEF LogUnchanged, Size
  <2>2. CASE \E c \in Calls : Appends(c)
    BY <1>1, <2>2, AppendEffect
  <2> QED BY <2>1, <2>2, WhoAppends
<1>3. ASSUME NEW n \in 0..Size PROVE LeafHashes(n)' = LeafHashes(n)
  <2>1. \A i \in 1..n : entries'[i].leafHash = entries[i].leafHash
    BY <1>1, <1>2, <1>3
  <2> QED BY <2>1 DEF LeafHashes
<1> QED BY <1>1, <1>2, <1>3

(* No call has read a size beyond the log at first. *)
LEMMA SizesReadInit == Init => SizesRead
BY DEF Init, StorageInit, SizesRead, Size

(* The log only grows, so a size once read stays within it. *)
LEMMA SizesReadNext ==
    ASSUME TypeInv, SizesRead, [Next]_vars PROVE SizesRead'
<1>1. Size \in Nat /\ Size' \in Nat /\ Size <= Size'
  BY LogGrows
<1>2. \A c \in Calls : size'[c] = size[c] \/ size'[c] = Size
  <2>0. size \in [Calls -> Nat]
    BY TypeInvParts DEF CallTypes
  <2>1. CASE Call
    BY <2>0, <2>1 DEF Call, CallAppendEvent, CallSignTreeHead, CallStoreSth,
                      CallInclusionProof, CallQuery
  <2>2. CASE RunJob
    BY <2>0, <2>2 DEF RunJob, AppendAtSize, RootHashAt, ReadLeafHashes, ReturnThrough,
                      ReadLatestSth, StoreSth, InclusionProofByIndex, AnswerQuery
  <2>3. CASE UNCHANGED vars
    BY <2>3 DEF vars
  <2> QED BY <2>1, <2>2, <2>3 DEF Next
<1>3. \A c \in Calls : size[c] \in Nat /\ size[c] <= Size
  BY TypeInvParts DEF CallTypes, SizesRead
<1> QED BY <1>1, <1>2, <1>3 DEF SizesRead

(* The empty maps agree with the empty log. *)
LEMMA IndexesAgreeInit == Init => IndexesAgree
<1> SUFFICES ASSUME Init PROVE IndexesAgree
  OBVIOUS
<1> USE DEF Init, StorageInit, Size, Undefined
<1>1. Size = 0
  OBVIOUS
<1>2. \A id \in CertId : byCertId[id] = <<>>
  OBVIOUS
<1>3. \A id \in CertId : {byCertId[id][i] : i \in 1..Len(byCertId[id])} =
                           {k \in 0..(Size - 1) : entries[k + 1].entry.certId = id}
  BY <1>1, <1>2
<1> QED BY <1>1, <1>2, <1>3 DEF IndexesAgree

(* An allowed append keeps the maps and the log in agreement. *)
LEMMA IndexesAgreeAppend ==
    ASSUME TypeInv, IndexesAgree, NEW c \in Calls, Appends(c) PROVE IndexesAgree'
<1> DEFINE entry == BuildTlogEntry(request[c])
           leaf == HashLeaf(entry)
           n == Size
<1>1. /\ entry \in Entry /\ leaf \in LeafHash /\ entry.certId \in CertId
      /\ n \in Nat /\ Size' = n + 1
      /\ \A i \in 1..n : entries'[i] = entries[i]
      /\ entries'[n + 1] = StoredEntry(n, entry)
      /\ byLeafHash[leaf] = Undefined
      /\ byLeafHash' = [byLeafHash EXCEPT ![leaf] = n]
      /\ byCertId' = [byCertId EXCEPT ![entry.certId] = Append(@, n)]
  BY AppendEffect
<1>2. /\ entries'[n + 1].leafIndex = n /\ entries'[n + 1].entry = entry
      /\ entries'[n + 1].leafHash = leaf
  BY <1>1 DEF StoredEntry
<1>3. /\ byLeafHash \in [LeafHash -> Nat \cup {Undefined}]
      /\ byCertId \in [CertId -> Seq(Nat)]
  BY TypeInvParts DEF StorageTypes
<1>4. /\ \A i \in 1..n : entries[i].leafIndex = i - 1 /\ entries[i].leafHash = HashLeaf(entries[i].entry)
      /\ \A h \in LeafHash, k \in 0..(n - 1) :
           byLeafHash[h] = k <=> entries[k + 1].leafHash = h
      /\ \A h \in LeafHash : byLeafHash[h] < n
  BY DEF IndexesAgree
<1>5. ASSUME NEW id \in CertId
      PROVE  /\ byCertId[id] \in Seq(Nat)
             /\ \A i, j \in 1..Len(byCertId[id]) : i < j => byCertId[id][i] < byCertId[id][j]
             /\ {byCertId[id][i] : i \in 1..Len(byCertId[id])} =
                  {k \in 0..(n - 1) : entries[k + 1].entry.certId = id}
  BY <1>3, Zenon DEF IndexesAgree
<1> HIDE DEF entry, leaf, n
<1>6. \A i \in 1..(n + 1) : /\ entries'[i].leafIndex = i - 1
                            /\ entries'[i].leafHash = HashLeaf(entries'[i].entry)
  <2> SUFFICES ASSUME NEW i \in 1..(n + 1)
               PROVE  /\ entries'[i].leafIndex = i - 1
                      /\ entries'[i].leafHash = HashLeaf(entries'[i].entry)
    OBVIOUS
  <2>1. CASE i = n + 1
    BY <1>1, <1>2, <2>1 DEF leaf
  <2>2. CASE i # n + 1
    BY <1>1, <1>4, <2>2
  <2> QED BY <2>1, <2>2
<1>7. \A h \in LeafHash, k \in 0..n : byLeafHash'[h] = k <=> entries'[k + 1].leafHash = h
  <2> SUFFICES ASSUME NEW h \in LeafHash, NEW k \in 0..n
               PROVE  byLeafHash'[h] = k <=> entries'[k + 1].leafHash = h
    OBVIOUS
  <2>1. CASE k = n
    BY <1>1, <1>2, <1>3, <1>4, <2>1
  <2>2. CASE k # n
    <3>1. k \in 0..(n - 1) /\ entries'[k + 1] = entries[k + 1]
      BY <1>1, <2>2
    <3>2. CASE h = leaf
      BY <1>1, <1>3, <1>4, <2>2, <3>1, <3>2 DEF Undefined
    <3>3. CASE h # leaf
      BY <1>1, <1>3, <1>4, <3>1, <3>3
    <3> QED BY <3>2, <3>3
  <2> QED BY <2>1, <2>2
<1>8. \A h \in LeafHash : byLeafHash'[h] < n + 1
  BY <1>1, <1>3, <1>4 DEF Undefined
<1>9. ASSUME NEW id \in CertId
      PROVE  /\ \A i, j \in 1..Len(byCertId'[id]) : i < j => byCertId'[id][i] < byCertId'[id][j]
             /\ {byCertId'[id][i] : i \in 1..Len(byCertId'[id])} =
                  {k \in 0..n : entries'[k + 1].entry.certId = id}
  <2> DEFINE list == byCertId[id]
             m == Len(list)
             old == {k \in 0..(n - 1) : entries[k + 1].entry.certId = id}
  <2>1. /\ list \in Seq(Nat) /\ m \in Nat
        /\ \A i, j \in 1..m : i < j => list[i] < list[j]
        /\ {list[i] : i \in 1..m} = old
    BY <1>5
  <2>2. {k \in 0..n : entries'[k + 1].entry.certId = id}
          = IF id = entry.certId THEN old \cup {n} ELSE old
    <3>1. \A k \in 0..(n - 1) : entries'[k + 1] = entries[k + 1]
      BY <1>1
    <3> QED BY <1>1, <1>2, <3>1
  <2>3. CASE id = entry.certId
    <3>1. byCertId'[id] = Append(list, n)
      BY <1>1, <1>3, <2>3
    <3>2. /\ Len(byCertId'[id]) = m + 1
          /\ \A i \in 1..m : byCertId'[id][i] = list[i]
          /\ byCertId'[id][m + 1] = n
      BY <3>1, <2>1, <1>1, SeqAppend
    <3>3. ASSUME NEW i \in 1..m PROVE list[i] \in Nat /\ list[i] < n
      <4>1. list[i] \in {list[k] : k \in 1..m}
        OBVIOUS
      <4>2. list[i] \in old
        BY <2>1, <4>1, Zenon
      <4>3. list[i] \in 0..(n - 1)
        BY <4>2
      <4> QED BY <4>3, <1>1
    <3> HIDE DEF list, m, old
    <3>4. \A i, j \in 1..(m + 1) : i < j => byCertId'[id][i] < byCertId'[id][j]
      <4> SUFFICES ASSUME NEW i \in 1..(m + 1), NEW j \in 1..(m + 1), i < j
                   PROVE  byCertId'[id][i] < byCertId'[id][j]
        OBVIOUS
      <4>1. i \in 1..m
        BY <2>1
      <4>2. CASE j = m + 1
        BY <3>2, <3>3, <4>1, <4>2
      <4>3. CASE j # m + 1
        <5>1. j \in 1..m
          BY <2>1, <4>3
        <5> QED BY <2>1, <3>2, <4>1, <5>1
      <4> QED BY <4>2, <4>3
    <3>5. {byCertId'[id][i] : i \in 1..(m + 1)} = {list[i] : i \in 1..m} \cup {n}
      <4>1. ASSUME NEW i \in 1..(m + 1)
            PROVE  byCertId'[id][i] \in {list[k] : k \in 1..m} \cup {n}
        <5>1. CASE i = m + 1
          BY <3>2, <5>1
        <5>2. CASE i # m + 1
          <6>1. i \in 1..m
            BY <2>1, <5>2
          <6> QED BY <3>2, <6>1
        <5> QED BY <5>1, <5>2
      <4>2. ASSUME NEW i \in 1..m
            PROVE  list[i] \in {byCertId'[id][k] : k \in 1..(m + 1)}
        <5>1. i \in 1..(m + 1) /\ byCertId'[id][i] = list[i]
          BY <2>1, <3>2
        <5> QED BY <5>1
      <4>3. n \in {byCertId'[id][k] : k \in 1..(m + 1)}
        <5>1. m + 1 \in 1..(m + 1)
          BY <2>1
        <5> QED BY <3>2, <5>1
      <4> QED BY <4>1, <4>2, <4>3
    <3> QED BY <2>1, <2>2, <2>3, <3>2, <3>4, <3>5
  <2>4. CASE id # entry.certId
    <3>1. byCertId'[id] = list
      BY <1>1, <1>3, <2>4
    <3> QED BY <2>1, <2>2, <2>4, <3>1
  <2> QED BY <2>3, <2>4
<1>10. Size' = n + 1 /\ Size' - 1 = n
  BY <1>1
<1>11. /\ \A i \in 1..Size' : /\ entries'[i].leafIndex = i - 1
                             /\ entries'[i].leafHash = HashLeaf(entries'[i].entry)
       /\ \A h \in LeafHash : byLeafHash'[h] < Size'
  BY <1>6, <1>8, <1>10
<1>12. /\ \A h \in LeafHash, k \in 0..(Size' - 1) :
            byLeafHash'[h] = k <=> entries'[k + 1].leafHash = h
       /\ \A id \in CertId :
            {byCertId'[id][i] : i \in 1..Len(byCertId'[id])} =
              {k \in 0..(Size' - 1) : entries'[k + 1].entry.certId = id}
  BY <1>7, <1>9, <1>10, Zenon
<1> QED BY <1>9, <1>11, <1>12, Zenon DEF IndexesAgree

(* The invariant of the log holds at first, *)
LEMMA LogInvInit == Init => LogInv
BY InitTypeInv, SizesReadInit, IndexesAgreeInit DEF LogInv

(* ... is kept by every step, *)
LEMMA LogInvNext == LogInv /\ [Next]_vars => LogInv'
<1> SUFFICES ASSUME LogInv, [Next]_vars PROVE LogInv'
  OBVIOUS
<1>1. TypeInv' /\ SizesRead'
  BY NextType, SizesReadNext DEF LogInv
<1>2. CASE LogUnchanged
  <2>1. IndexesAgree'
    BY <1>2 DEF LogInv, IndexesAgree, LogUnchanged, Size
  <2> QED BY <1>1, <2>1 DEF LogInv
<1>3. CASE \E c \in Calls : Appends(c)
  BY <1>1, <1>3, IndexesAgreeAppend DEF LogInv
<1> QED BY <1>2, <1>3, WhoAppends

(* ... and holds for ever. *)
LEMMA LogInvariant == Spec => []LogInv
BY LogInvInit, LogInvNext, PTL DEF Spec

(* Whatever appends race, the log has no gap and no wrong index, and both  *)
(* lookup maps of the storage agree with it.                               *)
THEOREM LookupsAgree == Spec => []IndexesAgree
<1>1. LogInv => IndexesAgree
  BY DEF LogInv
<1> QED BY <1>1, LogInvariant, PTL

-----------------------------------------------------------------------------
(* What appendEvent answers.                                               *)

(* The content of AppendAnswersHold, one invocation at a time. *)
AnswerInLog(c) ==
    /\ answer[c].entry = BuildTlogEntry(request[c])
    /\ answer[c].leafIndex + 1 \in 1..Size
    /\ entries[answer[c].leafIndex + 1] = answer[c]

RefusedForCause(c) ==
    \/ size[c] < Size
    \/ \E i \in 1..Size : entries[i].entry = BuildTlogEntry(request[c])

(* AppendAnswersHold, one invocation at a time. *)
LEMMA AnswersByInvocation ==
    AppendAnswersHold <=>
      /\ \A c \in Appenders : pc[c] = "done" => AnswerInLog(c)
      /\ \A c, d \in Appenders :
           pc[c] = "done" /\ pc[d] = "done" /\ c # d => answer[c].leafIndex # answer[d].leafIndex
      /\ \A c \in Appenders :
           pc[c] = "failed" /\ ValidTlogEntry(BuildTlogEntry(request[c])) => RefusedForCause(c)
BY DEF AppendAnswersHold, AnswerInLog, RefusedForCause

(* Equal leaf hashes are hashes of equal entries. *)
LEMMA HashLeafInjective ==
    ASSUME NEW a, NEW b, HashLeaf(a) = HashLeaf(b) PROVE a = b
BY DEF HashLeaf

(* How an appender comes to be done or failed. *)
LEMMA AppenderSteps ==
    ASSUME TypeInv, [Next]_vars, NEW c \in Appenders
    PROVE  \/ pc'[c] \notin {"done", "failed"}
           \/ UNCHANGED <<pc[c], request[c], size[c], answer[c]>>
           \/ Appends(c)
           \/ /\ pc'[c] = "failed"
              /\ UNCHANGED <<request[c], size[c], answer[c]>>
              /\ Resumes(c, "append.size")
              /\ ~AppendAllowed(StoredEntry(size[c], BuildTlogEntry(request[c])))
           \/ pc'[c] = "failed" /\ ~ValidTlogEntry(BuildTlogEntry(request'[c]))
<1>1. /\ c \in Calls /\ pc \in [Calls -> Pc] /\ size \in [Calls -> Nat]
      /\ request \in [Calls -> Input \cup Query \cup {Nothing}]
      /\ DOMAIN answer = Calls
      /\ c \notin Signers /\ c \notin Readers /\ c \notin Storers
  BY TypeInvParts, CallsAreDistinct DEF Calls, CallTypes, QueueTyped
<1>2. ASSUME NEW d \in Calls, d # c,
             \/ \E i \in Input : CallAppendEvent(d, i)
             \/ CallSignTreeHead(d)
             \/ \E sth \in DirectHeads : CallStoreSth(d, sth)
             \/ \E query \in Query : CallInclusionProof(d, query) \/ CallQuery(d, query)
      PROVE  UNCHANGED <<pc[c], request[c], size[c], answer[c]>>
  BY <1>1, <1>2 DEF CallAppendEvent, CallSignTreeHead, CallStoreSth, CallInclusionProof,
                    CallQuery, Begins
<1>3. ASSUME NEW d \in Calls, d # c,
             \/ AppendAtSize(d)
             \/ RootHashAt(d)
             \/ ReadLeafHashes(d)
             \/ ReturnThrough(d, "root.range", "root.hashes")
             \/ ReturnThrough(d, "root.hashes", "sign.root")
             \/ ReadLatestSth(d)
             \/ StoreSth(d)
             \/ InclusionProofByIndex(d)
             \/ AnswerQuery(d)
      PROVE  UNCHANGED <<pc[c], request[c], size[c], answer[c]>>
  BY <1>1, <1>3 DEF AppendAtSize, RootHashAt, ReadLeafHashes, ReturnThrough, ReadLatestSth,
                    StoreSth, InclusionProofByIndex, AnswerQuery, AwaitsNext, Settles
<1>4. ASSUME NEW i \in Input, CallAppendEvent(c, i)
      PROVE  \/ pc'[c] \notin {"done", "failed"}
             \/ pc'[c] = "failed" /\ ~ValidTlogEntry(BuildTlogEntry(request'[c]))
  BY <1>1, <1>4 DEF CallAppendEvent, Begins
<1>5. ASSUME AppendAtSize(c)
      PROVE  \/ Appends(c)
             \/ /\ pc'[c] = "failed"
                /\ UNCHANGED <<request[c], size[c], answer[c]>>
                /\ Resumes(c, "append.size")
                /\ ~AppendAllowed(StoredEntry(size[c], BuildTlogEntry(request[c])))
  BY <1>1, <1>5 DEF AppendAtSize, Appends, Settles
<1>6. ~(\/ RootHashAt(c)
        \/ ReadLeafHashes(c)
        \/ ReturnThrough(c, "root.range", "root.hashes")
        \/ ReturnThrough(c, "root.hashes", "sign.root")
        \/ ReadLatestSth(c)
        \/ StoreSth(c)
        \/ InclusionProofByIndex(c)
        \/ AnswerQuery(c))
  <2>1. RightMethod(c)
    BY <1>1, TypeInvParts
  <2> QED BY <1>1, <2>1 DEF RightMethod, SigningPc, Resumes, RootHashAt, ReadLeafHashes,
             ReturnThrough, ReadLatestSth, StoreSth, InclusionProofByIndex, AnswerQuery
<1>7. CASE Call
  <2>1. Appenders \subseteq Calls /\ Signers \subseteq Calls /\ Readers \subseteq Calls
        /\ Storers \subseteq Calls
    BY DEF Calls
  <2> QED BY <1>1, <1>2, <1>4, <1>7, <2>1 DEF Call, InclusionQuery, ConsistencyQuery, EntriesQuery
<1>8. CASE RunJob
  BY <1>1, <1>3, <1>5, <1>6, <1>8 DEF RunJob
<1>9. CASE UNCHANGED vars
  BY <1>9 DEF vars
<1> QED BY <1>7, <1>8, <1>9 DEF Next

(* Every step keeps the answers of appendEvent true. *)
LEMMA AnswersNext ==
    ASSUME LogInv, AppendAnswersHold, [Next]_vars PROVE AppendAnswersHold'
<1>1. /\ Size \in Nat /\ Size' \in Nat /\ Size <= Size'
      /\ \A i \in 1..Size : entries'[i] = entries[i]
  BY LogGrows DEF LogInv
<1>2. ASSUME NEW c \in Appenders, pc'[c] = "done"
      PROVE  \/ pc[c] = "done" /\ UNCHANGED <<request[c], answer[c]>>
             \/ Appends(c)
  BY <1>2, AppenderSteps DEF LogInv
<1>3. ASSUME NEW c \in Calls, Appends(c)
      PROVE  /\ AnswerInLog(c)' /\ answer'[c].leafIndex = Size
             /\ \A d \in Calls : d # c => UNCHANGED <<pc[d], answer[d]>>
  <2>1. /\ answer'[c] = StoredEntry(Size, BuildTlogEntry(request[c]))
        /\ \A d \in Calls : d # c => UNCHANGED <<pc[d], answer[d]>>
        /\ request' = request
    BY <1>3, AppendEffect, TypeInvParts DEF LogInv, Appends, CallTypes, QueueTyped
  <2>2. Size' = Size + 1 /\ entries'[Size + 1] = StoredEntry(Size, BuildTlogEntry(request[c]))
    BY <1>3, AppendEffect DEF LogInv
  <2>3. /\ answer'[c].leafIndex = Size
        /\ answer'[c].entry = BuildTlogEntry(request'[c])
    BY <2>1 DEF StoredEntry
  <2> QED BY <1>1, <2>1, <2>2, <2>3 DEF AnswerInLog
<1>4. ASSUME NEW c \in Appenders, AnswerInLog(c), UNCHANGED <<request[c], answer[c]>>
      PROVE  AnswerInLog(c)'
  BY <1>1, <1>4 DEF AnswerInLog
<1>5. ASSUME NEW c \in Appenders, pc'[c] = "done" PROVE AnswerInLog(c)'
  <2>1. c \in Calls
    BY DEF Calls
  <2> QED BY <1>2, <1>3, <1>4, <1>5, <2>1, AnswersByInvocation
<1>6. ASSUME NEW c \in Appenders, NEW d \in Appenders,
             pc'[c] = "done", pc'[d] = "done", c # d
      PROVE  answer'[c].leafIndex # answer'[d].leafIndex
  <2>0. c \in Calls /\ d \in Calls
    BY DEF Calls
  <2>1. CASE Appends(c)
    <3>1. /\ answer'[c].leafIndex = Size
          /\ pc[d] = "done" /\ answer'[d] = answer[d]
      BY <1>3, <1>6, <2>0, <2>1
    <3>2. answer[d].leafIndex + 1 \in 1..Size /\ entries[answer[d].leafIndex + 1] = answer[d]
      BY <3>1, AnswersByInvocation DEF AnswerInLog
    <3>3. answer[d].leafIndex # Size
      BY <1>1, <3>2
    <3> QED BY <3>1, <3>3
  <2>2. CASE Appends(d)
    <3>1. /\ answer'[d].leafIndex = Size
          /\ pc[c] = "done" /\ answer'[c] = answer[c]
      BY <1>3, <1>6, <2>0, <2>2
    <3>2. answer[c].leafIndex + 1 \in 1..Size
      BY <3>1, AnswersByInvocation DEF AnswerInLog
    <3>3. answer[c].leafIndex # Size
      BY <1>1, <3>2
    <3> QED BY <3>1, <3>3
  <2>3. CASE ~Appends(c) /\ ~Appends(d)
    BY <1>2, <1>6, <2>3, AnswersByInvocation
  <2> QED BY <2>1, <2>2, <2>3
<1>7. ASSUME NEW c \in Appenders, pc'[c] = "failed",
             ValidTlogEntry(BuildTlogEntry(request'[c]))
      PROVE  RefusedForCause(c)'
  <2>0. c \in Calls /\ size[c] \in Nat /\ size[c] <= Size
    BY TypeInvParts DEF Calls, LogInv, SizesRead, CallTypes
  <2>1. /\ UNCHANGED <<request[c], size[c]>>
        /\ \/ pc[c] = "failed"
           \/ /\ Resumes(c, "append.size")
              /\ ~AppendAllowed(StoredEntry(size[c], BuildTlogEntry(request[c])))
    <3>1. ~Appends(c)
      BY <1>7, <2>0, TypeInvParts DEF Appends, QueueTyped, LogInv
    <3> QED BY <1>7, <3>1, AppenderSteps DEF LogInv
  <2>2. RefusedForCause(c)
    <3>1. CASE pc[c] = "failed"
      BY <1>7, <2>1, <3>1, AnswersByInvocation
    <3>2. CASE /\ Resumes(c, "append.size")
               /\ ~AppendAllowed(StoredEntry(size[c], BuildTlogEntry(request[c])))
      <4> DEFINE entry == BuildTlogEntry(request[c])
      <4>1. size[c] # Size \/ byLeafHash[HashLeaf(entry)] # Undefined
        BY <3>2 DEF AppendAllowed, StoredEntry
      <4>2. CASE size[c] # Size
        BY <1>1, <2>0, <4>2 DEF RefusedForCause
      <4>3. CASE byLeafHash[HashLeaf(entry)] # Undefined
        <5>1. RightMethod(c) /\ byLeafHash \in [LeafHash -> Nat \cup {Undefined}]
          BY <2>0, TypeInvParts DEF LogInv, StorageTypes
        <5>2. HashLeaf(entry) \in LeafHash
          BY <3>2, <5>1 DEF Resumes, RightMethod, LeafHash, Entry
        <5>3. PICK k \in Nat : byLeafHash[HashLeaf(entry)] = k
          BY <4>3, <5>1, <5>2
        <5>4. k < Size
          BY <5>2, <5>3, Zenon DEF LogInv, IndexesAgree
        <5>5. k \in 0..(Size - 1) /\ k + 1 \in 1..Size
          BY <1>1, <5>4
        <5>6. entries[k + 1].leafHash = HashLeaf(entry)
          BY <5>2, <5>3, <5>5, Zenon DEF LogInv, IndexesAgree
        <5>7. entries[k + 1].leafHash = HashLeaf(entries[k + 1].entry)
          BY <5>5, Zenon DEF LogInv, IndexesAgree
        <5>8. entries[k + 1].entry = entry
          BY <5>6, <5>7, HashLeafInjective
        <5> QED BY <5>5, <5>8 DEF RefusedForCause
      <4> QED BY <4>1, <4>2, <4>3
    <3> QED BY <2>1, <3>1, <3>2
  <2>3. CASE size[c] < Size
    BY <1>1, <2>0, <2>1, <2>3 DEF RefusedForCause
  <2>4. CASE \E i \in 1..Size : entries[i].entry = BuildTlogEntry(request[c])
    BY <1>1, <2>1, <2>4 DEF RefusedForCause
  <2> QED BY <2>2, <2>3, <2>4 DEF RefusedForCause
<1> QED BY <1>5, <1>6, <1>7, Zenon DEF AppendAnswersHold, AnswerInLog, RefusedForCause

(* No call has been answered at first. *)
LEMMA AnswersInit == Init => AppendAnswersHold
BY DEF Init, AppendAnswersHold, Calls

(* The index appendEvent returns holds its entry for ever, is given to no  *)
(* other call, and an append is refused only for a cause.                  *)
THEOREM AppendAnswersAreTrue == Spec => []AppendAnswersHold
<1>1. LogInv /\ AppendAnswersHold /\ [Next]_vars => AppendAnswersHold'
  BY AnswersNext
<1> QED BY <1>1, AnswersInit, LogInvariant, PTL DEF Spec

-----------------------------------------------------------------------------
(* The heads signTreeHead stores, when nothing else calls storeSth.        *)

RootOf(n) == MerkleRootFromLeafHashes(LeafHashes(n))

(* What one signTreeHead call holds, await by await. *)
HeadHeld(c) ==
    /\ pc[c] = "root.size" => size[c] <= known[c] /\ known[c] <= Size
    /\ pc[c] \in {"root.range", "root.hashes", "sign.root", "sth.latest"} =>
         head[c] = [treeSize |-> size[c], rootHash |-> RootOf(size[c])]

HeadInv ==
    /\ TypeInv /\ SizesRead
    /\ \A c \in Calls : HeadHeld(c)
    /\ SthsCommitToPrefixes

(* A prefix of the log keeps its root. *)
LEMMA RootsStay ==
    ASSUME TypeInv, [Next]_vars, NEW n \in 0..Size PROVE RootOf(n)' = RootOf(n)
<1>1. LeafHashes(n)' = LeafHashes(n)
  BY LogGrows
<1> QED BY <1>1 DEF RootOf

(* A call that takes no step holds what it held. *)
LEMMA HeadHeldStays ==
    ASSUME TypeInv, SizesRead, [Next]_vars, NEW c \in Calls, HeadHeld(c),
           UNCHANGED <<pc[c], size[c], known[c], head[c]>>
    PROVE  HeadHeld(c)'
<1>1. size[c] \in 0..Size /\ known[c] \in Int /\ Size \in Nat
  BY TypeInvParts, SizeType DEF CallTypes, SizesRead, Undefined
<1>2. Size' \in Nat /\ Size <= Size' /\ RootOf(size[c])' = RootOf(size[c])
  <2>1. ASSUME NEW n, n = size[c] PROVE RootOf(n)' = RootOf(n)
    BY <1>1, <2>1, RootsStay
  <2>2. size'[c] = size[c]
    OBVIOUS
  <2> QED BY <2>1, <2>2, LogGrows DEF RootOf, LeafHashes
<1> QED BY <1>1, <1>2 DEF HeadHeld

(* What a step of a call at its first await, or about to return from       *)
(* another, makes it hold.                                                 *)
LEMMA HeadHeldMoves ==
    ASSUME TypeInv, SizesRead, [Next]_vars, NEW c \in Calls, HeadHeld(c), Storers = {}
    PROVE  /\ RootHashAt(c) => HeadHeld(c)'
           /\ ReadLeafHashes(c) => HeadHeld(c)'
           /\ ReturnThrough(c, "root.range", "root.hashes") => HeadHeld(c)'
           /\ ReturnThrough(c, "root.hashes", "sign.root") => HeadHeld(c)'
           /\ ReadLatestSth(c) => HeadHeld(c)'
<1>1. /\ size \in [Calls -> Nat] /\ known \in [Calls -> Nat \cup {Undefined}]
      /\ DOMAIN head = Calls /\ pc \in [Calls -> Pc] /\ size[c] \in 0..Size /\ Size \in Nat
  BY TypeInvParts, SizeType DEF CallTypes, QueueTyped, SizesRead
<1>2. CASE RootHashAt(c)
  <2>1. pc'[c] = "root.size" /\ known'[c] = Size /\ size'[c] = size[c] /\ Size' = Size
    BY <1>1, <1>2 DEF RootHashAt, AwaitsNext, storageVars, Size
  <2> QED BY <1>1, <1>2, <2>1 DEF HeadHeld
<1>3. CASE ReadLeafHashes(c)
  <2>1. pc'[c] = "failed" \/ /\ pc'[c] = "root.range"
                             /\ head'[c] = [treeSize |-> size[c], rootHash |-> RootOf(size[c])]
    BY <1>1, <1>3 DEF ReadLeafHashes, AwaitsNext, Settles, RootOf
  <2>2. size' = size /\ entries' = entries
    BY <1>3 DEF ReadLeafHashes, storageVars
  <2> QED BY <1>3, <2>1, <2>2 DEF HeadHeld, RootOf, LeafHashes
<1>4. ASSUME NEW to \in {"root.hashes", "sign.root", "sth.latest"}, pc'[c] = to,
             head[c] = [treeSize |-> size[c], rootHash |-> RootOf(size[c])],
             UNCHANGED <<entries, size, head>>
      PROVE  HeadHeld(c)'
  BY <1>4 DEF HeadHeld, RootOf, LeafHashes
<1>5. CASE ReturnThrough(c, "root.range", "root.hashes")
  BY <1>1, <1>4, <1>5 DEF ReturnThrough, HeadHeld, Resumes, AwaitsNext, storageVars
<1>6. CASE ReturnThrough(c, "root.hashes", "sign.root")
  BY <1>1, <1>4, <1>6 DEF ReturnThrough, HeadHeld, Resumes, AwaitsNext, storageVars
<1>7. CASE ReadLatestSth(c)
  BY <1>1, <1>4, <1>7 DEF ReadLatestSth, HeadHeld, Resumes, AwaitsNext, storageVars
<1> QED BY <1>2, <1>3, <1>5, <1>6, <1>7

(* A step is one call's step: the others keep their bookkeeping. *)
Alone(c) == \A d \in Calls : d # c => UNCHANGED <<pc[d], size[d], known[d], head[d]>>

LoopStep(c) ==
    \E from, at : \/ Begins(c, at)
                  \/ Resumes(c, from) /\ AwaitsNext(c, at)
                  \/ Resumes(c, from) /\ Settles(c, at)

(* The step of a call that is not a signTreeHead call. *)
StepsAside(c) ==
    /\ c \notin Signers
    /\ pc'[c] \in {"append.size", "proof.find", "query.size", "done", "failed"}
    /\ UNCHANGED sths
    /\ UNCHANGED queue \/ LoopStep(c)

StepsToStore(c) ==
    \/ RootHashAt(c)
    \/ ReadLeafHashes(c)
    \/ ReturnThrough(c, "root.range", "root.hashes")
    \/ ReturnThrough(c, "root.hashes", "sign.root")
    \/ ReadLatestSth(c)

(* Every step is one call's: aside of signing, or one of signing's. *)
LEMMA OneCallSteps ==
    ASSUME TypeInv, [Next]_vars, Storers = {}
    PROVE  \/ UNCHANGED vars
           \/ \E c \in Calls :
                /\ Alone(c)
                /\ \/ StepsAside(c)
                   \/ c \in Signers /\ CallSignTreeHead(c)
                   \/ c \in Signers /\ StepsToStore(c)
                   \/ c \in Signers /\ StoreSth(c)
<1>1. /\ size \in [Calls -> Nat] /\ known \in [Calls -> Nat \cup {Undefined}]
      /\ DOMAIN head = Calls /\ pc \in [Calls -> Pc]
      /\ Appenders \cap Signers = {} /\ Readers \cap Signers = {}
      /\ \A c \in Calls : RightMethod(c)
  BY TypeInvParts, CallsAreDistinct DEF CallTypes, QueueTyped
<1>2. ASSUME NEW c \in Calls, c \notin Signers,
             \/ \E i \in Input : CallAppendEvent(c, i)
             \/ \E q \in Query : CallInclusionProof(c, q) \/ CallQuery(c, q)
      PROVE  Alone(c) /\ StepsAside(c)
  <2>1. Alone(c)
    BY <1>1, <1>2 DEF CallAppendEvent, CallInclusionProof, CallQuery, Begins, Alone
  <2>2. UNCHANGED queue \/ LoopStep(c)
    BY <1>2 DEF CallAppendEvent, CallInclusionProof, CallQuery, LoopStep
  <2>3. /\ pc'[c] \in {"append.size", "proof.find", "query.size", "done", "failed"}
        /\ UNCHANGED sths
    BY <1>1, <1>2 DEF CallAppendEvent, CallInclusionProof, CallQuery, Begins, storageVars
  <2> QED BY <1>2, <2>1, <2>2, <2>3 DEF StepsAside
<1>3. ASSUME NEW c \in Calls, AppendAtSize(c) \/ InclusionProofByIndex(c) \/ AnswerQuery(c)
      PROVE  Alone(c) /\ StepsAside(c)
  <2>1. Alone(c)
    BY <1>1, <1>3 DEF AppendAtSize, InclusionProofByIndex, AnswerQuery, AwaitsNext, Settles,
                      Alone
  <2>2. LoopStep(c)
    BY <1>3 DEF AppendAtSize, InclusionProofByIndex, AnswerQuery, LoopStep
  <2>3. /\ pc'[c] \in {"append.size", "proof.find", "query.size", "done", "failed"}
        /\ UNCHANGED sths
    BY <1>1, <1>3 DEF AppendAtSize, InclusionProofByIndex, AnswerQuery, AwaitsNext, Settles,
                      storageVars, AppendRecord
  <2>4. c \notin Signers
    BY <1>1, <1>3 DEF AppendAtSize, InclusionProofByIndex, AnswerQuery, Resumes, RightMethod
  <2> QED BY <2>1, <2>2, <2>3, <2>4 DEF StepsAside
<1>4. ASSUME NEW c \in Calls, CallSignTreeHead(c) \/ StepsToStore(c) \/ StoreSth(c)
      PROVE  Alone(c)
  BY <1>1, <1>4 DEF StepsToStore, CallSignTreeHead, RootHashAt, ReadLeafHashes, ReturnThrough,
                    ReadLatestSth, StoreSth, Begins, AwaitsNext, Settles, Alone
<1>5. ASSUME NEW c \in Calls, StepsToStore(c) \/ StoreSth(c) PROVE c \in Signers
  BY <1>1, <1>5 DEF StepsToStore, RootHashAt, ReadLeafHashes, ReturnThrough, ReadLatestSth,
                    StoreSth, Resumes, RightMethod, SigningPc
<1>6. CASE Call
  <2>1. Appenders \subseteq Calls /\ Signers \subseteq Calls /\ Readers \subseteq Calls
    BY DEF Calls
  <2>2. InclusionQuery \subseteq Query /\ ConsistencyQuery \cup EntriesQuery \subseteq Query
    BY DEF InclusionQuery, ConsistencyQuery, EntriesQuery
  <2>3. \/ \E c \in Calls : /\ c \notin Signers
                            /\ \/ \E i \in Input : CallAppendEvent(c, i)
                               \/ \E q \in Query : CallInclusionProof(c, q) \/ CallQuery(c, q)
        \/ \E c \in Signers : CallSignTreeHead(c)
    BY <1>1, <1>6, <2>1, <2>2 DEF Call
  <2> QED BY <1>2, <1>4, <2>1, <2>3
<1>7. CASE RunJob
  <2>1. \E c \in Calls : \/ AppendAtSize(c) \/ InclusionProofByIndex(c) \/ AnswerQuery(c)
                        \/ StepsToStore(c) \/ StoreSth(c)
    BY <1>7 DEF RunJob, StepsToStore
  <2> QED BY <1>3, <1>4, <1>5, <2>1
<1> QED BY <1>6, <1>7 DEF Next

(* No head is held or stored at first. *)
LEMMA HeadInvInit == Init => HeadInv
<1> SUFFICES ASSUME Init PROVE HeadInv
  OBVIOUS
<1>1. TypeInv /\ SizesRead
  BY InitTypeInv, SizesReadInit
<1>2. \A c \in Calls : HeadHeld(c)
  BY DEF Init, HeadHeld
<1>3. SthsCommitToPrefixes
  BY DEF Init, StorageInit, SthsCommitToPrefixes
<1> QED BY <1>1, <1>2, <1>3 DEF HeadInv

(* Storing a head: the one place where sths changes. *)
LEMMA StoresOneHead ==
    ASSUME TypeInv, NEW c \in Calls, StoreSth(c)
    PROVE  \/ UNCHANGED sths
           \/ /\ Len(sths) \in Nat /\ Len(sths') = Len(sths) + 1
              /\ \A k \in 1..Len(sths) : sths'[k] = sths[k]
              /\ sths'[Len(sths) + 1] = head[c]
<1>1. PICK S : sths \in Seq(S)
  BY DEF TypeInv
<1> QED BY <1>1, SeqAppendAny DEF StoreSth

(* Every stored head is the head of a prefix of the log, and stays one. *)
HeadOfPrefix(h) == h.treeSize \in 0..Size /\ h.rootHash = RootOf(h.treeSize)

(* The stored heads, one at a time, *)
LEMMA HeadsOfPrefixes ==
    ASSUME TypeInv
    PROVE  SthsCommitToPrefixes <=> \A k \in 1..Len(sths) : HeadOfPrefix(sths[k])
<1>1. Size \in Nat /\ \A k \in 1..Len(sths) : sths[k].treeSize \in Nat
  BY TypeInvParts, SizeType DEF StorageTypes
<1> QED BY <1>1 DEF SthsCommitToPrefixes, HeadOfPrefix, RootOf

(* ... and in the next state. *)
LEMMA HeadsOfPrefixesNext ==
    ASSUME TypeInv',
           \A k \in 1..Len(sths') : \A h : h = sths'[k] => HeadOfPrefix(h)'
    PROVE  SthsCommitToPrefixes'
<1> SUFFICES ASSUME NEW k \in 1..Len(sths')
             PROVE  (/\ sths[k].treeSize <= Size
                     /\ sths[k].rootHash = MerkleRootFromLeafHashes(LeafHashes(sths[k].treeSize)))'
  BY DEF SthsCommitToPrefixes
<1> QED BY DEF HeadOfPrefix, RootOf

(* A head of a prefix of the log is one after every step. *)
LEMMA HeadOfPrefixStays ==
    ASSUME TypeInv, [Next]_vars, NEW h, HeadOfPrefix(h) PROVE HeadOfPrefix(h)'
<1>1. RootOf(h.treeSize)' = RootOf(h.treeSize)
  BY RootsStay DEF HeadOfPrefix
<1>2. Size \in Nat /\ Size' \in Nat /\ Size <= Size'
  BY LogGrows
<1> QED BY <1>1, <1>2 DEF HeadOfPrefix

(* Every step keeps the heads, held and stored, over prefixes. *)
LEMMA HeadInvNext ==
    ASSUME HeadInv, [Next]_vars, Storers = {} PROVE HeadInv'
<1>1. TypeInv /\ SizesRead /\ (\A c \in Calls : HeadHeld(c)) /\ SthsCommitToPrefixes
  BY DEF HeadInv
<1>2. TypeInv' /\ SizesRead'
  BY <1>1, NextType, SizesReadNext
<1>3. \A k \in 1..Len(sths) : HeadOfPrefix(sths[k])
  BY <1>1, HeadsOfPrefixes
<1>4. ASSUME UNCHANGED sths PROVE SthsCommitToPrefixes'
  BY <1>1, <1>2, <1>3, <1>4, HeadOfPrefixStays, HeadsOfPrefixesNext
<1>5. CASE UNCHANGED vars
  <2>1. UNCHANGED sths /\ \A c \in Calls : UNCHANGED <<pc[c], size[c], known[c], head[c]>>
    BY <1>5 DEF vars
  <2>2. \A c \in Calls : HeadHeld(c)'
    BY <1>1, <2>1, HeadHeldStays
  <2> QED BY <1>2, <1>4, <2>1, <2>2 DEF HeadInv
<1>6. ASSUME NEW c \in Calls, Alone(c),
             \/ StepsAside(c)
             \/ c \in Signers /\ CallSignTreeHead(c)
             \/ c \in Signers /\ StepsToStore(c)
             \/ c \in Signers /\ StoreSth(c)
      PROVE  HeadInv'
  <2>1. ASSUME NEW d \in Calls, d # c PROVE HeadHeld(d)'
    BY <1>1, <1>6, <2>1, HeadHeldStays DEF Alone
  <2>2. pc \in [Calls -> Pc]
    BY <1>1, TypeInvParts DEF QueueTyped
  <2>3. HeadHeld(c)' /\ SthsCommitToPrefixes'
    <3>1. CASE StepsAside(c)
      BY <1>4, <3>1 DEF HeadHeld, StepsAside
    <3>2. CASE CallSignTreeHead(c)
      BY <1>4, <2>2, <3>2 DEF HeadHeld, CallSignTreeHead, Begins, storageVars
    <3>3. CASE StepsToStore(c)
      <4>1. UNCHANGED sths
        BY <3>3 DEF StepsToStore, RootHashAt, ReadLeafHashes, ReturnThrough, ReadLatestSth,
                    storageVars
      <4> QED BY <1>1, <1>4, <3>3, <4>1, HeadHeldMoves DEF StepsToStore
    <3>4. CASE StoreSth(c)
      <4>1. HeadHeld(c)'
        BY <2>2, <3>4 DEF StoreSth, Settles, HeadHeld
      <4>2. HeadOfPrefix(head[c])
        BY <1>1, <3>4, TypeInvParts, SizeType
           DEF StoreSth, Resumes, HeadHeld, HeadOfPrefix, CallTypes, SizesRead
      <4>3. ASSUME NEW k \in 1..Len(sths'), NEW h, h = sths'[k] PROVE HeadOfPrefix(h)'
        <5>1. HeadOfPrefix(h)
          <6>1. CASE UNCHANGED sths
            BY <1>3, <4>3, <6>1
          <6>2. CASE /\ Len(sths) \in Nat /\ Len(sths') = Len(sths) + 1
                     /\ \A i \in 1..Len(sths) : sths'[i] = sths[i]
                     /\ sths'[Len(sths) + 1] = head[c]
            <7>1. CASE k = Len(sths) + 1
              BY <4>2, <4>3, <6>2, <7>1
            <7>2. CASE k # Len(sths) + 1
              <8>1. k \in 1..Len(sths)
                BY <6>2, <7>2
              <8> QED BY <1>3, <4>3, <6>2, <8>1
            <7> QED BY <7>1, <7>2
          <6> QED BY <1>1, <3>4, <6>1, <6>2, StoresOneHead
        <5> QED BY <1>1, <5>1, HeadOfPrefixStays
      <4> QED BY <1>2, <4>1, <4>3, HeadsOfPrefixesNext
    <3> QED BY <1>6, <3>1, <3>2, <3>3, <3>4
  <2> QED BY <1>2, <2>1, <2>3 DEF HeadInv
<1> QED BY <1>1, <1>5, <1>6, OneCallSteps

(* When only signTreeHead stores heads, every stored head commits to a     *)
(* prefix of the log as it is, now and at every later time.                *)
THEOREM HeadsCommitToPrefixes ==
    ASSUME Storers = {} PROVE Spec => []SthsCommitToPrefixes
<1>1. HeadInv /\ [Next]_vars => HeadInv'
  BY HeadInvNext
<1>2. HeadInv => SthsCommitToPrefixes
  BY DEF HeadInv
<1> QED BY <1>1, <1>2, HeadInvInit, PTL DEF Spec

-----------------------------------------------------------------------------
(* No signTreeHead overtakes another.                                      *)

(* What the three moves of the queue do to the order of its elements. *)
Precedes(s, c, d) == \E i, j \in 1..Len(s) : i < j /\ s[i] = c /\ s[j] = d

Distinct(s) == \A i, j \in 1..Len(s) : s[i] = s[j] => i = j

(* A newcomer is behind all the others. *)
LEMMA PrecedesAppend ==
    ASSUME NEW S, NEW s \in Seq(S), NEW e \in S, \A i \in 1..Len(s) : s[i] # e,
           NEW c, NEW d, Precedes(Append(s, e), c, d)
    PROVE  c # e /\ (d # e => Precedes(s, c, d))
<1> DEFINE t == Append(s, e)
           n == Len(s)
<1>1. /\ n \in Nat /\ Len(t) = n + 1 /\ t[n + 1] = e
      /\ \A i \in 1..n : t[i] = s[i]
  BY SeqAppend
<1>2. PICK i \in 1..Len(t), j \in 1..Len(t) : i < j /\ t[i] = c /\ t[j] = d
  BY DEF Precedes
<1> HIDE DEF t, n
<1>3. i \in 1..n /\ s[i] = c
  BY <1>1, <1>2
<1>4. c # e
  BY <1>3 DEF n
<1>5. ASSUME d # e PROVE j \in 1..n /\ s[j] = d
  BY <1>1, <1>2, <1>5
<1> QED BY <1>2, <1>3, <1>4, <1>5 DEF Precedes, n

(* The head's departure does not reorder the rest. *)
LEMMA PrecedesTail ==
    ASSUME NEW S, NEW s \in Seq(S), s # <<>>, NEW c, NEW d, Precedes(Tail(s), c, d)
    PROVE  Precedes(s, c, d)
<1>1. /\ Len(s) \in Nat \ {0} /\ Len(Tail(s)) = Len(s) - 1
      /\ \A i \in 1..(Len(s) - 1) : Tail(s)[i] = s[i + 1]
  BY SeqTail
<1>2. PICK i \in 1..Len(Tail(s)), j \in 1..Len(Tail(s)) :
        i < j /\ Tail(s)[i] = c /\ Tail(s)[j] = d
  BY DEF Precedes
<1>3. i + 1 \in 1..Len(s) /\ j + 1 \in 1..Len(s) /\ i + 1 < j + 1
  BY <1>1, <1>2
<1>4. s[i + 1] = c /\ s[j + 1] = d
  BY <1>1, <1>2
<1> QED BY <1>3, <1>4 DEF Precedes

(* Nor does its move to the back, where it precedes no one. *)
LEMMA PrecedesRotated ==
    ASSUME NEW S, NEW s \in Seq(S), s # <<>>, Distinct(s),
           NEW c, NEW d, Precedes(Rotated(s), c, d)
    PROVE  c # s[1] /\ (d # s[1] => Precedes(s, c, d))
<1> DEFINE t == Rotated(s)
           n == Len(s)
<1>1. /\ n \in Nat \ {0} /\ Len(t) = n /\ t[n] = s[1]
      /\ \A i \in 1..(n - 1) : t[i] = s[i + 1]
  BY SeqTail, SeqRotate DEF Rotated
<1>2. PICK i \in 1..n, j \in 1..n : i < j /\ t[i] = c /\ t[j] = d
  BY <1>1 DEF Precedes
<1> HIDE DEF t, n
<1>3. i \in 1..(n - 1) /\ i + 1 \in 1..n /\ 1 \in 1..n /\ s[i + 1] = c
  BY <1>1, <1>2
<1>4. c # s[1]
  <2>1. i + 1 # 1
    BY <1>3
  <2> QED BY <1>3, <2>1 DEF Distinct, n
<1>5. ASSUME d # s[1] PROVE j + 1 \in 1..n /\ i + 1 < j + 1 /\ s[j + 1] = d
  BY <1>1, <1>2, <1>5
<1> QED BY <1>3, <1>4, <1>5 DEF Precedes, n

(* The head of the queue precedes all the others in it. *)
LEMMA HeadPrecedes ==
    ASSUME NEW S, NEW s \in Seq(S), s # <<>>, NEW i \in 1..Len(s), s[i] # s[1]
    PROVE  Precedes(s, s[1], s[i])
<1>1. 1 \in 1..Len(s) /\ 1 < i
  BY SeqTail
<1> QED BY <1>1 DEF Precedes

(* Before is the order of the microtask queue, *)
LEMMA BeforeIsPrecedes ==
    \A c, d : Before(c, d) <=> Precedes(queue, c, d)
BY DEF Before, Precedes

(* ... in the next state too. *)
LEMMA BeforeIsPrecedesNext ==
    \A c, d : Before(c, d)' <=> Precedes(queue', c, d)
BY DEF Before, Precedes

-----------------------------------------------------------------------------
OrderInv ==
    /\ HeadInv
    /\ SigningInOrder
    /\ SthSizesNeverRegress
    /\ SigningNeverFails
    /\ \A c \in Signing : pc[c] = "sth.latest" => known[c] <= size[c]

(* The awaits of signTreeHead in their order. *)
LEMMA StageValues ==
    /\ Stage("sign.size") = 0 /\ Stage("root.size") = 1 /\ Stage("root.range") = 2
    /\ Stage("root.hashes") = 3 /\ Stage("sign.root") = 4 /\ Stage("sth.latest") = 5
BY DEF Stage

(* A signing call is at one of six stages. *)
LEMMA StageTypes ==
    ASSUME NEW c \in Signing PROVE Stage(pc[c]) \in 0..5
BY StageValues DEF Signing, SigningPc

(* The steps that move c one stage on, to the back of the queue. *)
Moves(c, from, to) ==
    /\ Resumes(c, from) /\ AwaitsNext(c, to)
    /\ from \in SigningPc /\ to \in SigningPc \cup {"sth.latest"}
    /\ Stage(to) = Stage(from) + 1
    /\ UNCHANGED <<size, sths>>

(* A step of any other call leaves the signing calls as they were, and the *)
(* order of their jobs.                                                    *)
LEMMA OrderOfTwo ==
    ASSUME TypeInv, NEW c \in Calls, NEW from, NEW at,
           \/ Begins(c, at)
           \/ Resumes(c, from) /\ AwaitsNext(c, at)
           \/ Resumes(c, from) /\ Settles(c, at),
           NEW d \in Signing, NEW e \in Signing, d # c, e # c, Ahead(d, e)'
    PROVE  Ahead(d, e)
<1>1. /\ queue \in Seq(Calls) /\ pc \in [Calls -> Pc] /\ QueueHoldsSuspended
      /\ d \in Calls /\ e \in Calls
  BY TypeInvParts DEF QueueTyped, Signing, Calls
<1>2. pc'[d] = pc[d] /\ pc'[e] = pc[e]
  BY <1>1 DEF Begins, AwaitsNext, Settles
<1>3. ASSUME Before(d, e)' PROVE Before(d, e)
  <2>1. Precedes(queue', d, e)
    BY <1>3, BeforeIsPrecedesNext
  <2>2. CASE Begins(c, at)
    <3>1. \A i \in 1..Len(queue) : queue[i] # c
      BY <1>1, <2>2 DEF Begins, QueueHoldsSuspended, Suspended
    <3>2. queue' = Append(queue, c)
      BY <2>2 DEF Begins
    <3> QED BY <1>1, <2>1, <3>1, <3>2, PrecedesAppend, BeforeIsPrecedes
  <2>3. CASE Resumes(c, from) /\ AwaitsNext(c, at)
    <3>1. queue # <<>> /\ c = queue[1] /\ queue' = Rotated(queue)
      BY <1>1, <2>3, SeqTail DEF Resumes, AwaitsNext, Rotated
    <3>2. Distinct(queue)
      BY <1>1 DEF Distinct, QueueHoldsSuspended
    <3> QED BY <1>1, <2>1, <3>1, <3>2, PrecedesRotated, BeforeIsPrecedes
  <2>4. CASE Resumes(c, from) /\ Settles(c, at)
    <3>1. queue # <<>> /\ queue' = Tail(queue)
      BY <2>4 DEF Resumes, Settles
    <3> QED BY <1>1, <2>1, <3>1, PrecedesTail, BeforeIsPrecedes
  <2> QED BY <2>2, <2>3, <2>4
<1> QED BY <1>2, <1>3 DEF Ahead

(* A signing call that moves overtakes none, and none overtakes it. *)
LEMMA OrderOfMover ==
    ASSUME TypeInv, NEW c \in Signing, NEW from, NEW to, Moves(c, from, to),
           NEW d \in Signing, d # c
    PROVE  (Ahead(c, d)' => Ahead(c, d)) /\ (Ahead(d, c)' => Ahead(d, c))
<1>1. /\ queue \in Seq(Calls) /\ pc \in [Calls -> Pc] /\ QueueHoldsSuspended
      /\ c \in Calls /\ d \in Calls
  BY TypeInvParts DEF QueueTyped, Signing, Calls
<1>2. pc[c] = from /\ pc'[c] = to /\ pc'[d] = pc[d]
  BY <1>1 DEF Moves, Resumes, AwaitsNext
<1>3. queue # <<>> /\ c = queue[1] /\ queue' = Rotated(queue) /\ Distinct(queue)
  BY <1>1, SeqTail DEF Moves, Resumes, AwaitsNext, Rotated, Distinct, QueueHoldsSuspended
<1>4. ~Before(c, d)'
  BY <1>1, <1>3, PrecedesRotated, BeforeIsPrecedesNext
<1>5. Before(c, d)
  <2>1. d \in Suspended
    BY <1>1 DEF Signing, SigningPc, Suspended
  <2>2. PICK i \in 1..Len(queue) : queue[i] = d
    BY <1>1, <2>1 DEF QueueHoldsSuspended
  <2> QED BY <1>1, <1>3, <2>2, HeadPrecedes, BeforeIsPrecedes
<1>6. /\ Stage(pc[c]) \in Int /\ Stage(pc[d]) \in Int
      /\ Stage(to) = Stage(from) + 1
  BY StageTypes DEF Moves
<1>7. Ahead(c, d)' => Ahead(c, d)
  BY <1>2, <1>4, <1>5, <1>6 DEF Ahead
<1>8. Ahead(d, c)' => Ahead(d, c)
  BY <1>2, <1>6 DEF Ahead
<1> QED BY <1>7, <1>8

(* A call that begins is ahead of none. *)
LEMMA OrderOfNewcomer ==
    ASSUME TypeInv, NEW c \in Signers, Begins(c, "sign.size"), NEW d \in Signing
    PROVE  d # c /\ ~Ahead(c, d)'
<1>1. /\ queue \in Seq(Calls) /\ pc \in [Calls -> Pc] /\ QueueHoldsSuspended
      /\ c \in Calls /\ d \in Calls
  BY TypeInvParts DEF QueueTyped, Signing, Calls
<1>2. d # c
  BY DEF Begins, Signing, SigningPc
<1>3. pc'[c] = "sign.size" /\ pc'[d] = pc[d] /\ queue' = Append(queue, c)
  BY <1>1, <1>2 DEF Begins
<1>4. \A i \in 1..Len(queue) : queue[i] # c
  BY <1>1 DEF Begins, QueueHoldsSuspended, Suspended
<1>5. ~Before(c, d)'
  BY <1>1, <1>3, <1>4, PrecedesAppend, BeforeIsPrecedesNext
<1> QED BY <1>2, <1>3, <1>5, StageTypes, StageValues DEF Ahead

(* A call that stores its head is ahead of all the others. *)
LEMMA StorerIsFirst ==
    ASSUME TypeInv, NEW c \in Signing, Resumes(c, "sth.latest"), NEW d \in Signing, d # c
    PROVE  Ahead(c, d)
<1>1. /\ queue \in Seq(Calls) /\ QueueHoldsSuspended /\ queue # <<>> /\ c = queue[1]
      /\ c \in Calls /\ d \in Calls
  BY TypeInvParts, SeqTail DEF QueueTyped, Signing, Calls, Resumes
<1>2. d \in Suspended
  BY <1>1 DEF Signing, SigningPc, Suspended
<1>3. PICK i \in 1..Len(queue) : queue[i] = d
  BY <1>1, <1>2 DEF QueueHoldsSuspended
<1>4. Before(c, d)
  BY <1>1, <1>3, HeadPrecedes, BeforeIsPrecedes
<1>5. Stage(pc[c]) = 5 /\ Stage(pc[d]) \in 0..5
  BY StageTypes, StageValues DEF Resumes
<1> QED BY <1>4, <1>5 DEF Ahead

(* The four kinds of step, one lemma each. *)
LEMMA OrderFacts ==
    ASSUME OrderInv
    PROVE  /\ TypeInv /\ Size \in Nat
           /\ pc \in [Calls -> Pc] /\ size \in [Calls -> Nat]
           /\ known \in [Calls -> Nat \cup {Undefined}]
           /\ Signing \subseteq Calls /\ Signers \subseteq Calls
           /\ \A c \in Calls : size[c] \in Nat /\ size[c] <= Size /\ HeadHeld(c)
           /\ \A k \in 1..Len(sths) : sths[k].treeSize \in Nat /\ sths[k].treeSize <= Size
BY TypeInvParts, SizeType DEF OrderInv, HeadInv, CallTypes, QueueTyped, StorageTypes, Calls,
   Signing, SizesRead, SthsCommitToPrefixes

OrderKept ==
    /\ SigningInOrder
    /\ SthSizesNeverRegress
    /\ SigningNeverFails
    /\ \A c \in Signing : pc[c] = "sth.latest" => known[c] <= size[c]

(* A step aside of signing keeps the order. *)
LEMMA OrderAside ==
    ASSUME OrderInv, NEW c \in Calls, Alone(c), StepsAside(c) PROVE OrderKept'
<1>1. /\ TypeInv /\ Signing \subseteq Calls /\ Signers \subseteq Calls
      /\ SigningInOrder /\ SthSizesNeverRegress /\ SigningNeverFails
      /\ \A d \in Signing : pc[d] = "sth.latest" => known[d] <= size[d]
  BY OrderFacts DEF OrderInv
<1>2. /\ \A d \in Signers : d # c /\ UNCHANGED <<pc[d], size[d], known[d]>>
      /\ UNCHANGED sths /\ c \notin Signing
  BY <1>1 DEF StepsAside, Alone, Signing
<1>3. Signing' = Signing /\ \A d \in Signing : d \in Signers
  BY <1>2 DEF Signing
<1>4. ASSUME NEW d \in Signing, NEW e \in Signing, Ahead(d, e)' PROVE Ahead(d, e)
  <2>1. CASE UNCHANGED queue
    BY <1>2, <1>3, <1>4, <2>1 DEF Ahead, Before
  <2>2. CASE LoopStep(c)
    BY <1>1, <1>2, <1>3, <1>4, <2>2, OrderOfTwo DEF LoopStep
  <2> QED BY <2>1, <2>2 DEF StepsAside
<1>5. SigningInOrder'
  BY <1>1, <1>2, <1>3, <1>4 DEF SigningInOrder
<1>6. SthSizesNeverRegress' /\ SigningNeverFails'
  BY <1>1, <1>2 DEF SthSizesNeverRegress, SigningNeverFails
<1> QED BY <1>1, <1>2, <1>3, <1>5, <1>6 DEF OrderKept

(* A signTreeHead call begins behind the others, with the largest size. *)
LEMMA OrderBegins ==
    ASSUME OrderInv, NEW c \in Signers, Alone(c), CallSignTreeHead(c) PROVE OrderKept'
<1>1. /\ TypeInv /\ Signing \subseteq Calls /\ Signers \subseteq Calls
      /\ pc \in [Calls -> Pc] /\ size \in [Calls -> Nat] /\ Size \in Nat
      /\ \A d \in Calls : size[d] \in Nat /\ size[d] <= Size
      /\ \A k \in 1..Len(sths) : sths[k].treeSize \in Nat /\ sths[k].treeSize <= Size
      /\ SigningInOrder /\ SthSizesNeverRegress /\ SigningNeverFails
      /\ \A d \in Signing : pc[d] = "sth.latest" => known[d] <= size[d]
  BY OrderFacts DEF OrderInv
<1>2. /\ Begins(c, "sign.size") /\ c \in Calls
      /\ pc'[c] = "sign.size" /\ size'[c] = Size /\ UNCHANGED sths
      /\ \A d \in Signing : d # c /\ UNCHANGED <<pc[d], size[d], known[d]>>
  BY <1>1, OrderOfNewcomer DEF CallSignTreeHead, Begins, storageVars, Alone
<1>3. Signing' = Signing \cup {c}
  BY <1>1, <1>2 DEF Signing, SigningPc, Alone
<1>4. SigningInOrder'
  <2>1. ASSUME NEW d \in Signing \cup {c}, NEW e \in Signing \cup {c}, Ahead(d, e)'
        PROVE  size'[d] <= size'[e]
    <3>1. CASE e = c
      BY <1>1, <1>2, <3>1
    <3>2. CASE e # c
      <4>1. e \in Signing /\ d # c
        BY <1>1, <1>2, <2>1, <3>2, OrderOfNewcomer
      <4>2. Ahead(d, e)
        BY <1>1, <1>2, <2>1, <4>1, OrderOfTwo
      <4> QED BY <1>1, <1>2, <4>1, <4>2 DEF SigningInOrder
    <3> QED BY <3>1, <3>2
  <2>2. ASSUME NEW d \in Signing \cup {c}, NEW k \in 1..Len(sths)
        PROVE  sths[k].treeSize <= size'[d]
    BY <1>1, <1>2 DEF SigningInOrder
  <2> QED BY <1>2, <1>3, <2>1, <2>2 DEF SigningInOrder
<1>5. SthSizesNeverRegress' /\ SigningNeverFails'
  BY <1>1, <1>2 DEF SthSizesNeverRegress, SigningNeverFails, Alone
<1> QED BY <1>1, <1>2, <1>3, <1>4, <1>5 DEF OrderKept

(* A signTreeHead call moves to its next await. *)
LEMMA OrderMoves ==
    ASSUME OrderInv, NEW c \in Signers, Alone(c), StepsToStore(c) PROVE OrderKept'
<1>1. /\ TypeInv /\ Signing \subseteq Calls /\ Signers \subseteq Calls
      /\ pc \in [Calls -> Pc] /\ size \in [Calls -> Nat] /\ Size \in Nat
      /\ known \in [Calls -> Nat \cup {Undefined}]
      /\ \A d \in Calls : size[d] \in Nat /\ size[d] <= Size /\ HeadHeld(d)
      /\ \A k \in 1..Len(sths) : sths[k].treeSize \in Nat /\ sths[k].treeSize <= Size
      /\ SigningInOrder /\ SthSizesNeverRegress /\ SigningNeverFails
      /\ \A d \in Signing : pc[d] = "sth.latest" => known[d] <= size[d]
  BY OrderFacts DEF OrderInv
<1>2. PICK from, to : Moves(c, from, to)
  <2>1. CASE RootHashAt(c)
    BY <2>1, StageValues DEF RootHashAt, Moves, SigningPc, storageVars
  <2>2. CASE ReadLeafHashes(c)
    <3>1. size[c] <= known[c] /\ RangeAllowed(0, size[c])
      <4>1. c \in Calls /\ pc[c] = "root.size"
        BY <1>1, <2>2 DEF ReadLeafHashes, Resumes
      <4>2. size[c] \in Nat /\ size[c] <= Size /\ HeadHeld(c)
        BY <1>1, <4>1
      <4> QED BY <4>1, <4>2 DEF HeadHeld, RangeAllowed
    <3>2. Moves(c, "root.size", "root.range")
      BY <2>2, <3>1, StageValues DEF ReadLeafHashes, Moves, SigningPc, storageVars
    <3> QED BY <3>2
  <2>3. CASE ReturnThrough(c, "root.range", "root.hashes")
    BY <2>3, StageValues DEF ReturnThrough, Moves, SigningPc, storageVars
  <2>4. CASE ReturnThrough(c, "root.hashes", "sign.root")
    BY <2>4, StageValues DEF ReturnThrough, Moves, SigningPc, storageVars
  <2>5. CASE ReadLatestSth(c)
    BY <2>5, StageValues DEF ReadLatestSth, Moves, SigningPc, storageVars
  <2> QED BY <2>1, <2>2, <2>3, <2>4, <2>5 DEF StepsToStore
<1>3. /\ Resumes(c, from) /\ AwaitsNext(c, to) /\ c \in Calls /\ c \in Signing
      /\ pc'[c] = to /\ to \in SigningPc \cup {"sth.latest"}
      /\ UNCHANGED <<size, sths>>
  BY <1>1, <1>2 DEF Moves, Resumes, AwaitsNext, Signing
<1>4. Signing' = Signing /\ \A d \in Signing : d # c => UNCHANGED <<pc[d], size[d], known[d]>>
  BY <1>1, <1>3 DEF Signing, Alone
<1>5. ASSUME NEW d \in Signing, NEW e \in Signing, Ahead(d, e)', d # e PROVE Ahead(d, e)
  <2>1. CASE d = c
    BY <1>1, <1>2, <1>3, <1>5, <2>1, OrderOfMover
  <2>2. CASE e = c
    BY <1>1, <1>2, <1>3, <1>5, <2>2, OrderOfMover
  <2>3. CASE d # c /\ e # c
    BY <1>1, <1>3, <1>5, <2>3, OrderOfTwo
  <2> QED BY <2>1, <2>2, <2>3
<1>6. SigningInOrder'
  <2>1. ASSUME NEW d \in Signing, NEW e \in Signing, Ahead(d, e)'
        PROVE  size[d] <= size[e]
    <3>1. CASE d = e
      BY <1>1, <3>1
    <3>2. CASE d # e
      BY <1>1, <1>5, <2>1, <3>2 DEF SigningInOrder
    <3> QED BY <3>1, <3>2
  <2> QED BY <1>1, <1>3, <1>4, <2>1 DEF SigningInOrder
<1>7. SthSizesNeverRegress' /\ SigningNeverFails'
  BY <1>1, <1>3 DEF SthSizesNeverRegress, SigningNeverFails, Alone, SigningPc
<1>8. ASSUME pc'[c] = "sth.latest" PROVE known'[c] <= size'[c]
  <2>1. known'[c] = LatestSize
    BY <1>1, <1>8 DEF StepsToStore, RootHashAt, ReadLeafHashes, ReturnThrough,
                      ReadLatestSth, AwaitsNext, Settles
  <2>2. LatestSize = Undefined \/ \E k \in 1..Len(sths) : LatestSize = sths[k].treeSize
    <3>1. PICK S : sths \in Seq(S)
      BY <1>1 DEF TypeInv
    <3> QED BY <3>1, SeqTail DEF LatestSize
  <2>3. LatestSize <= size[c]
    BY <1>1, <1>3, <2>2 DEF SigningInOrder, Undefined
  <2> QED BY <1>3, <2>1, <2>3
<1> QED BY <1>1, <1>3, <1>4, <1>6, <1>7, <1>8 DEF OrderKept

(* A signTreeHead call stores its head and is done. *)
LEMMA OrderStores ==
    ASSUME OrderInv, NEW c \in Signers, Alone(c), StoreSth(c) PROVE OrderKept'
<1>1. /\ TypeInv /\ Signing \subseteq Calls /\ Signers \subseteq Calls
      /\ pc \in [Calls -> Pc] /\ size \in [Calls -> Nat] /\ Size \in Nat
      /\ known \in [Calls -> Nat \cup {Undefined}]
      /\ \A d \in Calls : size[d] \in Nat /\ size[d] <= Size /\ HeadHeld(d)
      /\ \A k \in 1..Len(sths) : sths[k].treeSize \in Nat /\ sths[k].treeSize <= Size
      /\ SigningInOrder /\ SthSizesNeverRegress /\ SigningNeverFails
      /\ \A d \in Signing : pc[d] = "sth.latest" => known[d] <= size[d]
  BY OrderFacts DEF OrderInv
<1>2. /\ Resumes(c, "sth.latest") /\ c \in Calls /\ c \in Signing
      /\ head[c].treeSize = size[c] /\ known[c] <= size[c] /\ UNCHANGED size
  <2>1. c \in Calls /\ pc[c] = "sth.latest" /\ Resumes(c, "sth.latest") /\ UNCHANGED size
    BY <1>1 DEF StoreSth, Resumes
  <2>2. c \in Signing /\ HeadHeld(c)
    BY <1>1, <2>1 DEF Signing
  <2>3. known[c] <= size[c]
    BY <1>1, <2>1, <2>2
  <2> QED BY <2>1, <2>2, <2>3 DEF HeadHeld
<1>3. Settles(c, "done") /\ sths' = Append(sths, head[c])
  <2>1. size[c] \in Nat /\ known[c] \in Int
    BY <1>1, <1>2 DEF Undefined
  <2> QED BY <1>2, <2>1 DEF StoreSth
<1>4. /\ Len(sths) \in Nat /\ Len(sths') = Len(sths) + 1
      /\ \A k \in 1..Len(sths) : sths'[k] = sths[k]
      /\ sths'[Len(sths) + 1] = head[c]
  <2>1. PICK S : sths \in Seq(S)
    BY <1>1 DEF TypeInv
  <2> QED BY <1>3, <2>1, SeqAppendAny
<1>5. Signing' = Signing \ {c} /\ \A d \in Signing : d # c => UNCHANGED <<pc[d], size[d], known[d]>>
  BY <1>1, <1>3 DEF Signing, Alone, Settles, SigningPc
<1>6. ASSUME NEW d \in Signing, d # c PROVE size[c] <= size[d]
  BY <1>1, <1>2, <1>6, StorerIsFirst DEF SigningInOrder
<1>7. ASSUME NEW k \in 1..Len(sths')
      PROVE  /\ sths'[k].treeSize \in Nat /\ sths'[k].treeSize <= size[c]
             /\ k # Len(sths) + 1 => k \in 1..Len(sths) /\ sths'[k] = sths[k]
             /\ k = Len(sths) + 1 => sths'[k].treeSize = size[c]
  <2>1. CASE k = Len(sths) + 1
    BY <1>1, <1>2, <1>4, <2>1
  <2>2. CASE k # Len(sths) + 1
    <3>1. k \in 1..Len(sths)
      BY <1>4, <2>2
    <3> QED BY <1>1, <1>2, <1>4, <2>2, <3>1 DEF SigningInOrder
  <2> QED BY <2>1, <2>2
<1>8. SigningInOrder'
  <2>1. ASSUME NEW d \in Signing \ {c}, NEW e \in Signing \ {c}, Ahead(d, e)'
        PROVE  size[d] <= size[e]
    <3>1. Ahead(d, e)
      BY <1>1, <1>2, <1>3, <2>1, OrderOfTwo
    <3> QED BY <1>1, <3>1 DEF SigningInOrder
  <2>2. ASSUME NEW d \in Signing \ {c}, NEW k \in 1..Len(sths')
        PROVE  sths'[k].treeSize <= size[d]
    <3>1. sths'[k].treeSize \in Nat /\ sths'[k].treeSize <= size[c] /\ size[c] <= size[d]
      BY <1>6, <1>7
    <3>2. size[c] \in Nat /\ size[d] \in Nat
      BY <1>1
    <3> QED BY <3>1, <3>2
  <2> QED BY <1>2, <1>5, <2>1, <2>2 DEF SigningInOrder
<1>9. SthSizesNeverRegress'
  <2> SUFFICES ASSUME NEW i \in 1..Len(sths'), NEW j \in 1..Len(sths'), i <= j
               PROVE  sths'[i].treeSize <= sths'[j].treeSize
    BY DEF SthSizesNeverRegress
  <2>1. CASE j = Len(sths) + 1
    BY <1>7, <2>1
  <2>2. CASE j # Len(sths) + 1
    <3>1. j \in 1..Len(sths) /\ i \in 1..Len(sths)
      BY <1>4, <1>7, <2>2
    <3>2. sths'[i] = sths[i] /\ sths'[j] = sths[j]
      BY <1>4, <3>1
    <3> QED BY <1>1, <3>1, <3>2 DEF SthSizesNeverRegress
  <2> QED BY <2>1, <2>2
<1>10. SigningNeverFails'
  BY <1>1, <1>2, <1>3 DEF SigningNeverFails, Alone, Settles
<1> QED BY <1>1, <1>2, <1>5, <1>8, <1>9, <1>10 DEF OrderKept

(* Every step keeps the order, *)
LEMMA OrderInvNext ==
    ASSUME OrderInv, [Next]_vars, Storers = {} PROVE OrderInv'
<1>1. HeadInv' /\ TypeInv
  BY HeadInvNext, OrderFacts DEF OrderInv
<1>2. OrderKept'
  <2>1. CASE UNCHANGED vars
    BY <2>1 DEF OrderInv, OrderKept, vars, SigningInOrder, SthSizesNeverRegress,
                SigningNeverFails, Signing, Ahead, Before
  <2>2. ASSUME NEW c \in Calls, Alone(c),
               \/ StepsAside(c)
               \/ c \in Signers /\ CallSignTreeHead(c)
               \/ c \in Signers /\ StepsToStore(c)
               \/ c \in Signers /\ StoreSth(c)
        PROVE  OrderKept'
    BY <2>2, OrderAside, OrderBegins, OrderMoves, OrderStores
  <2> QED BY <1>1, <2>1, <2>2, OneCallSteps
<1> QED BY <1>1, <1>2 DEF OrderInv, OrderKept

(* ... which the initial state has, *)
LEMMA OrderInvInit == ASSUME Storers = {} PROVE Init => OrderInv
<1> SUFFICES ASSUME Init PROVE OrderInv
  OBVIOUS
<1>1. HeadInv
  BY HeadInvInit
<1>2. Signing = {} /\ sths = <<>> /\ \A c \in Signers : pc[c] # "failed"
  BY DEF Init, StorageInit, Signing, SigningPc, Calls
<1> QED BY <1>1, <1>2 DEF OrderInv, SigningInOrder, SthSizesNeverRegress, SigningNeverFails

(* ... so it holds for ever. *)
LEMMA OrderInvariant == ASSUME Storers = {} PROVE Spec => []OrderInv
<1>1. OrderInv /\ [Next]_vars => OrderInv'
  BY OrderInvNext
<1> QED BY <1>1, OrderInvInit, PTL DEF Spec

(* When only signTreeHead stores heads, no signTreeHead call overtakes     *)
(* another, and no head stored by now is larger than one still to be       *)
(* stored: the reason why the next two theorems hold.                      *)
THEOREM SigningKeepsOrder ==
    ASSUME Storers = {} PROVE Spec => []SigningInOrder
<1>1. OrderInv => SigningInOrder
  BY DEF OrderInv
<1> QED BY <1>1, OrderInvariant, PTL

(* When only signTreeHead stores heads, the sizes of the stored heads      *)
(* never go down, although storeSth compares with a head read before an    *)
(* await.                                                                  *)
THEOREM HeadSizesNeverRegress ==
    ASSUME Storers = {} PROVE Spec => []SthSizesNeverRegress
<1>1. OrderInv => SthSizesNeverRegress
  BY DEF OrderInv
<1> QED BY <1>1, OrderInvariant, PTL

(* ... and no signTreeHead call is refused, however many of them and of    *)
(* appendEvent run at once.                                                *)
THEOREM SigningSucceeds ==
    ASSUME Storers = {} PROVE Spec => []SigningNeverFails
<1>1. OrderInv => SigningNeverFails
  BY DEF OrderInv
<1> QED BY <1>1, OrderInvariant, PTL

-----------------------------------------------------------------------------
(* What the queries answer.                                                *)

(* The leaf a lookup has found is where it found it, for ever. *)
Found(c) ==
    /\ known[c] < Size
    /\ known[c] # Undefined => entries[known[c] + 1].leafHash = request[c].leafHash

ProofIsOfLog(c) ==
    /\ request[c].treeSize \in 1..Size
    /\ answer[c].leafIndex \in 0..(request[c].treeSize - 1)
    /\ entries[answer[c].leafIndex + 1].leafHash = request[c].leafHash
    /\ answer[c].auditPath = InclusionPath(answer[c].leafIndex, LeafHashes(request[c].treeSize))

LinkIsOfLog(c) ==
    /\ request[c].second \in 2..Size
    /\ request[c].first \in 1..(request[c].second - 1)
    /\ answer[c].path = ConsistencyPath(request[c].first, LeafHashes(request[c].second))

RangeIsOfLog(c) ==
    /\ request[c].start \in Nat /\ Len(answer[c].range) \in Nat
    /\ answer[c].range # <<>>
    /\ request[c].start + Len(answer[c].range) <= Size
    /\ \A i \in 1..Len(answer[c].range) : answer[c].range[i] = entries[request[c].start + i]

(* What one reader holds, await by await. *)
ReaderHolds(c) ==
    /\ pc[c] \in {"proof.find", "query.size"} /\ request[c].kind = "inclusion" => Found(c)
    /\ pc[c] = "done" =>
         /\ request[c].kind = "inclusion" => ProofIsOfLog(c)
         /\ request[c].kind = "consistency" => LinkIsOfLog(c)
         /\ request[c].kind = "entries" => RangeIsOfLog(c)

ReaderInv == \A c \in Readers : ReaderHolds(c)

(* The steps of a reader. *)
LEMMA ReaderSteps ==
    ASSUME TypeInv, [Next]_vars, NEW c \in Readers
    PROVE  \/ UNCHANGED <<pc[c], request[c], known[c], answer[c]>>
           \/ \E query \in InclusionQuery : CallInclusionProof(c, query)
           \/ \E query \in ConsistencyQuery \cup EntriesQuery : CallQuery(c, query)
           \/ InclusionProofByIndex(c)
           \/ AnswerQuery(c)
<1>1. /\ c \in Calls /\ pc \in [Calls -> Pc] /\ size \in [Calls -> Nat]
      /\ request \in [Calls -> Input \cup Query \cup {Nothing}]
      /\ known \in [Calls -> Nat \cup {Undefined}]
      /\ DOMAIN answer = Calls
      /\ c \notin Signers /\ c \notin Appenders /\ c \notin Storers
  BY TypeInvParts, CallsAreDistinct DEF Calls, CallTypes, QueueTyped
<1>2. ASSUME NEW d \in Calls, d # c,
             \/ \E i \in Input : CallAppendEvent(d, i)
             \/ CallSignTreeHead(d)
             \/ \E sth \in DirectHeads : CallStoreSth(d, sth)
             \/ \E query \in Query : CallInclusionProof(d, query) \/ CallQuery(d, query)
      PROVE  UNCHANGED <<pc[c], request[c], known[c], answer[c]>>
  BY <1>1, <1>2 DEF CallAppendEvent, CallSignTreeHead, CallStoreSth, CallInclusionProof,
                    CallQuery, Begins
<1>3. ASSUME NEW d \in Calls, d # c,
             \/ AppendAtSize(d)
             \/ RootHashAt(d)
             \/ ReadLeafHashes(d)
             \/ ReturnThrough(d, "root.range", "root.hashes")
             \/ ReturnThrough(d, "root.hashes", "sign.root")
             \/ ReadLatestSth(d)
             \/ StoreSth(d)
             \/ InclusionProofByIndex(d)
             \/ AnswerQuery(d)
      PROVE  UNCHANGED <<pc[c], request[c], known[c], answer[c]>>
  BY <1>1, <1>3 DEF AppendAtSize, RootHashAt, ReadLeafHashes, ReturnThrough, ReadLatestSth,
                    StoreSth, InclusionProofByIndex, AnswerQuery, AwaitsNext, Settles
<1>4. ~(\/ AppendAtSize(c)
        \/ RootHashAt(c)
        \/ ReadLeafHashes(c)
        \/ ReturnThrough(c, "root.range", "root.hashes")
        \/ ReturnThrough(c, "root.hashes", "sign.root")
        \/ ReadLatestSth(c)
        \/ StoreSth(c))
  <2>1. RightMethod(c)
    BY <1>1, TypeInvParts
  <2> QED BY <1>1, <2>1 DEF RightMethod, SigningPc, Resumes, AppendAtSize, RootHashAt,
             ReadLeafHashes, ReturnThrough, ReadLatestSth, StoreSth
<1>5. CASE Call
  <2>1. Appenders \subseteq Calls /\ Signers \subseteq Calls /\ Readers \subseteq Calls
        /\ Storers \subseteq Calls
    BY DEF Calls
  <2> QED BY <1>1, <1>2, <1>5, <2>1 DEF Call, InclusionQuery, ConsistencyQuery, EntriesQuery
<1>6. CASE RunJob
  BY <1>1, <1>3, <1>4, <1>6 DEF RunJob
<1>7. CASE UNCHANGED vars
  BY <1>7 DEF vars
<1> QED BY <1>5, <1>6, <1>7 DEF Next

(* A reader that takes no step holds what it held. *)
LEMMA ReaderStays ==
    ASSUME LogInv, [Next]_vars, NEW c \in Readers, ReaderHolds(c),
           UNCHANGED <<pc[c], request[c], known[c], answer[c]>>
    PROVE  ReaderHolds(c)'
<1>1. /\ Size \in Nat /\ Size' \in Nat /\ Size <= Size'
      /\ \A i \in 1..Size : entries'[i] = entries[i]
      /\ \A n \in 0..Size : LeafHashes(n)' = LeafHashes(n)
  BY LogGrows DEF LogInv
<1>2. known[c] \in Nat \cup {Undefined}
  BY TypeInvParts DEF LogInv, CallTypes, Calls
<1>3. ASSUME Found(c) PROVE Found(c)'
  <2>1. known[c] # Undefined => known[c] + 1 \in 1..Size
    BY <1>1, <1>2, <1>3 DEF Found, Undefined
  <2>2. known[c] < Size'
    BY <1>1, <1>2, <1>3 DEF Found, Undefined
  <2> QED BY <1>1, <1>3, <2>1, <2>2 DEF Found, Undefined
<1>4. ASSUME ProofIsOfLog(c) PROVE ProofIsOfLog(c)'
  <2>1. PICK n, k : n = request[c].treeSize /\ k = answer[c].leafIndex
    OBVIOUS
  <2>2. n \in 1..Size /\ k \in 0..(n - 1)
    BY <1>4, <2>1 DEF ProofIsOfLog
  <2>3. n \in 1..Size' /\ n \in 0..Size /\ k + 1 \in 1..Size
    BY <1>1, <2>2
  <2>4. entries'[k + 1] = entries[k + 1] /\ LeafHashes(n)' = LeafHashes(n)
    BY <1>1, <2>3
  <2>5. entries[k + 1].leafHash = request[c].leafHash
        /\ answer[c].auditPath = InclusionPath(k, LeafHashes(n))
    BY <1>4, <2>1 DEF ProofIsOfLog
  <2>6. request'[c].treeSize = n /\ answer'[c].leafIndex = k /\ request'[c].leafHash = request[c].leafHash
        /\ answer'[c].auditPath = answer[c].auditPath
    BY <2>1
  <2>7. LeafHashes(n)' = [i \in 1..n |-> entries'[i].leafHash]
    BY DEF LeafHashes
  <2> QED BY <2>2, <2>3, <2>4, <2>5, <2>6, <2>7 DEF ProofIsOfLog, LeafHashes
<1>5. ASSUME LinkIsOfLog(c) PROVE LinkIsOfLog(c)'
  <2>1. PICK m, n : m = request[c].first /\ n = request[c].second
    OBVIOUS
  <2>2. n \in 2..Size /\ m \in 1..(n - 1)
    BY <1>5, <2>1 DEF LinkIsOfLog
  <2>3. n \in 2..Size' /\ n \in 0..Size
    BY <1>1, <2>2
  <2>4. LeafHashes(n)' = LeafHashes(n)
    BY <1>1, <2>3
  <2>5. answer[c].path = ConsistencyPath(m, LeafHashes(n))
    BY <1>5, <2>1 DEF LinkIsOfLog
  <2>6. request'[c].first = m /\ request'[c].second = n /\ answer'[c].path = answer[c].path
    BY <2>1
  <2> QED BY <2>2, <2>3, <2>4, <2>5, <2>6 DEF LinkIsOfLog, LeafHashes
<1>6. ASSUME RangeIsOfLog(c) PROVE RangeIsOfLog(c)'
  <2>1. PICK k, r : k = request[c].start /\ r = answer[c].range
    OBVIOUS
  <2>2. k \in Nat /\ Len(r) \in Nat /\ r # <<>> /\ k + Len(r) <= Size
        /\ \A i \in 1..Len(r) : r[i] = entries[k + i]
    BY <1>6, <2>1 DEF RangeIsOfLog
  <2>3. k + Len(r) <= Size' /\ \A i \in 1..Len(r) : k + i \in 1..Size
    BY <1>1, <2>2
  <2>4. \A i \in 1..Len(r) : r[i] = entries'[k + i]
    BY <1>1, <2>2, <2>3
  <2>5. request'[c].start = k /\ answer'[c].range = r
    BY <2>1
  <2> QED BY <2>2, <2>3, <2>4, <2>5 DEF RangeIsOfLog
<1> QED BY <1>3, <1>4, <1>5, <1>6 DEF ReaderHolds

(* What a reader asks first. *)
LEMMA ReaderCalls ==
    ASSUME LogInv, [Next]_vars, NEW c \in Readers, NEW query \in Query,
           \/ query.kind = "inclusion" /\ CallInclusionProof(c, query)
           \/ query.kind # "inclusion" /\ CallQuery(c, query)
    PROVE  ReaderHolds(c)'
<1>1. /\ c \in Calls /\ pc \in [Calls -> Pc] /\ known \in [Calls -> Nat \cup {Undefined}]
      /\ request \in [Calls -> Input \cup Query \cup {Nothing}]
  BY TypeInvParts DEF LogInv, CallTypes, QueueTyped, Calls
<1>2. CASE query.kind # "inclusion" /\ CallQuery(c, query)
  <2>1. pc'[c] = "query.size" /\ request'[c] = query
    BY <1>1, <1>2 DEF CallQuery, Begins
  <2> QED BY <1>2, <2>1 DEF ReaderHolds
<1>3. CASE query.kind = "inclusion" /\ CallInclusionProof(c, query)
  <2>1. pc'[c] = "proof.find" /\ request'[c] = query /\ known'[c] = byLeafHash[query.leafHash]
        /\ query.leafHash \in LeafHash /\ entries' = entries
    BY <1>1, <1>3 DEF CallInclusionProof, Begins, storageVars
  <2>2. byLeafHash[query.leafHash] < Size /\ byLeafHash[query.leafHash] \in Nat \cup {Undefined}
    BY <2>1, TypeInvParts DEF LogInv, IndexesAgree, StorageTypes
  <2>3. byLeafHash[query.leafHash] # Undefined =>
          entries[byLeafHash[query.leafHash] + 1].leafHash = query.leafHash
    <3> SUFFICES ASSUME byLeafHash[query.leafHash] # Undefined
                 PROVE  entries[byLeafHash[query.leafHash] + 1].leafHash = query.leafHash
      OBVIOUS
    <3>1. Size \in Nat
      BY TypeInvParts, SizeType DEF LogInv
    <3>2. byLeafHash[query.leafHash] \in 0..(Size - 1)
      BY <2>2, <3>1
    <3> QED BY <2>1, <3>2 DEF LogInv, IndexesAgree
  <2>4. Found(c)'
    BY <2>1, <2>2, <2>3 DEF Found, Size, Undefined
  <2> QED BY <2>1, <2>4 DEF ReaderHolds
<1> QED BY <1>2, <1>3

(* What a reader answers at last. *)
LEMMA ReaderAnswers ==
    ASSUME LogInv, [Next]_vars, NEW c \in Readers, ReaderHolds(c), AnswerQuery(c)
    PROVE  ReaderHolds(c)'
<1>1. /\ c \in Calls /\ pc \in [Calls -> Pc] /\ size \in [Calls -> Nat] /\ DOMAIN answer = Calls
      /\ known[c] \in Nat \cup {Undefined} /\ Size \in Nat /\ size[c] <= Size /\ size[c] \in Nat
      /\ entries \in Seq([leafIndex : Nat, entry : Entry, leafHash : LeafHash])
  BY TypeInvParts, SizeType DEF LogInv, CallTypes, QueueTyped, SizesRead, Calls, StorageTypes
<1>2. pc[c] = "query.size" /\ entries' = entries /\ request' = request
  BY DEF AnswerQuery, Resumes, storageVars
<1>3. CASE ~QueryAllowed(c)
  BY <1>1, <1>2, <1>3 DEF AnswerQuery, Settles, ReaderHolds
<1>4. CASE QueryAllowed(c)
  <2>1. pc'[c] = "done" /\ answer'[c] = QueryAnswer(c)
    BY <1>1, <1>4 DEF AnswerQuery, Settles
  <2>2. CASE request[c].kind = "inclusion"
    <3>1. Found(c)
      BY <1>2, <2>2 DEF ReaderHolds
    <3>2. /\ request[c].treeSize \in Int /\ request[c].treeSize >= 1
          /\ request[c].treeSize <= size[c] /\ known[c] >= 0 /\ known[c] < request[c].treeSize
      BY <1>4, <2>2 DEF QueryAllowed
    <3>3. answer'[c].leafIndex = known[c]
          /\ answer'[c].auditPath = InclusionPath(known[c], LeafHashes(request[c].treeSize))
      BY <2>1, <2>2 DEF QueryAnswer
    <3>4. known[c] # Undefined /\ known[c] \in 0..(request[c].treeSize - 1)
          /\ request[c].treeSize \in 1..Size
      BY <1>1, <3>2 DEF Undefined
    <3>5. ProofIsOfLog(c)'
      BY <1>2, <3>1, <3>3, <3>4 DEF ProofIsOfLog, Found, Size, LeafHashes
    <3> QED BY <1>2, <2>1, <2>2, <3>5 DEF ReaderHolds
  <2>3. CASE request[c].kind = "consistency"
    <3>1. /\ request[c].first \in Int /\ request[c].second \in Int
          /\ 0 < request[c].first /\ request[c].first < request[c].second
          /\ request[c].second <= size[c]
      BY <1>4, <2>3 DEF QueryAllowed
    <3>2. answer'[c].path = ConsistencyPath(request[c].first, LeafHashes(request[c].second))
      BY <2>1, <2>3 DEF QueryAnswer
    <3>3. request[c].second \in 2..Size /\ request[c].first \in 1..(request[c].second - 1)
      BY <1>1, <3>1
    <3>4. LinkIsOfLog(c)'
      BY <1>2, <3>2, <3>3 DEF LinkIsOfLog, Size, LeafHashes
    <3> QED BY <1>2, <2>1, <2>3, <3>4 DEF ReaderHolds
  <2>4. CASE request[c].kind = "entries"
    <3>1. PICK k, e : k = request[c].start /\ e = EntriesEnd(request[c])
      OBVIOUS
    <3>2. /\ request[c].start \in Int /\ request[c].end \in Int
          /\ 0 <= request[c].start /\ request[c].start <= request[c].end
          /\ request[c].end < size[c]
      BY <1>4, <2>4 DEF QueryAllowed
    <3>3. request[c].maxCount \in Nat
      <4>1. request[c] \in Query
        BY <1>1, <1>2, TypeInvParts DEF LogInv, RightMethod
      <4> QED BY <2>4, <4>1, MaxCountsAreWhole
    <3>4. k \in Nat /\ e \in Nat /\ k < e /\ e <= Size
      <4>1. PICK last \in Int, count \in Nat : last = request[c].end /\ count = request[c].maxCount
        BY <3>2, <3>3
      <4>2. PICK z \in Nat : z = size[c]
        BY <1>1
      <4>3. k \in Int /\ 0 <= k /\ k <= last /\ last < z /\ z <= Size
        BY <1>1, <3>1, <3>2, <4>1, <4>2
      <4>4. e = IF count >= 1 /\ k + count < last + 1 THEN k + count ELSE last + 1
        BY <3>1, <4>1 DEF EntriesEnd
      <4>5. Size \in Nat
        BY <1>1
      <4> QED BY <4>3, <4>4, <4>5
    <3>5. PICK r : r = SubSeq(entries, k + 1, e)
      OBVIOUS
    <3>6. Len(r) = e - k /\ \A i \in 1..(e - k) : r[i] = entries[k + i]
      BY <1>1, <3>4, <3>5 DEF Size
    <3>7. answer'[c].range = r
      BY <2>1, <2>4, <3>1, <3>5 DEF QueryAnswer, GetRange
    <3>8. e - k \in Nat /\ e - k >= 1 /\ k + (e - k) <= Size
      BY <1>1, <3>4
    <3>9. r # <<>>
      BY <3>6, <3>8, NothingIsSequence
    <3>10. RangeIsOfLog(c)'
      BY <1>2, <3>1, <3>4, <3>6, <3>7, <3>8, <3>9 DEF RangeIsOfLog, Size
    <3> QED BY <1>2, <2>1, <2>4, <3>10 DEF ReaderHolds
  <2> QED BY <1>2, <2>1, <2>2, <2>3, <2>4 DEF ReaderHolds
<1> QED BY <1>3, <1>4

LEMMA ReaderInvNext ==
    ASSUME LogInv, ReaderInv, [Next]_vars PROVE ReaderInv'
<1> SUFFICES ASSUME NEW c \in Readers PROVE ReaderHolds(c)'
  BY DEF ReaderInv
<1>1. ReaderHolds(c)
  BY DEF ReaderInv
<1>2. CASE UNCHANGED <<pc[c], request[c], known[c], answer[c]>>
  BY <1>1, <1>2, ReaderStays
<1>3. ASSUME NEW query \in InclusionQuery, CallInclusionProof(c, query) PROVE ReaderHolds(c)'
  BY <1>3, ReaderCalls DEF InclusionQuery
<1>4. ASSUME NEW query \in ConsistencyQuery \cup EntriesQuery, CallQuery(c, query)
      PROVE  ReaderHolds(c)'
  <2>1. query \in Query /\ query.kind # "inclusion"
    BY <1>4 DEF ConsistencyQuery, EntriesQuery
  <2> QED BY <1>4, <2>1, ReaderCalls
<1>5. CASE InclusionProofByIndex(c)
  <2>1. /\ c \in Calls /\ pc \in [Calls -> Pc]
    BY TypeInvParts DEF LogInv, QueueTyped, Calls
  <2>2. /\ UNCHANGED <<entries, request, known>>
        /\ pc[c] = "proof.find" /\ pc'[c] \in {"query.size", "failed"}
    BY <1>5, <2>1 DEF InclusionProofByIndex, Resumes, AwaitsNext, Settles, storageVars
  <2>3. Found(c) => Found(c)'
    BY <2>2 DEF Found, Size
  <2> QED BY <1>1, <2>2, <2>3 DEF ReaderHolds
<1>6. CASE AnswerQuery(c)
  BY <1>1, <1>6, ReaderAnswers
<1> QED BY <1>2, <1>3, <1>4, <1>5, <1>6, ReaderSteps DEF LogInv

LEMMA ReaderInvariant == Spec => []ReaderInv
<1>1. Init => ReaderInv
  <2> SUFFICES ASSUME Init, NEW c \in Readers PROVE ReaderHolds(c)
    BY DEF ReaderInv
  <2>1. pc[c] = "idle"
    BY DEF Init, Calls
  <2> QED BY <2>1 DEF ReaderHolds
<1> QED BY <1>1, ReaderInvNext, LogInvariant, PTL DEF Spec

LEMMA LeafHashesAre ==
    ASSUME NEW n \in Nat
    PROVE  Len(LeafHashes(n)) = n /\ \A i \in 1..n : LeafHashes(n)[i] = entries[i].leafHash
<1> DEFINE L == LeafHashes(n)
           S == {L[i] : i \in 1..n}
<1>1. L \in [1..n -> S]
  BY DEF LeafHashes
<1>2. Len(L) = n
  BY <1>1, LenProperties, SeqDef
<1> QED BY <1>2 DEF LeafHashes

(* The proofs a client is given hold against every signed head of this log *)
(* it may hold, of the sizes it asked about, in a log of any size and      *)
(* whatever calls run beside the query.                                    *)
THEOREM ProofsAnswerHeads == Spec => []ProofsVerifyAgainstSths
<1>1. LogInv /\ ReaderInv => ProofsVerifyAgainstSths
  <2> SUFFICES ASSUME LogInv, ReaderInv PROVE ProofsVerifyAgainstSths
    OBVIOUS
  <2> DEFINE ours == {sths[k] : k \in {i \in 1..Len(sths) : CommitsToPrefix(sths[i])}}
  <2>0. \A sth \in ours : sth.rootHash = MerkleRootFromLeafHashes(LeafHashes(sth.treeSize))
    BY DEF CommitsToPrefix
  <2> HIDE DEF ours
  <2> SUFFICES ASSUME NEW c \in Readers, pc[c] = "done"
               PROVE  /\ request[c].kind = "inclusion" =>
                           \A sth \in ours : sth.treeSize = request[c].treeSize =>
                             VerifyInclusion(request[c].leafHash, answer[c].leafIndex,
                                             request[c].treeSize, answer[c].auditPath,
                                             sth.rootHash)
                      /\ request[c].kind = "consistency" =>
                           \A old, new \in ours :
                             old.treeSize = request[c].first /\ new.treeSize = request[c].second =>
                               VerifyConsistency(request[c].first, request[c].second,
                                                 old.rootHash, new.rootHash, answer[c].path)
                      /\ request[c].kind = "entries" =>
                           /\ answer[c].range # <<>>
                           /\ \A i \in 1..Len(answer[c].range) :
                                answer[c].range[i] = entries[request[c].start + i]
    BY DEF ProofsVerifyAgainstSths, ours
  <2>1. ReaderHolds(c) /\ Size \in Nat
    BY TypeInvParts, SizeType DEF ReaderInv, LogInv
  <2>2. ASSUME request[c].kind = "inclusion", NEW sth \in ours, sth.treeSize = request[c].treeSize
        PROVE  VerifyInclusion(request[c].leafHash, answer[c].leafIndex,
                               request[c].treeSize, answer[c].auditPath, sth.rootHash)
    <3>1. PICK n, k : n = request[c].treeSize /\ k = answer[c].leafIndex
      OBVIOUS
    <3>2. /\ n \in 1..Size /\ k \in 0..(n - 1) /\ entries[k + 1].leafHash = request[c].leafHash
          /\ answer[c].auditPath = InclusionPath(k, LeafHashes(n))
      BY <2>1, <2>2, <3>1 DEF ReaderHolds, ProofIsOfLog
    <3>3. n \in Nat /\ k \in Nat /\ k < n /\ k + 1 \in 1..n
      BY <2>1, <3>2
    <3>4. PICK L : L = LeafHashes(n)
      OBVIOUS
    <3>5. Len(L) = n /\ L[k + 1] = request[c].leafHash
      BY <3>2, <3>3, <3>4, LeafHashesAre
    <3>6. IsSequence(InclusionPath(k, L))
      BY <3>3, <3>5, InclusionPathIsSequence
    <3>7. VerifyInclusion(L[k + 1], k, Len(L), InclusionPath(k, L), MerkleRootFromLeafHashes(L))
      BY <3>3, <3>5, <3>6, InclusionExact
    <3>8. sth.rootHash = MerkleRootFromLeafHashes(L)
      BY <2>0, <2>2, <3>1, <3>4
    <3> QED BY <3>1, <3>2, <3>4, <3>5, <3>7, <3>8
  <2>3. ASSUME request[c].kind = "consistency", NEW old \in ours, NEW new \in ours,
               old.treeSize = request[c].first, new.treeSize = request[c].second
        PROVE  VerifyConsistency(request[c].first, request[c].second,
                                 old.rootHash, new.rootHash, answer[c].path)
    <3>1. PICK m, n : m = request[c].first /\ n = request[c].second
      OBVIOUS
    <3>2. /\ n \in 2..Size /\ m \in 1..(n - 1)
          /\ answer[c].path = ConsistencyPath(m, LeafHashes(n))
      BY <2>1, <2>3, <3>1 DEF ReaderHolds, LinkIsOfLog
    <3>3. m \in Nat /\ n \in Nat /\ m >= 1 /\ m < n
      BY <2>1, <3>2
    <3>4. PICK L, O : L = LeafHashes(n) /\ O = LeafHashes(m)
      OBVIOUS
    <3>5. Len(L) = n /\ Len(O) = m
      BY <3>3, <3>4, LeafHashesAre
    <3>6. \A i \in 1..m : O[i] = L[i]
      BY <3>3, <3>4 DEF LeafHashes
    <3>7. IsSequence(ConsistencyPath(m, L))
      BY <3>3, <3>5, ConsistencyPathIsSequence
    <3>8. VerifyConsistency(m, Len(L), MerkleRootFromLeafHashes(O), MerkleRootFromLeafHashes(L),
                            ConsistencyPath(m, L))
      BY <3>3, <3>5, <3>6, <3>7, ConsistencyExact
    <3>9. old.rootHash = MerkleRootFromLeafHashes(O) /\ new.rootHash = MerkleRootFromLeafHashes(L)
      BY <2>0, <2>3, <3>1, <3>4
    <3> QED BY <3>1, <3>2, <3>4, <3>5, <3>8, <3>9
  <2>4. ASSUME request[c].kind = "entries"
        PROVE  RangeIsOfLog(c)
    BY <2>1, <2>4 DEF ReaderHolds
  <2> QED BY <2>2, <2>3, <2>4 DEF RangeIsOfLog
<1> QED BY <1>1, LogInvariant, ReaderInvariant, PTL

-----------------------------------------------------------------------------
(* The implementation keeps the promise of an append-only log.             *)

Log == [i \in 1..Len(entries) |-> entries[i].entry]

PromiseInv == LogInv /\ OrderInv

(* The log of an extended sequence of entries is the extended log. *)
LEMMA LogAppends ==
    ASSUME TypeInv, NEW n \in Nat, NEW new \in Entry,
           Len(entries) = n, Len(entries') = n + 1,
           \A i \in 1..n : entries'[i] = entries[i], entries'[n + 1].entry = new
    PROVE  Log' = Append(Log, new)
<1>1. entries \in Seq([leafIndex : Nat, entry : Entry, leafHash : LeafHash])
  BY TypeInvParts DEF StorageTypes
<1>2. \A i \in 1..n : entries[i].entry \in Entry
  <2> SUFFICES ASSUME NEW i \in 1..n PROVE entries[i].entry \in Entry
    OBVIOUS
  <2>1. entries[i] \in [leafIndex : Nat, entry : Entry, leafHash : LeafHash]
    BY <1>1, ElementOfSeq
  <2> QED BY <2>1
<1>3. /\ Log \in Seq(Entry) /\ Len(Log) = n
      /\ \A i \in 1..n : Log[i] = entries[i].entry
  BY <1>2 DEF Log
<1>4. /\ Log' \in Seq(Entry) /\ Len(Log') = n + 1
      /\ \A i \in 1..(n + 1) : Log'[i] = entries'[i].entry
  <2>1. \A i \in 1..(n + 1) : entries'[i].entry \in Entry
    <3> SUFFICES ASSUME NEW i \in 1..(n + 1) PROVE entries'[i].entry \in Entry
      OBVIOUS
    <3>1. i = n + 1 \/ i \in 1..n
      OBVIOUS
    <3> QED BY <1>2, <3>1
  <2>2. Log' = [i \in 1..(n + 1) |-> entries'[i].entry]
    BY DEF Log
  <2> QED BY <2>1, <2>2
<1>5. /\ Append(Log, new) \in Seq(Entry) /\ Len(Append(Log, new)) = n + 1
      /\ \A i \in 1..n : Append(Log, new)[i] = Log[i]
      /\ Append(Log, new)[n + 1] = new
  BY <1>3, SeqAppend
<1> HIDE DEF Log
<1>6. ASSUME NEW i \in 1..(n + 1) PROVE Log'[i] = Append(Log, new)[i]
  <2>1. i = n + 1 \/ i \in 1..n
    OBVIOUS
  <2> QED BY <1>3, <1>4, <1>5, <2>1
<1> QED BY <1>4, <1>5, <1>6, SeqEqual

(* An allowed append is an Add of an entry the log did not have. *)
LEMMA AppendsAdd ==
    ASSUME PromiseInv, NEW c \in Calls, Appends(c)
    PROVE  \E entry \in Entry : Promise!Add(entry)
<1> DEFINE n == Size
<1>0. TypeInv /\ StorageTypes
  BY TypeInvParts DEF PromiseInv, LogInv
<1> PICK new \in Entry : new = BuildTlogEntry(request[c])
  BY <1>0, AppendEffect
<1>1. /\ new \in Entry /\ HashLeaf(new) \in LeafHash
      /\ n \in Nat /\ Size' = n + 1
      /\ \A i \in 1..n : entries'[i] = entries[i]
      /\ entries'[n + 1].entry = new
      /\ byLeafHash[HashLeaf(new)] = Undefined
  <2>1. entries'[n + 1] = StoredEntry(n, new)
    BY <1>0, AppendEffect
  <2>2. entries'[n + 1].entry = new
    BY <2>1 DEF StoredEntry
  <2> HIDE DEF n
  <2> QED BY <1>0, <2>2, AppendEffect DEF n
<1> HIDE DEF n
<1>2. \A i \in 1..n : entries[i].entry # new
  <2> SUFFICES ASSUME NEW i \in 1..n, entries[i].entry = new PROVE FALSE
    OBVIOUS
  <2>1. entries[i].leafHash = HashLeaf(new)
    BY Zenon DEF PromiseInv, LogInv, IndexesAgree, n
  <2>2. i - 1 \in 0..(n - 1) /\ (i - 1) + 1 = i
    BY <1>1
  <2>3. byLeafHash[HashLeaf(new)] = i - 1
    BY <1>1, <2>1, <2>2 DEF PromiseInv, LogInv, IndexesAgree, n
  <2> QED BY <1>1, <2>2, <2>3 DEF Undefined
<1>3. Len(entries) = n /\ Len(entries') = n + 1
  BY <1>1 DEF n, Size
<1>4. \A i \in 1..Len(Log) : Log[i] # new
  <2>1. Len(Log) = n /\ \A i \in 1..n : Log[i] = entries[i].entry
    BY <1>1, <1>3 DEF Log
  <2> QED BY <1>2, <2>1
<1>5. Log' = Append(Log, new)
  BY <1>0, <1>1, <1>3, LogAppends
<1>6. UNCHANGED sths
  BY DEF Appends, AppendRecord
<1>7. Promise!Add(new)
  BY <1>4, <1>5, <1>6, Zenon DEF Promise!Add, Log
<1> QED BY <1>1, <1>7

(* Storing a head is a Publish. *)
LEMMA StoresPublish ==
    ASSUME PromiseInv, NEW c \in Signers, StoreSth(c), ~UNCHANGED sths
    PROVE  \E n \in 0..Len(Log) : Promise!Publish(n)
<1> DEFINE n == size[c]
<1>1. /\ c \in Calls /\ c \in Signing /\ pc[c] = "sth.latest"
      /\ UNCHANGED entries /\ sths' = Append(sths, head[c])
  BY DEF StoreSth, Resumes, Signing, Calls
<1>2. /\ n \in Nat /\ Size \in Nat /\ n <= Size
      /\ head[c] = [treeSize |-> n, rootHash |-> RootOf(n)]
  BY <1>1, OrderFacts DEF PromiseInv, HeadHeld
<1>3. \A k \in 1..Len(sths) : sths[k].treeSize <= n
  BY <1>1 DEF PromiseInv, OrderInv, SigningInOrder
<1>4. Len(Log) = Size /\ \A i \in 1..Size : Log[i] = entries[i].entry
  BY <1>2 DEF Log, Size
<1>5. RootOf(n) = Promise!RootAt(n)
  <2> DEFINE prefix == [i \in 1..n |-> Log[i]]
  <2>1. \A i \in 1..n : entries[i].leafHash = HashLeaf(entries[i].entry)
    <3>1. \A i \in 1..Size : entries[i].leafHash = HashLeaf(entries[i].entry)
      BY Zenon DEF PromiseInv, LogInv, IndexesAgree
    <3> QED BY <1>2, <3>1
  <2>2. /\ Len(prefix) = n
        /\ \A i \in 1..n : prefix[i] = entries[i].entry
    BY <1>2, <1>4
  <2> HIDE DEF prefix
  <2>3. LeafHashes(n) = [i \in 1..Len(prefix) |-> HashLeaf(prefix[i])]
    BY <2>1, <2>2 DEF LeafHashes
  <2>4. RootOf(n) = RootOfEntries(prefix)
    BY <2>3 DEF RootOf, RootOfEntries
  <2> QED BY <2>4, Zenon DEF Promise!RootAt, Log, prefix
<1>6. Promise!Publish(n)
  BY <1>1, <1>2, <1>3, <1>5 DEF Promise!Publish, Log
<1> QED BY <1>2, <1>4, <1>6

(* Every step is a step of the append-only log, or a stutter of it. *)
LEMMA PromiseStep ==
    ASSUME PromiseInv, [Next]_vars, Storers = {} PROVE [Promise!Next]_(Promise!vars)
<1>1. TypeInv
  BY DEF PromiseInv, LogInv
<1>2. CASE \E c \in Calls : Appends(c)
  BY <1>2, AppendsAdd DEF Promise!Next
<1>3. CASE LogUnchanged /\ UNCHANGED sths
  BY <1>3 DEF LogUnchanged, Promise!vars
<1>4. CASE LogUnchanged /\ ~UNCHANGED sths
  <2>1. PICK c \in Calls : \/ StepsAside(c)
                           \/ c \in Signers /\ CallSignTreeHead(c)
                           \/ c \in Signers /\ StepsToStore(c)
                           \/ c \in Signers /\ StoreSth(c)
    BY <1>1, <1>4, OneCallSteps DEF vars
  <2>2. c \in Signers /\ StoreSth(c)
    BY <1>4, <2>1 DEF StepsAside, CallSignTreeHead, StepsToStore, RootHashAt, ReadLeafHashes,
                      ReturnThrough, ReadLatestSth, storageVars
  <2> QED BY <1>4, <2>2, StoresPublish DEF Promise!Next, Log
<1> QED BY <1>2, <1>3, <1>4, WhoAppends

(* The transparency log is an append-only log for its readers: nothing is  *)
(* rewritten, no entry enters twice, and every new head commits to a       *)
(* prefix no shorter than the ones before it.                              *)
THEOREM LogImplementsPromise ==
    ASSUME Storers = {} PROVE Spec => KeepsThePromise
<1>1. Init => Promise!Init
  BY DEF Init, StorageInit, Promise!Init
<1>2. PromiseInv /\ [Next]_vars => [Promise!Next]_(Promise!vars)
  BY PromiseStep
<1>3. Spec => []PromiseInv
  BY LogInvariant, OrderInvariant, PTL DEF PromiseInv
<1> QED BY <1>1, <1>2, <1>3, PTL DEF Spec, KeepsThePromise, Promise!Spec
=============================================================================
