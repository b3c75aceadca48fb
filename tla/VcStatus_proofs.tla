--------------------------- MODULE VcStatus_proofs ---------------------------
(***************************************************************************)
(* What the answers of check_vc_status are worth, for all exports, keys    *)
(* and lists, any TTL and any distance of the clocks; and that the gates   *)
(* of the two SDKs, the conformance kit, its probe and the web fronts      *)
(* judge a credential alike.                                               *)
(*                                                                         *)
(* A call takes the status it will return at one request and returns it    *)
(* after others.  That an "active" is recent is inductive since the bound  *)
(* is about the time the call began: a credential valid at the request was *)
(* signed a TTL before it at the earliest, the request came after the      *)
(* beginning, and the history of the standing never goes back.  That a     *)
(* "revoked" is true is inductive since a revocation is never taken back.  *)
(***************************************************************************)
EXTENDS StatusProbe, StatusIssuer_proofs, SequenceTheorems

Recent(answer) ==
    answer.status = "active" =>
      lastSuited[TRUST_RANK["software"]] >= answer.startedAt - Ttl - MaxSkew

CallTypes ==
    /\ call.running => /\ {"running", "pending", "status", "startedAt"} \subseteq DOMAIN call
                       /\ call.startedAt \in Nat
                       /\ call.startedAt <= now
    /\ ~call.running => call = Idle
    /\ call.running \in BOOLEAN
    /\ returned # NoAnswer => returned.startedAt \in Nat

IInv ==
    /\ IssuerInv
    /\ CallTypes
    /\ call.running => Recent(call)
    /\ returned # NoAnswer => Recent(returned)

(* Software is the least of the ranks, and an active certificate has one.  *)
LEMMA ActiveSuits ==
    ASSUME NEW held, held.status = "active", held.trustLevel \in Levels
    PROVE  Suits(held, TRUST_RANK["software"])
  <1>1. held.trustLevel \in DOMAIN TRUST_RANK
    BY LevelsAreRanked
  <1>2. \A level \in DOMAIN TRUST_RANK : TRUST_RANK[level] >= TRUST_RANK["software"]
    BY DEF TRUST_RANK
  <1> QED BY <1>1, <1>2 DEF Suits, RankOf

(* What the verification of status.py tells of the credential it accepts.  *)
LEMMA ValidIsChecked ==
    ASSUME NEW c, NEW clock, PyVerifyStatusCredential(c, Verify, clock) = "valid"
    PROVE  /\ c.schema = "jiaozi.status.v1"
           /\ \A keys \in Verify.trustedKeys : c.publicKeyMultibase \in keys
           /\ Verify.now = {} => ~(clock > c.payload.expiresAt)
  BY DEF PyVerifyStatusCredential, PyIsStatusCredentialV1, PyExpired

(* A status "active" is recent when it is read.                            *)
LEMMA ReadIsRecent ==
    ASSUME IInv, VerifyPinsPlatform, call.running,
           NEW c \in issued \cup {Malformed}, NEW clock \in GateClock,
           PyVerifyStatusCredential(c, Verify, clock) = "valid",
           c.payload.status = "active"
    PROVE  lastSuited[TRUST_RANK["software"]] >= call.startedAt - Ttl - MaxSkew
  <1> DEFINE rank == TRUST_RANK["software"]
  <1>1. /\ c.schema = "jiaozi.status.v1"
        /\ \A keys \in Verify.trustedKeys : c.publicKeyMultibase \in keys
        /\ ~(clock > c.payload.expiresAt)
    BY ValidIsChecked DEF VerifyPinsPlatform
  <1>2. c \in issued
    BY <1>1 DEF Malformed
  <1>3. Signed(c) /\ now \in Nat /\ lastSuited \in [Ranks -> Int] /\ rank \in Ranks
    BY <1>2, RanksAreNumbers DEF IInv, IssuerInv, IssuerTypes
  <1>4. c.signature.by \in PlatformKeys
    <2>1. PICK keys \in Verify.trustedKeys :
            keys \subseteq {Multibase(key, "legacy") : key \in PlatformKeys}
      BY DEF VerifyPinsPlatform
    <2>2. PICK key \in PlatformKeys : c.publicKeyMultibase = Multibase(key, "legacy")
      BY <1>1, <2>1
    <2> QED BY <1>3, <2>2 DEF Signed, Multibase
  <1>5. Suits(c.payload, rank)
    BY <1>3, ActiveSuits DEF Signed
  <1>6. lastSuited[rank] >= c.payload.serial
    BY <1>2, <1>3, <1>4, <1>5 DEF IInv, IssuerInv, SignedTruth, Signed, SignWithPkcs8
  <1>7. c.payload.serial + Ttl >= now - MaxSkew
    <2>1. PICK skew \in (0 - MaxSkew)..MaxSkew : clock = now + skew
      BY DEF GateClock
    <2> QED BY <1>1, <1>3, <2>1, TtlIsTime, SkewIsTime DEF Signed
  <1>8. c.payload.serial \in Nat /\ lastSuited[rank] \in Int
    BY <1>3 DEF Signed
  <1>9. call.startedAt \in Nat /\ call.startedAt <= now
    BY DEF IInv, CallTypes
  <1> QED BY <1>3, <1>6, <1>7, <1>8, <1>9, TtlIsTime, SkewIsTime

(* What is recent stays so: the standing's history only moves on.          *)
LEMMA RecentStays ==
    ASSUME IssuerInv, IssuerInv', IssuerMovesOn, NEW answer, answer.startedAt \in Nat,
           Recent(answer)
    PROVE  answer.status = "active" =>
             lastSuited'[TRUST_RANK["software"]] >= answer.startedAt - Ttl - MaxSkew
  <1>1. TRUST_RANK["software"] \in Ranks
    BY RanksAreNumbers
  <1>2. /\ lastSuited[TRUST_RANK["software"]] \in Int
        /\ lastSuited'[TRUST_RANK["software"]] \in Int
    BY <1>1 DEF IssuerInv, IssuerTypes
  <1>3. lastSuited'[TRUST_RANK["software"]] >= lastSuited[TRUST_RANK["software"]]
    BY <1>1 DEF IssuerMovesOn
  <1> QED BY <1>2, <1>3, TtlIsTime, SkewIsTime DEF Recent

(* A step beside the call changes nothing it holds.                        *)
LEMMA BesideTheCall ==
    ASSUME IInv, IssuerNext \/ UNCHANGED issuerVars, UNCHANGED <<call, returned>>
    PROVE  IInv'
  <1>1. IssuerInv' /\ IssuerMovesOn
    BY IssuerNextInv DEF IInv
  <1>2. now \in Nat /\ now' \in Nat /\ now' >= now
    BY <1>1 DEF IInv, IssuerInv, IssuerTypes, IssuerMovesOn
  <1>3. CallTypes'
    BY <1>2 DEF IInv, CallTypes
  <1>4. (call.running => Recent(call))'
    BY <1>1, RecentStays DEF IInv, CallTypes, Recent
  <1>5. (returned # NoAnswer => Recent(returned))'
    BY <1>1, RecentStays DEF IInv, CallTypes, Recent
  <1> QED BY <1>1, <1>3, <1>4, <1>5 DEF IInv

(* Nothing has been asked at first.                                        *)
LEMMA InitIInv == Init => IInv
  BY IssuerInitInv DEF Init, IInv, CallTypes, Idle, NoAnswer

(* Every step preserves the invariant, where the platform's keys are       *)
(* pinned.                                                                 *)
LEMMA NextIInv == VerifyPinsPlatform /\ IInv /\ [Next]_vars => IInv'
  <1> SUFFICES ASSUME VerifyPinsPlatform, IInv, [Next]_vars PROVE IInv'
    OBVIOUS
  <1>0. now \in Nat
    BY DEF IInv, IssuerInv, IssuerTypes
  <1>1. ASSUME UNCHANGED issuerVars
        PROVE  IssuerInv' /\ now' = now /\ lastSuited' = lastSuited
    BY <1>1, IssuerNextInv DEF IInv, issuerVars
  <1>2. ASSUME NEW export \in Exports, CheckVcStatus(export) PROVE IInv'
    <2>1. IssuerInv' /\ now' = now
      BY <1>1, <1>2 DEF CheckVcStatus
    <2>2. /\ call'.running = TRUE
          /\ call'.status = "none"
          /\ call'.startedAt = now
          /\ {"running", "pending", "status", "startedAt"} \subseteq DOMAIN call'
      BY <1>2 DEF CheckVcStatus
    <2>3. returned' = NoAnswer
      BY <1>2 DEF CheckVcStatus
    <2>4. CallTypes'
      <3>1. call'.startedAt \in Nat /\ call'.startedAt <= now'
        BY <1>0, <2>1, <2>2
      <3>2. call'.running = TRUE
        BY <2>2
      <3>3. {"running", "pending", "status", "startedAt"} \subseteq DOMAIN call'
        BY <2>2
      <3> QED BY <2>3, <3>1, <3>2, <3>3, Zenon DEF CallTypes
    <2>5. (call.running => Recent(call))'
      BY <2>2 DEF Recent
    <2>6. (returned # NoAnswer => Recent(returned))'
      BY <2>3 DEF NoAnswer
    <2> QED BY <2>1, <2>4, <2>5, <2>6 DEF IInv
  <1>3. ASSUME call.pending # <<>> PROVE call.running
    BY <1>3 DEF IInv, CallTypes, Idle
  <1>4. ASSUME call.running, UNCHANGED <<issuerVars, returned>>,
               DOMAIN call' = DOMAIN call, call'.running = call.running,
               call'.startedAt = call.startedAt,
               \/ call'.status = call.status
               \/ call'.status = "active" =>
                    lastSuited[TRUST_RANK["software"]] >= call.startedAt - Ttl - MaxSkew
        PROVE  IInv'
    BY <1>1, <1>4 DEF IInv, CallTypes, Recent
  <1>5. ASSUME NEW c \in issued \cup {Malformed}, NEW clock \in GateClock,
               ReadStatusV1(c, clock)
        PROVE  IInv'
    <2>1. call.running /\ UNCHANGED <<issuerVars, returned>>
      BY <1>3, <1>5 DEF ReadStatusV1
    <2>2. {"running", "pending", "status", "startedAt"} \subseteq DOMAIN call
      BY <2>1 DEF IInv, CallTypes
    <2>3. CASE PyVerifyStatusCredential(c, Verify, clock) = "valid"
      <3>1. /\ DOMAIN call' = DOMAIN call
            /\ call'.running = call.running
            /\ call'.startedAt = call.startedAt
            /\ call'.status = c.payload.status
        BY <1>5, <2>2, <2>3 DEF ReadStatusV1
      <3> QED BY <1>4, <2>1, <2>3, <3>1, ReadIsRecent
    <2>4. CASE PyVerifyStatusCredential(c, Verify, clock) # "valid"
      <3>1. /\ DOMAIN call' = DOMAIN call
            /\ call'.running = call.running
            /\ call'.startedAt = call.startedAt
            /\ call'.status = call.status
        BY <1>5, <2>2, <2>4 DEF ReadStatusV1
      <3> QED BY <1>4, <2>1, <3>1
    <2> QED BY <2>3, <2>4
  <1>6. CASE ReadBitstringList \/ EntryFails
    <2>1. call.running /\ UNCHANGED <<issuerVars, returned>>
      BY <1>3, <1>6 DEF ReadBitstringList, EntryFails
    <2>2. /\ DOMAIN call' = DOMAIN call
          /\ call'.running = call.running
          /\ call'.startedAt = call.startedAt
          /\ call'.status = call.status
      <3>1. {"running", "pending", "status", "startedAt"} \subseteq DOMAIN call
        BY <2>1 DEF IInv, CallTypes
      <3> QED BY <1>6, <3>1 DEF ReadBitstringList, EntryFails
    <2> QED BY <1>4, <2>1, <2>2
  <1>7. CASE Return
    <2>1. IssuerInv' /\ now' = now /\ lastSuited' = lastSuited
      BY <1>1, <1>7 DEF Return
    <2>2. call' = Idle /\ call.running
      BY <1>7 DEF Return
    <2>3. returned'.startedAt = call.startedAt /\ returned'.status = Combined(call)
      BY <1>7 DEF Return
    <2>4. returned'.status = "active" => call.status = "active"
      BY <2>3 DEF Combined
    <2>5. CallTypes'
      BY <2>2, <2>3 DEF IInv, CallTypes, Idle
    <2> QED BY <2>1, <2>2, <2>3, <2>4, <2>5 DEF IInv, Recent, Idle
  <1>8. ASSUME IssuerStep \/ (\E purpose \in Purposes : Publish(purpose)) \/ UNCHANGED vars
        PROVE  IInv'
    BY <1>8, BesideTheCall DEF IssuerStep, Publish, vars
  <1> QED BY <1>2, <1>5, <1>6, <1>7, <1>8 DEF Next

(* "active" from check_vc_status means that the certificate was active a   *)
(* TTL and the clocks' distance before the call at the earliest, whichever *)
(* requests failed, in whatever order the entries came.                    *)
THEOREM ActiveAnswersAreRecent == Spec => []ActiveIsRecent
  <1>1. CASE VerifyPinsPlatform
    <2>1. Init => IInv
      BY InitIInv
    <2>2. IInv /\ [Next]_vars => IInv'
      BY <1>1, NextIInv
    <2>3. IInv => ActiveIsRecent
      BY DEF IInv, ActiveIsRecent, Recent, NoAnswer
    <2> QED BY <2>1, <2>2, <2>3, PTL DEF Spec
  <1>2. CASE ~VerifyPinsPlatform
    <2>1. ActiveIsRecent
      BY <1>2 DEF ActiveIsRecent
    <2> QED BY <2>1, PTL
  <1> QED BY <1>1, <1>2

-----------------------------------------------------------------------------
(* Status lists.                                                           *)

(* Eight bits make a byte, and masking gives each of them back.            *)
LEMMA BitOfByte ==
    ASSUME NEW b0 \in {0, 128}, NEW b1 \in {0, 64}, NEW b2 \in {0, 32}, NEW b3 \in {0, 16},
           NEW b4 \in {0, 8}, NEW b5 \in {0, 4}, NEW b6 \in {0, 2}, NEW b7 \in {0, 1},
           NEW byte, byte = b0 + b1 + b2 + b3 + b4 + b5 + b6 + b7
    PROVE  /\ (byte \div 128) % 2 = 1 <=> b0 = 128
           /\ (byte \div 64) % 2 = 1 <=> b1 = 64
           /\ (byte \div 32) % 2 = 1 <=> b2 = 32
           /\ (byte \div 16) % 2 = 1 <=> b3 = 16
           /\ (byte \div 8) % 2 = 1 <=> b4 = 8
           /\ (byte \div 4) % 2 = 1 <=> b5 = 4
           /\ (byte \div 2) % 2 = 1 <=> b6 = 2
           /\ (byte \div 1) % 2 = 1 <=> b7 = 1
  <1>1. (byte \div 128) % 2 = 1 <=> b0 = 128
    OBVIOUS
  <1>2. (byte \div 64) % 2 = 1 <=> b1 = 64
    OBVIOUS
  <1>3. (byte \div 32) % 2 = 1 <=> b2 = 32
    OBVIOUS
  <1>4. (byte \div 16) % 2 = 1 <=> b3 = 16
    OBVIOUS
  <1>5. (byte \div 8) % 2 = 1 <=> b4 = 8
    OBVIOUS
  <1>6. (byte \div 4) % 2 = 1 <=> b5 = 4
    OBVIOUS
  <1>7. (byte \div 2) % 2 = 1 <=> b6 = 2
    OBVIOUS
  <1>8. (byte \div 1) % 2 = 1 <=> b7 = 1
    OBVIOUS
  <1> QED BY <1>1, <1>2, <1>3, <1>4, <1>5, <1>6, <1>7, <1>8

(* The bit that status_list_bit reads is the one that was published.       *)
LEMMA BitAsPublished ==
    ASSUME NEW indices, NEW index \in Nat
    PROVE  LET read == StatusListBit(EncodeBits(indices), index)
           IN  IF index >= 8 * ListBytes THEN read = {}
               ELSE \E bit \in BOOLEAN : read = {bit} /\ (bit <=> index \in indices)
  <1> DEFINE Bit(k, r) == IF 8 * (k - 1) + r \in indices THEN Masks[r + 1] ELSE 0
             bits == EncodeBits(indices)
  <1>1. bits = [k \in 1..ListBytes |-> Bit(k, 0) + Bit(k, 1) + Bit(k, 2) + Bit(k, 3)
                                       + Bit(k, 4) + Bit(k, 5) + Bit(k, 6) + Bit(k, 7)]
    BY DEF EncodeBits
  <1>2. ListBytes \in Nat
    BY ListsHaveBytes
  <1> HIDE DEF bits
  <1>3. Len(bits) = ListBytes
    <2> DEFINE b(k) == bits[k]
    <2>1. DOMAIN bits = 1..ListBytes /\ bits = [k \in 1..ListBytes |-> b(k)]
      BY <1>1
    <2> QED BY <1>2, <2>1
  <1>4. CASE index >= 8 * ListBytes
    BY <1>3, <1>4 DEF StatusListBit, bits
  <1>5. CASE ~(index >= 8 * ListBytes)
    <2> DEFINE q == index \div 8
               r == index % 8
               byte == bits[q + 1]
    <2>1. r \in 0..7 /\ q \in Int /\ index = 8 * q + r
      OBVIOUS
    <2> HIDE DEF q, r
    <2>2. q + 1 \in 1..ListBytes /\ 8 * ((q + 1) - 1) = 8 * q
      BY <1>2, <1>5, <2>1
    <2>3. byte = Bit(q + 1, 0) + Bit(q + 1, 1) + Bit(q + 1, 2) + Bit(q + 1, 3)
                 + Bit(q + 1, 4) + Bit(q + 1, 5) + Bit(q + 1, 6) + Bit(q + 1, 7)
      BY <1>1, <2>2
    <2>4. /\ Bit(q + 1, 0) = IF 8 * q + 0 \in indices THEN 128 ELSE 0
          /\ Bit(q + 1, 1) = IF 8 * q + 1 \in indices THEN 64 ELSE 0
          /\ Bit(q + 1, 2) = IF 8 * q + 2 \in indices THEN 32 ELSE 0
          /\ Bit(q + 1, 3) = IF 8 * q + 3 \in indices THEN 16 ELSE 0
          /\ Bit(q + 1, 4) = IF 8 * q + 4 \in indices THEN 8 ELSE 0
          /\ Bit(q + 1, 5) = IF 8 * q + 5 \in indices THEN 4 ELSE 0
          /\ Bit(q + 1, 6) = IF 8 * q + 6 \in indices THEN 2 ELSE 0
          /\ Bit(q + 1, 7) = IF 8 * q + 7 \in indices THEN 1 ELSE 0
      BY <2>2 DEF Masks
    <2>5. StatusListBit(bits, index) = {(byte \div Masks[r + 1]) % 2 = 1}
      BY <1>3, <1>5 DEF StatusListBit, q, r
    <2> DEFINE b0 == Bit(q + 1, 0)
               b1 == Bit(q + 1, 1)
               b2 == Bit(q + 1, 2)
               b3 == Bit(q + 1, 3)
               b4 == Bit(q + 1, 4)
               b5 == Bit(q + 1, 5)
               b6 == Bit(q + 1, 6)
               b7 == Bit(q + 1, 7)
    <2> HIDE DEF byte, Bit
    <2>6. (byte \div Masks[r + 1]) % 2 = 1 <=> index \in indices
      <3>1. /\ (byte \div 128) % 2 = 1 <=> 8 * q + 0 \in indices
            /\ (byte \div 64) % 2 = 1 <=> 8 * q + 1 \in indices
            /\ (byte \div 32) % 2 = 1 <=> 8 * q + 2 \in indices
            /\ (byte \div 16) % 2 = 1 <=> 8 * q + 3 \in indices
            /\ (byte \div 8) % 2 = 1 <=> 8 * q + 4 \in indices
            /\ (byte \div 4) % 2 = 1 <=> 8 * q + 5 \in indices
            /\ (byte \div 2) % 2 = 1 <=> 8 * q + 6 \in indices
            /\ (byte \div 1) % 2 = 1 <=> 8 * q + 7 \in indices
        <4>1. /\ b0 \in {0, 128} /\ b1 \in {0, 64} /\ b2 \in {0, 32} /\ b3 \in {0, 16}
              /\ b4 \in {0, 8} /\ b5 \in {0, 4} /\ b6 \in {0, 2} /\ b7 \in {0, 1}
              /\ b0 = 128 <=> 8 * q + 0 \in indices
              /\ b1 = 64 <=> 8 * q + 1 \in indices
              /\ b2 = 32 <=> 8 * q + 2 \in indices
              /\ b3 = 16 <=> 8 * q + 3 \in indices
              /\ b4 = 8 <=> 8 * q + 4 \in indices
              /\ b5 = 4 <=> 8 * q + 5 \in indices
              /\ b6 = 2 <=> 8 * q + 6 \in indices
              /\ b7 = 1 <=> 8 * q + 7 \in indices
          BY <2>4
        <4>2. byte = b0 + b1 + b2 + b3 + b4 + b5 + b6 + b7
          BY <2>3
        <4> HIDE DEF b0, b1, b2, b3, b4, b5, b6, b7
        <4>3. /\ (byte \div 128) % 2 = 1 <=> b0 = 128
              /\ (byte \div 64) % 2 = 1 <=> b1 = 64
              /\ (byte \div 32) % 2 = 1 <=> b2 = 32
              /\ (byte \div 16) % 2 = 1 <=> b3 = 16
              /\ (byte \div 8) % 2 = 1 <=> b4 = 8
              /\ (byte \div 4) % 2 = 1 <=> b5 = 4
              /\ (byte \div 2) % 2 = 1 <=> b6 = 2
              /\ (byte \div 1) % 2 = 1 <=> b7 = 1
          BY <4>1, <4>2, BitOfByte
        <4> QED BY <4>1, <4>3
      <3>2. /\ Masks[0 + 1] = 128 /\ Masks[1 + 1] = 64 /\ Masks[2 + 1] = 32 /\ Masks[3 + 1] = 16
            /\ Masks[4 + 1] = 8 /\ Masks[5 + 1] = 4 /\ Masks[6 + 1] = 2 /\ Masks[7 + 1] = 1
        BY DEF Masks
      <3>3. r \in {0, 1, 2, 3, 4, 5, 6, 7}
        BY <2>1
      <3> QED BY <2>1, <3>1, <3>2, <3>3
    <2> DEFINE bit == (byte \div Masks[r + 1]) % 2 = 1
    <2>7. bit \in BOOLEAN /\ (bit <=> index \in indices)
      BY <2>6
    <2>8. StatusListBit(bits, index) = {bit}
      BY <2>5
    <2> HIDE DEF bit
    <2> QED BY <1>5, <2>7, <2>8 DEF bits
  <1> QED BY <1>4, <1>5

-----------------------------------------------------------------------------
(* Revocations.  A second invariant: what the lists say of the             *)
(* certificate, and what a call has heard.                                 *)

ListsTell ==
    /\ DOMAIN lists = Purposes
    /\ \A purpose \in Purposes :
         /\ {"purpose", "bits", "own"} \subseteq DOMAIN lists[purpose]
         /\ lists[purpose].purpose = purpose
         /\ lists[purpose].bits =
              EncodeBits(Neighbours \cup (IF lists[purpose].own THEN {OwnIndex} ELSE {}))
    /\ lists["revocation"].own => standing.status = "revoked"

(* A call notes every revocation that it reads, and no other.              *)
Heard(answer) ==
    /\ "revocation" \in answer.listed \cap answer.read => answer.revoked
    /\ answer.status = "revoked" => answer.revoked
    /\ VerifyPinsPlatform /\ answer.revoked => standing.status = "revoked"

CALL == {"running", "pending", "revoked", "status", "sources", "startedAt", "listed", "read", "failed"}

CallHears ==
    /\ call.running \in BOOLEAN
    /\ ~call.running => call = Idle
    /\ call.running =>
         /\ CALL \subseteq DOMAIN call
         /\ call.pending \in Seq(Entries)
         /\ "revocation" \in call.listed => lists["revocation"].own
         /\ Heard(call)

ReturnedTells ==
    returned # NoAnswer =>
      Heard(returned) /\ (returned.revoked <=> returned.status = "revoked")

Reported == IssuerInv /\ ListsTell /\ CallHears /\ ReturnedTells

(* An entry that can be read reads what its list says of the certificate.  *)
LEMMA ReadingTells ==
    ASSUME ListsTell, NEW entry \in Entries, entry.type = "BitstringStatusListEntry",
           NEW url \in entry.url, NEW reading \in CheckBitstringEntry(entry, lists[url])
    PROVE  /\ url \in Purposes /\ reading.statusPurpose = url
           /\ reading.set <=> lists[url].own
  <1>1. /\ url \in Purposes /\ entry.index \in Nat
        /\ entry.index = OwnIndex \/ entry.index >= 8 * ListBytes
    BY EntriesAreOurs
  <1> DEFINE list == lists[url]
             indices == Neighbours \cup (IF list.own THEN {OwnIndex} ELSE {})
  <1>2. list.purpose = url /\ list.bits = EncodeBits(indices)
    BY <1>1 DEF ListsTell
  <1>3. PICK bit \in StatusListBit(list.bits, entry.index) : reading = ReadingOf(list.purpose, bit)
    BY DEF CheckBitstringEntry
  <1> HIDE DEF indices
  <1>4. bit \in BOOLEAN /\ (bit <=> entry.index \in indices) /\ ~(entry.index >= 8 * ListBytes)
    BY <1>1, <1>2, <1>3, BitAsPublished
  <1>5. entry.index \in indices <=> list.own
    BY <1>1, <1>4, OwnIndexIsListed DEF indices
  <1>6. reading.statusPurpose = url /\ reading.set = bit
    BY <1>2, <1>3 DEF ReadingOf
  <1> QED BY <1>1, <1>4, <1>5, <1>6

(* What has been heard stays true: a revocation is for good.               *)
LEMMA HeardStays ==
    ASSUME Reported, IssuerNext \/ UNCHANGED issuerVars, UNCHANGED <<call, returned>>,
           ListsTell', lists["revocation"].own => lists'["revocation"].own
    PROVE  Reported'
  <1>1. IssuerInv' /\ (standing.status = "revoked" => standing'.status = "revoked")
    BY IssuerNextInv DEF Reported, IssuerMovesOn
  <1>2. CallHears'
    BY <1>1 DEF Reported, CallHears, Heard
  <1>3. ReturnedTells'
    BY <1>1 DEF Reported, ReturnedTells, Heard
  <1> QED BY <1>1, <1>2, <1>3 DEF Reported

LEMMA InitReported == Init => Reported
  <1> SUFFICES ASSUME Init PROVE Reported
    OBVIOUS
  <1>1. IssuerInv
    BY IssuerInitInv DEF Init
  <1>2. ListsTell
    <2>1. lists = [p \in Purposes |-> [purpose |-> p, bits |-> EncodeBits(Neighbours), own |-> FALSE]]
      BY DEF Init
    <2>2. "revocation" \in Purposes
      BY DEF Purposes
    <2> QED BY <2>1, <2>2 DEF ListsTell
  <1>3. CallHears /\ ReturnedTells
    BY DEF Init, CallHears, ReturnedTells, Idle
  <1> QED BY <1>1, <1>2, <1>3 DEF Reported

(* The lists are published as the standing is, which is revoked for good.  *)
LEMMA PublishReported ==
    ASSUME Reported, NEW purpose \in Purposes, Publish(purpose)
    PROVE  Reported'
  <1> DEFINE own == \/ purpose = "revocation" /\ standing.status = "revoked"
                    \/ purpose = "suspension" /\ standing.status = "suspended"
             list == [purpose |-> purpose, own |-> own,
                      bits |-> EncodeBits(Neighbours \cup (IF own THEN {OwnIndex} ELSE {}))]
  <1>1. /\ lists' = [lists EXCEPT ![purpose] = list]
        /\ UNCHANGED <<issuerVars, call, returned>>
    BY DEF Publish
  <1>2. /\ {"purpose", "bits", "own"} \subseteq DOMAIN list
        /\ list.purpose = purpose /\ list.own = own
        /\ list.bits = EncodeBits(Neighbours \cup (IF list.own THEN {OwnIndex} ELSE {}))
    OBVIOUS
  <1> HIDE DEF list
  <1>3. DOMAIN lists = Purposes /\ standing' = standing
    BY <1>1 DEF Reported, ListsTell, issuerVars
  <1>4. /\ DOMAIN lists' = Purposes
        /\ \A p \in Purposes : lists'[p] = IF p = purpose THEN list ELSE lists[p]
    BY <1>1, <1>3
  <1>5. purpose = "revocation" => (list.own <=> standing.status = "revoked")
    BY <1>2
  <1> HIDE DEF own
  <1>6. "revocation" \in Purposes
    BY DEF Purposes
  <1>7. ListsTell'
    <2>1. \A p \in Purposes :
            /\ {"purpose", "bits", "own"} \subseteq DOMAIN lists'[p]
            /\ lists'[p].purpose = p
            /\ lists'[p].bits =
                 EncodeBits(Neighbours \cup (IF lists'[p].own THEN {OwnIndex} ELSE {}))
      BY <1>2, <1>4 DEF Reported, ListsTell
    <2>2. lists'["revocation"].own => standing.status = "revoked"
      BY <1>4, <1>5, <1>6 DEF Reported, ListsTell
    <2> QED BY <1>3, <1>4, <2>1, <2>2 DEF ListsTell
  <1>8. lists["revocation"].own => lists'["revocation"].own
    BY <1>4, <1>5, <1>6 DEF Reported, ListsTell
  <1> QED BY <1>1, <1>7, <1>8, HeardStays

(* A call under way that only moves on in its entries and adds to what it  *)
(* has heard.                                                              *)
LEMMA CallMovesOn ==
    ASSUME Reported, call.running, UNCHANGED <<issuerVars, lists, returned>>,
           call.pending # <<>>, call'.pending = Tail(call.pending),
           call'.running = call.running, DOMAIN call' = DOMAIN call,
           call'.listed = call.listed, Heard(call')
    PROVE  Reported'
  <1>1. call.pending \in Seq(Entries) /\ CALL \subseteq DOMAIN call
    BY DEF Reported, CallHears
  <1>2. call'.pending \in Seq(Entries)
    BY <1>1, HeadTailProperties
  <1>3. IssuerInv' /\ standing' = standing
    BY IssuerNextInv DEF Reported, issuerVars
  <1>4. ListsTell' /\ ReturnedTells'
    BY <1>3 DEF Reported, ListsTell, ReturnedTells, Heard
  <1>5. CallHears'
    BY <1>1, <1>2, <1>3 DEF Reported, CallHears, Heard
  <1> QED BY <1>3, <1>4, <1>5 DEF Reported

LEMMA NextReported ==
    ASSUME Reported, [Next]_vars
    PROVE  Reported'
  <1>0. IssuerInv /\ ListsTell /\ CallHears /\ ReturnedTells
    BY DEF Reported
  <1>1. ASSUME call.pending # <<>>
        PROVE  /\ call.running /\ CALL \subseteq DOMAIN call /\ Heard(call)
               /\ Head(call.pending) \in Entries
    <2>1. call.running
      BY <1>0, <1>1 DEF CallHears, Idle
    <2> QED BY <1>0, <1>1, <2>1, HeadTailProperties DEF CallHears
  <1>2. ASSUME NEW export \in Exports, CheckVcStatus(export) PROVE Reported'
    <2>1. /\ UNCHANGED <<issuerVars, lists>> /\ returned' = NoAnswer
          /\ call'.running = TRUE /\ call'.pending = KnownEntries(export)
          /\ call'.revoked = FALSE /\ call'.status = "none" /\ call'.read = {}
          /\ call'.listed = {p \in Purposes : lists[p].own}
          /\ CALL \subseteq DOMAIN call'
      BY <1>2 DEF CheckVcStatus, CALL
    <2>2. call'.pending \in Seq(Entries)
      BY <2>1, EntriesAreListed
    <2>3. IssuerInv' /\ standing' = standing
      BY <1>0, <2>1, IssuerNextInv DEF issuerVars
    <2>4. ListsTell' /\ ReturnedTells'
      BY <1>0, <2>1, <2>3 DEF ListsTell, ReturnedTells
    <2>5. CallHears'
      BY <2>1, <2>2 DEF CallHears, Heard
    <2> QED BY <2>3, <2>4, <2>5 DEF Reported
  <1>3. ASSUME NEW c \in issued \cup {Malformed}, NEW clock \in GateClock,
               ReadStatusV1(c, clock)
        PROVE  Reported'
    <2>1. /\ call.running /\ CALL \subseteq DOMAIN call /\ Heard(call) /\ call.pending # <<>>
          /\ UNCHANGED <<issuerVars, lists, returned>>
      BY <1>1, <1>3 DEF ReadStatusV1
    <2>2. CASE PyVerifyStatusCredential(c, Verify, clock) = "valid"
      <3>1. /\ call'.pending = Tail(call.pending) /\ call'.running = call.running
            /\ DOMAIN call' = DOMAIN call
            /\ call'.listed = call.listed /\ call'.read = call.read
            /\ call'.status = c.payload.status
            /\ call'.revoked = (call.revoked \/ c.payload.status = "revoked")
        BY <1>3, <2>1, <2>2 DEF ReadStatusV1, CALL
      <3>2. ASSUME VerifyPinsPlatform, c.payload.status = "revoked"
            PROVE  standing.status = "revoked"
        <4>1. /\ c.schema = "jiaozi.status.v1"
              /\ \A keys \in Verify.trustedKeys : c.publicKeyMultibase \in keys
          BY <2>2, ValidIsChecked
        <4>2. c \in issued
          BY <4>1 DEF Malformed
        <4>3. PICK keys \in Verify.trustedKeys :
                keys \subseteq {Multibase(key, "legacy") : key \in PlatformKeys}
          BY <3>2 DEF VerifyPinsPlatform
        <4>4. PICK key \in PlatformKeys : c.publicKeyMultibase = Multibase(key, "legacy")
          BY <4>1, <4>3
        <4>5. c.signature.by \in PlatformKeys
          <5>1. Signed(c)
            BY <1>0, <4>2 DEF IssuerInv, IssuerTypes
          <5> QED BY <4>4, <5>1 DEF Signed, Multibase
        <4> QED BY <1>0, <3>2, <4>2, <4>5 DEF IssuerInv, SignedRevocations
      <3>3. Heard(call')
        BY <2>1, <3>1, <3>2 DEF Heard
      <3> QED BY <2>1, <3>1, <3>3, CallMovesOn
    <2>3. CASE PyVerifyStatusCredential(c, Verify, clock) # "valid"
      <3>1. /\ call'.pending = Tail(call.pending) /\ call'.running = call.running
            /\ DOMAIN call' = DOMAIN call
            /\ call'.listed = call.listed /\ call'.read = call.read
            /\ call'.status = call.status /\ call'.revoked = call.revoked
        BY <1>3, <2>1, <2>3 DEF ReadStatusV1, CALL
      <3>2. Heard(call')
        BY <2>1, <3>1 DEF Heard
      <3> QED BY <2>1, <3>1, <3>2, CallMovesOn
    <2> QED BY <2>2, <2>3
  <1>4. CASE ReadBitstringList
    <2> DEFINE entry == Head(call.pending)
    <2>1. /\ call.running /\ CALL \subseteq DOMAIN call /\ Heard(call) /\ call.pending # <<>>
          /\ entry \in Entries /\ entry.type = "BitstringStatusListEntry"
          /\ UNCHANGED <<issuerVars, lists, returned>>
      BY <1>1, <1>4 DEF ReadBitstringList
    <2>2. PICK url \in entry.url : \E reading \in CheckBitstringEntry(entry, lists[url]) :
            call' = [call EXCEPT
              !.pending = Tail(@),
              !.revoked = @ \/ (reading.set /\ reading.statusPurpose = "revocation"),
              !.sources.bitstringStatusList = "read",
              !.read = @ \cup {reading.statusPurpose}]
      BY <1>4 DEF ReadBitstringList
    <2>3. PICK reading \in CheckBitstringEntry(entry, lists[url]) :
            call' = [call EXCEPT
              !.pending = Tail(@),
              !.revoked = @ \/ (reading.set /\ reading.statusPurpose = "revocation"),
              !.sources.bitstringStatusList = "read",
              !.read = @ \cup {reading.statusPurpose}]
      BY <2>2
    <2> HIDE DEF entry
    <2>4. reading.statusPurpose = url /\ (reading.set <=> lists[url].own)
      BY <1>0, <2>1, ReadingTells
    <2>5. /\ call'.pending = Tail(call.pending) /\ call'.running = call.running
          /\ DOMAIN call' = DOMAIN call
          /\ call'.listed = call.listed /\ call'.read = call.read \cup {reading.statusPurpose}
          /\ call'.status = call.status
          /\ call'.revoked
               = (call.revoked \/ (reading.set /\ reading.statusPurpose = "revocation"))
      BY <2>1, <2>3 DEF CALL
    <2>6. "revocation" \in call.listed => lists["revocation"].own
      BY <1>0, <2>1 DEF CallHears
    <2>7. lists["revocation"].own => standing.status = "revoked"
      BY <1>0 DEF ListsTell
    <2>8. call'.revoked <=> call.revoked \/ (url = "revocation" /\ lists["revocation"].own)
      BY <2>4, <2>5
    <2>9. Heard(call')
      BY <2>1, <2>4, <2>5, <2>6, <2>7, <2>8 DEF Heard
    <2> QED BY <2>1, <2>5, <2>9, CallMovesOn
  <1>5. CASE EntryFails
    <2>1. /\ call.running /\ CALL \subseteq DOMAIN call /\ Heard(call) /\ call.pending # <<>>
          /\ UNCHANGED <<issuerVars, lists, returned>>
      BY <1>1, <1>5 DEF EntryFails
    <2>2. /\ call'.pending = Tail(call.pending) /\ call'.running = call.running
          /\ DOMAIN call' = DOMAIN call
          /\ call'.listed = call.listed /\ call'.read = call.read
          /\ call'.status = call.status /\ call'.revoked = call.revoked
      BY <1>5, <2>1 DEF EntryFails, CALL
    <2>3. Heard(call')
      BY <2>1, <2>2 DEF Heard
    <2> QED BY <2>1, <2>2, <2>3, CallMovesOn
  <1>6. CASE Return
    <2>1. /\ call.running /\ UNCHANGED <<issuerVars, lists>> /\ call' = Idle
          /\ returned'.revoked = call.revoked /\ returned'.status = Combined(call)
          /\ returned'.listed = call.listed /\ returned'.read = call.read
      BY <1>6 DEF Return
    <2>2. IssuerInv' /\ standing' = standing
      BY <1>0, <2>1, IssuerNextInv DEF issuerVars
    <2>3. Heard(call)
      BY <1>0, <2>1 DEF CallHears
    <2>4. call.revoked <=> Combined(call) = "revoked"
      BY <2>3 DEF Combined, Heard
    <2>5. Heard(returned')
      BY <2>1, <2>3, <2>4 DEF Heard
    <2>6. ReturnedTells'
      BY <2>1, <2>2, <2>4, <2>5 DEF ReturnedTells, Heard
    <2>7. CallHears'
      BY <2>1 DEF CallHears, Idle
    <2>8. ListsTell'
      BY <1>0, <2>1, <2>2 DEF ListsTell
    <2> QED BY <2>2, <2>6, <2>7, <2>8 DEF Reported
  <1>7. CASE IssuerStep \/ UNCHANGED vars
    <2>1. /\ IssuerNext \/ UNCHANGED issuerVars
          /\ UNCHANGED <<lists, call, returned>>
      BY <1>7 DEF IssuerStep, vars
    <2>2. standing.status = "revoked" => standing'.status = "revoked"
      BY <1>0, <2>1, IssuerNextInv DEF IssuerMovesOn
    <2>3. ListsTell'
      BY <1>0, <2>1, <2>2 DEF ListsTell
    <2> QED BY <2>1, <2>3, HeardStays
  <1> QED BY <1>2, <1>3, <1>4, <1>5, <1>6, <1>7, PublishReported DEF Next

LEMMA AlwaysReported == Spec => []Reported
  <1>1. Reported /\ [Next]_vars => Reported'
    BY NextReported
  <1> QED BY <1>1, InitReported, PTL DEF Spec

(* check_vc_status never reports a certificate revoked that is not, where  *)
(* the platform's keys are pinned: not for a neighbour's bit, for whatever *)
(* list of whatever length, nor for another issuer's word.                 *)
THEOREM RevokedAnswersAreTrue == Spec => []RevokedIsTrue
  <1>1. Reported => RevokedIsTrue
    BY DEF Reported, ReturnedTells, Heard, RevokedIsTrue
  <1> QED BY <1>1, AlwaysReported, PTL

(* "Revoked on either channel => revoked" (vc.py), for all exports, lists  *)
(* and orders of the requests.                                             *)
THEOREM RevocationsAreReported == Spec => []RevocationReported
  <1>1. Reported => RevocationReported
    BY DEF Reported, ReturnedTells, Heard, RevocationReported
  <1> QED BY <1>1, AlwaysReported, PTL

-----------------------------------------------------------------------------
(* One credential, three implementations, two gates, four fronts.          *)

AtMostOne(S) == \A one, other \in S : one = other

(* What can be shown to a verifier.                                        *)
Shown(c) ==
    \/ c = Malformed
    \/ c.schema = "jiaozi.status.v1" /\ c.payload.status \in CertLiveStatus

(* The two SDKs verify alike, with the same options.                       *)
LEMMA SdksVerifyAlike ==
    ASSUME NEW c, Shown(c), NEW clock, NEW opts, NEW verify,
           opts.now = verify.now, opts.expectedIssuer = verify.expectedIssuer,
           opts.trustedKeys = verify.trustedKeys, opts.minSerial = verify.minSerial,
           AtMostOne(verify.now), "" \notin verify.expectedIssuer
    PROVE  PyVerifyStatusCredential(c, verify, clock) = VerifyStatusCredential(c, opts, clock)
  <1>1. PyIsStatusCredentialV1(c) <=> IsStatusCredentialV1(c)
    <2>1. ASSUME c = Malformed PROVE c.schema # "jiaozi.status.v1"
      BY <2>1 DEF Malformed
    <2> QED BY <2>1 DEF Shown, PyIsStatusCredentialV1, IsStatusCredentialV1
  <1>2. PyExpired(c.payload, verify, clock)
          <=> (IF opts.now = {} THEN clock ELSE CHOOSE t \in opts.now : TRUE) > c.payload.expiresAt
    <2>1. CASE verify.now = {}
      BY <2>1 DEF PyExpired
    <2>2. CASE verify.now # {}
      <3> DEFINE time == CHOOSE t \in opts.now : TRUE
      <3>1. time \in verify.now
        BY <2>2
      <3>2. \A t \in verify.now : t = time
        BY <3>1 DEF AtMostOne
      <3> HIDE DEF time
      <3>3. PyExpired(c.payload, verify, clock) <=> time > c.payload.expiresAt
        BY <2>2, <3>1, <3>2 DEF PyExpired
      <3> QED BY <2>2, <3>3 DEF time
    <2> QED BY <2>1, <2>2
  <1>3. opts.expectedIssuer \ {""} = verify.expectedIssuer
    OBVIOUS
  <1> QED BY <1>1, <1>2, <1>3 DEF PyVerifyStatusCredential, VerifyStatusCredential

(* The first of four lists of denials that is not empty decides.           *)
LEMMA FirstDenial ==
    ASSUME NEW D1, NEW D2, NEW D3, NEW D4, NEW denials, denials = <<D1, D2, D3, D4>>,
           NEW first,
           first = {i \in DOMAIN denials :
                      denials[i] # {} /\ \A j \in 1..(i - 1) : denials[j] = {}}
    PROVE  /\ D1 # {} => first = {1}
           /\ D1 = {} /\ D2 # {} => first = {2}
           /\ D1 = {} /\ D2 = {} /\ D3 # {} => first = {3}
           /\ D1 = {} /\ D2 = {} /\ D3 = {} /\ D4 # {} => first = {4}
           /\ D1 = {} /\ D2 = {} /\ D3 = {} /\ D4 = {} => first = {}
           /\ denials[1] = D1 /\ denials[2] = D2 /\ denials[3] = D3 /\ denials[4] = D4
  <1>1. /\ DOMAIN denials = {1, 2, 3, 4}
        /\ denials[1] = D1 /\ denials[2] = D2 /\ denials[3] = D3 /\ denials[4] = D4
    OBVIOUS
  <1>2. 1..(1 - 1) = {} /\ 1..(2 - 1) = {1} /\ 1..(3 - 1) = {1, 2} /\ 1..(4 - 1) = {1, 2, 3}
    OBVIOUS
  <1>3. /\ 1 \in first <=> D1 # {}
        /\ 2 \in first <=> D1 = {} /\ D2 # {}
        /\ 3 \in first <=> D1 = {} /\ D2 = {} /\ D3 # {}
        /\ 4 \in first <=> D1 = {} /\ D2 = {} /\ D3 = {} /\ D4 # {}
    BY <1>1, <1>2
  <1>4. first \subseteq {1, 2, 3, 4}
    BY <1>1
  <1> QED BY <1>1, <1>3, <1>4

(* What Python denies a verified payload for is what JavaScript denies it  *)
(* for first.                                                              *)
DenialOf(o, payload, boundary) ==
    IF payload.status \in {"revoked", "suspended"} THEN payload.status
    ELSE IF payload.status # "active" THEN "invalid_credential"
    ELSE IF RankOf(payload.trustLevel) < TRUST_RANK[o.minLevel] THEN "insufficient_level"
    ELSE IF OutOfBoundary(o, boundary) THEN "behavior_out_of_boundary"
    ELSE "allowed"

FirstOf(denials) ==
    LET first == {i \in DOMAIN denials :
                    denials[i] # {} /\ \A j \in 1..(i - 1) : denials[j] = {}}
    IN  IF first = {} THEN "allowed"
        ELSE CHOOSE code \in UNION {denials[i] : i \in first} : TRUE

(* With one reason in each list, the first reason there is.               *)
LEMMA FirstReason ==
    ASSUME NEW D1, NEW D2, NEW D3, NEW D4
    PROVE  /\ \A code : D1 = {code} => FirstOf(<<D1, D2, D3, D4>>) = code
           /\ \A code : D1 = {} /\ D2 = {code} => FirstOf(<<D1, D2, D3, D4>>) = code
           /\ \A code : D1 = {} /\ D2 = {} /\ D3 = {code} => FirstOf(<<D1, D2, D3, D4>>) = code
           /\ \A code : D1 = {} /\ D2 = {} /\ D3 = {} /\ D4 = {code}
                => FirstOf(<<D1, D2, D3, D4>>) = code
           /\ D1 = {} /\ D2 = {} /\ D3 = {} /\ D4 = {}
                => FirstOf(<<D1, D2, D3, D4>>) = "allowed"
  <1> DEFINE denials == <<D1, D2, D3, D4>>
             first == {i \in DOMAIN denials :
                         denials[i] # {} /\ \A j \in 1..(i - 1) : denials[j] = {}}
             all == UNION {denials[i] : i \in first}
  <1>1. FirstOf(denials) = IF first = {} THEN "allowed" ELSE CHOOSE code \in all : TRUE
    BY DEF FirstOf
  <1>2. denials = <<D1, D2, D3, D4>>
    OBVIOUS
  <1>3. first = {i \in DOMAIN denials :
                   denials[i] # {} /\ \A j \in 1..(i - 1) : denials[j] = {}}
    OBVIOUS
  <1> HIDE DEF denials, first
  <1>4. /\ D1 # {} => first = {1}
        /\ D1 = {} /\ D2 # {} => first = {2}
        /\ D1 = {} /\ D2 = {} /\ D3 # {} => first = {3}
        /\ D1 = {} /\ D2 = {} /\ D3 = {} /\ D4 # {} => first = {4}
        /\ D1 = {} /\ D2 = {} /\ D3 = {} /\ D4 = {} => first = {}
        /\ denials[1] = D1 /\ denials[2] = D2 /\ denials[3] = D3 /\ denials[4] = D4
    BY <1>2, <1>3, FirstDenial
  <1>5. ASSUME NEW i, first = {i}, NEW code, denials[i] = {code}
        PROVE  FirstOf(denials) = code
    <2>1. all = {code}
      BY <1>5
    <2> HIDE DEF all
    <2>2. (CHOOSE one \in all : TRUE) \in all
      BY <2>1
    <2>3. FirstOf(denials) = CHOOSE one \in all : TRUE
      BY <1>1, <1>5
    <2> QED BY <2>1, <2>2, <2>3
  <1>6. \A code : D1 = {code} => FirstOf(denials) = code
    BY <1>4, <1>5
  <1>7. \A code : D1 = {} /\ D2 = {code} => FirstOf(denials) = code
    BY <1>4, <1>5
  <1>8. \A code : D1 = {} /\ D2 = {} /\ D3 = {code} => FirstOf(denials) = code
    BY <1>4, <1>5
  <1>9. \A code : D1 = {} /\ D2 = {} /\ D3 = {} /\ D4 = {code} => FirstOf(denials) = code
    BY <1>4, <1>5
  <1>10. D1 = {} /\ D2 = {} /\ D3 = {} /\ D4 = {} => FirstOf(denials) = "allowed"
    BY <1>1, <1>4
  <1> QED BY <1>2, <1>6, <1>7, <1>8, <1>9, <1>10

LEMMA DenialsAgree ==
    ASSUME NEW o, NEW payload, NEW boundary, NEW gate,
           gate.requiredRank = TRUST_RANK[o.minLevel], gate.behaviors = o.behaviors
    PROVE  FirstOf(PyDenials(gate, payload, boundary)) = DenialOf(o, payload, boundary)
  <1> DEFINE D1 == IF payload.status \in {"revoked", "suspended"} THEN {payload.status} ELSE {}
             D2 == IF payload.status = "active" THEN {} ELSE {"invalid_credential"}
             D3 == IF RankOf(payload.trustLevel) < gate.requiredRank
                   THEN {"insufficient_level"} ELSE {}
             D4 == IF \E permitted \in boundary : gate.behaviors \ permitted # {}
                   THEN {"behavior_out_of_boundary"} ELSE {}
  <1>1. PyDenials(gate, payload, boundary) = <<D1, D2, D3, D4>>
    BY DEF PyDenials
  <1>2. D4 = IF OutOfBoundary(o, boundary) THEN {"behavior_out_of_boundary"} ELSE {}
    BY DEF OutOfBoundary
  <1>3. D3 = IF RankOf(payload.trustLevel) < TRUST_RANK[o.minLevel]
             THEN {"insufficient_level"} ELSE {}
    OBVIOUS
  <1> HIDE DEF D3, D4
  <1>4. CASE payload.status \in {"revoked", "suspended"}
    <2>1. D1 = {payload.status}
      BY <1>4
    <2> HIDE DEF D1, D2
    <2>2. FirstOf(<<D1, D2, D3, D4>>) = payload.status
      BY <2>1, FirstReason
    <2> QED BY <1>1, <1>4, <2>2 DEF DenialOf
  <1>5. CASE payload.status \notin {"revoked", "suspended", "active"}
    <2>1. D1 = {} /\ D2 = {"invalid_credential"}
      BY <1>5
    <2> HIDE DEF D1, D2
    <2>2. FirstOf(<<D1, D2, D3, D4>>) = "invalid_credential"
      BY <2>1, FirstReason
    <2> QED BY <1>1, <1>5, <2>2 DEF DenialOf
  <1>6. CASE payload.status = "active"
    <2>1. D1 = {} /\ D2 = {}
      BY <1>6
    <2> HIDE DEF D1, D2
    <2>2. CASE RankOf(payload.trustLevel) < TRUST_RANK[o.minLevel]
      <3>1. D3 = {"insufficient_level"}
        BY <1>3, <2>2
      <3>2. FirstOf(<<D1, D2, D3, D4>>) = "insufficient_level"
        BY <2>1, <3>1, FirstReason
      <3> QED BY <1>1, <1>6, <2>2, <3>2 DEF DenialOf
    <2>3. CASE ~(RankOf(payload.trustLevel) < TRUST_RANK[o.minLevel])
      <3>1. D3 = {}
        BY <1>3, <2>3
      <3>2. CASE OutOfBoundary(o, boundary)
        <4>1. D4 = {"behavior_out_of_boundary"}
          BY <1>2, <3>2
        <4>2. FirstOf(<<D1, D2, D3, D4>>) = "behavior_out_of_boundary"
          BY <2>1, <3>1, <4>1, FirstReason
        <4> QED BY <1>1, <1>6, <2>3, <3>2, <4>2 DEF DenialOf
      <3>3. CASE ~OutOfBoundary(o, boundary)
        <4>1. D4 = {}
          BY <1>2, <3>3
        <4>2. FirstOf(<<D1, D2, D3, D4>>) = "allowed"
          BY <2>1, <3>1, <4>1, FirstReason
        <4> QED BY <1>1, <1>6, <2>3, <3>3, <4>2 DEF DenialOf
      <3> QED BY <3>2, <3>3
    <2> QED BY <2>2, <2>3
  <1> QED BY <1>4, <1>5, <1>6

(* Where an empty expectedIssuer was passed, the SDKs differ.              *)
IssuerIsNamed(o) == "" \notin o.verify.expectedIssuer

(* What the Python gate verifies with: the options of its making.          *)
GateOpts(o) ==
    [o.verify EXCEPT !.now = IF o.policy = "offline" THEN {0} ELSE @]

(* A gate holds its options, and pins and verifies as JavaScript does.     *)
LEMMA GateHoldsOptions ==
    ASSUME NEW o \in GateOptions, NEW gate \in PyRequireTrust(o)
    PROVE  /\ gate.policy = o.policy /\ gate.requiredRank = TRUST_RANK[o.minLevel]
           /\ gate.behaviors = o.behaviors /\ gate.verifyOpts = o.verify
           /\ gate.pinnedKeys = Pinned(o)
  <1>1. gate = [policy       |-> o.policy,
                requiredRank |-> TRUST_RANK[o.minLevel],
                behaviors    |-> o.behaviors,
                pinnedKeys   |-> {ToStandardEd25519Multibase(key) : key \in o.issuerKeys},
                verifyOpts   |-> o.verify]
    <2>1. o.policy # "online" /\ o.issuerKeys = {} => PyRequireTrust(o) = {}
      BY DEF PyRequireTrust
    <2>2. ~(o.policy # "online" /\ o.issuerKeys = {})
      BY <2>1
    <2> QED BY <2>2, Zenon DEF PyRequireTrust
  <1> QED BY <1>1 DEF Pinned

LEMMA GatesVerifyAlike ==
    ASSUME NEW o \in GateOptions, NEW gate \in PyRequireTrust(o),
           NEW c, NEW clock, IssuerIsNamed(o), Shown(c)
    PROVE  /\ PyUnpinned(gate, c) <=> PinMismatch(o, c)
           /\ PyVerifyStatusCredential(c, GateOpts(o), clock)
                = VerifyStatusCredential(c, VerifyOptions(o, o.verify.minSerial), clock)
  <1> DEFINE verify == GateOpts(o)
             opts == VerifyOptions(o, o.verify.minSerial)
  <1>1. {"now", "expectedIssuer", "trustedKeys", "minSerial"} \subseteq DOMAIN o.verify
        /\ AtMostOne(o.verify.now)
    BY GateOptionsAreOptions DEF OptionRecord, AtMostOne
  <1>2. /\ verify.now = IF o.policy = "offline" THEN {0} ELSE o.verify.now
        /\ verify.expectedIssuer = o.verify.expectedIssuer
        /\ verify.trustedKeys = o.verify.trustedKeys /\ verify.minSerial = o.verify.minSerial
    BY <1>1 DEF GateOpts
  <1>3. /\ opts.now = verify.now /\ opts.expectedIssuer = verify.expectedIssuer
        /\ opts.trustedKeys = verify.trustedKeys /\ opts.minSerial = verify.minSerial
    BY <1>1, <1>2 DEF VerifyOptions
  <1> HIDE DEF opts, verify
  <1>4. AtMostOne(verify.now)
    <2>1. CASE o.policy = "offline"
      BY <1>2, <2>1 DEF AtMostOne
    <2>2. CASE o.policy # "offline"
      BY <1>1, <1>2, <2>2
    <2> QED BY <2>1, <2>2
  <1>5. PyVerifyStatusCredential(c, verify, clock) = VerifyStatusCredential(c, opts, clock)
    <2>1. "" \notin verify.expectedIssuer
      BY <1>2 DEF IssuerIsNamed
    <2> QED BY <1>3, <1>4, <2>1, SdksVerifyAlike
  <1>6. PyUnpinned(gate, c) <=> PinMismatch(o, c)
    <2>1. ASSUME c = Malformed PROVE c.schema # "jiaozi.status.v1"
      BY <2>1 DEF Malformed
    <2> QED BY <2>1, GateHoldsOptions
            DEF PyUnpinned, PinMismatch, Shown, PyIsStatusCredentialV1, IsStatusCredentialV1
  <1> QED BY <1>5, <1>6 DEF opts, verify

(* Gates of the same options decide alike.                                 *)
LEMMA GatesDecideAlike ==
    ASSUME NEW o \in GateOptions, NEW gate \in PyRequireTrust(o),
           NEW c, NEW boundary, NEW clock,
           IssuerIsNamed(o), Shown(c) \/ c = NoCredential
    PROVE  PyCheck(gate, c, boundary, clock)
             = Verdict(o, o.verify.minSerial, c, boundary, clock)
  <1> DEFINE verify == IF gate.policy = "offline"
                       THEN [gate.verifyOpts EXCEPT !.now = {0}] ELSE gate.verifyOpts
             opts == VerifyOptions(o, o.verify.minSerial)
             result == PyVerifyStatusCredential(c, verify, clock)
  <1>1. verify = GateOpts(o)
    <2>1. o.verify = [field \in DOMAIN o.verify |-> o.verify[field]]
      BY GateOptionsAreOptions DEF OptionRecord
    <2> QED BY <2>1, GateHoldsOptions DEF GateOpts
  <1>6. CASE c = NoCredential
    BY <1>6 DEF PyCheck, Verdict
  <1>7. CASE c # NoCredential
    <2>1. Shown(c)
      BY <1>7
    <2> HIDE DEF opts, verify
    <2>2. result = VerifyStatusCredential(c, opts, clock)
      BY <1>1, <2>1, GatesVerifyAlike DEF opts
    <2>3. PyUnpinned(gate, c) <=> PinMismatch(o, c)
      BY <2>1, GatesVerifyAlike
    <2>4. FirstOf(PyDenials(gate, c.payload, boundary)) = DenialOf(o, c.payload, boundary)
      BY GateHoldsOptions, DenialsAgree
    <2>5. PyCheck(gate, c, boundary, clock) =
            IF PyUnpinned(gate, c) THEN "invalid_credential"
            ELSE IF result = "expired" THEN "expired"
            ELSE IF result # "valid" THEN "invalid_credential"
            ELSE FirstOf(PyDenials(gate, c.payload, boundary))
      BY <1>7 DEF PyCheck, FirstOf, verify
    <2>6. Verdict(o, o.verify.minSerial, c, boundary, clock) =
            IF PinMismatch(o, c) THEN "invalid_credential"
            ELSE IF VerifyStatusCredential(c, opts, clock) = "expired" THEN "expired"
            ELSE IF VerifyStatusCredential(c, opts, clock) # "valid" THEN "invalid_credential"
            ELSE DenialOf(o, c.payload, boundary)
      BY <1>7 DEF Verdict, DenialOf, opts
    <2> DEFINE denied == FirstOf(PyDenials(gate, c.payload, boundary))
               alike == VerifyStatusCredential(c, opts, clock)
    <2> HIDE DEF result, denied, alike
    <2>7. result = alike
      BY <2>2 DEF alike
    <2>8. denied = DenialOf(o, c.payload, boundary)
      BY <2>4 DEF denied
    <2>9. PyCheck(gate, c, boundary, clock) =
            IF PyUnpinned(gate, c) THEN "invalid_credential"
            ELSE IF alike = "expired" THEN "expired"
            ELSE IF alike # "valid" THEN "invalid_credential"
            ELSE denied
      BY <2>5, <2>7 DEF denied
    <2>10. Verdict(o, o.verify.minSerial, c, boundary, clock) =
            IF PyUnpinned(gate, c) THEN "invalid_credential"
            ELSE IF alike = "expired" THEN "expired"
            ELSE IF alike # "valid" THEN "invalid_credential"
            ELSE denied
      BY <2>3, <2>6, <2>8 DEF alike
    <2>11. CASE PyUnpinned(gate, c)
      BY <2>9, <2>10, <2>11
    <2>12. CASE ~PyUnpinned(gate, c)
      <3>1. PyCheck(gate, c, boundary, clock) =
              IF alike = "expired" THEN "expired"
              ELSE IF alike # "valid" THEN "invalid_credential" ELSE denied
        BY <2>9, <2>12
      <3>2. Verdict(o, o.verify.minSerial, c, boundary, clock) =
              IF alike = "expired" THEN "expired"
              ELSE IF alike # "valid" THEN "invalid_credential" ELSE denied
        BY <2>10, <2>12
      <3>3. CASE alike = "expired"
        BY <3>1, <3>2, <3>3
      <3>4. CASE alike # "expired" /\ alike # "valid"
        BY <3>1, <3>2, <3>4
      <3>5. CASE alike # "expired" /\ alike = "valid"
        BY <3>1, <3>2, <3>5
      <3> QED BY <3>3, <3>4, <3>5
    <2> QED BY <2>11, <2>12
  <1> QED BY <1>6, <1>7
-----------------------------------------------------------------------------
(* The referee.                                                            *)

(* The referee verifies as the reference does, with the same options.      *)
LEMMA RefereeVerifiesAlike ==
    ASSUME NEW c, Shown(c), NEW opts, NEW clock,
           AtMostOne(opts.now), AtMostOne(opts.expectedIssuer)
    PROVE  VerifyCredential(c, opts, clock) = VerifyStatusCredential(c, opts, clock)
  <1>1. CheckShape(c) <=> IsStatusCredentialV1(c)
    <2>1. ASSUME c = Malformed PROVE c.schema # "jiaozi.status.v1"
      BY <2>1 DEF Malformed
    <2> QED BY <2>1 DEF Shown, CheckShape, IsStatusCredentialV1, CertLiveStatus
  <1>2. VerifySignature(c.publicKeyMultibase, c.payload, c.signature)
          <=> VerifyWithMultibase(c.publicKeyMultibase, c.payload, c.signature)
    BY DEF VerifySignature, VerifyWithMultibase, SignWithPkcs8
  <1>3. (\E t \in (IF opts.now = {} THEN {clock} ELSE opts.now) : t > c.payload.expiresAt)
          <=> (IF opts.now = {} THEN clock ELSE CHOOSE t \in opts.now : TRUE) > c.payload.expiresAt
    <2>1. CASE opts.now = {}
      BY <2>1
    <2>2. CASE opts.now # {}
      <3> DEFINE time == CHOOSE t \in opts.now : TRUE
      <3>1. time \in opts.now
        BY <2>2
      <3>2. \A t \in opts.now : t = time
        BY <3>1 DEF AtMostOne
      <3> HIDE DEF time
      <3>3. (\E t \in (IF opts.now = {} THEN {clock} ELSE opts.now) : t > c.payload.expiresAt)
              <=> time > c.payload.expiresAt
        BY <2>2, <3>1, <3>2
      <3> QED BY <2>2, <3>3 DEF time
    <2> QED BY <2>1, <2>2
  <1>4. opts.expectedIssuer \notin {{}, {""}, {c.payload.issuer}}
          <=> \E issuer \in opts.expectedIssuer \ {""} : c.payload.issuer # issuer
    <2>1. CASE opts.expectedIssuer = {}
      BY <2>1
    <2>2. CASE opts.expectedIssuer # {}
      <3>1. PICK issuer \in opts.expectedIssuer : TRUE
        BY <2>2
      <3>2. opts.expectedIssuer = {issuer}
        BY <3>1 DEF AtMostOne
      <3> QED BY <3>2
    <2> QED BY <2>1, <2>2
  <1> QED BY <1>1, <1>2, <1>3, <1>4 DEF VerifyCredential, VerifyStatusCredential

(* Each vector meets its expectation, whatever the test key and the TTL.   *)
LEMMA VectorsMeetExpectations ==
    ASSUME NEW key, NEW otherKey, key # otherKey
    PROVE  /\ StatusSelfCheck(StatusVectors(key, otherKey))
           /\ RunVectors(StatusVectors(key, otherKey))
  <1> DEFINE live == TestCredential(key, Live)
             revoked == TestCredential(key, Revoked)
             tampered == [revoked EXCEPT !.payload.status = "active"]
  <1>1. /\ live.schema = "jiaozi.status.v1" /\ live.publicKeyMultibase = Multibase(key, "legacy")
        /\ live.signature = SignWithPkcs8(key, live.payload)
        /\ live.payload.status = "active"
        /\ live.payload.expiresAt = 0 + Ttl /\ live.payload.serial = 0
    BY DEF TestCredential, SignStatusPayload, BuildStatusPayload, Live
  <1>2. /\ revoked.schema = "jiaozi.status.v1" /\ revoked.publicKeyMultibase = Multibase(key, "legacy")
        /\ revoked.signature = SignWithPkcs8(key, revoked.payload)
        /\ revoked.payload.status = "revoked"
        /\ revoked.payload.expiresAt = 0 + Ttl /\ revoked.payload.serial = 0
    BY DEF TestCredential, SignStatusPayload, BuildStatusPayload, Revoked
  <1>3. /\ tampered.schema = "jiaozi.status.v1"
        /\ tampered.publicKeyMultibase = Multibase(key, "legacy")
        /\ tampered.payload.status = "active"
        /\ tampered.signature = SignWithPkcs8(key, revoked.payload)
        /\ tampered.payload # revoked.payload
    BY DEF TestCredential, SignStatusPayload, BuildStatusPayload, Revoked
  <1> HIDE DEF live, revoked, tampered
  <1>4. /\ Multibase(key, "legacy").form = "legacy" /\ Multibase(key, "legacy").key = key
        /\ Multibase(key, "legacy") # Multibase(otherKey, "legacy")
    BY DEF Multibase
  <1>5. \A one, other : SignWithPkcs8(key, one) = SignWithPkcs8(key, other) => one = other
    BY DEF SignWithPkcs8
  <1> DEFINE Met(v) == /\ AtMostOne(v.options.now) /\ AtMostOne(v.options.expectedIssuer)
                       /\ Shown(v.credential)
                       /\ VerifyStatusCredential(v.credential, v.options, 0) = v.expect
  <1>6. ASSUME NEW c, c.schema = "jiaozi.status.v1", c.payload.status \in CertLiveStatus,
               c.publicKeyMultibase = Multibase(key, "legacy"),
               NEW at \in Int, NEW opts, NEW expect,
               DOMAIN opts = DOMAIN NoOptions, opts.expectedIssuer = {},
               expect = IF \E keys \in opts.trustedKeys : c.publicKeyMultibase \notin keys
                          THEN "untrusted_key"
                        ELSE IF ~VerifyWithMultibase(c.publicKeyMultibase, c.payload, c.signature)
                          THEN "bad_signature"
                        ELSE IF at > c.payload.expiresAt THEN "expired"
                        ELSE IF \E floor \in opts.minSerial : c.payload.serial < floor
                          THEN "serial_regression" ELSE "valid"
        PROVE  Met(StatusVector(c, at, opts, expect))
    <2> DEFINE v == StatusVector(c, at, opts, expect)
    <2>1. /\ v.credential = c /\ v.expect = expect /\ v.options.now = {at}
          /\ v.options.expectedIssuer = {}
          /\ v.options.trustedKeys = opts.trustedKeys /\ v.options.minSerial = opts.minSerial
      BY <1>6 DEF StatusVector, NoOptions
    <2> HIDE DEF v
    <2>2. Shown(c)
      BY <1>6 DEF Shown
    <2>3. (CHOOSE t \in {at} : TRUE) = at
      OBVIOUS
    <2>4. VerifyStatusCredential(c, v.options, 0) = expect
      BY <1>6, <2>1, <2>3 DEF VerifyStatusCredential, IsStatusCredentialV1
    <2> QED BY <2>1, <2>2, <2>4 DEF AtMostOne, v
  <1>7. \A v \in StatusVectors(key, otherKey) : Met(v)
    <2> DEFINE pinned == [NoOptions EXCEPT !.trustedKeys = {{Multibase(otherKey, "legacy")}}]
               floored == [NoOptions EXCEPT !.minSerial = {0 + 1}]
    <2>1. /\ DOMAIN NoOptions = DOMAIN pinned /\ DOMAIN floored = DOMAIN NoOptions
          /\ NoOptions.expectedIssuer = {} /\ pinned.expectedIssuer = {}
          /\ floored.expectedIssuer = {}
          /\ NoOptions.trustedKeys = {} /\ NoOptions.minSerial = {}
          /\ pinned.trustedKeys = {{Multibase(otherKey, "legacy")}}
          /\ floored.trustedKeys = {} /\ floored.minSerial = {1}
      BY DEF NoOptions
    <2>2. StatusVectors(key, otherKey) =
            {StatusVector(live, 0, NoOptions, "valid"),
             StatusVector(revoked, 0, NoOptions, "valid"),
             StatusVector(live, Ttl + 1, NoOptions, "expired"),
             StatusVector(tampered, 0, NoOptions, "bad_signature"),
             StatusVector(live, 0, floored, "serial_regression"),
             StatusVector(live, 0, pinned, "untrusted_key")}
      BY DEF StatusVectors, live, revoked, tampered
    <2> HIDE DEF pinned, floored, Met
    <2>3. VerifyWithMultibase(live.publicKeyMultibase, live.payload, live.signature)
      BY <1>1, <1>4 DEF VerifyWithMultibase
    <2>4. VerifyWithMultibase(revoked.publicKeyMultibase, revoked.payload, revoked.signature)
      BY <1>2, <1>4 DEF VerifyWithMultibase
    <2>5. ~VerifyWithMultibase(tampered.publicKeyMultibase, tampered.payload, tampered.signature)
      BY <1>3, <1>4, <1>5 DEF VerifyWithMultibase
    <2>6. Ttl \in Nat
      BY TtlIsTime
    <2>7. Met(StatusVector(live, 0, NoOptions, "valid"))
      BY <1>1, <1>6, <2>1, <2>3, <2>6 DEF CertLiveStatus
    <2>8. Met(StatusVector(revoked, 0, NoOptions, "valid"))
      BY <1>2, <1>6, <2>1, <2>4, <2>6 DEF CertLiveStatus
    <2>9. Met(StatusVector(live, Ttl + 1, NoOptions, "expired"))
      BY <1>1, <1>6, <2>1, <2>3, <2>6 DEF CertLiveStatus
    <2>10. Met(StatusVector(tampered, 0, NoOptions, "bad_signature"))
      BY <1>3, <1>6, <2>1, <2>5, <2>6 DEF CertLiveStatus
    <2>11. Met(StatusVector(live, 0, floored, "serial_regression"))
      BY <1>1, <1>6, <2>1, <2>3, <2>6 DEF CertLiveStatus
    <2>12. Met(StatusVector(live, 0, pinned, "untrusted_key"))
      <3>1. live.publicKeyMultibase \notin {Multibase(otherKey, "legacy")}
        BY <1>1, <1>4
      <3>2. \E keys \in pinned.trustedKeys : live.publicKeyMultibase \notin keys
        BY <2>1, <3>1
      <3> QED BY <1>1, <1>6, <2>1, <3>2 DEF CertLiveStatus
    <2> QED BY <2>2, <2>7, <2>8, <2>9, <2>10, <2>11, <2>12
  <1>8. \A v \in StatusVectors(key, otherKey) :
          VerifyCredential(v.credential, v.options, 0) = VerifyStatusCredential(v.credential, v.options, 0)
    BY <1>7, RefereeVerifiesAlike
  <1> QED BY <1>7, <1>8 DEF StatusSelfCheck, RunVectors

(* "Semantics are a line-for-line port of gdid-sdk-js require-trust.ts":   *)
(* the two SDKs build the same gates, which decide alike on every          *)
(* credential there is, and the referee verifies it as they do.            *)
THEOREM PortsDecideAlike == Spec => []PortDecidesAlike
  <1>1. Reported => PortDecidesAlike
    <2> SUFFICES ASSUME Reported, NEW o \in GateOptions
                 PROVE  DecideAlike(o) /\ RefereeDecidesAlike(o)
      BY DEF PortDecidesAlike
    <2>1. \A c \in issued \cup {Malformed} : Shown(c)
      BY DEF Reported, IssuerInv, IssuerTypes, Signed, Shown
    <2>2. AtMostOne(o.verify.now) /\ AtMostOne(o.verify.expectedIssuer)
      BY GateOptionsAreOptions DEF OptionRecord, AtMostOne
    <2>3. Buildable(o) <=> PyRequireTrust(o) # {}
      BY DEF Buildable, PyRequireTrust
    <2>4. ASSUME NEW gate \in PyRequireTrust(o), NEW c \in issued \cup {NoCredential, Malformed},
                 NEW boundary, NEW clock, IssuerIsNamed(o)
          PROVE  PyCheck(gate, c, boundary, clock) =
                   Verdict(o, o.verify.minSerial, c, boundary, clock)
      <3>1. Shown(c) \/ c = NoCredential
        BY <2>1
      <3> QED BY <2>4, <3>1, GatesDecideAlike
    <2>5. ASSUME NEW c \in issued \cup {Malformed}, NEW clock
          PROVE  VerifyCredential(c, o.verify, clock) = VerifyStatusCredential(c, o.verify, clock)
      BY <2>1, <2>2, RefereeVerifiesAlike
    <2>6. DecideAlike(o)
      <3>1. SUFFICES ASSUME NEW gate \in PyRequireTrust(o),
                            NEW c \in issued \cup {NoCredential, Malformed},
                            NEW boundary \in {{}, {{"read"}}, {{"read", "write"}}},
                            NEW clock \in GateClock, "" \notin o.verify.expectedIssuer
                     PROVE  PyCheck(gate, c, boundary, clock) =
                              Verdict(o, o.verify.minSerial, c, boundary, clock)
        BY <2>3, Zenon DEF DecideAlike
      <3>2. IssuerIsNamed(o)
        BY <3>1 DEF IssuerIsNamed
      <3> QED BY <2>4, <3>2
    <2>7. RefereeDecidesAlike(o)
      BY <2>5, VectorsMeetExpectations DEF RefereeDecidesAlike
    <2> QED BY <2>6, <2>7
  <1> QED BY <1>1, AlwaysReported, PTL
-----------------------------------------------------------------------------
(* The fronts.                                                             *)

(* A header's text is found, in the case the framework hands it on.        *)
LEMMA HeadersAreFound ==
    ASSUME NEW request, NEW case
    PROVE  /\ PyPick(Delivered(request, case), "x-jiaozi-status") = request.status
           /\ PyPick(Delivered(request, case), "x-jiaozi-boundary") = request.boundary
           /\ case = "lower" =>
                /\ Pick(Delivered(request, case), "x-jiaozi-status") = request.status
                /\ Pick(Delivered(request, case), "x-jiaozi-boundary") = request.boundary
  <1>1. \A name : PyPick(Delivered(request, case), name)
          = {h.text : h \in {g \in Delivered(request, case) : g.name = name}}
    BY DEF PyPick
  <1>2. \A name : case = "lower" => Pick(Delivered(request, case), name)
          = {h.text : h \in {g \in Delivered(request, case) : g.name = name}}
    BY DEF Pick, Delivered, Header
  <1>3. {h.text : h \in {g \in Delivered(request, case) : g.name = "x-jiaozi-status"}} = request.status
    <2> DEFINE found == {g \in Delivered(request, case) : g.name = "x-jiaozi-status"}
    <2>1. \A g \in found : g.text \in request.status
      BY DEF Delivered, Header
    <2>2. ASSUME NEW text \in request.status
          PROVE  \E g \in found : g.text = text
      <3> DEFINE header == [name |-> "x-jiaozi-status", case |-> case, text |-> text]
      <3>1. header \in found
        BY DEF Delivered, Header
      <3>2. header.text = text
        OBVIOUS
      <3> QED BY <3>1, <3>2
    <2> HIDE DEF found
    <2>3. {h.text : h \in found} = request.status
      BY <2>1, <2>2
    <2> QED BY <2>3 DEF found
  <1>4. {h.text : h \in {g \in Delivered(request, case) : g.name = "x-jiaozi-boundary"}}
          = request.boundary
    <2> DEFINE found == {g \in Delivered(request, case) : g.name = "x-jiaozi-boundary"}
    <2>1. \A g \in found : g.text \in request.boundary
      BY DEF Delivered, Header
    <2>2. ASSUME NEW text \in request.boundary
          PROVE  \E g \in found : g.text = text
      <3> DEFINE header == [name |-> "x-jiaozi-boundary", case |-> case, text |-> text]
      <3>1. header \in found
        BY DEF Delivered, Header
      <3>2. header.text = text
        OBVIOUS
      <3> QED BY <3>1, <3>2
    <2> HIDE DEF found
    <2>3. {h.text : h \in found} = request.boundary
      BY <2>1, <2>2
    <2> QED BY <2>3 DEF found
  <1> QED BY <1>1, <1>2, <1>3, <1>4

(* The credential and the boundary that a request presents. *)
Presented(request) ==
    LET status == UNION {ParseHeaderJson(text) : text \in request.status}
    IN  IF status = {} THEN NoCredential ELSE CHOOSE c \in status : TRUE

PresentedBoundary(request) ==
    LET boundary == UNION {ParseHeaderJson(text) : text \in request.boundary}
    IN  UNION {b.permissions : b \in {j \in boundary : j.type = "object"}}

LEMMA PresentedAlike ==
    ASSUME NEW request \in Request, NEW case
    PROVE  /\ PyPresentationFromHeaders(Delivered(request, case))
                = [status_credential |-> Presented(request),
                   behavior_boundary |-> PresentedBoundary(request)]
           /\ case = "lower" => PresentationFromHeaders(Delivered(request, case))
                = [statusCredential |-> Presented(request),
                   behaviorBoundary |-> PresentedBoundary(request)]
  <1>1. PyPresentationFromHeaders(Delivered(request, case))
          = [status_credential |-> Presented(request),
             behavior_boundary |-> PresentedBoundary(request)]
    BY HeadersAreFound, Zenon DEF PyPresentationFromHeaders, Presented, PresentedBoundary
  <1>2. ASSUME case = "lower"
        PROVE  PresentationFromHeaders(Delivered(request, case))
                 = [statusCredential |-> Presented(request),
                    behaviorBoundary |-> PresentedBoundary(request)]
    <2> DEFINE boundary == UNION {ParseHeaderJson(text) : text \in request.boundary}
    <2>1. \A b \in boundary : b \in BoundaryJson
      <3> SUFFICES ASSUME NEW text \in request.boundary, text.form = "json"
                   PROVE  text.json \in BoundaryJson
        BY DEF ParseHeaderJson
      <3>1. request.boundary \in Carried(BoundaryJson)
        BY DEF Request
      <3> QED BY <3>1 DEF Carried, NoText
    <2>2. \A b \in BoundaryJson : b.type \in {"object", "array", "scalar"}
                                   /\ (b.type = "array" => b.permissions = {})
      BY DEF BoundaryJson
    <2> HIDE DEF boundary
    <2>3. UNION {b.permissions : b \in {j \in boundary : j.type # "scalar"}}
            = UNION {b.permissions : b \in {j \in boundary : j.type = "object"}}
      BY <2>1, <2>2
    <2>4. PresentationFromHeaders(Delivered(request, case))
            = [statusCredential |-> Presented(request),
               behaviorBoundary |->
                 UNION {b.permissions : b \in {j \in boundary : j.type # "scalar"}}]
      BY <1>2, HeadersAreFound, Zenon DEF PresentationFromHeaders, Presented, boundary
    <2> QED BY <2>3, <2>4 DEF PresentedBoundary, boundary
  <1> QED BY <1>1, <1>2

(* What is presented was in the request, if there was anything.            *)
LEMMA PresentedWasSent ==
    ASSUME NEW request \in Request, Presented(request) # NoCredential
    PROVE  /\ Presented(request) \in issued \cup {Malformed}
           /\ \E text \in request.status : text.json = Presented(request)
  <1> DEFINE status == UNION {ParseHeaderJson(text) : text \in request.status}
             credential == CHOOSE c \in status : TRUE
  <1>1. status # {} /\ Presented(request) = credential
    BY DEF Presented
  <1>2. credential \in status
    BY <1>1
  <1>3. PICK text \in request.status : credential \in ParseHeaderJson(text)
    BY <1>2
  <1>4. text.form = "json" /\ text.json = credential
    BY <1>3 DEF ParseHeaderJson
  <1> HIDE DEF credential, status
  <1>5. request.status \in Carried(issued \cup {NoCredential, Malformed})
    BY DEF Request
  <1>6. text.json \in issued \cup {NoCredential, Malformed}
    BY <1>4, <1>5 DEF Carried, NoText
  <1> QED BY <1>1, <1>4, <1>6
PayloadsOf(verified) == {v.payload : v \in verified}

(* What a decision says of the payload it found verified, if any.          *)
LEMMA DecisionNames ==
    ASSUME NEW verdict, NEW c, NEW verified, verified \subseteq {c},
           NEW decision, decision = DecisionOf(verdict, PayloadsOf(verified))
    PROVE  /\ decision.reasonCode = verdict
           /\ decision.certId # {} <=> c \in verified
           /\ c \in verified => decision.certId = {"certId"}
  <1> DEFINE payloads == PayloadsOf(verified)
  <1>1. /\ DecisionOf(verdict, payloads).reasonCode = verdict
        /\ DecisionOf(verdict, payloads).certId = {"certId" : payload \in payloads}
    BY DEF DecisionOf
  <1>2. c \in verified => c.payload \in payloads
    BY DEF PayloadsOf
  <1>3. c \notin verified => payloads = {}
    BY DEF PayloadsOf
  <1> HIDE DEF payloads
  <1> QED BY <1>1, <1>2, <1>3 DEF payloads

(* The credentials of which a JavaScript decision may speak.               *)
Verified(o, c, clock) ==
    {one \in {c} \ {NoCredential} :
       /\ ~PinMismatch(o, one)
       /\ VerifyStatusCredential(one, VerifyOptions(o, o.verify.minSerial), clock) = "valid"}

(* The two SDKs decide alike, and say the same of the certificate.         *)
LEMMA DecisionsAlike ==
    ASSUME NEW o \in GateOptions, NEW gate \in PyRequireTrust(o), IssuerIsNamed(o),
           NEW c, Shown(c) \/ c = NoCredential, NEW boundary, NEW clock
    PROVE  /\ PyDecisionAt(gate, [status_credential |-> c, behavior_boundary |-> boundary], clock)
                = DecisionOf(Verdict(o, o.verify.minSerial, c, boundary, clock),
                             PayloadsOf(Verified(o, c, clock)))
           /\ DecisionAt(o, [statusCredential |-> c, behaviorBoundary |-> boundary], clock)
                = DecisionOf(Verdict(o, o.verify.minSerial, c, boundary, clock),
                             PayloadsOf(Verified(o, c, clock)))
  <1> DEFINE verified == {one \in {c} \ {NoCredential} :
                            /\ ~PyUnpinned(gate, one)
                            /\ PyVerifyStatusCredential(one, GateOpts(o), clock) = "valid"}
  <1>1. DecisionAt(o, [statusCredential |-> c, behaviorBoundary |-> boundary], clock)
          = DecisionOf(Verdict(o, o.verify.minSerial, c, boundary, clock),
                       PayloadsOf(Verified(o, c, clock)))
    BY DEF DecisionAt, Verified, PayloadsOf
  <1>2. PyDecisionAt(gate, [status_credential |-> c, behavior_boundary |-> boundary], clock)
          = DecisionOf(PyCheck(gate, c, boundary, clock), PayloadsOf(verified))
    BY GateHoldsOptions DEF PyDecisionAt, GateOpts, PayloadsOf
  <1>3. verified = Verified(o, c, clock)
    <2>1. CASE c = NoCredential
      BY <2>1 DEF Verified
    <2>2. CASE c # NoCredential
      BY <2>2, GatesVerifyAlike DEF Verified
    <2> QED BY <2>1, <2>2
  <1> HIDE DEF verified
  <1>4. PyCheck(gate, c, boundary, clock) = Verdict(o, o.verify.minSerial, c, boundary, clock)
    BY GatesDecideAlike
  <1> QED BY <1>1, <1>2, <1>3, <1>4

(* Who is let through is known to the demo's public tool.                  *)
LEMMA AdmittedIsKnown ==
    ASSUME NEW o \in GateOptions, NEW c, NEW boundary, NEW clock,
           Verdict(o, o.verify.minSerial, c, boundary, clock) = "allowed"
    PROVE  LET anyValid == [o EXCEPT !.minLevel = "software", !.behaviors = {}]
           IN  /\ c # NoCredential
               /\ Verdict(anyValid, anyValid.verify.minSerial, c, boundary, clock) = "allowed"
               /\ c \in Verified(o, c, clock)
               /\ Verified(anyValid, c, clock) = Verified(o, c, clock)
  <1> DEFINE anyValid == [o EXCEPT !.minLevel = "software", !.behaviors = {}]
  <1>1. /\ anyValid.policy = o.policy /\ anyValid.issuerKeys = o.issuerKeys
        /\ anyValid.verify = o.verify /\ anyValid.minLevel = "software"
        /\ anyValid.behaviors = {} /\ o.minLevel \in DOMAIN TRUST_RANK
    BY GateOptionsAreOptions DEF OptionRecord, TRUST_RANK
  <1> HIDE DEF anyValid
  <1>2. \A one : PinMismatch(anyValid, one) <=> PinMismatch(o, one)
    BY <1>1 DEF PinMismatch, Pinned
  <1>3. VerifyOptions(anyValid, o.verify.minSerial) = VerifyOptions(o, o.verify.minSerial)
    BY <1>1 DEF VerifyOptions
  <1>4. ~OutOfBoundary(anyValid, boundary)
    BY <1>1 DEF OutOfBoundary
  <1>5. TRUST_RANK[anyValid.minLevel] <= TRUST_RANK[o.minLevel]
    BY <1>1 DEF TRUST_RANK
  <1>6. /\ c # NoCredential /\ ~PinMismatch(o, c)
        /\ VerifyStatusCredential(c, VerifyOptions(o, o.verify.minSerial), clock) = "valid"
        /\ c.payload.status = "active"
        /\ ~(RankOf(c.payload.trustLevel) < TRUST_RANK[o.minLevel])
    BY DEF Verdict
  <1>7. ~(RankOf(c.payload.trustLevel) < TRUST_RANK[anyValid.minLevel])
    <2>1. RankOf(c.payload.trustLevel) \in Nat
      BY RanksAreNumbers
    <2>2. TRUST_RANK[anyValid.minLevel] \in Nat /\ TRUST_RANK[o.minLevel] \in Nat
      BY <1>1 DEF TRUST_RANK
    <2> QED BY <1>5, <1>6, <2>1, <2>2
  <1>8. Verdict(anyValid, anyValid.verify.minSerial, c, boundary, clock) = "allowed"
    BY <1>1, <1>2, <1>3, <1>4, <1>6, <1>7 DEF Verdict
  <1>9. c \in Verified(o, c, clock)
    BY <1>6 DEF Verified
  <1>10. Verified(anyValid, c, clock) = Verified(o, c, clock)
    BY <1>1, <1>2, <1>3 DEF Verified
  <1> QED BY <1>6, <1>8, <1>9, <1>10 DEF anyValid

LEMMA FrontsAlike ==
    ASSUME NEW o \in GateOptions, IssuerIsNamed(o), \A c \in issued : Signed(c)
    PROVE  AnswerAlike(o)
  <1> SUFFICES ASSUME NEW gate \in PyRequireTrust(o), NEW request \in Request,
                      NEW clock \in GateClock
               PROVE  LET express == RequireTrustExpress(o, Delivered(request, "lower"), clock)
                          flask == RequireTrustFlask(gate, Delivered(request, "title"), clock)
                          fastapi == RequireTrustFastapi(gate, Delivered(request, "lower"), clock)
                      IN  /\ flask = express
                          /\ fastapi.code = express.code
                          /\ fastapi.code # 200 => fastapi.body.detail = express.body
                          /\ express.body.certId # {} =>
                               \E text \in request.status :
                                 text.json.signature.of = text.json.payload
                          /\ express.code = 200 =>
                               DemoCaller([o EXCEPT !.minLevel = "software", !.behaviors = {}],
                                          Delivered(request, "lower"), clock)
                                 = express.body.certId
    BY Zenon DEF AnswerAlike
  <1> DEFINE c == Presented(request)
             boundary == PresentedBoundary(request)
             verdict == Verdict(o, o.verify.minSerial, c, boundary, clock)
             decision == DecisionOf(verdict, PayloadsOf(Verified(o, c, clock)))
             anyValid == [o EXCEPT !.minLevel = "software", !.behaviors = {}]
             express == RequireTrustExpress(o, Delivered(request, "lower"), clock)
             flask == RequireTrustFlask(gate, Delivered(request, "title"), clock)
             fastapi == RequireTrustFastapi(gate, Delivered(request, "lower"), clock)
  <1>1. Shown(c) \/ c = NoCredential
    BY PresentedWasSent DEF Shown, Signed
  <1>2. /\ \A case : PyPresentationFromHeaders(Delivered(request, case))
                       = [status_credential |-> c, behavior_boundary |-> boundary]
        /\ PresentationFromHeaders(Delivered(request, "lower"))
             = [statusCredential |-> c, behaviorBoundary |-> boundary]
    BY PresentedAlike
  <1> HIDE DEF c, boundary
  <1>3. /\ PyDecisionAt(gate, [status_credential |-> c, behavior_boundary |-> boundary], clock)
             = decision
        /\ DecisionAt(o, [statusCredential |-> c, behaviorBoundary |-> boundary], clock) = decision
    BY <1>1, DecisionsAlike
  <1> HIDE DEF decision
  <1>4. express = Answer(decision)
    BY <1>2, <1>3 DEF RequireTrustExpress
  <1>5. flask = Answer(decision)
    BY <1>2, <1>3 DEF RequireTrustFlask
  <1>6. fastapi = IF Answer(decision).code = 200 THEN Answer(decision)
                  ELSE [Answer(decision) EXCEPT !.body = [detail |-> Answer(decision).body]]
    BY <1>2, <1>3 DEF RequireTrustFastapi
  <1>7. /\ Answer(decision).body = decision
        /\ DOMAIN Answer(decision) = {"code", "body"}
        /\ Answer(decision).code = 200 => decision.reasonCode = "allowed"
    BY DEF Answer, TrustDenyHttpStatus
  <1>8. /\ fastapi.code = Answer(decision).code
        /\ fastapi.code # 200 => fastapi.body.detail = decision
    <2> DEFINE answer == Answer(decision)
    <2> HIDE DEF answer, fastapi
    <2>1. CASE answer.code = 200
      BY <1>6, <2>1 DEF answer
    <2>2. CASE answer.code # 200
      <3>1. fastapi = [answer EXCEPT !.body = [detail |-> answer.body]]
        BY <1>6, <2>2 DEF answer
      <3>2. fastapi.code = answer.code /\ fastapi.body = [detail |-> decision]
        BY <1>7, <3>1 DEF answer
      <3> QED BY <3>2 DEF answer
    <2> QED BY <2>1, <2>2
  <1>9. /\ decision.reasonCode = verdict
        /\ decision.certId # {} <=> c \in Verified(o, c, clock)
        /\ c \in Verified(o, c, clock) => decision.certId = {"certId"}
    <2>1. Verified(o, c, clock) \subseteq {c}
      BY DEF Verified
    <2>2. decision = DecisionOf(verdict, PayloadsOf(Verified(o, c, clock)))
      BY DEF decision
    <2> HIDE DEF verdict
    <2> QED BY <2>1, <2>2, DecisionNames
  <1>10. ASSUME decision.certId # {}
         PROVE  \E text \in request.status : text.json.signature.of = text.json.payload
    <2>1. /\ c # NoCredential
          /\ VerifyStatusCredential(c, VerifyOptions(o, o.verify.minSerial), clock) = "valid"
      BY <1>9, <1>10 DEF Verified
    <2>2. VerifyWithMultibase(c.publicKeyMultibase, c.payload, c.signature)
      BY <2>1 DEF VerifyStatusCredential
    <2>3. c.signature.of = c.payload
      BY <2>2 DEF VerifyWithMultibase, SignWithPkcs8
    <2>4. PICK text \in request.status : text.json = c
      BY <2>1, PresentedWasSent DEF c
    <2> QED BY <2>3, <2>4
  <1>11. ASSUME Answer(decision).code = 200
         PROVE  DemoCaller(anyValid, Delivered(request, "lower"), clock) = decision.certId
    <2>1. verdict = "allowed"
      BY <1>7, <1>9, <1>11
    <2>2. /\ c # NoCredential
          /\ Verdict(anyValid, anyValid.verify.minSerial, c, boundary, clock) = "allowed"
          /\ c \in Verified(o, c, clock)
          /\ Verified(anyValid, c, clock) = Verified(o, c, clock)
      BY <2>1, AdmittedIsKnown
    <2> DEFINE known == DecisionAt(anyValid, [statusCredential |-> c, behaviorBoundary |-> boundary],
                                   clock)
    <2> HIDE DEF verdict
    <2>3. known = DecisionOf("allowed", PayloadsOf(Verified(o, c, clock)))
      <3>1. known = DecisionOf(Verdict(anyValid, anyValid.verify.minSerial, c, boundary, clock),
                               PayloadsOf(Verified(anyValid, c, clock)))
        BY DEF DecisionAt, Verified, PayloadsOf
      <3> QED BY <2>2, <3>1
    <2> HIDE DEF known
    <2>4. known.reasonCode = "allowed" /\ known.certId = {"certId"}
      <3>1. Verified(o, c, clock) \subseteq {c}
        BY DEF Verified
      <3> QED BY <2>2, <2>3, <3>1, DecisionNames
    <2>5. DemoCaller(anyValid, Delivered(request, "lower"), clock) = known.certId
      <3> DEFINE shown == [statusCredential |-> c, behaviorBoundary |-> boundary]
      <3>1. PresentationFromHeaders(Delivered(request, "lower")) = shown
        BY <1>2
      <3>2. DemoCaller(anyValid, Delivered(request, "lower"), clock)
              = IF shown.statusCredential # NoCredential
                     /\ DecisionAt(anyValid, shown, clock).reasonCode = "allowed"
                THEN DecisionAt(anyValid, shown, clock).certId ELSE {}
        BY <3>1, Zenon DEF DemoCaller
      <3>3. shown.statusCredential = c /\ DecisionAt(anyValid, shown, clock) = known
        BY DEF known
      <3> HIDE DEF shown
      <3> QED BY <2>2, <2>4, <3>2, <3>3
    <2> QED BY <1>9, <2>2, <2>4, <2>5
  <1> QED BY <1>4, <1>5, <1>7, <1>8, <1>10, <1>11

(* "Deny responses mirror the JS requireTrustExpress body": a request      *)
(* meets one answer, whichever front stands before the gate.               *)
THEOREM FrontsAnswerAsOne == Spec => []FrontsAnswerAlike
  <1>1. Reported => FrontsAnswerAlike
    <2> SUFFICES ASSUME Reported, NEW o \in GateOptions
                 PROVE  AnswerAlike(o)
      BY DEF FrontsAnswerAlike
    <2>1. \A c \in issued : Signed(c)
      BY DEF Reported, IssuerInv, IssuerTypes
    <2>2. CASE IssuerIsNamed(o)
      BY <2>1, <2>2, FrontsAlike
    <2>3. CASE ~IssuerIsNamed(o)
      BY <2>3, Zenon DEF AnswerAlike, IssuerIsNamed
    <2> QED BY <2>2, <2>3
  <1> QED BY <1>1, AlwaysReported, PTL
-----------------------------------------------------------------------------
(* The probe.                                                              *)

PROBE == {"stage", "pinned", "first", "failed", "faults", "at"}

(* The clocks and the TTL are such that a fresh answer can pass.           *)
TtlIsSane == MaxSkew <= Ttl /\ Ttl \in 1..SaneTtl

(* No check has failed if the deployment did nothing amiss; and what       *)
(* passed with its key pinned was of that key, and recent.                 *)
JudgedFairly ==
    /\ probe.faults = {} /\ TtlIsSane => probe.failed = {}
    /\ probe.failed = {} => \A pin \in probe.pinned :
         /\ probe.first.signature = SignWithPkcs8(pin.key, probe.first.payload)
         /\ probe.first.payload.serial >= probe.at - Ttl - MaxSkew

(* What each stage of a probe finds. *)
ProbeStands ==
    /\ DOMAIN probe = PROBE
    /\ probe.stage \in {"none", "key"} =>
         probe.pinned = {} /\ probe.failed = {} /\ probe.faults = {}
    /\ probe.stage = "first" =>
         /\ probe.failed = {}
         /\ probe.faults = {} => \A pin \in probe.pinned : pin = Multibase(pin.key, "legacy")
    /\ probe.stage = "again" => probe.first.payload.serial \in 1..now
    /\ probe.stage \in {"again", "unknown", "done"} => JudgedFairly
    /\ probe.stage \in {"none", "key", "first", "again", "unknown", "done", "thrown"}

(* A call, a list and a probe leave the issuer alone.                      *)
LEMMA IssuerGoesOn == [ProbeNext]_probeVars => IssuerNext \/ UNCHANGED issuerVars
  <1>1. Next => IssuerNext \/ UNCHANGED issuerVars
    BY DEF Next, IssuerStep, Publish, CheckVcStatus, ReadStatusV1, ReadBitstringList,
           EntryFails, Return
  <1>2. ProbeStep => UNCHANGED issuerVars
    BY DEF ProbeStep, StartProbe, KeyAnswered, KeyUnavailable, FirstAnswered, FirstFails,
           AgainAnswered, AgainFails, UnknownAnswered, ProbeThrows, Stage, vars
  <1>3. UNCHANGED probeVars => UNCHANGED issuerVars
    BY DEF probeVars, vars
  <1> QED BY <1>1, <1>2, <1>3 DEF ProbeNext, IssuerStep

(* The deployment's own answer is one an issuer signs.                     *)
LEMMA FreshIsSigned ==
    ASSUME IssuerInv, NEW held \in Standings
    PROVE  /\ Signed(FreshAnswer(held))
           /\ FreshAnswer(held).publicKeyMultibase = Multibase(signingKey, "legacy")
           /\ FreshAnswer(held).payload.serial = now
           /\ FreshAnswer(held).payload.status = held.status
  <1> DEFINE new == FreshAnswer(held)
  <1>1. now \in Nat /\ now > 0 /\ signingKey \in Key
    BY DEF IssuerInv, IssuerTypes, Key
  <1>2. held.status \in CertLiveStatus /\ (held.status = "active" => held.trustLevel \in Levels)
    BY DEF Standings, CertLiveStatus
  <1>3. /\ new.schema = "jiaozi.status.v1"
        /\ new.signature = SignWithPkcs8(signingKey, new.payload)
        /\ new.publicKeyMultibase = Multibase(signingKey, "legacy")
        /\ new.payload = BuildStatusPayload(held, "platform", now)
    BY DEF FreshAnswer, SignStatusPayload, SignWithPkcs8
  <1>4. /\ new.payload.serial = now
        /\ new.payload.expiresAt = now + Ttl
        /\ new.payload.status = held.status
        /\ new.payload.trustLevel = held.trustLevel
    BY <1>3 DEF BuildStatusPayload
  <1>5. new.signature.by = signingKey
    BY <1>3 DEF SignWithPkcs8
  <1> HIDE DEF new
  <1>6. Signed(new)
    BY <1>1, <1>2, <1>3, <1>4, <1>5 DEF Signed
  <1> QED BY <1>3, <1>4, <1>6 DEF new

(* The referee accepts a fresh answer, with no key pinned or with its own. *)
LEMMA FreshPasses ==
    ASSUME IssuerInv, MaxSkew <= Ttl, NEW held \in Standings, NEW clock \in GateClock,
           NEW opts, opts.now = {}, opts.expectedIssuer = {}, opts.minSerial = {},
           \A keys \in opts.trustedKeys : Multibase(signingKey, "legacy") \in keys
    PROVE  VerifyCredential(FreshAnswer(held), opts, clock) = "valid"
  <1> DEFINE cred == FreshAnswer(held)
  <1>1. /\ Signed(cred) /\ cred.publicKeyMultibase = Multibase(signingKey, "legacy")
        /\ cred.payload.serial = now
    BY FreshIsSigned
  <1> HIDE DEF cred
  <1>2. CheckShape(cred)
    BY <1>1 DEF CheckShape, Signed, CertLiveStatus
  <1>3. VerifySignature(cred.publicKeyMultibase, cred.payload, cred.signature)
    BY <1>1 DEF VerifySignature, Signed, SignWithPkcs8, Multibase
  <1>4. ~(clock > cred.payload.expiresAt)
    <2>1. PICK skew \in (0 - MaxSkew)..MaxSkew : clock = now + skew
      BY DEF GateClock
    <2>2. cred.payload.expiresAt = now + Ttl /\ now \in Nat
      BY <1>1 DEF Signed, IssuerInv, IssuerTypes
    <2> QED BY <2>1, <2>2, TtlIsTime, SkewIsTime
  <1> QED BY <1>1, <1>2, <1>3, <1>4 DEF VerifyCredential, cred

(* A credential that passes with its key pinned is of that key, and was    *)
(* signed a TTL before (and the clocks' distance) at the earliest.         *)
LEMMA PassedIsRecent ==
    ASSUME IssuerInv, NEW cred, Signed(cred), NEW clock \in GateClock,
           NEW opts, opts.now = {}, NEW pin, {pin} \in opts.trustedKeys,
           VerifyCredential(cred, opts, clock) = "valid"
    PROVE  /\ cred.signature = SignWithPkcs8(pin.key, cred.payload)
           /\ cred.payload.serial >= now - Ttl - MaxSkew
  <1>1. /\ cred.publicKeyMultibase \in {pin}
        /\ VerifySignature(cred.publicKeyMultibase, cred.payload, cred.signature)
        /\ ~(clock > cred.payload.expiresAt)
    BY DEF VerifyCredential
  <1>2. PICK skew \in (0 - MaxSkew)..MaxSkew : clock = now + skew
    BY DEF GateClock
  <1>3. /\ cred.payload.expiresAt = cred.payload.serial + Ttl
        /\ cred.payload.serial \in Nat /\ now \in Nat
    BY DEF Signed, IssuerInv, IssuerTypes
  <1>4. cred.payload.serial >= now - Ttl - MaxSkew
    BY <1>1, <1>2, <1>3, TtlIsTime, SkewIsTime
  <1> QED BY <1>1, <1>4 DEF VerifySignature, SignWithPkcs8

LEMMA FirstStands ==
    ASSUME IssuerInv, ProbeStands, NEW cred \in issued \cup {FreshAnswer(standing)},
           NEW clock \in GateClock, FirstAnswered(cred, clock)
    PROVE  ProbeStands'
  <1> DEFINE opts == [NoOptions EXCEPT !.trustedKeys = {{pin} : pin \in probe.pinned}]
             ttl == cred.payload.expiresAt - cred.payload.serial
             failed == FailedIf(VerifyCredential(cred, opts, clock) # "valid", "signature")
                         \cup FailedIf(ttl \notin 1..SaneTtl, "ttl")
             faults == FailedIf(cred # FreshAnswer(standing), "stale")
                         \cup FailedIf(\E pin \in probe.pinned : pin.key # signingKey, "rotated")
  <1>1. /\ probe.stage = "first" /\ DOMAIN probe = PROBE /\ now' = now
        /\ probe.failed = {}
        /\ probe.faults = {} => \A pin \in probe.pinned : pin = Multibase(pin.key, "legacy")
    BY DEF FirstAnswered, Stage, ProbeStands, vars, issuerVars
  <1>2. /\ opts.now = {} /\ opts.expectedIssuer = {} /\ opts.minSerial = {}
        /\ opts.trustedKeys = {{pin} : pin \in probe.pinned}
    BY DEF NoOptions
  <1>3. probe' = [probe EXCEPT !.stage = "again", !.first = cred, !.failed = failed,
                               !.faults = @ \cup faults, !.at = now]
    BY DEF FirstAnswered
  <1> HIDE DEF opts, failed, faults
  <1>4. /\ DOMAIN probe' = PROBE /\ probe'.stage = "again" /\ probe'.first = cred
        /\ probe'.failed = failed /\ probe'.faults = probe.faults \cup faults
        /\ probe'.at = now /\ probe'.pinned = probe.pinned
    BY <1>1, <1>3 DEF PROBE
  <1>5. Signed(cred) /\ now \in Nat /\ standing \in Standings
    BY FreshIsSigned DEF IssuerInv, IssuerTypes
  <1>6. ASSUME probe'.faults = {}, TtlIsSane PROVE failed = {}
    <2>1. cred = FreshAnswer(standing) /\ probe.faults = {}
          /\ \A pin \in probe.pinned : pin.key = signingKey
      BY <1>4, <1>6 DEF faults, FailedIf
    <2>2. \A keys \in opts.trustedKeys : Multibase(signingKey, "legacy") \in keys
      BY <1>1, <1>2, <2>1
    <2>3. VerifyCredential(cred, opts, clock) = "valid"
      BY <1>2, <1>5, <1>6, <2>1, <2>2, FreshPasses DEF TtlIsSane
    <2>4. ttl = Ttl
      BY <1>5, TtlIsTime DEF Signed
    <2> QED BY <1>6, <2>3, <2>4 DEF failed, FailedIf, TtlIsSane
  <1>7. ASSUME failed = {}, NEW pin \in probe.pinned
        PROVE  /\ cred.signature = SignWithPkcs8(pin.key, cred.payload)
               /\ cred.payload.serial >= now - Ttl - MaxSkew
    <2>1. VerifyCredential(cred, opts, clock) = "valid"
      BY <1>7 DEF failed, FailedIf
    <2>2. {pin} \in opts.trustedKeys
      BY <1>2
    <2> QED BY <1>2, <1>5, <2>1, <2>2, PassedIsRecent
  <1>8. JudgedFairly'
    BY <1>4, <1>6, <1>7 DEF JudgedFairly
  <1>9. cred.payload.serial \in 1..now'
    BY <1>1, <1>5 DEF Signed
  <1> QED BY <1>4, <1>8, <1>9 DEF ProbeStands

(* A later check judges fairly if what fails by it was amiss.              *)
LEMMA LaterStands ==
    ASSUME ProbeStands, probe.stage \in {"again", "unknown"},
           NEW stage \in {"unknown", "done"}, NEW failed, NEW faults,
           probe' = [probe EXCEPT !.stage = stage, !.failed = @ \cup failed,
                                  !.faults = @ \cup faults],
           faults = {} /\ TtlIsSane => failed = {}
    PROVE  ProbeStands'
  <1>1. DOMAIN probe = PROBE /\ JudgedFairly
    BY DEF ProbeStands
  <1>2. /\ DOMAIN probe' = PROBE /\ probe'.stage = stage /\ probe'.first = probe.first
        /\ probe'.failed = probe.failed \cup failed /\ probe'.faults = probe.faults \cup faults
        /\ probe'.at = probe.at /\ probe'.pinned = probe.pinned
    BY <1>1 DEF PROBE
  <1>3. JudgedFairly'
    <2>1. probe'.faults = {} => probe.faults = {} /\ faults = {}
      BY <1>2
    <2>2. probe.failed = {} /\ failed = {} => probe'.failed = {}
      BY <1>2
    <2>3. probe'.failed = {} => probe.failed = {}
      BY <1>2
    <2> QED BY <1>1, <1>2, <2>1, <2>2, <2>3 DEF JudgedFairly
  <1> QED BY <1>2, <1>3 DEF ProbeStands

LEMMA NextProbeStands ==
    IssuerInv /\ ProbeStands /\ [ProbeNext]_probeVars => IssuerInv' /\ ProbeStands'
  <1> SUFFICES ASSUME IssuerInv, ProbeStands, [ProbeNext]_probeVars
               PROVE  IssuerInv' /\ ProbeStands'
    OBVIOUS
  <1>1. IssuerInv' /\ now' >= now
    BY IssuerGoesOn, IssuerNextInv DEF IssuerMovesOn
  <1>2. now \in Nat /\ now' \in Nat
    BY <1>1 DEF IssuerInv, IssuerTypes
  <1>3. CASE UNCHANGED probe
    <2>1. probe.first.payload.serial \in 1..now => probe.first.payload.serial \in 1..now'
      BY <1>1, <1>2
    <2> QED BY <1>1, <1>3, <2>1 DEF ProbeStands, JudgedFairly
  <1>4. CASE StartProbe
    <2>1. probe' = [NoProbe EXCEPT !.stage = "key"]
      BY <1>4 DEF StartProbe
    <2> QED BY <1>1, <2>1 DEF ProbeStands, NoProbe, PROBE
  <1>5. ASSUME NEW form \in {"legacy", "standard"}, KeyAnswered(form) PROVE ProbeStands'
    <2>1. /\ probe.stage = "key" /\ DOMAIN probe = PROBE /\ probe.failed = {}
          /\ probe' = [probe EXCEPT !.stage = "first", !.pinned = {Multibase(signingKey, form)},
                                    !.faults = FailedIf(form # "legacy", "recoded")]
      BY <1>5 DEF KeyAnswered, Stage, ProbeStands
    <2>2. /\ DOMAIN probe' = PROBE /\ probe'.stage = "first" /\ probe'.failed = {}
          /\ probe'.pinned = {Multibase(signingKey, form)}
          /\ probe'.faults = FailedIf(form # "legacy", "recoded")
      BY <2>1 DEF PROBE
    <2>3. probe'.faults = {} => form = "legacy"
      BY <2>2 DEF FailedIf
    <2>4. Multibase(signingKey, "legacy").key = signingKey
      BY DEF Multibase
    <2> QED BY <2>2, <2>3, <2>4 DEF ProbeStands
  <1>6. CASE KeyUnavailable
    <2>1. /\ probe.stage = "key" /\ DOMAIN probe = PROBE /\ probe.failed = {}
          /\ probe.pinned = {}
          /\ probe' = [probe EXCEPT !.stage = "first"]
      BY <1>6 DEF KeyUnavailable, Stage, ProbeStands
    <2>2. /\ DOMAIN probe' = PROBE /\ probe'.stage = "first" /\ probe'.failed = {}
          /\ probe'.pinned = {}
      BY <2>1 DEF PROBE
    <2> QED BY <1>1, <2>2 DEF ProbeStands
  <1>7. ASSUME NEW cred \in issued \cup {FreshAnswer(standing)}, NEW clock \in GateClock,
               FirstAnswered(cred, clock)
        PROVE  ProbeStands'
    BY <1>7, FirstStands
  <1>8. CASE FirstFails
    <2>1. /\ probe.stage = "first" /\ DOMAIN probe = PROBE
          /\ probe' = [probe EXCEPT !.stage = "done", !.failed = {"known"},
                                    !.faults = @ \cup {"down"}]
      BY <1>8 DEF FirstFails, Stage, ProbeStands
    <2>2. /\ DOMAIN probe' = PROBE /\ probe'.stage = "done" /\ probe'.failed = {"known"}
          /\ probe'.faults = probe.faults \cup {"down"}
      BY <2>1 DEF PROBE
    <2>3. probe'.faults # {} /\ probe'.failed # {}
      BY <2>2
    <2> QED BY <1>1, <2>2, <2>3 DEF ProbeStands, JudgedFairly
  <1>9. ASSUME NEW cred \in issued \cup {FreshAnswer(standing)}, AgainAnswered(cred)
        PROVE  ProbeStands'
    <2> DEFINE failed == FailedIf(cred.payload.serial < probe.first.payload.serial, "serial")
               faults == FailedIf(cred # FreshAnswer(standing), "stale")
    <2>1. /\ probe.stage = "again" /\ probe.first.payload.serial \in 1..now
          /\ probe' = [probe EXCEPT !.stage = "unknown", !.failed = @ \cup failed,
                                    !.faults = @ \cup faults]
      BY <1>9 DEF AgainAnswered, Stage, ProbeStands
    <2>2. faults = {} => failed = {}
      <3>1. FreshAnswer(standing).payload.serial = now
        BY FreshIsSigned DEF IssuerInv, IssuerTypes
      <3> QED BY <1>2, <2>1, <3>1 DEF FailedIf
    <2> HIDE DEF failed, faults
    <2> QED BY <2>1, <2>2, LaterStands
  <1>10. CASE AgainFails
    <2>1. /\ probe.stage = "again" /\ DOMAIN probe = PROBE /\ JudgedFairly
          /\ probe' = [probe EXCEPT !.stage = "unknown"]
      BY <1>10 DEF AgainFails, Stage, ProbeStands
    <2>2. /\ DOMAIN probe' = PROBE /\ probe'.stage = "unknown" /\ probe'.first = probe.first
          /\ probe'.failed = probe.failed /\ probe'.faults = probe.faults
          /\ probe'.at = probe.at /\ probe'.pinned = probe.pinned
      BY <2>1 DEF PROBE
    <2> QED BY <1>1, <2>1, <2>2 DEF ProbeStands, JudgedFairly
  <1>11. ASSUME NEW cred, NEW clock \in GateClock, UnknownAnswered(cred, clock)
         PROVE  ProbeStands'
    <2> DEFINE failed == FailedIf(~CheckShape(cred) \/ cred.payload.status # "unknown"
                                    \/ VerifyCredential(cred, NoOptions, clock) # "valid",
                                  "unknown")
               faults == FailedIf(cred # FreshAnswer(UnknownStanding), "stale")
    <2>1. /\ probe.stage = "unknown"
          /\ probe' = [probe EXCEPT !.stage = "done", !.failed = @ \cup failed,
                                    !.faults = @ \cup faults]
      BY <1>11 DEF UnknownAnswered, Stage
    <2>2. ASSUME faults = {}, TtlIsSane PROVE failed = {}
      <3>1. cred = FreshAnswer(UnknownStanding)
        BY <2>2 DEF FailedIf
      <3>2. UnknownStanding \in Standings /\ UnknownStanding.status = "unknown"
        BY DEF UnknownStanding, Standings
      <3>3. /\ NoOptions.now = {} /\ NoOptions.expectedIssuer = {}
            /\ NoOptions.minSerial = {} /\ NoOptions.trustedKeys = {}
        BY DEF NoOptions
      <3>4. VerifyCredential(cred, NoOptions, clock) = "valid"
        BY <2>2, <3>1, <3>2, <3>3, FreshPasses DEF TtlIsSane
      <3>5. Signed(cred) /\ cred.payload.status = "unknown"
        BY <3>1, <3>2, FreshIsSigned
      <3>6. CheckShape(cred)
        BY <3>5 DEF Signed, CheckShape
      <3> QED BY <3>4, <3>5, <3>6 DEF FailedIf
    <2> HIDE DEF failed, faults
    <2> QED BY <2>1, <2>2, LaterStands
  <1>12. CASE ProbeThrows
    <2>1. DOMAIN probe = PROBE /\ probe' = [probe EXCEPT !.stage = "thrown"]
      BY <1>12 DEF ProbeThrows, ProbeStands
    <2>2. DOMAIN probe' = PROBE /\ probe'.stage = "thrown"
      BY <2>1 DEF PROBE
    <2> QED BY <1>1, <2>2 DEF ProbeStands
  <1>13. CASE ProbeStep
    BY <1>1, <1>4, <1>5, <1>6, <1>7, <1>8, <1>9, <1>10, <1>11, <1>12, <1>13 DEF ProbeStep
  <1> QED BY <1>3, <1>13 DEF ProbeNext, probeVars

(* The referee's live mode is fair to a deployment that does nothing       *)
(* amiss, and not lenient to another, for all keys, lists, TTLs and        *)
(* distances of the clocks.                                                *)
THEOREM ProbesAreFair == ProbeSpec => []ProbeIsFair
  <1>1. ProbeInit => IssuerInv /\ ProbeStands
    BY IssuerInitInv DEF ProbeInit, Init, NoProbe, ProbeStands, PROBE
  <1>2. ProbeStands => ProbeIsFair
    BY DEF ProbeStands, JudgedFairly, ProbeIsFair, TtlIsSane
  <1> QED BY <1>1, <1>2, NextProbeStands, PTL DEF ProbeSpec
=============================================================================
