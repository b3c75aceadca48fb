------------------------- MODULE StatusIssuer_proofs -------------------------
(***************************************************************************)
(* What every world of StatusIssuer keeps true, whoever looks at its       *)
(* credentials: the proofs about gates and about check_vc_status begin     *)
(* here.                                                                   *)
(*                                                                         *)
(* A platform credential that shows an active standing of some rank was    *)
(* signed no later than the last time the certificate held that rank       *)
(* (SignedTruth), and while it holds it, that time is now (SuitedNow).     *)
(* What the platform once signed as revoked is (SignedRevocations).        *)
(***************************************************************************)
EXTENDS StatusIssuer, TLAPS

SuitedNow ==
    \A rank \in Ranks : Suits(standing, rank) => lastSuited[rank] = now

SignedTruth ==
    \A c \in issued : c.signature.by \in PlatformKeys =>
      \A rank \in Ranks :
        Suits(c.signature.of, rank) => lastSuited[rank] >= c.signature.of.serial

(* Every credential carries a signature over a dated payload by a key that *)
(* exists, and an active standing comes with a level.                      *)
Signed(c) ==
    /\ c.schema = "jiaozi.status.v1"
    /\ c.signature.by \in Key
    /\ c.signature = SignWithPkcs8(c.signature.by, c.payload)
    /\ c.publicKeyMultibase = Multibase(c.signature.by, "legacy")
    /\ c.payload.serial \in 1..now
    /\ c.payload.expiresAt = c.payload.serial + Ttl
    /\ c.payload.status \in CertLiveStatus
    /\ c.payload.status = "active" => c.payload.trustLevel \in Levels

IssuerTypes ==
    /\ now \in Nat
    /\ now > 0
    /\ standing \in Standings
    /\ signingKey \in PlatformKeys
    /\ lastSuited \in [Ranks -> Int]
    /\ \A rank \in Ranks : lastSuited[rank] <= now
    /\ \A c \in issued : Signed(c)

SignedRevocations ==
    \A c \in issued :
      c.signature.by \in PlatformKeys /\ c.payload.status = "revoked" =>
        standing.status = "revoked"

IssuerInv == IssuerTypes /\ SuitedNow /\ SignedTruth /\ SignedRevocations

(* What no step takes back. *)
IssuerMovesOn ==
    /\ now' >= now
    /\ \A rank \in Ranks : lastSuited'[rank] >= lastSuited[rank]
    /\ standing.status = "revoked" => standing'.status = "revoked"

-----------------------------------------------------------------------------
(* Ranks.                                                                  *)

(* The medal ladder gives every requirable level a rank of Ranks, and any  *)
(* other value of a trust level the rank 0.                                *)
LEMMA RanksAreNumbers ==
    /\ Ranks \subseteq Nat
    /\ \A level : RankOf(level) \in Nat
    /\ \A level \in {"software", "cloud_attest", "tee", "tpm"} :
         TRUST_RANK[level] \in Ranks
  <1>1. DOMAIN TRUST_RANK = {"software", "cloud_attest", "tee", "tpm"}
    BY DEF TRUST_RANK
  <1>2. \A level \in DOMAIN TRUST_RANK : TRUST_RANK[level] \in Nat
    BY DEF TRUST_RANK
  <1> QED BY <1>1, <1>2 DEF Ranks, RankOf

-----------------------------------------------------------------------------
(* What an allow tells of the credential it was given.                     *)

(* A checker that admits has checked shape, pins, standing and level, and  *)
(* unless it is offline or has a time of its own, the expiry.              *)
LEMMA AllowedIsChecked ==
    ASSUME NEW o \in OptionRecord(Key), NEW m, NEW c, NEW b, NEW clock,
           Verdict(o, m, c, b, clock) = "allowed"
    PROVE  /\ IsStatusCredentialV1(c)
           /\ ~PinMismatch(o, c)
           /\ \A keys \in o.verify.trustedKeys : c.publicKeyMultibase \in keys
           /\ Suits(c.payload, TRUST_RANK[o.minLevel])
           /\ o.policy # "offline" /\ o.verify.now = {} => ~(clock > c.payload.expiresAt)
           /\ \A s \in m : ~(c.payload.serial < s)
  <1> DEFINE opts == VerifyOptions(o, m)
  <1>1. /\ ~PinMismatch(o, c)
        /\ VerifyStatusCredential(c, opts, clock) = "valid"
        /\ c.payload.status = "active"
        /\ ~(RankOf(c.payload.trustLevel) < TRUST_RANK[o.minLevel])
    BY DEF Verdict
  <1>2. opts.trustedKeys = o.verify.trustedKeys
    BY DEF VerifyOptions, OptionRecord
  <1>3. opts.minSerial = m /\ (o.policy # "offline" => opts.now = o.verify.now)
    BY DEF VerifyOptions, OptionRecord
  <1>4. /\ IsStatusCredentialV1(c)
        /\ \A keys \in opts.trustedKeys : c.publicKeyMultibase \in keys
        /\ opts.now = {} => ~(clock > c.payload.expiresAt)
        /\ \A s \in opts.minSerial : ~(c.payload.serial < s)
    <2> HIDE DEF opts
    <2> QED BY <1>1 DEF VerifyStatusCredential
  <1>5. Suits(c.payload, TRUST_RANK[o.minLevel])
    <2>1. TRUST_RANK[o.minLevel] \in Nat /\ RankOf(c.payload.trustLevel) \in Nat
      BY RanksAreNumbers DEF OptionRecord
    <2> QED BY <1>1, <2>1 DEF Suits
  <1> QED BY <1>1, <1>2, <1>3, <1>4, <1>5

(* The key behind an allowed credential is one the checker trusts.         *)
LEMMA AllowedIsTrusted ==
    ASSUME NEW o \in OptionRecord(Key), NEW m, NEW c, NEW b, NEW clock, Signed(c),
           Verdict(o, m, c, b, clock) = "allowed"
    PROVE  c.signature.by \in TrustedBy(o)
  <1> DEFINE by == c.signature.by
  <1>1. ~PinMismatch(o, c) /\ \A keys \in o.verify.trustedKeys : c.publicKeyMultibase \in keys
    BY AllowedIsChecked
  <1>2. c.publicKeyMultibase = [key |-> by, form |-> "legacy"]
    BY DEF Signed, Multibase
  <1>3. ASSUME o.policy # "online" PROVE \E pin \in o.issuerKeys : pin.key = by
    <2>1. PICK pin \in o.issuerKeys :
            ToStandardEd25519Multibase(c.publicKeyMultibase) = ToStandardEd25519Multibase(pin)
      BY <1>1, <1>3 DEF PinMismatch, Pinned
    <2>2. pin \in Multibases(Key)
      BY DEF OptionRecord
    <2>3. ToStandardEd25519Multibase(c.publicKeyMultibase).key = by
      BY <1>2 DEF ToStandardEd25519Multibase
    <2>4. ToStandardEd25519Multibase(pin).key = pin.key
      BY <2>2 DEF ToStandardEd25519Multibase, Multibases
    <2> QED BY <2>1, <2>3, <2>4
  <1> QED BY <1>1, <1>2, <1>3 DEF TrustedBy, Signed, Multibase

(* What makes a checker content: a signed credential by a key it trusts,   *)
(* that lives on its clock and is above its floor, from the issuer it      *)
(* expects and with standing and boundary enough.                          *)
LEMMA SoundIsAllowed ==
    ASSUME NEW o \in OptionRecord(Key), NEW m, NEW c, NEW b, NEW clock \in Int, Signed(c),
           now \in Nat,
           c.signature.by \in TrustedBy(o),
           o.verify.now = {},
           clock <= c.payload.expiresAt,
           \A issuer \in o.verify.expectedIssuer : c.payload.issuer = issuer,
           m \subseteq Nat, \A s \in m : s <= c.payload.serial,
           Suits(c.payload, TRUST_RANK[o.minLevel]),
           ~OutOfBoundary(o, b)
    PROVE  Verdict(o, m, c, b, clock) = "allowed"
  <1> DEFINE opts == VerifyOptions(o, m)
             by == c.signature.by
  <1>1. /\ c.schema = "jiaozi.status.v1" /\ by \in Key
        /\ c.publicKeyMultibase = [key |-> by, form |-> "legacy"]
        /\ c.payload.serial \in Nat /\ c.payload.expiresAt \in Nat
        /\ c.signature.of = c.payload
    BY TtlIsTime DEF Signed, SignWithPkcs8, Multibase
  <1>2. c # NoCredential
    BY <1>1 DEF NoCredential
  <1>3. ~PinMismatch(o, c)
    <2> SUFFICES ASSUME o.policy # "online"
                 PROVE  ToStandardEd25519Multibase(c.publicKeyMultibase) \in Pinned(o)
      BY <1>1 DEF PinMismatch, IsStatusCredentialV1
    <2>1. PICK pin \in o.issuerKeys : pin.key = by
      BY DEF TrustedBy
    <2>2. pin \in Multibases(Key)
      BY DEF OptionRecord
    <2>3. ToStandardEd25519Multibase(c.publicKeyMultibase) = [key |-> by, form |-> "standard"]
      BY <1>1 DEF ToStandardEd25519Multibase
    <2>4. ToStandardEd25519Multibase(pin) = [key |-> by, form |-> "standard"]
      BY <2>1, <2>2 DEF ToStandardEd25519Multibase, Multibases
    <2> QED BY <2>3, <2>4 DEF Pinned
  <1>4. /\ opts.trustedKeys = o.verify.trustedKeys
        /\ opts.expectedIssuer = o.verify.expectedIssuer
        /\ opts.minSerial = m
        /\ opts.now = IF o.policy = "offline" THEN {0} ELSE {}
    BY DEF VerifyOptions, OptionRecord
  <1>5. VerifyStatusCredential(c, opts, clock) = "valid"
    <2> DEFINE time == IF opts.now = {} THEN clock ELSE CHOOSE t \in opts.now : TRUE
    <2>1. ~(time > c.payload.expiresAt)
      <3>1. opts.now = {} => time = clock
        OBVIOUS
      <3>2. opts.now = {0} => time = 0
        OBVIOUS
      <3> QED BY <1>1, <1>4, <3>1, <3>2
    <2>2. \A keys \in opts.trustedKeys : c.publicKeyMultibase \in keys
      BY <1>1, <1>4 DEF TrustedBy, Multibase
    <2>3. VerifyWithMultibase(c.publicKeyMultibase, c.payload, c.signature)
      BY <1>1 DEF VerifyWithMultibase, SignWithPkcs8, Signed
    <2>4. \A floor \in opts.minSerial : ~(c.payload.serial < floor)
      <3> SUFFICES ASSUME NEW floor \in m
                   PROVE  ~(c.payload.serial < floor)
        BY <1>4
      <3>1. floor \in Nat /\ floor <= c.payload.serial
        OBVIOUS
      <3> HIDE DEF opts
      <3> QED BY <1>1, <3>1
    <2>5. \A issuer \in opts.expectedIssuer : c.payload.issuer = issuer
      BY <1>4
    <2> HIDE DEF opts
    <2> QED BY <1>1, <2>1, <2>2, <2>3, <2>4, <2>5 DEF VerifyStatusCredential, IsStatusCredentialV1
  <1>6. ~(RankOf(c.payload.trustLevel) < TRUST_RANK[o.minLevel])
    <2>1. TRUST_RANK[o.minLevel] \in Nat /\ RankOf(c.payload.trustLevel) \in Nat
      BY RanksAreNumbers DEF OptionRecord
    <2> QED BY <2>1 DEF Suits
  <1> QED BY <1>2, <1>3, <1>5, <1>6 DEF Verdict, Suits

-----------------------------------------------------------------------------
(* The invariant.                                                          *)

(* At first nothing has been signed.                                       *)
LEMMA IssuerInitInv == IssuerInit => IssuerInv
  <1> SUFFICES ASSUME IssuerInit PROVE IssuerInv
    OBVIOUS
  <1>1. Never \in Int /\ Never <= now
    BY TtlIsTime, SkewIsTime DEF Never, IssuerInit
  <1>2. IssuerTypes
    <2>1. lastSuited \in [Ranks -> Int] /\ \A rank \in Ranks : lastSuited[rank] <= now
      BY <1>1 DEF IssuerInit
    <2>2. standing \in Standings
      BY DEF IssuerInit, Standings
    <2> QED BY <2>1, <2>2 DEF IssuerTypes, IssuerInit
  <1>3. SuitedNow
    BY DEF IssuerInit, SuitedNow, Suits
  <1>4. SignedTruth
    BY DEF IssuerInit, SignedTruth
  <1>5. SignedRevocations
    BY DEF IssuerInit, SignedRevocations
  <1> QED BY <1>2, <1>3, <1>4, <1>5 DEF IssuerInv

(* Time and standing move on together with the history of the standing,    *)
(* which never goes back.                                                  *)
LEMMA NotingSuited ==
    ASSUME IssuerTypes, SuitedNow,
           NEW held, NEW time \in Nat, time >= now,
           held = standing \/ time = now,
           standing' = held, now' = time, NoteSuited(held, time)
    PROVE  /\ lastSuited' \in [Ranks -> Int]
           /\ \A rank \in Ranks : lastSuited'[rank] <= now'
           /\ \A rank \in Ranks : lastSuited'[rank] >= lastSuited[rank]
           /\ SuitedNow'
  <1>1. \A rank \in Ranks : lastSuited[rank] \in Int /\ lastSuited[rank] <= now
    BY DEF IssuerTypes
  <1>2. \A rank \in Ranks :
          lastSuited'[rank] = IF Suits(held, rank) THEN time ELSE lastSuited[rank]
    BY DEF NoteSuited
  <1>3. now \in Nat
    BY DEF IssuerTypes
  <1>4. lastSuited' \in [Ranks -> Int]
    BY <1>1 DEF NoteSuited
  <1>5. SuitedNow'
    BY <1>2 DEF SuitedNow
  <1> QED BY <1>1, <1>2, <1>3, <1>4, <1>5

(* A step that signs nothing keeps what is known of the signed.            *)
LEMMA NothingSigned ==
    ASSUME IssuerInv, issued' = issued, now' \in Nat, now' >= now,
           lastSuited' \in [Ranks -> Int],
           \A rank \in Ranks : lastSuited'[rank] >= lastSuited[rank]
    PROVE  SignedTruth' /\ \A c \in issued' : Signed(c)'
  <1>1. now \in Nat /\ \A c \in issued : Signed(c)
    BY DEF IssuerInv, IssuerTypes
  <1>2. \A c \in issued : Signed(c)'
    BY <1>1 DEF Signed
  <1>3. \A rank \in Ranks : lastSuited[rank] \in Int /\ lastSuited'[rank] \in Int
    BY DEF IssuerInv, IssuerTypes
  <1>4. SignedTruth'
    <2> SUFFICES ASSUME NEW c \in issued, c.signature.by \in PlatformKeys,
                        NEW rank \in Ranks, Suits(c.signature.of, rank)
                 PROVE  lastSuited'[rank] >= c.signature.of.serial
      BY DEF SignedTruth
    <2>1. lastSuited[rank] >= c.signature.of.serial
      BY DEF IssuerInv, SignedTruth
    <2>2. c.payload.serial \in Nat /\ c.signature = SignWithPkcs8(c.signature.by, c.payload)
      BY <1>1 DEF Signed
    <2>3. c.signature.of.serial \in Nat
      BY <2>2 DEF SignWithPkcs8
    <2> QED BY <1>3, <2>1, <2>3
  <1> QED BY <1>2, <1>4

(* Signing adds one credential: the platform's tells the standing of now,  *)
(* which the history of the standing knows.                                *)
LEMMA OneSigned ==
    ASSUME IssuerInv, NEW key \in Key, NEW held \in Standings, NEW issuer,
           key \in PlatformKeys => held = standing,
           issued' = issued \cup
             {SignStatusPayload(BuildStatusPayload(held, issuer, now),
                                key, Multibase(key, "legacy"))},
           UNCHANGED <<now, standing, lastSuited>>
    PROVE  SignedTruth' /\ \A c \in issued' : Signed(c)'
  <1> DEFINE new == SignStatusPayload(BuildStatusPayload(held, issuer, now),
                                      key, Multibase(key, "legacy"))
  <1>1. /\ now \in Nat /\ now > 0
        /\ \A c \in issued : Signed(c)
    BY DEF IssuerInv, IssuerTypes
  <1>2. /\ new.signature.by = key
        /\ new.signature.of.serial = now
        /\ new.signature.of.status = held.status
        /\ new.signature.of.trustLevel = held.trustLevel
    BY DEF SignStatusPayload, BuildStatusPayload, SignWithPkcs8
  <1>3. Signed(new)
    <2>1. held.status \in CertLiveStatus /\ (held.status = "active" => held.trustLevel \in Levels)
      BY DEF Standings, CertLiveStatus
    <2>2. /\ new.schema = "jiaozi.status.v1"
          /\ new.signature = SignWithPkcs8(key, new.payload)
          /\ new.publicKeyMultibase = Multibase(key, "legacy")
          /\ new.payload = BuildStatusPayload(held, issuer, now)
      BY DEF SignStatusPayload, SignWithPkcs8
    <2>3. /\ new.payload.serial = now
          /\ new.payload.expiresAt = now + Ttl
          /\ new.payload.status = held.status
          /\ new.payload.trustLevel = held.trustLevel
      BY <2>2 DEF BuildStatusPayload
    <2> HIDE DEF new
    <2> QED BY <1>1, <1>2, <2>1, <2>2, <2>3 DEF Signed
  <1>4. \A c \in issued' : Signed(c)'
    BY <1>1, <1>3 DEF Signed
  <1>5. SignedTruth'
    <2> SUFFICES ASSUME NEW c \in issued', c.signature.by \in PlatformKeys,
                        NEW rank \in Ranks, Suits(c.signature.of, rank)
                 PROVE  lastSuited[rank] >= c.signature.of.serial
      BY DEF SignedTruth
    <2>1. CASE c \in issued
      BY <2>1 DEF IssuerInv, SignedTruth
    <2>2. CASE c = new
      <3>1. Suits(standing, rank)
        BY <1>2, <2>2 DEF Suits
      <3>2. lastSuited[rank] = now
        BY <3>1 DEF IssuerInv, SuitedNow
      <3> QED BY <1>1, <1>2, <2>2, <3>2
    <2> QED BY <2>1, <2>2
  <1> QED BY <1>4, <1>5

(* A revocation is for good, and nothing else is signed as one.            *)
LEMMA RevocationsStand ==
    ASSUME IssuerInv, IssuerNext \/ UNCHANGED issuerVars
    PROVE  /\ SignedRevocations'
           /\ standing.status = "revoked" => standing'.status = "revoked"
  <1> USE DEF IssuerInv
  <1>1. standing.status = "revoked" => standing'.status = "revoked"
    BY DEF IssuerNext, Tick, ChangeStanding, RotateKey, Issue, IssueElsewhere, issuerVars
  <1>2. ASSUME issued' = issued
        PROVE  SignedRevocations'
    BY <1>1, <1>2 DEF SignedRevocations
  <1>3. CASE Issue
    <2> DEFINE new == SignStatusPayload(BuildStatusPayload(standing, "platform", now),
                                        signingKey, Multibase(signingKey, "legacy"))
    <2>1. new.payload.status = standing.status
      BY DEF SignStatusPayload, BuildStatusPayload
    <2> HIDE DEF new
    <2>2. issued' = issued \cup {new} /\ standing' = standing
      BY <1>3 DEF Issue, new
    <2> QED BY <2>1, <2>2 DEF SignedRevocations
  <1>4. ASSUME NEW key \in OtherKeys, NEW held \in Standings, IssueElsewhere(key, held)
        PROVE  SignedRevocations'
    <2> DEFINE new == SignStatusPayload(BuildStatusPayload(held, "elsewhere", now),
                                        key, Multibase(key, "legacy"))
    <2>1. new.signature.by \notin PlatformKeys
      BY IssuersAreDistinct DEF SignStatusPayload, SignWithPkcs8
    <2> HIDE DEF new
    <2>2. issued' = issued \cup {new} /\ standing' = standing
      BY <1>4 DEF IssueElsewhere, new
    <2> QED BY <2>1, <2>2 DEF SignedRevocations
  <1>5. CASE Tick \/ UNCHANGED issuerVars \/ (\E next \in Standings : ChangeStanding(next))
               \/ (\E key \in PlatformKeys : RotateKey(key))
    BY <1>2, <1>5 DEF Tick, ChangeStanding, RotateKey, issuerVars
  <1> QED BY <1>1, <1>3, <1>4, <1>5 DEF IssuerNext

(* Every step at the issuers, and every step elsewhere, keeps it.          *)
LEMMA IssuerNextInv ==
    ASSUME IssuerInv, IssuerNext \/ UNCHANGED issuerVars
    PROVE  IssuerInv' /\ IssuerMovesOn
  <1> USE DEF IssuerInv
  <1>0. now \in Nat /\ lastSuited \in [Ranks -> Int] /\ now >= now
    BY DEF IssuerTypes
  <1>000. SignedRevocations' /\ (standing.status = "revoked" => standing'.status = "revoked")
    BY RevocationsStand
  <1>00. \A rank \in Ranks : lastSuited[rank] >= lastSuited[rank]
    BY <1>0
  <1>1. CASE Tick
    <2>1. now + 1 \in Nat /\ now + 1 >= now /\ now + 1 > 0
      BY <1>0
    <2>2. /\ lastSuited' \in [Ranks -> Int]
          /\ \A rank \in Ranks : lastSuited'[rank] <= now'
          /\ \A rank \in Ranks : lastSuited'[rank] >= lastSuited[rank]
          /\ SuitedNow'
      BY <1>1, <2>1, NotingSuited DEF Tick
    <2>3. SignedTruth' /\ \A c \in issued' : Signed(c)'
      BY <1>1, <2>1, <2>2, NothingSigned DEF Tick
    <2> QED BY <1>000, <1>1, <2>1, <2>2, <2>3 DEF Tick, IssuerTypes, IssuerMovesOn
  <1>2. ASSUME NEW next \in Standings, ChangeStanding(next) PROVE IssuerInv' /\ IssuerMovesOn
    <2>1. /\ lastSuited' \in [Ranks -> Int]
          /\ \A rank \in Ranks : lastSuited'[rank] <= now'
          /\ \A rank \in Ranks : lastSuited'[rank] >= lastSuited[rank]
          /\ SuitedNow'
      BY <1>0, <1>2, NotingSuited DEF ChangeStanding
    <2>2. SignedTruth' /\ \A c \in issued' : Signed(c)'
      BY <1>0, <1>2, <2>1, NothingSigned DEF ChangeStanding
    <2> QED BY <1>000, <1>0, <1>2, <2>1, <2>2 DEF ChangeStanding, IssuerTypes, IssuerMovesOn
  <1>3. ASSUME NEW key \in PlatformKeys, RotateKey(key) PROVE IssuerInv' /\ IssuerMovesOn
    <2>1. SignedTruth' /\ \A c \in issued' : Signed(c)'
      BY <1>0, <1>00, <1>3, NothingSigned DEF RotateKey
    <2>2. SuitedNow'
      BY <1>3 DEF RotateKey, SuitedNow
    <2> QED BY <1>000, <1>0, <1>00, <1>3, <2>1, <2>2 DEF RotateKey, IssuerTypes, IssuerMovesOn
  <1>4. CASE Issue
    <2>1. SignedTruth' /\ \A c \in issued' : Signed(c)'
      BY <1>4, OneSigned DEF Issue, IssuerTypes, Key
    <2>2. SuitedNow'
      BY <1>4 DEF Issue, SuitedNow
    <2> QED BY <1>000, <1>0, <1>00, <1>4, <2>1, <2>2 DEF Issue, IssuerTypes, IssuerMovesOn
  <1>5. ASSUME NEW key \in OtherKeys, NEW held \in Standings, IssueElsewhere(key, held)
        PROVE  IssuerInv' /\ IssuerMovesOn
    <2>1. key \notin PlatformKeys /\ key \in Key
      BY IssuersAreDistinct DEF Key
    <2>2. SignedTruth' /\ \A c \in issued' : Signed(c)'
      BY <1>5, <2>1, OneSigned DEF IssueElsewhere
    <2>3. SuitedNow'
      BY <1>5 DEF IssueElsewhere, SuitedNow
    <2> QED BY <1>000, <1>0, <1>00, <1>5, <2>2, <2>3 DEF IssueElsewhere, IssuerTypes, IssuerMovesOn
  <1>6. CASE UNCHANGED issuerVars
    <2>1. SignedTruth' /\ \A c \in issued' : Signed(c)'
      BY <1>0, <1>00, <1>6, NothingSigned DEF issuerVars
    <2> QED BY <1>000, <1>0, <1>00, <1>6, <2>1 DEF issuerVars, IssuerTypes, IssuerMovesOn, SuitedNow
  <1> QED BY <1>1, <1>2, <1>3, <1>4, <1>5, <1>6 DEF IssuerNext
=============================================================================
