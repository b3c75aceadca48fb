------------------------------ MODULE VcStatus ------------------------------
(***************************************************************************)
(* check_vc_status (packages/gdid-sdk-py/src/jiaozi_gdid/vc.py): a relying *)
(* party holds an exported VC and walks its credentialStatus entries, one  *)
(* request after the other.  A JiaoziStatusV1Entry leads to a status.v1    *)
(* credential of the moment, or to one kept by a cache; a                  *)
(* BitstringStatusListEntry leads to a list the issuer publishes when it   *)
(* gets round to it, one bit for each certificate, one list for each       *)
(* purpose.  Each request may fail, and between two of them the            *)
(* certificate's standing changes, credentials expire and lists appear.    *)
(*                                                                         *)
(* Publishing is not under src/: it is modelled by the format that         *)
(* decode_status_list_bitstring and status_list_bit read.  Multibase and   *)
(* GZIP are left out, but for encodings that do not decode.                *)
(***************************************************************************)
EXTENDS StatusReferee, Sequences

CONSTANTS
    Exports,       \* the credentialStatus values of the VCs that are checked
    Verify,        \* the verify arguments of check_vc_status
    OwnIndex,      \* the certificate's index in the lists
    Neighbours,    \* indices of other certificates, which every list has set
    ListBytes,     \* the length of a published list, in bytes
    MaxChecks      \* bound: the calls of check_vc_status

ASSUME ListsHaveBytes == ListBytes \in Nat
ASSUME OwnIndexIsListed == OwnIndex \in 0..(8 * ListBytes - 1) /\ OwnIndex \notin Neighbours
ASSUME NeighboursAreListed == Neighbours \subseteq 0..(8 * ListBytes - 1)

VARIABLES
    lists,         \* the list published last for each purpose; history: own
    call,          \* the call of check_vc_status under way, or Idle; history:
                   \*   when it started, what the lists then said of the
                   \*   certificate, the lists it read, the sources that failed
    returned,      \* what the last call returned, or NoAnswer; same history
    checks         \* the calls made

vars == <<issuerVars, lists, call, returned, checks>>

Idle == [pending |-> <<>>, running |-> FALSE]
NoAnswer == [status |-> "none"]

-----------------------------------------------------------------------------
(* Bitstring status lists.                                                 *)

Purposes == {"revocation", "suspension"}

(* Bit 0 is the highest bit of the first byte. *)
Masks == <<128, 64, 32, 16, 8, 4, 2, 1>>

EncodeBits(indices) ==
    LET Bit(k, r) == IF 8 * (k - 1) + r \in indices THEN Masks[r + 1] ELSE 0
    IN  [k \in 1..ListBytes |-> Bit(k, 0) + Bit(k, 1) + Bit(k, 2) + Bit(k, 3)
                                 + Bit(k, 4) + Bit(k, 5) + Bit(k, 6) + Bit(k, 7)]

(* Mutant: the lowest bit of a byte is its first. *)
StatusListBitReversed(bits, index) ==
    IF index >= 8 * Len(bits) THEN {} ELSE {(bits[index \div 8 + 1] \div Masks[8 - (index % 8)]) % 2 = 1}

(* The bit, or {} when the code raises. *)
StatusListBit(bits, index) ==
    IF index >= 8 * Len(bits) THEN {}
    ELSE {(bits[index \div 8 + 1] \div Masks[(index % 8) + 1]) % 2 = 1}

(* An entry is [type, url, purpose, index]: the purpose of the list its    *)
(* URL leads to, if it has one, and the purpose it states, if it does.     *)
(* The reading, or {} when the code raises.                                *)
ReadingOf(purpose, bit) == [set |-> bit, statusPurpose |-> purpose]

CheckBitstringEntry(entry, list) ==
    IF \E purpose \in entry.purpose : purpose # list.purpose THEN {}
    ELSE {ReadingOf(list.purpose, bit) : bit \in StatusListBit(list.bits, entry.index)}

-----------------------------------------------------------------------------
(* check_vc_status.                                                        *)

(* Entries of an unknown type are passed over. *)
KnownEntries(export) ==
    SelectSeq(export, LAMBDA entry :
                        entry.type \in {"JiaoziStatusV1Entry", "BitstringStatusListEntry"})

Entries ==
    UNION {{KnownEntries(export)[i] : i \in DOMAIN KnownEntries(export)} : export \in Exports}

(* A known entry leads to one of the issuer's lists, if anywhere, and has  *)
(* the certificate's place in it, or none that a list has.                 *)
ASSUME EntriesAreListed == \A export \in Exports : KnownEntries(export) \in Seq(Entries)
ASSUME EntriesAreOurs ==
    \A entry \in Entries : entry.type = "BitstringStatusListEntry" =>
      /\ entry.url \subseteq Purposes /\ entry.index \in Nat
      /\ entry.index = OwnIndex \/ entry.index >= 8 * ListBytes

CheckVcStatus(export) ==
    /\ ~call.running
    /\ checks < MaxChecks
    /\ checks' = checks + 1
    /\ call' = [running   |-> TRUE,
                pending   |-> KnownEntries(export),
                revoked   |-> FALSE,
                status    |-> "none",
                sources   |-> [jiaoziStatusV1 |-> "none", bitstringStatusList |-> "none"],
                startedAt |-> now,
                listed    |-> {p \in Purposes : lists[p].own},
                read      |-> {},
                failed    |-> {}]
    /\ returned' = NoAnswer
    /\ UNCHANGED <<issuerVars, lists>>

(* The request for the entry's credential was answered with this one. *)
ReadStatusV1(credential, clock) ==
    LET result == PyVerifyStatusCredential(credential, Verify, clock)
        status == credential.payload.status
    IN  /\ call.pending # <<>>
        /\ Head(call.pending).type = "JiaoziStatusV1Entry"
        /\ Head(call.pending).url # {}
        /\ call' = IF result = "valid"
                   THEN [call EXCEPT !.pending = Tail(@),
                                     !.status = status,
                                     !.revoked = @ \/ status = "revoked",
                                     !.sources.jiaoziStatusV1 = "valid"]
                   ELSE [call EXCEPT !.pending = Tail(@),
                                     !.sources.jiaoziStatusV1 = "invalid"]
        /\ UNCHANGED <<issuerVars, lists, returned, checks>>

(* Mutant: a list that was read speaks for all of them. *)
ReadBitstringListLastWins ==
    LET entry == Head(call.pending)
    IN  /\ call.pending # <<>>
        /\ entry.type = "BitstringStatusListEntry"
        /\ \E url \in entry.url : \E reading \in CheckBitstringEntry(entry, lists[url]) :
             call' = [call EXCEPT !.pending = Tail(@),
                                  !.revoked = reading.set /\ reading.statusPurpose = "revocation",
                                  !.sources.bitstringStatusList = "read",
                                  !.read = @ \cup {reading.statusPurpose}]
        /\ UNCHANGED <<issuerVars, lists, returned, checks>>

ReadBitstringList ==
    LET entry == Head(call.pending)
    IN  /\ call.pending # <<>>
        /\ entry.type = "BitstringStatusListEntry"
        /\ \E url \in entry.url : \E reading \in CheckBitstringEntry(entry, lists[url]) :
             call' = [call EXCEPT !.pending = Tail(@),
                                  !.revoked = @ \/ (reading.set /\ reading.statusPurpose = "revocation"),
                                  !.sources.bitstringStatusList = "read",
                                  !.read = @ \cup {reading.statusPurpose}]
        /\ UNCHANGED <<issuerVars, lists, returned, checks>>

(* Whatever raises under an entry (no URL, no answer, no JSON, a list of   *)
(* another purpose or too short) is caught and noted as its source.        *)
EntryFails ==
    LET entry == Head(call.pending)
    IN  /\ call.pending # <<>>
        /\ call' = IF entry.type = "JiaoziStatusV1Entry"
                   THEN [call EXCEPT !.pending = Tail(@), !.sources.jiaoziStatusV1 = "error",
                                     !.failed = @ \cup {"jiaoziStatusV1"}]
                   ELSE [call EXCEPT !.pending = Tail(@), !.sources.bitstringStatusList = "error",
                                     !.failed = @ \cup {"bitstringStatusList"}]
        /\ UNCHANGED <<issuerVars, lists, returned, checks>>

Combined(c) ==
    IF c.revoked THEN "revoked" ELSE IF c.status = "none" THEN "unknown" ELSE c.status

Return ==
    /\ call.running
    /\ call.pending = <<>>
    /\ returned' = [revoked |-> call.revoked, status |-> Combined(call), sources |-> call.sources,
                    startedAt |-> call.startedAt, listed |-> call.listed,
                    read |-> call.read, failed |-> call.failed]
    /\ call' = Idle
    /\ UNCHANGED <<issuerVars, lists, checks>>

-----------------------------------------------------------------------------

Init ==
    /\ IssuerInit
    /\ lists = [p \in Purposes |-> [purpose |-> p, bits |-> EncodeBits(Neighbours), own |-> FALSE]]
    /\ call = Idle
    /\ returned = NoAnswer
    /\ checks = 0

(* The issuer publishes a list, with our bit as the standing has it. *)
Publish(purpose) ==
    LET own == \/ purpose = "revocation" /\ standing.status = "revoked"
               \/ purpose = "suspension" /\ standing.status = "suspended"
    IN  /\ lists' = [lists EXCEPT ![purpose] =
                       [purpose |-> purpose, own |-> own,
                        bits |-> EncodeBits(Neighbours \cup (IF own THEN {OwnIndex} ELSE {}))]]
        /\ UNCHANGED <<issuerVars, call, returned, checks>>

IssuerStep == IssuerNext /\ UNCHANGED <<lists, call, returned, checks>>

Next ==
    \/ IssuerStep
    \/ \E purpose \in Purposes : Publish(purpose)
    \/ \E export \in Exports : CheckVcStatus(export)
    \/ \E credential \in issued \cup {Malformed}, clock \in GateClock :
         ReadStatusV1(credential, clock)
    \/ ReadBitstringList
    \/ EntryFails
    \/ Return

Spec == Init /\ [][Next]_vars

-----------------------------------------------------------------------------
(* Properties.                                                             *)

(* The verify arguments pin the platform's keys and leave the clock alone. *)
VerifyPinsPlatform ==
    /\ Verify.now = {}
    /\ \E keys \in Verify.trustedKeys :
         keys \subseteq {Multibase(key, "legacy") : key \in PlatformKeys}

(* An answer "active" is as fresh as status.v1 makes it, whichever of the  *)
(* two channels worked, in whatever order, and however old the lists are:  *)
(* the certificate was active a TTL (and the clocks' distance) before the  *)
(* call at the earliest.                                                   *)
ActiveIsRecent ==
    /\ VerifyPinsPlatform
    /\ returned.status = "active"
    => lastSuited[TRUST_RANK["software"]] >= returned.startedAt - Ttl - MaxSkew

(* No certificate is reported revoked that is not: not for a neighbour's   *)
(* bit, not for its suspension, not for what another issuer says.          *)
RevokedIsTrue ==
    VerifyPinsPlatform /\ returned # NoAnswer /\ returned.revoked => standing.status = "revoked"

(* "Revoked on either channel => revoked" (vc.py): a call that got to read *)
(* the revocation list answers revoked if the list said so when the call   *)
(* began, whatever status.v1 says (a cache may still have the credential   *)
(* of before), whichever list is read after it, and whatever else fails;   *)
(* and status and flag agree.                                              *)
RevocationReported ==
    returned # NoAnswer =>
      /\ "revocation" \in returned.listed \cap returned.read => returned.revoked
      /\ returned.revoked <=> returned.status = "revoked"

(* "Semantics are a line-for-line port of gdid-sdk-js require-trust.ts"    *)
(* (require_trust.py): the two SDKs build the same gates from the same     *)
(* options, and those gates decide alike, down to the reason code, on      *)
(* every credential there is, at any time.  The options are those of the   *)
(* moment the gate was built: the JavaScript gate reads its verify options *)
(* at each call, the Python one has copied them.  Calls change nothing a   *)
(* gate can be shown, so worlds before the first call are enough.  The     *)
(* referee, the third implementation, agrees with the reference about      *)
(* every credential too, and about its test vectors.                       *)
PortDecidesAlike ==
    checks = 0 => \A o \in GateOptions : DecideAlike(o) /\ RefereeDecidesAlike(o)

(* "Deny responses mirror the JS requireTrustExpress body" (integrations.py) *)
(* as far as they do: behind Express, FastAPI, Flask and the demo server, a *)
(* request meets one answer.                                               *)
FrontsAnswerAlike == checks = 0 => \A o \in GateOptions : AnswerAlike(o)

(* "each source is either a result dict or {"error": ...} (network/shape   *)
(* failures are reported, not swallowed)" (vc.py:289): a request that      *)
(* failed shows as the error of its source.                                *)
FailuresReported ==
    returned # NoAnswer => \A source \in returned.failed : returned.sources[source] = "error"
=============================================================================
