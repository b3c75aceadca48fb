----------------------------- MODULE MCVcStatus -----------------------------
(***************************************************************************)
(* Exported VCs for TLC: with both channels in either order, with both     *)
(* lists, with a purpose that does not match, an index beyond the list, an *)
(* entry without URL, and an entry of a type nobody knows.                 *)
(***************************************************************************)
EXTENDS StatusProbe

NoVerify == [now |-> {}, expectedIssuer |-> {}, trustedKeys |-> {}, minSerial |-> {}]

MCVerify == [NoVerify EXCEPT !.trustedKeys = {{Multibase("k1", "legacy")}}]

StatusV1 == [type |-> "JiaoziStatusV1Entry", url |-> {"status"}]
ListEntry(url, purpose, index) ==
    [type |-> "BitstringStatusListEntry", url |-> url, purpose |-> purpose, index |-> index]

MCOwnIndex == 9
MCNeighbours == {14}

Revocation == ListEntry({"revocation"}, {"revocation"}, MCOwnIndex)
Suspension == ListEntry({"suspension"}, {}, MCOwnIndex)
Mismatched == ListEntry({"suspension"}, {"revocation"}, MCOwnIndex)
Beyond == ListEntry({"revocation"}, {}, 16)
NoUrl == [StatusV1 EXCEPT !.url = {}]
Other == [type |-> "SomethingElse"]

MCExports ==
    {<<StatusV1, Other, Revocation>>, <<Revocation, Suspension, StatusV1>>,
     <<Mismatched, NoUrl, Beyond>>}

MCOneOfEach == {<<Revocation, Suspension>>}

Default == [policy |-> "online", minLevel |-> "software", behaviors |-> {},
            issuerKeys |-> {}, verify |-> NoVerify]

MCGateOptions ==
    {Default,
     [Default EXCEPT !.verify = MCVerify, !.verify.expectedIssuer = {"platform"},
                     !.minLevel = "tee"],
     [Default EXCEPT !.policy = "pinned", !.issuerKeys = {Multibase("k1", "standard")},
                     !.behaviors = {"write"}],
     [Default EXCEPT !.policy = "offline", !.issuerKeys = {Multibase("k1", "legacy")},
                     !.verify.minSerial = {2}],
     [Default EXCEPT !.policy = "pinned"]}
=============================================================================
