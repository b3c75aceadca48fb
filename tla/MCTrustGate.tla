----------------------------- MODULE MCTrustGate -----------------------------
(***************************************************************************)
(* Gates for TLC: one of each policy, with pins in both encodings, one     *)
(* that requireTrust refuses to build, and one left to its defaults, which *)
(* trusts whoever signed.  The platform rotates through two keys.          *)
(***************************************************************************)
EXTENDS TrustGate, TLC

NoVerify == [now |-> {}, expectedIssuer |-> {}, trustedKeys |-> {}, minSerial |-> {}]

Default == [policy |-> "online", minLevel |-> "software", behaviors |-> {},
            issuerKeys |-> {}, verify |-> NoVerify]

Online ==
    [Default EXCEPT !.verify.trustedKeys = {{Multibase("k1", "legacy"), Multibase("k2", "legacy")}},
                    !.verify.expectedIssuer = {"platform"}]

PinnedGate ==
    [Default EXCEPT !.policy = "pinned", !.minLevel = "tee", !.behaviors = {"read"},
                    !.issuerKeys = {Multibase("k1", "standard"), Multibase("k2", "legacy")}]

Offline ==
    [Default EXCEPT !.policy = "offline", !.issuerKeys = {Multibase("k2", "standard")},
                    !.verify.minSerial = {2}]

Unpinned == [Default EXCEPT !.policy = "pinned"]

MCOptions ==
    [default |-> Default, online |-> Online, pinned |-> PinnedGate,
     offline |-> Offline, unpinned |-> Unpinned]

(* The callers of these track serials, those of the others do not. *)
MCTracking == {"online", "offline"}

MCBoundary == {{{"read"}}}
=============================================================================
