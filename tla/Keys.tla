-------------------------------- MODULE Keys --------------------------------
(***************************************************************************)
(* Public keys and signatures (packages/gdid-core/src/keys.ts), as status  *)
(* credentials, signed tree heads and DID documents use them.              *)
(*                                                                         *)
(* A signature is the pair of the key that made it and the payload it      *)
(* covers, so canonicalJson is taken to be injective and Ed25519 to be     *)
(* unforgeable.  A public key is a key in one of two encodings: "legacy"   *)
(* is z + base64url of the raw key, which is what this library signs and   *)
(* verifies with; "standard" is z6Mk..., as DID documents publish it.      *)
(***************************************************************************)

Multibase(key, form) == [key |-> key, form |-> form]

ToStandardEd25519Multibase(multibase) == [multibase EXCEPT !.form = "standard"]

SignWithPkcs8(key, payload) == [by |-> key, of |-> payload]

(* The standard form does not decode to the raw key here: it never fits.   *)
VerifyWithMultibase(multibase, payload, signature) ==
    /\ multibase.form = "legacy"
    /\ signature = SignWithPkcs8(multibase.key, payload)
=============================================================================
