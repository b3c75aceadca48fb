---------------------------- MODULE MCLifecycle ----------------------------
(***************************************************************************)
(* Certificates for TLC: trees with a file of every treatment (hashed and  *)
(* searched, searched alone, hashed alone, a picture), good and bad; a     *)
(* single file that a directory's hash would leave out, code and a         *)
(* picture; and no file at all.  The default chain, one without software,  *)
(* and one of nobody.                                                      *)
(***************************************************************************)
EXTENDS Lifecycle, TLC

Directory(files) == [kind |-> "directory", files |-> files]
File(suffix, content) == [kind |-> "file", files |-> suffix :> content]

Plain == [py |-> "plain", mjs |-> "plain", md |-> "plain", png |-> "leaky"]

MCTrees ==
    {Directory(Plain), NoFiles,
     Directory([Plain EXCEPT !.py = "risky"]), Directory([Plain EXCEPT !.py = "leaky"]),
     Directory([Plain EXCEPT !.py = "locked"]), Directory([Plain EXCEPT !.mjs = "risky"]),
     Directory([Plain EXCEPT !.mjs = "locked", !.md = "leaky"]),
     File("mjs", "risky"), File("png", "leaky")}

MCChains == {DEFAULT_CHAIN, <<"tee", "cloud_attest">>, <<>>}

MCCoreHost == <<"core">>

KeySymmetry == Permutations(OwnerKeys)
=============================================================================
