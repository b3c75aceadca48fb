---------------------------- MODULE AppendOnlyLog ----------------------------
(***************************************************************************)
(* What a transparency log promises to those who read it, in two steps:    *)
(* an entry is added at the end, once; a tree head commits to a prefix of  *)
(* the log that is at least as long as every prefix committed to before.   *)
(* Nothing is ever removed or rewritten.                                   *)
(***************************************************************************)
EXTENDS Integers, Sequences

CONSTANTS
    Entry,         \* what can be added
    Root(_)        \* the commitment to a sequence of entries

VARIABLES
    log,           \* the entries, in order
    heads          \* the published tree heads, [treeSize, rootHash]

vars == <<log, heads>>

RootAt(n) == Root([i \in 1..n |-> log[i]])

Init == log = <<>> /\ heads = <<>>

Add(entry) ==
    /\ \A i \in 1..Len(log) : log[i] # entry
    /\ log' = Append(log, entry)
    /\ UNCHANGED heads

Publish(n) ==
    /\ \A k \in 1..Len(heads) : heads[k].treeSize <= n
    /\ heads' = Append(heads, [treeSize |-> n, rootHash |-> RootAt(n)])
    /\ UNCHANGED log

Next ==
    \/ \E entry \in Entry : Add(entry)
    \/ \E n \in 0..Len(log) : Publish(n)

Spec == Init /\ [][Next]_vars
=============================================================================
