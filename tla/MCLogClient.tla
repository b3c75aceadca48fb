----------------------------- MODULE MCLogClient -----------------------------
(* Two branches; another log of the same operator and key, and a log of    *)
(* another key under the same name.                                        *)
EXTENDS LogClient

MCBranches == 1..2
MCLog == [logId |-> "log", key |-> "k1"]
MCOthers == {[logId |-> "other", key |-> "k1"], [logId |-> "log", key |-> "k2"]}
=============================================================================
