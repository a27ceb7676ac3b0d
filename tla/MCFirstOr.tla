------------------------------ MODULE MCFirstOr ------------------------------
(* Instances of FirstOr: searches for one value, with and without rules,   *)
(* updates that move a row to another value or another tenant.             *)
EXTENDS FirstOr
MCIds == 1..2
Asked(op, ruled, updRuled, set) ==
    [op |-> op, val |-> "v", defaults |-> [val |-> "v", tenant |-> "own"],
     ruled |-> ruled, updRuled |-> updRuled, set |-> set]
MCCalls ==
    {Asked("create", TRUE, FALSE, [val |-> "v"]),
     Asked("update", TRUE, TRUE, [val |-> "w"]),
     Asked("update", TRUE, TRUE, [tenant |-> "foreign"]),
     Asked("update", TRUE, FALSE, [tenant |-> "own"])}
=============================================================================
