--------------------------- MODULE MCQueryBuilder ---------------------------
(* Instance of QueryBuilder for TLC: one rule of each outcome.             *)
EXTENDS QueryBuilder

TenantRule == [table |-> "", column |-> "name", condition |-> "compare",
               value |-> 1, values |-> 0]
EmptyRule  == [table |-> "alias", column |-> "name", condition |-> "between",
               value |-> 0, values |-> 0]
SqlRule    == [table |-> "", column |-> "name", condition |-> "sql",
               value |-> 0, values |-> 0]

MCRules == {TenantRule, EmptyRule, SqlRule}
=============================================================================
