------------------------------ MODULE DataRules ------------------------------
(***************************************************************************)
(* How one row-level permission rule (DataRule, builder.go) is turned into *)
(* a condition of the builder that carries it.  Query.applyDataRule and    *)
(* Updater.applyDataRule have the same control; what they distinguish in a *)
(* rule is:                                                                *)
(*   table      the Table field: "" / a single identifier / anything else  *)
(*   column     the Column field: a bare name / "table.name" / an          *)
(*              expression outside the white list                          *)
(*   condition  the operator after ToUpper(TrimSpace(Condition))           *)
(*   value      the number of comma-separated parts of Value, 0 for ""     *)
(*   values     len(Values)                                                *)
(***************************************************************************)
EXTENDS Naturals

Tables     == {"", "alias", "illegal"}
Columns    == {"name", "table.name", "expression"}
ValueOps   == {"compare", "list", "between"}   \* =,<,LIKE,.. / IN,NOT IN / BETWEEN
Conditions == ValueOps \cup {"null", "sql", "unknown"}

DataRule == [table: Tables, column: Columns, condition: Conditions,
             value: Nat, values: Nat]

(* resolveDataRuleColumn: a rule with a Table must have a bare Column and a *)
(* single-segment Table; one without may use the "table.name" form.         *)
ColumnResolves(rule) ==
    IF rule.table = "" THEN rule.column # "expression"
                       ELSE rule.column = "name" /\ rule.table = "alias"

(* The early return of applyDataRule: a legal value operator without value. *)
Ignored(rule) ==
    /\ rule.value = 0 /\ rule.values = 0
    /\ rule.condition \in ValueOps

(* len(parts) of the BETWEEN branch; splitTrimmed("") yields one part.      *)
BetweenParts(rule) ==
    CASE rule.values = 2                     -> 2
      [] rule.values # 2 /\ rule.value = 0   -> 1
      [] rule.values # 2 /\ rule.value # 0   -> rule.value

(* applyDataRule: the rule becomes one condition, is ignored, or leaves an  *)
(* error in the builder's own bucket.                                       *)
RuleOutcome(rule) ==
    IF ~ColumnResolves(rule) THEN "rejected"
    ELSE IF Ignored(rule) THEN "ignored"
    ELSE IF \/ rule.condition \in {"sql", "unknown"}
            \/ rule.condition = "between" /\ BetweenParts(rule) # 2
         THEN "rejected"
    ELSE "appended"

(* The intent, stated without the order of the code's tests: a rule may only *)
(* be skipped when its operator takes a value, the value is empty and its    *)
(* column is well formed; an operator outside the list is never skipped.     *)
Unsafe(rule) ==
    \/ rule.column = "expression"
    \/ rule.table # "" /\ (rule.table = "illegal" \/ rule.column = "table.name")
    \/ rule.condition \in {"sql", "unknown"}
==============================================================================
