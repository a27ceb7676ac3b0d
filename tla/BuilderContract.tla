--------------------------- MODULE BuilderContract ---------------------------
(***************************************************************************)
(* What a builder promises to its caller, without error buckets, once-only *)
(* flags, alias tables or the order of checks.  Since it was made or last  *)
(* cleared, a builder has been asked for a number of conditions and is     *)
(* faulty or not; a terminal call either refuses or sends statements that  *)
(* are a function of these two facts and of the context alone.             *)
(***************************************************************************)
EXTENDS DataRules

CONSTANTS Rules, MaxConds

VARIABLES ctxRules,  \* rules in the context, fixed
          asked,     \* conditions asked for since the last Clear
          faulty,    \* some call since the last Clear was in error
          out        \* result and statements of the last call

cvars == <<ctxRules, asked, faulty, out>>

Effective == {r \in ctxRules : RuleOutcome(r) = "appended"}
Illegal   == {r \in ctxRules : RuleOutcome(r) = "rejected"}

(* Operations for which the context's rules are not promised.              *)
UnruledOps == {"Build", "InsertSelect", "InsertSelectMap", "UpdateByIds"}

(* A statement of a ruled operation carries the conditions asked for and   *)
(* each effective rule once; only the INSERT of a creation carries none.   *)
Honest(s) ==
    IF s.path = "INSERT" THEN s.conds = 0
    ELSE /\ s.conds = asked
         /\ s.rules = [r \in Rules |-> IF r \in Effective THEN 1 ELSE 0]

CInit == /\ ctxRules \in SUBSET Rules
         /\ asked = 0
         /\ faulty = FALSE
         /\ out.op = "none" /\ out.sql = {}

Compose == /\ asked' \in {asked, asked + 1} /\ asked' <= MaxConds
           /\ faulty' \in {faulty, TRUE}
           /\ out'.op = "none" /\ out'.sql = {}

Reset == /\ asked' = 0
         /\ faulty' = FALSE
         /\ out'.op = "none" /\ out'.sql = {}

(* "builder" and "build" are the errors that report a faulty builder, and  *)
(* they are returned for a faulty builder only.                            *)
Refuse == /\ out'.op # "none" /\ out'.sql = {} /\ out'.err # "none"
          /\ asked' = asked
          /\ faulty' \in {faulty, TRUE}
          /\ out'.err \in {"builder", "build"} => faulty'

Execute == /\ ~faulty /\ ~faulty'
           /\ asked' = asked
           /\ out'.op # "none" /\ out'.err = "none"
           /\ \A s \in out'.sql : s.path # "INSERT" => s.conds = asked
           /\ out'.op \notin UnruledOps =>
                  /\ Illegal = {}
                  /\ \A s \in out'.sql : Honest(s)

(* FirstOrUpdate succeeds without its updater, faulty or not, if it finds  *)
(* no row.                                                                 *)
Unused == /\ out'.op = "FirstOrUpdate" /\ out'.err = "none" /\ out'.sql = {}
          /\ Illegal = {}
          /\ asked' = asked /\ faulty' = faulty

CNext == /\ ctxRules' = ctxRules
         /\ Compose \/ Reset \/ Refuse \/ Execute \/ Unused

Spec == CInit /\ [][CNext]_cvars
=============================================================================
