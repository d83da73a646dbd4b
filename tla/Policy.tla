-------------------------------- MODULE Policy --------------------------------
(***************************************************************************)
(* policy.py: an ordered list of rules, the first that matches decides,    *)
(* and what no rule matches is denied.  A pattern is the set of strings it *)
(* matches.                                                                *)
(***************************************************************************)
EXTENDS Naturals, Sequences, FiniteSetsExt

CONSTANTS
    Rules   \* sequence of [action, resource : sets of strings, least : Nat,
            \* decision]; least is the when_gte threshold, 0 for none

Matches(rule, action, resource, size) ==
    /\ action \in rule.action
    /\ resource \in rule.resource
    /\ size >= rule.least

Evaluate(action, resource, size) ==
    LET matching == {i \in DOMAIN Rules : Matches(Rules[i], action, resource, size)} IN
    IF matching = {} THEN "deny" ELSE Rules[Min(matching)].decision

\* enforce() raises on a denial and on nothing else: what needs an approval is
\* left to the caller.
Enforced(action, resource, size) == Evaluate(action, resource, size) # "deny"
===============================================================================
