-------------------------- MODULE MCRuleAllocation ---------------------------
(***************************************************************************)
(* An instance of RuleAllocation: three roles of the seven, in an interval *)
(* of six identifiers.                                                     *)
(***************************************************************************)
EXTENDS RuleAllocation

MCRoles == <<"navigation", "reputation", "review">>

\* One identifier is named, or two that may be the same, or none; the start
\* is free, the default, or outside the interval; the options are words of their
\* own or joined with their values; the wizard asks for all.
Named ==
  {NoIds}
    \cup {[r \in {q} |-> n] : q \in Roles, n \in Custom \cup {CUSTOM_MAX + 1}}
    \cup {[r \in {"navigation", "review"} |->
             IF r = "review" THEN n ELSE CUSTOM_MAX] : n \in Custom}

MCRequests ==
  [named : Named, start : {0, CUSTOM_MIN, CUSTOM_MAX - 1, CUSTOM_MAX + 1},
   joined : BOOLEAN, wizard : {FALSE}]
    \cup {[NoArgs EXCEPT !.wizard = TRUE]}
===============================================================================
