--------------------------- MODULE RuleAllocation ----------------------------
(***************************************************************************)
(* wazuh-server/configure-rules.py: how the rules of the pipeline get      *)
(* their identifiers.  Options name some of them, the policy of an earlier *)
(* installation supplies others, allocate_ids finds the rest among the     *)
(* identifiers that no active rule outside the managed files uses, and the *)
(* wizard may replace them all.  The files written from the policy are the *)
(* subject of ServerInstaller.                                             *)
(***************************************************************************)
EXTENDS Naturals, SequencesExt

CONSTANTS
  RULE_ROLES,             \* the roles, in the order they are numbered
  NewRole,                \* the role that policies of earlier versions lack
  CUSTOM_MIN, CUSTOM_MAX, \* Wazuh's interval for custom rules
  DefaultStart,           \* --preferred-start when the option is not given
  Requests,               \* bound: the command lines that are tried
  MaxForeign              \* bound: rules an administrator adds

ASSUME RolesAssumption ==
  /\ RULE_ROLES \in Seq(ToSet(RULE_ROLES)) /\ IsInjective(RULE_ROLES)
  /\ NewRole \in ToSet(RULE_ROLES)
ASSUME IntervalAssumption ==
  /\ CUSTOM_MIN \in Nat /\ CUSTOM_MAX \in Nat
  /\ DefaultStart \in CUSTOM_MIN..CUSTOM_MAX
ASSUME BoundAssumption == MaxForeign \in Nat

Roles  == ToSet(RULE_ROLES)
Count  == Len(RULE_ROLES)
Custom == CUSTOM_MIN..CUSTOM_MAX

\* Functions that give some of the roles an identifier.  The one that gives
\* none stands for no options, no installed policy, and a raised ValueError.
Numbering(f, S) == DOMAIN f \subseteq Roles /\ f \in [DOMAIN f -> S]
NoIds           == [r \in {} |-> CUSTOM_MIN]

\* What f says, and what g says where f is silent.
Completed(f, g) ==
  [r \in DOMAIN f \cup DOMAIN g |-> IF r \in DOMAIN f THEN f[r] ELSE g[r]]

\* start is 0 when --preferred-start is not on the command line; joined, when the
\* options are written in one word with their values ("--ml-rule-id=100400").
NoArgs == [named |-> NoIds, start |-> 0, joined |-> FALSE, wizard |-> FALSE]

ASSUME RequestsAssumption == \A a \in Requests :
  /\ a = [named |-> a.named, start |-> a.start, joined |-> a.joined, wizard |-> a.wizard]
  /\ Numbering(a.named, Nat) /\ a.start \in Nat /\ {a.joined, a.wizard} \subseteq BOOLEAN

VARIABLES
  pc,       \* the step of main
  used,     \* the identifiers scan_used_ids finds outside the managed files
  policy,   \* the identifiers of the installed policy
  args,     \* the options: identifiers, start, wizard
  explicit, \* the identifiers in args after the installed defaults
  ids       \* what allocate_ids returned

vars == <<pc, used, policy, args, explicit, ids>>

preferred_start == IF args.start = 0 THEN DefaultStart ELSE args.start

---------------------------------------------------------------------------
(* allocate_ids *)

\* Rejected without a look at the active rules.
RejectedBlind(exp) == ~(Range(exp) \subseteq Custom) \/ ~IsInjective(exp)

\* The checks of the identifiers that were named.
Rejected(exp) ==
  \/ ~(Range(exp) \subseteq Custom)
  \/ Range(exp) \cap used # {}
  \/ ~IsInjective(exp)

\* FirstRange whose range may end one past the interval.
FirstRangePast ==
  LET scan[s \in Nat] ==
        IF s + Count - 2 > CUSTOM_MAX THEN CUSTOM_MAX + 1
        ELSE IF (s..s + Count - 1) \cap used = {} THEN s
        ELSE scan[s + 1]
  IN scan[preferred_start]

\* FirstRange that skips whole blocks.
FirstRangeByBlocks ==
  LET scan[s \in Nat] ==
        IF s + Count - 1 > CUSTOM_MAX THEN CUSTOM_MAX + 1
        ELSE IF (s..s + Count - 1) \cap used = {} THEN s
        ELSE scan[s + Count]
  IN scan[preferred_start]

\* The loop that looks for a contiguous range.
FirstRange ==
  LET scan[s \in Nat] ==
        IF s + Count - 1 > CUSTOM_MAX THEN CUSTOM_MAX + 1
        ELSE IF (s..s + Count - 1) \cap used = {} THEN s
        ELSE scan[s + 1]
  IN scan[preferred_start]

\* NextFree that never gives the last identifier.
NextFreeShort(reserved, from) ==
  LET skip[c \in Nat] ==
        IF c \in reserved \/ c = CUSTOM_MAX THEN skip[c + 1] ELSE c
  IN skip[from]

\* The loop that skips reserved identifiers.
NextFree(reserved, from) ==
  LET skip[c \in Nat] ==
        IF c \in reserved /\ c <= CUSTOM_MAX THEN skip[c + 1] ELSE c
  IN skip[from]

\* The identifiers of the missing roles, one role after the other.
Fill(exp) ==
  LET reserved == used \cup Range(exp)
      fill[k \in 0..Count] ==
        IF k = 0 THEN [ids |-> exp, candidate |-> preferred_start]
        ELSE IF RULE_ROLES[k] \in DOMAIN exp THEN fill[k - 1]
        ELSE LET c == NextFree(reserved, fill[k - 1].candidate)
             IN [ids |-> IF c > CUSTOM_MAX THEN NoIds
                         ELSE Completed(fill[k - 1].ids, [r \in {RULE_ROLES[k]} |-> c]),
                 candidate |-> c + 1]
  IN fill[Count].ids

allocate_ids(exp) ==
  IF Rejected(exp) \/ (DOMAIN exp # Roles /\ preferred_start \notin Custom)
  THEN NoIds
  ELSE IF exp = NoIds
  THEN IF FirstRange > CUSTOM_MAX THEN NoIds
       ELSE [r \in Roles |->
               FirstRange + (CHOOSE i \in 1..Count : RULE_ROLES[i] = r) - 1]
  ELSE Fill(exp)

---------------------------------------------------------------------------
(* main *)

Init ==
  /\ pc = "idle"
  /\ used \in SUBSET Custom /\ Cardinality(used) <= MaxForeign
  /\ policy = NoIds /\ args = NoArgs /\ explicit = NoIds /\ ids = NoIds

\* Start that does not read the installed policy.
StartAfresh(a) ==
  /\ pc = "idle"
  /\ args' = a
  /\ explicit' = a.named
  /\ pc' = "allocate"
  /\ UNCHANGED <<used, policy, ids>>

\* apply_installed_policy_defaults: an installed identifier stands unless the
\* command line names another, and --preferred-start disregards them all.  It
\* looks for the options as words of their own: of a joined one it sees nothing,
\* and the installed identifier stands.
Start(a) ==
  /\ pc = "idle"
  /\ args' = a
  /\ explicit' = IF a.joined THEN Completed(policy, a.named)
                 ELSE IF a.start # 0 THEN a.named
                 ELSE Completed(a.named, policy)
  /\ pc' = "allocate"
  /\ UNCHANGED <<used, policy, ids>>

Allocate ==
  /\ pc = "allocate"
  /\ ids' = allocate_ids(explicit)
  /\ pc' = IF ids' = NoIds THEN "refused"
           ELSE IF args.wizard THEN "wizard" ELSE "install"
  /\ UNCHANGED <<used, policy, args, explicit>>

\* The wizard validates the interval of each answer and nothing else.
Wizard ==
  /\ pc = "wizard"
  /\ explicit' \in [Roles -> Custom]
  /\ pc' = "reallocate"
  /\ UNCHANGED <<used, policy, args, ids>>

Reallocate ==
  /\ pc = "reallocate"
  /\ ids' = allocate_ids(explicit)
  /\ pc' = IF ids' = NoIds THEN "refused" ELSE "install"
  /\ UNCHANGED <<used, policy, args, explicit>>

Over == /\ pc' = "idle" /\ args' = NoArgs /\ explicit' = NoIds /\ ids' = NoIds
        /\ UNCHANGED used

\* make_policy looks at the identifiers once more.
Install ==
  /\ pc = "install"
  /\ policy' = IF IsInjective(ids) THEN ids ELSE policy
  /\ Over

\* A refusal, an XML that is only printed, an installation that is undone.
Abandon ==
  /\ pc \in {"refused", "install"}
  /\ UNCHANGED policy
  /\ Over

\* An administrator adds a rule of his own; an installed policy may stem from
\* a version without NewRole.
AddForeignRule ==
  /\ pc = "idle" /\ Cardinality(used) < MaxForeign
  /\ \E c \in Custom \ used : used' = used \cup {c}
  /\ UNCHANGED <<pc, policy, args, explicit, ids>>

InstalledBefore ==
  /\ pc = "idle" /\ NewRole \in DOMAIN policy
  /\ policy' = [r \in DOMAIN policy \ {NewRole} |-> policy[r]]
  /\ UNCHANGED <<pc, used, args, explicit, ids>>

Next ==
  \/ \E a \in Requests : Start(a)
  \/ Allocate \/ Wizard \/ Reallocate \/ Install \/ Abandon
  \/ AddForeignRule \/ InstalledBefore

Spec == Init /\ [][Next]_vars

---------------------------------------------------------------------------
(* Properties *)

\* The chosen identifiers stay in Wazuh's interval for custom rules.
TypeOK ==
  /\ pc \in {"idle", "allocate", "wizard", "reallocate", "install", "refused"}
  /\ used \subseteq Custom
  /\ Numbering(policy, Custom) /\ Numbering(ids, Custom)
  /\ args \in Requests \cup {NoArgs}
  /\ Numbering(explicit, Nat)

\* configure-rules.py:151: the rules of the policy that is about to be
\* installed have identifiers of their own, that no active rule has, one for
\* every role, and the ones that were asked for where some were.
AllocatedIdsAreFree ==
  pc = "install" =>
    /\ DOMAIN ids = Roles
    /\ Cardinality(Range(ids)) = Count
    /\ Range(ids) \cap used = {}
    /\ \A r \in DOMAIN explicit : ids[r] = explicit[r]

Free      == {c \in Custom : c >= preferred_start /\ c \notin used}
Fits(s)   == s..s + Count - 1 \subseteq Free
Remaining == Free \ Range(explicit)

\* configure-rules.py:166-182: identifiers that nobody named are the lowest
\* free ones from the preferred start, and contiguous when nobody named any.
LowestIdsFirst ==
  pc = "install" =>
    /\ explicit = NoIds =>
         \E s \in Custom : /\ Range(ids) = s..s + Count - 1
                           /\ Fits(s) /\ \A t \in 0..s - 1 : ~Fits(t)
    /\ explicit # NoIds =>
         \A r \in Roles \ DOMAIN explicit : \A c \in Remaining :
           c < ids[r] => c \in Range(ids)

\* configure-rules.py:154-173: a run is refused only when what was named
\* collides, or the start is no custom identifier, or there is no room left
\* from the preferred start on.
RefusesOnlyWithoutRoom ==
  pc = "refused" =>
    \/ \E r \in DOMAIN explicit : explicit[r] \in used \/ explicit[r] \notin Custom
    \/ \E r, s \in DOMAIN explicit : r # s /\ explicit[r] = explicit[s]
    \/ preferred_start \notin Custom
    \/ explicit = NoIds /\ \A s \in Custom : ~Fits(s)
    \/ explicit # NoIds
       /\ Cardinality(Remaining) < Cardinality(Roles \ DOMAIN explicit)

\* configure-rules.py:124: a run without identifiers, start or wizard never
\* renumbers an installed rule: it keeps every one, gives a role that the
\* installed policy lacks an identifier of its own, or changes nothing.
InstalledIdsAreKept ==
  [][(Install /\ args = NoArgs) =>
       \A r \in DOMAIN policy : policy'[r] = policy[r]]_vars
===============================================================================
