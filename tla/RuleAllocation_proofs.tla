----------------------- MODULE RuleAllocation_proofs -----------------------
(***************************************************************************)
(* Proofs about RuleAllocation, for every list of roles, interval, default *)
(* start, set of command lines and set of foreign rules.  The loops of     *)
(* allocate_ids are recursive functions; what they compute is proved by    *)
(* taking the least number at which a claim about them would fail.         *)
(***************************************************************************)
EXTENDS RuleAllocation, FiniteSetTheorems, WellFoundedInduction, TLAPS

-----------------------------------------------------------------------------
(* Counting up and counting down.                                          *)

\* A nonempty set of natural numbers has a least element.
LEMMA LeastNatural ==
    ASSUME NEW T \in SUBSET Nat, T # {}
    PROVE  \E n \in T : \A m \in T : n <= m
<1> DEFINE R == {p \in Nat \X Nat : p[1] < p[2]}
<1>1. IsWellFoundedOn(R, Nat)
    BY NatLessThanWellFounded DEF OpToRel
<1> HIDE DEF R
<1>2. \E n \in T : \A m \in T : ~(<<m, n>> \in R)
    BY <1>1, WFMin
<1>3. PICK n \in T : \A m \in T : ~(<<m, n>> \in R)
    BY <1>2
<1>4. \A m \in T : n <= m
    <2> TAKE m \in T
    <2>1. <<m, n>> \notin R /\ m \in Nat /\ n \in Nat
        BY <1>3
    <2> QED
        BY <2>1 DEF R
<1> QED
    BY <1>4

\* A set that holds 0, and the successor of each number it holds, holds them all.
LEMMA CountingUp ==
    ASSUME NEW S, 0 \in S, \A n \in Nat : n \in S => n + 1 \in S
    PROVE  \A n \in Nat : n \in S
<1> DEFINE T == Nat \ S
<1> SUFFICES ASSUME T # {} PROVE FALSE
    OBVIOUS
<1>1. PICK n \in T : \A m \in T : n <= m
    BY LeastNatural
<1>2. n # 0 /\ n - 1 \in Nat /\ (n - 1) + 1 = n /\ ~(n <= n - 1)
    BY <1>1
<1>3. n - 1 \in S
    BY <1>1, <1>2
<1>4. n \in S
    BY <1>2, <1>3
<1> QED
    BY <1>1, <1>4

\* A set that holds every number above N, and the predecessor of each number it holds,
\* holds them all.
LEMMA CountingDown ==
    ASSUME NEW S, NEW N \in Nat,
           \A n \in Nat : n > N => n \in S,
           \A n \in Nat : n + 1 \in S => n \in S
    PROVE  \A n \in Nat : n \in S
<1> DEFINE D == {d \in Nat : \A n \in Nat : n + d > N => n \in S}
<1>1. 0 \in D
    OBVIOUS
<1>2. ASSUME NEW d \in Nat, d \in D
      PROVE  d + 1 \in D
    <2> SUFFICES ASSUME NEW n \in Nat, n + (d + 1) > N
                 PROVE  n \in S
        OBVIOUS
    <2>1. (n + 1) + d > N /\ n + 1 \in Nat
        OBVIOUS
    <2>2. n + 1 \in S
        BY <1>2, <2>1
    <2> QED
        BY <2>2
<1> HIDE DEF D
<1>3. \A d \in Nat : d \in D
    BY <1>1, <1>2, CountingUp
<1>4. N + 1 \in D
    BY <1>3
<1> QED
    BY <1>4 DEF D

\* The least element of OKs from s on, for every s, is a function; d where there is none.
LEMMA Search ==
    ASSUME NEW OKs \in SUBSET Nat, NEW d
    PROVE  \E w : /\ w = [s \in Nat |-> w[s]]
                  /\ \A s \in OKs : w[s] = s
                  /\ \A s \in Nat \ OKs : w[s] = w[s + 1]
                  /\ \A s \in Nat : (\A t \in OKs : t < s) => w[s] = d
<1> DEFINE L(s, n) == n \in OKs /\ n >= s /\ \A t \in OKs : t >= s => n <= t
           w == [s \in Nat |-> IF \E n : L(s, n) THEN CHOOSE n : L(s, n) ELSE d]
<1>1. \A s \in Nat : \A m, n : L(s, m) /\ L(s, n) => m = n
    OBVIOUS
<1>2. \A s \in OKs : L(s, s)
    OBVIOUS
<1>3. \A s \in Nat \ OKs : \A n : L(s, n) <=> L(s + 1, n)
    <2> TAKE s \in Nat \ OKs
    <2>1. \A t \in OKs : t >= s <=> t >= s + 1
        OBVIOUS
    <2> QED
        BY <2>1
<1>4. \A s \in Nat : (\A t \in OKs : t < s) => \A n : ~L(s, n)
    <2> SUFFICES ASSUME NEW s \in Nat, \A t \in OKs : t < s, NEW n \in OKs, n >= s
                 PROVE  FALSE
        OBVIOUS
    <2>1. n < s /\ n \in Nat
        OBVIOUS
    <2> QED
        BY <2>1
<1>5. \A s \in Nat : s + 1 \in Nat
    OBVIOUS
<1> HIDE DEF L
<1>6. \A s \in Nat : \A n : L(s, n) => w[s] = n
    <2> TAKE s \in Nat
    <2> TAKE n
    <2> SUFFICES ASSUME L(s, n) PROVE w[s] = n
        OBVIOUS
    <2>1. L(s, CHOOSE m : L(s, m))
        OBVIOUS
    <2>2. (CHOOSE m : L(s, m)) = n
        BY <2>1, <1>1
    <2> QED
        BY <2>2
<1>7. \A s \in Nat : (\A n : ~L(s, n)) => w[s] = d
    OBVIOUS
<1>8. w = [s \in Nat |-> w[s]]
    OBVIOUS
<1> HIDE DEF w
<1>9. \A s \in OKs : w[s] = s
    BY <1>2, <1>6
<1>10. \A s \in Nat \ OKs : w[s] = w[s + 1]
    <2> TAKE s \in Nat \ OKs
    <2>1. CASE \E n : L(s, n)
        <3>1. PICK n : L(s, n)
            BY <2>1
        <3>2. L(s + 1, n)
            BY <3>1, <1>3
        <3> QED
            BY <3>1, <3>2, <1>5, <1>6
    <2>2. CASE ~ \E n : L(s, n)
        <3>1. \A n : ~L(s + 1, n)
            BY <2>2, <1>3
        <3> QED
            BY <2>2, <3>1, <1>5, <1>7
    <2> QED
        BY <2>1, <2>2
<1>11. \A s \in Nat : (\A t \in OKs : t < s) => w[s] = d
    BY <1>4, <1>7
<1> QED
    BY <1>8, <1>9, <1>10, <1>11

-----------------------------------------------------------------------------
(* The roles.                                                              *)

\* The list of roles names each of them once, and there is one at least.
LEMMA RoleFacts ==
    /\ Count \in Nat /\ Count >= 1
    /\ \A i \in 1..Count : RULE_ROLES[i] \in Roles
    /\ \A r \in Roles : \E i \in 1..Count : RULE_ROLES[i] = r
    /\ \A i, j \in 1..Count : RULE_ROLES[i] = RULE_ROLES[j] => i = j
    /\ IsFiniteSet(Roles) /\ Cardinality(Roles) = Count
<1>1. Count \in Nat /\ DOMAIN RULE_ROLES = 1..Count
    BY RolesAssumption DEF Count
<1>2. \A i \in 1..Count : RULE_ROLES[i] \in Roles
    BY <1>1 DEF Roles, ToSet
<1>3. \A r \in Roles : \E i \in 1..Count : RULE_ROLES[i] = r
    BY <1>1 DEF Roles, ToSet
<1>4. \A i, j \in 1..Count : RULE_ROLES[i] = RULE_ROLES[j] => i = j
    BY <1>1, RolesAssumption DEF IsInjective
<1>5. Count >= 1
    <2>1. NewRole \in Roles
        BY RolesAssumption DEF Roles
    <2>2. PICK i \in 1..Count : RULE_ROLES[i] = NewRole
        BY <1>3, <2>1
    <2> QED
        BY <2>2, <1>1
<1>6. IsFiniteSet(Roles) /\ Cardinality(Roles) = Count
    <2> DEFINE f == [i \in 1..Count |-> RULE_ROLES[i]]
    <2>1. f \in [1..Count -> Roles]
        BY <1>2
    <2>2. IsInjective(f)
        BY <1>4 DEF IsInjective
    <2>3. \A r \in Roles : \E i \in 1..Count : f[i] = r
        BY <1>3
    <2> HIDE DEF f
    <2>4. f \in Injection(1..Count, Roles) /\ f \in Surjection(1..Count, Roles)
        BY <2>1, <2>2, <2>3 DEF Injection, Surjection
    <2>5. ExistsBijection(1..Count, Roles)
        BY <2>4 DEF ExistsBijection, Bijection
    <2>6. IsFiniteSet(1..Count) /\ Cardinality(1..Count) = Count
        BY <1>1, <1>5, FS_Interval
    <2> QED
        BY <2>5, <2>6, FS_Bijection
<1> QED
    BY <1>1, <1>2, <1>3, <1>4, <1>5, <1>6

\* Distinct identifiers of all the roles are as many as the roles.
LEMMA AsManyAsRoles ==
    ASSUME NEW f, DOMAIN f = Roles, IsInjective(f)
    PROVE  Cardinality(Range(f)) = Count
<1> DEFINE g == [r \in Roles |-> f[r]]
<1>1. g \in [Roles -> Range(f)] /\ IsInjective(g)
    BY DEF Range, IsInjective
<1>2. \A c \in Range(f) : \E r \in Roles : g[r] = c
    BY DEF Range
<1> HIDE DEF g
<1>3. g \in Injection(Roles, Range(f)) /\ g \in Surjection(Roles, Range(f))
    BY <1>1, <1>2 DEF Injection, Surjection
<1>4. ExistsBijection(Roles, Range(f))
    BY <1>3 DEF ExistsBijection, Bijection
<1> QED
    BY <1>4, RoleFacts, FS_Bijection

\* No identifiers at all are the identifiers of no role.
LEMMA NoIdsFacts ==
    /\ DOMAIN NoIds = {} /\ Range(NoIds) = {} /\ Numbering(NoIds, Custom)
    /\ Numbering(NoIds, Nat)
    /\ \A f, S : Numbering(f, S) /\ DOMAIN f = {} => f = NoIds
    /\ Roles # {}
<1>1. DOMAIN NoIds = {} /\ Range(NoIds) = {}
    BY DEF NoIds, Range
<1>2. Numbering(NoIds, Custom) /\ Numbering(NoIds, Nat)
    BY DEF NoIds, Numbering
<1>3. \A f, S : Numbering(f, S) /\ DOMAIN f = {} => f = NoIds
    BY DEF NoIds, Numbering
<1>4. Roles # {}
    BY RolesAssumption DEF Roles
<1> QED
    BY <1>1, <1>2, <1>3, <1>4

-----------------------------------------------------------------------------
(* The two loops.                                                          *)

\* The starts at which a contiguous range of free identifiers fits, when u are taken.
Fitting(u) == {s \in Nat : s + Count - 1 <= CUSTOM_MAX /\ (s..s + Count - 1) \cap u = {}}

\* The recursion of FirstRange has a solution.
LEMMA RangeScanExists ==
    ASSUME NEW u
    PROVE  \E g : g = [s \in Nat |->
                         IF s + Count - 1 > CUSTOM_MAX THEN CUSTOM_MAX + 1
                         ELSE IF (s..s + Count - 1) \cap u = {} THEN s
                         ELSE g[s + 1]]
<1> DEFINE fits == Fitting(u)
           past == CUSTOM_MAX + 1
<1>1. CUSTOM_MAX \in Nat /\ Count \in Nat /\ Count >= 1
    BY IntervalAssumption, RoleFacts
<1>2. fits \in SUBSET Nat
    BY DEF Fitting
<1>3. \A s \in Nat : s + Count - 1 > CUSTOM_MAX => s \notin fits /\ \A t \in fits : t < s
    BY <1>1 DEF Fitting
<1>4. \A s \in Nat : ~(s + Count - 1 > CUSTOM_MAX)
                     => (s \in fits <=> (s..s + Count - 1) \cap u = {})
    BY <1>1 DEF Fitting
<1> HIDE DEF fits, past
<1>5. PICK w : /\ w = [s \in Nat |-> w[s]]
               /\ \A s \in fits : w[s] = s
               /\ \A s \in Nat \ fits : w[s] = w[s + 1]
               /\ \A s \in Nat : (\A t \in fits : t < s) => w[s] = past
    BY <1>2, Search, Zenon
<1>6. \A s \in Nat : w[s] = IF s + Count - 1 > CUSTOM_MAX THEN CUSTOM_MAX + 1
                            ELSE IF (s..s + Count - 1) \cap u = {} THEN s
                            ELSE w[s + 1]
    BY <1>3, <1>4, <1>5 DEF past
<1>7. w = [s \in Nat |-> IF s + Count - 1 > CUSTOM_MAX THEN CUSTOM_MAX + 1
                         ELSE IF (s..s + Count - 1) \cap u = {} THEN s
                         ELSE w[s + 1]]
    BY <1>5, <1>6
<1> QED
    BY <1>7

\* A solution of it gives, from any start on, the first range that fits, or a number past
\* the interval when there is none.
LEMMA RangeScanFinds ==
    ASSUME NEW u, NEW scan,
           scan = [s \in Nat |->
                     IF s + Count - 1 > CUSTOM_MAX THEN CUSTOM_MAX + 1
                     ELSE IF (s..s + Count - 1) \cap u = {} THEN s
                     ELSE scan[s + 1]]
    PROVE  \A s \in Nat :
             \/ /\ scan[s] \in Fitting(u) /\ scan[s] >= s
                /\ \A t \in Fitting(u) : t >= s => scan[s] <= t
             \/ scan[s] = CUSTOM_MAX + 1 /\ \A t \in Fitting(u) : t < s
<1> DEFINE fits == Fitting(u)
<1>1. CUSTOM_MAX \in Nat /\ Count \in Nat /\ Count >= 1
    BY IntervalAssumption, RoleFacts
<1>2. fits \in SUBSET Nat
    BY DEF Fitting
<1>3. \A s \in Nat : s + Count - 1 > CUSTOM_MAX => s \notin fits /\ \A t \in fits : t < s
    BY <1>1 DEF Fitting
<1>4. \A s \in Nat : ~(s + Count - 1 > CUSTOM_MAX)
                     => (s \in fits <=> (s..s + Count - 1) \cap u = {})
    BY <1>1 DEF Fitting
<1>5. \A s \in Nat : scan[s] = IF s + Count - 1 > CUSTOM_MAX THEN CUSTOM_MAX + 1
                               ELSE IF (s..s + Count - 1) \cap u = {} THEN s
                               ELSE scan[s + 1]
    OBVIOUS
<1> HIDE DEF fits
<1> DEFINE S == {s \in Nat : \/ /\ scan[s] \in fits /\ scan[s] >= s
                                /\ \A t \in fits : t >= s => scan[s] <= t
                             \/ scan[s] = CUSTOM_MAX + 1 /\ \A t \in fits : t < s}
<1>6. \A n \in Nat : n > CUSTOM_MAX => n \in S
    <2> TAKE n \in Nat
    <2> HAVE n > CUSTOM_MAX
    <2>1. n + Count - 1 > CUSTOM_MAX
        BY <1>1
    <2> QED
        BY <2>1, <1>3, <1>5
<1>7. \A n \in Nat : n + 1 \in S => n \in S
    <2> TAKE n \in Nat
    <2> HAVE n + 1 \in S
    <2>1. CASE n + Count - 1 > CUSTOM_MAX
        BY <2>1, <1>3, <1>5
    <2>2. CASE n \in fits
        <3>1. scan[n] = n
            BY <2>2, <1>3, <1>4, <1>5
        <3>2. \A t \in fits : t >= n => n <= t
            BY <1>2
        <3> QED
            BY <3>1, <3>2, <2>2
    <2>3. CASE ~(n + Count - 1 > CUSTOM_MAX) /\ n \notin fits
        <3>1. scan[n] = scan[n + 1]
            BY <2>3, <1>4, <1>5
        <3>2. \A t \in fits : (t >= n <=> t >= n + 1) /\ (t < n <=> t < n + 1)
            BY <2>3, <1>2
        <3>3. scan[n + 1] \in Nat => (scan[n + 1] >= n + 1 => scan[n + 1] >= n)
            OBVIOUS
        <3> QED
            BY <3>1, <3>2, <3>3, <1>2
    <2> QED
        BY <2>1, <2>2, <2>3
<1> HIDE DEF S
<1>8. \A n \in Nat : n \in S
    BY <1>1, <1>6, <1>7, CountingDown
<1> QED
    BY <1>8 DEF S, fits

\* The loop that looks for a contiguous range finds the first one that fits, or runs past
\* the interval when none does.
LEMMA FirstRangeIsFirst ==
    ASSUME preferred_start \in Nat
    PROVE  \/ /\ FirstRange \in Fitting(used) /\ FirstRange >= preferred_start
              /\ \A t \in Fitting(used) : t >= preferred_start => FirstRange <= t
           \/ /\ FirstRange = CUSTOM_MAX + 1
              /\ \A t \in Fitting(used) : t < preferred_start
<1> DEFINE P(g) == g = [s \in Nat |->
                          IF s + Count - 1 > CUSTOM_MAX THEN CUSTOM_MAX + 1
                          ELSE IF (s..s + Count - 1) \cap used = {} THEN s
                          ELSE g[s + 1]]
           scan == CHOOSE g : P(g)
<1>1. FirstRange = scan[preferred_start]
    BY DEF FirstRange
<1>2. \E g : P(g)
    BY RangeScanExists
<1> HIDE DEF P
<1>3. P(scan)
    BY <1>2
<1> HIDE DEF scan
<1>4. \A s \in Nat :
        \/ /\ scan[s] \in Fitting(used) /\ scan[s] >= s
           /\ \A t \in Fitting(used) : t >= s => scan[s] <= t
        \/ scan[s] = CUSTOM_MAX + 1 /\ \A t \in Fitting(used) : t < s
    BY <1>3, RangeScanFinds DEF P
<1> QED
    BY <1>1, <1>4

\* The loop that skips reserved identifiers passes over reserved ones only, and stops at
\* one that is not, or past the interval.
LEMMA NextFreeIsNext ==
    ASSUME NEW reserved, NEW from \in Nat
    PROVE  /\ NextFree(reserved, from) \in Nat /\ NextFree(reserved, from) >= from
           /\ NextFree(reserved, from) \notin reserved
              \/ NextFree(reserved, from) > CUSTOM_MAX
           /\ \A n \in Nat : n >= from /\ n < NextFree(reserved, from) => n \in reserved
<1> DEFINE P(g) == g = [c \in Nat |->
                          IF c \in reserved /\ c <= CUSTOM_MAX THEN g[c + 1] ELSE c]
           skip == CHOOSE g : P(g)
           Stops == {c \in Nat : ~(c \in reserved /\ c <= CUSTOM_MAX)}
<1>1. NextFree(reserved, from) = skip[from]
    BY DEF NextFree
<1>2. CUSTOM_MAX \in Nat
    BY IntervalAssumption
<1>3. \E g : P(g)
    <2>1. PICK w : /\ w = [c \in Nat |-> w[c]]
                   /\ \A c \in Stops : w[c] = c
                   /\ \A c \in Nat \ Stops : w[c] = w[c + 1]
                   /\ \A s \in Nat : (\A t \in Stops : t < s) => w[s] = 0
        <3>1. Stops \in SUBSET Nat
            OBVIOUS
        <3> HIDE DEF P, Stops
        <3> QED BY <3>1, Search, Zenon
    <2>2. \A c \in Nat : w[c] = IF c \in reserved /\ c <= CUSTOM_MAX THEN w[c + 1] ELSE c
        BY <2>1
    <2>3. P(w)
        BY <2>1, <2>2
    <2> QED
        BY <2>3
<1> HIDE DEF P
<1>4. P(skip)
    BY <1>3
<1>5. \A c \in Nat : skip[c] = IF c \in reserved /\ c <= CUSTOM_MAX THEN skip[c + 1] ELSE c
    BY <1>4 DEF P
<1> HIDE DEF skip, Stops
<1> DEFINE S == {c \in Nat : /\ skip[c] \in Nat /\ skip[c] >= c
                             /\ skip[c] \notin reserved \/ skip[c] > CUSTOM_MAX
                             /\ \A n \in Nat : n >= c /\ n < skip[c] => n \in reserved}
<1>6. \A c \in Nat : c > CUSTOM_MAX => c \in S
    BY <1>2, <1>5
<1>7. \A c \in Nat : c + 1 \in S => c \in S
    <2> TAKE c \in Nat
    <2> HAVE c + 1 \in S
    <2>1. CASE c \in reserved /\ c <= CUSTOM_MAX
        <3>1. skip[c] = skip[c + 1]
            BY <2>1, <1>5
        <3>2. \A n \in Nat : n >= c => n = c \/ n >= c + 1
            OBVIOUS
        <3>3. skip[c] \in Nat /\ skip[c] >= c
            BY <3>1
        <3> QED
            BY <3>1, <3>2, <3>3, <2>1
    <2>2. CASE ~(c \in reserved /\ c <= CUSTOM_MAX)
        BY <2>2, <1>2, <1>5
    <2> QED
        BY <2>1, <2>2
<1> HIDE DEF S
<1>8. from \in S
    BY <1>2, <1>6, <1>7, CountingDown
<1> QED
    BY <1>1, <1>8 DEF S

-----------------------------------------------------------------------------
(* The roles that nobody named.                                            *)

\* What is left for them when e is named, u is taken and p is the preferred start.
Room(e, u, p) == {c \in Custom : c >= p /\ c \notin u} \ Range(e)

\* Those among the first k roles.
Missing(e, k) == {RULE_ROLES[i] : i \in 1..k} \ DOMAIN e

\* One pass of the loop of allocate_ids, for the k-th role.
Filled(e, u, s, k) ==
  IF RULE_ROLES[k] \in DOMAIN e THEN s
  ELSE [ids |-> IF NextFree(u \cup Range(e), s.candidate) > CUSTOM_MAX THEN NoIds
                ELSE Completed(s.ids, [r \in {RULE_ROLES[k]} |->
                                         NextFree(u \cup Range(e), s.candidate)]),
        candidate |-> NextFree(u \cup Range(e), s.candidate) + 1]

\* g is all the passes, one after the other.
Passes(e, u, p, g) ==
  g = [k \in 0..Count |-> IF k = 0 THEN [ids |-> e, candidate |-> p]
                          ELSE Filled(e, u, g[k - 1], k)]

\* While there is room the roles have the lowest free identifiers, one each; when it has
\* run out there was less of it than there are roles.
Roomy(e, u, p, k, s) ==
  /\ s.ids = [r \in DOMAIN e \cup Missing(e, k) |-> s.ids[r]]
  /\ \A r \in DOMAIN e : s.ids[r] = e[r]
  /\ s.candidate \in Nat /\ s.candidate >= p
  /\ \A r \in Missing(e, k) : s.ids[r] \in Room(e, u, p) /\ s.ids[r] < s.candidate
  /\ \A q, r \in Missing(e, k) : s.ids[q] = s.ids[r] => q = r
  /\ \A c \in Room(e, u, p) : c < s.candidate => \E r \in Missing(e, k) : s.ids[r] = c

Exhausted(e, u, p, s) ==
  /\ s.ids = NoIds
  /\ s.candidate \in Nat /\ s.candidate > CUSTOM_MAX
  /\ Cardinality(Room(e, u, p)) < Cardinality(Roles \ DOMAIN e)

\* The recursion of Fill has a solution.
LEMMA FillExists ==
    ASSUME NEW e, NEW u, NEW p
    PROVE  \E g : Passes(e, u, p, g)
<1> DEFINE first == [ids |-> e, candidate |-> p]
           Pass(s, k) == Filled(e, u, s, k)
           Upto(n, g) == g = [k \in 0..n |-> IF k = 0 THEN first ELSE Pass(g[k - 1], k)]
           S == {n \in Nat : \E g : Upto(n, g)}
<1> HIDE DEF first, Pass
<1>1. 0 \in S
    <2> DEFINE g == [k \in 0..0 |-> first]
    <2>1. \A k \in 0..0 : k = 0
        OBVIOUS
    <2>2. Upto(0, g)
        BY <2>1
    <2> QED
        BY <2>2
<1>2. \A n \in Nat : n \in S => n + 1 \in S
    <2> TAKE n \in Nat
    <2> HAVE n \in S
    <2>1. PICK g : Upto(n, g)
        OBVIOUS
    <2> DEFINE h == [k \in 0..n + 1 |-> IF k = n + 1 THEN Pass(g[n], n + 1) ELSE g[k]]
    <2>2. \A k \in 0..n + 1 : h[k] = IF k = 0 THEN first ELSE Pass(h[k - 1], k)
        <3> TAKE k \in 0..n + 1
        <3>1. CASE k = 0
            <4>1. 0 \in 0..n /\ 0 # n + 1 /\ 0 \in 0..n + 1
                OBVIOUS
            <4> QED
                BY <3>1, <4>1, <2>1
        <3>2. CASE k = n + 1
            <4>1. k - 1 = n /\ n \in 0..n + 1 /\ n # n + 1 /\ k # 0
                BY <3>2
            <4> QED
                BY <3>2, <4>1
        <3>3. CASE k \in 1..n
            <4>1. /\ k - 1 \in 0..n /\ k \in 0..n /\ k # n + 1 /\ k - 1 # n + 1 /\ k # 0
                  /\ k - 1 \in 0..n + 1
                BY <3>3
            <4>2. h[k] = g[k] /\ h[k - 1] = g[k - 1]
                BY <4>1
            <4>3. g[k] = Pass(g[k - 1], k)
                BY <4>1, <2>1
            <4> QED
                BY <4>1, <4>2, <4>3
        <3> QED
            BY <3>1, <3>2, <3>3
    <2>3. h = [k \in 0..n + 1 |-> h[k]]
        OBVIOUS
    <2> HIDE DEF h
    <2>4. Upto(n + 1, h)
        BY <2>2, <2>3
    <2> QED
        BY <2>4
<1> HIDE DEF S
<1>3. Count \in S
    BY <1>1, <1>2, CountingUp, RoleFacts
<1> QED
    BY <1>3 DEF S, first, Pass, Passes

\* The k-th role is the one that the first k have and the first k - 1 have not.
LEMMA MissingStep ==
    ASSUME NEW e, NEW k \in 1..Count
    PROVE  /\ RULE_ROLES[k] \in Roles
           /\ Missing(e, k - 1) \in SUBSET (Roles \ DOMAIN e)
           /\ RULE_ROLES[k] \notin Missing(e, k - 1)
           /\ RULE_ROLES[k] \in DOMAIN e => Missing(e, k) = Missing(e, k - 1)
           /\ RULE_ROLES[k] \notin DOMAIN e
              => Missing(e, k) = Missing(e, k - 1) \cup {RULE_ROLES[k]}
<1>1. Count \in Nat /\ k \in Nat /\ 1..k = (1..k - 1) \cup {k} /\ k \notin 1..k - 1
    BY RoleFacts
<1>2. \A i \in 1..k - 1 : i \in 1..Count
    BY <1>1
<1>3. \A i \in 1..k - 1 : RULE_ROLES[i] \in Roles /\ RULE_ROLES[i] # RULE_ROLES[k]
    BY <1>1, <1>2, RoleFacts
<1>4. RULE_ROLES[k] \in Roles
    BY RoleFacts
<1>5. {RULE_ROLES[i] : i \in 1..k} = {RULE_ROLES[i] : i \in 1..k - 1} \cup {RULE_ROLES[k]}
    BY <1>1
<1> QED
    BY <1>3, <1>4, <1>5 DEF Missing

\* There are finitely many identifiers, and fewer than the roles that nobody named when
\* all of them went to the first k - 1 of these and the k-th is one.
LEMMA RoomIsFinite ==
    ASSUME NEW e, NEW u, NEW p
    PROVE  Room(e, u, p) \in SUBSET Custom /\ IsFiniteSet(Room(e, u, p))
<1>1. Room(e, u, p) \in SUBSET Custom
    BY DEF Room
<1>2. IsFiniteSet(Custom)
    BY IntervalAssumption, FS_Interval DEF Custom
<1> QED
    BY <1>1, <1>2, FS_Subset

LEMMA TooFew ==
    ASSUME NEW e, NEW u, NEW p, NEW k \in 1..Count, NEW f, RULE_ROLES[k] \notin DOMAIN e,
           \A r \in Missing(e, k - 1) : f[r] \in Room(e, u, p),
           \A c \in Room(e, u, p) : \E r \in Missing(e, k - 1) : f[r] = c
    PROVE  Cardinality(Room(e, u, p)) < Cardinality(Roles \ DOMAIN e)
<1> DEFINE M == Missing(e, k - 1)
           R == Room(e, u, p)
           A == Roles \ DOMAIN e
           g == [r \in M |-> f[r]]
<1>1. M \in SUBSET A /\ RULE_ROLES[k] \in A /\ RULE_ROLES[k] \notin M
    BY MissingStep
<1>2. IsFiniteSet(A)
    BY RoleFacts, FS_Subset
<1> HIDE DEF M, R, A
<1>3. g \in [M -> R] /\ \A c \in R : \E r \in M : g[r] = c
    BY DEF M, R
<1> HIDE DEF g
<1>4. g \in Surjection(M, R)
    BY <1>3 DEF Surjection
<1>5. IsFiniteSet(M) /\ Cardinality(M) <= Cardinality(A) /\ Cardinality(M) # Cardinality(A)
    BY <1>1, <1>2, FS_Subset
<1>6. IsFiniteSet(R) /\ Cardinality(R) <= Cardinality(M)
    BY <1>4, <1>5, FS_Surjection
<1>7. Cardinality(R) \in Nat /\ Cardinality(M) \in Nat /\ Cardinality(A) \in Nat
    BY <1>2, <1>5, <1>6, FS_CardinalityType
<1>8. Cardinality(R) < Cardinality(A)
    BY <1>5, <1>6, <1>7
<1> QED
    BY <1>8 DEF R, A

\* One pass keeps what is said of the passes before it.
LEMMA FillStep ==
    ASSUME NEW e, NEW u, NEW p \in Nat, NEW k \in 1..Count, NEW s,
           p \in Custom \/ DOMAIN e = Roles,
           Roomy(e, u, p, k - 1, s) \/ Exhausted(e, u, p, s)
    PROVE  \/ Roomy(e, u, p, k, Filled(e, u, s, k))
           \/ Exhausted(e, u, p, Filled(e, u, s, k))
<1> DEFINE q == RULE_ROLES[k]
           c == NextFree(u \cup Range(e), s.candidate)
           z == Filled(e, u, s, k)
           R == Room(e, u, p)
           M == Missing(e, k - 1)
<1>1. /\ q \in Roles /\ q \notin M /\ M \in SUBSET (Roles \ DOMAIN e)
      /\ q \in DOMAIN e => Missing(e, k) = M
      /\ q \notin DOMAIN e => Missing(e, k) = M \cup {q}
    BY MissingStep
<1>2. s.candidate \in Nat
    BY DEF Roomy, Exhausted
<1>3. /\ c \in Nat /\ c >= s.candidate
      /\ c \notin u \cup Range(e) \/ c > CUSTOM_MAX
      /\ \A n \in Nat : n >= s.candidate /\ n < c => n \in u \cup Range(e)
    BY <1>2, NextFreeIsNext
<1>4. /\ CUSTOM_MIN \in Nat /\ CUSTOM_MAX \in Nat
      /\ q \notin DOMAIN e => p >= CUSTOM_MIN
    BY <1>1, IntervalAssumption DEF Custom
<1>5. R \in SUBSET Nat /\ \A n \in R : n <= CUSTOM_MAX /\ n \notin u \cup Range(e)
    BY <1>4 DEF Room, Custom
<1>6. \A n \in R : n < c => n < s.candidate
    <2> TAKE n \in R
    <2>1. n \in Nat /\ n \notin u \cup Range(e)
        BY <1>5
    <2> DEFINE m == s.candidate
    <2>2. m \in Nat /\ (n >= m /\ n < c => n \in u \cup Range(e))
        BY <2>1, <1>2, <1>3
    <2> HIDE DEF m, c
    <2>3. n < c => n < m
        BY <2>1, <2>2
    <2> QED
        BY <2>3 DEF m
<1>7. CASE q \in DOMAIN e
    <2>1. z = s
        BY <1>7 DEF Filled
    <2> HIDE DEF z
    <2>2. Roomy(e, u, p, k - 1, s) => Roomy(e, u, p, k, s)
        BY <1>1, <1>7 DEF Roomy
    <2> QED
        BY <2>1, <2>2 DEF z
<1>8. CASE q \notin DOMAIN e /\ c > CUSTOM_MAX
    <2>1. z.ids = NoIds /\ z.candidate = c + 1
        BY <1>8 DEF Filled
    <2>2. Cardinality(R) < Cardinality(Roles \ DOMAIN e)
        <3>1. CASE Roomy(e, u, p, k - 1, s)
            <4>1. \A r \in M : s.ids[r] \in R
                BY <3>1 DEF Roomy
            <4>2. \A n \in R : n < c
                BY <1>5, <1>8, <1>3, <1>4
            <4>3. \A n \in R : \E r \in M : s.ids[r] = n
                BY <3>1, <4>2, <1>6 DEF Roomy
            <4> DEFINE f == s.ids
            <4>4. (\A r \in M : f[r] \in R) /\ (\A n \in R : \E r \in M : f[r] = n)
                BY <4>1, <4>3
            <4> HIDE DEF f
            <4> QED
                BY <4>4, <1>8, TooFew
        <3>2. CASE Exhausted(e, u, p, s)
            BY <3>2 DEF Exhausted
        <3> QED
            BY <3>1, <3>2
    <2> HIDE DEF z, c, R
    <2>3. z.candidate \in Nat /\ z.candidate > CUSTOM_MAX
        BY <2>1, <1>8, <1>3, <1>4
    <2> QED
        BY <2>1, <2>2, <2>3 DEF Exhausted, z, R
<1>9. CASE q \notin DOMAIN e /\ ~(c > CUSTOM_MAX)
    <2>1. Roomy(e, u, p, k - 1, s)
        BY <1>9, <1>3, <1>4 DEF Exhausted
    <2>2. z.ids = Completed(s.ids, [r \in {q} |-> c]) /\ z.candidate = c + 1
        BY <1>9 DEF Filled
    <2>3. s.ids = [r \in DOMAIN e \cup M |-> s.ids[r]]
        BY <2>1 DEF Roomy
    <2>4. c \in R
        <3>1. s.candidate >= p
            BY <2>1 DEF Roomy
        <3>2. c >= p /\ c >= CUSTOM_MIN /\ c <= CUSTOM_MAX
            BY <3>1, <1>9, <1>2, <1>3, <1>4
        <3>3. c \in Custom
            BY <3>2, <1>3, <1>4 DEF Custom
        <3> QED
            BY <3>2, <3>3, <1>3, <1>9 DEF Room
    <2> HIDE DEF z, c
    <2>5. z.ids = [r \in DOMAIN e \cup M \cup {q} |-> IF r = q THEN c ELSE s.ids[r]]
        <3> DEFINE f == s.ids
        <3> DEFINE D == DOMAIN e \cup M
        <3>1. f = [r \in D |-> f[r]] /\ q \notin D
            BY <2>3, <1>1, <1>9
        <3> HIDE DEF f, D, q
        <3>2. Completed(f, [r \in {q} |-> c])
              = [r \in D \cup {q} |-> IF r = q THEN c ELSE f[r]]
            <4>1. DOMAIN f = D /\ DOMAIN [r \in {q} |-> c] = {q} /\ [r \in {q} |-> c][q] = c
                BY <3>1
            <4>2. \A r \in D \cup {q} : r \in D <=> r # q
                BY <3>1
            <4> QED
                BY <4>1, <4>2 DEF Completed
        <3> QED
            BY <3>2, <2>2 DEF f, D
    <2>6. Missing(e, k) = M \cup {q}
        BY <1>1, <1>9
    <2> HIDE DEF M, q
    <2>7. /\ z.ids = [r \in DOMAIN e \cup Missing(e, k) |-> z.ids[r]]
          /\ z.ids[q] = c
          /\ \A r \in DOMAIN e \cup M : z.ids[r] = s.ids[r]
        BY <2>5, <2>6, <1>1, <1>9
    <2>8. \A r \in DOMAIN e : z.ids[r] = e[r]
        BY <2>1, <2>7 DEF Roomy
    <2>9. \A r \in M : s.ids[r] \in R /\ s.ids[r] < s.candidate
        BY <2>1 DEF Roomy, M
    <2>10. z.candidate \in Nat /\ z.candidate >= p
        <3>1. s.candidate >= p
            BY <2>1 DEF Roomy
        <3> QED
            BY <3>1, <2>2, <1>2, <1>3, <1>4
    <2>11. c < z.candidate /\ \A n \in R : n < s.candidate => n < z.candidate /\ n # c
        BY <2>2, <1>2, <1>3, <1>5
    <2> HIDE DEF R
    <2>12. \A r \in Missing(e, k) : z.ids[r] \in R /\ z.ids[r] < z.candidate
        BY <2>4, <2>6, <2>7, <2>9, <2>11
    <2>13. \A a, b \in Missing(e, k) : z.ids[a] = z.ids[b] => a = b
        <3>1. \A a, b \in M : s.ids[a] = s.ids[b] => a = b
            BY <2>1 DEF Roomy, M
        <3>2. \A a \in M : z.ids[a] # c /\ z.ids[a] = s.ids[a]
            BY <2>7, <2>9, <2>11
        <3> QED
            BY <3>1, <3>2, <2>6, <2>7
    <2>14. \A n \in R : n < z.candidate => \E r \in Missing(e, k) : z.ids[r] = n
        <3> TAKE n \in R
        <3> HAVE n < z.candidate
        <3>1. n = c \/ n < c
            BY <2>2, <1>3, <1>5 DEF R
        <3>2. CASE n = c
            BY <3>2, <2>6, <2>7
        <3>3. CASE n < c
            <4>1. n < s.candidate
                BY <3>3, <1>6
            <4>2. \E r \in M : s.ids[r] = n
                BY <4>1, <2>1 DEF Roomy, M, R
            <4> QED
                BY <4>2, <2>6, <2>7
        <3> QED
            BY <3>1, <3>2, <3>3
    <2>15. Roomy(e, u, p, k, z)
        BY <2>7, <2>8, <2>10, <2>12, <2>13, <2>14 DEF Roomy, R
    <2> QED
        BY <2>15 DEF z
<1> QED
    BY <1>7, <1>8, <1>9

\* What Fill returns is what the last pass leaves.
LEMMA FillFacts ==
    ASSUME NEW e, preferred_start \in Nat, preferred_start \in Custom \/ DOMAIN e = Roles,
           e = [r \in DOMAIN e |-> e[r]]
    PROVE  \E s : /\ s.ids = Fill(e)
                  /\ \/ Roomy(e, used, preferred_start, Count, s)
                     \/ Exhausted(e, used, preferred_start, s)
<1> DEFINE p == preferred_start
           fill == CHOOSE g : Passes(e, used, p, g)
<1>1. Fill(e) = fill[Count].ids
    BY DEF Fill, Filled, Passes
<1> HIDE DEF p
<1>2. \E g : Passes(e, used, p, g)
    BY FillExists
<1>3. Passes(e, used, p, fill)
    BY <1>2
<1> HIDE DEF fill
<1>4. /\ fill[0] = [ids |-> e, candidate |-> p]
      /\ \A k \in 1..Count : fill[k] = Filled(e, used, fill[k - 1], k)
    BY <1>3, RoleFacts DEF Passes
<1> DEFINE Fine(k) == Roomy(e, used, p, k, fill[k]) \/ Exhausted(e, used, p, fill[k])
           S == {k \in Nat : k <= Count => Fine(k)}
<1>5. p \in Nat /\ (p \in Custom \/ DOMAIN e = Roles) /\ Count \in Nat
    BY RoleFacts DEF p
<1>6. 0 \in S
    <2>1. Missing(e, 0) = {}
        BY DEF Missing
    <2>2. \A c \in Room(e, used, p) : ~(c < p)
        BY <1>5, IntervalAssumption DEF Room, Custom
    <2>3. Roomy(e, used, p, 0, fill[0])
        BY <2>1, <2>2, <1>4, <1>5 DEF Roomy
    <2> QED
        BY <2>3
<1>7. \A k \in Nat : k \in S => k + 1 \in S
    <2> SUFFICES ASSUME NEW k \in Nat, k \in S, k + 1 <= Count
                 PROVE  Fine(k + 1)
        OBVIOUS
    <2>1. k + 1 \in 1..Count /\ (k + 1) - 1 = k /\ k <= Count
        BY <1>5
    <2>2. Fine(k)
        BY <2>1
    <2> DEFINE n == k + 1
               s == fill[k]
    <2>3. fill[n] = Filled(e, used, s, n) /\ n \in 1..Count /\ n - 1 = k
        BY <1>4, <2>1
    <2>4. Roomy(e, used, p, n - 1, s) \/ Exhausted(e, used, p, s)
        BY <2>2, <2>3
    <2> HIDE DEF n, s
    <2>5. \/ Roomy(e, used, p, n, Filled(e, used, s, n))
          \/ Exhausted(e, used, p, Filled(e, used, s, n))
        BY <2>3, <2>4, <1>5, FillStep
    <2> QED
        BY <2>3, <2>5 DEF n
<1> HIDE DEF S
<1>8. Count \in S
    BY <1>5, <1>6, <1>7, CountingUp
<1>9. Fine(Count)
    BY <1>8, <1>5 DEF S
<1> QED
    BY <1>1, <1>9 DEF p

-----------------------------------------------------------------------------
(* What allocate_ids returns.                                              *)

\* The range from s on is free, and starts no earlier than p.
RangeFits(u, p, s) == s..s + Count - 1 \subseteq {c \in Custom : c >= p /\ c \notin u}

\* What i, allocated when e is named, u is taken and p is the preferred start, should be.
Chosen(i, e, u, p) ==
  /\ Numbering(i, Custom) /\ DOMAIN i = Roles /\ IsInjective(i)
  /\ Range(i) \cap u = {}
  /\ \A r \in DOMAIN e : i[r] = e[r]
  /\ e = NoIds =>
       \E s \in Custom : /\ Range(i) = s..s + Count - 1
                         /\ RangeFits(u, p, s) /\ \A t \in 0..s - 1 : ~RangeFits(u, p, t)
  /\ e # NoIds =>
       \A r \in Roles \ DOMAIN e : \A c \in Room(e, u, p) : c < i[r] => c \in Range(i)

\* What excuses a refusal.
NoRoom(e, u, p) ==
  \/ \E r \in DOMAIN e : e[r] \in u \/ e[r] \notin Custom
  \/ \E r, s \in DOMAIN e : r # s /\ e[r] = e[s]
  \/ p \notin Custom
  \/ e = NoIds /\ \A s \in Custom : ~RangeFits(u, p, s)
  \/ e # NoIds /\ Cardinality(Room(e, u, p)) < Cardinality(Roles \ DOMAIN e)

\* A range that fits starts where the loop could find it.
LEMMA FitsFacts ==
    ASSUME NEW u, NEW p, NEW s \in Nat, RangeFits(u, p, s)
    PROVE  s \in Custom /\ s >= p /\ s \in Fitting(u)
<1>1. Count \in Nat /\ Count >= 1 /\ CUSTOM_MIN \in Nat /\ CUSTOM_MAX \in Nat
    BY RoleFacts, IntervalAssumption
<1>2. s \in s..s + Count - 1 /\ s + Count - 1 \in s..s + Count - 1
    BY <1>1
<1>3. s \in Custom /\ s >= p /\ s + Count - 1 <= CUSTOM_MAX
    BY <1>1, <1>2 DEF RangeFits, Custom
<1>4. (s..s + Count - 1) \cap u = {}
    BY DEF RangeFits
<1> QED
    BY <1>3, <1>4 DEF Fitting

\* Nobody named an identifier, and a range fits.
LEMMA RangeIsChosen ==
    ASSUME NEW u, NEW p \in Custom, NEW F \in Fitting(u), F >= p,
           \A t \in Fitting(u) : t >= p => F <= t
    PROVE  Chosen([r \in Roles |-> F + (CHOOSE i \in 1..Count : RULE_ROLES[i] = r) - 1],
                  NoIds, u, p)
<1> DEFINE at(r) == CHOOSE i \in 1..Count : RULE_ROLES[i] = r
           ns == [r \in Roles |-> F + at(r) - 1]
<1>1. /\ Count \in Nat /\ Count >= 1 /\ CUSTOM_MIN \in Nat /\ CUSTOM_MAX \in Nat
      /\ p \in Nat /\ p >= CUSTOM_MIN
    BY RoleFacts, IntervalAssumption DEF Custom
<1>2. F \in Nat /\ F + Count - 1 <= CUSTOM_MAX /\ (F..F + Count - 1) \cap u = {}
    BY DEF Fitting
<1>3. \A r \in Roles : at(r) \in 1..Count /\ RULE_ROLES[at(r)] = r
    BY RoleFacts
<1>4. \A i \in 1..Count : RULE_ROLES[i] \in Roles /\ at(RULE_ROLES[i]) = i
    BY <1>3, RoleFacts
<1> HIDE DEF at
<1>5. \A r \in Roles : ns[r] \in F..F + Count - 1
    BY <1>1, <1>2, <1>3
<1>6. F..F + Count - 1 \subseteq {c \in Custom : c >= p /\ c \notin u}
    BY <1>1, <1>2 DEF Custom
<1>7. Numbering(ns, Custom) /\ DOMAIN ns = Roles
    BY <1>5, <1>6 DEF Numbering
<1>8. IsInjective(ns)
    <2> SUFFICES ASSUME NEW q \in Roles, NEW r \in Roles, ns[q] = ns[r]
                 PROVE  q = r
        BY DEF IsInjective
    <2>1. at(q) = at(r)
        BY <1>2, <1>3
    <2> QED
        BY <2>1, <1>3
<1>9. Range(ns) = F..F + Count - 1
    <2>1. \A n \in F..F + Count - 1 : \E r \in Roles : ns[r] = n
        <3> TAKE n \in F..F + Count - 1
        <3> DEFINE j == n - F + 1
        <3>1. j \in 1..Count /\ F + j - 1 = n
            BY <1>1, <1>2
        <3> HIDE DEF j
        <3>2. RULE_ROLES[j] \in Roles /\ ns[RULE_ROLES[j]] = n
            BY <3>1, <1>4
        <3> QED
            BY <3>2
    <2> HIDE DEF ns
    <2> QED
        BY <2>1, <1>5, <1>7 DEF Range
<1> HIDE DEF ns
<1>10. Range(ns) \cap u = {}
    BY <1>2, <1>9
<1>11. F \in Custom /\ RangeFits(u, p, F)
    <2>1. F \in F..F + Count - 1
        BY <1>1, <1>2
    <2> QED
        BY <2>1, <1>6 DEF RangeFits
<1>12. \A t \in 0..F - 1 : ~RangeFits(u, p, t)
    <2> SUFFICES ASSUME NEW t \in 0..F - 1, RangeFits(u, p, t)
                 PROVE  FALSE
        OBVIOUS
    <2>1. t \in Nat /\ ~(F <= t)
        BY <1>2
    <2>2. t >= p /\ t \in Fitting(u)
        BY <2>1, FitsFacts
    <2> QED
        BY <2>1, <2>2
<1>13. Chosen(ns, NoIds, u, p)
    BY <1>7, <1>8, <1>9, <1>10, <1>11, <1>12, NoIdsFacts DEF Chosen
<1> QED
    BY <1>13 DEF ns, at

\* Somebody named some, and the passes found room for the rest.
LEMMA RoomyIsChosen ==
    ASSUME NEW e, NEW u, NEW p \in Nat, NEW s, Roomy(e, u, p, Count, s),
           Numbering(e, Custom), IsInjective(e), Range(e) \cap u = {}, e # NoIds
    PROVE  Chosen(s.ids, e, u, p)
<1> DEFINE i == s.ids
           R == Room(e, u, p)
           M == Roles \ DOMAIN e
<1>1. Missing(e, Count) = M
    <2>1. {RULE_ROLES[k] : k \in 1..Count} = Roles
        BY RoleFacts
    <2> QED
        BY <2>1 DEF Missing
<1>2. DOMAIN e \cup M = Roles
    BY DEF Numbering
<1> HIDE DEF M, R
<1>3. /\ i = [r \in DOMAIN e \cup M |-> i[r]]
      /\ \A r \in DOMAIN e : i[r] = e[r]
      /\ s.candidate \in Nat
      /\ \A r \in M : i[r] \in R /\ i[r] < s.candidate
      /\ \A q, r \in M : i[q] = i[r] => q = r
      /\ \A c \in R : c < s.candidate => \E r \in M : i[r] = c
    BY <1>1 DEF Roomy, R
<1> HIDE DEF i
<1>4. i = [r \in Roles |-> i[r]]
    BY <1>2, <1>3
<1>5. \A n \in R : n \in Custom /\ n \in Nat /\ n \notin u /\ n \notin Range(e)
    BY IntervalAssumption DEF R, Room, Custom
<1>6. \A r \in DOMAIN e : e[r] \in Custom /\ e[r] \in Range(e) /\ e[r] \notin u
    BY DEF Numbering, Range
<1>7. \A r \in Roles : i[r] \in Custom /\ i[r] \notin u
    BY <1>2, <1>3, <1>5, <1>6
<1>8. Numbering(i, Custom) /\ DOMAIN i = Roles /\ Range(i) \cap u = {}
    BY <1>4, <1>7 DEF Numbering, Range
<1>9. IsInjective(i)
    <2>1. \A q, r \in DOMAIN e : i[q] = i[r] => q = r
        BY <1>3 DEF IsInjective
    <2>2. \A q \in DOMAIN e : \A r \in M : i[q] # i[r]
        BY <1>3, <1>5, <1>6
    <2> QED
        BY <2>1, <2>2, <1>2, <1>3, <1>8 DEF IsInjective
<1>10. \A r \in M : \A c \in R : c < i[r] => c \in Range(i)
    <2> SUFFICES ASSUME NEW r \in M, NEW c \in R, c < i[r]
                 PROVE  c \in Range(i)
        OBVIOUS
    <2>1. c < s.candidate
        BY <1>3, <1>5
    <2>2. PICK q \in M : i[q] = c
        BY <2>1, <1>3
    <2>3. q \in DOMAIN i
        BY <1>2, <1>8
    <2> QED
        BY <2>2, <2>3 DEF Range
<1>11. Chosen(i, e, u, p)
    BY <1>3, <1>8, <1>9, <1>10 DEF Chosen, M, R
<1> QED
    BY <1>11 DEF i

\* allocate_ids chooses as it should, or has an excuse.
LEMMA AllocateFacts ==
    ASSUME NEW e, Numbering(e, Nat), preferred_start \in Nat
    PROVE  \/ allocate_ids(e) = NoIds /\ NoRoom(e, used, preferred_start)
           \/ allocate_ids(e) # NoIds /\ Chosen(allocate_ids(e), e, used, preferred_start)
<1> DEFINE p == preferred_start
<1>1. CASE Rejected(e)
    <2>1. allocate_ids(e) = NoIds
        BY <1>1 DEF allocate_ids
    <2>2. NoRoom(e, used, p)
        <3> HIDE DEF p
        <3> QED
            BY <1>1 DEF Rejected, Range, IsInjective, NoRoom
    <2> QED
        BY <2>1, <2>2
<1>2. CASE ~Rejected(e) /\ DOMAIN e # Roles /\ p \notin Custom
    BY <1>2 DEF allocate_ids, NoRoom
<1>3. CASE ~Rejected(e) /\ (DOMAIN e = Roles \/ p \in Custom) /\ e = NoIds
    <2>1. p \in Custom
        BY <1>3, NoIdsFacts
    <2>2. allocate_ids(e)
          = IF FirstRange > CUSTOM_MAX THEN NoIds
            ELSE [r \in Roles |->
                    FirstRange + (CHOOSE i \in 1..Count : RULE_ROLES[i] = r) - 1]
        BY <1>3 DEF allocate_ids
    <2>3. \/ /\ FirstRange \in Fitting(used) /\ FirstRange >= p
             /\ \A t \in Fitting(used) : t >= p => FirstRange <= t
          \/ /\ FirstRange = CUSTOM_MAX + 1
             /\ \A t \in Fitting(used) : t < p
        BY FirstRangeIsFirst
    <2> DEFINE F == FirstRange
    <2>4. CUSTOM_MAX \in Nat /\ Count \in Nat /\ Count >= 1
        BY IntervalAssumption, RoleFacts
    <2> HIDE DEF F, p
    <2>5. CASE /\ F \in Fitting(used) /\ F >= p
               /\ \A t \in Fitting(used) : t >= p => F <= t
        <3>1. ~(F > CUSTOM_MAX)
            BY <2>4, <2>5 DEF Fitting
        <3>2. Chosen([r \in Roles |-> F + (CHOOSE i \in 1..Count : RULE_ROLES[i] = r) - 1],
                     NoIds, used, p)
            BY <2>1, <2>5, RangeIsChosen
        <3>3. allocate_ids(e)
              = [r \in Roles |-> F + (CHOOSE i \in 1..Count : RULE_ROLES[i] = r) - 1]
            BY <2>2, <3>1 DEF F
        <3>4. Chosen(allocate_ids(e), e, used, p)
            BY <3>2, <3>3, <1>3
        <3>5. allocate_ids(e) # NoIds
            BY <3>4, NoIdsFacts DEF Chosen
        <3> QED
            BY <3>4, <3>5 DEF p
    <2>6. CASE F = CUSTOM_MAX + 1 /\ \A t \in Fitting(used) : t < p
        <3>1. F > CUSTOM_MAX
            BY <2>4, <2>6
        <3>2. allocate_ids(e) = NoIds
            BY <2>2, <3>1 DEF F
        <3>3. \A s \in Custom : ~RangeFits(used, p, s)
            <4> SUFFICES ASSUME NEW s \in Custom, RangeFits(used, p, s)
                         PROVE  FALSE
                OBVIOUS
            <4>1. s \in Nat /\ p \in Nat
                BY <2>1, IntervalAssumption DEF Custom
            <4>2. s >= p /\ s \in Fitting(used)
                BY <4>1, FitsFacts
            <4> QED
                BY <4>1, <4>2, <2>6
        <3> QED
            BY <3>2, <3>3, <1>3 DEF NoRoom, p
    <2> QED
        BY <2>3, <2>5, <2>6 DEF F, p
<1>4. CASE ~Rejected(e) /\ (DOMAIN e = Roles \/ p \in Custom) /\ e # NoIds
    <2>1. allocate_ids(e) = Fill(e)
        BY <1>4 DEF allocate_ids
    <2>2. e = [r \in DOMAIN e |-> e[r]]
        BY DEF Numbering
    <2>3. PICK s : /\ s.ids = Fill(e)
                   /\ Roomy(e, used, p, Count, s) \/ Exhausted(e, used, p, s)
        BY <1>4, <2>2, FillFacts
    <2> HIDE DEF p
    <2>4. CASE Roomy(e, used, p, Count, s)
        <3>1. Numbering(e, Custom) /\ IsInjective(e) /\ Range(e) \cap used = {}
            BY <1>4 DEF Rejected, Numbering, Range
        <3>2. Chosen(s.ids, e, used, p)
            BY <2>4, <3>1, <1>4, RoomyIsChosen DEF p
        <3>3. s.ids # NoIds
            BY <3>2, NoIdsFacts DEF Chosen
        <3> QED
            BY <2>1, <2>3, <3>2, <3>3 DEF p
    <2>5. CASE Exhausted(e, used, p, s)
        BY <2>1, <2>3, <2>5, <1>4 DEF Exhausted, NoRoom, p
    <2> QED
        BY <2>3, <2>4, <2>5
<1> QED
    BY <1>1, <1>2, <1>3, <1>4

-----------------------------------------------------------------------------
(* The invariant.                                                          *)

\* What is about to be installed was chosen for what is named and taken now: nothing
\* changes these two between the allocation and the installation.
ChosenOK == pc = "install" => Chosen(ids, explicit, used, preferred_start)

RefusedOK == pc = "refused" => NoRoom(explicit, used, preferred_start)

\* A run that was given nothing names what the installed policy has.
NamedOK ==
  args = NoArgs /\ pc \in {"allocate", "install"} =>
    \A r \in DOMAIN policy : r \in DOMAIN explicit /\ explicit[r] = policy[r]

\* The wizard is asked for.
WizardOK == pc \in {"wizard", "reallocate"} => args.wizard

IInv == TypeOK /\ ChosenOK /\ RefusedOK /\ NamedOK /\ WizardOK

\* A command line, and the start it leaves.
LEMMA ArgsFacts ==
    ASSUME NEW a \in Requests \cup {NoArgs}
    PROVE  /\ Numbering(a.named, Nat) /\ a.start \in Nat /\ a.wizard \in BOOLEAN
           /\ (IF a.start = 0 THEN DefaultStart ELSE a.start) \in Nat
<1>1. Numbering(a.named, Nat) /\ a.start \in Nat /\ a.wizard \in BOOLEAN
    <2>1. CASE a \in Requests
        BY <2>1, RequestsAssumption
    <2>2. CASE a = NoArgs
        <3>1. a.named = NoIds /\ a.start = 0 /\ a.wizard = FALSE
            BY <2>2 DEF NoArgs
        <3>2. Numbering(a.named, Nat)
            BY <3>1, NoIdsFacts
        <3>3. a.start \in Nat
            BY <3>1
        <3>4. a.wizard \in BOOLEAN
            BY <3>1
        <3> QED
            BY <3>2, <3>3, <3>4
    <2> QED
        BY <2>1, <2>2
<1>2. DefaultStart \in Nat
    BY IntervalAssumption
<1> QED
    BY <1>1, <1>2

\* What completes identifiers of some roles are identifiers of some roles.
LEMMA CompletedFacts ==
    ASSUME NEW f, NEW g, Numbering(f, Nat), Numbering(g, Custom)
    PROVE  /\ Numbering(Completed(f, g), Nat) /\ Numbering(Completed(g, f), Nat)
           /\ DOMAIN f = {} => /\ DOMAIN Completed(f, g) = DOMAIN g
                               /\ \A r \in DOMAIN g : Completed(f, g)[r] = g[r]
<1>1. \A r \in DOMAIN g : g[r] \in Nat
    BY IntervalAssumption DEF Numbering, Custom
<1>2. DOMAIN Completed(f, g) = DOMAIN f \cup DOMAIN g
    BY DEF Completed
<1>3. \A r \in DOMAIN f \cup DOMAIN g :
        Completed(f, g)[r] = IF r \in DOMAIN f THEN f[r] ELSE g[r]
    BY DEF Completed
<1>4. Completed(f, g) \in [DOMAIN f \cup DOMAIN g -> Nat]
    BY <1>1 DEF Completed, Numbering
<1>5. Numbering(Completed(f, g), Nat)
    BY <1>2, <1>4 DEF Numbering
<1>6. Numbering(Completed(g, f), Nat)
    <2>1. DOMAIN Completed(g, f) = DOMAIN g \cup DOMAIN f
        BY DEF Completed
    <2>2. Completed(g, f) \in [DOMAIN g \cup DOMAIN f -> Nat]
        BY <1>1 DEF Completed, Numbering
    <2> QED
        BY <2>1, <2>2 DEF Numbering
<1> QED
    BY <1>2, <1>3, <1>5, <1>6

\* The first state has nothing named, allocated or installed.
LEMMA InitInvariant == Init => IInv
<1> SUFFICES ASSUME Init PROVE IInv
    OBVIOUS
<1>1. TypeOK
    BY NoIdsFacts DEF Init, TypeOK
<1> QED
    BY <1>1 DEF Init, IInv, ChosenOK, RefusedOK, NamedOK, WizardOK

\* A command line is read.
LEMMA StartStep ==
    ASSUME IInv, NEW a \in Requests, Start(a)
    PROVE  IInv'
<1>1. /\ pc' = "allocate" /\ args' = a
      /\ explicit' = (IF a.joined THEN Completed(policy, a.named)
                      ELSE IF a.start # 0 THEN a.named
                      ELSE Completed(a.named, policy))
      /\ used' = used /\ policy' = policy /\ ids' = ids
    BY DEF Start
<1>2. /\ used \subseteq Custom /\ Numbering(policy, Custom) /\ Numbering(ids, Custom)
    BY DEF IInv, TypeOK
<1>3. Numbering(a.named, Nat)
    BY ArgsFacts
<1>4. /\ Numbering(Completed(a.named, policy), Nat)
      /\ Numbering(Completed(policy, a.named), Nat)
      /\ DOMAIN a.named = {} => /\ DOMAIN Completed(a.named, policy) = DOMAIN policy
                                /\ \A r \in DOMAIN policy :
                                     Completed(a.named, policy)[r] = policy[r]
    BY <1>2, <1>3, CompletedFacts
<1>5. Numbering(explicit', Nat)
    BY <1>1, <1>3, <1>4
<1>6. TypeOK'
    BY <1>1, <1>2, <1>5 DEF TypeOK
<1>7. NamedOK'
    <2> SUFFICES ASSUME a = NoArgs
                 PROVE  \A r \in DOMAIN policy : r \in DOMAIN explicit' /\ explicit'[r] = policy[r]
        BY <1>1 DEF NamedOK
    <2>1. a.start = 0 /\ a.joined = FALSE /\ a.named = NoIds
        BY DEF NoArgs
    <2>2. explicit' = Completed(a.named, policy) /\ DOMAIN a.named = {}
        BY <1>1, <2>1, NoIdsFacts
    <2> QED
        BY <2>2, <1>4
<1> QED
    BY <1>1, <1>6, <1>7 DEF IInv, ChosenOK, RefusedOK, WizardOK

\* Identifiers are allocated, for the first time or after the wizard.
LEMMA AllocateStep ==
    ASSUME IInv, Allocate \/ Reallocate
    PROVE  IInv'
<1>1. /\ used' = used /\ policy' = policy /\ args' = args /\ explicit' = explicit
      /\ ids' = allocate_ids(explicit)
      /\ pc \in {"allocate", "reallocate"}
      /\ pc' \in {"refused", "wizard", "install"}
      /\ pc' = "refused" <=> ids' = NoIds
      /\ pc' = "wizard" => args.wizard
      /\ pc' = "install" => pc = "allocate" \/ args.wizard
    BY DEF Allocate, Reallocate, IInv, WizardOK
<1>2. /\ used \subseteq Custom /\ Numbering(policy, Custom) /\ Numbering(explicit, Nat)
      /\ args \in Requests \cup {NoArgs}
    BY DEF IInv, TypeOK
<1>3. preferred_start \in Nat /\ preferred_start' = preferred_start
    BY <1>1, <1>2, ArgsFacts DEF preferred_start
<1>4. \/ ids' = NoIds /\ NoRoom(explicit, used, preferred_start)
      \/ ids' # NoIds /\ Chosen(ids', explicit, used, preferred_start)
    BY <1>1, <1>2, <1>3, AllocateFacts
<1>5. Numbering(ids', Custom)
    BY <1>4, NoIdsFacts DEF Chosen
<1>6. TypeOK'
    BY <1>1, <1>2, <1>5 DEF TypeOK
<1>7. ChosenOK' /\ RefusedOK'
    BY <1>1, <1>3, <1>4 DEF ChosenOK, RefusedOK
<1>8. NamedOK'
    <2> SUFFICES ASSUME args = NoArgs, pc' = "install"
                 PROVE  \A r \in DOMAIN policy : r \in DOMAIN explicit /\ explicit[r] = policy[r]
        BY <1>1 DEF NamedOK
    <2>1. ~args.wizard
        BY DEF NoArgs
    <2>2. pc = "allocate"
        BY <1>1, <2>1
    <2> QED
        BY <2>2 DEF IInv, NamedOK
<1> QED
    BY <1>1, <1>6, <1>7, <1>8 DEF IInv, WizardOK

\* The wizard replaces what is named.
LEMMA WizardStep ==
    ASSUME IInv, Wizard
    PROVE  IInv'
<1>1. /\ pc = "wizard" /\ pc' = "reallocate" /\ explicit' \in [Roles -> Custom]
      /\ used' = used /\ policy' = policy /\ args' = args /\ ids' = ids
    BY DEF Wizard
<1>2. Numbering(explicit', Nat)
    BY <1>1, IntervalAssumption DEF Numbering, Custom
<1>3. TypeOK'
    BY <1>1, <1>2 DEF IInv, TypeOK
<1> QED
    BY <1>1, <1>3 DEF IInv, ChosenOK, RefusedOK, NamedOK, WizardOK

\* The run is over.
LEMMA OverStep ==
    ASSUME IInv, Over, Numbering(policy', Custom)
    PROVE  IInv'
<1>1. /\ pc' = "idle" /\ args' = NoArgs /\ explicit' = NoIds /\ ids' = NoIds /\ used' = used
    BY DEF Over
<1>2. TypeOK'
    BY <1>1, NoIdsFacts DEF IInv, TypeOK
<1> QED
    BY <1>1, <1>2 DEF IInv, ChosenOK, RefusedOK, NamedOK, WizardOK

\* Rules come from elsewhere between runs.
LEMMA IdleStep ==
    ASSUME IInv, AddForeignRule \/ InstalledBefore
    PROVE  IInv'
<1>1. pc = "idle" /\ pc' = pc /\ args' = args /\ explicit' = explicit /\ ids' = ids
    BY DEF AddForeignRule, InstalledBefore
<1>2. used' \subseteq Custom
    BY DEF AddForeignRule, InstalledBefore, IInv, TypeOK
<1>3. Numbering(policy', Custom)
    <2>1. Numbering(policy, Custom)
        BY DEF IInv, TypeOK
    <2> QED
        BY <2>1 DEF AddForeignRule, InstalledBefore, Numbering
<1>4. TypeOK'
    BY <1>1, <1>2, <1>3 DEF IInv, TypeOK
<1> QED
    BY <1>1, <1>4 DEF IInv, ChosenOK, RefusedOK, NamedOK, WizardOK

\* Every step preserves the invariant.
LEMMA NextInvariant == IInv /\ [Next]_vars => IInv'
<1> SUFFICES ASSUME IInv, [Next]_vars PROVE IInv'
    OBVIOUS
<1>1. CASE \E a \in Requests : Start(a)
    BY <1>1, StartStep
<1>2. CASE Allocate \/ Reallocate
    BY <1>2, AllocateStep
<1>3. CASE Wizard
    BY <1>3, WizardStep
<1>4. CASE Install
    <2>1. Over
        BY <1>4 DEF Install
    <2>2. Numbering(policy', Custom)
        BY <1>4 DEF Install, IInv, TypeOK
    <2> QED
        BY <2>1, <2>2, OverStep
<1>5. CASE Abandon
    <2>1. Over
        BY <1>5 DEF Abandon
    <2>2. Numbering(policy', Custom)
        BY <1>5 DEF Abandon, IInv, TypeOK
    <2> QED
        BY <2>1, <2>2, OverStep
<1>6. CASE AddForeignRule \/ InstalledBefore
    BY <1>6, IdleStep
<1>7. CASE UNCHANGED vars
    BY <1>7 DEF vars, IInv, TypeOK, ChosenOK, RefusedOK, NamedOK, WizardOK, preferred_start
<1> QED
    BY <1>1, <1>2, <1>3, <1>4, <1>5, <1>6, <1>7 DEF Next

-----------------------------------------------------------------------------
(* The theorems.                                                           *)

\* The inductive invariant holds in every state.
THEOREM InductiveInvariant == Spec => []IInv
BY InitInvariant, NextInvariant, PTL DEF Spec

\* Every variable keeps its type; the identifiers stay in Wazuh's interval.
THEOREM TypeCorrect == Spec => []TypeOK
<1>1. IInv => TypeOK
    BY DEF IInv
<1> QED
    BY <1>1, InductiveInvariant, PTL

\* The identifiers that are about to be installed are one for every role, distinct, not
\* those of an active rule, and the ones that were named.
THEOREM FreeIdsAllocated == Spec => []AllocatedIdsAreFree
<1>1. IInv => AllocatedIdsAreFree
    <2> SUFFICES ASSUME IInv, pc = "install"
                 PROVE  /\ DOMAIN ids = Roles
                        /\ Cardinality(Range(ids)) = Count
                        /\ Range(ids) \cap used = {}
                        /\ \A r \in DOMAIN explicit : ids[r] = explicit[r]
        BY DEF AllocatedIdsAreFree
    <2>1. Chosen(ids, explicit, used, preferred_start)
        BY DEF IInv, ChosenOK
    <2>2. DOMAIN ids = Roles /\ IsInjective(ids)
        BY <2>1 DEF Chosen
    <2>3. Cardinality(Range(ids)) = Count
        BY <2>2, AsManyAsRoles
    <2> QED
        BY <2>1, <2>2, <2>3 DEF Chosen
<1> QED
    BY <1>1, InductiveInvariant, PTL

\* The identifiers that nobody named are the lowest free ones from the preferred start,
\* in one range when nobody named any.
THEOREM LowestIdsAllocated == Spec => []LowestIdsFirst
<1>1. IInv => LowestIdsFirst
    <2> SUFFICES ASSUME IInv, pc = "install" PROVE LowestIdsFirst
        BY DEF LowestIdsFirst
    <2>1. Chosen(ids, explicit, used, preferred_start)
        BY DEF IInv, ChosenOK
    <2>2. \A s : Fits(s) <=> RangeFits(used, preferred_start, s)
        BY DEF Fits, Free, RangeFits
    <2>3. Remaining = Room(explicit, used, preferred_start)
        BY DEF Remaining, Free, Room
    <2>4. ASSUME explicit = NoIds
          PROVE  \E s \in Custom : /\ Range(ids) = s..s + Count - 1
                                   /\ Fits(s) /\ \A t \in 0..s - 1 : ~Fits(t)
        BY <2>1, <2>2, <2>4 DEF Chosen
    <2>5. ASSUME explicit # NoIds
          PROVE  \A r \in Roles \ DOMAIN explicit : \A c \in Remaining :
                   c < ids[r] => c \in Range(ids)
        BY <2>1, <2>3, <2>5 DEF Chosen
    <2> QED
        BY <2>4, <2>5 DEF LowestIdsFirst
<1> QED
    BY <1>1, InductiveInvariant, PTL

\* A refusal has an excuse: a collision, a start outside the interval, or no room.
THEOREM RefusalsExcused == Spec => []RefusesOnlyWithoutRoom
<1>1. IInv => RefusesOnlyWithoutRoom
    <2> SUFFICES ASSUME IInv, pc = "refused" PROVE RefusesOnlyWithoutRoom
        BY DEF RefusesOnlyWithoutRoom
    <2>1. NoRoom(explicit, used, preferred_start)
        BY DEF IInv, RefusedOK
    <2>2. \A s : Fits(s) <=> RangeFits(used, preferred_start, s)
        BY DEF Fits, Free, RangeFits
    <2>3. Remaining = Room(explicit, used, preferred_start)
        BY DEF Remaining, Free, Room
    <2> HIDE DEF preferred_start
    <2> QED
        BY <2>1, <2>2, <2>3 DEF NoRoom, RefusesOnlyWithoutRoom
<1> QED
    BY <1>1, InductiveInvariant, PTL

\* A run without identifiers, start or wizard never renumbers an installed rule.
THEOREM InstalledIdsStay == Spec => InstalledIdsAreKept
<1>1. IInv /\ [Next]_vars
      => [(Install /\ args = NoArgs) => \A r \in DOMAIN policy : policy'[r] = policy[r]]_vars
    <2> SUFFICES ASSUME IInv, Install, args = NoArgs, NEW r \in DOMAIN policy
                 PROVE  policy'[r] = policy[r]
        OBVIOUS
    <2>1. pc = "install" /\ policy' = IF IsInjective(ids) THEN ids ELSE policy
        BY DEF Install
    <2>2. r \in DOMAIN explicit /\ explicit[r] = policy[r]
        BY <2>1 DEF IInv, NamedOK
    <2>3. IsInjective(ids) /\ ids[r] = explicit[r]
        BY <2>1, <2>2 DEF IInv, ChosenOK, Chosen
    <2> QED
        BY <2>1, <2>2, <2>3
<1> QED
    BY <1>1, InductiveInvariant, PTL DEF Spec, InstalledIdsAreKept
=============================================================================
